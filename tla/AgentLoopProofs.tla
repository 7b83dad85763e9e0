-------------------------- MODULE AgentLoopProofs --------------------------
(* Theorems about the reasoning loop, for every step cap and every tool.   *)
EXTENDS AgentLoop, FiniteSetTheorems, TLAPS

\* TypeOK in two parts: the flags, and everything else.
FlagsOK == causal \in BOOLEAN /\ nudged \in BOOLEAN
DataOK ==
  /\ at \in {"agent", "tools", "nudge", "give_up", "end", "failed"}
  /\ steps \in Nat /\ supersteps \in Nat /\ attempt \in 0 .. Retries
  /\ messages \in Seq(Kinds)
  /\ evidence \in Seq(Results)
  /\ answer \in {"none", "model", "limit"}

\* The router answers with a node it has an edge to, never with the agent, and
\* sends the loop on only while there are turns left.
LEMMA RouteBound ==
  ASSUME NEW turns \in Nat, NEW said
  PROVE  /\ Route(turns, said) \in {"nudge", "end", "give_up", "tools"}
         /\ Route(turns, said) \in {"nudge", "tools"} => turns < MaxSteps
<1> DEFINE back == AnswerIsImpossible /\ turns < MaxSteps
<1>1. CASE said # "none" /\ back
  BY <1>1 DEF Route
<1>2. CASE said # "none" /\ ~ back
  BY <1>2 DEF Route
<1>3. CASE said = "none" /\ turns >= MaxSteps
  BY <1>3 DEF Route
<1>4. CASE said = "none" /\ ~ (turns >= MaxSteps)
  BY <1>4, AgentAssumption DEF Route
<1> QED BY <1>1, <1>2, <1>3, <1>4

\* The flags stay flags.
LEMMA FlagsTyped == Spec => []FlagsOK
<1>1. Init => FlagsOK
  BY Zenon DEF Init, FlagsOK
<1>2. FlagsOK /\ [Next]_vars => FlagsOK'
  BY Zenon DEF FlagsOK, Next, PostFails, ModelFails, Answer, CallTool, RunTool,
     ToolRaises, Nudge, GiveUp, vars
<1> QED BY <1>1, <1>2, PTL DEF Spec

\* Step by step: every node leaves data of its type to the next.
LEMMA DataTyped == Spec => []DataOK
<1>1. Init => DataOK
  BY AgentAssumption DEF Init, DataOK
<1>2. ASSUME DataOK, [Next]_vars PROVE DataOK'
  <2> USE <1>2 DEF DataOK
  <2>1. CASE PostFails
    BY <2>1, AgentAssumption DEF PostFails
  <2>2. CASE ModelFails
    BY <2>2 DEF ModelFails
  <2>3. CASE Answer
    <3>1. Route(steps + 1, "model") \in {"nudge", "end", "give_up", "tools"}
      BY RouteBound, steps + 1 \in Nat
    <3>2. messages' \in Seq(Kinds)
      BY <2>3 DEF Answer, Kinds
    <3> QED BY <3>1, <3>2, <2>3, AgentAssumption DEF Answer, RunNode
  <2>4. CASE CallTool
    <3>1. Route(steps + 1, answer) \in {"nudge", "end", "give_up", "tools"}
      BY RouteBound, steps + 1 \in Nat
    <3>2. messages' \in Seq(Kinds)
      BY <2>4 DEF CallTool, Kinds
    <3> QED BY <3>1, <3>2, <2>4, AgentAssumption DEF CallTool, RunNode
  <2>5. ASSUME NEW r \in Results, RunTool(r) PROVE DataOK'
    BY <2>5 DEF RunTool, RunNode, Kinds
  <2>6. CASE Nudge
    <3>1. messages' \in Seq(Kinds)
      <4>1. "nudge" \in Kinds
        BY DEF Kinds
      <4>2. /\ messages = [i \in 1 .. Len(messages) |-> messages[i]]
            /\ Len(messages) \in Nat
            /\ \A i \in 1 .. Len(messages) : messages[i] \in Kinds
        OBVIOUS
      <4>3. messages' \in [1 .. Len(messages) -> Kinds]
        BY <4>1, <4>2, <2>6 DEF Nudge
      <4> QED BY <4>2, <4>3
    <3> QED BY <3>1, <2>6 DEF Nudge, RunNode
  <2>7. CASE GiveUp
    BY <2>7 DEF GiveUp, RunNode, Kinds
  <2>8. CASE ToolRaises
    BY <2>8 DEF ToolRaises
  <2>9. CASE UNCHANGED vars
    BY <2>9 DEF vars
  <2> QED BY <1>2, <2>1, <2>2, <2>3, <2>4, <2>5, <2>6, <2>7, <2>8, <2>9 DEF Next
<1> QED BY <1>1, <1>2, PTL DEF Spec

\* Every reachable state is well typed: the router never names a node that is
\* not there, and no request is retried more often than Retries.
THEOREM TypeCorrect == Spec => []TypeOK
<1>1. FlagsOK /\ DataOK => TypeOK
  BY Zenon DEF FlagsOK, DataOK, TypeOK
<1> QED BY <1>1, FlagsTyped, DataTyped, PTL

\* A turn of the model and the node after it are two supersteps, and the model
\* is asked again only while it has turns left.
THEOREM CapIsKept == Spec => []CapInvariant
<1>1. Init => CapInvariant
  BY DEF Init, CapInvariant
<1>2. ASSUME DataOK, CapInvariant, [Next]_vars PROVE CapInvariant'
  <2> USE <1>2, AgentAssumption DEF DataOK, CapInvariant
  <2>1. CASE PostFails
    BY <2>1 DEF PostFails
  <2>2. CASE ModelFails
    BY <2>2 DEF ModelFails
  <2>3. CASE Answer
    <3>1. /\ at' \in {"nudge", "end", "give_up", "tools"}
          /\ at' \in {"nudge", "tools"} => steps + 1 < MaxSteps
      BY <2>3, RouteBound, steps + 1 \in Nat DEF Answer
    <3> QED BY <3>1, <2>3 DEF Answer, RunNode
  <2>4. CASE CallTool
    <3>1. /\ at' \in {"nudge", "end", "give_up", "tools"}
          /\ at' \in {"nudge", "tools"} => steps + 1 < MaxSteps
      BY <2>4, RouteBound, steps + 1 \in Nat DEF CallTool
    <3> QED BY <3>1, <2>4 DEF CallTool, RunNode
  <2>5. ASSUME NEW r \in Results, RunTool(r) PROVE CapInvariant'
    BY <2>5 DEF RunTool, RunNode
  <2>6. CASE Nudge
    BY <2>6 DEF Nudge, RunNode
  <2>7. CASE GiveUp
    BY <2>7 DEF GiveUp, RunNode
  <2>8. CASE ToolRaises
    BY <2>8 DEF ToolRaises
  <2>9. CASE UNCHANGED vars
    BY <2>9 DEF vars
  <2> QED BY <1>2, <2>1, <2>2, <2>3, <2>4, <2>5, <2>6, <2>7, <2>8, <2>9 DEF Next
<1> QED BY <1>1, <1>2, DataTyped, PTL DEF Spec

\* The recursion limit run_once passes to LangGraph is never reached, so every
\* question that runs out of turns ends in give_up and not in an exception.
THEOREM CapFirst == Spec => []OurCapFirst
<1>1. DataOK /\ CapInvariant => OurCapFirst
  BY AgentAssumption DEF DataOK, CapInvariant, OurCapFirst, RecursionLimit
<1> QED BY <1>1, DataTyped, CapIsKept, PTL

-----------------------------------------------------------------------------
(* The conversation                                                        *)

\* The metrics a conversation has seen can be counted.
LEMMA SeenIsFinite ==
  ASSUME NEW found \in Seq(Results)
  PROVE  Cardinality(MetricsSeen(found)) \in Nat
<1>1. \A i \in DOMAIN found : found[i] \in Results
  OBVIOUS
<1>2. MetricsSeen(found) \in SUBSET Metrics
  BY <1>1, AgentAssumption DEF MetricsSeen, Listed, Result
<1> QED BY <1>2, FS_Subset, FS_CardinalityType, AgentAssumption

\* Where the router sends an answer, and a tool call without one on record
LEMMA RouteSays ==
  ASSUME NEW turns \in Nat
  PROVE  /\ Route(turns, "model") \in {"nudge", "end"}
         /\ Route(turns, "model") = "nudge" => AnswerIsImpossible
         /\ Route(turns, "model") = "end" => ~ AnswerIsImpossible \/ turns >= MaxSteps
         /\ Route(turns, "none") \in {"tools", "give_up"}
<1>1. /\ Route(turns, "model") \in {"nudge", "end"}
      /\ Route(turns, "model") = "nudge" => AnswerIsImpossible
      /\ Route(turns, "model") = "end" => ~ AnswerIsImpossible \/ turns >= MaxSteps
  <2>1. CASE AnswerIsImpossible /\ turns < MaxSteps
    BY <2>1 DEF Route
  <2>2. CASE ~ (AnswerIsImpossible /\ turns < MaxSteps)
    BY <2>2, AgentAssumption DEF Route
  <2> QED BY <2>1, <2>2
<1>2. Route(turns, "none") \in {"tools", "give_up"}
  <2>1. CASE turns >= MaxSteps
    BY <2>1 DEF Route
  <2>2. CASE ~ (turns >= MaxSteps)
    BY <2>2 DEF Route
  <2> QED BY <2>1, <2>2
<1> QED BY <1>1, <1>2

\* What each node leaves at the end of the conversation, the next one expects.
LEMMA ConversationKeepsShape == Spec => []ConversationShape
<1>1. Init => ConversationShape
  BY DEF Init, ConversationShape
<1>2. ASSUME DataOK, ConversationShape, [Next]_vars PROVE ConversationShape'
  <2> USE <1>2 DEF DataOK, ConversationShape, LastAt, Kinds
  <2>1. CASE PostFails
    BY <2>1 DEF PostFails
  <2>2. CASE ModelFails
    BY <2>2 DEF ModelFails
  <2>3. CASE Answer
    BY <2>3, RouteSays, steps + 1 \in Nat DEF Answer, RunNode
  <2>4. CASE CallTool
    BY <2>4, RouteSays, steps + 1 \in Nat DEF CallTool, RunNode
  <2>5. ASSUME NEW r \in Results, RunTool(r) PROVE ConversationShape'
    BY <2>5 DEF RunTool, RunNode
  <2>6. CASE Nudge
    BY <2>6 DEF Nudge, RunNode
  <2>7. CASE GiveUp
    BY <2>7 DEF GiveUp, RunNode
  <2>8. CASE ToolRaises
    BY <2>8 DEF ToolRaises
  <2>9. CASE UNCHANGED vars
    BY <2>9 DEF vars
  <2> QED BY <1>2, <2>1, <2>2, <2>3, <2>4, <2>5, <2>6, <2>7, <2>8, <2>9 DEF Next
<1> QED BY <1>1, <1>2, DataTyped, PTL DEF Spec

\* Every tool call is followed by what the tool said, or by the report of the
\* limit, and no answer that was sent back stays (graph.py's nodes append to
\* and replace messages): what the model reads is a conversation it could have had.
THEOREM ConversationStaysValid == Spec => []ConversationIsValid
<1>1. DataOK /\ ConversationShape => ConversationIsValid
  BY DEF DataOK, ConversationShape, LastAt, ConversationIsValid
<1> QED BY <1>1, DataTyped, ConversationKeepsShape, PTL

\* The user gets the words on record: a question that ends has an answer, which
\* is the last of the conversation (_nudge_node withdraws the one it rejects).
THEOREM AnswerIsOnRecord == Spec => []EndsWithItsAnswer
<1>1. ConversationShape => EndsWithItsAnswer
  BY DEF ConversationShape, EndsWithItsAnswer
<1> QED BY <1>1, ConversationKeepsShape, PTL

LEMMA AtMostOneElement ==
  ASSUME NEW S, \A x, y \in S : x = y
  PROVE  Cardinality(S) <= 1
<1>1. CASE S = {}
  BY <1>1, FS_EmptySet
<1>2. CASE S # {}
  <2>1. PICK x : S = {x}
    BY <1>2
  <2> QED BY <2>1, FS_Singleton
<1> QED BY <1>1, <1>2

\* The flag and the conversation agree on whether the loop has nudged.
LEMMA NudgeIsRemembered == Spec => []NudgedOnce
<1>1. Init => NudgedOnce
  BY DEF Init, NudgedOnce
<1>2. ASSUME DataOK, FlagsOK, ConversationShape, NudgedOnce, [Next]_vars
      PROVE  NudgedOnce'
  <2> USE <1>2 DEF DataOK, NudgedOnce
  <2>1. CASE PostFails
    BY <2>1 DEF PostFails
  <2>2. CASE ModelFails
    BY <2>2 DEF ModelFails
  <2>3. CASE Answer
    <3>1. /\ at' = "nudge" => ~ nudged
          /\ at' = "end" => ~ AnswerIsImpossible \/ steps' >= MaxSteps
      BY <2>3, RouteSays, steps + 1 \in Nat DEF Answer, AnswerIsImpossible
    <3>2. ~ AnswerIsImpossible => ~ causal \/ nudged \/ Cardinality(MetricsSeen(evidence)) >= 2
      BY SeenIsFinite DEF AnswerIsImpossible
    <3> QED BY <2>3, <3>1, <3>2, AgentAssumption DEF Answer, RunNode, Kinds
  <2>4. CASE CallTool
    BY <2>4, RouteSays, steps + 1 \in Nat DEF CallTool, RunNode, Kinds, ConversationShape
  <2>5. ASSUME NEW r \in Results, RunTool(r) PROVE NudgedOnce'
    BY <2>5 DEF RunTool, RunNode, Kinds
  <2>6. CASE Nudge
    BY <2>6 DEF Nudge, RunNode, Kinds, ConversationShape
  <2>7. CASE GiveUp
    BY <2>7 DEF GiveUp, RunNode, Kinds
  <2>8. CASE ToolRaises
    BY <2>8 DEF ToolRaises
  <2>9. CASE UNCHANGED vars
    BY <2>9 DEF vars, MetricsSeen
  <2> QED BY <1>2, <2>1, <2>2, <2>3, <2>4, <2>5, <2>6, <2>7, <2>8, <2>9 DEF Next
<1> QED BY <1>1, <1>2, DataTyped, FlagsTyped, ConversationKeepsShape, PTL DEF Spec

\* A causal answer on fewer than two metrics is sent back exactly once, for any
\* cap and any tools, and only while the model has a turn left
\* (_answer_is_impossible, _route_after_agent, _nudge_node).
THEOREM SentBackOnce == Spec => []SentBackOnceWithBudget
<1>1. ASSUME DataOK, CapInvariant, NudgedOnce PROVE SentBackOnceWithBudget
  <2> DEFINE nudges == {i \in 1 .. Len(messages) : messages[i] = "nudge"}
  <2>1. \A i, j \in nudges : i = j
    BY <1>1 DEF NudgedOnce
  <2>2. Cardinality(nudges) <= 1
    BY <2>1, AtMostOneElement
  <2> QED BY <1>1, <2>2 DEF CapInvariant, NudgedOnce, SentBackOnceWithBudget
<1> QED BY <1>1, DataTyped, CapIsKept, NudgeIsRemembered, PTL
=============================================================================
