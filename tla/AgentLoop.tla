----------------------------- MODULE AgentLoop -----------------------------
(***************************************************************************)
(* One question in the copilot's reasoning graph: the model reasons        *)
(* ("agent"), a tool runs ("tools"), an answer that cannot be one is sent  *)
(* back ("nudge"), and the turns run out ("give_up").                      *)
(*                                                                         *)
(* The model and the tools are free: a turn is an answer or a tool call,   *)
(* and a tool call fails, shows any of Results or, seldom, raises.         *)
(* LangGraph is external: it runs the nodes one after another, and would   *)
(* raise if it had run as many as the recursion limit without reaching the *)
(* end.                                                                    *)
(***************************************************************************)
EXTENDS Naturals, Sequences, FiniteSets

CONSTANTS
  Metrics,  \* the metrics tools can report
  Results,  \* the tool results a run considers
  MaxSteps, \* OPS_AGENT_MAX_STEPS
  Retries   \* OPS_AGENT_LLM_RETRIES

\* A result lists metrics under the four keys the graph reads; what it says
\* under others (moved_opposite, moved_together) the graph does not see.
Result == [ok : BOOLEAN, listed : SUBSET Metrics]

ASSUME AgentAssumption ==
  /\ IsFiniteSet(Metrics) /\ Results \subseteq Result
  /\ MaxSteps \in Nat /\ Retries \in Nat

RecursionLimit == 2 * MaxSteps + 4

VARIABLES
  at,         \* the node to run next, "end", or "failed" once a node has raised
  causal,     \* is_causal
  steps,      \* turns the model has taken
  supersteps, \* nodes LangGraph has run
  attempt,    \* requests to Ollama that have failed in this turn
  messages,   \* the conversation after the question, by kind
  evidence,   \* the results of the tools that have run
  answer,     \* "none", "model" or "limit"
  nudged

vars == <<at, causal, steps, supersteps, attempt, messages, evidence, answer, nudged>>

Kinds == {"text", "call", "tool", "nudge", "limit"}

Init ==
  /\ at = "agent"
  /\ causal \in BOOLEAN
  /\ steps = 0 /\ supersteps = 0 /\ attempt = 0
  /\ messages = << >> /\ evidence = << >>
  /\ answer = "none" /\ nudged = FALSE

-----------------------------------------------------------------------------
\* _metrics_seen
Listed(r) == IF r.ok THEN r.listed ELSE {}
MetricsSeen(results) == UNION {Listed(results[i]) : i \in DOMAIN results}

\* Mutant: calls are counted instead of metrics.
AnswerIsImpossibleByCalls == causal /\ ~ nudged /\ Len(evidence) < 2

\* _answer_is_impossible
AnswerIsImpossible ==
  causal /\ ~ nudged /\ Cardinality(MetricsSeen(evidence)) < 2

\* Mutant: the cap binds answers only.
RouteNeverGivesUp(turns, said) ==
  CASE said # "none" /\ AnswerIsImpossible /\ turns < MaxSteps -> "nudge"
    [] said # "none" /\ ~ (AnswerIsImpossible /\ turns < MaxSteps) -> "end"
    [] OTHER -> "tools"

\* _route_after_agent, after turn number turns and with this answer on record
Route(turns, said) ==
  CASE said # "none" /\ AnswerIsImpossible /\ turns < MaxSteps -> "nudge"
    [] said # "none" /\ ~ (AnswerIsImpossible /\ turns < MaxSteps) -> "end"
    [] said = "none" /\ turns >= MaxSteps -> "give_up"
    [] OTHER -> "tools"

-----------------------------------------------------------------------------
RunNode(node) == at = node /\ supersteps' = supersteps + 1

\* A transient failure of the request: it is sent again after a pause.
PostFails ==
  /\ at = "agent" /\ attempt < Retries
  /\ attempt' = attempt + 1
  /\ UNCHANGED <<at, causal, steps, supersteps, messages, evidence, answer, nudged>>

\* Every attempt is used up, or Ollama's reply is one that is not retried;
\* run_agent answers with an apology and nothing is saved.
ModelFails ==
  /\ at = "agent"
  /\ at' = "failed"
  /\ UNCHANGED <<causal, steps, supersteps, attempt, messages, evidence, answer, nudged>>

\* _agent_node, the model answering
Answer ==
  /\ RunNode("agent") /\ attempt < Retries
  /\ steps' = steps + 1
  /\ messages' = Append(messages, "text")
  /\ answer' = "model"
  /\ at' = Route(steps + 1, "model")
  /\ attempt' = 0
  /\ UNCHANGED <<causal, evidence, nudged>>

\* _agent_node, the model requesting a tool
CallTool ==
  /\ RunNode("agent") /\ attempt < Retries
  /\ steps' = steps + 1
  /\ messages' = Append(messages, "call")
  /\ at' = Route(steps + 1, answer)
  /\ attempt' = 0
  /\ UNCHANGED <<causal, evidence, answer, nudged>>

\* _tools_node; dispatch turns every failure of a tool into a result.
RunTool(r) ==
  /\ RunNode("tools")
  /\ messages' = Append(messages, "tool")
  /\ evidence' = Append(evidence, r)
  /\ at' = "agent"
  /\ UNCHANGED <<causal, steps, attempt, answer, nudged>>

\* An argument that cannot be made a whole number (an infinity) raises before the
\* tool runs: nothing below run_agent catches it, which answers with an apology.
ToolRaises ==
  /\ at = "tools"
  /\ at' = "failed"
  /\ UNCHANGED <<causal, steps, supersteps, attempt, messages, evidence, answer, nudged>>

\* Mutant: the rejected answer stays in the conversation.
NudgeKeepsAnswer ==
  /\ RunNode("nudge")
  /\ messages' = Append(messages, "nudge")
  /\ answer' = "none" /\ nudged' = TRUE
  /\ at' = "agent"
  /\ UNCHANGED <<causal, steps, attempt, evidence>>

\* _nudge_node drops the rejected answer.
Nudge ==
  /\ RunNode("nudge")
  /\ messages' = [messages EXCEPT ![Len(messages)] = "nudge"]
  /\ answer' = "none" /\ nudged' = TRUE
  /\ at' = "agent"
  /\ UNCHANGED <<causal, steps, attempt, evidence>>

\* Mutant: the answer is said but not recorded.
GiveUpSilently ==
  /\ RunNode("give_up")
  /\ messages' = Append(messages, "limit")
  /\ at' = "end"
  /\ UNCHANGED <<causal, steps, attempt, evidence, answer, nudged>>

\* Mutant: there must be evidence to report.
GiveUpWithEvidence ==
  /\ RunNode("give_up") /\ Len(evidence) >= MaxSteps
  /\ messages' = Append(messages, "limit")
  /\ answer' = "limit"
  /\ at' = "end"
  /\ UNCHANGED <<causal, steps, attempt, evidence, nudged>>

\* _giveup_node
GiveUp ==
  /\ RunNode("give_up")
  /\ messages' = Append(messages, "limit")
  /\ answer' = "limit"
  /\ at' = "end"
  /\ UNCHANGED <<causal, steps, attempt, evidence, nudged>>

Next ==
  \/ PostFails \/ ModelFails \/ Answer \/ CallTool
  \/ \E r \in Results : RunTool(r)
  \/ ToolRaises \/ Nudge \/ GiveUp

Spec == Init /\ [][Next]_vars

\* Requests to Ollama have a timeout, and nodes are run until the end.
FairSpec == Spec /\ WF_vars(Next)

-----------------------------------------------------------------------------
(* Properties                                                              *)

\* Every variable holds a value of its type.
TypeOK ==
  /\ at \in {"agent", "tools", "nudge", "give_up", "end", "failed"}
  /\ causal \in BOOLEAN /\ nudged \in BOOLEAN
  /\ steps \in Nat /\ supersteps \in Nat /\ attempt \in 0 .. Retries
  /\ messages \in Seq(Kinds)
  /\ evidence \in Seq(Results)
  /\ answer \in {"none", "model", "limit"}

\* The platform's own cap, with its graceful way out, stops every question
\* before LangGraph's hard limit does.
OurCapFirst ==
  at \in {"agent", "tools", "nudge", "give_up"} => supersteps < RecursionLimit

\* The inductive invariant behind it: a turn and the node after it are two
\* supersteps, and the model has turns left wherever it is asked again.
CapInvariant ==
  /\ at = "agent" => supersteps = 2 * steps /\ (steps = 0 \/ steps < MaxSteps)
  /\ at \in {"tools", "nudge"} => supersteps + 1 = 2 * steps /\ steps < MaxSteps
  /\ at = "give_up" =>
       supersteps + 1 = 2 * steps /\ (steps = 1 \/ steps <= MaxSteps)

\* A tool call is followed by what the tool said, unless the turns ran out on
\* it; an answer that was sent back is not in the conversation any more; what
\* the model reads is a conversation it could have had.
ConversationIsValid ==
  \A i \in 1 .. Len(messages) :
    /\ messages[i] \in {"text", "limit"} => i = Len(messages)
    /\ messages[i] = "call" =>
         IF i = Len(messages) THEN at # "agent" ELSE messages[i + 1] \in {"tool", "limit"}
    /\ messages[i] = "tool" => i > 1 /\ messages[i - 1] = "call"

\* What the conversation ends with at each node, and what stands inside it: an
\* invariant that the two properties around it rest on.
LastAt == [tools |-> {"call"}, nudge |-> {"text"}, give_up |-> {"call"},
           agent |-> {"tool", "nudge"}, failed |-> {"call", "tool", "nudge"}]
ConversationShape ==
  LET n == Len(messages) IN
  /\ at = "end" => n > 0 /\ messages[n] = IF answer = "model" THEN "text" ELSE "limit"
  /\ at \in {"tools", "nudge", "give_up"} => n > 0
  /\ at # "end" /\ n > 0 => messages[n] \in LastAt[at]
  /\ at \in {"agent", "tools", "give_up"} => answer = "none"
  /\ at \in {"nudge", "end"} => answer # "none"
  /\ \A i \in 1 .. n - 1 :
       /\ messages[i] \in {"call", "tool", "nudge"}
       /\ messages[i] = "call" => messages[i + 1] \in {"tool", "limit"}
  /\ \A i \in 1 .. n : messages[i] = "tool" => i > 1 /\ messages[i - 1] = "call"

\* A question that ends has an answer: one that was withdrawn is never what the
\* user gets, and the last words of the conversation are that answer.
EndsWithItsAnswer ==
  at = "end" =>
    /\ answer # "none"
    /\ messages[Len(messages)] = IF answer = "model" THEN "text" ELSE "limit"

\* An answer to a causal question that rests on fewer than two metrics is sent
\* back once, and only while the model has a turn left to do better.
SentBackOnceWithBudget ==
  /\ Cardinality({i \in 1 .. Len(messages) : messages[i] = "nudge"}) <= 1
  /\ at = "nudge" => steps < MaxSteps
  /\ at = "end" /\ answer = "model" /\ causal /\ steps < MaxSteps =>
       nudged \/ Cardinality(MetricsSeen(evidence)) >= 2

\* The inductive form of it: there is a nudge in the conversation only once the
\* loop has nudged, and a nudge is only ahead before it has.
NudgedOnce ==
  /\ at = "nudge" => ~ nudged
  /\ \A i \in 1 .. Len(messages) : messages[i] = "nudge" => nudged
  /\ \A i, j \in 1 .. Len(messages) :
       messages[i] = "nudge" /\ messages[j] = "nudge" => i = j
  /\ at = "end" /\ answer = "model" /\ causal /\ steps < MaxSteps =>
       nudged \/ Cardinality(MetricsSeen(evidence)) >= 2

\* Every question ends, in an answer or in an error.
EveryQuestionEnds == <>(at \in {"end", "failed"})
=============================================================================
