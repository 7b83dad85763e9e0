--------------------------- MODULE CopilotProofs ---------------------------
(***************************************************************************)
(* Theorems about the copilot's page and its conversation memory, for any  *)
(* number of questions, any length of the history, and any number of       *)
(* failures, timeouts and reloads.                                         *)
(***************************************************************************)
EXTENDS Copilot, FiniteSetTheorems, SequenceTheorems, TLAPS

(* Types                                                                   *)

Turn == [role : {"user", "assistant"}, question : Questions]

\* A turn that is shown is shown last.
LEMMA ShownLast ==
  ASSUME transcript \in Seq(Turn), NEW turn \in Turn, transcript' = Append(transcript, turn)
  PROVE  /\ transcript' \in Seq(Turn)
         /\ Len(transcript) \in Nat /\ Len(transcript') = Len(transcript) + 1
         /\ transcript'[Len(transcript) + 1] = turn
         /\ \A i \in 1 .. Len(transcript) : transcript'[i] = transcript[i]
  BY LenProperties, AppendProperties

LEMMA ExchangeRows ==
  ASSUME TypeOK, NEW q \in Questions, NEW t \in Nat
  PROVE  Exchange(q, t) \subseteq Row
  BY DEF TypeOK, Exchange, Row

\* There is a last turn to be found.
Turns(s) == {m.turn : m \in Stored(s)} \union {-1}
IsLast(t, s) == t \in Turns(s) /\ \A u \in Turns(s) : t >= u
HasLast == \A s \in Sessions : \E t \in Nat \union {-1} : IsLast(t, s)

LEMMA LastIsLast ==
  ASSUME NEW s, NEW t \in Nat \union {-1}, Turns(s) \subseteq Nat \union {-1}, IsLast(t, s)
  PROVE  LastTurn(s) = t
<1>1. LastTurn(s) = CHOOSE x \in Turns(s) : \A y \in Turns(s) : x >= y
  BY DEF LastTurn, Max, Turns
<1>2. \A x \in Turns(s) : (\A y \in Turns(s) : x >= y) => x = t
  BY DEF IsLast
<1> QED BY <1>1, <1>2 DEF IsLast

LEMMA TurnsType ==
  ASSUME TypeOK, NEW s
  PROVE  Turns(s) \subseteq Nat \union {-1}
  BY DEF TypeOK, Turns, Stored, Row

Typed == TypeOK /\ HasLast /\ IsFiniteSet(message)

LEMMA StoredIsFinite ==
  ASSUME Typed, NEW s
  PROVE  IsFiniteSet(Stored(s)) /\ Cardinality(Stored(s)) \in Nat
<1>1. Stored(s) \in SUBSET message
  BY DEF Stored
<1> QED BY <1>1, FS_Subset, FS_CardinalityType DEF Typed

LEMMA TypedInit == Init => Typed
<1> SUFFICES ASSUME Init PROVE Typed
  OBVIOUS
<1>1. TypeOK
  BY CopilotAssumption DEF Init, TypeOK, Sessions, Questions, Steps
<1>2. ASSUME NEW s \in Sessions PROVE IsLast(-1, s)
  BY DEF Init, IsLast, Turns, Stored
<1> QED BY <1>1, <1>2, FS_EmptySet DEF Typed, HasLast, Init

\* Only a save writes messages.
LEMMA MessagesAfter ==
  ASSUME [Next]_vars
  PROVE  \/ \E q \in Questions : Save(q)
         \/ UNCHANGED <<message, count>>
  BY DEF Next, Work, Submit, Reload, Load, LoadFails, Answer, AnswerFails, ReadNext, SaveFails,
         Receive, Timeout, vars

LEMMA StoredAfter ==
  ASSUME NEW q, Save(q), NEW s
  PROVE  Stored(s)' = Stored(s) \union (IF s = sid[q] THEN Exchange(q, index[q]) ELSE {})
  BY DEF Save, Stored, Exchange

LEMMA LastKept ==
  ASSUME Typed, [Next]_vars
  PROVE  HasLast' /\ IsFiniteSet(message')
<1>1. CASE UNCHANGED message
  BY <1>1 DEF Typed, HasLast, IsLast, Turns, Stored
<1>2. ASSUME NEW q \in Questions, Save(q) PROVE HasLast' /\ IsFiniteSet(message')
  <2>1. index[q] \in Nat /\ sid[q] \in Sessions
    BY DEF Typed, TypeOK
  <2>2. IsFiniteSet(message')
    <3>1. message' = (message \union {[session |-> sid[q], turn |-> index[q], role |-> "user", question |-> q]})
                       \union {[session |-> sid[q], turn |-> index[q] + 1, role |-> "assistant", question |-> q]}
      BY <1>2 DEF Save, Exchange
    <3> QED BY <3>1, FS_AddElement DEF Typed
  <2>3. ASSUME NEW s \in Sessions PROVE \E t \in Nat \union {-1} : IsLast(t, s)'
    <3>1. PICK t \in Nat \union {-1} : IsLast(t, s)
      BY DEF Typed, HasLast
    <3>2. Turns(s)' = Turns(s) \union (IF s = sid[q] THEN {index[q], index[q] + 1} ELSE {})
      <4> DEFINE a == [session |-> sid[q], turn |-> index[q], role |-> "user", question |-> q]
                 b == [session |-> sid[q], turn |-> index[q] + 1, role |-> "assistant", question |-> q]
      <4>1. Stored(s)' = Stored(s) \union (IF s = sid[q] THEN {a, b} ELSE {})
        BY <1>2, StoredAfter DEF Exchange
      <4>2. a.turn = index[q] /\ b.turn = index[q] + 1
        OBVIOUS
      <4>3. Turns(s)' = {m.turn : m \in Stored(s)'} \union {-1}
        BY DEF Turns
      <4> HIDE DEF a, b
      <4> QED BY <4>1, <4>2, <4>3 DEF Turns
    <3>3. CASE s = sid[q] /\ t < index[q] + 1
      <4>1. index[q] + 1 \in Turns(s)' /\ \A u \in Turns(s)' : index[q] + 1 >= u
        BY <2>1, <3>1, <3>2, <3>3, TurnsType DEF IsLast, Typed
      <4> QED BY <2>1, <4>1 DEF IsLast
    <3>4. CASE ~ (s = sid[q] /\ t < index[q] + 1)
      <4>1. IsLast(t, s)'
        BY <2>1, <3>1, <3>2, <3>4, TurnsType DEF IsLast, Typed
      <4> QED BY <4>1
    <3> QED BY <3>3, <3>4
  <2> QED BY <2>2, <2>3 DEF HasLast
<1> QED BY <1>1, <1>2, MessagesAfter

LEMMA TypedStep == Typed /\ [Next]_vars => Typed'
<1> SUFFICES ASSUME Typed, [Next]_vars PROVE TypeOK'
  BY LastKept DEF Typed
<1> USE CopilotAssumption DEF Typed, TypeOK, Sessions, Questions, Steps, page, Fault
<1>1. CASE Submit
  <2>1. transcript' \in Seq(Turn)
    BY <1>1, ShownLast DEF Submit, Turn
  <2> QED BY <1>1, <2>1 DEF Submit, Turn
<1>2. CASE Reload
  BY <1>2, EmptySeq DEF Reload
<1>3. ASSUME NEW q \in Questions, ShowTurn(q)
      PROVE  transcript' \in Seq([role : {"user", "assistant"}, question : Questions]) /\ waiting' = 0
  BY <1>3, ShownLast DEF ShowTurn, Turn
<1>4. ASSUME NEW q \in Questions, Receive(q) PROVE TypeOK'
  BY <1>3, <1>4 DEF Receive
<1>5. ASSUME NEW q \in Questions, Timeout(q) PROVE TypeOK'
  <2>1. timeouts' \in 0 .. MaxTimeouts
    <3>1. timeouts < MaxTimeouts /\ timeouts' = timeouts + 1
      BY <1>5 DEF Timeout
    <3> QED BY <3>1
  <2> QED BY <1>3, <1>5, <2>1 DEF Timeout
<1>6. ASSUME NEW q \in Questions, Load(q) PROVE TypeOK'
  BY <1>6 DEF Load, RecentTurns, Stored
<1>7. ASSUME NEW q \in Questions, LoadFails(q) \/ Answer(q) \/ AnswerFails(q) \/ SaveFails(q) PROVE TypeOK'
  <2>1. UNCHANGED <<page, sid, given, index, message, count, timeouts>>
    BY <1>7 DEF LoadFails, Answer, AnswerFails, SaveFails
  <2>6. faults' \in 0 .. MaxFaults
    <3>1. faults' = faults \/ Fault
      BY <1>7 DEF LoadFails, Answer, AnswerFails, SaveFails
    <3> QED BY <3>1
  <2>2. CASE LoadFails(q)
    BY <2>1, <2>2, <2>6 DEF LoadFails
  <2>3. CASE Answer(q)
    BY <2>1, <2>3 DEF Answer
  <2>4. CASE AnswerFails(q)
    <3>1. request' \in [Questions -> Steps]
      BY <2>4 DEF AnswerFails
    <3> QED BY <2>1, <2>6, <3>1
  <2>5. CASE SaveFails(q)
    <3>1. request' \in [Questions -> Steps]
      BY <2>5 DEF SaveFails
    <3> QED BY <2>1, <2>6, <3>1
  <2> QED BY <1>7, <2>2, <2>3, <2>4, <2>5
<1>8. ASSUME NEW q \in Questions, ReadNext(q) PROVE TypeOK'
  <2>1. sid[q] \in Sessions
    OBVIOUS
  <2>2. LastTurn(sid[q]) + 1 \in Nat
    <3>1. PICK t \in Nat \union {-1} : IsLast(t, sid[q])
      BY <2>1 DEF HasLast
    <3>2. LastTurn(sid[q]) = t
      BY <3>1, LastIsLast, TurnsType
    <3> QED BY <3>2
  <2> QED BY <1>8, <2>2 DEF ReadNext
<1>9. ASSUME NEW q \in Questions, Save(q) PROVE TypeOK'
  <2>1. message' \subseteq Row
    BY <1>9, ExchangeRows DEF Save
  <2>2. count' \in [Sessions -> Nat]
    <3>1. sid[q] \in Sessions /\ count[sid[q]] + 2 \in Nat
      OBVIOUS
    <3> QED BY <1>9, <3>1 DEF Save
  <2>3. request' \in [Questions -> Steps]
    BY <1>9 DEF Save, Steps
  <2>4. UNCHANGED <<session, transcript, waiting, asked, sid, given, index, faults, timeouts>>
    BY <1>9 DEF Save, page
  <2> QED BY <2>1, <2>2, <2>3, <2>4
<1>10. CASE UNCHANGED vars
  BY <1>10 DEF vars
<1> QED BY <1>1, <1>2, <1>4, <1>5, <1>6, <1>7, <1>8, <1>9, <1>10 DEF Next, Work

LEMMA CopilotTyped == Spec => []Typed
  BY TypedInit, TypedStep, PTL DEF Spec

-----------------------------------------------------------------------------
(* The page                                                                *)

Page == PageAlternates /\ WaitsForTheLast

Alternates(t) ==
  \A i \in 1 .. Len(t) :
    /\ t[i].role = "assistant" <=> i % 2 = 0
    /\ i % 2 = 0 => t[i].question = t[i - 1].question

LEMMA AppendAlternates ==
  ASSUME transcript \in Seq(Turn), Alternates(transcript), NEW turn \in Turn,
         transcript' = Append(transcript, turn),
         turn.role = "assistant" <=> Len(transcript) % 2 = 1,
         Len(transcript) % 2 = 1 => turn.question = transcript[Len(transcript)].question
  PROVE  Alternates(transcript') /\ (Len(transcript') % 2 = 1 <=> Len(transcript) % 2 = 0)
<1>1. /\ Len(transcript) \in Nat /\ Len(transcript') = Len(transcript) + 1
      /\ transcript'[Len(transcript) + 1] = turn
      /\ \A i \in 1 .. Len(transcript) : transcript'[i] = transcript[i]
  BY ShownLast
<1>2. (Len(transcript) + 1) % 2 = 0 <=> Len(transcript) % 2 = 1
  BY <1>1
<1>3. Len(transcript) % 2 = 1 => Len(transcript) \in 1 .. Len(transcript)
  BY <1>1
<1>4. ASSUME NEW i \in 1 .. Len(transcript')
      PROVE  /\ transcript'[i].role = "assistant" <=> i % 2 = 0
             /\ i % 2 = 0 => transcript'[i].question = transcript'[i - 1].question
  <2>1. CASE i = Len(transcript) + 1
    BY <1>1, <1>2, <1>3, <2>1
  <2>2. CASE i \in 1 .. Len(transcript)
    <3>1. i % 2 = 0 => i - 1 \in 1 .. Len(transcript)
      BY <1>1, <2>2
    <3> QED BY <1>1, <2>2, <3>1 DEF Alternates
  <2> QED BY <1>1, <2>1, <2>2
<1>5. (Len(transcript) + 1) % 2 = 1 <=> Len(transcript) % 2 = 0
  BY <1>1
<1> QED BY <1>1, <1>4, <1>5 DEF Alternates

\* Questions and turns go one after the other: a turn of the agent is added only
\* for the question that is waited for, which is the last turn then.
LEMMA PageStep == Typed /\ Page /\ [Next]_vars => Page'
<1> SUFFICES ASSUME Typed, Page, [Next]_vars PROVE Page'
  OBVIOUS
<1> USE DEF Page, WaitsForTheLast
<1>0. PageAlternates <=> Alternates(transcript) /\ (waiting # 0 <=> Len(transcript) % 2 = 1)
  BY DEF PageAlternates, Alternates
<1>1. /\ transcript \in Seq(Turn) /\ asked \in Nat /\ Len(transcript) \in Nat
      /\ Len(transcript) % 2 = 0 \/ Len(transcript) % 2 = 1
  BY LenProperties, CopilotAssumption DEF Typed, TypeOK, Turn, Questions
<1>10. ASSUME Alternates(transcript'), waiting' # 0 <=> Len(transcript') % 2 = 1
       PROVE  PageAlternates'
  BY <1>10 DEF PageAlternates, Alternates
<1>2. CASE Submit
  <2>1. /\ [role |-> "user", question |-> asked + 1] \in Turn
        /\ waiting = 0 /\ waiting' = asked + 1 /\ asked' = asked + 1
        /\ transcript' = Append(transcript, [role |-> "user", question |-> asked + 1])
    BY <1>1, <1>2, CopilotAssumption DEF Submit, Turn, Questions
  <2>2. /\ Len(transcript') = Len(transcript) + 1
        /\ transcript'[Len(transcript) + 1] = [role |-> "user", question |-> asked + 1]
    BY <1>1, <2>1, ShownLast
  <2>3. Alternates(transcript') /\ Len(transcript') % 2 = 1
    BY <1>0, <1>1, <2>1, AppendAlternates
  <2>4. PageAlternates'
    BY <1>1, <1>10, <2>1, <2>3
  <2> QED BY <1>1, <2>1, <2>2, <2>4
<1>4. ASSUME NEW q \in Questions, waiting = q, ShowTurn(q) PROVE Page'
  <2>1. /\ [role |-> "assistant", question |-> q] \in Turn /\ waiting # 0 /\ waiting' = 0
        /\ transcript' = Append(transcript, [role |-> "assistant", question |-> q])
    BY <1>4, CopilotAssumption DEF ShowTurn, Turn, Questions
  <2>2. Len(transcript) % 2 = 1 /\ transcript[Len(transcript)].question = q
    BY <1>0, <1>4, <2>1
  <2>3. Alternates(transcript') /\ ~ (Len(transcript') % 2 = 1)
    BY <1>0, <1>1, <2>1, <2>2, AppendAlternates
  <2>4. PageAlternates'
    BY <1>10, <2>1, <2>3
  <2> QED BY <2>1, <2>4
<1>3. CASE Reload
  BY <1>3 DEF Reload, PageAlternates
<1>5. ASSUME NEW q \in Questions, Receive(q) PROVE Page'
  BY <1>4, <1>5 DEF Receive, PageAlternates
<1>6. ASSUME NEW q \in Questions, Timeout(q) PROVE Page'
  BY <1>4, <1>6 DEF Timeout
<1>7. ASSUME UNCHANGED page PROVE Page'
  BY <1>7 DEF page, PageAlternates
<1>8. ASSUME NEW q, Load(q) \/ LoadFails(q) \/ Answer(q) \/ AnswerFails(q) \/ ReadNext(q) \/ Save(q)
                      \/ SaveFails(q)
      PROVE  Page'
  BY <1>7, <1>8 DEF Load, LoadFails, Answer, AnswerFails, ReadNext, Save, SaveFails
<1>9. CASE UNCHANGED vars
  BY <1>7, <1>9 DEF vars, page
<1> QED BY <1>2, <1>3, <1>5, <1>6, <1>8, <1>9 DEF Next, Work

\* The page shows a question and then its own answer, whatever comes late or not
\* at all, and Send is disabled in between (copilot.submit_question,
\* run_agent_call).
THEOREM PageIsAConversation == Spec => []PageAlternates
<1>1. Init => Page
  BY DEF Init, Page, PageAlternates, WaitsForTheLast
<1> QED BY <1>1, PageStep, CopilotTyped, PTL DEF Spec, Page

-----------------------------------------------------------------------------
(* The memory                                                              *)

\* A question gets its number, its request and its session at once; only then has it
\* messages.
LEMMA AskedStep == Typed /\ AskedInOrder /\ [Next]_vars => AskedInOrder'
<1> SUFFICES ASSUME Typed, AskedInOrder, [Next]_vars PROVE AskedInOrder'
  OBVIOUS
<1> USE DEF AskedInOrder
<1>1. \A m \in message : m.question \in Questions /\ asked \in Nat /\ session \in Nat
  BY CopilotAssumption DEF Typed, TypeOK, Row, Questions, Sessions
<1>2. request \in [Questions -> Steps] /\ sid \in [Questions -> Sessions] /\ asked \in Nat /\ session \in Nat
  BY CopilotAssumption DEF Typed, TypeOK, Questions, Sessions
<1>3. CASE Submit
  BY <1>1, <1>2, <1>3, CopilotAssumption DEF Submit, Questions
<1>4. CASE Reload \/ (\E q \in Questions : Timeout(q)) \/ UNCHANGED vars
  BY <1>1, <1>2, <1>4, CopilotAssumption DEF Reload, Timeout, vars, Sessions
<1>5. ASSUME NEW q \in Questions, Work(q), ~ Save(q) PROVE AskedInOrder'
  <2>1. UNCHANGED <<asked, session, sid, message>>
    BY <1>5 DEF Work, Load, LoadFails, Answer, AnswerFails, ReadNext, SaveFails, Receive, page
  <2>2. request[q] # "none" /\ request'[q] # "none" /\ \A r \in Questions \ {q} : request'[r] = request[r]
    BY <1>2, <1>5 DEF Work, Load, LoadFails, Answer, AnswerFails, ReadNext, SaveFails, Receive
  <2>3. request[q] \in {"replied", "over"} => request'[q] \in {"replied", "over"}
    BY <1>2, <1>5 DEF Work, Load, LoadFails, Answer, AnswerFails, ReadNext, SaveFails, Receive
  <2> QED BY <1>1, <2>1, <2>2, <2>3
<1>6. ASSUME NEW q \in Questions, Save(q) PROVE AskedInOrder'
  <2>1. /\ UNCHANGED <<asked, session, sid>> /\ request[q] = "saving"
        /\ request' = [request EXCEPT ![q] = "replied"]
        /\ message' = message \union Exchange(q, index[q])
    BY <1>6 DEF Save, page
  <2>2. \A m \in Exchange(q, index[q]) : m.question = q /\ m.session = sid[q]
    BY DEF Exchange
  <2> QED BY <1>1, <1>2, <2>1, <2>2
<1> QED BY <1>3, <1>4, <1>5, <1>6 DEF Next

\* A save adds two messages, of a question that had none.
LEMMA CountStep == Typed /\ AskedInOrder /\ CountIsExact /\ [Next]_vars => CountIsExact'
<1> SUFFICES ASSUME Typed, AskedInOrder, CountIsExact, [Next]_vars PROVE CountIsExact'
  OBVIOUS
<1>1. CASE UNCHANGED <<message, count>>
  BY <1>1 DEF CountIsExact, Stored
<1>2. ASSUME NEW q \in Questions, Save(q), NEW s \in Sessions
      PROVE  count'[s] = Cardinality(Stored(s)')
  <2>1. count' = [count EXCEPT ![sid[q]] = @ + 2] /\ request[q] = "saving" /\ count[s] \in Nat
    BY <1>2 DEF Save, Typed, TypeOK
  <2>2. CASE s # sid[q]
    <3>1. Stored(s)' = Stored(s)
      BY <1>2, <2>2, StoredAfter
    <3> QED BY <2>1, <2>2, <3>1 DEF CountIsExact, Typed, TypeOK
  <2>3. CASE s = sid[q]
    <3> DEFINE a == [session |-> sid[q], turn |-> index[q], role |-> "user", question |-> q]
               b == [session |-> sid[q], turn |-> index[q] + 1, role |-> "assistant", question |-> q]
    <3>1. Stored(s)' = (Stored(s) \union {a}) \union {b}
      BY <1>2, <2>3, StoredAfter DEF Exchange
    <3>2. a.role # b.role /\ a.question = q /\ b.question = q
      OBVIOUS
    <3> HIDE DEF a, b
    <3>3. \A m \in Stored(s) : m.question # q
      BY <2>1 DEF AskedInOrder, Stored
    <3>4. a \notin Stored(s) /\ b \notin Stored(s) \union {a}
      BY <3>2, <3>3
    <3>5. Cardinality(Stored(s)') = Cardinality(Stored(s)) + 2
      <4>1. IsFiniteSet(Stored(s)) /\ Cardinality(Stored(s)) \in Nat
        BY StoredIsFinite
      <4>2. IsFiniteSet(Stored(s) \union {a}) /\ Cardinality(Stored(s) \union {a}) = Cardinality(Stored(s)) + 1
        BY <3>4, <4>1, FS_AddElement
      <4>3. Cardinality((Stored(s) \union {a}) \union {b}) = Cardinality(Stored(s) \union {a}) + 1
        BY <3>4, <4>2, FS_AddElement
      <4> QED BY <3>1, <4>1, <4>2, <4>3
    <3> QED BY <2>1, <2>3, <3>5 DEF CountIsExact, Typed, TypeOK
  <2> QED BY <2>2, <2>3
<1>3. ASSUME NEW q \in Questions, Save(q) PROVE CountIsExact'
  BY <1>2, <1>3 DEF CountIsExact
<1> QED BY <1>1, <1>3, MessagesAfter

Memory == AskedInOrder /\ CountIsExact
LEMMA MemoryKept == Spec => []Memory
<1>1. Init => Memory
  <2>1. Init => \A s \in Sessions : Stored(s) = {}
    BY DEF Init, Stored
  <2>2. Init => CountIsExact
    BY <2>1, FS_EmptySet DEF Init, CountIsExact
  <2>3. Init => AskedInOrder
    BY CopilotAssumption DEF Init, AskedInOrder, Questions
  <2> QED BY <2>2, <2>3 DEF Memory
<1>2. Typed /\ Memory /\ [Next]_vars => Memory'
  BY AskedStep, CountStep DEF Memory
<1> QED BY <1>1, <1>2, CopilotTyped, PTL DEF Spec

\* message_count is the number of messages of the conversation, however the saves
\* of a session overlap and whatever fails between them (memory.save_exchange).
THEOREM CountOfMessages == Spec => []CountIsExact
  BY MemoryKept, PTL DEF Memory

-----------------------------------------------------------------------------
(* The order of the turns, as long as the page gives up on nothing         *)

\* How a request gets in flight, and out again
LEMMA FlightAfter ==
  ASSUME Typed, [Next]_vars, NEW q \in Questions
  PROVE  \/ Submit /\ q = asked + 1
         \/ request'[q] = request[q]
         \/ InFlight(q) /\ request'[q] # "none"
<1> USE DEF Typed, TypeOK, InFlight
<1>1. CASE Submit
  BY <1>1 DEF Submit
<1>2. ASSUME NEW r \in Questions, Work(r), r # q PROVE request'[q] = request[q]
  BY <1>2 DEF Work, Load, LoadFails, Answer, AnswerFails, ReadNext, Save, SaveFails, Receive
<1>3. CASE Work(q)
  BY <1>3 DEF Work, Load, LoadFails, Answer, AnswerFails, ReadNext, Save, SaveFails, Receive
<1>4. CASE Reload \/ (\E r \in Questions : Timeout(r)) \/ UNCHANGED vars
  BY <1>4 DEF Reload, Timeout, vars
<1> QED BY <1>1, <1>2, <1>3, <1>4 DEF Next

LEMMA OneStep ==
  ASSUME Typed, AskedInOrder, OneAtATime, [Next]_vars
  PROVE  OneAtATime'
<1> SUFFICES ASSUME timeouts' = 0, NEW q \in Questions, InFlight(q)'
             PROVE  /\ sid'[q] = session' => waiting' = q
                    /\ \A r \in Questions : request'[r] # "none" /\ sid'[r] = sid'[q] => r <= q
  BY DEF OneAtATime
<1>1. asked \in Nat /\ session \in Nat /\ timeouts \in Nat /\ Questions \subseteq Nat
      /\ sid \in [Questions -> Sessions]
  BY CopilotAssumption DEF Typed, TypeOK, Questions, Sessions
<1>2. CASE Submit
  <2>1. /\ asked + 1 \in Questions /\ waiting = 0 /\ waiting' = asked + 1
        /\ request' = [request EXCEPT ![asked + 1] = "posted"]
        /\ sid' = [sid EXCEPT ![asked + 1] = session] /\ UNCHANGED <<session, timeouts>>
    BY <1>2 DEF Submit
  <2>2. CASE q = asked + 1
    <3>1. \A r \in Questions : request'[r] # "none" => r <= asked + 1
      BY <1>1, <2>1 DEF AskedInOrder, Typed, TypeOK
    <3> QED BY <2>1, <2>2, <3>1
  <2>3. CASE q # asked + 1
    <3>1. InFlight(q) /\ sid'[q] = sid[q] /\ q # 0
      BY <1>1, <2>1, <2>3, CopilotAssumption DEF InFlight, Typed, TypeOK, Questions
    <3>2. sid[q] # session /\ \A r \in Questions : request[r] # "none" /\ sid[r] = sid[q] => r <= q
      BY <2>1, <3>1 DEF OneAtATime
    <3> QED BY <1>1, <2>1, <2>3, <3>1, <3>2 DEF Typed, TypeOK
  <2> QED BY <2>2, <2>3
<1>3. CASE ~ Submit
  <2>1. UNCHANGED sid /\ timeouts = 0
    BY <1>1, <1>3 DEF Next, Work, Reload, Load, LoadFails, Answer, AnswerFails, ReadNext, Save, SaveFails,
         Receive, Timeout, vars
  <2>2. \A r \in Questions : InFlight(r)' => InFlight(r)
    BY <1>3, FlightAfter DEF InFlight
  <2>3. \A r \in Questions : request'[r] # "none" => request[r] # "none"
    BY <1>3, FlightAfter DEF InFlight
  <2>4. /\ sid[q] = session => waiting = q
        /\ \A r \in Questions : request[r] # "none" /\ sid[r] = sid[q] => r <= q
    BY <2>1, <2>2 DEF OneAtATime
  <2>5. sid'[q] = session' => waiting' = q
    <3>1. CASE UNCHANGED <<session, waiting>>
      BY <2>1, <2>4, <3>1
    <3>2. CASE Reload
      BY <1>1, <2>1, <3>2 DEF Reload, AskedInOrder
    <3>3. ASSUME NEW r \in Questions, Receive(r) PROVE sid'[q] = session' => waiting' = q
      BY <2>1, <2>4, <3>3 DEF Receive, ShowTurn, InFlight, Typed, TypeOK
    <3>4. ASSUME NEW r \in Questions, Timeout(r) PROVE FALSE
      BY <1>1, <2>1, <3>4 DEF Timeout
    <3>5. ASSUME NEW r \in Questions, Work(r), ~ Receive(r) PROVE UNCHANGED <<session, waiting>>
      BY <3>5 DEF Work, Load, LoadFails, Answer, AnswerFails, ReadNext, Save, SaveFails, page
    <3> QED BY <1>3, <3>1, <3>2, <3>3, <3>4, <3>5 DEF Next, vars
  <2> QED BY <2>1, <2>3, <2>4, <2>5
<1> QED BY <1>2, <1>3

\* As long as the turns are without a gap, the next one to be read is the count.
LEMMA NextIsCount ==
  ASSUME Typed, Numbered, timeouts = 0, NEW s \in Sessions
  PROVE  LastTurn(s) + 1 = count[s]
<1>1. count[s] \in Nat /\ count[s] - 1 \in Nat \union {-1}
  BY DEF Typed, TypeOK
<1>2. Turns(s) = (0 .. count[s] - 1) \union {-1}
  BY DEF Turns, Numbered
<1>3. IsLast(count[s] - 1, s)
  BY <1>1, <1>2 DEF IsLast
<1>4. LastTurn(s) = count[s] - 1
  BY <1>1, <1>3, LastIsLast, TurnsType DEF Typed
<1> QED BY <1>1, <1>4

LEMMA NumberedStep ==
  ASSUME Typed, AskedInOrder, OneAtATime, Numbered, [Next]_vars
  PROVE  Numbered'
<1> SUFFICES ASSUME timeouts' = 0 PROVE Numbered'
  BY DEF Numbered
<1>1. timeouts = 0
  BY DEF Next, Work, Submit, Reload, Load, LoadFails, Answer, AnswerFails, ReadNext, Save, SaveFails,
     Receive, Timeout, vars, Typed, TypeOK
<1>2. /\ request \in [Questions -> Steps] /\ sid \in [Questions -> Sessions]
      /\ index \in [Questions -> Nat] /\ count \in [Sessions -> Nat]
  BY DEF Typed, TypeOK
<1>3. CASE UNCHANGED <<message, count>>
  <2>1. ASSUME NEW q \in Questions, request'[q] = "saving" PROVE index'[q] = count'[sid'[q]]
    <3>1. CASE ReadNext(q)
      <4>1. index'[q] = LastTurn(sid[q]) + 1 /\ sid' = sid
        BY <1>2, <3>1 DEF ReadNext
      <4> QED BY <1>1, <1>2, <1>3, <4>1, NextIsCount
    <3>2. CASE ~ ReadNext(q)
      <4>1. request[q] = "saving" /\ index'[q] = index[q] /\ sid'[q] = sid[q]
        BY <1>2, <2>1, <3>2 DEF Next, Work, Submit, Reload, Load, LoadFails, Answer, AnswerFails, ReadNext,
           Save, SaveFails, Receive, Timeout, vars
      <4> QED BY <1>1, <1>3, <4>1 DEF Numbered
    <3> QED BY <3>1, <3>2
  <2>2. \A s : Stored(s)' = Stored(s)
    BY <1>3 DEF Stored
  <2> QED BY <1>1, <1>3, <2>1, <2>2 DEF Numbered
<1>4. ASSUME NEW q \in Questions, Save(q) PROVE Numbered'
  <2> DEFINE s == sid[q]
             c == count[s]
             a == [session |-> s, turn |-> c, role |-> "user", question |-> q]
             b == [session |-> s, turn |-> c + 1, role |-> "assistant", question |-> q]
  <2>1. /\ request[q] = "saving" /\ request' = [request EXCEPT ![q] = "replied"]
        /\ count' = [count EXCEPT ![s] = c + 2] /\ UNCHANGED <<sid, index>>
    BY <1>4 DEF Save
  <2>2. index[q] = c /\ c \in Nat /\ s \in Sessions /\ InFlight(q)
    BY <1>1, <1>2, <2>1 DEF Numbered, InFlight
  <2>3. message' = message \union {a, b} /\ \A u : Stored(u)' = Stored(u) \union (IF u = s THEN {a, b} ELSE {})
    BY <1>4, <2>2, StoredAfter DEF Save, Exchange
  <2>4. /\ a.session = s /\ b.session = s /\ a.turn = c /\ b.turn = c + 1
        /\ a.question = q /\ b.question = q
    OBVIOUS
  <2>5. ASSUME NEW m \in message, m.session = s
        PROVE  m.turn \in 0 .. c - 1 /\ m.question < q
    <3>1. m \in Stored(s) /\ m.question \in Questions /\ request[m.question] \in {"replied", "over"}
          /\ sid[m.question] = s
      BY <2>5 DEF AskedInOrder, Stored, Typed, TypeOK, Row
    <3>2. m.question <= q
      BY <1>1, <2>2, <3>1 DEF OneAtATime
    <3>3. m.question # q
      BY <2>1, <3>1
    <3>4. m.turn \in 0 .. c - 1
      BY <1>1, <2>2, <3>1 DEF Numbered
    <3> QED BY <3>1, <3>2, <3>3, <3>4, CopilotAssumption DEF Questions
  <2>6. ASSUME NEW u \in Sessions PROVE {m.turn : m \in Stored(u)'} = 0 .. count'[u] - 1
    <3>1. {m.turn : m \in Stored(u)} = 0 .. count[u] - 1
      BY <1>1 DEF Numbered
    <3> HIDE DEF a, b
    <3>2. CASE u = s
      <4>1. {m.turn : m \in Stored(u)'} = (0 .. c - 1) \union {c, c + 1}
        BY <2>3, <2>4, <3>1, <3>2
      <4>2. count'[u] = c + 2
        BY <1>2, <2>1, <2>2, <3>2
      <4> QED BY <2>2, <4>1, <4>2
    <3>3. CASE u # s
      BY <1>2, <2>1, <2>3, <3>1, <3>3
    <3> QED BY <3>2, <3>3
  <2>7. ASSUME NEW m \in message', NEW n \in message', m.session = n.session
        PROVE  /\ m.question < n.question => m.turn < n.turn
               /\ m.turn = n.turn => m = n
    <3>1. q \in Nat /\ \A o \in message : o.question \in Nat /\ o.turn \in Nat
      BY CopilotAssumption DEF Questions, Typed, TypeOK, Row
    <3> HIDE DEF a, b
    <3>2. CASE m \in message /\ n \in message
      BY <1>1, <2>7, <3>2 DEF Numbered
    <3>3. CASE m \in message /\ n \in {a, b}
      BY <2>2, <2>4, <2>5, <2>7, <3>1, <3>3
    <3>4. CASE m \in {a, b} /\ n \in message
      BY <2>2, <2>4, <2>5, <2>7, <3>1, <3>4
    <3>5. CASE m \in {a, b} /\ n \in {a, b}
      BY <2>2, <2>4, <3>1, <3>5
    <3> QED BY <2>3, <3>2, <3>3, <3>4, <3>5
  <2>8. ASSUME NEW r \in Questions, request'[r] = "saving" PROVE index'[r] = count'[sid'[r]]
    <3>1. r # q /\ request[r] = "saving" /\ InFlight(r)
      BY <1>2, <2>1, <2>8 DEF InFlight
    <3>2. sid[r] # s
      <4>1. sid[r] = s => r <= q /\ q <= r
        BY <1>1, <2>1, <2>2, <3>1 DEF OneAtATime
      <4> QED BY <3>1, <4>1, CopilotAssumption DEF Questions
    <3>3. index[r] = count[sid[r]]
      BY <1>1, <3>1 DEF Numbered
    <3> QED BY <1>2, <2>1, <3>2, <3>3
  <2> HIDE DEF s, c, a, b
  <2> QED BY <2>6, <2>7, <2>8 DEF Numbered
<1> QED BY <1>3, <1>4, MessagesAfter

InOrder == OneAtATime /\ Numbered
LEMMA OrderKept == Spec => []InOrder
<1>1. Init => InOrder
  <2>1. Init => \A s \in Sessions : Stored(s) = {} /\ count[s] = 0
    BY DEF Init, Stored
  <2>2. Init => Numbered
    BY <2>1 DEF Init, Numbered
  <2> QED BY <2>2 DEF Init, InOrder, OneAtATime, InFlight
<1>2. Typed /\ Memory /\ InOrder /\ [Next]_vars => InOrder'
  BY OneStep, NumberedStep DEF Memory, InOrder
<1> QED BY <1>1, <1>2, CopilotTyped, MemoryKept, PTL DEF Spec

\* As long as the page gives up on no request, the turns of a session are numbered
\* 0, 1, 2, ... in the order they were asked and answered
\* (memory._next_turn_index, save_exchange).
THEOREM TurnsAreNumbered == Spec => []TurnsInOrder
<1>1. Typed /\ Memory /\ InOrder => TurnsInOrder
  <2> SUFFICES ASSUME Typed, CountIsExact, Numbered, timeouts = 0, NEW s \in Sessions
               PROVE  /\ {m.turn : m \in Stored(s)} = 0 .. Cardinality(Stored(s)) - 1
                      /\ \A m, n \in Stored(s) : m.question < n.question => m.turn < n.turn
    BY DEF Memory, InOrder, TurnsInOrder
  <2> QED BY DEF Numbered, CountIsExact, Stored
<1> QED BY <1>1, CopilotTyped, MemoryKept, OrderKept, PTL

\* The most recent turns are those that fewer than Limit turns come after.
LEMMA RecentAreLast ==
  ASSUME NEW S, IsFiniteSet(S), \A m \in S : m.turn \in Nat,
         \A m, n \in S : m.turn = n.turn => m = n,
         NEW R \in SUBSET S,
         Cardinality(R) = IF Cardinality(S) < Limit THEN Cardinality(S) ELSE Limit,
         \A m \in R, out \in S \ R : out.turn <= m.turn
  PROVE  R = {m \in S : Cardinality({n \in S : m.turn < n.turn}) < Limit}
<1> DEFINE Later(m) == {n \in S : m.turn < n.turn}
<1>1. /\ IsFiniteSet(R) /\ Cardinality(R) \in Nat /\ Cardinality(S) \in Nat /\ Limit \in Nat
      /\ Cardinality(R) <= Cardinality(S) /\ (Cardinality(R) = Cardinality(S) => R = S)
  BY FS_Subset, FS_CardinalityType, CopilotAssumption
<1>2. ASSUME NEW m \in R PROVE Cardinality(Later(m)) < Limit
  <2>1. Later(m) \in SUBSET (R \ {m})
    OBVIOUS
  <2>2. IsFiniteSet(R \ {m}) /\ Cardinality(R \ {m}) = Cardinality(R) - 1
    BY <1>1, FS_RemoveElement
  <2>3. Cardinality(Later(m)) \in Nat /\ Cardinality(Later(m)) <= Cardinality(R) - 1
    BY <2>1, <2>2, FS_Subset, FS_CardinalityType
  <2>4. Cardinality(R) <= Limit
    BY <1>1
  <2> HIDE DEF Later
  <2> QED BY <1>1, <2>3, <2>4
<1>3. ASSUME NEW m \in S \ R PROVE ~ (Cardinality(Later(m)) < Limit)
  <2>1. Cardinality(R) = Limit
    BY <1>1, <1>3
  <2>2. R \in SUBSET Later(m)
    <3>1. ASSUME NEW r \in R PROVE m.turn < r.turn
      <4>1. m.turn <= r.turn /\ m # r
        OBVIOUS
      <4> QED BY <4>1
    <3> QED BY <3>1
  <2>3. IsFiniteSet(Later(m)) /\ Cardinality(Later(m)) \in Nat
    <3>1. Later(m) \in SUBSET S
      OBVIOUS
    <3> QED BY <3>1, FS_Subset, FS_CardinalityType
  <2>4. Cardinality(R) <= Cardinality(Later(m))
    BY <2>2, <2>3, FS_Subset
  <2> HIDE DEF Later
  <2> QED BY <1>1, <2>1, <2>3, <2>4
<1> HIDE DEF Later
<1>4. R = {m \in S : Cardinality(Later(m)) < Limit}
  BY <1>2, <1>3
<1> QED BY <1>4 DEF Later

\* What was saved before a question stays what it was: the session's only request in
\* flight is for a later question.
LEMMA BeforeKept ==
  ASSUME Typed, AskedInOrder, OneAtATime, [Next]_vars, timeouts = 0,
         NEW q \in Questions, request[q] # "none"
  PROVE  Before(q)' = Before(q) /\ \A m : After(q, m)' = After(q, m)
<1>1. sid'[q] = sid[q]
  <2>1. CASE Submit
    <3>1. q # asked + 1
      BY CopilotAssumption DEF AskedInOrder, Typed, TypeOK, Questions
    <3> QED BY <2>1, <3>1 DEF Submit, Typed, TypeOK
  <2>2. CASE ~ Submit
    BY <2>2 DEF Next, Work, Reload, Load, LoadFails, Answer, AnswerFails, ReadNext, Save, SaveFails, Receive,
       Timeout, vars
  <2> QED BY <2>1, <2>2
<1>2. CASE UNCHANGED <<message, count>>
  BY <1>1, <1>2 DEF Before, After, Stored
<1>3. ASSUME NEW r \in Questions, Save(r) PROVE Before(q)' = Before(q)
  <2>1. Stored(sid[q])' = Stored(sid[q]) \union (IF sid[q] = sid[r] THEN Exchange(r, index[r]) ELSE {})
    BY <1>1, <1>3 DEF Save, Stored, Exchange
  <2>2. \A m \in Exchange(r, index[r]) : m.question = r
    BY DEF Exchange
  <2>3. sid[q] = sid[r] => q <= r
    BY <1>3 DEF Save, OneAtATime, InFlight
  <2>4. sid[q] = sid[r] => ~ (r < q)
    BY <2>3, CopilotAssumption DEF Questions
  <2>5. Before(q)' = {m \in Stored(sid[q])' : m.question < q}
    BY <1>1 DEF Before
  <2> QED BY <2>1, <2>2, <2>4, <2>5 DEF Before
<1>4. Before(q)' = Before(q) => \A m : After(q, m)' = After(q, m)
  BY DEF After
<1> QED BY <1>2, <1>3, <1>4, MessagesAfter

\* A question has been given nothing before it is asked.
NothingYet == \A q \in Questions : request[q] = "none" => given[q] = {}

\* What a request is given it is given by Load, when all its session has saved was
\* saved before the question.
LEMMA GivenStep ==
  ASSUME Typed, AskedInOrder, OneAtATime, Numbered, NothingYet, GivenTheLastTurns, [Next]_vars
  PROVE  NothingYet' /\ GivenTheLastTurns'
<1>1. /\ request \in [Questions -> Steps] /\ given \in [Questions -> SUBSET Row]
      /\ sid \in [Questions -> Sessions] /\ Questions \subseteq Nat
  BY DEF Typed, TypeOK, Questions
<1>2. ASSUME NEW q \in Questions PROVE given'[q] = given[q] \/ Load(q)
  BY <1>1, <1>2 DEF Next, Work, Submit, Reload, Load, LoadFails, Answer, AnswerFails, ReadNext, Save,
     SaveFails, Receive, Timeout, vars, page
<1>3. ASSUME NEW q \in Questions, request[q] # "none" PROVE request'[q] # "none"
  BY <1>3, FlightAfter, CopilotAssumption DEF InFlight, AskedInOrder, Typed, TypeOK, Questions
<1>4. NothingYet'
  BY <1>1, <1>2, <1>3 DEF NothingYet, Load
<1>5. ASSUME timeouts' = 0, NEW q \in Questions, request'[q] # "none", given'[q] # {}
      PROVE  given'[q] = {m \in Before(q)' : Cardinality(After(q, m)') < Limit}
  <2>1. timeouts = 0
    BY <1>5 DEF Next, Work, Submit, Reload, Load, LoadFails, Answer, AnswerFails, ReadNext, Save, SaveFails,
       Receive, Timeout, vars, Typed, TypeOK
  <2>2. request[q] # "none"
    BY <1>2, <1>5 DEF NothingYet, Load
  <2>3. Before(q)' = Before(q) /\ \A m : After(q, m)' = After(q, m)
    BY <2>1, <2>2, BeforeKept
  <2>4. CASE given'[q] = given[q]
    <3>1. given[q] = {m \in Before(q) : Cardinality(After(q, m)) < Limit}
      BY <1>5, <2>1, <2>2, <2>4 DEF GivenTheLastTurns
    <3> QED BY <2>3, <2>4, <3>1
  <2>5. CASE Load(q)
    <3>1. PICK R \in RecentTurns(sid[q]) : given'[q] = R
      BY <1>1, <2>5 DEF Load
    <3>2. Before(q) = Stored(sid[q])
      <4>1. ASSUME NEW m \in Stored(sid[q]) PROVE m.question < q
        <5>1. /\ m \in message /\ m.question \in Questions /\ sid[m.question] = sid[q]
              /\ request[m.question] \in {"replied", "over"}
          BY DEF Stored, AskedInOrder, Typed, TypeOK, Row
        <5>2. InFlight(q) /\ request[q] = "posted"
          BY <2>5 DEF Load, InFlight
        <5>3. m.question <= q /\ m.question # q
          BY <2>1, <5>1, <5>2 DEF OneAtATime
        <5>4. m.question \in Nat /\ q \in Nat
          BY <1>1, <5>1
        <5> QED BY <5>3, <5>4
      <4> QED BY <4>1 DEF Before
    <3>3. /\ \A m \in Stored(sid[q]) : m.turn \in Nat
          /\ \A m, n \in Stored(sid[q]) : m.turn = n.turn => m = n
      BY <2>1 DEF Stored, Numbered, Typed, TypeOK, Row
    <3>4. R = {m \in Stored(sid[q]) : Cardinality({n \in Stored(sid[q]) : m.turn < n.turn}) < Limit}
      BY <3>1, <3>3, StoredIsFinite, RecentAreLast DEF RecentTurns
    <3> QED BY <2>3, <3>1, <3>2, <3>4 DEF After
  <2> QED BY <1>2, <2>4, <2>5
<1>6. GivenTheLastTurns'
  BY <1>5 DEF GivenTheLastTurns
<1> QED BY <1>4, <1>6

\* As long as the page gives up on no request, a question is given the last turns
\* saved before it, as many as are remembered, and nothing of another session
\* (memory.load_history).
THEOREM TheHistoryIsTheLastTurns == Spec => []GivenTheLastTurns
<1>1. Init => NothingYet /\ GivenTheLastTurns
  <2>1. Init => \A q \in Questions : given[q] = {}
    BY DEF Init
  <2> QED BY <2>1 DEF NothingYet, GivenTheLastTurns
<1>2. Typed /\ Memory /\ InOrder /\ NothingYet /\ GivenTheLastTurns /\ [Next]_vars
        => (NothingYet /\ GivenTheLastTurns)'
  BY GivenStep DEF Memory, InOrder
<1> QED BY <1>1, <1>2, CopilotTyped, MemoryKept, OrderKept, PTL DEF Spec

-----------------------------------------------------------------------------
(* The turns, however the saves overlap                                    *)

\* What the next save reads is an even turn, after the last that is taken.
LEMMA NextIsEven ==
  ASSUME Typed, AskedInOrder, TurnsAlternate, NEW s \in Sessions
  PROVE  /\ LastTurn(s) + 1 \in Nat /\ (LastTurn(s) + 1) % 2 = 0
         /\ LastTurn(s) + 1 # 0 => \E m \in Stored(s) : m.turn = LastTurn(s)
<1>1. PICK t \in Nat \union {-1} : IsLast(t, s)
  BY DEF Typed, HasLast
<1>2. LastTurn(s) = t
  BY <1>1, LastIsLast, TurnsType DEF Typed
<1>3. CASE t = -1
  BY <1>2, <1>3
<1>4. CASE t # -1
  <2>1. PICK m \in Stored(s) : m.turn = t
    BY <1>1, <1>4 DEF IsLast, Turns
  <2>2. m \in message /\ m.session = s /\ m.question \in Questions /\ t \in Nat
        /\ m.role \in {"user", "assistant"}
    BY <1>4, <2>1 DEF Stored, Typed, TypeOK, Row
  <2>3. sid[m.question] = s
    BY <2>2 DEF AskedInOrder
  <2>4. t % 2 # 0
    <3> SUFFICES ASSUME t % 2 = 0 PROVE FALSE
      OBVIOUS
    <3>1. t - (t % 2) = t
      BY <2>2
    <3>2. Exchange(m.question, t) \subseteq message
      BY <2>1, <2>2, <3>1 DEF TurnsAlternate
    <3> DEFINE b == [session |-> s, turn |-> t + 1, role |-> "assistant", question |-> m.question]
    <3>3. b \in Stored(s) /\ b.turn = t + 1
      BY <2>3, <3>2 DEF Exchange, Stored
    <3> HIDE DEF b
    <3>4. t + 1 \in Turns(s)
      BY <3>3 DEF Turns
    <3> QED BY <1>1, <2>2, <3>4 DEF IsLast
  <2>5. (t + 1) % 2 = 0 /\ t + 1 \in Nat
    BY <2>2, <2>4
  <2> QED BY <1>2, <2>1, <2>5
<1> QED BY <1>3, <1>4

LEMMA AlternateStep ==
  ASSUME Typed, AskedInOrder, TurnsAlternate, SavesAfterAnAnswer, [Next]_vars
  PROVE  (TurnsAlternate /\ SavesAfterAnAnswer)'
<1>1. /\ request \in [Questions -> Steps] /\ sid \in [Questions -> Sessions]
      /\ index \in [Questions -> Nat]
  BY DEF Typed, TypeOK
<1>2. ASSUME NEW q \in Questions, request[q] # "none" PROVE sid'[q] = sid[q]
  <2>1. CASE Submit
    <3>1. q # asked + 1
      BY <1>2, CopilotAssumption DEF AskedInOrder, Typed, TypeOK, Questions
    <3> QED BY <1>1, <2>1, <3>1 DEF Submit
  <2>2. CASE ~ Submit
    BY <2>2 DEF Next, Work, Reload, Load, LoadFails, Answer, AnswerFails, ReadNext, Save, SaveFails, Receive,
       Timeout, vars
  <2> QED BY <2>1, <2>2
<1>3. \A m \in message : m.question \in Questions /\ request[m.question] # "none" /\ m.turn \in Nat
  BY DEF AskedInOrder, Typed, TypeOK, Row
<1>4. \A s : Stored(s) \subseteq Stored(s)'
  BY MessagesAfter DEF Save, Stored
<1>5. ASSUME NEW q \in Questions, request'[q] = "saving"
      PROVE  /\ index'[q] % 2 = 0
             /\ index'[q] # 0 => \E m \in Stored(sid[q])' : m.turn = index'[q] - 1
  <2>1. CASE ReadNext(q)
    <3>1. index'[q] = LastTurn(sid[q]) + 1 /\ sid' = sid
      BY <1>1, <2>1 DEF ReadNext
    <3>2. sid[q] \in Sessions
      BY <1>1
    <3>3. /\ index'[q] \in Nat /\ index'[q] % 2 = 0
          /\ index'[q] # 0 => \E m \in Stored(sid[q]) : m.turn = LastTurn(sid[q])
      BY <3>1, <3>2, NextIsEven
    <3>4. LastTurn(sid[q]) = index'[q] - 1
      <4>1. PICK t \in Nat \union {-1} : IsLast(t, sid[q])
        BY <3>2 DEF Typed, HasLast
      <4>2. LastTurn(sid[q]) = t
        BY <4>1, LastIsLast, TurnsType DEF Typed
      <4> QED BY <3>1, <4>2
    <3> QED BY <1>4, <3>1, <3>3, <3>4 DEF Stored
  <2>2. CASE ~ ReadNext(q)
    <3>1. request[q] = "saving" /\ index'[q] = index[q]
      BY <1>1, <1>5, <2>2 DEF Next, Work, Submit, Reload, Load, LoadFails, Answer, AnswerFails, ReadNext,
         Save, SaveFails, Receive, Timeout, vars
    <3>2. sid'[q] = sid[q]
      BY <1>2, <3>1
    <3>3. /\ index[q] % 2 = 0
          /\ index[q] # 0 => \E m \in Stored(sid[q]) : m.turn = index[q] - 1
      BY <3>1 DEF SavesAfterAnAnswer
    <3>4. index[q] # 0 => \E m \in Stored(sid[q])' : m.turn = index[q] - 1
      BY <1>4, <3>2, <3>3 DEF Stored
    <3> QED BY <3>1, <3>3, <3>4
  <2> QED BY <2>1, <2>2
<1>6. ASSUME NEW m \in message
      PROVE  /\ m.role = "user" <=> m.turn % 2 = 0
             /\ Exchange(m.question, m.turn - (m.turn % 2))' \subseteq message'
             /\ \A t \in 0 .. m.turn : \E n \in Stored(m.session)' : n.turn = t
  <2>1. sid'[m.question] = sid[m.question] /\ message \subseteq message'
    BY <1>2, <1>3, MessagesAfter DEF Save
  <2>2. Exchange(m.question, m.turn - (m.turn % 2))' = Exchange(m.question, m.turn - (m.turn % 2))
    BY <2>1 DEF Exchange
  <2> QED BY <1>4, <2>1, <2>2 DEF TurnsAlternate
<1>7. CASE UNCHANGED <<message, count>>
  <2>1. TurnsAlternate'
    BY <1>6, <1>7 DEF TurnsAlternate
  <2> QED BY <1>5, <2>1 DEF SavesAfterAnAnswer
<1>8. ASSUME NEW q \in Questions, Save(q) PROVE TurnsAlternate'
  <2> DEFINE a == [session |-> sid[q], turn |-> index[q], role |-> "user", question |-> q]
             b == [session |-> sid[q], turn |-> index[q] + 1, role |-> "assistant", question |-> q]
  <2>1. /\ request[q] = "saving" /\ sid' = sid /\ message' = message \union {a, b}
        /\ Stored(sid[q])' = Stored(sid[q]) \union {a, b}
    BY <1>8, StoredAfter DEF Save, Exchange
  <2>2. PICK i \in Nat : i = index[q]
    BY <1>1
  <2>3. i % 2 = 0 /\ (i # 0 => \E n \in Stored(sid[q]) : n.turn = i - 1)
    BY <2>1, <2>2 DEF SavesAfterAnAnswer
  <2>4. (i + 1) % 2 = 1 /\ i - (i % 2) = i /\ (i + 1) - ((i + 1) % 2) = i
    BY <2>3
  <2>5. Exchange(q, i) = {a, b} /\ Exchange(q, i)' = {a, b}
    BY <2>1, <2>2 DEF Exchange
  <2>6. /\ a.turn = i /\ b.turn = i + 1 /\ a.role = "user" /\ b.role # "user"
        /\ a.question = q /\ b.question = q /\ a.session = sid[q] /\ b.session = sid[q]
    BY <2>2
  <2>7. ASSUME NEW t \in 0 .. i + 1 PROVE \E n \in Stored(sid[q])' : n.turn = t
    <3>1. CASE t \in {i, i + 1}
      BY <2>1, <2>6, <3>1
    <3>2. CASE t \notin {i, i + 1}
      <4>1. i # 0 /\ t \in 0 .. i - 1
        BY <2>7, <3>2
      <4>2. PICK n \in Stored(sid[q]) : n.turn = i - 1
        BY <2>3, <4>1
      <4>3. n \in message /\ n.session = sid[q]
        BY <4>2 DEF Stored
      <4>4. PICK o \in Stored(sid[q]) : o.turn = t
        BY <4>1, <4>2, <4>3 DEF TurnsAlternate
      <4> QED BY <2>1, <4>4
    <3> QED BY <3>1, <3>2
  <2> HIDE DEF a, b
  <2>8. ASSUME NEW m \in {a, b}
        PROVE  /\ m.role = "user" <=> m.turn % 2 = 0
               /\ Exchange(m.question, m.turn - (m.turn % 2))' \subseteq message'
               /\ \A t \in 0 .. m.turn : \E n \in Stored(m.session)' : n.turn = t
    <3>1. m.question = q /\ m.session = sid[q] /\ m.turn \in {i, i + 1} /\ m.turn - (m.turn % 2) = i
      BY <2>4, <2>6
    <3>2. m.role = "user" <=> m.turn % 2 = 0
      BY <2>3, <2>4, <2>6
    <3>3. Exchange(m.question, m.turn - (m.turn % 2))' = Exchange(q, i)'
      BY <3>1
    <3>4. \A t \in 0 .. m.turn : t \in 0 .. i + 1
      BY <3>1
    <3>5. Stored(m.session)' = Stored(sid[q])'
      BY <2>1, <3>1 DEF Stored
    <3> QED BY <2>1, <2>5, <2>7, <3>2, <3>3, <3>4, <3>5
  <2>9. ASSUME NEW m \in message'
        PROVE  /\ m.role = "user" <=> m.turn % 2 = 0
               /\ Exchange(m.question, m.turn - (m.turn % 2))' \subseteq message'
               /\ \A t \in 0 .. m.turn : \E n \in Stored(m.session)' : n.turn = t
    BY <1>6, <2>1, <2>8
  <2> QED BY <2>9 DEF TurnsAlternate
<1> QED BY <1>5, <1>7, <1>8, MessagesAfter DEF SavesAfterAnAnswer

\* However the saves of a session overlap, no turn of it is left out, questions are
\* on the even turns and answers on the odd ones, each exchange whole: a history read
\* in the order of the turns alternates (memory.save_exchange, _next_turn_index).
THEOREM OverlappingTurnsAlternate == Spec => []TurnsAlternate
<1>1. Init => TurnsAlternate /\ SavesAfterAnAnswer
  BY DEF Init, TurnsAlternate, SavesAfterAnAnswer
<1>2. Typed /\ Memory /\ TurnsAlternate /\ SavesAfterAnAnswer /\ [Next]_vars
        => (TurnsAlternate /\ SavesAfterAnAnswer)'
  BY AlternateStep DEF Memory
<1> QED BY <1>1, <1>2, CopilotTyped, MemoryKept, PTL DEF Spec
=============================================================================
