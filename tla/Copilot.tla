------------------------------ MODULE Copilot ------------------------------
(***************************************************************************)
(* A conversation with the copilot: the dashboard page that asks, the API  *)
(* request that answers (AgentLoop says how), and the conversation memory  *)
(* in Postgres that the requests of one session share.  The page gives up  *)
(* on a request after a while; the request does not know, and goes on.     *)
(***************************************************************************)
EXTENDS Integers, Sequences, FiniteSets, FiniteSetsExt

CONSTANTS
  MaxQuestions, \* bound on the questions asked
  Limit,        \* OPS_AGENT_MEMORY_TURNS
  MaxFaults,    \* bound on failures of the database and of the loop
  MaxTimeouts,  \* bound on requests the page gives up on
  MaxReloads    \* bound on reloads of the page

ASSUME CopilotAssumption ==
  /\ MaxQuestions \in Nat
  /\ Limit \in Nat
  /\ MaxFaults \in Nat /\ MaxTimeouts \in Nat /\ MaxReloads \in Nat

\* Questions, in the order they are asked
Questions == 1 .. MaxQuestions

VARIABLES
  session,    \* the page's session id: how often the page has been laid out
  transcript, \* the page's turns
  waiting,    \* the question the page waits for, 0 when Send is enabled
  asked,      \* how many questions have been asked
  request,    \* the API request of each question: its step
  sid,        \* ... its session
  given,      \* ... the stored turns it was given as history
  index,      \* ... the turn index it read for its save
  message,    \* agent.message
  count,      \* agent.conversation.message_count, by session
  faults, timeouts

vars == <<session, transcript, waiting, asked, request, sid, given, index, message,
          count, faults, timeouts>>
page == <<session, transcript, waiting, asked>>

Sessions == 0 .. MaxReloads
Steps == {"none", "posted", "asking", "answered", "saving", "replied", "failed", "over"}
Row == [session : Sessions, turn : Nat, role : {"user", "assistant"}, question : Questions]

Init ==
  /\ session = 0 /\ transcript = << >> /\ waiting = 0 /\ asked = 0
  /\ request = [q \in Questions |-> "none"]
  /\ sid = [q \in Questions |-> 0]
  /\ given = [q \in Questions |-> {}]
  /\ index = [q \in Questions |-> 0]
  /\ message = {}
  /\ count = [s \in Sessions |-> 0]
  /\ faults = 0 /\ timeouts = 0

-----------------------------------------------------------------------------
(* The page                                                                *)

\* Mutant: Send stays enabled while the agent works.
SubmitAnytime ==
  /\ asked + 1 \in Questions
  /\ asked' = asked + 1
  /\ transcript' = Append(transcript, [role |-> "user", question |-> asked + 1])
  /\ waiting' = asked + 1
  /\ request' = [request EXCEPT ![asked + 1] = "posted"]
  /\ sid' = [sid EXCEPT ![asked + 1] = session]
  /\ UNCHANGED <<session, given, index, message, count, faults, timeouts>>

\* submit_question, and the post of run_agent_call it triggers
Submit ==
  /\ waiting = 0
  /\ asked + 1 \in Questions
  /\ asked' = asked + 1
  /\ transcript' = Append(transcript, [role |-> "user", question |-> asked + 1])
  /\ waiting' = asked + 1
  /\ request' = [request EXCEPT ![asked + 1] = "posted"]
  /\ sid' = [sid EXCEPT ![asked + 1] = session]
  /\ UNCHANGED <<session, given, index, message, count, faults, timeouts>>

ShowTurn(q) ==
  /\ transcript' = Append(transcript, [role |-> "assistant", question |-> q])
  /\ waiting' = 0

\* The response reaches the page, unless nobody waits for it any more.
Receive(q) ==
  /\ request[q] \in {"replied", "failed"}
  /\ request' = [request EXCEPT ![q] = "over"]
  /\ IF waiting = q THEN ShowTurn(q) ELSE UNCHANGED <<transcript, waiting>>
  /\ UNCHANGED <<session, asked, sid, given, index, message, count, faults, timeouts>>

\* agent_ask's read timeout: the page shows an error turn and enables Send.
Timeout(q) ==
  /\ waiting = q
  /\ request[q] \notin {"replied", "failed"}
  /\ timeouts < MaxTimeouts
  /\ timeouts' = timeouts + 1
  /\ ShowTurn(q)
  /\ UNCHANGED <<session, asked, request, sid, given, index, message, count, faults>>

\* The page is laid out anew, with a new session id and empty stores.
Reload ==
  /\ session < MaxReloads
  /\ session' = session + 1
  /\ transcript' = << >> /\ waiting' = 0
  /\ UNCHANGED <<asked, request, sid, given, index, message, count, faults, timeouts>>

-----------------------------------------------------------------------------
(* The request                                                             *)

Stored(s) == {m \in message : m.session = s}

\* Mutant: the oldest turns instead of the most recent ones.
OldestTurns(s) ==
  {R \in SUBSET Stored(s) :
    /\ Cardinality(R) = IF Cardinality(Stored(s)) < Limit THEN Cardinality(Stored(s)) ELSE Limit
    /\ \A m \in R, out \in Stored(s) \ R : out.turn >= m.turn}

\* load_history: the last Limit turns by turn_index, which says nothing about
\* the order of turns with the same index
RecentTurns(s) ==
  {R \in SUBSET Stored(s) :
    /\ Cardinality(R) = IF Cardinality(Stored(s)) < Limit THEN Cardinality(Stored(s)) ELSE Limit
    /\ \A m \in R, out \in Stored(s) \ R : out.turn <= m.turn}

Load(q) ==
  /\ request[q] = "posted"
  /\ \E R \in RecentTurns(sid[q]) : given' = [given EXCEPT ![q] = R]
  /\ request' = [request EXCEPT ![q] = "asking"]
  /\ UNCHANGED <<page, sid, index, message, count, faults, timeouts>>

Fault == faults < MaxFaults /\ faults' = faults + 1

\* The history cannot be read: the question is answered without it.
LoadFails(q) ==
  /\ request[q] = "posted" /\ Fault
  /\ request' = [request EXCEPT ![q] = "asking"]
  /\ UNCHANGED <<page, sid, given, index, message, count, timeouts>>

\* run_once
Answer(q) ==
  /\ request[q] = "asking"
  /\ request' = [request EXCEPT ![q] = "answered"]
  /\ UNCHANGED <<page, sid, given, index, message, count, faults, timeouts>>

\* run_once raises; run_agent apologises and saves nothing.
AnswerFails(q) ==
  /\ request[q] = "asking" /\ Fault
  /\ request' = [request EXCEPT ![q] = "failed"]
  /\ UNCHANGED <<page, sid, given, index, message, count, timeouts>>

\* COALESCE(MAX(turn_index), -1) of the committed messages of a session
LastTurn(s) == Max({m.turn : m \in Stored(s)} \union {-1})

\* Mutant: one short, so that a question takes the place of the last answer.
ReadLastAnswer(q) ==
  /\ request[q] = "answered"
  /\ index' = [index EXCEPT ![q] = Max({0, LastTurn(sid[q])})]
  /\ request' = [request EXCEPT ![q] = "saving"]
  /\ UNCHANGED <<page, sid, given, message, count, faults, timeouts>>

\* save_exchange: _next_turn_index, which sees what is committed
ReadNext(q) ==
  /\ request[q] = "answered"
  /\ index' = [index EXCEPT ![q] = LastTurn(sid[q]) + 1]
  /\ request' = [request EXCEPT ![q] = "saving"]
  /\ UNCHANGED <<page, sid, given, message, count, faults, timeouts>>

\* The exchange of q, from turn index t on
Exchange(q, t) ==
  { [session |-> sid[q], turn |-> t, role |-> "user", question |-> q],
    [session |-> sid[q], turn |-> t + 1, role |-> "assistant", question |-> q] }

\* Mutant: the count is taken from the index and not from the row.
SaveCountByIndex(q) ==
  /\ request[q] = "saving"
  /\ message' = message \union Exchange(q, index[q])
  /\ count' = [count EXCEPT ![sid[q]] = index[q] + 2]
  /\ request' = [request EXCEPT ![q] = "replied"]
  /\ UNCHANGED <<page, sid, given, index, faults, timeouts>>

\* ... two inserts and the upsert of the conversation, committed together
Save(q) ==
  /\ request[q] = "saving"
  /\ message' = message \union Exchange(q, index[q])
  /\ count' = [count EXCEPT ![sid[q]] = @ + 2]
  /\ request' = [request EXCEPT ![q] = "replied"]
  /\ UNCHANGED <<page, sid, given, index, faults, timeouts>>

\* Mutant: a failed save is raised, and the worker dies with the request.
SaveFailsSilently(q) ==
  /\ request[q] = "saving" /\ Fault
  /\ request' = [request EXCEPT ![q] = "none"]
  /\ UNCHANGED <<page, sid, given, index, message, count, timeouts>>

\* The save fails and is rolled back; the answer is returned all the same.
SaveFails(q) ==
  /\ request[q] = "saving" /\ Fault
  /\ request' = [request EXCEPT ![q] = "replied"]
  /\ UNCHANGED <<page, sid, given, index, message, count, timeouts>>

-----------------------------------------------------------------------------
Work(q) ==
  \/ Load(q) \/ LoadFails(q) \/ Answer(q) \/ AnswerFails(q)
  \/ ReadNext(q) \/ Save(q) \/ SaveFails(q) \/ Receive(q)

Next ==
  \/ Submit \/ Reload
  \/ \E q \in Questions : Work(q) \/ Timeout(q)

Spec == Init /\ [][Next]_vars

\* Requests are worked on: the loop ends (AgentLoop) and so do the statements.
FairSpec == Spec /\ \A q \in Questions : WF_vars(Work(q))

-----------------------------------------------------------------------------
(* Properties                                                              *)

\* Every variable holds a value of its type.
TypeOK ==
  /\ session \in Sessions
  /\ transcript \in Seq([role : {"user", "assistant"}, question : Questions])
  /\ waiting \in Questions \union {0}
  /\ asked \in Questions \union {0}
  /\ request \in [Questions -> Steps]
  /\ sid \in [Questions -> Sessions]
  /\ given \in [Questions -> SUBSET Row]
  /\ index \in [Questions -> Nat]
  /\ message \subseteq Row
  /\ count \in [Sessions -> Nat]
  /\ faults \in 0 .. MaxFaults /\ timeouts \in 0 .. MaxTimeouts

\* The page shows a question and then its own answer, one after the other,
\* whatever comes late or not at all; Send is disabled exactly in between.
PageAlternates ==
  /\ \A i \in 1 .. Len(transcript) :
       /\ transcript[i].role = "assistant" <=> i % 2 = 0
       /\ i % 2 = 0 => transcript[i].question = transcript[i - 1].question
  /\ waiting # 0 <=> Len(transcript) % 2 = 1

\* message_count is the number of messages, however the saves of the session
\* overlap.
CountIsExact == \A s \in Sessions : count[s] = Cardinality(Stored(s))

\* As long as the page has not given up on a request, the turns of a session
\* are numbered 0, 1, 2, ... in the order they were asked and answered.
TurnsInOrder ==
  timeouts = 0 =>
  \A s \in Sessions :
    /\ {m.turn : m \in Stored(s)} = 0 .. Cardinality(Stored(s)) - 1
    /\ \A m, n \in Stored(s) : m.question < n.question => m.turn < n.turn

\* ... and a question is given the last turns saved before it, as many as are
\* remembered, or nothing when the memory could not be read.
Before(q) == {m \in Stored(sid[q]) : m.question < q}
After(q, m) == {n \in Before(q) : m.turn < n.turn}
GivenTheLastTurns ==
  timeouts = 0 =>
  \A q \in Questions :
    request[q] # "none" /\ given[q] # {} =>
      given[q] = {m \in Before(q) : Cardinality(After(q, m)) < Limit}

\* Even when they overlap, the exchanges of a session are whole, questions on the
\* even turns and answers on the odd ones, and no turn is left out: several may be
\* of the same turn, but a history in the order of the turns alternates.
TurnsAlternate ==
  \A m \in message :
    /\ m.role = "user" <=> m.turn % 2 = 0
    /\ Exchange(m.question, m.turn - (m.turn % 2)) \subseteq message
    /\ \A t \in 0 .. m.turn : \E n \in Stored(m.session) : n.turn = t

\* The invariants behind them.  Questions are numbered as they are asked, and
\* only a request that has got past its save has messages, in its own session.
InFlight(q) == request[q] \notin {"none", "over"}
AskedInOrder ==
  /\ \A q \in Questions : request[q] # "none" <=> q <= asked
  /\ \A q \in Questions : sid[q] <= session
  /\ \A m \in message : request[m.question] \in {"replied", "over"} /\ sid[m.question] = m.session

\* What the page waits for is the question it shows last.
WaitsForTheLast ==
  waiting # 0 => /\ Len(transcript) > 0 /\ transcript[Len(transcript)].question = waiting
                 /\ waiting <= asked

\* As long as the page has not given up on a request, a session has one request at a
\* time, for the last of its questions; the page waits for it, until it is reloaded.
OneAtATime ==
  timeouts = 0 =>
  \A q \in Questions : InFlight(q) =>
    /\ sid[q] = session => waiting = q
    /\ \A r \in Questions : request[r] # "none" /\ sid[r] = sid[q] => r <= q

\* So its turns are numbered without a gap, and as it goes to save, from the count on.
Numbered ==
  timeouts = 0 =>
  /\ \A s \in Sessions : {m.turn : m \in Stored(s)} = 0 .. count[s] - 1
  /\ \A m, n \in message : m.session = n.session =>
       /\ m.question < n.question => m.turn < n.turn
       /\ m.turn = n.turn => m = n
  /\ \A q \in Questions : request[q] = "saving" => index[q] = count[sid[q]]

\* ... and, overlapping or not, from an even turn, after one that is taken.
SavesAfterAnAnswer ==
  \A q \in Questions : request[q] = "saving" =>
    /\ index[q] % 2 = 0
    /\ index[q] # 0 => \E m \in Stored(sid[q]) : m.turn = index[q] - 1

\* Every question the page waits for is answered, if only with an error.
EveryQuestionIsAnswered == \A q \in Questions : waiting = q ~> waiting # q
=============================================================================
