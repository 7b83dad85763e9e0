--------------------------- MODULE RefreshProofs ---------------------------
(***************************************************************************)
(* Theorems about the two Airflow pipelines, for every set of datasets,    *)
(* any number of domains and of pieces an append is committed in, of       *)
(* retries and of failures: AnalyticsRefresh, and MLRefresh as MCRefresh   *)
(* instantiates it.                                                        *)
(***************************************************************************)
EXTENDS MCRefresh, SequenceTheorems, TLAPS

(* The pieces of a table                                                   *)

\* As many pieces of what was read as have been appended to nothing
LEMMA CopiesAppended ==
  ASSUME TypeOK, NEW d \in Ids, NEW k \in 0 .. Parts
  PROVE  /\ Copies(d, k) \in Seq(1 .. MaxChanges)
         /\ << >> \o Copies(d, k) = Copies(d, k)
         /\ Len(Copies(d, k)) = k
         /\ \A i \in 1 .. k : Copies(d, k)[i] = seen[d]
<1>1. d \in Datasets /\ seen[d] \in 1 .. MaxChanges
  BY RefreshAssumption DEF TypeOK, Ids, Scopes
<1>2. k \in Nat /\ Copies(d, k) \in [1 .. k -> 1 .. MaxChanges]
  BY <1>1, RefreshAssumption DEF Copies
<1>3. Copies(d, k) \in Seq(1 .. MaxChanges)
  BY <1>2, SeqDef
<1>4. Len(Copies(d, k)) = k
  BY <1>2
<1> QED BY <1>2, <1>3, <1>4, ConcatEmptySeq DEF Copies

\* A job replaces pieces of the table, the datasets and the domain it is at.
LEMMA ReplacedPieces ==
  ASSUME TypeOK, InPlace, target # "none", NEW pieces,
         \A d \in Ids : pieces[d] \in Seq(1 .. MaxChanges),
         table' = Replaced(pieces)
  PROVE  /\ table' \in [Tables -> [Datasets -> [Domains -> Seq(1 .. MaxChanges)]]]
         /\ \A t \in Tables, d \in Datasets, n \in Domains :
              table'[t][d][n] = IF t = target /\ d \in Ids /\ n = domain
                                  THEN pieces[d] ELSE table[t][d][n]
<1>1. target \in Tables /\ domain \in Domains
  BY DEF TypeOK, InPlace
<1> QED BY <1>1 DEF TypeOK, Replaced

-----------------------------------------------------------------------------
(* What the steps of a run do to the tables                                *)

PlaceInv == TypeOK /\ InPlace /\ ClearedIsEmpty

Emptied(t, d, n) == t = target /\ d \in Ids /\ n = domain
TablesTyped == table' \in [Tables -> [Datasets -> [Domains -> Seq(1 .. MaxChanges)]]]

LEMMA ClearPieces ==
  ASSUME PlaceInv, Clear
  PROVE  /\ TablesTyped
         /\ \A t \in Tables, d \in Datasets, n \in Domains :
              table'[t][d][n] = IF Emptied(t, d, n) THEN << >> ELSE table[t][d][n]
<1> DEFINE pieces == [d \in Ids |-> << >>]
<1>1. target # "none" /\ table' = Replaced(pieces)
  BY DEF Clear
<1>2. \A d \in Ids : pieces[d] = << >> /\ pieces[d] \in Seq(1 .. MaxChanges)
  OBVIOUS
<1> HIDE DEF pieces
<1>3. /\ TablesTyped
      /\ \A t \in Tables, d \in Datasets, n \in Domains :
           table'[t][d][n] = IF Emptied(t, d, n) THEN pieces[d] ELSE table[t][d][n]
  BY <1>1, <1>2, ReplacedPieces DEF PlaceInv, TablesTyped, Emptied
<1> QED BY <1>2, <1>3 DEF Emptied

\* Pieces that are appended are all there is.
LEMMA AppendPieces ==
  ASSUME PlaceInv, target # "none", cleared, NEW k, \A d \in Ids : k[d] \in 0 .. Parts,
         table' = Replaced([d \in Ids |-> table[target][d][domain] \o Copies(d, k[d])])
  PROVE  /\ TablesTyped
         /\ \A t \in Tables, d \in Datasets, n \in Domains :
              table'[t][d][n] = IF Emptied(t, d, n) THEN Copies(d, k[d]) ELSE table[t][d][n]
<1> DEFINE pieces == [d \in Ids |-> table[target][d][domain] \o Copies(d, k[d])]
<1>1. ASSUME NEW d \in Ids
      PROVE  pieces[d] = Copies(d, k[d]) /\ pieces[d] \in Seq(1 .. MaxChanges)
  <2>1. table[target][d][domain] = << >>
    BY DEF PlaceInv, ClearedIsEmpty
  <2>2. PICK m \in 0 .. Parts : m = k[d]
    OBVIOUS
  <2>3. Copies(d, m) \in Seq(1 .. MaxChanges) /\ << >> \o Copies(d, m) = Copies(d, m)
    BY CopiesAppended DEF PlaceInv
  <2>4. pieces[d] = << >> \o Copies(d, m)
    BY <2>1, <2>2
  <2> QED BY <2>2, <2>3, <2>4
<1>2. table' = Replaced(pieces)
  OBVIOUS
<1> HIDE DEF pieces
<1>3. /\ TablesTyped
      /\ \A t \in Tables, d \in Datasets, n \in Domains :
           table'[t][d][n] = IF Emptied(t, d, n) THEN pieces[d] ELSE table[t][d][n]
  BY <1>1, <1>2, ReplacedPieces DEF PlaceInv, TablesTyped, Emptied
<1> QED BY <1>1, <1>3 DEF Emptied

LEMMA WritePieces ==
  ASSUME PlaceInv, Write
  PROVE  /\ TablesTyped
         /\ \A t \in Tables, d \in Datasets, n \in Domains :
              table'[t][d][n] = IF Emptied(t, d, n) THEN Copies(d, Parts) ELSE table[t][d][n]
<1> DEFINE k == [d \in Ids |-> Parts]
<1>1. \A d \in Ids : k[d] = Parts /\ k[d] \in 0 .. Parts
  BY RefreshAssumption
<1>2. table' = Replaced([d \in Ids |-> table[target][d][domain] \o Copies(d, k[d])])
  BY <1>1 DEF Write, Replaced
<1> HIDE DEF k
<1>3. /\ TablesTyped
      /\ \A t \in Tables, d \in Datasets, n \in Domains :
           table'[t][d][n] = IF Emptied(t, d, n) THEN Copies(d, k[d]) ELSE table[t][d][n]
  BY <1>1, <1>2, AppendPieces DEF Write
<1> QED BY <1>1, <1>3 DEF Emptied

LEMMA FailPieces ==
  ASSUME PlaceInv, TaskFails
  PROVE  /\ TablesTyped
         /\ \A t \in Tables, d \in Datasets, n \in Domains :
              \/ table'[t][d][n] = table[t][d][n]
              \/ target # "none" /\ Emptied(t, d, n) /\ \E k \in 0 .. Parts : table'[t][d][n] = Copies(d, k)
<1>1. CASE target # "none" /\ cleared
  <2>1. PICK k \in [Ids -> 0 .. Parts] :
          table' = Replaced([d \in Ids |-> table[target][d][domain] \o Copies(d, k[d])])
    BY <1>1 DEF TaskFails
  <2>2. /\ TablesTyped
        /\ \A t \in Tables, d \in Datasets, n \in Domains :
             table'[t][d][n] = IF Emptied(t, d, n) THEN Copies(d, k[d]) ELSE table[t][d][n]
    BY <1>1, <2>1, AppendPieces
  <2>3. \A d \in Ids : k[d] \in 0 .. Parts
    BY <2>1
  <2> QED BY <1>1, <2>2, <2>3 DEF Emptied
<1>2. CASE ~ (target # "none" /\ cleared)
  BY <1>2 DEF TaskFails, PlaceInv, TypeOK, TablesTyped
<1> QED BY <1>1, <1>2

-----------------------------------------------------------------------------
(* Types and places                                                        *)

LEMMA PlaceInit == Init => PlaceInv
<1> SUFFICES ASSUME Init PROVE PlaceInv
  OBVIOUS
<1> USE RefreshAssumption DEF Init, Nothing
<1>1. << >> \in Seq(1 .. MaxChanges)
  OBVIOUS
<1>2. table \in [Tables -> [Datasets -> [Domains -> Seq(1 .. MaxChanges)]]]
  BY <1>1
<1>3. hub \in [Datasets -> [Domains -> 0 .. MaxChanges]] /\ queued \in [Scopes -> Nat]
  OBVIOUS
<1>4. cleared \in BOOLEAN
  BY Zenon
<1>5. TypeOK
  BY <1>2, <1>3, <1>4 DEF TypeOK
<1> QED BY <1>5 DEF PlaceInv, InPlace, ClearedIsEmpty

\* A load, which asks for a run or does not, ...
Loads(d, domains) == Confirm(d, domains) \/ Ingest(d, domains)

LEMMA LoadFrame ==
  ASSUME NEW d, NEW domains, Loads(d, domains)
  PROVE  /\ changes < MaxChanges /\ changes' = changes + 1
         /\ hub' = [hub EXCEPT ![d] = [n \in Domains |-> IF n \in domains THEN changes + 1 ELSE 0]]
         /\ known' = known \union {d} /\ queued' = queued /\ batches' = batches
         /\ \/ pending' = [pending EXCEPT ![d] = @ + 1] /\ missed' = missed
            \/ pending' = pending /\ missed' = missed \union {d}
  BY DEF Loads, Confirm, Ingest, Change, requested

\* A request of the API, a task of the ingestion DAG, a trigger or a person
Asked(d) ==
  \/ \E domains \in SUBSET Domains \ {{}} : Loads(d, domains)
  \/ ConfirmUnloaded(d)
  \/ \E n \in Domains : Add(d, n)
  \/ Trigger(d) \/ TriggerLost(d)

\* ... leaves the run and the tables alone.
LEMMA AskedFrame ==
  ASSUME NEW d, Asked(d) \/ Batch \/ UNCHANGED vars
  PROVE  UNCHANGED <<table, scope, job, attempt, place>>
  BY DEF Asked, Loads, Confirm, Ingest, ConfirmUnloaded, Add, Trigger, TriggerLost, Batch,
         requested, place, vars

LEMMA PlaceKept ==
  ASSUME PlaceInv, UNCHANGED <<table, scope, job, attempt, place>>
  PROVE  InPlace' /\ ClearedIsEmpty'
  BY DEF PlaceInv, InPlace, ClearedIsEmpty, Ids, place

LEMMA AskedTyped ==
  ASSUME PlaceInv, NEW d \in Datasets, Asked(d)
  PROVE  TypeOK'
<1> USE RefreshAssumption DEF PlaceInv, place
<1>1. UNCHANGED <<table, scope, job, attempt, place>>
  BY AskedFrame
<1> DEFINE HubTyped == /\ hub' \in [Datasets -> [Domains -> 0 .. MaxChanges]]
                       /\ changes' \in 0 .. MaxChanges
<1>2. HubTyped
  <2>1. ASSUME NEW domains \in SUBSET Domains, Loads(d, domains) PROVE HubTyped
    <3>1. changes + 1 \in 0 .. MaxChanges
      BY <2>1, LoadFrame DEF TypeOK
    <3>2. [n \in Domains |-> IF n \in domains THEN changes + 1 ELSE 0]
            \in [Domains -> 0 .. MaxChanges]
      BY <3>1
    <3>3. /\ changes' = changes + 1
          /\ hub' = [hub EXCEPT ![d] = [n \in Domains |-> IF n \in domains THEN changes + 1 ELSE 0]]
      BY <2>1, LoadFrame
    <3> QED BY <3>1, <3>2, <3>3 DEF TypeOK
  <2>2. CASE ConfirmUnloaded(d)
    BY <2>2 DEF ConfirmUnloaded, Change, TypeOK
  <2>3. ASSUME NEW n \in Domains, Add(d, n) PROVE HubTyped
    BY <2>3 DEF Add, Change, TypeOK
  <2>4. CASE Trigger(d) \/ TriggerLost(d)
    BY <2>4 DEF Trigger, TriggerLost, TypeOK
  <2> QED BY <2>1, <2>2, <2>3, <2>4 DEF Asked
<1> DEFINE RequestsTyped == /\ pending' \in [Datasets -> Nat] /\ queued' \in [Scopes -> Nat]
                            /\ batches' = batches
<1>3. RequestsTyped
  <2>1. {d} \in Scopes
    BY DEF Scopes
  <2>2. CASE Trigger(d)
    BY <2>1, <2>2 DEF Trigger, TypeOK
  <2>3. CASE TriggerLost(d)
    BY <2>3 DEF TriggerLost, TypeOK
  <2>4. ASSUME NEW domains, Loads(d, domains) PROVE RequestsTyped
    <3>1. /\ queued' = queued /\ batches' = batches
          /\ \/ pending' = [pending EXCEPT ![d] = @ + 1]
             \/ pending' = pending
      BY <2>4, LoadFrame
    <3> QED BY <3>1 DEF TypeOK
  <2>5. CASE ConfirmUnloaded(d)
    BY <2>5 DEF ConfirmUnloaded, TypeOK
  <2>6. ASSUME NEW n, Add(d, n) PROVE RequestsTyped
    BY <2>6 DEF Add, requested, TypeOK
  <2> QED BY <2>2, <2>3, <2>4, <2>5, <2>6 DEF Asked
<1>4. /\ missed' \subseteq Datasets /\ faults' \in 0 .. MaxFaults
      /\ known' \subseteq Datasets
  BY DEF Asked, Loads, Confirm, Ingest, ConfirmUnloaded, Add, Trigger, TriggerLost, Fault, TypeOK
<1> QED BY <1>1, <1>2, <1>3, <1>4 DEF TypeOK

\* The run
LEMMA RunTyped ==
  ASSUME PlaceInv, Batch \/ (\E s \in Scopes : StartRun(s)) \/ Run
  PROVE  PlaceInv'
<1> USE RefreshAssumption DEF PlaceInv
<1> DEFINE Rest == /\ hub' = hub /\ changes' = changes /\ known' = known /\ pending' = pending
                   /\ queued' \in [Scopes -> Nat] /\ batches' \in 0 .. MaxBatches
                   /\ missed' \subseteq Datasets /\ faults' \in 0 .. MaxFaults
           Typed == /\ TablesTyped
                    /\ scope' \in Scopes \union {{}} /\ job' \in Jobs \union {"none"}
                    /\ attempt' \in 0 .. Retries /\ domain' \in 1 .. LastDomain + 1
                    /\ target' \in Tables \union {"none"} /\ cleared' \in BOOLEAN
                    /\ seen' \in [Datasets -> 0 .. MaxChanges]
<1>1. ASSUME Rest, Typed, InPlace', ClearedIsEmpty' PROVE PlaceInv'
  BY <1>1 DEF TypeOK, TablesTyped
<1>2. ASSUME AtDomain(1) \/ (target = "none" /\ domain \in Domains /\ AtDomain(domain + 1))
               \/ (domain \in Domains /\ AtDomain(domain + 1))
      PROVE  /\ target' = "none" /\ cleared' = FALSE /\ \A d \in Datasets : seen'[d] = 0
             /\ seen' \in [Datasets -> 0 .. MaxChanges] /\ domain' \in 1 .. LastDomain + 1
  BY <1>2 DEF AtDomain, Nothing, Domains
<1>3. scope \subseteq Datasets
  BY DEF TypeOK, Scopes
<1>4. CASE Batch
  <2>1. UNCHANGED <<table, scope, job, attempt, place>>
    BY <1>4, AskedFrame
  <2>2. Datasets \in Scopes
    BY DEF Scopes
  <2>3. queued' \in [Scopes -> Nat] /\ batches' \in 0 .. MaxBatches
    BY <1>4, <2>2 DEF Batch, TypeOK
  <2>4. Rest
    BY <1>4, <2>3 DEF Batch, TypeOK
  <2> QED BY <1>1, <2>1, <2>4, PlaceKept DEF TypeOK, TablesTyped, place
<1>5. ASSUME NEW s \in Scopes, StartRun(s) PROVE PlaceInv'
  <2>1. queued' \in [Scopes -> Nat]
    BY <1>5 DEF StartRun, TypeOK
  <2>2. Rest
    BY <1>5, <2>1 DEF StartRun, TypeOK
  <2>3. /\ job' = "domain_analytics" /\ scope' = s /\ attempt' = 0 /\ AtDomain(1) /\ table' = table
    BY <1>5 DEF StartRun, Enter
  <2>4. Typed
    BY <1>2, <2>3 DEF TypeOK, TablesTyped, Jobs
  <2> QED BY <1>1, <1>2, <2>2, <2>3, <2>4 DEF InPlace, ClearedIsEmpty
<1>6. CASE ReadDomain
  <2>1. target' = FirstTable[job] /\ job' = job /\ job \in Jobs /\ domain \in Domains
    BY <1>6 DEF ReadDomain, TypeOK
  <2>2. \/ job = "domain_analytics" /\ target' = "domain_metrics"
        \/ job = "feature_engineering" /\ target' = "entity_features"
    BY <2>1 DEF FirstTable, Jobs
  <2>3. seen' \in [Datasets -> 0 .. MaxChanges] /\ \A d \in Datasets : seen'[d] # 0 => d \in scope
    BY <1>6 DEF ReadDomain, TypeOK
  <2>4. Rest /\ UNCHANGED <<table, scope, attempt, domain>> /\ cleared' = FALSE
    BY <1>6 DEF ReadDomain, requested, TypeOK
  <2>5. Typed
    BY <2>1, <2>2, <2>3, <2>4 DEF TypeOK, TablesTyped, Tables
  <2>6. InPlace' /\ ClearedIsEmpty'
    BY <2>1, <2>2, <2>3, <2>4 DEF InPlace, ClearedIsEmpty
  <2> QED BY <1>1, <2>4, <2>5, <2>6
<1>7. CASE PassEmpty \/ SkipDomain
  <2>1. Rest /\ UNCHANGED <<table, scope, attempt, job>>
    BY <1>3, <1>7 DEF PassEmpty, SkipDomain, Fault, requested, TypeOK
  <2>2. domain \in Domains /\ AtDomain(domain + 1)
    BY <1>7 DEF PassEmpty, SkipDomain
  <2>3. Typed
    BY <1>2, <2>1, <2>2 DEF TypeOK, TablesTyped
  <2> QED BY <1>1, <1>2, <2>1, <2>2, <2>3 DEF InPlace, ClearedIsEmpty
<1>8. CASE Clear
  <2>1. Rest /\ UNCHANGED <<scope, job, attempt, domain, target, seen>> /\ cleared' = TRUE
    BY <1>8 DEF Clear, requested, TypeOK
  <2>2. target # "none" /\ TablesTyped /\ \A d \in Ids : table'[target][d][domain] = << >>
    <3>1. Ids \subseteq Datasets /\ target \in Tables /\ domain \in Domains
      BY <1>3, <1>8 DEF Clear, Ids, InPlace, TypeOK
    <3> QED BY <1>8, <3>1, ClearPieces DEF Clear, Emptied
  <2>3. Typed
    BY <2>1, <2>2 DEF TypeOK
  <2>4. ClearedIsEmpty' /\ InPlace'
    BY <2>1, <2>2 DEF ClearedIsEmpty, InPlace, Ids
  <2> QED BY <1>1, <2>1, <2>3, <2>4
<1>9. CASE Write
  <2>1. TablesTyped
    BY <1>9, WritePieces
  <2>2. Rest /\ UNCHANGED <<scope, job, attempt>>
    BY <1>9 DEF Write, requested, TypeOK
  <2>3. CASE target = "domain_metrics"
    <3>1. target' = "daily_trend" /\ cleared' = FALSE /\ UNCHANGED <<domain, seen>>
      BY <1>9, <2>3 DEF Write
    <3>2. Typed
      BY <2>1, <2>2, <3>1 DEF TypeOK, Tables
    <3> QED BY <1>1, <2>2, <2>3, <3>1, <3>2 DEF InPlace, ClearedIsEmpty
  <2>4. CASE target # "domain_metrics"
    <3>1. domain \in Domains /\ AtDomain(domain + 1)
      BY <1>9, <2>4 DEF Write, InPlace
    <3>2. Typed
      BY <1>2, <2>1, <2>2, <3>1 DEF TypeOK
    <3> QED BY <1>1, <1>2, <2>2, <3>1, <3>2 DEF InPlace, ClearedIsEmpty
  <2> QED BY <2>3, <2>4
<1>10. CASE TaskFails
  <2>1. TablesTyped
    BY <1>10, FailPieces
  <2>2. Rest
    BY <1>3, <1>10 DEF TaskFails, Fault, requested, TypeOK
  <2>3. AtDomain(1)
    BY <1>10 DEF TaskFails, Enter
  <2>4. \/ attempt < Retries /\ attempt' = attempt + 1 /\ UNCHANGED <<job, scope>>
        \/ attempt' = 0 /\ job' = "none" /\ scope' = {}
    BY <1>10 DEF TaskFails, Enter
  <2>5. Typed
    BY <1>2, <2>1, <2>3, <2>4 DEF TypeOK
  <2> QED BY <1>1, <1>2, <2>2, <2>3, <2>4, <2>5 DEF InPlace, ClearedIsEmpty
<1>11. CASE EndTask
  <2>1. Rest /\ table' = table
    BY <1>11 DEF EndTask, requested, TypeOK
  <2>2. /\ AtDomain(1) /\ attempt' = 0
        /\ \/ job' = "feature_engineering" /\ scope' = scope
           \/ job' = "none" /\ scope' = {}
    BY <1>11 DEF EndTask, Enter
  <2>3. Typed
    BY <1>2, <2>1, <2>2 DEF TypeOK, TablesTyped, Jobs
  <2> QED BY <1>1, <1>2, <2>1, <2>2, <2>3 DEF InPlace, ClearedIsEmpty
<1> QED BY <1>4, <1>5, <1>6, <1>7, <1>8, <1>9, <1>10, <1>11 DEF Run

LEMMA PlaceStep == PlaceInv /\ [Next]_vars => PlaceInv'
<1> SUFFICES ASSUME PlaceInv, [Next]_vars PROVE PlaceInv'
  OBVIOUS
<1>1. ASSUME NEW d \in Datasets, Asked(d) PROVE PlaceInv'
  BY <1>1, AskedTyped, AskedFrame, PlaceKept DEF PlaceInv
<1>2. CASE UNCHANGED vars
  BY <1>2 DEF PlaceInv, TypeOK, InPlace, ClearedIsEmpty, Ids, vars
<1> QED BY <1>1, <1>2, RunTyped DEF Next, Loads, Asked

LEMMA RunsInPlace == Spec => []PlaceInv
  BY PlaceInit, PlaceStep, PTL DEF Spec

-----------------------------------------------------------------------------
(* The tables hold no rows twice, and mix no two states of a dataset       *)

OfOneState(pieces) ==
  /\ Len(pieces) <= Parts
  /\ \A i, j \in 1 .. Len(pieces) : pieces[i] = pieces[j]

LEMMA CopiesAreOfOneState ==
  ASSUME TypeOK, NEW d \in Ids, NEW k \in 0 .. Parts
  PROVE  OfOneState(Copies(d, k))
<1>1. Len(Copies(d, k)) = k /\ \A i \in 1 .. k : Copies(d, k)[i] = seen[d]
  BY CopiesAppended
<1>2. k <= Parts
  BY RefreshAssumption
<1> HIDE DEF Copies
<1> QED BY <1>1, <1>2 DEF OfOneState

\* A rerun replaces what it reads, whatever the run before has left half-way: the
\* old rows are deleted before any is appended, and all that is appended until
\* they are deleted again comes from one read (base_job.replace_table).
THEOREM RerunsReplace == Spec => []ReplacedNotDuplicated
<1> DEFINE Each(t, d, n) == OfOneState(table[t][d][n])
           Inv == \A t \in Tables, d \in Datasets, n \in Domains : Each(t, d, n)
<1>1. Init => Inv
  BY RefreshAssumption DEF Init, OfOneState
<1>2. PlaceInv /\ Inv /\ [Next]_vars => Inv'
  <2> SUFFICES ASSUME PlaceInv, Inv, [Next]_vars,
                      NEW t \in Tables, NEW d \in Datasets, NEW n \in Domains
               PROVE  OfOneState(table'[t][d][n])
    BY DEF OfOneState
  <2>1. CASE table' = table
    BY <2>1
  <2>2. CASE Clear
    <3>1. OfOneState(<< >>)
      BY RefreshAssumption DEF OfOneState
    <3> QED BY <2>2, <3>1, ClearPieces
  <2>3. CASE Write
    <3>1. Parts \in 0 .. Parts
      BY RefreshAssumption
    <3> QED BY <2>3, <3>1, WritePieces, CopiesAreOfOneState DEF Emptied, PlaceInv
  <2>4. CASE TaskFails
    BY <2>4, FailPieces, CopiesAreOfOneState DEF Emptied, PlaceInv
  <2>5. ASSUME NEW s, StartRun(s) PROVE table' = table
    BY <2>5 DEF StartRun
  <2>6. CASE ReadDomain \/ PassEmpty \/ SkipDomain \/ EndTask
    BY <2>1, <2>6 DEF ReadDomain, PassEmpty, SkipDomain, EndTask
  <2> QED BY <2>1, <2>2, <2>3, <2>4, <2>5, <2>6, AskedFrame DEF Next, Loads, Run, Asked
<1>3. Inv => ReplacedNotDuplicated
  BY DEF OfOneState, ReplacedNotDuplicated
<1> QED BY <1>1, <1>2, <1>3, RunsInPlace, PTL DEF Spec

-----------------------------------------------------------------------------
(* No change is forgotten that a run is on its way for                     *)

Settled(d) == d \in Datasets \ missed /\ pending[d] = 0 /\ queued[{d}] = 0
Full(d, n) == [i \in 1 .. Parts |-> hub[d][n]]
Behind(d) ==
  /\ \A t \in Tables, n \in Domains :
       (d \in scope => Done(t, n)) /\ hub[d][n] # 0 => table[t][d][n] = Full(d, n)
  /\ d \in scope /\ target # "none" => seen[d] = hub[d][domain]

LEMMA FreshIsBehind == FreshBehindTheRun <=> \A d \in Datasets : Settled(d) => Behind(d)
  BY DEF FreshBehindTheRun, Settled, Behind, Full

\* A request for a dataset unsettles it; that of another changes nothing of it.
LEMMA AskedFresh ==
  ASSUME PlaceInv, NEW e \in Datasets, Asked(e), NEW d \in Datasets, Settled(d)'
  PROVE  Settled(d) /\ hub'[d] = hub[d]
<1> USE DEF PlaceInv, TypeOK, Settled
<1>1. {d} \in Scopes /\ {e} \in Scopes /\ ({d} = {e} => d = e)
  BY DEF Scopes
<1>2. ASSUME NEW domains, Loads(e, domains) PROVE Settled(d) /\ hub'[d] = hub[d]
  BY <1>2, LoadFrame
<1>3. CASE ConfirmUnloaded(e)
  BY <1>3 DEF ConfirmUnloaded
<1>4. ASSUME NEW n, Add(e, n) PROVE Settled(d) /\ hub'[d] = hub[d]
  BY <1>4 DEF Add, requested
<1>5. CASE Trigger(e)
  <2>1. queued[{e}] \in Nat /\ queued' = [queued EXCEPT ![{e}] = @ + 1]
    BY <1>1, <1>5 DEF Trigger
  <2>2. d # e
    BY <1>1, <2>1
  <2> QED BY <1>1, <1>5, <2>1, <2>2 DEF Trigger
<1>6. CASE TriggerLost(e)
  BY <1>6 DEF TriggerLost
<1> QED BY <1>2, <1>3, <1>4, <1>5, <1>6 DEF Asked

\* Every step of the run that is active keeps what it has behind it fresh.
LEMMA RunFresh ==
  ASSUME PlaceInv, \A e \in Datasets : Settled(e) => Behind(e), Run,
         NEW d \in Datasets, Settled(d)'
  PROVE  Behind(d)'
<1> USE DEF PlaceInv, Tables, Jobs
<1>1. Settled(d) /\ hub' = hub /\ (d \in scope => missed' # missed \union scope)
  BY DEF Settled, Run, ReadDomain, PassEmpty, SkipDomain, Clear, Write, TaskFails, EndTask, requested
<1>2. Behind(d)
  BY <1>1
<1>3. domain \in Nat /\ Domains \subseteq Nat /\ d \notin {} /\ (d \in scope => job \in Jobs)
  BY RefreshAssumption DEF TypeOK, InPlace, Domains
<1>4. CASE ReadDomain
  <2>1. /\ UNCHANGED <<table, scope, job, domain>> /\ target = "none"
        /\ target' = FirstTable[job] /\ job # "none"
        /\ seen' = [e \in Datasets |-> IF e \in scope THEN hub[e][domain] ELSE 0]
    BY <1>4 DEF ReadDomain
  <2>2. target' # "daily_trend"
    BY <2>1 DEF TypeOK, FirstTable
  <2>3. \A t \in Tables, n \in Domains : Done(t, n)' => Done(t, n)
    BY <2>1, <2>2 DEF Done
  <2> QED BY <1>1, <1>2, <2>1, <2>3 DEF Behind, Full
<1>5. CASE PassEmpty
  <2>1. /\ UNCHANGED <<table, scope, job>> /\ domain' = domain + 1 /\ target = "none" /\ target' = "none"
        /\ d \in scope => hub[d][domain] = 0
    BY <1>5 DEF PassEmpty, AtDomain
  <2>2. \A t \in Tables, n \in Domains : Done(t, n)' => Done(t, n) \/ n = domain
    BY <1>3, <2>1 DEF Done
  <2> QED BY <1>1, <1>2, <2>1, <2>2 DEF Behind, Full
<1>6. CASE SkipDomain
  BY <1>1, <1>2, <1>6 DEF SkipDomain, Behind, Full
<1>7. CASE Clear
  <2>1. /\ UNCHANGED <<scope, job, domain, target, seen>> /\ target # "none"
        /\ \A t \in Tables, n \in Domains : Done(t, n)' <=> Done(t, n)
    BY <1>7 DEF Clear, Done
  <2>2. ~ Done(target, domain)
    BY <1>3, <2>1 DEF Done, TypeOK, InPlace
  <2>3. \A t \in Tables, n \in Domains :
          (d \in scope => Done(t, n)) => table'[t][d][n] = table[t][d][n]
    BY <1>7, <2>2, ClearPieces DEF Emptied, Ids
  <2> QED BY <1>1, <1>2, <2>1, <2>3 DEF Behind, Full
<1>8. CASE Write
  <2>1. /\ UNCHANGED <<scope, job>> /\ target # "none"
        /\ target' # "none" => UNCHANGED <<domain, seen>>
    BY <1>8 DEF Write, AtDomain
  <2>2. ASSUME NEW t \in Tables, NEW n \in Domains, Done(t, n)'
        PROVE  Done(t, n) \/ (t = target /\ n = domain)
    BY <1>3, <1>8, <2>2, SMTT(30) DEF Write, AtDomain, Done, TypeOK, InPlace
  <2>3. ASSUME NEW t \in Tables, NEW n \in Domains, d \in scope => Done(t, n)', hub[d][n] # 0
        PROVE  table'[t][d][n] = Full(d, n)
    <3>1. CASE Emptied(t, d, n)
      <4>1. d \in scope /\ Copies(d, Parts) = Full(d, n)
        BY <1>2, <2>1, <3>1 DEF Emptied, Ids, Behind, Copies, Full
      <4> QED BY <1>8, <3>1, <4>1, WritePieces
    <3>2. CASE ~ Emptied(t, d, n)
      <4>1. d \in scope => Done(t, n)
        BY <1>2, <2>1, <2>2, <2>3, <3>2 DEF Emptied, Ids, Behind
      <4>2. table[t][d][n] = Full(d, n)
        BY <1>2, <2>3, <4>1 DEF Behind
      <4> QED BY <1>8, <3>2, <4>2, WritePieces
    <3> QED BY <3>1, <3>2
  <2>4. d \in scope' /\ target' # "none" => seen'[d] = hub'[d][domain']
    BY <1>1, <1>2, <2>1 DEF Behind
  <2>5. ASSUME NEW t \in Tables, NEW n \in Domains, d \in scope' => Done(t, n)', hub'[d][n] # 0
        PROVE  table'[t][d][n] = Full(d, n)'
    <3>1. scope' = scope /\ hub' = hub
      BY <1>1, <2>1
    <3>2. Full(d, n)' = Full(d, n)
      BY <3>1 DEF Full
    <3>3. (d \in scope => Done(t, n)') /\ hub[d][n] # 0
      BY <2>5, <3>1
    <3> QED BY <2>3, <3>2, <3>3
  <2> QED BY <2>4, <2>5 DEF Behind
<1>9. CASE TaskFails
  <2>1. AtDomain(1) /\ (d \in scope => attempt < Retries)
    BY <1>1, <1>9 DEF TaskFails, Enter
  <2>2. d \in scope => d \in scope' /\ job' = job /\ job # "none"
    BY <1>9, <2>1 DEF TaskFails
  <2>3. d \notin scope => d \notin scope'
    BY <1>9 DEF TaskFails, Enter
  <2>4. \A t \in Tables, n \in Domains :
          d \in scope /\ Done(t, n)' => Done(t, n) /\ ~ Emptied(t, d, n)
    BY <1>3, <2>1, <2>2 DEF AtDomain, Done, Emptied, TypeOK, InPlace, Domains
  <2>5. \A t \in Tables, n \in Domains :
          (d \in scope' => Done(t, n)') => table'[t][d][n] = table[t][d][n]
    BY <1>9, <2>2, <2>3, <2>4, FailPieces DEF Emptied, Ids
  <2> QED BY <1>1, <1>2, <2>1, <2>2, <2>3, <2>4, <2>5 DEF Behind, Full, AtDomain
<1>10. CASE EndTask
  <2>1. table' = table /\ target' = "none" /\ domain \notin Domains /\ (d \notin scope => d \notin scope')
    BY <1>10 DEF EndTask, Enter, AtDomain
  <2>2. \A n \in Domains : n < domain
    BY <1>3, <2>1, RefreshAssumption DEF Domains, TypeOK
  <2>3. ASSUME NEW t \in Tables, NEW n \in Domains, d \in scope, d \in scope' => Done(t, n)'
        PROVE  Done(t, n)
    <3>1. CASE job = "domain_analytics"
      BY <1>10, <2>2, <2>3, <3>1 DEF EndTask, Enter, AtDomain, Done, Domains
    <3>2. CASE job = "feature_engineering"
      BY <2>2, <3>2 DEF Done
    <3> QED BY <1>3, <2>3, <3>1, <3>2
  <2> QED BY <1>1, <1>2, <2>1, <2>3 DEF Behind, Full
<1> QED BY <1>4, <1>5, <1>6, <1>7, <1>8, <1>9, <1>10 DEF Run

LEMMA FreshStep ==
  ASSUME PlaceInv, FreshBehindTheRun, [Next]_vars
  PROVE  FreshBehindTheRun'
<1>1. \A e \in Datasets : Settled(e) => Behind(e)
  BY FreshIsBehind
<1> SUFFICES ASSUME NEW d \in Datasets, Settled(d)' PROVE Behind(d)'
  BY DEF FreshBehindTheRun, Settled, Behind, Full
<1>2. ASSUME Settled(d), hub'[d] = hub[d], UNCHANGED <<table, scope, job, attempt, place>>
      PROVE  Behind(d)'
  BY <1>1, <1>2 DEF Behind, Full, Done, place
<1>3. ASSUME NEW e \in Datasets, Asked(e) PROVE Behind(d)'
  BY <1>2, <1>3, AskedFresh, AskedFrame
<1>4. CASE Batch
  <2>1. Settled(d)
    BY <1>4 DEF Batch, Settled, PlaceInv, TypeOK, Scopes
  <2> QED BY <1>2, <1>4, <2>1, AskedFrame DEF Batch
<1>5. ASSUME NEW s \in Scopes, StartRun(s) PROVE Behind(d)'
  <2>1. /\ job' = "domain_analytics" /\ domain' = 1 /\ target' = "none" /\ scope' = s
        /\ UNCHANGED <<hub, table>> /\ d \notin scope
    BY <1>5 DEF StartRun, Enter, AtDomain, PlaceInv, InPlace
  <2>2. CASE d \in s
    BY <2>1, <2>2, RefreshAssumption DEF Behind, Done, Domains
  <2>3. CASE d \notin s
    <3>1. Settled(d)
      BY <1>5, <2>3 DEF StartRun, Settled, PlaceInv, TypeOK, Scopes
    <3> QED BY <1>1, <2>1, <2>3, <3>1 DEF Behind, Full
  <2> QED BY <2>2, <2>3
<1>6. CASE Run
  BY <1>1, <1>6, RunFresh
<1>7. CASE UNCHANGED vars
  BY <1>2, <1>7 DEF vars, Settled, place
<1> QED BY <1>3, <1>4, <1>5, <1>6, <1>7 DEF Next, Loads, Asked

\* Once the threads, the queue and the run are done with, the tables of a
\* dataset follow what its last confirmation loaded, even one committed in the
\* middle of a run; unless its request was lost, or a domain skipped, or a run
\* given up, or rows added since (onboarding._trigger_dag, analytics_pipeline).
THEOREM NothingStaleWhenIdle == Spec => []FreshWhenIdle
<1>1. Init => FreshBehindTheRun
  BY DEF Init, FreshBehindTheRun, Nothing, Domains
<1>2. PlaceInv /\ FreshBehindTheRun /\ [Next]_vars => FreshBehindTheRun'
  BY FreshStep
<1>3. PlaceInv /\ FreshBehindTheRun => FreshWhenIdle
  <2> SUFFICES ASSUME PlaceInv, FreshBehindTheRun, Idle, NEW d \in Datasets \ missed PROVE Fresh(d)
    BY DEF FreshWhenIdle
  <2>1. {d} \in Scopes /\ pending[d] = 0 /\ d \notin scope
    BY DEF Idle, Nothing, Scopes, PlaceInv, InPlace
  <2> QED BY <2>1 DEF FreshBehindTheRun, Idle, Fresh
<1> QED BY <1>1, <1>2, <1>3, RunsInPlace, PTL DEF Spec

-----------------------------------------------------------------------------
(* What readers of the tables see                                          *)

AtMost(pieces, state) == \A i \in 1 .. Len(pieces) : pieces[i] <= state
AllFrom(pieces, state) == \A i \in 1 .. Len(pieces) : pieces[i] = state

\* A step leaves each cell alone, or it is at that cell and leaves there only what
\* follows from the state it has read.
LEMMA CellStep ==
  ASSUME PlaceInv, [Next]_vars,
         NEW t \in Tables, NEW d \in Datasets, NEW n \in Domains
  PROVE  \/ table'[t][d][n] = table[t][d][n]
         \/ target # "none" /\ Emptied(t, d, n) /\ AllFrom(table'[t][d][n], seen[d])
<1>1. CASE table' = table
  BY <1>1
<1>2. CASE Clear
  <2>1. AllFrom(<< >>, seen[d])
    BY DEF AllFrom
  <2> QED BY <1>2, <2>1, ClearPieces DEF Clear
<1>3. ASSUME d \in Ids, NEW k \in 0 .. Parts PROVE AllFrom(Copies(d, k), seen[d])
  <2>1. Len(Copies(d, k)) = k /\ \A i \in 1 .. k : Copies(d, k)[i] = seen[d]
    BY <1>3, CopiesAppended DEF PlaceInv
  <2> HIDE DEF Copies
  <2> QED BY <2>1 DEF AllFrom
<1>4. CASE Write
  <2>1. Parts \in 0 .. Parts
    BY RefreshAssumption
  <2> QED BY <1>3, <1>4, <2>1, WritePieces DEF Write, Emptied
<1>5. CASE TaskFails
  BY <1>3, <1>5, FailPieces DEF Emptied
<1>6. ASSUME NEW s, StartRun(s) PROVE table' = table
  BY <1>6 DEF StartRun
<1>7. CASE ReadDomain \/ PassEmpty \/ SkipDomain \/ EndTask
  BY <1>1, <1>7 DEF ReadDomain, PassEmpty, SkipDomain, EndTask
<1> QED BY <1>1, <1>2, <1>3, <1>4, <1>5, <1>6, <1>7, AskedFrame DEF Next, Loads, Run, Asked

\* The rows of a dataset and domain stay, go, or are those of the newest change.
LEMMA RowsStep ==
  ASSUME PlaceInv, [Next]_vars
  PROVE  /\ changes' \in {changes, changes + 1}
         /\ \A d \in Datasets, n \in Domains : hub'[d][n] \in {hub[d][n], 0, changes'}
<1> DEFINE Goal == /\ changes' \in {changes, changes + 1}
                   /\ \A d \in Datasets, n \in Domains : hub'[d][n] \in {hub[d][n], 0, changes'}
<1> USE DEF PlaceInv, TypeOK
<1>1. ASSUME NEW d \in Datasets, NEW domains \in SUBSET Domains, Loads(d, domains) PROVE Goal
  <2>1. /\ changes' = changes + 1
        /\ hub' = [hub EXCEPT ![d] = [n \in Domains |-> IF n \in domains THEN changes + 1 ELSE 0]]
    BY <1>1, LoadFrame
  <2> QED BY <2>1
<1>2. ASSUME NEW d \in Datasets, ConfirmUnloaded(d) PROVE Goal
  BY <1>2 DEF ConfirmUnloaded, Change
<1>3. ASSUME NEW d \in Datasets, NEW n \in Domains, Add(d, n) PROVE Goal
  BY <1>3 DEF Add, Change
<1>4. CASE UNCHANGED <<hub, changes>>
  BY <1>4
<1>5. ASSUME NEW d \in Datasets, Trigger(d) \/ TriggerLost(d) PROVE UNCHANGED <<hub, changes>>
  BY <1>5 DEF Trigger, TriggerLost
<1>6. ASSUME NEW s, StartRun(s) PROVE UNCHANGED <<hub, changes>>
  BY <1>6 DEF StartRun
<1>7. Batch \/ Run \/ UNCHANGED vars => UNCHANGED <<hub, changes>>
  BY DEF Batch, Run, ReadDomain, PassEmpty, SkipDomain, Clear, Write, TaskFails, EndTask, vars
<1> QED BY <1>1, <1>2, <1>3, <1>4, <1>5, <1>6, <1>7 DEF Next, Loads

\* What a job works with is what it had, or the rows that are there.
LEMMA SeenStep ==
  ASSUME PlaceInv, [Next]_vars, target' # "none", NEW d \in Datasets, seen'[d] # 0
  PROVE  \/ target # "none" /\ seen'[d] = seen[d] /\ domain' = domain
         \/ seen'[d] = hub[d][domain] /\ domain' = domain /\ domain \in Domains
            /\ UNCHANGED <<hub, changes, table>>
<1>1. CASE UNCHANGED <<table, scope, job, attempt, place>>
  BY <1>1 DEF place
<1>2. CASE ReadDomain
  BY <1>2 DEF ReadDomain, PlaceInv, TypeOK
<1>3. CASE Clear \/ Write
  BY <1>3 DEF Clear, Write, AtDomain
<1>4. CASE PassEmpty \/ SkipDomain \/ TaskFails \/ EndTask
  BY <1>4 DEF PassEmpty, SkipDomain, TaskFails, EndTask, Enter, AtDomain
<1>5. ASSUME NEW s, StartRun(s) PROVE FALSE
  BY <1>5 DEF StartRun, Enter, AtDomain
<1> QED BY <1>1, <1>2, <1>3, <1>4, <1>5, AskedFrame DEF Next, Loads, Run, Asked

\* Results are never ahead of the rows, nor of what replaces them: a change is the
\* newest there has been when it is made, and one job at a time is at the tables.
LEMMA NoOlderStep == PlaceInv /\ PlaceInv' /\ NoOlder /\ [Next]_vars => NoOlder'
<1> SUFFICES ASSUME PlaceInv, PlaceInv', NoOlder, [Next]_vars PROVE NoOlder'
  OBVIOUS
<1>1. /\ changes \in Nat /\ changes' \in Nat /\ changes <= changes'
      /\ \A d \in Datasets, n \in Domains :
           hub[d][n] \in Nat /\ hub'[d][n] \in Nat /\ hub'[d][n] \in {hub[d][n], 0, changes'}
  BY RowsStep, RefreshAssumption DEF PlaceInv, TypeOK
<1>2. ASSUME NEW t \in Tables, NEW d \in Datasets, NEW n \in Domains,
             NEW i \in 1 .. Len(table[t][d][n])
      PROVE  table[t][d][n][i] \in Nat /\ table[t][d][n][i] <= changes
             /\ (hub[d][n] # 0 => table[t][d][n][i] <= hub[d][n])
  <2>1. table[t][d][n] \in Seq(1 .. MaxChanges)
    BY DEF PlaceInv, TypeOK
  <2>2. table[t][d][n][i] \in 1 .. MaxChanges
    BY <2>1, ElementOfSeq
  <2> QED BY <2>2, RefreshAssumption DEF NoOlder
<1>3. ASSUME target # "none", NEW d \in Datasets, seen[d] # 0
      PROVE  /\ domain \in Domains /\ d \in Ids /\ seen[d] \in Nat /\ seen[d] <= changes
             /\ hub[d][domain] # 0 => seen[d] <= hub[d][domain]
             /\ \A t \in Tables : AtMost(table[t][d][domain], seen[d])
  <2>1. domain \in Domains /\ d \in Ids /\ seen[d] \in Nat
    BY <1>3, RefreshAssumption DEF PlaceInv, TypeOK, InPlace, Ids
  <2> QED BY <1>3, <2>1 DEF NoOlder, AtMost
<1>4. \A d \in Datasets, n \in Domains : hub'[d][n] <= changes'
  BY <1>1 DEF NoOlder
<1>5. ASSUME NEW t \in Tables, NEW d \in Datasets, NEW n \in Domains,
             NEW i \in 1 .. Len(table'[t][d][n])
      PROVE  /\ table'[t][d][n][i] <= changes'
             /\ hub'[d][n] # 0 => table'[t][d][n][i] <= hub'[d][n]
  <2>1. CASE table'[t][d][n] = table[t][d][n]
    <3>1. /\ table[t][d][n][i] \in Nat /\ table[t][d][n][i] <= changes
          /\ hub[d][n] # 0 => table[t][d][n][i] <= hub[d][n]
      BY <1>2, <2>1
    <3>2. hub'[d][n] \in {hub[d][n], 0, changes'}
      BY <1>1
    <3> QED BY <1>1, <2>1, <3>1, <3>2
  <2>2. CASE target # "none" /\ Emptied(t, d, n) /\ AllFrom(table'[t][d][n], seen[d])
    <3>1. seen[d] # 0 /\ n = domain /\ table'[t][d][n][i] = seen[d]
      BY <2>2 DEF Emptied, Ids, AllFrom
    <3> QED BY <1>1, <1>3, <2>2, <3>1
  <2> QED BY <2>1, <2>2, CellStep
<1>6. ASSUME target' # "none", NEW d \in Ids'
      PROVE  /\ seen'[d] <= changes'
             /\ hub'[d][domain'] # 0 => seen'[d] <= hub'[d][domain']
             /\ \A t \in Tables : \A i \in 1 .. Len(table'[t][d][domain']) :
                  table'[t][d][domain'][i] <= seen'[d]
  <2>1. d \in Datasets /\ seen'[d] # 0 /\ seen'[d] \in Nat
    <3>1. scope' \subseteq Datasets /\ seen' \in [Datasets -> 0 .. MaxChanges]
      BY DEF PlaceInv, TypeOK, Scopes
    <3> QED BY <1>6, <3>1, RefreshAssumption DEF Ids
  <2>2. CASE target # "none" /\ seen'[d] = seen[d] /\ domain' = domain
    <3>1. seen[d] <= changes' /\ (hub'[d][domain] # 0 => seen[d] <= hub'[d][domain])
      BY <1>1, <1>3, <2>1, <2>2
    <3>2. ASSUME NEW t \in Tables, NEW i \in 1 .. Len(table'[t][d][domain])
          PROVE  table'[t][d][domain][i] <= seen[d]
      <4>1. CASE table'[t][d][domain] = table[t][d][domain]
        BY <1>3, <2>1, <2>2, <4>1 DEF AtMost
      <4>2. CASE AllFrom(table'[t][d][domain], seen[d])
        BY <2>1, <2>2, <4>2 DEF AllFrom
      <4> QED BY <1>3, <2>1, <2>2, <4>1, <4>2, CellStep
    <3> QED BY <2>2, <3>1, <3>2
  <2>3. CASE /\ seen'[d] = hub[d][domain] /\ domain' = domain /\ domain \in Domains
             /\ UNCHANGED <<hub, changes, table>>
    BY <1>1, <1>2, <2>1, <2>3 DEF NoOlder
  <2> QED BY <1>6, <2>1, <2>2, <2>3, SeenStep
<1> QED BY <1>4, <1>5, <1>6 DEF NoOlder

\* What the tables show to those who do not see the runs
abstract == <<changes, hub, table, IF Between THEN <<target, domain>> ELSE << >>,
              IF Between THEN seen ELSE Nothing>>

\* Of the steps of a run only the deletes and the appends can be seen, ...
LEMMA ResultsStutter ==
  ASSUME PlaceInv, Batch \/ (\E s \in Scopes : StartRun(s)) \/ ReadDomain \/ PassEmpty
                   \/ SkipDomain \/ EndTask \/ (TaskFails /\ ~ Between) \/ UNCHANGED vars
  PROVE  UNCHANGED abstract
<1>1. CASE Batch \/ UNCHANGED vars
  <2>1. UNCHANGED <<changes, hub, table, target, domain, cleared, seen>>
    BY <1>1 DEF Batch, place, vars
  <2> QED BY <2>1 DEF abstract, Between, Nothing
<1>2. CASE ~ (Batch \/ UNCHANGED vars)
  <2>1. UNCHANGED <<changes, hub, table>>
    BY <1>2 DEF StartRun, ReadDomain, PassEmpty, SkipDomain, EndTask, TaskFails, Between
  <2>2. ~ Between
    BY <1>2 DEF StartRun, ReadDomain, PassEmpty, SkipDomain, EndTask, Between, PlaceInv, InPlace
  <2>3. ~ Between'
    BY <1>2 DEF StartRun, ReadDomain, PassEmpty, SkipDomain, EndTask, TaskFails, Enter, AtDomain, Between
  <2> QED BY <2>1, <2>2, <2>3 DEF abstract
<1> QED BY <1>1, <1>2

\* ... and of the requests those that change the hub.
LEMMA ResultsAsked ==
  ASSUME PlaceInv, NEW d \in Datasets, Asked(d)
  PROVE  Results!Change(d) \/ UNCHANGED abstract
<1>1. UNCHANGED <<table, target, domain, cleared, seen>>
  BY AskedFrame DEF place
<1>2. /\ (IF Between THEN <<target, domain>> ELSE << >>)' = IF Between THEN <<target, domain>> ELSE << >>
      /\ (IF Between THEN seen ELSE Nothing)' = IF Between THEN seen ELSE Nothing
  BY <1>1 DEF Between, Nothing
<1> DEFINE Moved == /\ changes' = changes + 1
                    /\ \E now \in [Domains -> {0, changes + 1}], kept \in SUBSET Domains :
                         hub' = [hub EXCEPT ![d] = [n \in Domains |-> IF n \in kept THEN @[n] ELSE now[n]]]
<1>3. ASSUME Moved PROVE Results!Change(d)
  BY <1>1, <1>2, <1>3 DEF Results!Change
<1>4. ASSUME NEW domains \in SUBSET Domains, Loads(d, domains) PROVE Moved
  <2> DEFINE now == [n \in Domains |-> IF n \in domains THEN changes + 1 ELSE 0]
  <2>1. now \in [Domains -> {0, changes + 1}] /\ {} \in SUBSET Domains
    OBVIOUS
  <2>2. hub' = [hub EXCEPT ![d] = [n \in Domains |-> IF n \in {} THEN @[n] ELSE now[n]]]
    BY <1>4, LoadFrame
  <2>3. changes' = changes + 1
    BY <1>4, LoadFrame
  <2> HIDE DEF now
  <2> QED BY <2>1, <2>2, <2>3
<1>5. ASSUME ConfirmUnloaded(d) PROVE Moved
  <2> DEFINE now == [n \in Domains |-> 0]
             kept == Domains
  <2>1. now \in [Domains -> {0, changes + 1}] /\ kept \in SUBSET Domains
    OBVIOUS
  <2>2. hub' = [hub EXCEPT ![d] = [n \in Domains |-> IF n \in kept THEN @[n] ELSE now[n]]]
    BY <1>5 DEF ConfirmUnloaded, PlaceInv, TypeOK
  <2>3. changes' = changes + 1
    BY <1>5 DEF ConfirmUnloaded, Change
  <2> HIDE DEF now, kept
  <2> QED BY <2>1, <2>2, <2>3
<1>6. ASSUME NEW n \in Domains, Add(d, n) PROVE Moved
  <2> DEFINE now == [m \in Domains |-> changes + 1]
             kept == Domains \ {n}
  <2>1. now \in [Domains -> {0, changes + 1}] /\ kept \in SUBSET Domains
    OBVIOUS
  <2>2. hub' = [hub EXCEPT ![d] = [m \in Domains |-> IF m \in kept THEN @[m] ELSE now[m]]]
    BY <1>6 DEF Add, PlaceInv, TypeOK
  <2>3. changes' = changes + 1
    BY <1>6 DEF Add, Change
  <2> HIDE DEF now, kept
  <2> QED BY <2>1, <2>2, <2>3
<1>7. CASE Trigger(d) \/ TriggerLost(d)
  <2>1. UNCHANGED <<changes, hub>>
    BY <1>7 DEF Trigger, TriggerLost
  <2> QED BY <1>1, <1>2, <2>1 DEF abstract
<1> QED BY <1>3, <1>4, <1>5, <1>6, <1>7 DEF Asked

\* What Replaced leaves is what the contract shows.
LEMMA ReplacedShows ==
  ASSUME PlaceInv, target # "none", NEW pieces, NEW shown,
         \A d \in Ids : pieces[d] = shown[d],
         table' = Replaced(pieces)
  PROVE  Results!Shows(target, domain, {d \in Datasets : seen[d] # 0}, shown)
<1>1. Ids = {d \in Datasets : seen[d] # 0}
  BY DEF PlaceInv, InPlace, TypeOK, Scopes, Ids
<1> DEFINE new(f) == [d \in Datasets |-> IF d \in Ids THEN [table[target][d] EXCEPT ![domain] = f[d]] ELSE table[target][d]]
<1>2. table' = [table EXCEPT ![target] = new(pieces)]
  BY DEF Replaced
<1>3. new(pieces) = new(shown)
  OBVIOUS
<1> QED BY <1>1, <1>2, <1>3 DEF Results!Shows

LEMMA ResultsBegin ==
  ASSUME PlaceInv, NoOlder, Clear
  PROVE  Results!Begin(target, domain, seen) /\ seen \in [Datasets -> 0 .. changes]
         /\ target \in Tables /\ domain \in Domains
<1>1. /\ target # "none" /\ ~ Between /\ Between' /\ UNCHANGED <<changes, hub, target, domain, seen>>
      /\ target \in Tables /\ domain \in Domains
  BY DEF Clear, Between, PlaceInv, TypeOK, InPlace
<1>2. Results!Replacing(seen) = {d \in Datasets : seen[d] # 0} /\ Ids = {d \in Datasets : seen[d] # 0}
  BY DEF Results!Replacing, PlaceInv, InPlace, TypeOK, Scopes, Ids
<1>3. Results!Shows(target, domain, Results!Replacing(seen), [d \in Datasets |-> << >>])
  <2> DEFINE pieces == [d \in Ids |-> << >>]
             shown == [d \in Datasets |-> << >>]
  <2>1. table' = Replaced(pieces)
    BY DEF Clear
  <2>2. \A d \in Ids : pieces[d] = shown[d]
    BY <1>2
  <2> HIDE DEF pieces, shown
  <2>3. Results!Shows(target, domain, {d \in Datasets : seen[d] # 0}, shown)
    BY <1>1, <2>1, <2>2, ReplacedShows
  <2> QED BY <1>2, <2>3 DEF shown
<1>4. ASSUME NEW d \in Results!Replacing(seen) PROVE Results!Follows(target, d, domain, seen[d])
  BY <1>1, <1>2 DEF NoOlder, Results!Follows
<1>5. seen \in [Datasets -> 0 .. changes]
  <2>1. changes \in Nat /\ seen \in [Datasets -> 0 .. MaxChanges]
    BY RefreshAssumption DEF PlaceInv, TypeOK
  <2>2. \A d \in Datasets : seen[d] # 0 => seen[d] <= changes
    BY <1>1, <1>2 DEF NoOlder
  <2> QED BY <2>1, <2>2, RefreshAssumption
<1>6. Results!Begin(target, domain, seen)
  BY <1>1, <1>3, <1>4 DEF Results!Begin
<1> QED BY <1>1, <1>5, <1>6

\* Whatever is left of an append, all of it or what a failure let through, has
\* landed.
LEMMA ResultsLand ==
  ASSUME PlaceInv, Between, ~ Between', UNCHANGED <<changes, hub>>,
         NEW k \in [Datasets -> 0 .. Parts],
         table' = Replaced([d \in Ids |-> table[target][d][domain] \o Copies(d, k[d])])
  PROVE  Results!Land(k)
<1>1. target # "none" /\ cleared /\ target \in Tables /\ domain \in Domains
  BY DEF Between, PlaceInv, TypeOK, InPlace
<1> DEFINE pieces == [d \in Ids |-> table[target][d][domain] \o Copies(d, k[d])]
           shown == [d \in Datasets |-> [i \in 1 .. k[d] |-> seen[d]]]
<1>2. ASSUME NEW d \in Ids PROVE pieces[d] = shown[d]
  <2>1. d \in Datasets /\ table[target][d][domain] = << >>
    BY <1>1 DEF PlaceInv, ClearedIsEmpty, TypeOK, Scopes, Ids
  <2>2. PICK m \in 0 .. Parts : m = k[d]
    BY <2>1
  <2>3. << >> \o Copies(d, m) = Copies(d, m)
    BY CopiesAppended DEF PlaceInv
  <2> QED BY <2>1, <2>2, <2>3 DEF Copies
<1>3. table' = Replaced(pieces)
  OBVIOUS
<1> HIDE DEF pieces
<1>4. Results!Shows(target, domain, {d \in Datasets : seen[d] # 0}, shown)
  <2> HIDE DEF shown
  <2> QED BY <1>1, <1>2, <1>3, ReplacedShows
<1>5. <<target, domain>>[1] = target /\ <<target, domain>>[2] = domain /\ <<target, domain>> # << >>
  OBVIOUS
<1> QED BY <1>4, <1>5 DEF Results!Land, Results!Replacing, Results!Nothing, Nothing

LEMMA ResultsStep ==
  ASSUME PlaceInv, NoOlder, [Next]_vars
  PROVE  [Results!Next]_abstract
<1>1. ASSUME NEW d \in Datasets, Asked(d) PROVE [Results!Next]_abstract
  BY <1>1, ResultsAsked DEF Results!Next
<1>2. CASE Clear
  BY <1>2, ResultsBegin DEF Results!Next
<1>3. CASE Write
  <2> DEFINE k == [d \in Datasets |-> Parts]
  <2>1. k \in [Datasets -> 0 .. Parts]
    BY RefreshAssumption
  <2>2. Ids \subseteq Datasets
    BY DEF PlaceInv, TypeOK, Scopes, Ids
  <2>3. table' = Replaced([d \in Ids |-> table[target][d][domain] \o Copies(d, k[d])])
    BY <1>3, <2>2 DEF Write, Replaced
  <2>4. Between /\ ~ Between' /\ UNCHANGED <<changes, hub>>
    BY <1>3 DEF Write, Between, AtDomain
  <2> HIDE DEF k
  <2> QED BY <2>1, <2>3, <2>4, ResultsLand DEF Results!Next
<1>4. CASE TaskFails /\ Between
  <2>1. PICK m \in [Ids -> 0 .. Parts] :
          table' = Replaced([d \in Ids |-> table[target][d][domain] \o Copies(d, m[d])])
    BY <1>4 DEF TaskFails, Between
  <2> DEFINE k == [d \in Datasets |-> IF d \in Ids THEN m[d] ELSE 0]
  <2>2. k \in [Datasets -> 0 .. Parts] /\ \A d \in Ids : k[d] = m[d]
    <3>1. Ids \subseteq Datasets
      BY DEF PlaceInv, TypeOK, Scopes, Ids
    <3> QED BY <3>1, RefreshAssumption
  <2>3. table' = Replaced([d \in Ids |-> table[target][d][domain] \o Copies(d, k[d])])
    BY <2>1, <2>2 DEF Replaced
  <2>4. ~ Between' /\ UNCHANGED <<changes, hub>>
    BY <1>4 DEF TaskFails, Between, Enter, AtDomain
  <2> HIDE DEF k
  <2> QED BY <1>4, <2>2, <2>3, <2>4, ResultsLand DEF Results!Next
<1>5. CASE Batch \/ (\E s \in Scopes : StartRun(s)) \/ ReadDomain \/ PassEmpty \/ SkipDomain
           \/ EndTask \/ (TaskFails /\ ~ Between) \/ UNCHANGED vars
  BY <1>5, ResultsStutter
<1> QED BY <1>1, <1>2, <1>3, <1>4, <1>5 DEF Next, Loads, Run, Asked

\* Seen through the tables, the refresh is its contract: each delete begins to show a
\* state no older than what was there, each append ends it, and what fails, is tried
\* again, waits or is lost cannot be seen (spark_session.replace_dataset_rows,
\* domain_analytics.run, feature_engineering.run).
THEOREM RefreshImplementsResults == Spec => ImplementsResults
<1>1. Init => NoOlder
  BY DEF Init, NoOlder, Nothing, Ids
<1>2. PlaceInv /\ PlaceInv' /\ NoOlder /\ [Next]_vars => NoOlder'
  BY NoOlderStep
<1>3. Init => Results!Init
  BY DEF Init, Results!Init, Results!Nothing, Nothing, Between
<1>4. PlaceInv /\ NoOlder /\ [Next]_vars => [Results!Next]_abstract
  BY ResultsStep
<1> QED BY <1>1, <1>2, <1>3, <1>4, RunsInPlace, PTL DEF Spec, ImplementsResults, Results!Spec, abstract

-----------------------------------------------------------------------------
(* The ML results                                                          *)

ResultRow == [version : Nat, trend : Nat, features : Nat, anomalies : Nat]
RowsRead == [trend : [Datasets -> Nat], features : [Datasets -> Nat],
             anomalies : [Datasets -> Nat]]
Entry == [job : ML!Jobs, scope : ML!Scopes, rows : BOOLEAN]

MLTyped ==
  /\ mlTrend \in [Datasets -> Nat] /\ mlFeatures \in [Datasets -> Nat] /\ mlChanges \in Nat
  /\ mlResult \in [ML!Jobs -> [Datasets -> ResultRow]]
  /\ mlRegistry \in Seq(Entry)
  /\ mlScope \in ML!Scopes \union {{}}
  /\ mlJob \in ML!Jobs \union {"none"}
  /\ mlRead = << >> \/ \E rows \in RowsRead : mlRead = <<rows>>
  /\ mlRead # << >> => mlJob # "none"
  /\ mlJob = "none" => mlScope = {}
  /\ mlJob # "none" => mlScope \in ML!Scopes
  /\ mlDone \in Nat

\* What the transaction of a job leaves in the result tables
LEMMA ResultsAfter ==
  ASSUME MLTyped, mlRead # << >>, NEW found \in SUBSET mlScope, NEW version \in Nat,
         ML!Replace(found, version)
  PROVE  /\ mlResult' \in [ML!Jobs -> [Datasets -> ResultRow]]
         /\ \A j \in ML!Jobs, d \in Datasets :
              \/ /\ j = mlJob /\ d \in found /\ mlResult'[j][d].version = version
                 /\ mlResult'[j][d].anomalies = mlRead[1].anomalies[d]
              \/ /\ j = mlJob /\ d \in mlScope \ found
                 /\ mlResult'[j][d].version = 0 /\ mlResult'[j][d].anomalies = 0
              \/ (j = mlJob => d \notin mlScope) /\ mlResult'[j][d] = mlResult[j][d]
<1>1. mlJob \in ML!Jobs /\ mlRead[1] \in RowsRead
  BY DEF MLTyped
<1> DEFINE Row(d) ==
      IF d \in found THEN [version |-> version, trend |-> mlRead[1].trend[d],
                           features |-> mlRead[1].features[d], anomalies |-> mlRead[1].anomalies[d]]
      ELSE IF d \in mlScope THEN ML!None ELSE mlResult[mlJob][d]
<1>2. \A d \in Datasets : Row(d) \in ResultRow
  BY <1>1 DEF MLTyped, ResultRow, RowsRead, ML!None
<1>3. mlResult' = [mlResult EXCEPT ![mlJob] = [d \in Datasets |-> Row(d)]]
  BY <1>1 DEF ML!Replace, MLTyped
<1> HIDE DEF Row
<1>4. /\ mlResult' \in [ML!Jobs -> [Datasets -> ResultRow]]
      /\ \A j \in ML!Jobs, d \in Datasets :
           mlResult'[j][d] = IF j = mlJob THEN Row(d) ELSE mlResult[j][d]
  BY <1>1, <1>2, <1>3 DEF MLTyped
<1>5. \A d \in Datasets :
        \/ d \in found /\ Row(d).version = version /\ Row(d).anomalies = mlRead[1].anomalies[d]
        \/ d \in mlScope \ found /\ Row(d).version = 0 /\ Row(d).anomalies = 0
        \/ d \notin mlScope /\ Row(d) = mlResult[mlJob][d]
  BY DEF Row, ML!None
<1> QED BY <1>4, <1>5

LEMMA FinishResults ==
  ASSUME MLTyped, ML!Finish, NEW j \in ML!Jobs, NEW d \in Datasets
  PROVE  \/ /\ j = mlJob /\ d \in mlScope /\ mlResult'[j][d].version = Len(mlRegistry) + 1
            /\ mlResult'[j][d].anomalies = mlRead[1].anomalies[d]
         \/ /\ j = mlJob /\ d \in mlScope
            /\ mlResult'[j][d].version = 0 /\ mlResult'[j][d].anomalies = 0
         \/ (j = mlJob => d \notin mlScope) /\ mlResult'[j][d] = mlResult[j][d]
<1>1. PICK found \in SUBSET mlScope : ML!Replace(found, Len(mlRegistry) + 1)
  BY DEF ML!Finish
<1>2. mlRead # << >> /\ Len(mlRegistry) + 1 \in Nat
  BY LenProperties DEF ML!Finish, MLTyped
<1>3. \/ /\ j = mlJob /\ d \in found /\ mlResult'[j][d].version = Len(mlRegistry) + 1
         /\ mlResult'[j][d].anomalies = mlRead[1].anomalies[d]
      \/ /\ j = mlJob /\ d \in mlScope \ found
         /\ mlResult'[j][d].version = 0 /\ mlResult'[j][d].anomalies = 0
      \/ (j = mlJob => d \notin mlScope) /\ mlResult'[j][d] = mlResult[j][d]
  BY <1>1, <1>2, ResultsAfter
<1> QED BY <1>3

MLInv == MLTyped /\ ML!Traceable /\ ML!AnomaliesAreNewest /\ ML!OwnAnomaliesOnly

LEMMA MLTypedStep ==
  ASSUME MLTyped, ML!Next \/ UNCHANGED ML!vars
  PROVE  MLTyped'
<1> USE DEF MLTyped, ML!Jobs, ML!sources
<1>1. ASSUME NEW d \in Datasets, ML!SourcesChange(d) PROVE MLTyped'
  <2>1. mlChanges + 1 \in Nat /\ mlChanges' = mlChanges + 1
    BY <1>1 DEF ML!SourcesChange
  <2>2. mlTrend' \in [Datasets -> Nat] /\ mlFeatures' \in [Datasets -> Nat]
    <3>1. \A c \in {0, mlChanges + 1} : /\ [mlTrend EXCEPT ![d] = c] \in [Datasets -> Nat]
                                      /\ [mlFeatures EXCEPT ![d] = c] \in [Datasets -> Nat]
      BY <2>1
    <3> QED BY <1>1, <3>1, Zenon DEF ML!SourcesChange
  <2> QED BY <1>1, <2>1, <2>2 DEF ML!SourcesChange
<1>2. ASSUME NEW s \in ML!Scopes, ML!StartRun(s) PROVE MLTyped'
  BY <1>2 DEF ML!StartRun
<1>3. CASE ML!Read
  <2>1. ML!AnomaliesNow \in [Datasets -> Nat] /\ ML!Nothing \in [Datasets -> Nat]
    BY DEF ML!AnomaliesNow, ML!Nothing, ResultRow
  <2>2. ML!Rows \in RowsRead
    BY <2>1 DEF ML!Rows, ML!InScope, RowsRead
  <2> QED BY <1>3, <2>2 DEF ML!Read
<1>4. mlJob # "none" => ML!After[mlJob] \in ML!Jobs \union {"none"}
  BY DEF ML!After
<1>5. ASSUME NEW found \in SUBSET mlScope, mlRead # << >>, ML!Register(found) 
      PROVE  mlRegistry' \in Seq(Entry)
  BY <1>5, AppendProperties DEF ML!Register, Entry
<1>6. ASSUME ML!EndTask, mlRegistry' \in Seq(Entry), mlResult' \in [ML!Jobs -> [Datasets -> ResultRow]],
             UNCHANGED <<mlTrend, mlFeatures, mlChanges>>, mlRead # << >>
      PROVE  MLTyped'
  BY <1>4, <1>6, LenProperties DEF ML!EndTask
<1>7. CASE ML!FinishEmpty
  BY <1>5, <1>6, <1>7 DEF ML!FinishEmpty
<1>8. CASE ML!Finish
  <2>1. PICK found \in SUBSET mlScope : ML!Replace(found, Len(mlRegistry) + 1) /\ ML!Register(found)
    BY <1>8 DEF ML!Finish
  <2>2. Len(mlRegistry) + 1 \in Nat
    BY LenProperties
  <2> QED BY <1>5, <1>6, <1>8, <2>1, <2>2, ResultsAfter DEF ML!Finish
<1>9. CASE ML!TaskFails
  BY <1>9 DEF ML!TaskFails
<1>10. CASE UNCHANGED ML!vars
  BY <1>10 DEF ML!vars
<1> QED BY <1>1, <1>2, <1>3, <1>7, <1>8, <1>9, <1>10 DEF ML!Next

\* What was registered stays, and the newest entry is the last one for the
\* datasets it covers.
LEMMA RegisteredAfter ==
  ASSUME MLTyped, mlJob \in ML!Jobs, NEW found, ML!Register(found)
  PROVE  /\ Len(mlRegistry) \in Nat /\ Len(mlRegistry') = Len(mlRegistry) + 1
         /\ \A v \in 1 .. Len(mlRegistry) : mlRegistry'[v] = mlRegistry[v]
         /\ mlRegistry'[Len(mlRegistry) + 1] =
              [job |-> mlJob, scope |-> mlScope, rows |-> found # {}]
  BY LenProperties, AppendProperties DEF ML!Register, MLTyped, Entry

LEMMA NewestAfter ==
  ASSUME MLTyped, mlJob \in ML!Jobs, NEW found, ML!Register(found), NEW j, NEW d
  PROVE  ML!Newest(j, d)' = IF j = mlJob /\ d \in mlScope THEN Len(mlRegistry) + 1
                            ELSE ML!Newest(j, d)
<1> DEFINE last == Len(mlRegistry) + 1
           covering == {v \in 1 .. Len(mlRegistry) : mlRegistry[v].job = j /\ d \in mlRegistry[v].scope}
           after == {v \in 1 .. Len(mlRegistry') : mlRegistry'[v].job = j /\ d \in mlRegistry'[v].scope}
<1>1. last \in Nat /\ covering \subseteq 1 .. Len(mlRegistry)
  BY RegisteredAfter
<1>2. after = IF j = mlJob /\ d \in mlScope THEN covering \union {last} ELSE covering
  <2>1. /\ 1 .. Len(mlRegistry') = (1 .. Len(mlRegistry)) \union {last}
        /\ \A v \in 1 .. Len(mlRegistry) : v # last /\ mlRegistry'[v] = mlRegistry[v]
        /\ mlRegistry'[last].job = mlJob /\ mlRegistry'[last].scope = mlScope
    <3>1. Len(mlRegistry) \in Nat /\ Len(mlRegistry') = Len(mlRegistry) + 1
      BY RegisteredAfter
    <3>2. \A v \in 1 .. Len(mlRegistry) : mlRegistry'[v] = mlRegistry[v]
      BY RegisteredAfter
    <3>3. mlRegistry'[last] = [job |-> mlJob, scope |-> mlScope, rows |-> found # {}]
      BY RegisteredAfter
    <3>4. 1 .. Len(mlRegistry') = (1 .. Len(mlRegistry)) \union {last}
      BY <3>1
    <3> QED BY <3>1, <3>2, <3>3, <3>4
  <2> HIDE DEF last
  <2>2. \A v : v \in after <=> v \in covering \/ (v = last /\ j = mlJob /\ d \in mlScope)
    BY <2>1
  <2> QED BY <2>2
<1>3. ML!Newest(j, d)' = IF after = {} THEN 0 ELSE CHOOSE v \in after : \A w \in after : w <= v
  BY DEF ML!Newest
<1>4. ML!Newest(j, d) = IF covering = {} THEN 0 ELSE CHOOSE v \in covering : \A w \in covering : w <= v
  BY DEF ML!Newest
<1> HIDE DEF covering, after
<1>5. CASE j = mlJob /\ d \in mlScope
  <2>1. \A w \in after : w <= last
    BY <1>1, <1>2, <1>5
  <2>2. \A v \in after : (\A w \in after : w <= v) => v = last
    BY <1>1, <1>2, <1>5
  <2>3. last \in after
    BY <1>2, <1>5
  <2> HIDE DEF last
  <2>4. (CHOOSE v \in after : \A w \in after : w <= v) = last
    BY <2>1, <2>2, <2>3
  <2> QED BY <1>3, <1>5, <2>3, <2>4 DEF last
<1>6. CASE ~ (j = mlJob /\ d \in mlScope)
  BY <1>2, <1>3, <1>4, <1>6
<1> QED BY <1>5, <1>6

\* A transaction writes results and registers them, or neither; and a job that
\* finds nothing takes away what an earlier one found.
LEMMA TraceStep ==
  ASSUME MLTyped, ML!Traceable, ML!AnomaliesAreNewest, ML!Next \/ UNCHANGED ML!vars
  PROVE  (ML!Traceable /\ ML!AnomaliesAreNewest)'
<1> DEFINE Shown == ML!Traceable /\ ML!AnomaliesAreNewest
<1>1. ASSUME UNCHANGED <<mlResult, mlRegistry>> PROVE Shown'
  BY <1>1 DEF ML!Traceable, ML!AnomaliesAreNewest, ML!Newest
<1>2. ASSUME NEW found \in SUBSET mlScope, ML!Register(found), mlJob \in ML!Jobs,
             \/ ML!Replace(found, Len(mlRegistry) + 1) /\ mlRead # << >>
             \/ UNCHANGED mlResult /\ mlJob # "anomaly_detection"
      PROVE  Shown'
  <2> DEFINE last == Len(mlRegistry) + 1
  <2>1. /\ Len(mlRegistry) \in Nat /\ Len(mlRegistry') = last
        /\ \A v \in 1 .. Len(mlRegistry) : mlRegistry'[v] = mlRegistry[v]
        /\ mlRegistry'[last] = [job |-> mlJob, scope |-> mlScope, rows |-> found # {}]
    BY <1>2, RegisteredAfter
  <2>2. ASSUME NEW j \in ML!Jobs, NEW d \in Datasets
        PROVE  \/ j = mlJob /\ d \in found /\ mlResult'[j][d].version = last
               \/ j = mlJob /\ d \in mlScope /\ mlResult'[j][d].version = 0
               \/ /\ mlResult'[j][d] = mlResult[j][d]
                  /\ j = mlJob => d \notin mlScope \/ mlJob # "anomaly_detection"
    <3>1. CASE ML!Replace(found, last) /\ mlRead # << >>
      <4>1. Len(mlRegistry) + 1 \in Nat
        BY <2>1
      <4>2. \/ /\ j = mlJob /\ d \in found /\ mlResult'[j][d].version = last
               /\ mlResult'[j][d].anomalies = mlRead[1].anomalies[d]
            \/ /\ j = mlJob /\ d \in mlScope \ found
               /\ mlResult'[j][d].version = 0 /\ mlResult'[j][d].anomalies = 0
            \/ (j = mlJob => d \notin mlScope) /\ mlResult'[j][d] = mlResult[j][d]
        BY <3>1, <4>1, ResultsAfter
      <4> QED BY <4>2
    <3>2. CASE UNCHANGED mlResult /\ mlJob # "anomaly_detection"
      BY <3>2
    <3> QED BY <1>2, <3>1, <3>2
  <2>3. ML!Traceable'
    <3> SUFFICES ASSUME NEW j \in ML!Jobs, NEW d \in Datasets, mlResult'[j][d].version # 0
                 PROVE  /\ mlResult'[j][d].version \in 1 .. Len(mlRegistry')
                        /\ mlRegistry'[mlResult'[j][d].version].job = j
                        /\ mlRegistry'[mlResult'[j][d].version].rows
                        /\ d \in mlRegistry'[mlResult'[j][d].version].scope
      BY DEF ML!Traceable
    <3>1. CASE mlResult'[j][d] = mlResult[j][d]
      <4> DEFINE v == mlResult[j][d].version
      <4>1. /\ v # 0 /\ v \in 1 .. Len(mlRegistry) /\ mlRegistry[v].job = j
            /\ mlRegistry[v].rows /\ d \in mlRegistry[v].scope
        BY <3>1 DEF ML!Traceable
      <4>2. v \in 1 .. Len(mlRegistry') /\ mlRegistry'[v] = mlRegistry[v]
        BY <2>1, <4>1
      <4>3. mlResult'[j][d].version = v
        BY <3>1
      <4> HIDE DEF v
      <4> QED BY <4>1, <4>2, <4>3, Zenon
    <3>2. CASE j = mlJob /\ d \in found /\ mlResult'[j][d].version = last
      <4>1. last \in 1 .. Len(mlRegistry') /\ found # {} /\ found \subseteq mlScope
        BY <2>1, <3>2
      <4>2. /\ mlRegistry'[last].job = mlJob /\ mlRegistry'[last].scope = mlScope
            /\ mlRegistry'[last].rows = (found # {})
        BY <2>1
      <4> HIDE DEF last
      <4> QED BY <3>2, <4>1, <4>2
    <3> QED BY <2>2, <3>1, <3>2
  <2>4. ML!AnomaliesAreNewest'
    <3> SUFFICES ASSUME NEW d \in Datasets
                 PROVE  mlResult'["anomaly_detection"][d].version
                          \in {0, ML!Newest("anomaly_detection", d)'}
      BY DEF ML!AnomaliesAreNewest
    <3>1. "anomaly_detection" \in ML!Jobs
      BY DEF ML!Jobs
    <3>2. ML!Newest("anomaly_detection", d)' =
            IF "anomaly_detection" = mlJob /\ d \in mlScope THEN last
            ELSE ML!Newest("anomaly_detection", d)
      BY <1>2, NewestAfter
    <3>3. mlResult["anomaly_detection"][d].version \in {0, ML!Newest("anomaly_detection", d)}
      BY DEF ML!AnomaliesAreNewest
    <3> QED BY <2>2, <3>1, <3>2, <3>3
  <2> QED BY <2>3, <2>4
<1>3. ASSUME NEW d, ML!SourcesChange(d) PROVE Shown'
  BY <1>1, <1>3 DEF ML!SourcesChange
<1>4. ASSUME NEW s, ML!StartRun(s) PROVE Shown'
  BY <1>1, <1>4 DEF ML!StartRun
<1>5. CASE ML!Read \/ ML!TaskFails \/ UNCHANGED ML!vars
  BY <1>1, <1>5 DEF ML!Read, ML!TaskFails, ML!vars
<1>6. mlRead # << >> => mlJob \in ML!Jobs
  BY DEF MLTyped
<1>7. CASE ML!FinishEmpty
  BY <1>2, <1>6, <1>7 DEF ML!FinishEmpty, ML!ReturnsEarly
<1>8. CASE ML!Finish
  BY <1>2, <1>6, <1>8 DEF ML!Finish
<1> QED BY <1>3, <1>4, <1>5, <1>7, <1>8 DEF ML!Next

LEMMA OwnAnomaliesStep ==
  ASSUME MLInv, ML!Next \/ UNCHANGED ML!vars
  PROVE  ML!OwnAnomaliesOnly'
<1> USE DEF MLInv, ML!OwnAnomaliesOnly
<1>1. ASSUME NEW d, ML!SourcesChange(d) PROVE ML!OwnAnomaliesOnly'
  BY <1>1 DEF ML!SourcesChange
<1>2. ASSUME NEW s, ML!StartRun(s) PROVE ML!OwnAnomaliesOnly'
  BY <1>2 DEF ML!StartRun
<1>3. CASE ML!Read
  <2>1. mlJob = "risk_scoring" =>
          \A d \in mlScope : mlRead'[1].anomalies[d] = mlResult["anomaly_detection"][d].version
    BY <1>3 DEF ML!Read, ML!Rows, ML!InScope, ML!AnomaliesNow, MLTyped, ML!Scopes
  <2> QED BY <1>3, <2>1 DEF ML!Read
<1>4. CASE ML!FinishEmpty
  BY <1>4 DEF ML!FinishEmpty, ML!ReturnsEarly, ML!EndTask, ML!After, MLTyped, ML!Jobs
<1>5. CASE ML!Finish
  <2>2. CASE mlJob = "anomaly_detection"
    <3>1. /\ mlDone' = Len(mlRegistry) + 1 /\ mlScope' = mlScope /\ mlRead' = << >>
          /\ mlScope \subseteq Datasets /\ mlDone' \in Nat
      BY <1>5, <2>2, LenProperties DEF ML!Finish, ML!EndTask, ML!After, MLTyped, ML!Scopes
    <3>2. ASSUME NEW d \in mlScope
          PROVE  mlResult'["anomaly_detection"][d].version \in {0, mlDone'}
      <4>1. d \in Datasets /\ "anomaly_detection" \in ML!Jobs /\ Len(mlRegistry) + 1 \in Nat
        BY <3>1 DEF ML!Jobs
      <4> QED BY <1>5, <2>2, <3>1, <4>1, FinishResults DEF MLInv
    <3> QED BY <3>1, <3>2
  <2>3. CASE mlJob # "anomaly_detection"
    BY <1>5, <2>3 DEF ML!Finish, ML!EndTask, ML!After, MLTyped, ML!Jobs
  <2> QED BY <2>2, <2>3
<1>6. CASE ML!TaskFails
  BY <1>6 DEF ML!TaskFails
<1>7. CASE UNCHANGED ML!vars
  BY <1>7 DEF ML!vars
<1> QED BY <1>1, <1>2, <1>3, <1>4, <1>5, <1>6, <1>7 DEF ML!Next

LEMMA MLResultsHold == ML!Spec => []MLInv
<1>1. ML!Init => MLInv
  BY DEF ML!Init, MLInv, MLTyped, ML!Traceable, ML!AnomaliesAreNewest, ML!OwnAnomaliesOnly,
         ML!Nothing, ML!None, ML!Jobs, ResultRow
<1>2. MLInv /\ [ML!Next]_(ML!vars) => MLInv'
  BY MLTypedStep, TraceStep, OwnAnomaliesStep DEF MLInv
<1> QED BY <1>1, <1>2, PTL DEF ML!Spec

\* No result is shown that is not registered by its job, and no alert stands that
\* the newest run of its dataset did not confirm, whatever failed and in which
\* scopes the runs were started (ml_common.register_model_version, _clear_scope).
THEOREM ResultsAreTraced == ML!Spec => []ShownResultsAreNewest
  BY MLResultsHold, PTL DEF MLInv, ShownResultsAreNewest

\* A risk score weighs the anomalies its own run found, or none: between the two
\* tasks nothing replaces them, however often either failed
\* (risk_scoring._load_anomaly_weights).
THEOREM RiskWeighsItsOwnRun == ML!Spec => RiskUsesOwnAnomalies
<1> DEFINE OwnWeights ==
      \A d \in Datasets :
        mlResult'["risk_scoring"][d].version # mlResult["risk_scoring"][d].version =>
          mlResult'["risk_scoring"][d].anomalies \in {0, mlDone}
<1>1. MLInv /\ [ML!Next]_(ML!vars) => [OwnWeights]_(ML!vars)
  <2> SUFFICES ASSUME MLInv, ML!Next, NEW d \in Datasets,
                      mlResult'["risk_scoring"][d].version # mlResult["risk_scoring"][d].version
               PROVE  mlResult'["risk_scoring"][d].anomalies \in {0, mlDone}
    OBVIOUS
  <2>1. ML!Finish
    BY DEF ML!Next, ML!SourcesChange, ML!StartRun, ML!Read, ML!FinishEmpty, ML!TaskFails
  <2>2. "risk_scoring" \in ML!Jobs /\ mlRead # << >>
    BY <2>1 DEF ML!Finish, ML!Jobs
  <2>3. \/ mlJob = "risk_scoring" /\ d \in mlScope
             /\ mlResult'["risk_scoring"][d].anomalies = mlRead[1].anomalies[d]
        \/ mlResult'["risk_scoring"][d].anomalies = 0
    BY <2>1, <2>2, FinishResults DEF MLInv
  <2> QED BY <2>2, <2>3 DEF MLInv, ML!OwnAnomaliesOnly
<1> QED BY <1>1, MLResultsHold, PTL DEF ML!Spec, RiskUsesOwnAnomalies, ML!RiskUsesOwnAnomalies
=============================================================================
