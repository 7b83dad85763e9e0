-------------------------- MODULE AnalyticsRefresh --------------------------
(***************************************************************************)
(* From a change of the hub to the analytics tables.  A confirmation asks  *)
(* Airflow for a run from a daemon thread that nobody waits for; an add    *)
(* and the ingestion DAG change the hub and ask for none; the runs         *)
(* of analytics_pipeline go one at a time, and each takes two Spark jobs   *)
(* over the eight domains.  For each domain a job replaces the rows of the *)
(* datasets it found there: the old ones are deleted and committed, and    *)
(* then the new ones appended.                                             *)
(*                                                                         *)
(* Airflow and Spark are external: Airflow starts a queued run when none   *)
(* is active and retries a failed task; Spark commits what it appends in   *)
(* Parts pieces.                                                           *)
(***************************************************************************)
EXTENDS Naturals, Sequences, FiniteSets

CONSTANTS
  Datasets,
  LastDomain, \* the domains are the places 1 .. LastDomain in DOMAIN_TABLES
  Parts,      \* the pieces of an append
  Retries,    \* DEFAULT_ARGS["retries"]
  MaxChanges, \* bound on the changes of the hub
  MaxBatches, \* bound on the runs over all datasets, which are started by hand
  MaxFaults   \* bound on lost triggers, skipped domains and failed tasks

ASSUME RefreshAssumption ==
  /\ LastDomain \in Nat /\ Parts \in Nat \ {0} /\ Retries \in Nat
  /\ MaxChanges \in Nat /\ MaxBatches \in Nat /\ MaxFaults \in Nat

VARIABLES
  hub,     \* the change that wrote the rows of each dataset and domain, 0 if none has any
  changes, \* how many changes there have been, those that loaded nothing included
  known,   \* the datasets that have been confirmed or ingested
  table,   \* the change each piece in a table, of a dataset and domain, was computed from
  pending, \* the trigger threads of each dataset
  queued,  \* the runs waiting, by scope
  batches, \* the runs over all datasets asked for
  scope,   \* the datasets of the run that is active
  job,     \* its task
  attempt, \* how often that task has failed
  domain,  \* the domain it is at
  target,  \* the table it replaces there, "none" before the domain is read
  cleared, \* whether the old rows have been deleted
  seen,    \* the rows it has read of the domain, by dataset
  missed,  \* history: the datasets changed without a request for a run, or whose last
           \* one something is known to have kept away
  faults

vars == <<hub, changes, known, table, pending, queued, batches, scope, job, attempt, domain,
          target, cleared, seen, missed, faults>>
requested == <<pending, queued, batches>>
place == <<domain, target, cleared, seen>>

Domains == 1 .. LastDomain
Scopes == {{d} : d \in Datasets} \union {Datasets}
Tables == {"domain_metrics", "daily_trend", "entity_features"}
Jobs == {"domain_analytics", "feature_engineering"}
FirstTable == [domain_analytics |-> "domain_metrics", feature_engineering |-> "entity_features"]

Nothing == [d \in Datasets |-> 0]

Init ==
  /\ hub = [d \in Datasets |-> [n \in Domains |-> 0]] /\ changes = 0 /\ known = {}
  /\ table = [t \in Tables |-> [d \in Datasets |-> [n \in Domains |-> << >>]]]
  /\ pending = Nothing /\ queued = [s \in Scopes |-> 0] /\ batches = 0
  /\ scope = {} /\ job = "none" /\ attempt = 0
  /\ domain = 1 /\ target = "none" /\ cleared = FALSE /\ seen = Nothing
  /\ missed = {} /\ faults = 0

Fault == faults < MaxFaults /\ faults' = faults + 1
Change == changes < MaxChanges /\ changes' = changes + 1

-----------------------------------------------------------------------------
(* The API and the trigger                                                 *)

\* Mutant: no run is asked for while one of the dataset is active.
ConfirmUnlessActive(d, domains) ==
  /\ Change
  /\ hub' = [hub EXCEPT ![d] = [n \in Domains |-> IF n \in domains THEN changes + 1 ELSE 0]]
  /\ pending' = [pending EXCEPT ![d] = IF d \in scope THEN @ ELSE @ + 1]
  /\ known' = known \union {d}
  /\ UNCHANGED <<table, queued, batches, scope, job, attempt, place, missed, faults>>

\* onboard_confirm commits a load, which replaces all rows of the dataset, and
\* starts the trigger thread.
Confirm(d, domains) ==
  /\ Change
  /\ hub' = [hub EXCEPT ![d] = [n \in Domains |-> IF n \in domains THEN changes + 1 ELSE 0]]
  /\ pending' = [pending EXCEPT ![d] = @ + 1]
  /\ known' = known \union {d}
  /\ UNCHANGED <<table, queued, batches, scope, job, attempt, place, missed, faults>>

\* A confirmation that fails validation loads nothing, and asks for a run too.
ConfirmUnloaded(d) ==
  /\ Change
  /\ pending' = [pending EXCEPT ![d] = @ + 1]
  /\ known' = known \union {d}
  /\ UNCHANGED <<hub, table, queued, batches, scope, job, attempt, place, missed, faults>>

\* ingest_file commits the load of a dataset of its own, and asks for no run:
\* analytics_pipeline has no schedule, and its tables do without the dataset
\* until somebody starts one.
Ingest(d, domains) ==
  /\ Change
  /\ d \notin known
  /\ hub' = [hub EXCEPT ![d] = [n \in Domains |-> IF n \in domains THEN changes + 1 ELSE 0]]
  /\ known' = known \union {d}
  /\ missed' = missed \union {d}
  /\ UNCHANGED <<table, requested, scope, job, attempt, place, faults>>

\* add_missed_feature adds rows to a loaded dataset, and asks for no run.
Add(d, n) ==
  /\ Change
  /\ \E loaded \in Domains : hub[d][loaded] # 0
  /\ hub' = [hub EXCEPT ![d][n] = changes + 1]
  /\ missed' = missed \union {d}
  /\ UNCHANGED <<known, table, requested, scope, job, attempt, place, faults>>

\* _trigger_dag gets its token and posts the run.
Trigger(d) ==
  /\ pending[d] > 0
  /\ pending' = [pending EXCEPT ![d] = @ - 1]
  /\ queued' = [queued EXCEPT ![{d}] = @ + 1]
  /\ UNCHANGED <<hub, changes, known, table, batches, scope, job, attempt, place, missed, faults>>

\* Either fails, and is logged; or the API stops first.
TriggerLost(d) ==
  /\ pending[d] > 0 /\ Fault
  /\ pending' = [pending EXCEPT ![d] = @ - 1]
  /\ missed' = missed \union {d}
  /\ UNCHANGED <<hub, changes, known, table, queued, batches, scope, job, attempt, place>>

\* A run without a dataset id is started by hand.
Batch ==
  /\ batches < MaxBatches
  /\ batches' = batches + 1
  /\ queued' = [queued EXCEPT ![Datasets] = @ + 1]
  /\ UNCHANGED <<hub, changes, known, table, pending, scope, job, attempt, place, missed, faults>>

-----------------------------------------------------------------------------
(* The run                                                                 *)

AtDomain(n) == domain' = n /\ target' = "none" /\ cleared' = FALSE /\ seen' = Nothing

Enter(task, s) == job' = task /\ scope' = s /\ attempt' = 0 /\ AtDomain(1)

StartRun(s) ==
  /\ job = "none" /\ queued[s] > 0
  /\ queued' = [queued EXCEPT ![s] = @ - 1]
  /\ missed' = missed \ s
  /\ Enter("domain_analytics", s)
  /\ UNCHANGED <<hub, changes, known, table, pending, batches, faults>>

\* A domain with rows in scope is read, once for all its tables; ...
ReadDomain ==
  /\ job # "none" /\ target = "none" /\ domain \in Domains
  /\ \E d \in scope : hub[d][domain] # 0
  /\ seen' = [d \in Datasets |-> IF d \in scope THEN hub[d][domain] ELSE 0]
  /\ target' = FirstTable[job] /\ cleared' = FALSE
  /\ UNCHANGED <<hub, changes, known, table, requested, scope, job, attempt, domain, missed, faults>>

\* ... one without any is passed over, and so are its old results; ...
PassEmpty ==
  /\ job # "none" /\ target = "none" /\ domain \in Domains
  /\ \A d \in scope : hub[d][domain] = 0
  /\ AtDomain(domain + 1)
  /\ UNCHANGED <<hub, changes, known, table, requested, scope, job, attempt, missed, faults>>

\* ... and one that cannot be read or aggregated is skipped.
SkipDomain ==
  /\ job # "none" /\ target = "none" /\ domain \in Domains /\ Fault
  /\ missed' = missed \union scope
  /\ AtDomain(domain + 1)
  /\ UNCHANGED <<hub, changes, known, table, requested, scope, job, attempt>>

\* _dataset_ids: the datasets with rows in what was read
Ids == {d \in scope : seen[d] # 0}

\* table with, for each dataset that was read, these pieces in the target
Replaced(pieces) ==
  [table EXCEPT ![target] =
    [d \in Datasets |-> IF d \in Ids THEN [@[d] EXCEPT ![domain] = pieces[d]] ELSE @[d]]]

Copies(d, k) == [i \in 1 .. k |-> seen[d]]

\* _delete_existing, committed
Clear ==
  /\ target # "none" /\ ~ cleared
  /\ table' = Replaced([d \in Ids |-> << >>])
  /\ cleared' = TRUE
  /\ UNCHANGED <<hub, changes, known, requested, scope, job, attempt, domain, target, seen,
                 missed, faults>>

\* Mutant: what was read is not kept, and is read again as it is written.
WriteUncached ==
  /\ target # "none" /\ cleared
  /\ table' = Replaced([d \in Ids |-> table[target][d][domain]
                                    \o [i \in 1 .. Parts |-> hub[d][domain]]])
  /\ IF target = "domain_metrics"
       THEN target' = "daily_trend" /\ cleared' = FALSE /\ UNCHANGED <<domain, seen>>
       ELSE AtDomain(domain + 1)
  /\ UNCHANGED <<hub, changes, known, requested, scope, job, attempt, missed, faults>>

\* write_table; then the next table of the domain, or the next domain
Write ==
  /\ target # "none" /\ cleared
  /\ table' = Replaced([d \in Ids |-> table[target][d][domain] \o Copies(d, Parts)])
  /\ IF target = "domain_metrics"
       THEN target' = "daily_trend" /\ cleared' = FALSE /\ UNCHANGED <<domain, seen>>
       ELSE AtDomain(domain + 1)
  /\ UNCHANGED <<hub, changes, known, requested, scope, job, attempt, missed, faults>>

\* The task fails, or its worker is lost, with as many pieces appended as may
\* be.  Airflow starts it from the beginning, or gives the run up.
TaskFails ==
  /\ job # "none" /\ Fault
  /\ IF target # "none" /\ cleared
       THEN \E k \in [Ids -> 0 .. Parts] :
              table' = Replaced([d \in Ids |-> table[target][d][domain] \o Copies(d, k[d])])
       ELSE UNCHANGED table
  /\ IF attempt < Retries
       THEN /\ attempt' = attempt + 1 /\ AtDomain(1)
            /\ UNCHANGED <<job, scope, missed>>
       ELSE Enter("none", {}) /\ missed' = missed \union scope
  /\ UNCHANGED <<hub, changes, known, requested>>

\* Mutant: the run is not marked as ended, and keeps its slot.
EndTaskOnly ==
  /\ job = "domain_analytics" /\ domain \notin Domains
  /\ Enter("feature_engineering", scope)
  /\ UNCHANGED <<hub, changes, known, table, requested, missed, faults>>

\* domain_analytics >> feature_engineering
EndTask ==
  /\ job # "none" /\ domain \notin Domains
  /\ IF job = "domain_analytics" THEN Enter("feature_engineering", scope) ELSE Enter("none", {})
  /\ UNCHANGED <<hub, changes, known, table, requested, missed, faults>>

Run == ReadDomain \/ PassEmpty \/ SkipDomain \/ Clear \/ Write \/ TaskFails \/ EndTask

Next ==
  \/ \E d \in Datasets :
       \/ \E domains \in SUBSET Domains \ {{}} : Confirm(d, domains) \/ Ingest(d, domains)
       \/ ConfirmUnloaded(d)
       \/ \E n \in Domains : Add(d, n)
       \/ Trigger(d) \/ TriggerLost(d)
  \/ Batch
  \/ \E s \in Scopes : StartRun(s)
  \/ Run

Spec == Init /\ [][Next]_vars

\* The threads run, and Airflow schedules what is queued.
FairSpec ==
  /\ Spec
  /\ WF_vars(Run)
  /\ \A d \in Datasets : WF_vars(Trigger(d) \/ TriggerLost(d))
  /\ WF_vars(\E s \in Scopes : StartRun(s))

-----------------------------------------------------------------------------
(* Properties                                                              *)

\* Every variable holds a value of its type.
TypeOK ==
  /\ hub \in [Datasets -> [Domains -> 0 .. MaxChanges]] /\ changes \in 0 .. MaxChanges
  /\ known \subseteq Datasets
  /\ table \in [Tables -> [Datasets -> [Domains -> Seq(1 .. MaxChanges)]]]
  /\ pending \in [Datasets -> Nat] /\ queued \in [Scopes -> Nat] /\ batches \in 0 .. MaxBatches
  /\ scope \in Scopes \union {{}} /\ job \in Jobs \union {"none"}
  /\ attempt \in 0 .. Retries
  /\ domain \in 1 .. LastDomain + 1 /\ target \in Tables \union {"none"}
  /\ cleared \in BOOLEAN /\ seen \in [Datasets -> 0 .. MaxChanges]
  /\ missed \subseteq Datasets /\ faults \in 0 .. MaxFaults

Idle == job = "none" /\ pending = Nothing /\ \A s \in Scopes : queued[s] = 0

\* The tables hold all that follows from the dataset's present rows.
Fresh(d) ==
  \A t \in Tables, n \in Domains :
    hub[d][n] # 0 => table[t][d][n] = [i \in 1 .. Parts |-> hub[d][n]]

\* A rerun replaces: no table ever counts rows twice, or mixes what was
\* computed from one state of a dataset with what was computed from another,
\* whatever failed half-way before.
ReplacedNotDuplicated ==
  \A t \in Tables, d \in Datasets, n \in Domains :
    /\ Len(table[t][d][n]) <= Parts
    /\ \A i, j \in 1 .. Len(table[t][d][n]) : table[t][d][n][i] = table[t][d][n][j]

\* Once the runs are over no domain is left between the delete and the append,
\* and the tables follow the last confirmation, even one in the middle of a
\* run.  This is so unless the rows have changed since by a route that asks for no
\* run (an addition, a load of the ingestion DAG), or the request was lost, a
\* domain skipped or the run given up: the tables are then stale until the next
\* run of the dataset, and nothing in the code brings that about.
FreshWhenIdle == Idle => \A d \in Datasets \ missed : Fresh(d)

\* The invariants behind the two.  A job is at a table of its own, of a domain it
\* has read in its scope, ...
InPlace ==
  /\ job = "none" => scope = {} /\ target = "none"
  /\ target \in {"domain_metrics", "daily_trend"} => job = "domain_analytics"
  /\ target = "entity_features" => job = "feature_engineering"
  /\ target # "none" => domain \in Domains
  /\ \A d \in Datasets : seen[d] # 0 => d \in scope

\* ... which it has emptied when it appends to it.
ClearedIsEmpty ==
  target # "none" /\ cleared => \A d \in Ids : table[target][d][domain] = << >>

\* What is in a table, or about to be written, is no newer than the rows and comes
\* from a change there has been; and what a job has read is no older than any
\* result of that domain.
NoOlder ==
  /\ \A d \in Datasets, n \in Domains : hub[d][n] <= changes
  /\ \A t \in Tables, d \in Datasets, n \in Domains : \A i \in 1 .. Len(table[t][d][n]) :
       /\ table[t][d][n][i] <= changes
       /\ hub[d][n] # 0 => table[t][d][n][i] <= hub[d][n]
  /\ target # "none" => \A d \in Ids :
       /\ seen[d] <= changes
       /\ hub[d][domain] # 0 => seen[d] <= hub[d][domain]
       /\ \A t \in Tables : \A i \in 1 .. Len(table[t][d][domain]) :
            table[t][d][domain][i] <= seen[d]

\* Where old rows have been deleted and new ones are still to come
Between == target # "none" /\ cleared

Results == INSTANCE ResultsContract WITH
  latest <- changes, rows <- hub, shown <- table,
  at <- IF Between THEN <<target, domain>> ELSE << >>,
  coming <- IF Between THEN seen ELSE Nothing

\* Seen through the tables, runs that fail, are tried again and meet a changing hub
\* are the contract: a domain of a table goes from one state's results to those of a
\* state at least as new, never through a mixture.
ImplementsResults == Results!Spec

\* What the run that is active has behind it
Done(t, n) ==
  \/ job = "domain_analytics" /\ t # "entity_features"
       /\ (n < domain \/ (n = domain /\ t = "domain_metrics" /\ target = "daily_trend"))
  \/ job = "feature_engineering" /\ (t = "entity_features" => n < domain)

\* A dataset for which no run is on its way is fresh, or the run that is active
\* is about to make it so, from the rows it has now.
FreshBehindTheRun ==
  \A d \in Datasets \ missed :
    pending[d] = 0 /\ queued[{d}] = 0 =>
      /\ \A t \in Tables, n \in Domains :
           (d \in scope => Done(t, n)) /\ hub[d][n] # 0 =>
             table[t][d][n] = [i \in 1 .. Parts |-> hub[d][n]]
      /\ d \in scope /\ target # "none" => seen[d] = hub[d][domain]

\* A change that asks for a run gets what it asked for, unless something known
\* keeps it away.
RefreshesLand == \A d \in Datasets : pending[d] > 0 ~> Fresh(d) \/ d \in missed
=============================================================================
