----------------------------- MODULE MLRefresh -----------------------------
(***************************************************************************)
(* The ML results: a run of ml_orchestration_pipeline, started by hand for *)
(* one dataset or for all, takes forecasting, anomaly detection and risk   *)
(* scoring one after another over the analytics tables, which keep         *)
(* changing meanwhile.  A job reads its tables, and then replaces its own  *)
(* results and registers its version, in one transaction.                  *)
(*                                                                         *)
(* Airflow is external: one run at a time, a failed task is tried again.   *)
(***************************************************************************)
EXTENDS Naturals, Sequences, FiniteSets

CONSTANTS
  Datasets,
  Retries,    \* default_args["retries"]
  MaxRuns,    \* bound on the runs started
  MaxChanges, \* bound on the changes of the analytics tables
  MaxFaults   \* bound on the failures of a task

VARIABLES
  trend, features, \* the change that wrote the rows of each dataset, 0 if it has none
  changes,
  result,   \* the rows of each job and dataset: the registry entry they name and what
            \* they were computed from; None where there are none
  registry, \* ml.model_registry
  scope,    \* the datasets of the run that is active
  job,      \* its task, "none" between runs
  attempt,  \* how often that task has failed
  read,     \* what the task has read, << >> before it has
  done,     \* the anomaly versions of the run that is active, for its last task
  runs, faults

vars == <<trend, features, changes, result, registry, scope, job, attempt, read, done, runs, faults>>
sources == <<trend, features, changes>>

Jobs == {"forecasting", "anomaly_detection", "risk_scoring"}
Scopes == {{d} : d \in Datasets} \union {Datasets}
None == [version |-> 0, trend |-> 0, features |-> 0, anomalies |-> 0]
Nothing == [d \in Datasets |-> 0]

Init ==
  /\ trend = Nothing /\ features = Nothing /\ changes = 0
  /\ result = [j \in Jobs |-> [d \in Datasets |-> None]]
  /\ registry = << >>
  /\ scope = {} /\ job = "none" /\ attempt = 0 /\ read = << >> /\ done = 0
  /\ runs = 0 /\ faults = 0

-----------------------------------------------------------------------------
\* AnalyticsRefresh, seen from here: a task of it clears or replaces the trend
\* or the features of a dataset.
SourcesChange(d) ==
  /\ changes < MaxChanges
  /\ changes' = changes + 1
  /\ \/ trend' \in {[trend EXCEPT ![d] = c] : c \in {0, changes + 1}} /\ UNCHANGED features
     \/ features' \in {[features EXCEPT ![d] = c] : c \in {0, changes + 1}} /\ UNCHANGED trend
  /\ UNCHANGED <<result, registry, scope, job, attempt, read, done, runs, faults>>

StartRun(s) ==
  /\ job = "none" /\ runs < MaxRuns
  /\ runs' = runs + 1
  /\ scope' = s /\ job' = "forecasting" /\ attempt' = 0 /\ read' = << >> /\ done' = 0
  /\ UNCHANGED <<sources, result, registry, faults>>

-----------------------------------------------------------------------------
\* What a job reads of its scope; what it does not read stays 0.
InScope(f) == [d \in Datasets |-> IF d \in scope THEN f[d] ELSE 0]
AnomaliesNow == [d \in Datasets |-> result["anomaly_detection"][d].version]

Rows ==
  [trend |-> InScope(IF job = "risk_scoring" THEN Nothing ELSE trend),
   features |-> InScope(IF job = "forecasting" THEN Nothing ELSE features),
   anomalies |-> InScope(IF job = "risk_scoring" THEN AnomaliesNow ELSE Nothing)]

\* read_daily_trend, read_entity_features, _load_anomaly_weights: the reads of
\* a job are one step, since nothing relates what two of them find.
Read ==
  /\ job # "none" /\ read = << >>
  /\ read' = <<Rows>>
  /\ UNCHANGED <<sources, result, registry, scope, job, attempt, done, runs, faults>>

HasRows(d) == read[1].trend[d] # 0 \/ read[1].features[d] # 0

\* forecasting and risk_scoring look for rows before anything else.
ReturnsEarly == job # "anomaly_detection" /\ \A d \in scope : ~ HasRows(d)

\* A job may find nothing to say of a dataset although it has rows.
Found(found) == found \subseteq {d \in scope : HasRows(d)}

\* _clear_scope and _insert_rows; a run over all datasets truncates.
Replace(found, version) ==
  result' = [result EXCEPT ![job] = [d \in Datasets |->
    CASE d \in found -> [version |-> version, trend |-> read[1].trend[d],
                         features |-> read[1].features[d], anomalies |-> read[1].anomalies[d]]
      [] d \in scope \ found -> None
      [] OTHER -> @[d]]]

\* register_model_version
Register(found) ==
  registry' = Append(registry, [job |-> job, scope |-> scope, rows |-> found # {}])

\* forecasting >> anomaly_detection >> risk_scoring
After == [forecasting |-> "anomaly_detection", anomaly_detection |-> "risk_scoring",
          risk_scoring |-> "none"]

EndTask ==
  /\ job' = After[job]
  /\ scope' = IF After[job] = "none" THEN {} ELSE scope
  /\ done' = IF job = "anomaly_detection" THEN Len(registry) + 1 ELSE done
  /\ attempt' = 0 /\ read' = << >>

\* The early return of forecasting and risk_scoring
FinishEmpty ==
  /\ read # << >> /\ ReturnsEarly
  /\ Register({})
  /\ EndTask
  /\ UNCHANGED <<sources, result, runs, faults>>

\* The transaction of a job that has rows to work on, or is anomaly_detection
Finish ==
  /\ read # << >> /\ ~ ReturnsEarly
  /\ \E found \in SUBSET scope :
       /\ Found(found)
       /\ Replace(found, Len(registry) + 1)
       /\ Register(found)
  /\ EndTask
  /\ UNCHANGED <<sources, runs, faults>>

\* Mutant: the results are committed, and the registration fails.
TaskFailsUnregistered ==
  /\ job # "none" /\ faults < MaxFaults /\ faults' = faults + 1
  /\ IF read # << >>
       THEN \E found \in SUBSET scope : Found(found) /\ Replace(found, Len(registry) + 1)
       ELSE UNCHANGED result
  /\ read' = << >>
  /\ IF attempt < Retries
       THEN attempt' = attempt + 1 /\ UNCHANGED <<job, scope, done>>
       ELSE attempt' = 0 /\ job' = "none" /\ scope' = {} /\ done' = 0
  /\ UNCHANGED <<sources, registry, runs>>

\* Mutant: a task runs whatever became of the one before.
TaskFailsAndRunGoesOn ==
  /\ job # "none" /\ faults < MaxFaults /\ faults' = faults + 1
  /\ read' = << >>
  /\ IF attempt < Retries
       THEN attempt' = attempt + 1 /\ UNCHANGED <<job, scope, done>>
       ELSE /\ attempt' = 0 /\ job' = After[job] /\ UNCHANGED done
            /\ scope' = IF After[job] = "none" THEN {} ELSE scope
  /\ UNCHANGED <<sources, result, registry, runs>>

\* A statement fails or the worker is lost, and the transaction is rolled
\* back; with no retry left the run fails, and its other tasks with it.
TaskFails ==
  /\ job # "none" /\ faults < MaxFaults /\ faults' = faults + 1
  /\ read' = << >>
  /\ IF attempt < Retries
       THEN attempt' = attempt + 1 /\ UNCHANGED <<job, scope, done>>
       ELSE attempt' = 0 /\ job' = "none" /\ scope' = {} /\ done' = 0
  /\ UNCHANGED <<sources, result, registry, runs>>

Next ==
  \/ \E d \in Datasets : SourcesChange(d)
  \/ \E s \in Scopes : StartRun(s)
  \/ Read \/ FinishEmpty \/ Finish \/ TaskFails

Spec == Init /\ [][Next]_vars

-----------------------------------------------------------------------------
(* Properties                                                              *)

\* Every variable holds a value of its type.
TypeOK ==
  /\ trend \in [Datasets -> 0 .. MaxChanges] /\ features \in [Datasets -> 0 .. MaxChanges]
  /\ changes \in 0 .. MaxChanges
  /\ \A j \in Jobs, d \in Datasets : result[j][d].version \in 0 .. Len(registry)
  /\ registry \in Seq([job : Jobs, scope : Scopes, rows : BOOLEAN])
  /\ scope \in Scopes \union {{}} /\ job \in Jobs \union {"none"}
  /\ attempt \in 0 .. Retries /\ Len(read) <= 1 /\ done \in 0 .. Len(registry)
  /\ runs \in 0 .. MaxRuns /\ faults \in 0 .. MaxFaults

\* Results that are shown can be traced: their version is registered, by their
\* job, with a scope they are in, as one that wrote rows.
Traceable ==
  \A j \in Jobs, d \in Datasets :
    LET v == result[j][d].version IN
      v # 0 => /\ v \in 1 .. Len(registry)
               /\ registry[v].job = j /\ registry[v].rows
               /\ d \in registry[v].scope

\* The newest entry a job has registered for a dataset
Newest(j, d) ==
  LET covering == {v \in 1 .. Len(registry) : registry[v].job = j /\ d \in registry[v].scope}
  IN  IF covering = {} THEN 0 ELSE CHOOSE v \in covering : \A w \in covering : w <= v

\* Anomalies are those the newest run found, or none if it found none: no run
\* leaves an alert standing that it did not confirm.
AnomaliesAreNewest ==
  \A d \in Datasets : result["anomaly_detection"][d].version \in {0, Newest("anomaly_detection", d)}

\* Risk scores weigh the anomalies of their own run, or none: never those of
\* an earlier one, however the tasks failed and whatever the scopes were.
RiskUsesOwnAnomalies ==
  [][\A d \in Datasets :
       result'["risk_scoring"][d].version # result["risk_scoring"][d].version =>
         result'["risk_scoring"][d].anomalies \in {0, done}]_vars

\* Why: what risk scoring finds, and has read, of its scope are the anomalies its
\* own run left there.
OwnAnomaliesOnly ==
  job = "risk_scoring" =>
    \A d \in scope :
      /\ result["anomaly_detection"][d].version \in {0, done}
      /\ read # << >> => read[1].anomalies[d] \in {0, done}
=============================================================================
