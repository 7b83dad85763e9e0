----------------------------- MODULE MCRefresh -----------------------------
(* The two Airflow pipelines on two datasets, for TLC. They meet in the        *)
(* analytics tables only, and MLRefresh takes any change of those, so a        *)
(* behaviour here is of one of the two while the other waits.                  *)
EXTENDS AnalyticsRefresh

CONSTANTS plant, shop, MaxRuns, MaxSourceChanges

VARIABLES pipeline, mlTrend, mlFeatures, mlChanges, mlResult, mlRegistry, mlScope, mlJob,
          mlAttempt, mlRead, mlDone, mlRuns, mlFaults
mlVars == <<mlTrend, mlFeatures, mlChanges, mlResult, mlRegistry, mlScope, mlJob, mlAttempt,
            mlRead, mlDone, mlRuns, mlFaults>>

ML == INSTANCE MLRefresh WITH
  MaxChanges <- MaxSourceChanges,
  trend <- mlTrend, features <- mlFeatures, changes <- mlChanges, result <- mlResult,
  registry <- mlRegistry, scope <- mlScope, job <- mlJob, attempt <- mlAttempt, read <- mlRead,
  done <- mlDone, runs <- mlRuns, faults <- mlFaults

(* Bound: a second fault only where it ends the run of a task that failed before, *)
(* and not beside a run over all datasets.                                       *)
FaultsEndRuns == /\ faults' <= 1 \/ faults' = faults \/ (attempt = Retries /\ job' = "none")
                 /\ batches' + faults' <= 2

MCInit == Init /\ ML!Init /\ pipeline \in {"analytics", "ml"}
MCNext ==
  \/ pipeline = "analytics" /\ Next /\ FaultsEndRuns /\ UNCHANGED <<pipeline, mlVars>>
  \/ pipeline = "ml" /\ ML!Next /\ UNCHANGED <<pipeline, vars>>
MCRun == Run /\ FaultsEndRuns /\ UNCHANGED <<pipeline, mlVars>>
MCTrigger(d) == (Trigger(d) \/ TriggerLost(d)) /\ FaultsEndRuns /\ UNCHANGED <<pipeline, mlVars>>
MCStartRun == (\E s \in Scopes : StartRun(s)) /\ FaultsEndRuns /\ UNCHANGED <<pipeline, mlVars>>

(* FairSpec, within the bound *)
MCSpec ==
  /\ MCInit /\ [][MCNext]_<<vars, mlVars, pipeline>>
  /\ WF_vars(MCRun) /\ WF_vars(MCStartRun)
  /\ \A d \in Datasets : WF_vars(MCTrigger(d))

(* Risk scores weigh the anomalies of their own run, or none: never those of    *)
(* an earlier one, however the tasks failed and whatever the scopes were        *)
(* (risk_scoring._load_anomaly_weights).                                        *)
RiskUsesOwnAnomalies == ML!RiskUsesOwnAnomalies

(* Results that are shown are traced to a registered version, and no alert      *)
(* stands that the newest run of its dataset did not confirm                    *)
(* (ml_common.register_model_version, _clear_scope).                            *)
ShownResultsAreNewest == ML!Traceable /\ ML!AnomaliesAreNewest
=============================================================================
