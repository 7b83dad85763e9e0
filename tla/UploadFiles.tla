---------------------------- MODULE UploadFiles ----------------------------
(***************************************************************************)
(* The upload directory and the three programs that share it: the API      *)
(* saves every upload there and reads it again when the mapping is         *)
(* confirmed; POST /features/add reads it once more; and every 15 minutes  *)
(* the ingestion DAG onboards each CSV it finds there under a business of  *)
(* its own and moves it to the archive.  Nothing locks a file, and the DAG *)
(* cannot tell an upload of the API from a file dropped for it.            *)
(*                                                                         *)
(* Airflow is external: a mapped task instance runs until it returns or    *)
(* its worker is lost, a lost one is queued again while it has retries, a  *)
(* mapped task starts when every instance upstream has ended and has one   *)
(* instance per report those have returned.                                *)
(***************************************************************************)
EXTENDS Naturals, FiniteSets

CONSTANTS
  Files,     \* file names, as their places in name order
  Uploads,   \* those the API gives to uploads; the others are dropped for the DAG
  Retries,   \* DEFAULT_ARGS["retries"]
  MaxFaults, \* bound on workers lost and archive moves refused
  MaxAdds    \* bound on the columns added later

ASSUME UploadAssumption ==
  /\ Files \subseteq Nat
  /\ Uploads \subseteq Files
  /\ Retries \in Nat
  /\ MaxFaults \in Nat /\ MaxAdds \in Nat

VARIABLES
  disk,     \* what the upload directory holds under each name
  archive,  \* <<name, content>> of the files copied to the archive
  datasets, \* meta.dataset, with the file each row was profiled from
  added,    \* hub rows added later: to which dataset, and from which file
  api,      \* how far each upload has got in the API
  running,  \* whether a run of the DAG is in progress
  task,     \* the DAG's task instance for each file of the run
  tries,    \* how often that instance has been queued again
  faults    \* how many faults have happened

vars == <<disk, archive, datasets, added, api, running, task, tries, faults>>

\* A broken file is one on which reading or onboarding raises, whenever it is
\* tried: no rows, no columns, bytes that are no CSV.
Content   == {"absent", "partial", "broken", "whole"}
ApiSteps  == {"new", "dropped", "saving", "saved", "started", "checked",
              "confirmed", "rechecked", "failed"}
TaskSteps == {"none", "queued", "committed", "reported", "copied", "failed", "over"}
OnDisk    == {f \in Files : disk[f] # "absent"}

Init ==
  /\ disk = [f \in Files |-> "absent"]
  /\ archive = {}
  /\ datasets = {}
  /\ added = {}
  /\ api = [f \in Files |-> "new"]
  /\ running = FALSE
  /\ task = [f \in Files |-> "none"]
  /\ tries = [f \in Files |-> 0]
  /\ faults = 0

dag == <<running, task, tries, faults>>

\* A dataset row with the next identity value
NewDataset(f, by) == [id |-> Cardinality(datasets) + 1, file |-> f, by |-> by]

-----------------------------------------------------------------------------
(* The API                                                                 *)

\* _save_upload opens a new file and copies the upload into it.
SaveBegin(f) ==
  /\ f \in Uploads /\ api[f] = "new"
  /\ disk' = [disk EXCEPT ![f] = "partial"]
  /\ api' = [api EXCEPT ![f] = "saving"]
  /\ UNCHANGED <<archive, datasets, added, dag>>

\* The copy ends.  If the DAG has removed the name, what is written is lost.
SaveEnd(f) ==
  /\ api[f] = "saving"
  /\ \E c \in {"broken", "whole"} :
       disk' = [disk EXCEPT ![f] = IF f \in OnDisk THEN c ELSE "absent"]
  /\ api' = [api EXCEPT ![f] = "saved"]
  /\ UNCHANGED <<archive, datasets, added, dag>>

\* start_onboarding profiles the stored file and registers the dataset; a file
\* that is broken or gone makes it raise, and it stays where it is.
Start(f) ==
  /\ api[f] = "saved"
  /\ IF disk[f] = "whole"
       THEN /\ datasets' = datasets \union {NewDataset(f, "api")}
            /\ api' = [api EXCEPT ![f] = "started"]
       ELSE /\ api' = [api EXCEPT ![f] = "failed"]
            /\ UNCHANGED datasets
  /\ UNCHANGED <<disk, archive, added, dag>>

\* onboard_confirm finds the stored file; if it does not, it answers 404 and
\* changes nothing.
ConfirmBegin(f) ==
  /\ f \in OnDisk
  /\ \/ api[f] = "started" /\ api' = [api EXCEPT ![f] = "checked"]
     \/ api[f] = "confirmed" /\ api' = [api EXCEPT ![f] = "rechecked"]
  /\ UNCHANGED <<disk, archive, datasets, added, dag>>

\* The file is read and the mapping confirmed, with or without a load (which
\* is Onboarding's); if the file has gone since the check, all is rolled back.
ConfirmEnd(f) ==
  /\ api[f] \in {"checked", "rechecked"}
  /\ api' = [api EXCEPT ![f] =
                IF f \in OnDisk \/ @ = "rechecked" THEN "confirmed" ELSE "started"]
  /\ UNCHANGED <<disk, archive, datasets, added, dag>>

\* _ingest_single_column reads the last CSV of the directory in name order, for
\* a column that the confirmation has skipped.  A directory without CSVs, a last
\* one that cannot be read and one without the column end it.
Add(x) ==
  /\ x \in datasets
  /\ x.by = "api" => api[x.file] \in {"confirmed", "rechecked"}
  /\ Cardinality(added) < MaxAdds
  /\ \E last \in OnDisk :
       /\ \A f \in OnDisk : f <= last
       /\ disk[last] # "broken"
       /\ added' = added \union {[id |-> x.id, from |-> last]}
  /\ UNCHANGED <<disk, archive, datasets, api, dag>>

-----------------------------------------------------------------------------
(* The ingestion DAG                                                       *)

\* A CSV is put into the directory for the DAG.
Drop(f) ==
  /\ f \notin Uploads /\ api[f] = "new"
  /\ \E c \in {"broken", "whole"} : disk' = [disk EXCEPT ![f] = c]
  /\ api' = [api EXCEPT ![f] = "dropped"]
  /\ UNCHANGED <<archive, datasets, added, dag>>

\* Mutant: a run takes only the first CSV in name order.
DiscoverFirst ==
  /\ ~ running
  /\ OnDisk # {}
  /\ running' = TRUE
  /\ task' = [f \in Files |->
                IF f \in OnDisk /\ \A g \in OnDisk : f <= g THEN "queued" ELSE "none"]
  /\ tries' = [f \in Files |-> 0]
  /\ UNCHANGED <<disk, archive, datasets, added, api, faults>>

\* discover_files: one ingest_file instance for every CSV in the directory
Discover ==
  /\ ~ running
  /\ OnDisk # {}
  /\ running' = TRUE
  /\ task' = [f \in Files |-> IF f \in OnDisk THEN "queued" ELSE "none"]
  /\ tries' = [f \in Files |-> 0]
  /\ UNCHANGED <<disk, archive, datasets, added, api, faults>>

\* ingest_file: both stages of onboarding in one transaction, with or without a
\* load.  A file that is still being written may be read as far as it goes.
Ingest(f) ==
  /\ task[f] = "queued"
  /\ disk[f] \in {"whole", "partial"}
  /\ datasets' = datasets \union {NewDataset(f, "dag")}
  /\ task' = [task EXCEPT ![f] = "committed"]
  /\ UNCHANGED <<disk, archive, added, api, running, tries, faults>>

\* Airflow tries a failed instance again while it has retries.
Retry(f) ==
  IF tries[f] < Retries
    THEN /\ task' = [task EXCEPT ![f] = "queued"]
         /\ tries' = [tries EXCEPT ![f] = @ + 1]
    ELSE /\ task' = [task EXCEPT ![f] = "failed"]
         /\ UNCHANGED tries

\* ingest_file raises, and all is rolled back.  A broken file does this in every
\* try of every run, since it stays where it is.
IngestRaises(f) ==
  /\ task[f] = "queued"
  /\ disk[f] # "whole"
  /\ Retry(f)
  /\ UNCHANGED <<disk, archive, datasets, added, api, running, faults>>

\* The instance returns its report.
Report(f) ==
  /\ task[f] = "committed"
  /\ task' = [task EXCEPT ![f] = "reported"]
  /\ UNCHANGED <<disk, archive, datasets, added, api, running, tries, faults>>

\* The worker is lost, before or after the commit, or the database before it.
LoseWorker(f) ==
  /\ task[f] \in {"queued", "committed"}
  /\ faults < MaxFaults
  /\ faults' = faults + 1
  /\ Retry(f)
  /\ UNCHANGED <<disk, archive, datasets, added, api, running>>

IngestsEnded == \A f \in Files : task[f] \notin {"queued", "committed"}

\* Mutant: the archive is mapped over the files instead of the reports.
ArchiveAnyCopy(f) ==
  /\ running /\ IngestsEnded
  /\ task[f] \in {"reported", "failed"}
  /\ archive' = archive \union {<<f, disk[f]>>}
  /\ task' = [task EXCEPT ![f] = "copied"]
  /\ UNCHANGED <<disk, datasets, added, api, running, tries, faults>>

\* archive_file: copy2
ArchiveCopy(f) ==
  /\ running /\ IngestsEnded
  /\ task[f] = "reported"
  /\ archive' = archive \union {<<f, disk[f]>>}
  /\ task' = [task EXCEPT ![f] = "copied"]
  /\ UNCHANGED <<disk, datasets, added, api, running, tries, faults>>

\* Mutant: the source is left where it is.
ArchiveKeep(f) ==
  /\ task[f] = "copied"
  /\ task' = [task EXCEPT ![f] = "over"]
  /\ UNCHANGED <<disk, archive, datasets, added, api, running, tries, faults>>

\* archive_file: os.remove
ArchiveRemove(f) ==
  /\ task[f] = "copied"
  /\ disk' = [disk EXCEPT ![f] = "absent"]
  /\ task' = [task EXCEPT ![f] = "over"]
  /\ UNCHANGED <<archive, datasets, added, api, running, tries, faults>>

\* The copy or the removal is refused, or the worker is lost: retries=0.
ArchiveFault(f) ==
  /\ IngestsEnded
  /\ task[f] \in {"reported", "copied"}
  /\ faults < MaxFaults
  /\ faults' = faults + 1
  /\ task' = [task EXCEPT ![f] = "over"]
  /\ UNCHANGED <<disk, archive, datasets, added, api, running, tries>>

\* summarize, and the run is over.
EndRun ==
  /\ running
  /\ \A f \in Files : task[f] \in {"none", "failed", "over"}
  /\ running' = FALSE
  /\ task' = [f \in Files |-> "none"]
  /\ UNCHANGED <<disk, archive, datasets, added, api, tries, faults>>

-----------------------------------------------------------------------------
Scheduled(f) ==
  Ingest(f) \/ IngestRaises(f) \/ Report(f) \/ ArchiveCopy(f) \/ ArchiveRemove(f)

Next ==
  \/ \E f \in Files :
       \/ SaveBegin(f) \/ SaveEnd(f) \/ Start(f) \/ ConfirmBegin(f) \/ ConfirmEnd(f)
       \/ Drop(f) \/ Scheduled(f) \/ LoseWorker(f) \/ ArchiveFault(f)
  \/ \E x \in datasets : Add(x)
  \/ Discover \/ EndRun

Spec == Init /\ [][Next]_vars

\* Airflow keeps scheduling the DAG and its tasks.  Users owe nothing.
Fairness ==
  /\ WF_vars(Discover) /\ WF_vars(EndRun)
  /\ \A f \in Files : WF_vars(Scheduled(f))

FairSpec == Spec /\ Fairness

-----------------------------------------------------------------------------
(* Properties                                                              *)

Dataset == [id : Nat, file : Files, by : {"api", "dag"}]

\* Every variable holds a value of its type.
TypeOK ==
  /\ disk \in [Files -> Content]
  /\ archive \subseteq Files \X Content
  /\ datasets \subseteq Dataset
  /\ added \subseteq [id : Nat, from : Files]
  /\ api \in [Files -> ApiSteps]
  /\ running \in BOOLEAN
  /\ task \in [Files -> TaskSteps]
  /\ tries \in [Files -> 0 .. Retries]
  /\ faults \in 0 .. MaxFaults

\* A file that has been put into the directory leaves it only once the DAG has
\* onboarded it and copied it to the archive, whatever fails on the way; so one
\* that cannot be read stays.
KeptUntilIngested ==
  \A f \in Files :
    api[f] # "new" /\ f \notin OnDisk =>
      /\ \E copy \in archive : copy[1] = f
      /\ \E x \in datasets : x.file = f /\ x.by = "dag"

\* The DAG onboards a file again only after a fault: a run that meets none
\* leaves nothing it has onboarded behind for the next.
AtMostOnceMorePerFault ==
  \A f \in Files :
    Cardinality({x \in datasets : x.file = f /\ x.by = "dag"}) <= 1 + faults

\* The invariants behind the two.  A file whose task has got past the commit
\* has been onboarded, and past the copy, archived: it is then that it is removed.
\* Only a run has tasks.
Onboardings(f) == {x \in datasets : x.file = f /\ x.by = "dag"}
TaskHasDone ==
  \A f \in Files :
    /\ ~ running => task[f] = "none"
    /\ task[f] \in {"committed", "reported", "copied"} => Onboardings(f) # {}
    /\ task[f] = "copied" => \E copy \in archive : copy[1] = f

\* A file that is, or will be, taken up again has cost a fault for every time
\* it has been onboarded before; one that nobody has put there has not been.
AgainAfterFaultOnly ==
  /\ \A f \in Files : api[f] = "new" => f \notin OnDisk /\ Onboardings(f) = {}
  /\ \A f \in Files :
       /\ Cardinality(Onboardings(f)) <= 1 + faults
       /\ f \in OnDisk /\ task[f] \in {"none", "queued", "failed", "over"} =>
            Cardinality(Onboardings(f)) <= faults

\* Every CSV that can be read is onboarded and archived in the end, even beside
\* one that cannot and fails in every run for ever: one bad CSV fails only its
\* own instance.
EveryFileLeaves == \A f \in Files : disk[f] = "whole" ~> disk[f] = "absent"
=============================================================================
