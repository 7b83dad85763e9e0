--------------------------- MODULE UploadsProofs ---------------------------
(***************************************************************************)
(* Theorems about the two kinds of uploads, for every set of files and of  *)
(* requests and any number of faults, retries and restarts: UploadFiles,   *)
(* and RagIndexing as MCUploads instantiates it.                           *)
(***************************************************************************)
EXTENDS MCUploads, FiniteSetTheorems, TLAPS

(* The steps of Next, by what they leave alone                             *)

\* No step of the API touches the DAG's tasks, the archive or the faults, ...
ApiStep(f) ==
  \/ SaveBegin(f) \/ SaveEnd(f) \/ Start(f) \/ ConfirmBegin(f) \/ ConfirmEnd(f) \/ Drop(f)

\* ... nor onboards a file for it.
LEMMA ApiStepFrame ==
  ASSUME TypeOK, NEW f \in Files, ApiStep(f)
  PROVE  /\ UNCHANGED <<task, archive, running, faults>>
         /\ datasets' \subseteq datasets \union {NewDataset(f, "api")}
         /\ datasets \subseteq datasets'
  BY DEF ApiStep, SaveBegin, SaveEnd, Start, ConfirmBegin, ConfirmEnd, Drop, dag

-----------------------------------------------------------------------------
(* Types                                                                   *)

Typed == TypeOK /\ IsFiniteSet(datasets)

LEMMA NewDatasetType ==
  ASSUME IsFiniteSet(datasets), NEW f \in Files, NEW by \in {"api", "dag"}
  PROVE  NewDataset(f, by) \in Dataset /\ NewDataset(f, by).id \in Nat
<1>1. Cardinality(datasets) \in Nat
  BY FS_CardinalityType
<1> QED BY <1>1 DEF NewDataset, Dataset

LEMMA FilesTypedInit == Init => Typed
<1>1. Init => TypeOK
  <2>1. Init => running \in BOOLEAN
    BY Zenon DEF Init
  <2> QED BY <2>1, UploadAssumption DEF Init, TypeOK, Content, ApiSteps, TaskSteps
<1>2. Init => IsFiniteSet(datasets)
  BY FS_EmptySet DEF Init
<1> QED BY <1>1, <1>2 DEF Typed

LEMMA FilesTypedStep == Typed /\ [Next]_vars => Typed'
<1> SUFFICES ASSUME Typed, [Next]_vars PROVE Typed'
  OBVIOUS
<1> USE UploadAssumption DEF Typed, TypeOK, Content, ApiSteps, TaskSteps
<1>1. ASSUME NEW f \in Files, SaveBegin(f) PROVE Typed'
  BY <1>1 DEF SaveBegin, dag
<1>2. ASSUME NEW f \in Files, SaveEnd(f) PROVE Typed'
  BY <1>2 DEF SaveEnd, dag
<1>3. ASSUME NEW f \in Files, Start(f) PROVE Typed'
  <2>1. IsFiniteSet(datasets')
    BY <1>3, FS_AddElement DEF Start
  <2> QED BY <1>3, <2>1, NewDatasetType DEF Start, dag
<1>4. ASSUME NEW f \in Files, ConfirmBegin(f) PROVE Typed'
  BY <1>4 DEF ConfirmBegin, dag
<1>5. ASSUME NEW f \in Files, ConfirmEnd(f) PROVE Typed'
  BY <1>5 DEF ConfirmEnd, dag, Dataset
<1>6. ASSUME NEW f \in Files, Drop(f) PROVE Typed'
  BY <1>6 DEF Drop, dag
<1>7. ASSUME NEW f \in Files, Ingest(f) \/ IngestRaises(f) PROVE Typed'
  <2>1. CASE Ingest(f)
    <3>1. IsFiniteSet(datasets')
      BY <2>1, FS_AddElement DEF Ingest
    <3> QED BY <2>1, <3>1, NewDatasetType DEF Ingest
  <2>2. CASE IngestRaises(f)
    BY <2>2 DEF IngestRaises, Retry
  <2> QED BY <1>7, <2>1, <2>2
<1>8. ASSUME NEW f \in Files, Report(f) PROVE Typed'
  BY <1>8 DEF Report
<1>9. ASSUME NEW f \in Files, LoseWorker(f) PROVE Typed'
  BY <1>9 DEF LoseWorker, Retry
<1>10. ASSUME NEW f \in Files, ArchiveCopy(f) PROVE Typed'
  BY <1>10 DEF ArchiveCopy
<1>11. ASSUME NEW f \in Files, ArchiveRemove(f) PROVE Typed'
  BY <1>11 DEF ArchiveRemove
<1>12. ASSUME NEW f \in Files, ArchiveFault(f) PROVE Typed'
  BY <1>12 DEF ArchiveFault
<1>13. ASSUME NEW x \in datasets, Add(x) PROVE Typed'
  BY <1>13 DEF Add, dag, OnDisk, Dataset
<1>14. CASE Discover
  BY <1>14 DEF Discover
<1>15. CASE EndRun
  BY <1>15 DEF EndRun
<1>16. CASE UNCHANGED vars
  BY <1>16 DEF vars
<1> QED BY <1>1, <1>2, <1>3, <1>4, <1>5, <1>6, <1>7, <1>8, <1>9, <1>10, <1>11,
           <1>12, <1>13, <1>14, <1>15, <1>16 DEF Next, Scheduled

LEMMA FilesTyped == Spec => []Typed
  BY FilesTypedInit, FilesTypedStep, PTL DEF Spec

-----------------------------------------------------------------------------
(* The shared directory                                                    *)

\* What the step of one task adds to the onboardings of a file
LEMMA OnboardingsAfter ==
  ASSUME Typed, NEW f \in Files, NEW g \in Files, Ingest(f)
  PROVE  Onboardings(g)' =
           Onboardings(g) \union (IF g = f THEN {NewDataset(f, "dag")} ELSE {})
  BY DEF Ingest, Onboardings, NewDataset

\* The API's steps onboard nothing for the DAG.
LEMMA ApiOnboardsNothing ==
  ASSUME Typed, NEW f \in Files, ApiStep(f), NEW g \in Files
  PROVE  Onboardings(g)' = Onboardings(g)
  BY ApiStepFrame DEF Onboardings, NewDataset, Typed

\* The DAG removes a file last: a file that has been put into the directory is
\* there, or in the archive and onboarded, whatever worker is lost and whatever
\* move refused (ingestion_dag.ingest_file, archive_file).
LEMMA KeptStep ==
  ASSUME Typed, TaskHasDone, KeptUntilIngested, [Next]_vars
  PROVE  (TaskHasDone /\ KeptUntilIngested)'
<1> DEFINE Kept == TaskHasDone /\ KeptUntilIngested
<1> USE DEF TaskHasDone, KeptUntilIngested, OnDisk, Typed, TypeOK
<1>1. ASSUME NEW f \in Files, ApiStep(f) PROVE Kept'
  <2>1. UNCHANGED <<task, archive, running>> /\ \A g \in Files : Onboardings(g)' = Onboardings(g)
    BY <1>1, ApiStepFrame, ApiOnboardsNothing
  <2>2. \A g \in Files : api'[g] # "new" /\ disk'[g] = "absent" => api[g] # "new" /\ disk[g] = "absent"
    <3>1. CASE SaveBegin(f) \/ Drop(f)
      BY <3>1 DEF SaveBegin, Drop
    <3>2. CASE SaveEnd(f)
      BY <3>2 DEF SaveEnd
    <3>3. CASE Start(f) \/ ConfirmBegin(f) \/ ConfirmEnd(f)
      BY <3>3 DEF Start, ConfirmBegin, ConfirmEnd
    <3> QED BY <1>1, <3>1, <3>2, <3>3 DEF ApiStep
  <2> QED BY <2>1, <2>2 DEF Onboardings
<1>2. ASSUME NEW f \in Files, Ingest(f) PROVE Kept'
  <2>1. /\ Onboardings(f)' # {}
        /\ \A g \in Files : Onboardings(g) # {} => Onboardings(g)' # {}
    <3>1. ASSUME NEW g \in Files
          PROVE  Onboardings(g)' =
                   Onboardings(g) \union (IF g = f THEN {NewDataset(f, "dag")} ELSE {})
      BY <1>2, OnboardingsAfter
    <3> QED BY ONLY <3>1, f \in Files
  <2>2. /\ UNCHANGED <<disk, archive, api, running>> /\ task[f] = "queued"
        /\ task' = [task EXCEPT ![f] = "committed"]
    BY <1>2 DEF Ingest
  <2>3. TaskHasDone'
    BY <2>1, <2>2
  <2> QED BY <2>1, <2>2, <2>3 DEF Onboardings
<1>3. ASSUME NEW f \in Files,
             IngestRaises(f) \/ Report(f) \/ LoseWorker(f) \/ ArchiveFault(f)
      PROVE  Kept'
  BY <1>3 DEF IngestRaises, Report, LoseWorker, Retry, ArchiveFault, Onboardings
<1>4. ASSUME NEW f \in Files, ArchiveCopy(f) PROVE Kept'
  <2>1. \A g \in Files : Onboardings(g)' = Onboardings(g)
    BY <1>4 DEF ArchiveCopy, Onboardings
  <2>2. /\ archive' = archive \union {<<f, disk[f]>>}
        /\ task[f] = "reported" /\ task' = [task EXCEPT ![f] = "copied"]
        /\ UNCHANGED <<disk, datasets, api, running>>
    BY <1>4 DEF ArchiveCopy
  <2>3. <<f, disk[f]>> \in archive' /\ <<f, disk[f]>>[1] = f
    BY <2>2
  <2>4. archive \subseteq archive'
    BY <2>2
  <2>5. ASSUME NEW g \in Files
        PROVE  /\ ~ running' => task'[g] = "none"
               /\ task'[g] \in {"committed", "reported", "copied"} => Onboardings(g)' # {}
               /\ task'[g] = "copied" => \E copy \in archive' : copy[1] = g
    <3>1. CASE g = f
      <4>1. running' /\ Onboardings(f)' # {}
        BY <2>1, <2>2
      <4>2. \E copy \in archive' : copy[1] = f
        BY <2>3
      <4>3. /\ Onboardings(g)' # {}
            /\ \E copy \in archive' : copy[1] = g
        BY ONLY <3>1, <4>1, <4>2
      <4> QED BY <4>1, <4>3
    <3>2. CASE g # f
      <4>1. task'[g] = task[g]
        BY <2>2, <3>2
      <4> QED BY <2>1, <2>2, <2>4, <4>1
    <3> QED BY <3>1, <3>2
  <2>6. ASSUME NEW g \in Files, api'[g] # "new", disk'[g] = "absent"
        PROVE  /\ \E copy \in archive' : copy[1] = g
               /\ \E x \in datasets' : x.file = g /\ x.by = "dag"
    <3>1. PICK copy \in archive : copy[1] = g
      BY <2>2, <2>6
    <3> QED BY <2>2, <2>4, <2>6, <3>1
  <2> QED BY <2>5, <2>6 DEF Onboardings
<1>5. ASSUME NEW f \in Files, ArchiveRemove(f) PROVE Kept'
  BY <1>5 DEF ArchiveRemove, Onboardings
<1>6. ASSUME NEW x \in datasets, Add(x) PROVE Kept'
  BY <1>6 DEF Add, dag, Onboardings
<1>7. CASE Discover \/ EndRun
  BY <1>7 DEF Discover, EndRun, Onboardings
<1>8. CASE UNCHANGED vars
  BY <1>8 DEF vars, Onboardings
<1> QED BY <1>1, <1>2, <1>3, <1>4, <1>5, <1>6, <1>7, <1>8 DEF Next, Scheduled, ApiStep

LEMMA TasksDoTheirWork == Spec => [](TaskHasDone /\ KeptUntilIngested)
<1>1. Init => TaskHasDone /\ KeptUntilIngested
  BY DEF Init, TaskHasDone, KeptUntilIngested
<1>2. Typed /\ TaskHasDone /\ KeptUntilIngested /\ [Next]_vars
        => (TaskHasDone /\ KeptUntilIngested)'
  BY KeptStep
<1> QED BY <1>1, <1>2, FilesTyped, PTL DEF Spec

\* A file that has been put into the directory leaves it only once the DAG has
\* onboarded and archived it.
THEOREM NoFileIsLost == Spec => []KeptUntilIngested
  BY TasksDoTheirWork, PTL

-----------------------------------------------------------------------------
(* Onboarded again                                                         *)

\* A set of onboardings is finite, and one more makes it larger by one at most.
LEMMA OnboardingsAreFinite ==
  ASSUME Typed, NEW g
  PROVE  /\ IsFiniteSet(Onboardings(g))
         /\ Cardinality(Onboardings(g)) \in Nat
         /\ \A x : /\ Cardinality(Onboardings(g) \union {x}) \in Nat
                  /\ Cardinality(Onboardings(g) \union {x}) <= 1 + Cardinality(Onboardings(g))
<1>1. Onboardings(g) \in SUBSET datasets
  BY DEF Onboardings
<1>2. IsFiniteSet(Onboardings(g))
  BY <1>1, FS_Subset DEF Typed
<1>3. Cardinality(Onboardings(g)) \in Nat
  BY <1>2, FS_CardinalityType
<1>4. ASSUME NEW x
      PROVE  /\ Cardinality(Onboardings(g) \union {x}) \in Nat
             /\ Cardinality(Onboardings(g) \union {x}) <= 1 + Cardinality(Onboardings(g))
  BY <1>2, <1>3, FS_AddElement
<1> QED BY <1>2, <1>3, <1>4

\* The step from one queue to the next, or out of it, of a file that is taken
\* up again only after a fault
LEMMA AgainStep ==
  ASSUME Typed, AgainAfterFaultOnly, TaskHasDone, [Next]_vars
  PROVE  AgainAfterFaultOnly'
<1> DEFINE N(g) == Cardinality(Onboardings(g))
           New(g) == api[g] = "new" => disk[g] = "absent" /\ Onboardings(g) = {}
           Again(g) == disk[g] # "absent" /\ task[g] \in {"none", "queued", "failed", "over"}
           Counted(g) == N(g) <= 1 + faults /\ (Again(g) => N(g) <= faults)
<1>1. faults \in Nat /\ faults' \in Nat
  BY FilesTypedStep, UploadAssumption DEF Typed, TypeOK
<1>2. \A g \in Files : N(g) \in Nat
  BY OnboardingsAreFinite
<1>3. \A g \in Files : New(g) /\ Counted(g)
  BY DEF AgainAfterFaultOnly, OnDisk
<1>4. ASSUME \A g \in Files : New(g)' /\ Counted(g)' PROVE AgainAfterFaultOnly'
  BY <1>4 DEF AgainAfterFaultOnly, OnDisk
<1>5. ASSUME NEW f \in Files, ApiStep(f) PROVE AgainAfterFaultOnly'
  <2> SUFFICES ASSUME NEW g \in Files PROVE New(g)' /\ Counted(g)'
    BY <1>4
  <2>1. Onboardings(g)' = Onboardings(g) /\ task' = task /\ faults' = faults
    BY <1>5, ApiOnboardsNothing, ApiStepFrame DEF Typed
  <2>2. /\ api'[g] = "new" => api[g] = "new" /\ disk'[g] = disk[g]
        /\ disk'[g] # "absent" => disk[g] # "absent" \/ api[g] = "new"
    BY <1>5 DEF ApiStep, SaveBegin, SaveEnd, Start, ConfirmBegin, ConfirmEnd, Drop, OnDisk,
                Typed, TypeOK
  <2>3. Onboardings(g) = {} => N(g) = 0
    BY FS_EmptySet
  <2> QED BY <1>1, <1>3, <2>1, <2>2, <2>3
<1>6. ASSUME NEW f \in Files, Ingest(f) PROVE AgainAfterFaultOnly'
  <2> SUFFICES ASSUME NEW g \in Files PROVE New(g)' /\ Counted(g)'
    BY <1>4
  <2>1. /\ task[f] = "queued" /\ disk[f] # "absent"
        /\ task' = [task EXCEPT ![f] = "committed"]
        /\ UNCHANGED <<disk, api, faults>>
    BY <1>6 DEF Ingest, OnDisk
  <2>2. CASE g = f
    <3>1. Onboardings(f)' = Onboardings(f) \union {NewDataset(f, "dag")}
      BY <1>6, OnboardingsAfter
    <3>2. /\ Cardinality(Onboardings(f) \union {NewDataset(f, "dag")}) <= 1 + N(f)
          /\ Cardinality(Onboardings(f) \union {NewDataset(f, "dag")}) \in Nat
      BY OnboardingsAreFinite
    <3>4. N(f)' <= 1 + N(f) /\ N(f)' \in Nat
      BY <3>1, <3>2
    <3>3. N(f) <= faults /\ task'[f] = "committed"
      BY <1>3, <2>1 DEF Typed, TypeOK
    <3>5. New(g)'
      BY <1>3, <2>1, <2>2
    <3>6. ~ Again(g)'
      BY <2>2, <3>3
    <3> QED BY <1>1, <1>2, <2>1, <2>2, <3>3, <3>4, <3>5, <3>6
  <2>3. CASE g # f
    <3>1. Onboardings(g)' = Onboardings(g) /\ task'[g] = task[g]
      BY <1>6, <2>1, <2>3, OnboardingsAfter DEF Typed, TypeOK
    <3> QED BY <1>3, <2>1, <3>1
  <2> QED BY <2>2, <2>3
<1>7. ASSUME datasets' = datasets, api' = api, faults' \in {faults, faults + 1},
             \A g \in Files : disk'[g] # "absent" => disk[g] # "absent",
             \A g \in Files : Again(g)' => Again(g) \/ faults' = faults + 1
      PROVE  AgainAfterFaultOnly'
  <2> SUFFICES ASSUME NEW g \in Files PROVE New(g)' /\ Counted(g)'
    BY <1>4
  <2>1. Onboardings(g)' = Onboardings(g)
    BY <1>7 DEF Onboardings
  <2> QED BY <1>1, <1>2, <1>3, <1>7, <2>1
<1>8. ASSUME NEW f \in Files,
             \/ IngestRaises(f) \/ Report(f) \/ LoseWorker(f)
             \/ ArchiveCopy(f) \/ ArchiveRemove(f) \/ ArchiveFault(f)
      PROVE  AgainAfterFaultOnly'
  <2> USE DEF Typed, TypeOK
  <2>1. CASE Report(f) \/ ArchiveCopy(f)
    BY <1>7, <2>1 DEF Report, ArchiveCopy
  <2>2. CASE LoseWorker(f)
    BY <1>7, <2>2 DEF LoseWorker, Retry
  <2>3. CASE ArchiveRemove(f)
    BY <1>7, <2>3 DEF ArchiveRemove
  <2>4. CASE ArchiveFault(f)
    BY <1>7, <2>4 DEF ArchiveFault
  <2>5. CASE IngestRaises(f)
    BY <1>7, <2>5 DEF IngestRaises, Retry
  <2> QED BY <1>8, <2>1, <2>2, <2>3, <2>4, <2>5
<1>9. ASSUME NEW x \in datasets, Add(x) PROVE AgainAfterFaultOnly'
  BY <1>7, <1>9 DEF Add, dag
<1>10. CASE Discover \/ EndRun
  <2>1. CASE Discover
    BY <1>7, <2>1 DEF Discover, TaskHasDone, OnDisk, Typed, TypeOK
  <2>2. CASE EndRun
    BY <1>7, <2>2 DEF EndRun, Typed, TypeOK
  <2> QED BY <1>10, <2>1, <2>2
<1>11. CASE UNCHANGED vars
  BY <1>7, <1>11 DEF vars
<1> QED BY <1>5, <1>6, <1>8, <1>9, <1>10, <1>11 DEF Next, Scheduled, ApiStep

\* The DAG onboards a file once, and once more for each lost worker or refused
\* move at most: a run that meets no fault leaves no file it has onboarded
\* (ingestion_dag.discover_files, ingest_file, archive_file).
THEOREM OncePlusFaults == Spec => []AtMostOnceMorePerFault
<1>1. Init => AgainAfterFaultOnly
  <2>1. Init => \A g \in Files : Onboardings(g) = {}
    BY DEF Init, Onboardings
  <2> QED BY <2>1, FS_EmptySet DEF Init, AgainAfterFaultOnly, OnDisk
<1>2. Typed /\ TaskHasDone /\ AgainAfterFaultOnly /\ [Next]_vars => AgainAfterFaultOnly'
  BY AgainStep
<1>3. AgainAfterFaultOnly => AtMostOnceMorePerFault
  BY DEF AgainAfterFaultOnly, AtMostOnceMorePerFault, Onboardings
<1> QED BY <1>1, <1>2, <1>3, FilesTyped, TasksDoTheirWork, PTL DEF Spec

-----------------------------------------------------------------------------
(* Documents                                                               *)

DocumentsInv ==
  Rag!TypeOK /\ Rag!NoOrphans /\ Rag!IndexedIsComplete /\ Rag!StoredOrDeleted

\* A document is indexed only by its task, which has stored the chunks it finds;
\* and whatever deletes its row deletes them with it.
LEMMA DocumentStep ==
  ASSUME DocumentsInv, Rag!Next \/ UNCHANGED Rag!vars
  PROVE  DocumentsInv'
<1> USE DocumentsAssumption DEF DocumentsInv, Rag!TypeOK, Rag!NoOrphans,
      Rag!IndexedIsComplete, Rag!StoredOrDeleted, Rag!Docs, Rag!Statuses, Rag!Steps, Rag!All,
      Rag!requests, Rag!Go, Rag!SetStatus, Rag!SetCount, Rag!Fault
<1>1. ASSUME NEW u \in DocumentUploads, Rag!Register(u) PROVE DocumentsInv'
  <2>1. <<u, accepted[u] + 1>> \in Rag!Docs /\ accepted'[u] \in 0 .. Size
    BY <1>1 DEF Rag!Register
  <2> QED BY <1>1, <2>1 DEF Rag!Register
<1>2. ASSUME NEW u \in DocumentUploads, Rag!RegisterFails(u) PROVE DocumentsInv'
  BY <1>2 DEF Rag!RegisterFails
<1>3. ASSUME NEW u \in DocumentUploads, Rag!Respond(u) PROVE DocumentsInv'
  BY <1>3 DEF Rag!Respond
<1>4. ASSUME NEW d \in Rag!Docs, Rag!Begin(d) \/ Rag!BeginFails(d) PROVE DocumentsInv'
  BY <1>4 DEF Rag!Begin, Rag!BeginFails
<1>5. ASSUME NEW d \in Rag!Docs, Rag!Prepare(d) \/ Rag!PrepareRaises(d) PROVE DocumentsInv'
  BY <1>5 DEF Rag!Prepare, Rag!PrepareRaises
<1>6. ASSUME NEW d \in Rag!Docs, Rag!NoText(d) PROVE DocumentsInv'
  BY <1>6 DEF Rag!NoText
<1>7. ASSUME NEW d \in Rag!Docs, Rag!Store(d) PROVE DocumentsInv'
  BY <1>7, SMTT(20) DEF Rag!Store
<1>8. ASSUME NEW d \in Rag!Docs, Rag!MarkIndexed(d) PROVE DocumentsInv'
  BY <1>8, SMTT(20) DEF Rag!MarkIndexed
<1>9. ASSUME NEW d \in Rag!Docs, Rag!StepRaises(d) PROVE DocumentsInv'
  BY <1>9 DEF Rag!StepRaises
<1>10. ASSUME NEW d \in Rag!Docs, Rag!RecordFailure(d) PROVE DocumentsInv'
  BY <1>10, SMTT(20) DEF Rag!RecordFailure
<1>14. ASSUME NEW d \in Rag!Docs, Rag!RecordFails(d) PROVE DocumentsInv'
  BY <1>14, SMTT(20) DEF Rag!RecordFails
<1>11. ASSUME NEW d \in Rag!Docs, Rag!Delete(d) PROVE DocumentsInv'
  BY <1>11 DEF Rag!Delete
<1>12. CASE Rag!Crash
  BY <1>12 DEF Rag!Crash
<1>13. CASE UNCHANGED Rag!vars
  BY <1>13 DEF Rag!vars
<1> QED BY <1>1, <1>2, <1>3, <1>4, <1>5, <1>6, <1>7, <1>8, <1>9, <1>10, <1>11, <1>12,
           <1>13, <1>14 DEF Rag!Next, Rag!Index

LEMMA DocumentsAreKept == Rag!Spec => []DocumentsInv
<1>1. Rag!Init => DocumentsInv
  BY DocumentsAssumption DEF Rag!Init, DocumentsInv, Rag!TypeOK, Rag!NoOrphans,
       Rag!IndexedIsComplete, Rag!StoredOrDeleted, Rag!Docs, Rag!Statuses, Rag!Steps, Rag!All
<1>2. DocumentsInv /\ [Rag!Next]_(Rag!vars) => DocumentsInv'
  BY DocumentStep
<1> QED BY <1>1, <1>2, PTL DEF Rag!Spec

\* A document the list calls indexed has all its chunks stored, whatever failed,
\* restarted or was deleted on the way (pipeline.index_document, _index_task).
THEOREM IndexedDocumentsAreComplete == Rag!Spec => []Rag!IndexedIsComplete
  BY DocumentsAreKept, PTL DEF DocumentsInv

\* A deleted document leaves no chunk a search could find (vector_store's
\* foreign keys).
THEOREM DeletedDocumentsLeaveNothing == Rag!Spec => []Rag!NoOrphans
  BY DocumentsAreKept, PTL DEF DocumentsInv

-----------------------------------------------------------------------------
(* The life of a document                                                  *)

\* As long as a document's task is at it, nobody but the deletion has settled it.
LEMMA LifeStep ==
  ASSUME DocumentsInv, Rag!WorkedOnOnce, Rag!Next \/ UNCHANGED Rag!vars
  PROVE  Rag!WorkedOnOnce'
<1> USE DocumentsAssumption DEF DocumentsInv, Rag!WorkedOnOnce, Rag!InWork, Rag!TypeOK, Rag!Docs,
      Rag!Statuses, Rag!Steps, Rag!requests, Rag!Go, Rag!SetStatus
<1>1. ASSUME NEW u \in DocumentUploads, Rag!Register(u) PROVE Rag!WorkedOnOnce'
  <2>1. <<u, accepted[u] + 1>> \in Rag!Docs /\ accepted'[u] = accepted[u] + 1
    BY <1>1 DEF Rag!Register
  <2> QED BY <1>1, <2>1 DEF Rag!Register
<1>2. ASSUME NEW u \in DocumentUploads, Rag!RegisterFails(u) \/ Rag!Respond(u)
      PROVE  Rag!WorkedOnOnce'
  BY <1>2 DEF Rag!RegisterFails, Rag!Respond
<1>3. ASSUME NEW d \in Rag!Docs, Rag!Begin(d) PROVE Rag!WorkedOnOnce'
  BY <1>3 DEF Rag!Begin
<1>4. ASSUME NEW d \in Rag!Docs, Rag!BeginFails(d) \/ Rag!RecordFails(d) PROVE Rag!WorkedOnOnce'
  BY <1>4 DEF Rag!BeginFails, Rag!RecordFails
<1>5. ASSUME NEW d \in Rag!Docs, Rag!Prepare(d) \/ Rag!PrepareRaises(d) \/ Rag!StepRaises(d)
      PROVE  Rag!WorkedOnOnce'
  BY <1>5 DEF Rag!Prepare, Rag!PrepareRaises, Rag!StepRaises
<1>6. ASSUME NEW d \in Rag!Docs, Rag!Store(d) PROVE Rag!WorkedOnOnce'
  BY <1>6, SMTT(20) DEF Rag!Store
<1>7. ASSUME NEW d \in Rag!Docs, Rag!NoText(d) PROVE Rag!WorkedOnOnce'
  BY <1>7 DEF Rag!NoText
<1>8. ASSUME NEW d \in Rag!Docs, Rag!MarkIndexed(d) PROVE Rag!WorkedOnOnce'
  BY <1>8 DEF Rag!MarkIndexed
<1>9. ASSUME NEW d \in Rag!Docs, Rag!RecordFailure(d) PROVE Rag!WorkedOnOnce'
  BY <1>9 DEF Rag!RecordFailure
<1>10. ASSUME NEW d \in Rag!Docs, Rag!Delete(d) PROVE Rag!WorkedOnOnce'
  BY <1>10 DEF Rag!Delete
<1>11. CASE Rag!Crash
  BY <1>11 DEF Rag!Crash
<1>12. CASE UNCHANGED Rag!vars
  BY <1>12 DEF Rag!vars
<1> QED BY <1>1, <1>2, <1>3, <1>4, <1>5, <1>6, <1>7, <1>8, <1>9, <1>10, <1>11, <1>12
        DEF Rag!Next, Rag!Index

\* The entries as a function, and a step that changes that of one document
entries == [d \in Rag!Docs |-> Rag!Entry(d)]

LEMMA EntryStep ==
  ASSUME NEW d \in Rag!Docs, NEW from, NEW to, Rag!Entry(d) \in from, Rag!Entry(d)' = to,
         \A other \in Rag!Docs : other # d => Rag!Entry(other)' = Rag!Entry(other)
  PROVE  Library!Becomes(d, from, to)
<1>1. entries[d] \in from
  BY DEF entries
<1>2. entries' = [entries EXCEPT ![d] = to]
  BY DEF entries
<1> QED BY <1>1, <1>2 DEF entries, Library!Becomes

LEMMA EntriesStay ==
  ASSUME \A d \in Rag!Docs : Rag!Entry(d)' = Rag!Entry(d), stored' = stored
  PROVE  UNCHANGED <<entries, stored>>
  BY DEF entries

\* What the list says of a document follows from its row and its task.
LEMMA OthersStay ==
  ASSUME NEW d \in Rag!Docs,
         \A other \in Rag!Docs : other # d =>
           /\ status'[other] = status[other] /\ indexing'[other] = indexing[other]
           /\ count'[other] = count[other]
  PROVE  \A other \in Rag!Docs : other # d => Rag!Entry(other)' = Rag!Entry(other)
  BY DEF Rag!Entry

LEMMA LibraryStep ==
  ASSUME DocumentsInv, Rag!WorkedOnOnce, Rag!Next \/ UNCHANGED Rag!vars
  PROVE  Library!Next \/ UNCHANGED <<entries, stored>>
<1> DEFINE Goal == Library!Next \/ UNCHANGED <<entries, stored>>
<1> USE DocumentsAssumption DEF DocumentsInv, Rag!WorkedOnOnce, Rag!InWork, Rag!TypeOK, Rag!Statuses,
      Rag!Steps, Rag!requests, Rag!Go, Rag!SetStatus
<1>1. ASSUME NEW u \in DocumentUploads, Rag!Register(u) PROVE Goal
  <2>0. PICK d \in Rag!Docs : d = <<u, accepted[u] + 1>>
    BY <1>1 DEF Rag!Register, Rag!Docs
  <2>1. indexing[d] = "none" /\ status[d] = "none"
    BY <2>0
  <2>2. /\ status' = [status EXCEPT ![d] = "pending"] /\ indexing' = [indexing EXCEPT ![d] = "queued"]
        /\ stored' = stored /\ count' = count
    BY <1>1, <2>0 DEF Rag!Register
  <2>3. Rag!Entry(d) \in {"absent"} /\ Rag!Entry(d)' = "working"
    BY <2>1, <2>2 DEF Rag!Entry
  <2>4. \A other \in Rag!Docs : other # d => Rag!Entry(other)' = Rag!Entry(other)
    BY <2>1, <2>2, OthersStay
  <2>5. Library!Becomes(d, {"absent"}, "working")
    BY <2>1, <2>3, <2>4, EntryStep
  <2> QED BY <2>1, <2>2, <2>5 DEF Library!Accept, Library!Next
<1>2. ASSUME stored' = stored, \A d \in Rag!Docs : Rag!Entry(d)' = Rag!Entry(d) PROVE Goal
  BY <1>2, EntriesStay
<1>3. ASSUME NEW u \in DocumentUploads, Rag!RegisterFails(u) \/ Rag!Respond(u) PROVE Goal
  BY <1>2, <1>3 DEF Rag!RegisterFails, Rag!Respond, Rag!Entry
\* The steps of a task that do not settle its document
<1>4. ASSUME NEW d \in Rag!Docs, NEW step \in {"begun", "prepared", "raised", "over", "stored"},
             indexing[d] # "none",
             indexing' = [indexing EXCEPT ![d] = step],
             status' = [status EXCEPT ![d] = status'[d]], count' = count,
             \/ status'[d] = status[d]
             \/ status'[d] = "processing" /\ status[d] \in {"pending", "processing"}
      PROVE  \A other \in Rag!Docs : Rag!Entry(other)' = Rag!Entry(other)
  BY <1>4 DEF Rag!Entry
<1>5. ASSUME NEW d \in Rag!Docs, Rag!Begin(d) PROVE Goal
  BY <1>2, <1>4, <1>5 DEF Rag!Begin
<1>6. ASSUME NEW d \in Rag!Docs, Rag!BeginFails(d) \/ Rag!RecordFails(d) \/ Rag!Prepare(d)
                                 \/ Rag!PrepareRaises(d) \/ Rag!StepRaises(d)
      PROVE  Goal
  <2>1. status' = status /\ stored' = stored /\ count' = count
    BY <1>6 DEF Rag!BeginFails, Rag!RecordFails, Rag!Prepare, Rag!PrepareRaises, Rag!StepRaises
  <2>2. PICK step \in {"prepared", "raised", "over"} : indexing' = [indexing EXCEPT ![d] = step]
    BY <1>6 DEF Rag!BeginFails, Rag!RecordFails, Rag!Prepare, Rag!PrepareRaises, Rag!StepRaises
  <2>3. indexing[d] # "none"
    BY <1>6 DEF Rag!BeginFails, Rag!RecordFails, Rag!Prepare, Rag!PrepareRaises, Rag!StepRaises
  <2>4. \A other \in Rag!Docs : Rag!Entry(other)' = Rag!Entry(other)
    BY <1>4, <2>1, <2>2, <2>3
  <2> QED BY <1>2, <2>1, <2>4
<1>7. ASSUME NEW d \in Rag!Docs, Rag!Store(d) PROVE Goal
  <2>1. \A other \in Rag!Docs : Rag!Entry(other)' = Rag!Entry(other)
    BY <1>4, <1>7 DEF Rag!Store
  <2>2. CASE status[d] = "none"
    BY <1>2, <1>7, <2>1, <2>2 DEF Rag!Store
  <2>3. CASE status[d] # "none"
    <3>1. stored' = stored \union {d} /\ Rag!Entry(d) = "working"
      BY <1>7, <2>3 DEF Rag!Store, Rag!Entry
    <3>2. entries[d] = "working" /\ UNCHANGED entries
      BY <2>1, <3>1 DEF entries
    <3> QED BY <3>1, <3>2 DEF entries, Library!Store, Library!Next
  <2> QED BY <2>2, <2>3
\* ... and those that do, unless it has been deleted
<1>8. ASSUME NEW d \in Rag!Docs, NEW to \in {"indexed", "failed"}, stored' = stored,
             indexing[d] \in {"begun", "stored", "raised"},
             indexing' = [indexing EXCEPT ![d] = "over"], Rag!SetStatus(d, to),
             count' = [count EXCEPT ![d] = count'[d]],
             status[d] = "none" => count' = count,
             to = "indexed" /\ status[d] # "none" => d \in stored /\ count'[d] = Rag!All
      PROVE  Goal
  <2>1. CASE status[d] = "none"
    <3>1. \A other \in Rag!Docs : Rag!Entry(other)' = Rag!Entry(other)
      BY <1>8, <2>1 DEF Rag!Entry
    <3> QED BY <1>2, <1>8, <3>1
  <2>2. CASE status[d] # "none"
    <3>1. Rag!Entry(d) \in {"working"} /\ Rag!Entry(d)' = to
      BY <1>8, <2>2 DEF Rag!Entry
    <3>2. \A other \in Rag!Docs : other # d => Rag!Entry(other)' = Rag!Entry(other)
      BY <1>8, OthersStay
    <3>3. Library!Becomes(d, {"working"}, to)
      BY <3>1, <3>2, EntryStep
    <3> QED BY <1>8, <2>2, <3>3 DEF Library!Succeed, Library!Fail, Library!Next
  <2> QED BY <2>1, <2>2
<1>9. ASSUME NEW d \in Rag!Docs, Rag!NoText(d) PROVE Goal
  BY <1>8, <1>9 DEF Rag!NoText, Rag!SetCount
<1>10. ASSUME NEW d \in Rag!Docs, Rag!MarkIndexed(d) PROVE Goal
  BY <1>8, <1>10 DEF Rag!MarkIndexed, Rag!SetCount, Rag!StoredOrDeleted
<1>11. ASSUME NEW d \in Rag!Docs, Rag!RecordFailure(d) PROVE Goal
  BY <1>8, <1>11 DEF Rag!RecordFailure
<1>12. ASSUME NEW d \in Rag!Docs, Rag!Delete(d) PROVE Goal
  <2>1. indexing[d] # "none"
    BY <1>12 DEF Rag!Delete, Rag!Docs
  <2>2. Rag!Entry(d) \in {"working", "indexed", "failed"} /\ Rag!Entry(d)' = "deleted"
    BY <1>12, <2>1 DEF Rag!Delete, Rag!Entry, Rag!IndexedIsComplete
  <2>3. \A other \in Rag!Docs : other # d => Rag!Entry(other)' = Rag!Entry(other)
    BY <1>12, OthersStay DEF Rag!Delete
  <2>4. Library!Becomes(d, {"working", "indexed", "failed"}, "deleted")
    BY <2>2, <2>3, EntryStep
  <2> QED BY <1>12, <2>4 DEF Rag!Delete, Library!Delete, Library!Next
<1>13. CASE Rag!Crash
  BY <1>2, <1>13 DEF Rag!Crash, Rag!Entry
<1>14. CASE UNCHANGED Rag!vars
  BY <1>2, <1>14 DEF Rag!vars, Rag!Entry
<1> QED BY <1>1, <1>3, <1>5, <1>6, <1>7, <1>9, <1>10, <1>11, <1>12, <1>13, <1>14
        DEF Rag!Next, Rag!Index

\* A document's life, as those who list, search and delete see it, is that of the
\* contract: it ends once, is found from its store to its deletion at most, and
\* does not come back (pipeline.index_document, remove_document).
THEOREM DocumentsAreLivedOnce == Rag!Spec => DocumentsLiveOnce
<1>1. Rag!Init => Rag!WorkedOnOnce
  BY DocumentsAssumption DEF Rag!Init, Rag!WorkedOnOnce, Rag!InWork, Rag!Docs
<1>2. DocumentsInv /\ Rag!WorkedOnOnce /\ [Rag!Next]_(Rag!vars) => Rag!WorkedOnOnce'
  BY LifeStep
<1>3. Rag!Init => Library!Init
  BY DEF Rag!Init, Library!Init, Rag!Entry
<1>4. DocumentsInv /\ Rag!WorkedOnOnce /\ [Rag!Next]_(Rag!vars) => [Library!Next]_<<entries, stored>>
  BY LibraryStep
<1> QED BY <1>1, <1>2, <1>3, <1>4, DocumentsAreKept, PTL
        DEF Rag!Spec, Library!Spec, DocumentsLiveOnce, entries
=============================================================================
