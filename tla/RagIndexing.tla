---------------------------- MODULE RagIndexing ----------------------------
(***************************************************************************)
(* Documents: an upload registers a row per file, answers, and then        *)
(* indexes the files one after another in a background task; every status  *)
(* change and the store are transactions of their own, and any of them can *)
(* fail.  Documents are listed, searched and deleted meanwhile.            *)
(*                                                                         *)
(* FastAPI is external: it runs the background tasks of a request in their *)
(* order, once the response is out, and not at all when there is none.     *)
(***************************************************************************)
EXTENDS Naturals, FiniteSets

CONSTANTS
  Uploads,    \* the upload requests
  Size,       \* bound on the files of one that are accepted
  MaxFaults,  \* bound on failures of the database
  MaxCrashes  \* bound on restarts of the API

VARIABLES
  upload,   \* the step of each request
  accepted, \* how many files of it have been registered
  status,   \* rag.documents.status, "none" where there is no row
  count,    \* rag.documents.chunk_count: 0, or all of the document's chunks
  stored,   \* the documents with rows in rag.chunks and rag.embeddings
  task,     \* how far index_document has got with each
  faults, crashes

vars == <<upload, accepted, status, count, stored, task, faults, crashes>>
requests == <<upload, accepted>>

Docs == Uploads \X (1 .. Size)
Statuses == {"none", "pending", "processing", "indexed", "failed"}
Steps == {"none", "queued", "begun", "prepared", "stored", "raised", "over", "lost"}
All == 1

Init ==
  /\ upload = [u \in Uploads |-> "open"]
  /\ accepted = [u \in Uploads |-> 0]
  /\ status = [d \in Docs |-> "none"]
  /\ count = [d \in Docs |-> 0]
  /\ stored = {}
  /\ task = [d \in Docs |-> "none"]
  /\ faults = 0 /\ crashes = 0

Fault == faults < MaxFaults /\ faults' = faults + 1

-----------------------------------------------------------------------------
(* upload_documents.  A file that is rejected leaves no trace.             *)

\* register_document commits the row; its task is added to the request's.
Register(u) ==
  /\ upload[u] = "open" /\ accepted[u] < Size
  /\ LET d == <<u, accepted[u] + 1>> IN
       /\ status' = [status EXCEPT ![d] = "pending"]
       /\ task' = [task EXCEPT ![d] = "queued"]
  /\ accepted' = [accepted EXCEPT ![u] = @ + 1]
  /\ UNCHANGED <<upload, count, stored, faults, crashes>>

\* register_document raises: the request fails, and its tasks with it.
RegisterFails(u) ==
  /\ upload[u] = "open" /\ accepted[u] < Size /\ Fault
  /\ upload' = [upload EXCEPT ![u] = "failed"]
  /\ task' = [d \in Docs |-> IF d[1] = u /\ task[d] = "queued" THEN "lost" ELSE task[d]]
  /\ UNCHANGED <<accepted, status, count, stored, crashes>>

Respond(u) ==
  /\ upload[u] = "open" /\ accepted[u] > 0
  /\ upload' = [upload EXCEPT ![u] = "answered"]
  /\ UNCHANGED <<accepted, status, count, stored, task, faults, crashes>>

-----------------------------------------------------------------------------
(* _index_task.  An UPDATE of a row that has been deleted changes nothing. *)

\* Mutant: the status is written as an upsert.
SetStatusUpserts(d, s) == status' = [status EXCEPT ![d] = s]

SetStatus(d, s) == status' = [status EXCEPT ![d] = IF @ = "none" THEN @ ELSE s]
SetCount(d, n) == count' = [count EXCEPT ![d] = IF status[d] = "none" THEN @ ELSE n]
Go(d, from, to) == task[d] = from /\ task' = [task EXCEPT ![d] = to]

\* Mutant: a failure is not caught by the task, and ends the request's others.
TurnAfterSuccess(d) ==
  /\ upload[d[1]] = "answered"
  /\ \A i \in 1 .. d[2] - 1 : status[<<d[1], i>>] = "indexed"

\* The tasks of a request run in order, each whatever became of the others.
Turn(d) ==
  /\ upload[d[1]] = "answered"
  /\ \A i \in 1 .. d[2] - 1 : task[<<d[1], i>>] = "over"

Begin(d) ==
  /\ Turn(d) /\ Go(d, "queued", "begun")
  /\ SetStatus(d, "processing")
  /\ UNCHANGED <<requests, count, stored, faults, crashes>>

BeginFails(d) ==
  /\ Turn(d) /\ Go(d, "queued", "over") /\ Fault
  /\ UNCHANGED <<requests, status, count, stored, crashes>>

\* Extraction, chunking and embedding yield vectors for every chunk, ...
Prepare(d) ==
  /\ Go(d, "begun", "prepared")
  /\ UNCHANGED <<requests, status, count, stored, faults, crashes>>

\* ... or raise, ...
PrepareRaises(d) ==
  /\ Go(d, "begun", "raised")
  /\ UNCHANGED <<requests, status, count, stored, faults, crashes>>

\* ... or find no text, or no chunks in it.
NoText(d) ==
  /\ Go(d, "begun", "over")
  /\ SetStatus(d, "failed") /\ SetCount(d, 0)
  /\ UNCHANGED <<requests, stored, faults, crashes>>

\* store_chunks_with_embeddings: all in one transaction.  The foreign keys
\* refuse the chunks of a document that has been deleted.
Store(d) ==
  /\ IF status[d] # "none"
       THEN Go(d, "prepared", "stored") /\ stored' = stored \union {d}
       ELSE Go(d, "prepared", "raised") /\ UNCHANGED stored
  /\ UNCHANGED <<requests, status, count, faults, crashes>>

MarkIndexed(d) ==
  /\ Go(d, "stored", "over")
  /\ SetStatus(d, "indexed") /\ SetCount(d, All)
  /\ UNCHANGED <<requests, stored, faults, crashes>>

\* The database fails a step of the flow.
StepRaises(d) ==
  /\ \E from \in {"begun", "prepared", "stored"} : Go(d, from, "raised")
  /\ Fault
  /\ UNCHANGED <<requests, status, count, stored, crashes>>

\* The exception is recorded, without a chunk count, ...
RecordFailure(d) ==
  /\ Go(d, "raised", "over")
  /\ SetStatus(d, "failed")
  /\ UNCHANGED <<requests, count, stored, faults, crashes>>

\* ... or cannot be.
RecordFails(d) ==
  /\ Go(d, "raised", "over") /\ Fault
  /\ UNCHANGED <<requests, status, count, stored, crashes>>

-----------------------------------------------------------------------------
\* delete_document: chunks and embeddings go with the row.
Delete(d) ==
  /\ status[d] # "none"
  /\ status' = [status EXCEPT ![d] = "none"]
  /\ count' = [count EXCEPT ![d] = 0]
  /\ stored' = stored \ {d}
  /\ UNCHANGED <<requests, task, faults, crashes>>

\* The API is restarted: what it had in memory is gone, and nothing looks for
\* documents it had not finished.
Crash ==
  /\ crashes < MaxCrashes
  /\ crashes' = crashes + 1
  /\ upload' = [u \in Uploads |-> IF upload[u] = "open" THEN "failed" ELSE upload[u]]
  /\ task' = [d \in Docs |-> IF task[d] \in {"none", "over"} THEN task[d] ELSE "lost"]
  /\ UNCHANGED <<accepted, status, count, stored, faults>>

Index(d) ==
  \/ Begin(d) \/ BeginFails(d) \/ Prepare(d) \/ PrepareRaises(d) \/ NoText(d)
  \/ Store(d) \/ MarkIndexed(d) \/ StepRaises(d) \/ RecordFailure(d) \/ RecordFails(d)

Next ==
  \/ \E u \in Uploads : Register(u) \/ RegisterFails(u) \/ Respond(u)
  \/ \E d \in Docs : Index(d) \/ Delete(d)
  \/ Crash

Spec == Init /\ [][Next]_vars

\* A request is answered, and its tasks run to their end.
Fairness ==
  /\ \A u \in Uploads : WF_vars(Respond(u))
  /\ \A d \in Docs : WF_vars(Index(d))

FairSpec == Spec /\ Fairness

-----------------------------------------------------------------------------
(* Properties                                                              *)

\* Every variable holds a value of its type.
TypeOK ==
  /\ upload \in [Uploads -> {"open", "answered", "failed"}]
  /\ accepted \in [Uploads -> 0 .. Size]
  /\ status \in [Docs -> Statuses]
  /\ count \in [Docs -> {0, All}]
  /\ stored \subseteq Docs
  /\ task \in [Docs -> Steps]
  /\ faults \in 0 .. MaxFaults /\ crashes \in 0 .. MaxCrashes

\* An indexed document can be searched, all of it: neither a failure nor a
\* restart nor a deletion on the way makes the list promise chunks that are
\* not there.
IndexedIsComplete ==
  \A d \in Docs : status[d] = "indexed" => d \in stored /\ count[d] = All

\* No search finds chunks of a document that has been deleted, even when it is
\* deleted while it is being indexed.
NoOrphans == \A d \in stored : status[d] # "none"

\* Why they hold: a task that has stored its chunks finds them when it marks the
\* document, or finds no document.
StoredOrDeleted ==
  \A d \in Docs : task[d] = "stored" /\ status[d] # "none" => d \in stored

\* Why a document ends once: as long as its task is at it, or is yet to come, the
\* list calls it pending or processing, if it still lists it; and a document is
\* listed first when its upload accepts it.
InWork == {"queued", "begun", "prepared", "stored", "raised"}
WorkedOnOnce ==
  /\ \A d \in Docs : task[d] \in InWork => status[d] \in {"none", "pending", "processing"}
  /\ \A d \in Docs : d[2] > accepted[d[1]] => task[d] = "none" /\ status[d] = "none"
  /\ \A d \in Docs : d[2] <= accepted[d[1]] => task[d] # "none"

\* What the list says of a document, and said of one that is gone; the contract has
\* no word for one that is called indexed with other than all its chunks.
Entry(d) ==
  CASE task[d] = "none" -> "absent"
    [] task[d] # "none" /\ status[d] = "none" -> "deleted"
    [] status[d] \in {"pending", "processing"} -> "working"
    [] status[d] = "indexed" /\ count[d] # All -> "short"
    [] OTHER -> status[d]

\* Unless the database fails or the API restarts, every accepted document is
\* indexed, failed or deleted in the end, whatever the others of its upload do.
EveryDocumentSettles ==
  \A d \in Docs : status[d] = "pending" ~>
    status[d] \notin {"pending", "processing"} \/ faults # 0 \/ crashes # 0
=============================================================================
