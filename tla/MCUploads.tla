----------------------------- MODULE MCUploads -----------------------------
(* The two kinds of uploads, for TLC: two files in the shared directory, and   *)
(* two requests of up to two documents each.  They share neither a file nor a  *)
(* row, so a behaviour here is of one of the two while the other waits.        *)
EXTENDS UploadFiles

CONSTANTS
  DocumentUploads,   \* the requests of RagIndexing
  Size, MaxDocumentFaults, MaxCrashes

ASSUME DocumentsAssumption == Size \in Nat /\ MaxDocumentFaults \in Nat /\ MaxCrashes \in Nat

VARIABLES kind, upload, accepted, status, count, stored, indexing, documentFaults, crashes
documents == <<upload, accepted, status, count, stored, indexing, documentFaults, crashes>>

Rag == INSTANCE RagIndexing WITH
  Uploads <- DocumentUploads, MaxFaults <- MaxDocumentFaults,
  task <- indexing, faults <- documentFaults

(* Bounds: a column added later, or a restart, beside at most one fault *)
AddsCount == Cardinality(added') + faults' <= MaxFaults
CrashesCount == documentFaults' + crashes' <= MaxDocumentFaults

MCInit == Init /\ Rag!Init /\ kind \in {"files", "documents"}
MCNext ==
  \/ kind = "files" /\ Next /\ AddsCount /\ UNCHANGED <<kind, documents>>
  \/ kind = "documents" /\ Rag!Next /\ CrashesCount /\ UNCHANGED <<kind, vars>>

(* Nothing of the one that waits is ever enabled, so that its fairness, which  *)
(* is that of its own FairSpec, asks nothing of the other.                     *)
MCSpec == MCInit /\ [][MCNext]_<<kind, vars, documents>> /\ Fairness /\ Rag!Fairness

Library == INSTANCE LibraryContract WITH
  Docs <- Rag!Docs, entry <- [d \in Rag!Docs |-> Rag!Entry(d)], found <- stored

(* A document's life, as users see it, is that of the contract: it ends once,   *)
(* indexed with all its chunks or failed, is found only between its store and   *)
(* its deletion, and a deleted one never comes back, whatever its task still    *)
(* does and whatever fails or is restarted on the way                           *)
(* (pipeline.index_document, remove_document).                                  *)
DocumentsLiveOnce == Library!Spec

(* Unless the database fails or the API restarts, every accepted document is    *)
(* indexed, failed or deleted in the end, whatever the others of its upload do. *)
EveryDocumentSettles == Rag!EveryDocumentSettles
=============================================================================
