-------------------------- MODULE LibraryContract --------------------------
(***************************************************************************)
(* What a document goes through, for those who list, search and delete:    *)
(* it is worked on, ends once, and is deleted once.  What is called        *)
(* indexed is found, nothing that is deleted is, and nothing comes back.   *)
(***************************************************************************)
CONSTANT Docs

VARIABLES
  entry, \* what the list says of each document
  found  \* the documents a search may find

Init == entry = [d \in Docs |-> "absent"] /\ found = {}

Becomes(d, from, to) == entry[d] \in from /\ entry' = [entry EXCEPT ![d] = to]

Accept(d) == Becomes(d, {"absent"}, "working") /\ UNCHANGED found

Store(d) == entry[d] = "working" /\ found' = found \union {d} /\ UNCHANGED entry

Succeed(d) == d \in found /\ Becomes(d, {"working"}, "indexed") /\ UNCHANGED found

\* Its chunks may have been stored before what failed.
Fail(d) == Becomes(d, {"working"}, "failed") /\ UNCHANGED found

Delete(d) == Becomes(d, {"working", "indexed", "failed"}, "deleted") /\ found' = found \ {d}

Next == \E d \in Docs : Accept(d) \/ Store(d) \/ Succeed(d) \/ Fail(d) \/ Delete(d)

Spec == Init /\ [][Next]_<<entry, found>>
=============================================================================
