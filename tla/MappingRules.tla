---------------------------- MODULE MappingRules ----------------------------
(***************************************************************************)
(* What a confirmed mapping means for one file, shared by the onboarding   *)
(* protocol and by the contract it implements: which decisions exist,      *)
(* which columns are collected, and whether validation lets them through.  *)
(***************************************************************************)
CONSTANTS
  Columns,     \* column names of the stored file
  Targets,     \* <<domain, metric_name>> pairs a metric column can be mapped to
  NonNumeric,  \* columns with no numeric value in the file
  PartialLists \* whether a client may leave columns out of a confirmation

Roles     == {"skip", "entity", "unlisted"}
Decisions == Targets \union Roles

ASSUME MappingAssumption ==
  /\ NonNumeric \subseteq Columns
  /\ PartialLists \in BOOLEAN
  /\ Targets \intersect (Roles \union Columns) = {}

MetricColumns(m) == {c \in Columns : m[c] \in Targets}
ActiveColumns(m) == {c \in Columns : m[c] \notin {"skip", "unlisted"}}

\* validate_dataframe: some column is mapped, every metric column has numbers
Valid(m) ==
  /\ ActiveColumns(m) # {}
  /\ MetricColumns(m) \intersect NonNumeric = {}

\* _status_for_role
StatusFor(decision) == IF decision = "skip" THEN "skipped" ELSE "confirmed"

\* The mappings a client can submit
Mappings ==
  {m \in [Columns -> Decisions] :
     PartialLists \/ \A c \in Columns : m[c] # "unlisted"}
=============================================================================
