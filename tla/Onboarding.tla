----------------------------- MODULE Onboarding -----------------------------
(***************************************************************************)
(* The interactive half of onboarding: the API requests that confirm a     *)
(* mapping and load the hub (POST /onboard/confirm) and the requests that  *)
(* add a skipped column afterwards (POST /features/add), run by the        *)
(* threads of one API process against Postgres.                            *)
(*                                                                         *)
(* A request is one READ COMMITTED transaction, split here at the          *)
(* statements whose results depend on what other transactions have         *)
(* committed.  What a transaction has written and not committed is in the  *)
(* request's own variables (version, clearedHub, clearedFeatures, ...);    *)
(* status, configs, hub and features hold committed rows only.  Row locks  *)
(* and the UNIQUE (business_name, version) index are guards: a statement   *)
(* that Postgres would make wait is not enabled.                           *)
(*                                                                         *)
(* A hub row stands for all the rows one column's unpivoting writes, a     *)
(* feature record for all the features of one metric.  Which stored file   *)
(* a request reads is the subject of module UploadFiles.                   *)
(***************************************************************************)
EXTENDS Naturals, FiniteSets, MappingRules

CONSTANTS
  Requests,    \* ids of the API requests; bounds how many are ever made
  Datasets,    \* ids of meta.dataset rows
  Businesses,  \* business names
  NoDataset,   \* the dataset_id of a request that has not been made
  BusinessOf,  \* the business a dataset is uploaded for
  Threads      \* size of the pool that runs the synchronous endpoints

ASSUME OnboardingAssumption ==
  /\ BusinessOf \in [Datasets -> Businesses]
  /\ Threads \in Nat \ {0}
  /\ NoDataset \notin Datasets

VARIABLES
  started,         \* datasets whose POST /onboard/start has committed
  status,          \* column_profile.mapping_status, per dataset and column
  configs,         \* meta.mapping_config
  hub,             \* the eight hub tables
  features,        \* meta.feature_record
  pc,              \* where each request is
  kind,            \* which endpoint a request called
  ds,              \* the dataset_id of its payload
  mapping,         \* the decision its payload makes for each column
  seen,            \* the mapping_status of each profile as the session loaded it
  version,         \* the config version it is about to save
  clearedHub,      \* hub rows its uncommitted DELETE has removed
  clearedFeatures, \* feature records its uncommitted DELETE has removed
  skipped          \* columns its load found in skipped state

stored  == <<started, status, configs, hub, features>>
payload == <<kind, ds, mapping>>
local   == <<seen, version, clearedHub, clearedFeatures, skipped>>
vars    == <<stored, pc, payload, local>>

MappingStatus == {"suggested", "confirmed", "skipped", "added_later"}
FeatureStatus == {"collected", "skipped", "added_later"}
Kinds         == {"none", "confirm", "add"}

\* A transaction that has flushed its config version: it holds the unique
\* index entry and the row locks of the profiles it changed.
Holding == {"flushed", "hub_cleared", "cleared", "loaded"}
Waiting == {"confirming", "versioned", "adding"}
Ended   == {"done", "failed"}
Steps   == {"idle", "committed"} \union Waiting \union Holding \union Ended

InFlight == {r \in Requests : pc[r] \notin {"idle"} \union Ended}

-----------------------------------------------------------------------------
(* What a payload asks for.                                                *)

\* The profiles whose status a request's flush updates: the ORM writes only what
\* differs from what the session loaded.  A profile of which it writes only the
\* suggested names is left out: its lock would make an add of that column wait
\* that need not wait here, so the model has more interleavings, not fewer.
Dirty(r) ==
  {c \in Columns : mapping[r][c] # "unlisted"
                     /\ StatusFor(mapping[r][c]) # seen[r][c]}

\* transform_to_hub_rows and _write_hub_rows: one row set per metric column
RowsOf(r) ==
  {[ds |-> ds[r], col |-> c, target |-> mapping[r][c], by |-> r] :
     c \in MetricColumns(mapping[r])}

\* One feature record per metric that was produced, and per column a load
\* found skipped.
FeaturesOf(r, st) ==
  {[ds |-> ds[r], name |-> mapping[r][c], status |-> st, by |-> r] :
     c \in MetricColumns(mapping[r])}
SkippedFeatures(r) ==
  {[ds |-> ds[r], name |-> c, status |-> "skipped", by |-> r] :
     c \in skipped[r]}

ConfigRow(r) == [business |-> BusinessOf[ds[r]], version |-> version[r], by |-> r]
Versions(b)  == {x.version : x \in {y \in configs : y.business = b}}

\* mapping_status of the request's dataset once its own writes are applied
StatusAfter(r) ==
  [c \in Columns |-> IF c \in Dirty(r) THEN StatusFor(mapping[r][c])
                                       ELSE status[ds[r]][c]]

SameBusiness(q, r) == BusinessOf[ds[q]] = BusinessOf[ds[r]]

\* Mutant: without the unique index only the profiles' row locks make a flush wait.
BlocksOnProfiles(q, r) ==
  /\ q # r
  /\ pc[q] \in Holding
  /\ ds[q] = ds[r] /\ Dirty(q) \intersect Dirty(r) # {}

\* Mutant: the version is reserved when it is read, not when it is inserted.
BlocksOnReserved(q, r) ==
  /\ q # r
  /\ pc[q] \in Holding \union {"versioned"}
  /\ SameBusiness(q, r) /\ version[q] = version[r]

\* Postgres makes the flush wait for a transaction that has inserted the same
\* (business_name, version) or updated one of the same profiles.
Blocks(q, r) ==
  /\ q # r
  /\ pc[q] \in Holding
  /\ \/ SameBusiness(q, r) /\ version[q] = version[r]
     \/ ds[q] = ds[r] /\ Dirty(q) \intersect Dirty(r) # {}

-----------------------------------------------------------------------------
NothingListed == [c \in Columns |-> "unlisted"]
NothingSeen   == [c \in Columns |-> "suggested"]

Init ==
  /\ started = {}
  /\ status = [d \in Datasets |-> NothingSeen]
  /\ configs = {}
  /\ hub = {}
  /\ features = {}
  /\ pc = [r \in Requests |-> "idle"]
  /\ kind = [r \in Requests |-> "none"]
  /\ ds = [r \in Requests |-> NoDataset]
  /\ mapping = [r \in Requests |-> NothingListed]
  /\ seen = [r \in Requests |-> NothingSeen]
  /\ version = [r \in Requests |-> 0]
  /\ clearedHub = [r \in Requests |-> {}]
  /\ clearedFeatures = [r \in Requests |-> {}]
  /\ skipped = [r \in Requests |-> {}]

GoTo(r, step) == pc' = [pc EXCEPT ![r] = step]

\* The session is closed: what it had loaded is gone, and what it had written
\* is either committed or rolled back.
Close(r) ==
  /\ seen' = [seen EXCEPT ![r] = NothingSeen]
  /\ clearedHub' = [clearedHub EXCEPT ![r] = {}]
  /\ clearedFeatures' = [clearedFeatures EXCEPT ![r] = {}]
  /\ skipped' = [skipped EXCEPT ![r] = {}]

\* Nothing of the request is left but its error response.
Abort(r) ==
  /\ GoTo(r, "failed")
  /\ Close(r)
  /\ version' = [version EXCEPT ![r] = 0]
  /\ ds' = [ds EXCEPT ![r] = NoDataset]
  /\ mapping' = [mapping EXCEPT ![r] = NothingListed]
  /\ UNCHANGED <<stored, kind>>

\* POST /onboard/start: the dataset and its profiles, every column in state
\* "suggested", are committed together.
StartOnboarding(d) ==
  /\ d \notin started
  /\ started' = started \union {d}
  /\ UNCHANGED <<status, configs, hub, features, pc, payload, local>>

\* A thread of the pool takes a request up.
Accept(r, k, d, m) ==
  /\ pc[r] = "idle"
  /\ Cardinality(InFlight) < Threads
  /\ d \in started
  /\ kind' = [kind EXCEPT ![r] = k]
  /\ ds' = [ds EXCEPT ![r] = d]
  /\ mapping' = [mapping EXCEPT ![r] = m]

-----------------------------------------------------------------------------
(* POST /onboard/confirm                                                   *)

\* The dataset exists, the decisions are well formed, the profiles are read.
BeginConfirm(r, d, m) ==
  /\ Accept(r, "confirm", d, m)
  /\ seen' = [seen EXCEPT ![r] = status[d]]
  /\ GoTo(r, "confirming")
  /\ UNCHANGED <<stored, version, clearedHub, clearedFeatures, skipped>>

\* _next_config_version: (latest or 0) + 1 over the versions committed by now
ReadVersion(r) ==
  LET taken == Versions(BusinessOf[ds[r]]) IN
  /\ pc[r] = "confirming"
  /\ \E latest \in {0} \union taken :
       /\ \A v \in taken : v <= latest
       /\ version' = [version EXCEPT ![r] = latest + 1]
  /\ GoTo(r, "versioned")
  /\ UNCHANGED <<stored, payload, seen, clearedHub, clearedFeatures, skipped>>

\* session.flush(): the config row is inserted, the dirty profiles updated.
FlushConfirm(r) ==
  /\ pc[r] = "versioned"
  /\ \A q \in Requests : ~ Blocks(q, r)
  /\ version[r] \notin Versions(BusinessOf[ds[r]])
  /\ GoTo(r, "flushed")
  /\ UNCHANGED <<stored, payload, local>>

\* The unique index refuses the config row: rollback, 500.
VersionConflict(r) ==
  /\ pc[r] = "versioned"
  /\ \A q \in Requests : ~ Blocks(q, r)
  /\ version[r] \in Versions(BusinessOf[ds[r]])
  /\ Abort(r)

\* What every commit of a confirmation makes visible
CommitConfig(r) ==
  /\ configs' = configs \union {ConfigRow(r)}
  /\ status' = [status EXCEPT ![ds[r]] = StatusAfter(r)]
  /\ GoTo(r, "committed")
  /\ Close(r)
  /\ UNCHANGED <<started, payload, version>>

\* Mutant: the router commits before the load, whatever the validation said.
CommitBeforeLoad(r) ==
  /\ pc[r] = "flushed"
  /\ CommitConfig(r)
  /\ UNCHANGED <<hub, features>>

\* Validation failed: complete_onboarding returns before the load and the
\* router commits the config and the statuses without it.
CommitUnloaded(r) ==
  /\ pc[r] = "flushed"
  /\ ~ Valid(mapping[r])
  /\ CommitConfig(r)
  /\ UNCHANGED <<hub, features>>

\* Mutant: a load appends.
ClearNothing(r) ==
  /\ pc[r] = "flushed"
  /\ Valid(mapping[r])
  /\ GoTo(r, "hub_cleared")
  /\ UNCHANGED <<stored, payload, local>>

\* Mutant: rows added since the last load are spared.
ClearLoadedOnly(r) ==
  /\ pc[r] = "flushed"
  /\ Valid(mapping[r])
  /\ clearedHub' = [clearedHub EXCEPT ![r] =
                      {x \in hub : x.ds = ds[r] /\ kind[x.by] = "confirm"}]
  /\ GoTo(r, "hub_cleared")
  /\ UNCHANGED <<stored, payload, seen, version, clearedFeatures, skipped>>

\* _clear_existing_hub_data deletes the rows committed by now.
ClearHub(r) ==
  /\ pc[r] = "flushed"
  /\ Valid(mapping[r])
  /\ clearedHub' = [clearedHub EXCEPT ![r] = {x \in hub : x.ds = ds[r]}]
  /\ GoTo(r, "hub_cleared")
  /\ UNCHANGED <<stored, payload, seen, version, clearedFeatures, skipped>>

\* Mutant: only the records of skipped columns are cleared.
ClearSkippedOnly(r) ==
  /\ pc[r] = "hub_cleared"
  /\ clearedFeatures' =
       [clearedFeatures EXCEPT ![r] = {f \in features : f.ds = ds[r] /\ f.status = "skipped"}]
  /\ GoTo(r, "cleared")
  /\ UNCHANGED <<stored, payload, seen, version, clearedHub, skipped>>

\* _clear_existing_features, a later statement with a later snapshot
ClearFeatures(r) ==
  /\ pc[r] = "hub_cleared"
  /\ clearedFeatures' =
       [clearedFeatures EXCEPT ![r] = {f \in features : f.ds = ds[r]}]
  /\ GoTo(r, "cleared")
  /\ UNCHANGED <<stored, payload, seen, version, clearedHub, skipped>>

\* The new rows and records are written; the skipped columns are read for it.
Load(r) ==
  /\ pc[r] = "cleared"
  /\ skipped' =
       [skipped EXCEPT ![r] = {c \in Columns : StatusAfter(r)[c] = "skipped"}]
  /\ GoTo(r, "loaded")
  /\ UNCHANGED <<stored, payload, seen, version, clearedHub, clearedFeatures>>

CommitLoaded(r) ==
  /\ pc[r] = "loaded"
  /\ hub' = (hub \ clearedHub[r]) \union RowsOf(r)
  /\ features' = (features \ clearedFeatures[r])
                   \union FeaturesOf(r, "collected") \union SkippedFeatures(r)
  /\ CommitConfig(r)

\* trigger_analytics_async starts its thread and the response is returned.
Respond(r) ==
  /\ pc[r] = "committed"
  /\ GoTo(r, "done")
  /\ UNCHANGED <<stored, payload, local>>

-----------------------------------------------------------------------------
(* POST /features/add                                                      *)

\* The payload of an add, as a mapping that lists one column
JustColumn(c, t) == [NothingListed EXCEPT ![c] = t]

\* The profile is read and is in skipped state; any other state is a 400,
\* which changes nothing.
BeginAdd(r, d, c, t) ==
  /\ Accept(r, "add", d, JustColumn(c, t))
  /\ status[d][c] = "skipped"
  /\ GoTo(r, "adding")
  /\ UNCHANGED <<stored, local>>

\* A confirmation holds the lock of the profile this add is about to update.
AddBlocked(r) ==
  \E q \in Requests :
    pc[q] \in Holding /\ ds[q] = ds[r] /\ Dirty(q) \intersect MetricColumns(mapping[r]) # {}

\* The rows, the features and the profile's new state, in one commit
CommitAdd(r) ==
  /\ pc[r] = "adding"
  /\ ~ AddBlocked(r)
  /\ hub' = hub \union RowsOf(r)
  /\ features' = features \union FeaturesOf(r, "added_later")
  /\ status' = [status EXCEPT ![ds[r]] =
                  [c \in Columns |-> IF c \in MetricColumns(mapping[r])
                                       THEN "added_later" ELSE @[c]]]
  /\ GoTo(r, "done")
  /\ UNCHANGED <<started, configs, payload, local>>

\* An exception in the handler, or the loss of the process or its connection:
\* what is not committed is rolled back and the locks are released.
Rollback(r) ==
  /\ pc[r] \in Waiting \union Holding
  /\ Abort(r)

\* The process is lost between the commit and trigger_analytics_async.
LoseResponse(r) ==
  /\ pc[r] = "committed"
  /\ GoTo(r, "failed")
  /\ UNCHANGED <<stored, payload, local>>

-----------------------------------------------------------------------------
Confirm(r) ==
  \/ ReadVersion(r) \/ FlushConfirm(r) \/ VersionConflict(r)
  \/ CommitUnloaded(r) \/ ClearHub(r) \/ ClearFeatures(r) \/ Load(r)
  \/ CommitLoaded(r) \/ Respond(r)

Next ==
  \/ \E d \in Datasets : StartOnboarding(d)
  \/ \E r \in Requests, d \in Datasets :
       \/ \E m \in Mappings : BeginConfirm(r, d, m)
       \/ \E c \in Columns, t \in Targets : BeginAdd(r, d, c, t)
  \/ \E r \in Requests : Confirm(r) \/ CommitAdd(r) \/ Rollback(r) \/ LoseResponse(r)

Spec == Init /\ [][Next]_vars

\* Threads keep running and Postgres hands a released lock to a waiter.
\* Clients owe nothing, and nothing has to fail.
FairSpec == Spec /\ \A r \in Requests : WF_vars(Confirm(r) \/ CommitAdd(r))

-----------------------------------------------------------------------------
(* Properties                                                              *)

HubRow  == [ds : Datasets, col : Columns, target : Targets, by : Requests]
Feature == [ds : Datasets, name : Targets \union Columns,
            status : FeatureStatus, by : Requests]
Config  == [business : Businesses, version : Nat \ {0}, by : Requests]

\* Every variable holds a value of its type.
TypeOK ==
  /\ started \subseteq Datasets
  /\ status \in [Datasets -> [Columns -> MappingStatus]]
  /\ configs \subseteq Config
  /\ hub \subseteq HubRow
  /\ features \subseteq Feature
  /\ pc \in [Requests -> Steps]
  /\ kind \in [Requests -> Kinds]
  /\ ds \in [Requests -> Datasets \union {NoDataset}]
  /\ mapping \in [Requests -> [Columns -> Decisions]]
  /\ seen \in [Requests -> [Columns -> MappingStatus]]
  /\ version \in [Requests -> Nat]
  /\ clearedHub \in [Requests -> SUBSET HubRow]
  /\ clearedFeatures \in [Requests -> SUBSET Feature]
  /\ skipped \in [Requests -> SUBSET Columns]

LoadedRows(d) == {x \in hub : x.ds = d /\ kind[x.by] = "confirm"}
AddedRows(d)  == {x \in hub : x.ds = d /\ kind[x.by] = "add"}

\* The saved configs of a dataset whose mapping passed validation
LoadingConfigs(d) == {x \in configs : ds[x.by] = d /\ Valid(mapping[x.by])}
Newest(S) == {x \in S : \A y \in S : y.version <= x.version}

\* However confirmations of one business interleave, fail and retry, its saved
\* config versions are 1, 2, ... n, each saved by one request.
VersionsUniqueAndDense ==
  /\ \A x, y \in configs : x.business = y.business /\ x.version = y.version => x = y
  /\ \A x \in configs : \A v \in 1 .. x.version : v \in Versions(x.business)

\* What confirmations have loaded of a dataset is exactly what the newest of
\* its valid saved configs asks for: never a mixture of two loads, half of one,
\* or the rows of an older one.
HubIsNewestValidConfig ==
  \A d \in Datasets :
    LoadedRows(d) = UNION {RowsOf(x.by) : x \in Newest(LoadingConfigs(d))}

-----------------------------------------------------------------------------
(* Why it holds: the unique index is the lock.                             *)

Settled == {"committed", "done", "failed"}

\* What a committed row says of the request that wrote it
RowsRecordTheirRequest ==
  /\ \A x \in configs :
       /\ pc[x.by] \in Settled
       /\ kind[x.by] = "confirm"
       /\ ds[x.by] \in Datasets
       /\ x = ConfigRow(x.by)
  /\ \A x \in hub : pc[x.by] \in Settled

\* The version a confirmation has read follows one that is committed.
VersionFollowsCommitted ==
  \A r \in Requests :
    pc[r] \in {"versioned"} \union Holding =>
      version[r] - 1 \in {0} \union Versions(BusinessOf[ds[r]])

\* At most one confirmation per business is past its flush, and its version is
\* newer than every committed one: the loads of a business run one at a time
\* although nothing in the code locks the dataset.
OneHolderPerBusiness ==
  /\ \A q, r \in Requests :
       pc[q] \in Holding /\ pc[r] \in Holding /\ SameBusiness(q, r) => q = r
  /\ \A r \in Requests :
       pc[r] \in Holding =>
         \A v \in Versions(BusinessOf[ds[r]]) : v < version[r]

\* The rows a load has deleted are all that earlier loads of its dataset left.
ClearedIsEverythingLoaded ==
  \A r \in Requests :
    /\ pc[r] \in {"hub_cleared", "cleared", "loaded"} =>
         Valid(mapping[r]) /\ LoadedRows(ds[r]) \subseteq clearedHub[r]
    /\ \A x \in clearedHub[r] : x.ds = ds[r]
    /\ pc[r] \in {"confirming", "versioned"} \union Holding => kind[r] = "confirm"
    /\ pc[r] = "adding" => kind[r] = "add"

LoadsAreSerial ==
  /\ RowsRecordTheirRequest
  /\ VersionFollowsCommitted
  /\ OneHolderPerBusiness
  /\ ClearedIsEverythingLoaded
  /\ VersionsUniqueAndDense
  /\ HubIsNewestValidConfig

-----------------------------------------------------------------------------
CollectedFeatures(d) == {f \in features : f.ds = d /\ f.status = "collected"}

\* The features reported as collected are those of the rows the hub holds.
CollectedFeaturesMatchHub ==
  \A d \in Datasets :
    {<<f.name, f.by>> : f \in CollectedFeatures(d)} = {<<x.target, x.by>> : x \in LoadedRows(d)}

\* The invariant behind it: the features a load has deleted, with a later
\* statement than the rows, are all that earlier loads recorded.
ClearedIsEverythingCollected ==
  \A r \in Requests :
    /\ pc[r] \in {"cleared", "loaded"} => CollectedFeatures(ds[r]) \subseteq clearedFeatures[r]
    /\ \A f \in clearedFeatures[r] : f.ds = ds[r]

\* What the review screen says of a column of dataset d agrees with the hub, if
\* config x was saved last: a confirmed metric has the rows of that mapping and no
\* others, a skipped column has no rows and is recorded as skipped, a column added
\* later has the rows and the feature of exactly one add.
ColumnMatchesHub(d, x, c) ==
  LET rows == {row \in hub : row.ds = d /\ row.col = c} IN
  \/ /\ status[d][c] = "confirmed"
     /\ rows = {row \in RowsOf(x.by) : row.col = c}
  \/ /\ status[d][c] = "skipped"
     /\ rows = {}
     /\ \E f \in features : f.ds = d /\ f.name = c /\ f.status = "skipped"
  \/ /\ status[d][c] = "added_later"
     /\ \E row \in AddedRows(d) :
          /\ rows = {row}
          /\ [ds |-> d, name |-> row.target, status |-> "added_later",
              by |-> row.by] \in features

\* It does, for every dataset whose newest saved mapping is valid and complete.
Complete(m) == \A c \in Columns : m[c] # "unlisted"
ReviewMatchesHub ==
  \A d \in Datasets : \A x \in Newest({y \in configs : ds[y.by] = d}) :
    Valid(mapping[x.by]) /\ Complete(mapping[x.by]) =>
      \A c \in Columns : ColumnMatchesHub(d, x, c)

\* A column that the review view reports as collected, and that its newest
\* saved mapping maps to a metric, has rows in the hub.
CollectedHasData ==
  \A d \in Datasets : \A x \in Newest({y \in configs : ds[y.by] = d}) :
    \A c \in MetricColumns(mapping[x.by]) :
      status[d][c] \in {"confirmed", "added_later"} =>
        \E row \in hub : row.ds = d /\ row.col = c

-----------------------------------------------------------------------------
(* The contract, and what implements it.                                   *)

SavedMappings(b) ==
  [v \in 1 .. Cardinality(Versions(b)) |->
     LET x == CHOOSE y \in configs : y.business = b /\ y.version = v
     IN  [ds |-> ds[x.by], mapping |-> mapping[x.by]]]

Contract == INSTANCE HubContract WITH
  history <- [b \in Businesses |-> SavedMappings(b)],
  content <- [d \in Datasets |-> {<<x.col, x.target>> : x \in LoadedRows(d)}]

\* Seen through its committed rows, onboarding is the contract: whatever the
\* interleaving, each commit is one confirmation taking effect at once, in
\* version order, on the content its predecessor left.
ImplementsContract == Contract!Spec

\* A request that got a thread is answered: nobody waits for ever for a row
\* lock or a unique index entry.
EveryRequestEnds ==
  \A r \in Requests : pc[r] # "idle" ~> pc[r] \in Ended
=============================================================================
