-------------------------- MODULE OnboardingProofs --------------------------
(***************************************************************************)
(* Theorems about module Onboarding, for every set of requests, datasets,  *)
(* columns and targets and every size of the thread pool; and, at the end, *)
(* about the review screen in plain use (MCOnboardingUse), for any number  *)
(* of requests one after the other.                                        *)
(***************************************************************************)
EXTENDS MCOnboardingUse, FiniteSetTheorems, SequenceTheorems, TLAPS

\* A request that is neither idle nor failed works for a dataset, and one that
\* has read a version holds a positive one; an idle request has deleted nothing.
Assigned ==
  \A r \in Requests :
    /\ pc[r] = "idle" => clearedHub[r] = {} /\ clearedFeatures[r] = {}
    /\ pc[r] \notin {"idle", "failed"} => ds[r] \in Datasets
    /\ pc[r] \in {"versioned"} \union Holding => version[r] # 0

TypeInv == TypeOK /\ Assigned

USE DEF Steps, Waiting, Holding, Ended, Kinds, MappingStatus, FeatureStatus,
        Roles, Decisions, NothingListed, NothingSeen

-----------------------------------------------------------------------------
(* What the payload operators return                                       *)

LEMMA MappingsType == Mappings \subseteq [Columns -> Decisions]
  BY DEF Mappings

LEMMA JustColumnType ==
  ASSUME NEW c \in Columns, NEW t \in Targets
  PROVE  JustColumn(c, t) \in [Columns -> Decisions]
  BY DEF JustColumn

LEMMA RowsOfType ==
  ASSUME TypeOK, NEW r \in Requests, ds[r] \in Datasets
  PROVE  RowsOf(r) \subseteq HubRow
  BY DEF TypeOK, RowsOf, MetricColumns, HubRow

LEMMA FeaturesOfType ==
  ASSUME TypeOK, NEW r \in Requests, ds[r] \in Datasets,
         NEW st \in FeatureStatus
  PROVE  FeaturesOf(r, st) \subseteq Feature
  BY DEF TypeOK, FeaturesOf, MetricColumns, Feature

LEMMA SkippedFeaturesType ==
  ASSUME TypeOK, NEW r \in Requests, ds[r] \in Datasets
  PROVE  SkippedFeatures(r) \subseteq Feature
  BY DEF TypeOK, SkippedFeatures, Feature

LEMMA StatusAfterType ==
  ASSUME TypeOK, NEW r \in Requests, ds[r] \in Datasets
  PROVE  StatusAfter(r) \in [Columns -> MappingStatus]
  BY DEF TypeOK, StatusAfter, StatusFor

LEMMA VersionsType ==
  ASSUME TypeOK, NEW b
  PROVE  Versions(b) \subseteq Nat \ {0}
  BY DEF TypeOK, Versions, Config

LEMMA ConfigRowType ==
  ASSUME TypeOK, NEW r \in Requests, ds[r] \in Datasets, version[r] # 0
  PROVE  ConfigRow(r) \in Config
  BY OnboardingAssumption DEF TypeOK, ConfigRow, Config

-----------------------------------------------------------------------------
LEMMA TypeInit == Init => TypeInv
  BY DEF Init, TypeInv, TypeOK, Assigned

LEMMA TypeStep == TypeInv /\ [Next]_vars => TypeInv'
<1> SUFFICES ASSUME TypeInv, [Next]_vars PROVE TypeInv'
  OBVIOUS
<1> USE DEF TypeInv
<1>1. ASSUME NEW d \in Datasets, StartOnboarding(d) PROVE TypeInv'
  BY <1>1 DEF StartOnboarding, TypeOK, Assigned, payload, local
<1>2. ASSUME NEW r \in Requests, NEW d \in Datasets, NEW m \in Mappings,
             BeginConfirm(r, d, m)
      PROVE  TypeInv'
  BY <1>2, MappingsType DEF BeginConfirm, Accept, GoTo, stored, TypeOK, Assigned
<1>3. ASSUME NEW r \in Requests, NEW d \in Datasets, NEW c \in Columns,
             NEW t \in Targets, BeginAdd(r, d, c, t)
      PROVE  TypeInv'
  BY <1>3, JustColumnType DEF BeginAdd, Accept, GoTo, stored, local, TypeOK, Assigned
<1>4. ASSUME NEW r \in Requests, Abort(r) PROVE TypeInv'
  BY <1>4 DEF Abort, Close, GoTo, stored, TypeOK, Assigned
<1>5. ASSUME NEW r \in Requests, ReadVersion(r) PROVE TypeInv'
  <2>1. PICK latest \in {0} \union Versions(BusinessOf[ds[r]]) :
          version' = [version EXCEPT ![r] = latest + 1]
    BY <1>5 DEF ReadVersion
  <2>2. latest \in Nat
    BY VersionsType
  <2>3. QED
    BY <1>5, <2>1, <2>2 DEF ReadVersion, GoTo, stored, payload, TypeOK, Assigned
<1>6. ASSUME NEW r \in Requests, FlushConfirm(r) PROVE TypeInv'
  BY <1>6 DEF FlushConfirm, GoTo, stored, payload, local, TypeOK, Assigned
<1>7. ASSUME NEW r \in Requests, pc[r] \in {"flushed", "loaded"}, CommitConfig(r),
             hub' \subseteq HubRow, features' \subseteq Feature
      PROVE  TypeInv'
  <2>1. ConfigRow(r) \in Config /\ StatusAfter(r) \in [Columns -> MappingStatus]
    BY <1>7, ConfigRowType, StatusAfterType DEF Assigned
  <2>2. configs' \subseteq Config /\ status' \in [Datasets -> [Columns -> MappingStatus]]
    BY <1>7, <2>1 DEF CommitConfig, TypeOK, Assigned
  <2>3. QED
    BY <1>7, <2>2 DEF CommitConfig, Close, GoTo, payload, TypeOK, Assigned
<1>8. ASSUME NEW r \in Requests, CommitUnloaded(r) PROVE TypeInv'
  BY <1>7, <1>8 DEF CommitUnloaded, TypeOK
<1>9. ASSUME NEW r \in Requests, ClearHub(r) PROVE TypeInv'
  BY <1>9 DEF ClearHub, GoTo, stored, payload, TypeOK, Assigned
<1>10. ASSUME NEW r \in Requests, ClearFeatures(r) PROVE TypeInv'
  BY <1>10 DEF ClearFeatures, GoTo, stored, payload, TypeOK, Assigned
<1>11. ASSUME NEW r \in Requests, Load(r) PROVE TypeInv'
  BY <1>11 DEF Load, GoTo, stored, payload, TypeOK, Assigned
<1>12. ASSUME NEW r \in Requests, CommitLoaded(r) PROVE TypeInv'
  <2>1. ds[r] \in Datasets /\ pc[r] = "loaded"
    BY <1>12 DEF CommitLoaded, Assigned
  <2>2. hub' \subseteq HubRow
    BY <1>12, <2>1, RowsOfType DEF CommitLoaded, TypeOK
  <2>3. features' \subseteq Feature
    BY <1>12, <2>1, FeaturesOfType, SkippedFeaturesType DEF CommitLoaded, TypeOK
  <2>4. QED
    BY <1>7, <1>12, <2>1, <2>2, <2>3 DEF CommitLoaded
<1>13. ASSUME NEW r \in Requests, Respond(r) \/ LoseResponse(r) PROVE TypeInv'
  BY <1>13 DEF Respond, LoseResponse, GoTo, stored, payload, local, TypeOK, Assigned
<1>14. ASSUME NEW r \in Requests, CommitAdd(r) PROVE TypeInv'
  <2>1. ds[r] \in Datasets
    BY <1>14 DEF CommitAdd, Assigned
  <2>2. hub' \subseteq HubRow
    BY <1>14, <2>1, RowsOfType DEF CommitAdd, TypeOK
  <2>3. features' \subseteq Feature
    BY <1>14, <2>1, FeaturesOfType DEF CommitAdd, TypeOK
  <2>4. status' \in [Datasets -> [Columns -> MappingStatus]]
    BY <1>14, <2>1 DEF CommitAdd, TypeOK
  <2>5. QED
    BY <1>14, <2>2, <2>3, <2>4 DEF CommitAdd, GoTo, payload, local, TypeOK, Assigned
<1>15. CASE UNCHANGED vars
  BY <1>15 DEF vars, stored, payload, local, TypeOK, Assigned
<1>16. QED
  BY <1>1, <1>2, <1>3, <1>4, <1>5, <1>6, <1>8, <1>9, <1>10, <1>11, <1>12,
     <1>13, <1>14, <1>15 DEF Next, Confirm, VersionConflict, Rollback

\* Every reachable state is well typed (TypeOK), whatever statements the
\* concurrent confirm and add handlers execute and in whatever order.
THEOREM TypeCorrect == Spec => []TypeOK
<1>1. Init => TypeInv
  BY TypeInit
<1>2. TypeInv /\ [Next]_vars => TypeInv'
  BY TypeStep
<1>3. TypeInv => TypeOK
  BY DEF TypeInv
<1>4. QED
  BY <1>1, <1>2, <1>3, PTL DEF Spec

-----------------------------------------------------------------------------
(* The loads of a business run one at a time.                              *)

\* A step that saves no config, loads nothing and changes no settled request
LoadsNothing ==
  /\ configs' = configs
  /\ hub \subseteq hub'
  /\ \A x \in hub' \ hub : kind'[x.by] = "add" /\ pc'[x.by] \in Settled
  /\ \A s \in Requests : pc[s] \in Settled =>
       /\ pc'[s] \in Settled
       /\ kind'[s] = kind[s] /\ ds'[s] = ds[s]
       /\ mapping'[s] = mapping[s] /\ version'[s] = version[s]

\* It leaves everything that is said of committed configs and loads as it was.
LEMMA CommittedFrame ==
  ASSUME TypeInv, RowsRecordTheirRequest, LoadsNothing
  PROVE  /\ RowsRecordTheirRequest'
         /\ \A b : Versions(b)' = Versions(b)
         /\ \A d : LoadedRows(d)' = LoadedRows(d)
         /\ VersionsUniqueAndDense => VersionsUniqueAndDense'
         /\ HubIsNewestValidConfig => HubIsNewestValidConfig'
<1> USE DEF LoadsNothing, TypeInv
<1>1. \A x \in configs : x.by \in Requests /\ pc[x.by] \in Settled
  BY DEF RowsRecordTheirRequest, TypeOK, Config
<1>2. \A x \in hub : x.by \in Requests /\ pc[x.by] \in Settled
  BY DEF RowsRecordTheirRequest, TypeOK, HubRow
<1>3. \A x \in configs : ConfigRow(x.by)' = ConfigRow(x.by)
  BY <1>1 DEF ConfigRow
<1>4. RowsRecordTheirRequest'
  BY <1>1, <1>2, <1>3 DEF RowsRecordTheirRequest
<1>5. \A b : Versions(b)' = Versions(b)
  BY DEF Versions
<1>6. \A d : LoadedRows(d)' = LoadedRows(d)
  BY <1>2 DEF LoadedRows
<1>7. VersionsUniqueAndDense => VersionsUniqueAndDense'
  BY <1>5 DEF VersionsUniqueAndDense
<1>8. \A d : LoadingConfigs(d)' = LoadingConfigs(d)
  BY <1>1 DEF LoadingConfigs
<1>9. \A x \in configs : RowsOf(x.by)' = RowsOf(x.by)
  BY <1>1 DEF RowsOf
<1>10. \A d : UNION {RowsOf(x.by)' : x \in Newest(LoadingConfigs(d))}
               = UNION {RowsOf(x.by) : x \in Newest(LoadingConfigs(d))}
  BY <1>9 DEF Newest, LoadingConfigs
<1>11. \A d : Newest(LoadingConfigs(d))' = Newest(LoadingConfigs(d))
  BY <1>8 DEF Newest
<1>12. HubIsNewestValidConfig => HubIsNewestValidConfig'
  BY <1>6, <1>10, <1>11 DEF HubIsNewestValidConfig
<1>13. QED
  BY <1>4, <1>5, <1>6, <1>7, <1>12

\* What the commit of a holder adds to the saved versions
LEMMA CommitAppendsVersion ==
  ASSUME TypeInv, RowsRecordTheirRequest, VersionFollowsCommitted,
         OneHolderPerBusiness, VersionsUniqueAndDense,
         NEW r \in Requests, pc[r] \in Holding, CommitConfig(r)
  PROVE  /\ VersionsUniqueAndDense'
         /\ \A b : Versions(b)' =
              Versions(b) \union (IF b = BusinessOf[ds[r]] THEN {version[r]} ELSE {})
<1> DEFINE b0 == BusinessOf[ds[r]]
           new == ConfigRow(r)
<1>1. configs' = configs \union {new} /\ new.business = b0 /\ new.version = version[r]
  BY DEF CommitConfig, ConfigRow
<1>2. \A b : Versions(b)' = Versions(b) \union (IF b = b0 THEN {version[r]} ELSE {})
  <2> SUFFICES ASSUME NEW b
               PROVE  Versions(b)' = Versions(b) \union (IF b = b0 THEN {version[r]} ELSE {})
    OBVIOUS
  <2>1. {y \in configs' : y.business = b}
          = {y \in configs : y.business = b} \union (IF b = b0 THEN {new} ELSE {})
    BY <1>1
  <2>2. QED
    BY <1>1, <2>1 DEF Versions
<1>3. version[r] \in Nat \ {0} /\ \A v \in Versions(b0) : v \in Nat /\ v < version[r]
  BY VersionsType DEF OneHolderPerBusiness, TypeInv, TypeOK, Assigned
<1>4. \A x \in configs : x.version \in Versions(x.business)
  BY DEF Versions
<1>5. ASSUME NEW x \in configs', NEW y \in configs',
             x.business = y.business, x.version = y.version
      PROVE  x = y
  BY <1>1, <1>3, <1>4, <1>5 DEF VersionsUniqueAndDense
<1>6. ASSUME NEW x \in configs', NEW v \in 1 .. x.version
      PROVE  v \in Versions(x.business)'
  <2>1. CASE x \in configs
    BY <1>2, <2>1 DEF VersionsUniqueAndDense
  <2>2. CASE x = new /\ v = version[r]
    BY <1>1, <1>2, <2>2
  <2>3. CASE x = new /\ v # version[r]
    <3>1. version[r] - 1 \in {0} \union Versions(b0)
      BY DEF VersionFollowsCommitted
    <3>2. v \in 1 .. (version[r] - 1) /\ version[r] - 1 # 0
      BY <1>1, <1>3, <2>3
    <3>3. PICK z \in configs : z.business = b0 /\ z.version = version[r] - 1
      BY <3>1, <3>2 DEF Versions
    <3>4. v \in Versions(b0)
      BY <3>2, <3>3 DEF VersionsUniqueAndDense
    <3>5. QED
      BY <1>1, <1>2, <2>3, <3>4
  <2>4. QED
    BY <1>1, <2>1, <2>2, <2>3
<1>7. QED
  BY <1>2, <1>5, <1>6 DEF VersionsUniqueAndDense

\* What remains to be shown of a step that loads nothing
LEMMA SerialFrame ==
  ASSUME TypeInv, LoadsAreSerial, LoadsNothing,
         (VersionFollowsCommitted /\ OneHolderPerBusiness
            /\ ClearedIsEverythingLoaded)'
  PROVE  LoadsAreSerial'
  BY CommittedFrame DEF LoadsAreSerial

\* A request that holds nothing before and after its step disturbs no holder.
LEMMA OutsideStep ==
  ASSUME TypeInv, LoadsAreSerial, LoadsNothing, NEW r \in Requests,
         pc'[r] \notin Holding \union {"versioned"},
         pc'[r] = "confirming" => kind'[r] = "confirm",
         pc'[r] = "adding" => kind'[r] = "add",
         \A x \in clearedHub'[r] : x.ds = ds'[r],
         \A s \in Requests \ {r} :
           /\ pc'[s] = pc[s] /\ kind'[s] = kind[s] /\ ds'[s] = ds[s]
           /\ mapping'[s] = mapping[s] /\ version'[s] = version[s]
           /\ clearedHub'[s] = clearedHub[s]
  PROVE  LoadsAreSerial'
<1>1. /\ \A b : Versions(b)' = Versions(b)
      /\ \A d : LoadedRows(d)' = LoadedRows(d)
  BY CommittedFrame DEF LoadsAreSerial
<1>2. VersionFollowsCommitted'
  BY <1>1 DEF LoadsAreSerial, VersionFollowsCommitted
<1>3. OneHolderPerBusiness'
  BY <1>1 DEF LoadsAreSerial, OneHolderPerBusiness, SameBusiness
<1>4. ClearedIsEverythingLoaded'
  BY <1>1 DEF LoadsAreSerial, ClearedIsEverythingLoaded
<1>5. QED
  BY <1>2, <1>3, <1>4, SerialFrame

LEMMA SerialInit == Init => LoadsAreSerial
  BY DEF Init, LoadsAreSerial, RowsRecordTheirRequest, VersionFollowsCommitted,
         OneHolderPerBusiness, ClearedIsEverythingLoaded, VersionsUniqueAndDense,
         HubIsNewestValidConfig, LoadedRows, Newest, LoadingConfigs

LEMMA SerialBegin ==
  ASSUME TypeInv, LoadsAreSerial, NEW r \in Requests, NEW d \in Datasets,
         \/ \E m \in Mappings : BeginConfirm(r, d, m)
         \/ \E c \in Columns, t \in Targets : BeginAdd(r, d, c, t)
  PROVE  LoadsAreSerial'
<1>1. pc[r] = "idle" /\ clearedHub[r] = {}
  BY DEF BeginConfirm, BeginAdd, Accept, TypeInv, Assigned
<1>2. LoadsNothing
  BY <1>1 DEF BeginConfirm, BeginAdd, Accept, GoTo, stored, local, LoadsNothing,
              TypeInv, TypeOK, Settled
<1>3. \/ pc'[r] = "confirming" /\ kind'[r] = "confirm"
      \/ pc'[r] = "adding" /\ kind'[r] = "add"
  BY DEF BeginConfirm, BeginAdd, Accept, GoTo, TypeInv, TypeOK
<1>4. clearedHub' = clearedHub
  BY DEF BeginConfirm, BeginAdd, local
<1>5. \A s \in Requests \ {r} :
        /\ pc'[s] = pc[s] /\ kind'[s] = kind[s] /\ ds'[s] = ds[s]
        /\ mapping'[s] = mapping[s] /\ version'[s] = version[s]
  BY DEF BeginConfirm, BeginAdd, Accept, GoTo, local, TypeInv, TypeOK
<1>6. QED
  BY <1>1, <1>2, <1>3, <1>4, <1>5, OutsideStep

LEMMA SerialAbort ==
  ASSUME TypeInv, LoadsAreSerial, NEW r \in Requests,
         pc[r] \in Waiting \union Holding, Abort(r)
  PROVE  LoadsAreSerial'
<1>1. LoadsNothing
  BY DEF Abort, GoTo, stored, LoadsNothing, TypeInv, TypeOK, Settled
<1>2. pc'[r] = "failed" /\ clearedHub'[r] = {}
  BY DEF Abort, Close, GoTo, TypeInv, TypeOK
<1>3. QED
  BY <1>1, <1>2, OutsideStep DEF Abort, Close, GoTo, TypeInv, TypeOK

LEMMA SerialEnd ==
  ASSUME TypeInv, LoadsAreSerial, NEW r \in Requests, Respond(r) \/ LoseResponse(r)
  PROVE  LoadsAreSerial'
<1>1. LoadsNothing
  BY DEF Respond, LoseResponse, GoTo, stored, payload, local, LoadsNothing, TypeInv,
         TypeOK, Settled
<1>2. pc'[r] \in Ended /\ \A x \in clearedHub'[r] : x.ds = ds'[r]
  BY DEF Respond, LoseResponse, GoTo, payload, local, TypeInv, TypeOK,
         LoadsAreSerial, ClearedIsEverythingLoaded
<1>3. QED
  BY <1>1, <1>2, OutsideStep
  DEF Respond, LoseResponse, GoTo, stored, payload, local, TypeInv, TypeOK

LEMMA SerialAdd ==
  ASSUME TypeInv, LoadsAreSerial, NEW r \in Requests, CommitAdd(r)
  PROVE  LoadsAreSerial'
<1>1. pc[r] = "adding" /\ kind[r] = "add" /\ \A x \in RowsOf(r) : x.by = r
  BY DEF CommitAdd, LoadsAreSerial, ClearedIsEverythingLoaded, RowsOf
<1>2. LoadsNothing
  BY <1>1 DEF CommitAdd, GoTo, payload, local, LoadsNothing, TypeInv, TypeOK, Settled
<1>3. pc'[r] = "done" /\ \A x \in clearedHub'[r] : x.ds = ds'[r]
  BY DEF CommitAdd, GoTo, payload, local, TypeInv, TypeOK,
         LoadsAreSerial, ClearedIsEverythingLoaded
<1>4. QED
  BY <1>2, <1>3, OutsideStep DEF CommitAdd, GoTo, payload, local, TypeInv, TypeOK

LEMMA SerialReadVersion ==
  ASSUME TypeInv, LoadsAreSerial, NEW r \in Requests, ReadVersion(r)
  PROVE  LoadsAreSerial'
<1>1. LoadsNothing
  BY DEF ReadVersion, GoTo, stored, payload, LoadsNothing, TypeInv, TypeOK, Settled
<1>2. /\ \A b : Versions(b)' = Versions(b)
      /\ \A d : LoadedRows(d)' = LoadedRows(d)
  BY <1>1, CommittedFrame DEF LoadsAreSerial
<1>3. version'[r] - 1 \in {0} \union Versions(BusinessOf[ds[r]])
  <2>1. PICK latest \in {0} \union Versions(BusinessOf[ds[r]]) :
          version' = [version EXCEPT ![r] = latest + 1]
    BY DEF ReadVersion
  <2>2. latest \in Nat
    BY VersionsType DEF TypeInv
  <2>3. QED
    BY <2>1, <2>2 DEF TypeInv, TypeOK
<1>4. VersionFollowsCommitted'
  BY <1>2, <1>3 DEF ReadVersion, GoTo, payload, TypeInv, TypeOK, LoadsAreSerial,
                    VersionFollowsCommitted
<1>5. OneHolderPerBusiness'
  BY <1>2 DEF ReadVersion, GoTo, payload, TypeInv, TypeOK, LoadsAreSerial,
              OneHolderPerBusiness, SameBusiness
<1>6. ClearedIsEverythingLoaded'
  BY <1>2 DEF ReadVersion, GoTo, payload, TypeInv, TypeOK, LoadsAreSerial,
              ClearedIsEverythingLoaded
<1>7. QED
  BY <1>1, <1>4, <1>5, <1>6, SerialFrame

LEMMA VersionsDense ==
  ASSUME TypeInv, VersionsUniqueAndDense, NEW b, NEW v \in Versions(b), NEW w \in 1 .. v
  PROVE  w \in Versions(b)
<1>1. PICK x \in configs : x.business = b /\ x.version = v
  BY DEF Versions
<1>2. QED
  BY <1>1 DEF VersionsUniqueAndDense

\* Two requests that have read their version and found it free in turn cannot
\* both be past the flush: the unique index is the lock.
LEMMA SerialFlush ==
  ASSUME TypeInv, LoadsAreSerial, NEW r \in Requests, FlushConfirm(r)
  PROVE  LoadsAreSerial'
<1> DEFINE b == BusinessOf[ds[r]]
<1>1. LoadsNothing
  BY DEF FlushConfirm, GoTo, stored, payload, local, LoadsNothing, TypeInv, TypeOK, Settled
<1>2. /\ \A a : Versions(a)' = Versions(a)
      /\ \A d : LoadedRows(d)' = LoadedRows(d)
  BY <1>1, CommittedFrame DEF LoadsAreSerial
<1>3. /\ pc[r] = "versioned" /\ version[r] \in Nat \ {0}
      /\ version[r] \notin Versions(b)
      /\ version[r] - 1 \in {0} \union Versions(b)
  BY DEF FlushConfirm, LoadsAreSerial, VersionFollowsCommitted, TypeInv, TypeOK, Assigned
<1>4. \A v \in Versions(b) : v \in Nat /\ v < version[r]
  <2> SUFFICES ASSUME NEW v \in Versions(b) PROVE v \in Nat /\ v < version[r]
    OBVIOUS
  <2>1. v \in Nat
    BY VersionsType DEF TypeInv
  <2>2. version[r] \notin 1 .. v
    BY <1>3, VersionsDense DEF LoadsAreSerial
  <2>3. QED
    BY <1>3, <2>1, <2>2
<1>5. ASSUME NEW q \in Requests, pc[q] \in Holding, SameBusiness(q, r) PROVE FALSE
  <2>1. q # r /\ version[q] # version[r]
    BY <1>3, <1>5 DEF FlushConfirm, Blocks
  <2>2. /\ version[q] \in Nat \ {0}
        /\ version[q] - 1 \in {0} \union Versions(b)
        /\ \A v \in Versions(b) : v < version[q]
    BY <1>5 DEF SameBusiness, LoadsAreSerial, VersionFollowsCommitted,
                OneHolderPerBusiness, TypeInv, TypeOK, Assigned
  <2>3. version[q] - 1 < version[r]
    BY <1>3, <1>4, <2>2
  <2>4. version[r] - 1 < version[q]
    BY <1>3, <2>2
  <2>5. QED
    BY <1>3, <2>1, <2>2, <2>3, <2>4
<1>6. VersionFollowsCommitted'
  BY <1>2, <1>3 DEF FlushConfirm, GoTo, payload, local, TypeInv, TypeOK, LoadsAreSerial,
                    VersionFollowsCommitted
<1>7. OneHolderPerBusiness'
  <2>1. \A s \in Requests : pc'[s] \in Holding => s = r \/ pc[s] \in Holding
    BY DEF FlushConfirm, GoTo, TypeInv, TypeOK
  <2>2. ASSUME NEW q \in Requests, NEW s \in Requests,
               pc'[q] \in Holding, pc'[s] \in Holding, SameBusiness(q, s)
        PROVE  q = s
    BY <1>5, <2>1, <2>2 DEF LoadsAreSerial, OneHolderPerBusiness, SameBusiness
  <2>3. ASSUME NEW q \in Requests, pc'[q] \in Holding,
               NEW v \in Versions(BusinessOf[ds[q]])
        PROVE  v < version[q]
    BY <1>4, <2>1, <2>3 DEF LoadsAreSerial, OneHolderPerBusiness
  <2>4. ds' = ds /\ version' = version
    BY DEF FlushConfirm, payload, local
  <2>5. QED
    BY <1>2, <2>2, <2>3, <2>4 DEF OneHolderPerBusiness, SameBusiness
<1>8. ClearedIsEverythingLoaded'
  BY <1>2, <1>3 DEF FlushConfirm, GoTo, payload, local, TypeInv, TypeOK, LoadsAreSerial,
              ClearedIsEverythingLoaded
<1>9. QED
  BY <1>1, <1>6, <1>7, <1>8, SerialFrame

\* The statements of a load that runs alone
LEMMA SerialHolderStep ==
  ASSUME TypeInv, LoadsAreSerial, NEW r \in Requests,
         ClearHub(r) \/ ClearFeatures(r) \/ Load(r)
  PROVE  LoadsAreSerial'
<1>1. LoadsNothing
  BY DEF ClearHub, ClearFeatures, Load, GoTo, stored, payload, LoadsNothing, TypeInv,
         TypeOK, Settled
<1>2. /\ \A b : Versions(b)' = Versions(b)
      /\ \A d : LoadedRows(d)' = LoadedRows(d)
  BY <1>1, CommittedFrame DEF LoadsAreSerial
<1>3. /\ pc[r] \in Holding /\ pc' = [pc EXCEPT ![r] = pc'[r]]
      /\ pc'[r] \in {"hub_cleared", "cleared", "loaded"}
      /\ UNCHANGED <<kind, ds, mapping, version>>
  BY DEF ClearHub, ClearFeatures, Load, GoTo, payload, TypeInv, TypeOK
<1>4. VersionFollowsCommitted'
  BY <1>2, <1>3 DEF LoadsAreSerial, VersionFollowsCommitted, TypeInv, TypeOK
<1>5. OneHolderPerBusiness'
  BY <1>2, <1>3 DEF LoadsAreSerial, OneHolderPerBusiness, SameBusiness, TypeInv, TypeOK
<1>6. ClearedIsEverythingLoaded'
  <2>1. CASE ClearHub(r)
    <3>1. /\ Valid(mapping[r])
          /\ clearedHub' = [clearedHub EXCEPT ![r] = {x \in hub : x.ds = ds[r]}]
          /\ kind[r] = "confirm"
      BY <1>3, <2>1 DEF ClearHub, LoadsAreSerial, ClearedIsEverythingLoaded
    <3>2. LoadedRows(ds[r]) \subseteq clearedHub'[r] /\ \A x \in clearedHub'[r] : x.ds = ds[r]
      BY <3>1 DEF LoadedRows, TypeInv, TypeOK
    <3>3. Valid(mapping[r])'
      BY <1>3, <3>1 DEF Valid, ActiveColumns, MetricColumns
    <3>4. \A s \in Requests \ {r} : pc'[s] = pc[s] /\ clearedHub'[s] = clearedHub[s]
      BY <1>3, <3>1 DEF TypeInv, TypeOK
    <3>5. \A s \in Requests : Valid(mapping[s])' = Valid(mapping[s])
      BY <1>3 DEF Valid, ActiveColumns, MetricColumns
    <3>6. QED
      BY <1>2, <1>3, <3>1, <3>2, <3>3, <3>4, <3>5 DEF LoadsAreSerial, ClearedIsEverythingLoaded
  <2>2. CASE ClearFeatures(r) \/ Load(r)
    <3>1. clearedHub' = clearedHub /\ pc[r] \in {"hub_cleared", "cleared"}
      BY <2>2 DEF ClearFeatures, Load
    <3>2. QED
      BY <1>2, <1>3, <3>1 DEF LoadsAreSerial, ClearedIsEverythingLoaded, TypeInv, TypeOK
  <2>3. QED
    BY <2>1, <2>2
<1>7. QED
  BY <1>1, <1>4, <1>5, <1>6, SerialFrame

\* The configs that load a dataset, after a commit by a holder
LEMMA LoadingConfigsAfter ==
  ASSUME TypeInv, LoadsAreSerial, NEW r \in Requests, pc[r] \in Holding, CommitConfig(r)
  PROVE  \A d : LoadingConfigs(d)' =
           LoadingConfigs(d) \union
             (IF d = ds[r] /\ Valid(mapping[r]) THEN {ConfigRow(r)} ELSE {})
<1>1. configs' = configs \union {ConfigRow(r)} /\ ConfigRow(r).by = r
  BY DEF CommitConfig, ConfigRow
<1>2. ds' = ds /\ mapping' = mapping
  BY DEF CommitConfig, payload
<1>3. \A s : Valid(mapping[s])' = Valid(mapping[s])
  BY <1>2 DEF Valid, ActiveColumns, MetricColumns
<1>4. QED
  BY <1>1, <1>2, <1>3 DEF LoadingConfigs

\* A commit by a holder that leaves other datasets alone, and its own dataset
\* as the newest valid config wants it
LEMMA SerialCommit ==
  ASSUME TypeInv, LoadsAreSerial, NEW r \in Requests, pc[r] \in Holding,
         CommitConfig(r),
         \A x \in hub' : x \in hub \/ x.by = r,
         \A d : LoadedRows(d)' =
           IF d = ds[r] /\ Valid(mapping[r]) THEN RowsOf(r) ELSE LoadedRows(d)
  PROVE  LoadsAreSerial'
<1> DEFINE new == ConfigRow(r)
<1> USE DEF TypeInv
<1>1. /\ configs' = configs \union {new}
      /\ new.by = r /\ new.version = version[r] /\ new.business = BusinessOf[ds[r]]
      /\ pc' = [pc EXCEPT ![r] = "committed"]
      /\ clearedHub' = [clearedHub EXCEPT ![r] = {}]
      /\ UNCHANGED <<kind, ds, mapping, version>>
  BY DEF CommitConfig, GoTo, Close, payload, ConfigRow
<1>2. ds[r] \in Datasets /\ kind[r] = "confirm"
  BY DEF Assigned, LoadsAreSerial, ClearedIsEverythingLoaded
<1>3. /\ VersionsUniqueAndDense'
      /\ \A b : Versions(b)' =
           Versions(b) \union (IF b = BusinessOf[ds[r]] THEN {version[r]} ELSE {})
  BY CommitAppendsVersion DEF LoadsAreSerial
<1>4. RowsRecordTheirRequest'
  <2>1. \A s : ConfigRow(s)' = ConfigRow(s)
    BY <1>1 DEF ConfigRow
  <2>2. ASSUME NEW x \in configs'
        PROVE  /\ pc'[x.by] \in Settled /\ kind'[x.by] = "confirm"
               /\ ds'[x.by] \in Datasets /\ x = ConfigRow(x.by)'
    <3>1. CASE x \in configs
      BY <1>1, <2>1, <3>1 DEF LoadsAreSerial, RowsRecordTheirRequest, Settled, TypeOK, Config
    <3>2. CASE x = new
      BY <1>1, <1>2, <2>1, <3>2 DEF Settled, TypeOK
    <3>3. QED
      BY <1>1, <3>1, <3>2
  <2>3. \A x \in hub' : pc'[x.by] \in Settled
    BY <1>1 DEF LoadsAreSerial, RowsRecordTheirRequest, Settled, TypeOK, HubRow
  <2>4. QED
    BY <2>2, <2>3 DEF RowsRecordTheirRequest
<1>5. VersionFollowsCommitted'
  BY <1>1, <1>3 DEF LoadsAreSerial, VersionFollowsCommitted, TypeOK
<1>6. \A q \in Requests : pc'[q] \in Holding =>
        pc[q] \in Holding /\ ~ SameBusiness(q, r)
  BY <1>1 DEF LoadsAreSerial, OneHolderPerBusiness, TypeOK
<1>7. OneHolderPerBusiness'
  BY <1>1, <1>3, <1>6 DEF LoadsAreSerial, OneHolderPerBusiness, SameBusiness
<1>8. ClearedIsEverythingLoaded'
  <2>1. \A q \in Requests : pc'[q] \in Holding => LoadedRows(ds[q])' = LoadedRows(ds[q])
    <3> SUFFICES ASSUME NEW q \in Requests, pc'[q] \in Holding, NEW d, d = ds[q]
                 PROVE  LoadedRows(d)' = LoadedRows(d)
      BY <1>1 DEF LoadedRows
    <3>1. QED
      BY <1>6 DEF SameBusiness
  <2>2. \A s \in Requests : Valid(mapping[s])' = Valid(mapping[s])
    BY <1>1 DEF Valid, ActiveColumns, MetricColumns
  <2>3. \A q \in Requests \ {r} : pc'[q] = pc[q] /\ clearedHub'[q] = clearedHub[q]
    BY <1>1 DEF TypeOK
  <2>4. pc'[r] = "committed" /\ clearedHub'[r] = {}
    BY <1>1 DEF TypeOK
  <2>5. QED
    BY <1>1, <2>1, <2>2, <2>3, <2>4 DEF LoadsAreSerial, ClearedIsEverythingLoaded
<1>9. HubIsNewestValidConfig'
  <2> SUFFICES ASSUME NEW d \in Datasets
               PROVE  LoadedRows(d)' = UNION {RowsOf(x.by)' : x \in Newest(LoadingConfigs(d))'}
    BY DEF HubIsNewestValidConfig
  <2>1. \A s : RowsOf(s)' = RowsOf(s)
    BY <1>1 DEF RowsOf
  <2>2. CASE d = ds[r] /\ Valid(mapping[r])
    <3>1. LoadingConfigs(d)' = LoadingConfigs(d) \union {new}
      BY <2>2, LoadingConfigsAfter
    <3>2. \A x \in LoadingConfigs(d) : x.version \in Nat /\ x.version < new.version
      <4> SUFFICES ASSUME NEW x \in LoadingConfigs(d)
                   PROVE  x.version \in Nat /\ x.version < new.version
        OBVIOUS
      <4>1. x \in configs /\ ds[x.by] = d /\ x.business = BusinessOf[d]
        BY DEF LoadingConfigs, LoadsAreSerial, RowsRecordTheirRequest, ConfigRow
      <4>2. x.version \in Versions(BusinessOf[ds[r]])
        BY <2>2, <4>1 DEF Versions
      <4>3. QED
        BY <1>1, <4>1, <4>2 DEF LoadsAreSerial, OneHolderPerBusiness, TypeOK, Config
    <3>3. new.version \in Nat
      BY <1>1 DEF TypeOK
    <3>4. Newest(LoadingConfigs(d))' = {new}
      BY <3>1, <3>2, <3>3 DEF Newest
    <3>5. QED
      BY <1>1, <2>1, <2>2, <3>4
  <2>3. CASE ~ (d = ds[r] /\ Valid(mapping[r]))
    <3>1. LoadingConfigs(d)' = LoadingConfigs(d)
      BY <2>3, LoadingConfigsAfter
    <3>2. Newest(LoadingConfigs(d))' = Newest(LoadingConfigs(d))
      BY <3>1 DEF Newest
    <3>3. QED
      BY <2>1, <2>3, <3>2 DEF LoadsAreSerial, HubIsNewestValidConfig
  <2>4. QED
    BY <2>2, <2>3
<1>10. QED
  BY <1>3, <1>4, <1>5, <1>7, <1>8, <1>9 DEF LoadsAreSerial

LEMMA SerialCommitUnloaded ==
  ASSUME TypeInv, LoadsAreSerial, NEW r \in Requests, CommitUnloaded(r)
  PROVE  LoadsAreSerial'
<1>1. /\ pc[r] \in Holding /\ ~ Valid(mapping[r])
      /\ CommitConfig(r) /\ hub' = hub /\ kind' = kind
  BY DEF CommitUnloaded, CommitConfig, payload
<1>2. \A d : LoadedRows(d)' = LoadedRows(d)
  BY <1>1 DEF LoadedRows
<1>3. QED
  BY <1>1, <1>2, SerialCommit

\* A load that has deleted everything loaded before leaves only its own rows.
LEMMA LoadedAfter ==
  ASSUME TypeInv, LoadsAreSerial, NEW r \in Requests, CommitLoaded(r)
  PROVE  \A d : LoadedRows(d)' = IF d = ds[r] THEN RowsOf(r) ELSE LoadedRows(d)
<1>1. /\ pc[r] \in Holding /\ kind' = kind
      /\ hub' = (hub \ clearedHub[r]) \union RowsOf(r)
  BY DEF CommitLoaded, CommitConfig, payload
<1>2. /\ Valid(mapping[r]) /\ kind[r] = "confirm"
      /\ LoadedRows(ds[r]) \subseteq clearedHub[r]
      /\ \A x \in clearedHub[r] : x.ds = ds[r]
  BY <1>1 DEF CommitLoaded, LoadsAreSerial, ClearedIsEverythingLoaded
<1>3. \A x \in RowsOf(r) : x.ds = ds[r] /\ x.by = r
  BY DEF RowsOf
<1>4. QED
  BY <1>1, <1>2, <1>3 DEF LoadedRows

LEMMA SerialCommitLoaded ==
  ASSUME TypeInv, LoadsAreSerial, NEW r \in Requests, CommitLoaded(r)
  PROVE  LoadsAreSerial'
<1>1. /\ pc[r] \in Holding /\ CommitConfig(r)
      /\ hub' = (hub \ clearedHub[r]) \union RowsOf(r)
  BY DEF CommitLoaded
<1>2. Valid(mapping[r])
  BY DEF CommitLoaded, LoadsAreSerial, ClearedIsEverythingLoaded
<1>3. \A x \in hub' : x \in hub \/ x.by = r
  BY <1>1 DEF RowsOf
<1>4. \A d : LoadedRows(d)' = IF d = ds[r] /\ Valid(mapping[r]) THEN RowsOf(r) ELSE LoadedRows(d)
  BY <1>2, LoadedAfter
<1>5. QED
  BY <1>1, <1>3, <1>4, SerialCommit

LEMMA SerialStep == TypeInv /\ LoadsAreSerial /\ [Next]_vars => LoadsAreSerial'
<1> SUFFICES ASSUME TypeInv, LoadsAreSerial, [Next]_vars PROVE LoadsAreSerial'
  OBVIOUS
<1>1. ASSUME NEW d \in Datasets, StartOnboarding(d) PROVE LoadsAreSerial'
  BY <1>1 DEF StartOnboarding, payload, local, LoadsAreSerial, RowsRecordTheirRequest,
     VersionFollowsCommitted, OneHolderPerBusiness, ClearedIsEverythingLoaded,
     VersionsUniqueAndDense, HubIsNewestValidConfig, LoadedRows, LoadingConfigs, Newest,
     Versions, ConfigRow, RowsOf, SameBusiness, Valid, ActiveColumns, MetricColumns
<1>2. ASSUME NEW r \in Requests, NEW d \in Datasets,
             \/ \E m \in Mappings : BeginConfirm(r, d, m)
             \/ \E c \in Columns, t \in Targets : BeginAdd(r, d, c, t)
      PROVE  LoadsAreSerial'
  BY <1>2, SerialBegin
<1>3. ASSUME NEW r \in Requests, ReadVersion(r) PROVE LoadsAreSerial'
  BY <1>3, SerialReadVersion
<1>4. ASSUME NEW r \in Requests, FlushConfirm(r) PROVE LoadsAreSerial'
  BY <1>4, SerialFlush
<1>5. ASSUME NEW r \in Requests, VersionConflict(r) \/ Rollback(r) PROVE LoadsAreSerial'
  BY <1>5, SerialAbort DEF VersionConflict, Rollback
<1>6. ASSUME NEW r \in Requests, ClearHub(r) \/ ClearFeatures(r) \/ Load(r)
      PROVE  LoadsAreSerial'
  BY <1>6, SerialHolderStep
<1>7. ASSUME NEW r \in Requests, CommitUnloaded(r) \/ CommitLoaded(r)
      PROVE  LoadsAreSerial'
  BY <1>7, SerialCommitUnloaded, SerialCommitLoaded
<1>8. ASSUME NEW r \in Requests, Respond(r) \/ LoseResponse(r) PROVE LoadsAreSerial'
  BY <1>8, SerialEnd
<1>9. ASSUME NEW r \in Requests, CommitAdd(r) PROVE LoadsAreSerial'
  BY <1>9, SerialAdd
<1>10. CASE UNCHANGED vars
  BY <1>10 DEF vars, stored, payload, local, LoadsAreSerial, RowsRecordTheirRequest,
     VersionFollowsCommitted, OneHolderPerBusiness, ClearedIsEverythingLoaded,
     VersionsUniqueAndDense, HubIsNewestValidConfig, LoadedRows, LoadingConfigs, Newest,
     Versions, ConfigRow, RowsOf, SameBusiness, Valid, ActiveColumns, MetricColumns
<1>11. QED
  BY <1>1, <1>2, <1>3, <1>4, <1>5, <1>6, <1>7, <1>8, <1>9, <1>10 DEF Next, Confirm

\* The invariant behind the two that follow: confirm_mappings' version read,
\* the unique index and load_to_hub's deletes together run the loads of a
\* business one at a time (LoadsAreSerial).
THEOREM LoadsSerialised == Spec => []LoadsAreSerial
<1>1. Init => TypeInv /\ LoadsAreSerial
  BY TypeInit, SerialInit
<1>2. TypeInv /\ LoadsAreSerial /\ [Next]_vars => (TypeInv /\ LoadsAreSerial)'
  BY TypeStep, SerialStep
<1>3. QED
  BY <1>1, <1>2, PTL DEF Spec

\* Saved config versions of a business are 1 to n without a gap and each saved
\* by one request, for any number of racing confirmations
\* (_next_config_version and the unique index).
THEOREM VersionsAreDense == Spec => []VersionsUniqueAndDense
<1>1. LoadsAreSerial => VersionsUniqueAndDense
  BY DEF LoadsAreSerial
<1>2. QED
  BY <1>1, LoadsSerialised, PTL

\* The rows confirmations have loaded of a dataset are those of its newest
\* valid saved mapping (HubIsNewestValidConfig), although load_to_hub takes no
\* lock between its deletes and its inserts.
THEOREM HubFollowsConfig == Spec => []HubIsNewestValidConfig
<1>1. LoadsAreSerial => HubIsNewestValidConfig
  BY DEF LoadsAreSerial
<1>2. QED
  BY <1>1, LoadsSerialised, PTL

-----------------------------------------------------------------------------
\* Only the two commits of a confirmation save a config or load anything.
LEMMA QuietSteps ==
  ASSUME TypeInv, LoadsAreSerial, [Next]_vars,
         \A r \in Requests : ~ CommitUnloaded(r) /\ ~ CommitLoaded(r)
  PROVE  LoadsNothing
<1> USE DEF TypeInv
<1>1. ASSUME NEW d \in Datasets, StartOnboarding(d) PROVE LoadsNothing
  BY <1>1 DEF StartOnboarding, payload, local, LoadsNothing
<1>2. ASSUME NEW r \in Requests, NEW d \in Datasets,
             \/ \E m \in Mappings : BeginConfirm(r, d, m)
             \/ \E c \in Columns, t \in Targets : BeginAdd(r, d, c, t)
      PROVE  LoadsNothing
  BY <1>2 DEF BeginConfirm, BeginAdd, Accept, GoTo, stored, local, LoadsNothing, TypeOK, Settled
<1>3. ASSUME NEW r \in Requests, ReadVersion(r) \/ FlushConfirm(r) PROVE LoadsNothing
  BY <1>3 DEF ReadVersion, FlushConfirm, GoTo, stored, payload, local, LoadsNothing, TypeOK, Settled
<1>4. ASSUME NEW r \in Requests, VersionConflict(r) \/ Rollback(r) PROVE LoadsNothing
  BY <1>4 DEF VersionConflict, Rollback, Abort, GoTo, stored, LoadsNothing, TypeOK, Settled
<1>5. ASSUME NEW r \in Requests, ClearHub(r) \/ ClearFeatures(r) \/ Load(r) PROVE LoadsNothing
  BY <1>5 DEF ClearHub, ClearFeatures, Load, GoTo, stored, payload, LoadsNothing, TypeOK, Settled
<1>6. ASSUME NEW r \in Requests, Respond(r) \/ LoseResponse(r) PROVE LoadsNothing
  BY <1>6 DEF Respond, LoseResponse, GoTo, stored, payload, local, LoadsNothing, TypeOK, Settled
<1>7. ASSUME NEW r \in Requests, CommitAdd(r) PROVE LoadsNothing
  <2>1. pc[r] = "adding" /\ kind[r] = "add" /\ \A x \in RowsOf(r) : x.by = r
    BY <1>7 DEF CommitAdd, LoadsAreSerial, ClearedIsEverythingLoaded, RowsOf
  <2>2. QED
    BY <1>7, <2>1 DEF CommitAdd, GoTo, payload, local, LoadsNothing, TypeOK, Settled
<1>8. CASE UNCHANGED vars
  BY <1>8 DEF vars, stored, payload, local, LoadsNothing
<1>9. QED
  BY <1>1, <1>2, <1>3, <1>4, <1>5, <1>6, <1>7, <1>8 DEF Next, Confirm

-----------------------------------------------------------------------------
(* The features follow the rows.                                           *)

Collecting == ClearedIsEverythingCollected /\ CollectedFeaturesMatchHub

\* A step that collects nothing, under the conditions of LoadsNothing
LEMMA CollectedFrame ==
  ASSUME TypeInv, LoadsAreSerial, Collecting, LoadsNothing,
         \A d : CollectedFeatures(d)' = CollectedFeatures(d),
         \A s \in Requests :
           \/ clearedFeatures'[s] = {} /\ pc'[s] \notin {"cleared", "loaded"}
           \/ /\ clearedFeatures'[s] = clearedFeatures[s] /\ ds'[s] = ds[s]
              /\ pc'[s] \in {"cleared", "loaded"} => pc[s] \in {"cleared", "loaded"}
           \/ /\ CollectedFeatures(ds[s]) \subseteq clearedFeatures'[s] /\ ds'[s] = ds[s]
              /\ \A f \in clearedFeatures'[s] : f.ds = ds[s]
  PROVE  Collecting'
<1>1. \A d : LoadedRows(d)' = LoadedRows(d)
  BY CommittedFrame DEF LoadsAreSerial
<1>2. CollectedFeaturesMatchHub'
  BY <1>1 DEF Collecting, CollectedFeaturesMatchHub
<1>3. ClearedIsEverythingCollected'
  <2> SUFFICES ASSUME NEW s \in Requests
               PROVE  /\ pc'[s] \in {"cleared", "loaded"} => CollectedFeatures(ds[s])' \subseteq clearedFeatures'[s]
                      /\ \A f \in clearedFeatures'[s] : f.ds = ds'[s]
    BY DEF ClearedIsEverythingCollected
  <2> DEFINE e == ds'[s]
  <2>1. CollectedFeatures(ds[s])' = CollectedFeatures(e)
    BY DEF CollectedFeatures
  <2>2. QED
    BY <2>1 DEF Collecting, ClearedIsEverythingCollected
<1>4. QED
  BY <1>2, <1>3 DEF Collecting

\* A load leaves its own features of a dataset, one for each target it has rows of.
LEMMA FeaturesMatchRows ==
  ASSUME NEW r
  PROVE  {<<f.name, f.by>> : f \in FeaturesOf(r, "collected")} = {<<x.target, x.by>> : x \in RowsOf(r)}
<1> DEFINE S == MetricColumns(mapping[r])
           F(c) == [ds |-> ds[r], name |-> mapping[r][c], status |-> "collected", by |-> r]
           R(c) == [ds |-> ds[r], col |-> c, target |-> mapping[r][c], by |-> r]
           pairs == {<<mapping[r][c], r>> : c \in S}
<1>1. FeaturesOf(r, "collected") = {F(c) : c \in S} /\ RowsOf(r) = {R(c) : c \in S}
  BY Zenon DEF FeaturesOf, RowsOf
<1>2. \A c : <<F(c).name, F(c).by>> = <<mapping[r][c], r>> /\ <<R(c).target, R(c).by>> = <<mapping[r][c], r>>
  OBVIOUS
<1> HIDE DEF F, R, S
<1>3. {<<f.name, f.by>> : f \in {F(c) : c \in S}} = pairs
  <2>1. ASSUME NEW c \in S PROVE <<mapping[r][c], r>> \in {<<f.name, f.by>> : f \in {F(i) : i \in S}}
    <3>1. F(c) \in {F(i) : i \in S}
      OBVIOUS
    <3>2. QED
      BY <1>2, <3>1
  <2>2. ASSUME NEW f \in {F(i) : i \in S} PROVE <<f.name, f.by>> \in pairs
    BY <1>2, <2>2
  <2>3. QED
    BY <2>1, <2>2
<1>4. {<<x.target, x.by>> : x \in {R(c) : c \in S}} = pairs
  <2>1. ASSUME NEW c \in S PROVE <<mapping[r][c], r>> \in {<<x.target, x.by>> : x \in {R(i) : i \in S}}
    <3>1. R(c) \in {R(i) : i \in S}
      OBVIOUS
    <3>2. QED
      BY <1>2, <3>1
  <2>2. ASSUME NEW x \in {R(i) : i \in S} PROVE <<x.target, x.by>> \in pairs
    BY <1>2, <2>2
  <2>3. QED
    BY <2>1, <2>2
<1>5. QED
  BY <1>1, <1>3, <1>4

LEMMA CollectCommit ==
  ASSUME TypeInv, LoadsAreSerial, Collecting, NEW r \in Requests,
         CommitUnloaded(r) \/ CommitLoaded(r)
  PROVE  Collecting'
<1> USE DEF TypeInv
<1>1. /\ CommitConfig(r) /\ pc[r] \in Holding /\ ds' = ds /\ kind' = kind
      /\ pc' = [pc EXCEPT ![r] = "committed"]
      /\ clearedFeatures' = [clearedFeatures EXCEPT ![r] = {}]
  BY DEF CommitUnloaded, CommitLoaded, CommitConfig, GoTo, Close, payload
<1>2. \A d : d # ds[r] => CollectedFeatures(d)' = CollectedFeatures(d)
  <2>1. CASE CommitUnloaded(r)
    BY <2>1 DEF CommitUnloaded, CollectedFeatures
  <2>2. CASE CommitLoaded(r)
    <3>1. /\ \A f \in clearedFeatures[r] : f.ds = ds[r]
          /\ \A f \in FeaturesOf(r, "collected") \union SkippedFeatures(r) : f.ds = ds[r]
      BY DEF Collecting, ClearedIsEverythingCollected, FeaturesOf, SkippedFeatures
    <3>2. QED
      BY <2>2, <3>1 DEF CommitLoaded, CollectedFeatures
  <2>3. QED
    BY <2>1, <2>2
<1>3. \A q \in Requests : q # r /\ pc[q] \in Holding => ds[q] # ds[r]
  BY <1>1 DEF LoadsAreSerial, OneHolderPerBusiness, SameBusiness
<1>4. ClearedIsEverythingCollected'
  <2> SUFFICES ASSUME NEW s \in Requests
               PROVE  /\ pc'[s] \in {"cleared", "loaded"} => CollectedFeatures(ds[s])' \subseteq clearedFeatures'[s]
                      /\ \A f \in clearedFeatures'[s] : f.ds = ds'[s]
    BY DEF ClearedIsEverythingCollected
  <2>1. CASE s = r
    BY <1>1, <2>1 DEF TypeOK
  <2>2. CASE s # r
    <3>1. pc'[s] = pc[s] /\ clearedFeatures'[s] = clearedFeatures[s] /\ ds'[s] = ds[s]
      BY <1>1, <2>2 DEF TypeOK
    <3> DEFINE e == ds[s]
    <3>2. pc[s] \in Holding => CollectedFeatures(e)' = CollectedFeatures(e)
      <4>1. e' = e
        BY <1>1
      <4>2. PICK d : d = ds[s]
        OBVIOUS
      <4>3. pc[s] \in Holding => CollectedFeatures(d)' = CollectedFeatures(d)
        BY <1>2, <1>3, <2>2, <4>2
      <4>4. QED
        BY <4>1, <4>2, <4>3 DEF CollectedFeatures
    <3>3. QED
      BY <3>1, <3>2 DEF Collecting, ClearedIsEverythingCollected
  <2>3. QED
    BY <2>1, <2>2
<1>5. CollectedFeaturesMatchHub'
  <2> SUFFICES ASSUME NEW d \in Datasets
               PROVE  {<<f.name, f.by>> : f \in CollectedFeatures(d)'} = {<<x.target, x.by>> : x \in LoadedRows(d)'}
    BY DEF CollectedFeaturesMatchHub
  <2>1. CASE CommitUnloaded(r)
    BY <1>1, <2>1 DEF CommitUnloaded, CollectedFeatures, LoadedRows, Collecting, CollectedFeaturesMatchHub
  <2>2. CASE CommitLoaded(r) /\ d # ds[r]
    <3>1. CollectedFeatures(d)' = CollectedFeatures(d) /\ LoadedRows(d)' = LoadedRows(d)
      BY <1>2, <2>2, LoadedAfter
    <3>2. QED
      BY <3>1 DEF Collecting, CollectedFeaturesMatchHub
  <2>3. CASE CommitLoaded(r) /\ d = ds[r]
    <3>1. CollectedFeatures(ds[r]) \subseteq clearedFeatures[r]
      BY <2>3 DEF CommitLoaded, Collecting, ClearedIsEverythingCollected
    <3>2. /\ \A f \in FeaturesOf(r, "collected") : f.ds = ds[r] /\ f.status = "collected"
          /\ \A f \in SkippedFeatures(r) : f.status = "skipped"
      BY DEF FeaturesOf, SkippedFeatures
    <3>3. CollectedFeatures(d)' = FeaturesOf(r, "collected")
      BY <2>3, <3>1, <3>2 DEF CommitLoaded, CollectedFeatures
    <3>4. LoadedRows(d)' = RowsOf(r)
      BY <2>3, LoadedAfter
    <3>5. QED
      BY <3>3, <3>4, FeaturesMatchRows
  <2>4. QED
    BY <2>1, <2>2, <2>3
<1>6. QED
  BY <1>4, <1>5 DEF Collecting

LEMMA CollectStep == TypeInv /\ LoadsAreSerial /\ Collecting /\ [Next]_vars => Collecting'
<1> SUFFICES ASSUME TypeInv, LoadsAreSerial, Collecting, [Next]_vars,
                    \A r \in Requests : ~ CommitUnloaded(r) /\ ~ CommitLoaded(r)
             PROVE  Collecting'
  BY CollectCommit
<1> USE DEF TypeInv
<1>1. LoadsNothing
  BY QuietSteps
<1>2. \A s \in Requests : \A f \in clearedFeatures[s] : f.ds = ds[s]
  BY DEF Collecting, ClearedIsEverythingCollected
\* A request that has deleted no features deletes none.
<1>3. ASSUME NEW r \in Requests, pc'[r] \notin {"cleared", "loaded"}, UNCHANGED features,
             \/ clearedFeatures' = [clearedFeatures EXCEPT ![r] = {}]
             \/ UNCHANGED clearedFeatures /\ (clearedFeatures[r] = {} \/ ds'[r] = ds[r]),
             \A s \in Requests \ {r} : pc'[s] = pc[s] /\ ds'[s] = ds[s]
      PROVE  Collecting'
  <2>1. \A d : CollectedFeatures(d)' = CollectedFeatures(d)
    BY <1>3 DEF CollectedFeatures
  <2>2. QED
    BY <1>1, <1>3, <2>1, CollectedFrame DEF TypeOK
<1>4. ASSUME NEW d \in Datasets, StartOnboarding(d) PROVE Collecting'
  BY <1>4 DEF StartOnboarding, payload, local, Collecting, ClearedIsEverythingCollected,
     CollectedFeaturesMatchHub, CollectedFeatures, LoadedRows
<1>5. ASSUME NEW r \in Requests, NEW d \in Datasets,
             \/ \E m \in Mappings : BeginConfirm(r, d, m)
             \/ \E c \in Columns, t \in Targets : BeginAdd(r, d, c, t)
      PROVE  Collecting'
  <2>1. pc[r] = "idle" /\ pc'[r] \in {"confirming", "adding"} /\ UNCHANGED <<features, clearedFeatures>>
    BY <1>5 DEF BeginConfirm, BeginAdd, Accept, GoTo, stored, local, TypeOK
  <2>2. clearedFeatures[r] = {}
    BY <2>1 DEF Assigned
  <2>3. \A s \in Requests \ {r} : pc'[s] = pc[s] /\ ds'[s] = ds[s]
    BY <1>5 DEF BeginConfirm, BeginAdd, Accept, GoTo, TypeOK
  <2>4. QED
    BY <1>3, <2>1, <2>2, <2>3
<1>6. ASSUME NEW r \in Requests, ReadVersion(r) \/ FlushConfirm(r) \/ ClearHub(r) \/ Respond(r) \/ LoseResponse(r)
      PROVE  Collecting'
  BY <1>3, <1>6 DEF ReadVersion, FlushConfirm, ClearHub, Respond, LoseResponse, GoTo, stored, payload, local, TypeOK
<1>7. ASSUME NEW r \in Requests, VersionConflict(r) \/ Rollback(r) PROVE Collecting'
  BY <1>3, <1>7 DEF VersionConflict, Rollback, Abort, Close, GoTo, stored, TypeOK
<1>8. ASSUME NEW r \in Requests, ClearFeatures(r) PROVE Collecting'
  <2>1. /\ UNCHANGED <<features, ds>> /\ pc' = [pc EXCEPT ![r] = "cleared"]
        /\ clearedFeatures' = [clearedFeatures EXCEPT ![r] = {f \in features : f.ds = ds[r]}]
    BY <1>8 DEF ClearFeatures, GoTo, stored, payload
  <2>2. \A d : CollectedFeatures(d)' = CollectedFeatures(d)
    BY <2>1 DEF CollectedFeatures
  <2>3. CollectedFeatures(ds[r]) \subseteq clearedFeatures'[r] /\ \A f \in clearedFeatures'[r] : f.ds = ds[r]
    BY <2>1 DEF CollectedFeatures, TypeOK
  <2>4. \A s \in Requests \ {r} : clearedFeatures'[s] = clearedFeatures[s] /\ ds'[s] = ds[s] /\ pc'[s] = pc[s]
    BY <2>1 DEF TypeOK
  <2>5. QED
    BY <1>1, <2>1, <2>2, <2>3, <2>4, CollectedFrame
<1>9. ASSUME NEW r \in Requests, Load(r) PROVE Collecting'
  <2>1. /\ UNCHANGED <<features, ds, clearedFeatures>> /\ pc[r] = "cleared" /\ pc' = [pc EXCEPT ![r] = "loaded"]
    BY <1>9 DEF Load, GoTo, stored, payload
  <2>2. \A d : CollectedFeatures(d)' = CollectedFeatures(d)
    BY <2>1 DEF CollectedFeatures
  <2>3. \A s \in Requests : pc'[s] \in {"cleared", "loaded"} => pc[s] \in {"cleared", "loaded"}
    BY <2>1 DEF TypeOK
  <2>4. QED
    BY <1>1, <2>1, <2>2, <2>3, CollectedFrame
\* What an add records is not reported as collected.
<1>10. ASSUME NEW r \in Requests, CommitAdd(r) PROVE Collecting'
  <2>1. /\ UNCHANGED <<ds, clearedFeatures>> /\ pc' = [pc EXCEPT ![r] = "done"]
        /\ features' = features \union FeaturesOf(r, "added_later")
    BY <1>10 DEF CommitAdd, GoTo, payload, local
  <2>2. \A f \in FeaturesOf(r, "added_later") : f.status = "added_later"
    BY DEF FeaturesOf
  <2>3. \A d : CollectedFeatures(d)' = CollectedFeatures(d)
    BY <2>1, <2>2 DEF CollectedFeatures
  <2>4. \A s \in Requests : pc'[s] \in {"cleared", "loaded"} => pc[s] \in {"cleared", "loaded"}
    BY <2>1 DEF TypeOK
  <2>5. QED
    BY <1>1, <2>1, <2>3, <2>4, CollectedFrame
<1>11. CASE UNCHANGED vars
  BY <1>11 DEF vars, stored, payload, local, Collecting, ClearedIsEverythingCollected,
     CollectedFeaturesMatchHub, CollectedFeatures, LoadedRows
<1>12. QED
  BY <1>4, <1>5, <1>6, <1>7, <1>8, <1>9, <1>10, <1>11 DEF Next, Confirm

\* The features recorded as collected are those of the rows that are loaded
\* (CollectedFeaturesMatchHub), although load_to_hub deletes the two with
\* statements that see different commits.
THEOREM FeaturesFollowHub == Spec => []CollectedFeaturesMatchHub
<1>1. Init => TypeInv /\ LoadsAreSerial /\ Collecting
  <2>1. Init => Collecting
    BY DEF Init, Collecting, ClearedIsEverythingCollected, CollectedFeaturesMatchHub, CollectedFeatures, LoadedRows
  <2>2. QED
    BY <2>1, TypeInit, SerialInit
<1>2. TypeInv /\ LoadsAreSerial /\ Collecting /\ [Next]_vars => (TypeInv /\ LoadsAreSerial /\ Collecting)'
  BY TypeStep, SerialStep, CollectStep
<1>3. Collecting => CollectedFeaturesMatchHub
  BY DEF Collecting
<1>4. QED
  BY <1>1, <1>2, <1>3, PTL DEF Spec

-----------------------------------------------------------------------------
(* The refinement.                                                         *)

\* What SavedMappings reads: saved configs C, and the datasets D and mappings M
\* of requests
ConfigsOf(C, b) == {y \in C : y.business = b}
VersionsOf(C, b) == {x.version : x \in ConfigsOf(C, b)}
RowOf(C, b, v) == CHOOSE y \in C : y.business = b /\ y.version = v
Entry(D, M, x) == [ds |-> D[x.by], mapping |-> M[x.by]]
HistoryOf(C, D, M, b) ==
  [v \in 1 .. Cardinality(VersionsOf(C, b)) |-> Entry(D, M, RowOf(C, b, v))]

Once(C) == \A x, y \in C : x.business = y.business /\ x.version = y.version => x = y
UpTo(C, b, n) == VersionsOf(C, b) = 1 .. n

\* Each saved once, versions 1 to n: each version has its config.
LEMMA RowIs ==
  ASSUME NEW C, NEW b, NEW n \in Nat, UpTo(C, b, n), Once(C)
  PROVE  /\ \A x \in ConfigsOf(C, b) : x.version \in 1 .. n /\ RowOf(C, b, x.version) = x
         /\ \A v \in 1 .. n : RowOf(C, b, v) \in ConfigsOf(C, b) /\ RowOf(C, b, v).version = v
<1>1. ASSUME NEW v \in 1 .. n
      PROVE  RowOf(C, b, v) \in ConfigsOf(C, b) /\ RowOf(C, b, v).version = v
  <2>1. PICK x \in C : x.business = b /\ x.version = v
    BY <1>1 DEF VersionsOf, ConfigsOf, UpTo
  <2>2. RowOf(C, b, v) \in C /\ RowOf(C, b, v).business = b /\ RowOf(C, b, v).version = v
    BY <2>1 DEF RowOf
  <2>3. QED
    BY <2>2 DEF ConfigsOf
<1>2. ASSUME NEW x \in ConfigsOf(C, b)
      PROVE  x.version \in 1 .. n /\ RowOf(C, b, x.version) = x
  <2>1. x.version \in VersionsOf(C, b)
    BY DEF VersionsOf
  <2>2. x.version \in 1 .. n
    BY <2>1 DEF UpTo
  <2>3. QED
    BY <1>1, <2>2 DEF ConfigsOf, Once
<1>3. QED
  BY <1>1, <1>2

Through(C, D, M, b, n) == [v \in 1 .. n |-> Entry(D, M, RowOf(C, b, v))]

LEMMA HistoryIs ==
  ASSUME NEW C, NEW D, NEW M, NEW b, NEW n \in Nat, UpTo(C, b, n)
  PROVE  HistoryOf(C, D, M, b) = Through(C, D, M, b, n)
<1>1. Cardinality(1 .. n) = n
  BY FS_Interval
<1>2. QED
  BY <1>1 DEF HistoryOf, UpTo, Through

\* A history whose configs and requests stay is kept.
Keeps(C, D, M, C2, D2, M2, b, n) ==
  /\ n \in Nat /\ UpTo(C, b, n) /\ ConfigsOf(C2, b) = ConfigsOf(C, b) /\ Once(C) /\ Once(C2)
  /\ \A x \in ConfigsOf(C, b) : D2[x.by] = D[x.by] /\ M2[x.by] = M[x.by]

LEMMA HistoryKept ==
  ASSUME NEW C, NEW C2, NEW D, NEW D2, NEW M, NEW M2, NEW b, NEW n, Keeps(C, D, M, C2, D2, M2, b, n)
  PROVE  HistoryOf(C2, D2, M2, b) = HistoryOf(C, D, M, b)
<1>0. /\ n \in Nat /\ UpTo(C, b, n) /\ ConfigsOf(C2, b) = ConfigsOf(C, b) /\ Once(C) /\ Once(C2)
      /\ \A x \in ConfigsOf(C, b) : D2[x.by] = D[x.by] /\ M2[x.by] = M[x.by]
  BY DEF Keeps
<1>1. UpTo(C2, b, n)
  BY <1>0 DEF VersionsOf, UpTo
<1>2. ASSUME NEW v \in 1 .. n PROVE Entry(D2, M2, RowOf(C2, b, v)) = Entry(D, M, RowOf(C, b, v))
  <2>1. RowOf(C, b, v) \in ConfigsOf(C, b) /\ RowOf(C, b, v).version = v
    BY <1>0, RowIs
  <2>2. RowOf(C, b, v) \in ConfigsOf(C2, b)
    BY <1>0, <2>1
  <2>3. RowOf(C2, b, RowOf(C, b, v).version) = RowOf(C, b, v)
    BY <1>0, <1>1, <2>2, RowIs
  <2>4. QED
    BY <1>0, <2>1, <2>3 DEF Entry
<1>3. HistoryOf(C, D, M, b) = [v \in 1 .. n |-> Entry(D, M, RowOf(C, b, v))]
  BY <1>0, HistoryIs DEF Through
<1>4. HistoryOf(C2, D2, M2, b) = [v \in 1 .. n |-> Entry(D2, M2, RowOf(C2, b, v))]
  <2>1. HistoryOf(C2, D2, M2, b) = Through(C2, D2, M2, b, n)
    BY <1>0, <1>1, HistoryIs
  <2>2. QED
    BY <2>1 DEF Through
<1>5. QED
  BY <1>2, <1>3, <1>4

\* A config with the next version is appended.
Appends(C, C2, new, b, n) ==
  /\ n \in Nat /\ UpTo(C, b, n) /\ Once(C) /\ Once(C2)
  /\ new.business = b /\ new.version = n + 1 /\ C2 = C \union {new}

LEMMA HistoryAppended ==
  ASSUME NEW C, NEW C2, NEW new, NEW b, NEW n, Appends(C, C2, new, b, n)
  PROVE  \A D, M : HistoryOf(C2, D, M, b) = Append(HistoryOf(C, D, M, b), Entry(D, M, new))
<1> SUFFICES ASSUME NEW D, NEW M,
                    n \in Nat, UpTo(C, b, n), Once(C), Once(C2),
                    new.business = b, new.version = n + 1, C2 = C \union {new}
             PROVE  HistoryOf(C2, D, M, b) = Append(HistoryOf(C, D, M, b), Entry(D, M, new))
  BY DEF Appends
<1>1. ConfigsOf(C2, b) = ConfigsOf(C, b) \union {new}
  BY DEF ConfigsOf
<1>2. UpTo(C2, b, n + 1)
  <2>1. VersionsOf(C2, b) = VersionsOf(C, b) \union {n + 1}
    BY <1>1 DEF VersionsOf
  <2>2. (1 .. n) \union {n + 1} = 1 .. (n + 1)
    OBVIOUS
  <2>3. QED
    BY <2>1, <2>2 DEF UpTo
<1> DEFINE old == HistoryOf(C, D, M, b)
           e == Entry(D, M, new)
           S == {old[v] : v \in 1 .. n} \union {e}
<1>3. old = [v \in 1 .. n |-> Entry(D, M, RowOf(C, b, v))]
  BY HistoryIs DEF Through
<1>4. HistoryOf(C2, D, M, b) = [v \in 1 .. (n + 1) |-> Entry(D, M, RowOf(C2, b, v))]
  <2>1. PICK m \in Nat : m = n + 1
    OBVIOUS
  <2>2. UpTo(C2, b, m)
    BY <1>2, <2>1
  <2>3. HistoryOf(C2, D, M, b) = Through(C2, D, M, b, m)
    BY <2>2, HistoryIs
  <2>4. QED
    BY <2>1, <2>3 DEF Through
<1>5. old \in Seq(S) /\ Len(old) = n
  <2>1. old \in [1 .. n -> S]
    BY <1>3
  <2>2. QED
    BY <2>1
<1>6. e \in S
  OBVIOUS
<1> HIDE DEF old, e, S
<1>7. /\ Append(old, e) \in Seq(S) /\ Len(Append(old, e)) = n + 1
      /\ \A v \in 1 .. n : Append(old, e)[v] = old[v]
      /\ Append(old, e)[n + 1] = e
  BY <1>5, <1>6, AppendProperties
<1>8. Append(old, e) = [v \in 1 .. (n + 1) |-> Append(old, e)[v]]
  <2>1. PICK sq : sq = Append(old, e)
    OBVIOUS
  <2>2. sq = [v \in 1 .. Len(sq) |-> sq[v]]
    BY <1>7, <2>1, LenProperties
  <2>3. QED
    BY <1>7, <2>1, <2>2
<1>9. ASSUME NEW v \in 1 .. (n + 1) PROVE Append(old, e)[v] = Entry(D, M, RowOf(C2, b, v))
  <2>0. n + 1 \in Nat
    OBVIOUS
  <2>1. CASE v \in 1 .. n
    <3>1. RowOf(C, b, v) \in ConfigsOf(C, b) /\ RowOf(C, b, v).version = v
      BY <2>1, RowIs
    <3>2. RowOf(C, b, v) \in ConfigsOf(C2, b)
      BY <1>1, <3>1
    <3>3. RowOf(C2, b, RowOf(C, b, v).version) = RowOf(C, b, v)
      BY <1>2, <2>0, <3>2, RowIs
    <3>4. old[v] = Entry(D, M, RowOf(C, b, v))
      BY <1>3, <2>1
    <3>5. QED
      BY <1>7, <2>1, <3>1, <3>3, <3>4
  <2>2. CASE v = n + 1
    <3>1. new \in ConfigsOf(C2, b)
      BY <1>1
    <3>2. RowOf(C2, b, new.version) = new
      BY <1>2, <2>0, <3>1, RowIs
    <3>3. QED
      BY <1>7, <2>2, <3>2 DEF e
  <2>3. v \in 1 .. n \/ v = n + 1
    BY <1>9
  <2>4. QED
    BY <2>1, <2>2, <2>3
<1>10. Append(old, e) = [v \in 1 .. (n + 1) |-> Entry(D, M, RowOf(C2, b, v))]
  BY <1>8, <1>9
<1>11. QED
  BY <1>4, <1>10 DEF old, e

\* What the refinement needs besides the serial loads: the versions of a business
\* have an end, and what is confirmed is what a client can submit.
Contracted ==
  /\ \A b : \E n \in Nat : Versions(b) = 1 .. n
  /\ \A r \in Requests : pc[r] \in {"confirming", "versioned"} \union Holding => mapping[r] \in Mappings

LEMMA HistoryIsSaved ==
  /\ \A b : SavedMappings(b) = HistoryOf(configs, ds, mapping, b)
  /\ \A b : Versions(b) = VersionsOf(configs, b)
  BY DEF SavedMappings, HistoryOf, Versions, VersionsOf, ConfigsOf, Entry, RowOf

\* Where no config is saved, the history is kept.
LEMMA HistoryFrame ==
  ASSUME TypeInv, LoadsAreSerial, Contracted, LoadsNothing, NEW b
  PROVE  SavedMappings(b)' = SavedMappings(b) /\ Versions(b)' = Versions(b)
<1>1. \A x \in configs : ds'[x.by] = ds[x.by] /\ mapping'[x.by] = mapping[x.by]
  BY DEF TypeInv, TypeOK, Config, LoadsAreSerial, RowsRecordTheirRequest, LoadsNothing
<1>2. PICK n \in Nat : Versions(b) = 1 .. n
  BY DEF Contracted
<1>3. UpTo(configs, b, n) /\ Once(configs) /\ configs' = configs
  BY <1>2, HistoryIsSaved DEF UpTo, Once, LoadsAreSerial, VersionsUniqueAndDense, LoadsNothing
<1>4. HistoryOf(configs', ds', mapping', b) = HistoryOf(configs, ds, mapping, b)
  <2>1. Keeps(configs, ds, mapping, configs', ds', mapping', b, n)
    BY <1>1, <1>3 DEF Keeps, ConfigsOf
  <2>2. QED
    BY <2>1, HistoryKept
<1>5. SavedMappings(b)' = HistoryOf(configs', ds', mapping', b)
  BY DEF SavedMappings, HistoryOf, Versions, VersionsOf, ConfigsOf, Entry, RowOf
<1>6. Versions(b)' = Versions(b)
  BY <1>3 DEF Versions
<1>7. QED
  BY <1>4, <1>5, <1>6, HistoryIsSaved

\* A commit appends its mapping to the history of its business.
LEMMA HistoryCommit ==
  ASSUME TypeInv, LoadsAreSerial, LoadsAreSerial', Contracted, NEW r \in Requests, pc[r] \in Holding, CommitConfig(r),
         NEW b
  PROVE  /\ SavedMappings(b)' = IF b = BusinessOf[ds[r]]
                                 THEN Append(SavedMappings(b), [ds |-> ds[r], mapping |-> mapping[r]])
                                 ELSE SavedMappings(b)
         /\ \E n \in Nat : Versions(b)' = 1 .. n
<1>0. PICK new : new = ConfigRow(r)
  OBVIOUS
<1>1. PICK n \in Nat : Versions(b) = 1 .. n
  BY DEF Contracted
<1>2. /\ configs' = configs \union {new} /\ new.by = r /\ new.version = version[r]
      /\ new.business = BusinessOf[ds[r]] /\ UNCHANGED <<ds, mapping>>
  BY <1>0 DEF CommitConfig, ConfigRow, payload
<1>3. UpTo(configs, b, n) /\ Once(configs) /\ Once(configs')
  BY <1>1, HistoryIsSaved DEF UpTo, Once, LoadsAreSerial, VersionsUniqueAndDense
<1>4. SavedMappings(b)' = HistoryOf(configs', ds, mapping, b)
  BY <1>2 DEF SavedMappings, HistoryOf, Versions, VersionsOf, ConfigsOf, Entry, RowOf
<1>5. CASE b = BusinessOf[ds[r]]
  <2>1. version[r] \in Nat \ {0} /\ version[r] - 1 \in {0} \union (1 .. n) /\ \A v \in 1 .. n : v < version[r]
    BY <1>1, <1>5 DEF TypeInv, TypeOK, Assigned, LoadsAreSerial, VersionFollowsCommitted, OneHolderPerBusiness
  <2>2. version[r] = n + 1
    BY <2>1
  <2>3. HistoryOf(configs', ds, mapping, b) = Append(HistoryOf(configs, ds, mapping, b), Entry(ds, mapping, new))
    <3>1. Appends(configs, configs', new, b, n)
      BY <1>2, <1>3, <1>5, <2>2 DEF Appends
    <3>2. QED
      BY <3>1, HistoryAppended
  <2>4. Entry(ds, mapping, new) = [ds |-> ds[r], mapping |-> mapping[r]]
    BY <1>2 DEF Entry
  <2>5. Versions(b)' = Versions(b) \union {version[r]}
    BY <1>5, CommitAppendsVersion DEF LoadsAreSerial
  <2>6. Versions(b)' = 1 .. (n + 1)
    BY <1>1, <2>2, <2>5
  <2>7. n + 1 \in Nat
    OBVIOUS
  <2>8. SavedMappings(b)' = Append(SavedMappings(b), [ds |-> ds[r], mapping |-> mapping[r]])
    BY <1>4, <2>3, <2>4, HistoryIsSaved
  <2>9. QED
    BY <1>5, <2>6, <2>7, <2>8
<1>6. CASE b # BusinessOf[ds[r]]
  <2>1. ConfigsOf(configs', b) = ConfigsOf(configs, b)
    BY <1>2, <1>6 DEF ConfigsOf
  <2>2. HistoryOf(configs', ds, mapping, b) = HistoryOf(configs, ds, mapping, b)
    <3>1. Keeps(configs, ds, mapping, configs', ds, mapping, b, n)
      BY <1>3, <2>1 DEF Keeps
    <3>2. QED
      BY <3>1, HistoryKept
  <2>3. Versions(b)' = Versions(b)
    <3>1. Versions(b)' = Versions(b) \union (IF b = BusinessOf[ds[r]] THEN {version[r]} ELSE {})
      BY CommitAppendsVersion DEF LoadsAreSerial
    <3>2. QED
      BY <1>6, <3>1
  <2>4. SavedMappings(b)' = SavedMappings(b)
    BY <1>4, <2>2, HistoryIsSaved
  <2>5. \E k \in Nat : Versions(b)' = 1 .. k
    BY <1>1, <2>3
  <2>6. QED
    BY <1>6, <2>4, <2>5
<1>7. QED
  BY <1>5, <1>6

\* What is confirmed is what a client can submit, and versions have an end.
LEMMA ContractedStep == TypeInv /\ LoadsAreSerial /\ LoadsAreSerial' /\ Contracted /\ [Next]_vars => Contracted'
<1> SUFFICES ASSUME TypeInv, LoadsAreSerial, LoadsAreSerial', Contracted, [Next]_vars PROVE Contracted'
  OBVIOUS
<1>1. ASSUME NEW b PROVE \E n \in Nat : Versions(b)' = 1 .. n
  <2>1. CASE \E r \in Requests : CommitUnloaded(r) \/ CommitLoaded(r)
    <3>1. PICK r \in Requests : pc[r] \in Holding /\ CommitConfig(r)
      BY <2>1 DEF CommitUnloaded, CommitLoaded
    <3>2. QED
      BY <3>1, HistoryCommit
  <2>2. CASE \A r \in Requests : ~ CommitUnloaded(r) /\ ~ CommitLoaded(r)
    <3>1. LoadsNothing
      BY <2>2, QuietSteps
    <3>2. Versions(b)' = Versions(b)
      BY <3>1, HistoryFrame
    <3>3. QED
      BY <3>2 DEF Contracted
  <2>3. QED
    BY <2>1, <2>2
<1> DEFINE Submitted == {"confirming", "versioned"} \union Holding
<1>2. ASSUME NEW s \in Requests, pc'[s] \in Submitted PROVE mapping'[s] \in Mappings
  <2>1. CASE pc[s] \in Submitted /\ mapping'[s] = mapping[s]
    BY <2>1 DEF Contracted
  <2>2. CASE \E r \in Requests, d \in Datasets, m \in Mappings : BeginConfirm(r, d, m)
    <3>1. PICK r \in Requests, d \in Datasets, m \in Mappings : BeginConfirm(r, d, m)
      BY <2>2
    <3>2. pc' = [pc EXCEPT ![r] = "confirming"] /\ mapping' = [mapping EXCEPT ![r] = m]
      BY <3>1 DEF BeginConfirm, Accept, GoTo
    <3>3. QED
      BY <1>2, <2>1, <3>2 DEF TypeInv, TypeOK
  <2>3. CASE \E r \in Requests, d \in Datasets, c \in Columns, t \in Targets : BeginAdd(r, d, c, t)
    <3>1. PICK r \in Requests, d \in Datasets, c \in Columns, t \in Targets : BeginAdd(r, d, c, t)
      BY <2>3
    <3>2. pc' = [pc EXCEPT ![r] = "adding"] /\ mapping' = [mapping EXCEPT ![r] = JustColumn(c, t)]
      BY <3>1 DEF BeginAdd, Accept, GoTo
    <3>3. QED
      BY <1>2, <2>1, <3>2 DEF TypeInv, TypeOK
  <2>4. ASSUME NEW r \in Requests, Abort(r) PROVE mapping'[s] \in Mappings
    <3>1. pc' = [pc EXCEPT ![r] = "failed"] /\ mapping' = [mapping EXCEPT ![r] = NothingListed]
      BY <2>4 DEF Abort, GoTo
    <3>2. QED
      BY <1>2, <2>1, <3>1 DEF TypeInv, TypeOK
  <2>5. ASSUME NEW r \in Requests,
               ReadVersion(r) \/ FlushConfirm(r) \/ ClearHub(r) \/ ClearFeatures(r) \/ Load(r)
        PROVE  mapping'[s] \in Mappings
    <3>1. mapping' = mapping /\ pc[r] \in Submitted /\ \E step \in Steps : pc' = [pc EXCEPT ![r] = step]
      BY <2>5 DEF ReadVersion, FlushConfirm, ClearHub, ClearFeatures, Load, GoTo, payload
    <3>2. QED
      BY <1>2, <2>1, <3>1 DEF TypeInv, TypeOK
  <2>6. ASSUME NEW r \in Requests,
               CommitUnloaded(r) \/ CommitLoaded(r) \/ Respond(r) \/ LoseResponse(r) \/ CommitAdd(r)
        PROVE  mapping'[s] \in Mappings
    <3>1. mapping' = mapping /\ \E step \in Steps \ Submitted : pc' = [pc EXCEPT ![r] = step]
      BY <2>6 DEF CommitUnloaded, CommitLoaded, CommitConfig, Respond, LoseResponse, CommitAdd, GoTo, payload
    <3>2. QED
      BY <1>2, <2>1, <3>1 DEF TypeInv, TypeOK
  <2>7. ASSUME NEW d \in Datasets, StartOnboarding(d) PROVE mapping'[s] \in Mappings
    BY <1>2, <2>1, <2>7 DEF StartOnboarding, payload
  <2>8. CASE UNCHANGED vars
    BY <1>2, <2>1, <2>8 DEF vars, payload
  <2>9. QED
    BY <2>2, <2>3, <2>4, <2>5, <2>6, <2>7, <2>8 DEF Next, Confirm, VersionConflict, Rollback
<1>3. QED
  BY <1>1, <1>2 DEF Contracted

\* The content of a dataset as the contract sees it
ContentOf(d) == {<<x.col, x.target>> : x \in LoadedRows(d)}
abstract == <<[b \in Businesses |-> SavedMappings(b)], [d \in Datasets |-> ContentOf(d)]>>

LEMMA ContentOfRows ==
  ASSUME NEW r, NEW d, LoadedRows(d)' = RowsOf(r)
  PROVE  ContentOf(d)' = Contract!Collected(mapping[r])
<1> DEFINE S == MetricColumns(mapping[r])
           R(c) == [ds |-> ds[r], col |-> c, target |-> mapping[r][c], by |-> r]
<1>1. RowsOf(r) = {R(c) : c \in S}
  BY Zenon DEF RowsOf
<1>2. \A c : <<R(c).col, R(c).target>> = <<c, mapping[r][c]>>
  OBVIOUS
<1>3. Contract!Collected(mapping[r]) = {<<c, mapping[r][c]>> : c \in S}
  BY DEF Contract!Collected, Contract!MetricColumns, MetricColumns
<1> HIDE DEF R, S
<1>4. {<<x.col, x.target>> : x \in {R(c) : c \in S}} = {<<c, mapping[r][c]>> : c \in S}
  <2>1. ASSUME NEW c \in S PROVE <<c, mapping[r][c]>> \in {<<x.col, x.target>> : x \in {R(i) : i \in S}}
    <3>1. R(c) \in {R(i) : i \in S}
      OBVIOUS
    <3>2. QED
      BY <1>2, <3>1
  <2>2. ASSUME NEW x \in {R(i) : i \in S} PROVE <<x.col, x.target>> \in {<<c, mapping[r][c]>> : c \in S}
    BY <1>2, <2>2
  <2>3. QED
    BY <2>1, <2>2
<1>5. ContentOf(d)' = {<<x.col, x.target>> : x \in LoadedRows(d)'}
  BY DEF ContentOf
<1>6. QED
  BY <1>1, <1>3, <1>4, <1>5

\* A commit is the contract's confirmation; every other step is none to it.
LEMMA ContractStep ==
  ASSUME TypeInv, LoadsAreSerial, LoadsAreSerial', Contracted, [Next]_vars
  PROVE  [Contract!Next]_abstract
<1> DEFINE H == [b \in Businesses |-> SavedMappings(b)]
           K == [d \in Datasets |-> ContentOf(d)]
<1>1. CASE \A r \in Requests : ~ CommitUnloaded(r) /\ ~ CommitLoaded(r)
  <2>1. LoadsNothing
    BY <1>1, QuietSteps
  <2>2. \A b : SavedMappings(b)' = SavedMappings(b)
    BY <2>1, HistoryFrame
  <2>3. \A d : ContentOf(d)' = ContentOf(d)
    BY <2>1, CommittedFrame DEF LoadsAreSerial, ContentOf
  <2>4. H' = H
    BY <2>2
  <2>5. K' = K
    BY <2>3
  <2>6. QED
    BY <2>4, <2>5 DEF abstract
<1>2. CASE \E r \in Requests : CommitUnloaded(r) \/ CommitLoaded(r)
  <2>1. PICK r \in Requests : CommitUnloaded(r) \/ CommitLoaded(r)
    BY <1>2
  <2>2. pc[r] \in Holding /\ CommitConfig(r) /\ (CommitUnloaded(r) <=> ~ Valid(mapping[r]))
    BY <2>1 DEF CommitUnloaded, CommitLoaded, LoadsAreSerial, ClearedIsEverythingLoaded
  <2>3. PICK d, m : d = ds[r] /\ m = mapping[r]
    OBVIOUS
  <2>4. d \in Datasets /\ m \in Contract!Mappings /\ BusinessOf[d] \in Businesses
    BY <2>2, <2>3, OnboardingAssumption
    DEF TypeInv, Assigned, Contracted, Contract!Mappings, Mappings, Contract!Decisions, Contract!Roles
  <2>5. \A b : SavedMappings(b)' = IF b = BusinessOf[d] THEN Append(SavedMappings(b), [ds |-> d, mapping |-> m])
                                                        ELSE SavedMappings(b)
    BY <2>2, <2>3, HistoryCommit
  <2>6. H' = [H EXCEPT ![BusinessOf[d]] = Append(@, [ds |-> d, mapping |-> m])]
    BY <2>4, <2>5
  <2>7. Contract!Valid(m) <=> Valid(m)
    BY DEF Contract!Valid, Valid, Contract!ActiveColumns, ActiveColumns, Contract!MetricColumns, MetricColumns
  <2>8. \A e : ContentOf(e)' = IF e = d /\ Valid(m) THEN Contract!Collected(m) ELSE ContentOf(e)
    <3>1. CASE CommitUnloaded(r)
      <4>1. \A e : ContentOf(e)' = ContentOf(e)
        BY <3>1 DEF CommitUnloaded, CommitConfig, payload, ContentOf, LoadedRows
      <4>2. ~ Valid(m)
        BY <2>2, <2>3, <3>1
      <4>3. QED
        BY <4>1, <4>2
    <3>2. CASE CommitLoaded(r)
      <4>1. \A e : LoadedRows(e)' = IF e = ds[r] THEN RowsOf(r) ELSE LoadedRows(e)
        BY <3>2, LoadedAfter
      <4>2. Valid(m)
        BY <2>2, <2>3, <3>2 DEF CommitLoaded, LoadsAreSerial, ClearedIsEverythingLoaded
      <4>3. ASSUME NEW e PROVE ContentOf(e)' = IF e = d THEN Contract!Collected(m) ELSE ContentOf(e)
        <5>1. CASE e = d
          BY <2>3, <4>1, <5>1, ContentOfRows
        <5>2. CASE e # d
          BY <2>3, <4>1, <5>2 DEF ContentOf
        <5>3. QED
          BY <5>1, <5>2
      <4>4. QED
        BY <4>2, <4>3
    <3>3. QED
      BY <2>1, <3>1, <3>2
  <2>9. K' = [K EXCEPT ![d] = IF Contract!Valid(m) THEN Contract!Collected(m) ELSE @]
    BY <2>4, <2>7, <2>8
  <2>10. Contract!Confirm(d, m)
    BY <2>6, <2>9 DEF Contract!Confirm, ContentOf
  <2>11. QED
    BY <2>4, <2>10 DEF Contract!Next
<1>3. QED
  BY <1>1, <1>2

\* Onboarding implements the contract: seen through its committed rows, every
\* commit of confirm_onboarding is one confirmation that takes effect at once, in
\* version order, and no other step changes what the contract shows.
THEOREM OnboardingImplementsContract == Spec => ImplementsContract
<1>1. Init => TypeInv /\ LoadsAreSerial /\ Contracted
  <2>1. Init => \A b : Versions(b) = 1 .. 0
    BY DEF Init, Versions
  <2>2. Init => Contracted
    BY <2>1 DEF Init, Contracted
  <2>3. QED
    BY <2>2, TypeInit, SerialInit
<1>2. TypeInv /\ LoadsAreSerial /\ Contracted /\ [Next]_vars => (TypeInv /\ LoadsAreSerial /\ Contracted)'
  BY TypeStep, SerialStep, ContractedStep
<1>3. Init => Contract!Init
  <2>1. SUFFICES ASSUME Init PROVE Contract!Init
    OBVIOUS
  <2>2. ASSUME NEW b PROVE SavedMappings(b) = << >>
    <3>1. Versions(b) = {}
      BY <2>1 DEF Init, Versions
    <3>2. Cardinality(Versions(b)) = 0
      BY <3>1, FS_EmptySet
    <3>3. QED
      BY <3>2 DEF SavedMappings
  <2>3. \A d : {<<x.col, x.target>> : x \in LoadedRows(d)} = {}
    BY <2>1 DEF Init, LoadedRows
  <2>4. QED
    BY <2>2, <2>3 DEF Contract!Init
<1>4. TypeInv /\ LoadsAreSerial /\ Contracted /\ (LoadsAreSerial /\ TypeInv)' /\ [Next]_vars => [Contract!Next]_abstract
  BY ContractStep
<1>5. QED
  BY <1>1, <1>2, <1>3, <1>4, PTL DEF Spec, ImplementsContract, Contract!Spec, abstract, ContentOf

-----------------------------------------------------------------------------
(* The review screen agrees with the hub in plain use                      *)

SavedFor(d) == {y \in configs : ds[y.by] = d}
Plain == PlainUse /\ PlainReviewMatchesHub

\* What is saved and loaded before a step is still said of the same requests.
SettledKept ==
  \A s \in Requests : pc[s] \in Settled =>
    kind'[s] = kind[s] /\ ds'[s] = ds[s] /\ mapping'[s] = mapping[s]

LEMMA WriterIsSettled ==
  ASSUME TypeInv, LoadsAreSerial
  PROVE  /\ \A x \in configs : x.by \in Requests /\ pc[x.by] \in Settled
         /\ \A x \in hub : x.by \in Requests /\ pc[x.by] \in Settled
  BY DEF TypeInv, TypeOK, Config, HubRow, LoadsAreSerial, RowsRecordTheirRequest

\* A column whose rows and status are left alone keeps the rows it is said to have.
LEMMA ColumnKept ==
  ASSUME TypeInv, LoadsAreSerial, SettledKept,
         NEW d \in Datasets, NEW x \in configs, NEW c \in Columns,
         ColumnMatchesHub(d, x, c),
         status'[d][c] = status[d][c],
         \A row : row \in hub' /\ row.ds = d /\ row.col = c <=> row \in hub /\ row.ds = d /\ row.col = c,
         \A f \in features : f.ds = d => f \in features'
  PROVE  ColumnMatchesHub(d, x, c)'
<1>1. {row \in hub' : row.ds = d /\ row.col = c} = {row \in hub : row.ds = d /\ row.col = c}
  OBVIOUS
<1>2. RowsOf(x.by)' = RowsOf(x.by)
  BY WriterIsSettled DEF SettledKept, RowsOf, MetricColumns
<1>3. ASSUME NEW row \in AddedRows(d), {z \in hub : z.ds = d /\ z.col = c} = {row}
      PROVE  row \in AddedRows(d)'
  <2>1. row \in hub /\ row.ds = d /\ row.col = c /\ kind[row.by] = "add"
    BY <1>3 DEF AddedRows
  <2>2. row \in hub' /\ kind'[row.by] = "add"
    BY <2>1, WriterIsSettled DEF SettledKept
  <2> QED BY <2>1, <2>2 DEF AddedRows
<1>4. CASE status[d][c] = "confirmed"
  BY <1>1, <1>2, <1>4 DEF ColumnMatchesHub
<1>5. CASE status[d][c] = "skipped"
  BY <1>1, <1>5 DEF ColumnMatchesHub
<1>6. CASE status[d][c] = "added_later"
  <2>1. PICK row \in AddedRows(d) :
          /\ {z \in hub : z.ds = d /\ z.col = c} = {row}
          /\ [ds |-> d, name |-> row.target, status |-> "added_later", by |-> row.by] \in features
    BY <1>6 DEF ColumnMatchesHub
  <2>2. [ds |-> d, name |-> row.target, status |-> "added_later", by |-> row.by] \in features'
    BY <2>1
  <2>3. row \in AddedRows(d)' /\ {z \in hub' : z.ds = d /\ z.col = c} = {row}
    BY <1>1, <1>3, <2>1
  <2> QED BY <1>6, <2>2, <2>3 DEF ColumnMatchesHub
<1> QED BY <1>4, <1>5, <1>6 DEF ColumnMatchesHub

\* The last config saved for a dataset, when none is saved for it
LEMMA NewestKept ==
  ASSUME TypeInv, LoadsAreSerial, SettledKept, configs' = configs
  PROVE  \A d : Newest(SavedFor(d))' = Newest(SavedFor(d))
<1>1. \A d : SavedFor(d)' = SavedFor(d)
  BY WriterIsSettled DEF SavedFor, SettledKept
<1> QED BY <1>1 DEF Newest

\* A step that saves nothing, and changes the columns it changes as they should be
LEMMA ReviewKept ==
  ASSUME TypeInv, LoadsAreSerial, SettledKept, ReviewMatchesHub, configs' = configs,
         \A d \in Datasets, x \in configs, c \in Columns :
           ColumnMatchesHub(d, x, c) => ColumnMatchesHub(d, x, c)'
  PROVE  ReviewMatchesHub'
<1> SUFFICES ASSUME NEW d \in Datasets, NEW x \in Newest(SavedFor(d))',
                    Valid(mapping[x.by])', Complete(mapping[x.by])', NEW c \in Columns
             PROVE  ColumnMatchesHub(d, x, c)'
  BY DEF ReviewMatchesHub, SavedFor
<1>1. x \in Newest(SavedFor(d)) /\ x \in configs
  BY NewestKept DEF Newest, SavedFor
<1>2. mapping'[x.by] = mapping[x.by]
  BY <1>1, WriterIsSettled DEF SettledKept
<1>3. Valid(mapping[x.by]) /\ Complete(mapping[x.by])
  BY <1>2 DEF Valid, Complete, ActiveColumns, MetricColumns
<1> QED BY <1>1, <1>3 DEF ReviewMatchesHub, SavedFor

\* A step that leaves the committed rows as they are
LEMMA RowsKept ==
  ASSUME TypeInv, LoadsAreSerial, SettledKept, ReviewMatchesHub,
         UNCHANGED <<configs, status, hub, features>>
  PROVE  ReviewMatchesHub'
<1>1. ASSUME NEW d \in Datasets, NEW x \in configs, NEW c \in Columns, ColumnMatchesHub(d, x, c)
      PROVE  ColumnMatchesHub(d, x, c)'
  BY <1>1, ColumnKept
<1> QED BY <1>1, ReviewKept

-----------------------------------------------------------------------------
(* The commits                                                             *)

\* An add that nothing has come between finds its column without rows and leaves
\* it with its own.
LEMMA AddReviewed ==
  ASSUME TypeInv, LoadsAreSerial, ReviewMatchesHub, NEW r \in Requests, Undisturbed(r), CommitAdd(r)
  PROVE  ReviewMatchesHub'
<1> DEFINE metric == MetricColumns(mapping[r])
<1>1. /\ pc[r] = "adding" /\ kind[r] = "add" /\ ds[r] \in Datasets
      /\ hub' = hub \union RowsOf(r) /\ features' = features \union FeaturesOf(r, "added_later")
      /\ UNCHANGED <<configs, kind, ds, mapping>>
  BY DEF CommitAdd, payload, TypeInv, Assigned, LoadsAreSerial, ClearedIsEverythingLoaded
<1>2. /\ \A c \in metric : status'[ds[r]][c] = "added_later"
      /\ \A d \in Datasets, c \in Columns : d # ds[r] \/ c \notin metric => status'[d][c] = status[d][c]
      /\ metric \subseteq Columns
  BY <1>1 DEF CommitAdd, MetricColumns, TypeInv, TypeOK
<1>3. SettledKept
  BY <1>1 DEF SettledKept
<1>4. ASSUME NEW d \in Datasets, NEW x \in configs, NEW c \in Columns, ColumnMatchesHub(d, x, c),
             d # ds[r] \/ c \notin metric
      PROVE  ColumnMatchesHub(d, x, c)'
  <2>1. \A row \in RowsOf(r) : row.ds # d \/ row.col # c
    BY <1>4 DEF RowsOf
  <2>2. \A row : row \in hub' /\ row.ds = d /\ row.col = c <=> row \in hub /\ row.ds = d /\ row.col = c
    BY <1>1, <2>1
  <2> QED BY <1>1, <1>2, <1>3, <1>4, <2>2, ColumnKept
<1>5. ASSUME NEW d \in Datasets, NEW x \in configs, NEW c \in Columns, ColumnMatchesHub(d, x, c),
             d = ds[r], c \in metric
      PROVE  ColumnMatchesHub(d, x, c)'
  <2> DEFINE new == [ds |-> ds[r], col |-> c, target |-> mapping[r][c], by |-> r]
             feature == [ds |-> ds[r], name |-> mapping[r][c], status |-> "added_later", by |-> r]
  <2>1. status[d][c] = "skipped"
    BY <1>1, <1>5 DEF Undisturbed
  <2>2. {row \in hub : row.ds = d /\ row.col = c} = {}
    BY <1>5, <2>1 DEF ColumnMatchesHub
  <2>3. new \in RowsOf(r) /\ feature \in FeaturesOf(r, "added_later")
    BY <1>5 DEF RowsOf, FeaturesOf
  <2>4. \A row \in RowsOf(r) : row.col = c => row = new
    BY DEF RowsOf
  <2>5. new.ds = d /\ new.col = c /\ new.by = r /\ feature = [ds |-> d, name |-> new.target, status |-> "added_later", by |-> new.by]
    BY <1>5
  <2> HIDE DEF new, feature
  <2>6. {row \in hub' : row.ds = d /\ row.col = c} = {new}
    BY <1>1, <2>2, <2>3, <2>4, <2>5
  <2>7. new \in AddedRows(d)' /\ feature \in features'
    BY <1>1, <2>3, <2>5 DEF AddedRows
  <2>8. status'[d][c] = "added_later"
    BY <1>2, <1>5
  <2> QED BY <2>5, <2>6, <2>7, <2>8 DEF ColumnMatchesHub
<1> QED BY <1>1, <1>3, <1>4, <1>5, ReviewKept

\* The config that a commit saves is the last of its dataset.
LEMMA NewestAfter ==
  ASSUME TypeInv, LoadsAreSerial, NEW r \in Requests, pc[r] \in Holding, CommitConfig(r)
  PROVE  \A d : Newest(SavedFor(d))' = IF d = ds[r] THEN {ConfigRow(r)} ELSE Newest(SavedFor(d))
<1> SUFFICES ASSUME NEW d PROVE Newest(SavedFor(d))' = IF d = ds[r] THEN {ConfigRow(r)} ELSE Newest(SavedFor(d))
  OBVIOUS
<1> DEFINE new == ConfigRow(r)
<1>1. configs' = configs \union {new} /\ new.by = r /\ new.version = version[r] /\ ds' = ds
  BY DEF CommitConfig, ConfigRow, payload
<1>2. version[r] \in Nat
  BY DEF TypeInv, TypeOK
<1> HIDE DEF new
<1>3. SavedFor(d)' = SavedFor(d) \union (IF d = ds[r] THEN {new} ELSE {})
  BY <1>1 DEF SavedFor
<1>4. ASSUME NEW x \in SavedFor(ds[r]) PROVE x.version \in Nat /\ x.version < version[r]
  <2>1. x \in configs /\ x.business = BusinessOf[ds[r]]
    BY DEF SavedFor, LoadsAreSerial, RowsRecordTheirRequest, ConfigRow
  <2>2. x.version \in Versions(BusinessOf[ds[r]])
    BY <2>1 DEF Versions
  <2> QED BY <2>1, <2>2 DEF LoadsAreSerial, OneHolderPerBusiness, TypeInv, TypeOK, Config
<1>5. CASE d = ds[r]
  BY <1>1, <1>2, <1>3, <1>4, <1>5 DEF Newest, new
<1>6. CASE d # ds[r]
  BY <1>3, <1>6 DEF Newest
<1> QED BY <1>5, <1>6

\* A commit that leaves other datasets alone, and of its own dataset what the
\* screen says, if it has loaded it
LEMMA CommitReviewed ==
  ASSUME TypeInv, LoadsAreSerial, ReviewMatchesHub, NEW r \in Requests, pc[r] \in Holding,
         CommitConfig(r),
         \A row : row.ds # ds[r] => (row \in hub' <=> row \in hub),
         \A f \in features : f.ds # ds[r] => f \in features',
         Valid(mapping[r]) /\ Complete(mapping[r]) =>
           \A c \in Columns : ColumnMatchesHub(ds[r], ConfigRow(r), c)'
  PROVE  ReviewMatchesHub'
<1>1. UNCHANGED <<kind, ds, mapping, version>> /\ status' = [status EXCEPT ![ds[r]] = StatusAfter(r)]
  BY DEF CommitConfig, payload
<1>2. SettledKept
  BY <1>1 DEF SettledKept
<1> SUFFICES ASSUME NEW d \in Datasets, NEW x \in Newest(SavedFor(d))',
                    Valid(mapping[x.by])', Complete(mapping[x.by])', NEW c \in Columns
             PROVE  ColumnMatchesHub(d, x, c)'
  BY DEF ReviewMatchesHub, SavedFor
<1>3. Valid(mapping[x.by]) /\ Complete(mapping[x.by])
  BY <1>1 DEF Valid, Complete, ActiveColumns, MetricColumns
<1>4. CASE d = ds[r]
  <2>1. x = ConfigRow(r) /\ x.by = r
    BY <1>4, NewestAfter DEF ConfigRow
  <2>2. ColumnMatchesHub(ds[r], ConfigRow(r), c)'
    BY <1>3, <2>1
  <2>3. ConfigRow(r)' = ConfigRow(r)
    BY <1>1 DEF ConfigRow
  <2> QED BY <1>1, <1>4, <2>1, <2>2, <2>3
<1>5. CASE d # ds[r]
  <2>1. x \in Newest(SavedFor(d)) /\ x \in configs
    BY <1>5, NewestAfter DEF Newest, SavedFor
  <2>2. ColumnMatchesHub(d, x, c)
    BY <1>3, <2>1 DEF ReviewMatchesHub, SavedFor
  <2>3. status'[d][c] = status[d][c]
    BY <1>1, <1>5 DEF TypeInv, TypeOK
  <2> QED BY <1>2, <1>5, <2>1, <2>2, <2>3, ColumnKept
<1> QED BY <1>4, <1>5

LEMMA UnloadedReviewed ==
  ASSUME TypeInv, LoadsAreSerial, ReviewMatchesHub, NEW r \in Requests, CommitUnloaded(r)
  PROVE  ReviewMatchesHub'
<1>1. pc[r] \in Holding /\ CommitConfig(r) /\ ~ Valid(mapping[r]) /\ UNCHANGED <<hub, features>>
  BY DEF CommitUnloaded
<1>2. /\ \A row : row.ds # ds[r] => (row \in hub' <=> row \in hub)
      /\ \A f \in features : f.ds # ds[r] => f \in features'
  BY <1>1
<1>3. Valid(mapping[r]) /\ Complete(mapping[r]) =>
        \A c \in Columns : ColumnMatchesHub(ds[r], ConfigRow(r), c)'
  BY <1>1
<1> QED BY <1>1, <1>2, <1>3, CommitReviewed

\* A load that nothing has come between leaves of its dataset its own rows, and the
\* statuses its mapping asks for.
LEMMA LoadReviewed ==
  ASSUME TypeInv, LoadsAreSerial, Collecting, ReviewMatchesHub,
         NEW r \in Requests, Undisturbed(r), CommitLoaded(r)
  PROVE  ReviewMatchesHub'
<1>1. /\ pc[r] = "loaded" /\ CommitConfig(r) /\ ds[r] \in Datasets /\ kind[r] = "confirm"
      /\ hub' = (hub \ clearedHub[r]) \union RowsOf(r)
      /\ features' = (features \ clearedFeatures[r])
                       \union FeaturesOf(r, "collected") \union SkippedFeatures(r)
      /\ status' = [status EXCEPT ![ds[r]] = StatusAfter(r)] /\ UNCHANGED <<ds, mapping, version>>
  BY DEF CommitLoaded, CommitConfig, payload, TypeInv, Assigned, LoadsAreSerial, ClearedIsEverythingLoaded
<1>2. /\ \A x \in clearedHub[r] : x.ds = ds[r]
      /\ \A f \in clearedFeatures[r] : f.ds = ds[r]
      /\ \A x \in hub : x.ds = ds[r] => x \in clearedHub[r]
      /\ \A x \in RowsOf(r) : x.ds = ds[r]
  BY <1>1 DEF LoadsAreSerial, ClearedIsEverythingLoaded, Collecting, ClearedIsEverythingCollected,
              Undisturbed, RowsOf
<1>3. \A row : row.ds # ds[r] => (row \in hub' <=> row \in hub)
  BY <1>1, <1>2
<1>4. \A f \in features : f.ds # ds[r] => f \in features'
  BY <1>1, <1>2
<1>5. ASSUME Complete(mapping[r]), NEW c \in Columns
      PROVE  ColumnMatchesHub(ds[r], ConfigRow(r), c)'
  <2>1. StatusAfter(r)[c] = StatusFor(mapping[r][c])
    BY <1>1, <1>5 DEF StatusAfter, Dirty, Undisturbed, Complete
  <2>2. status'[ds[r]][c] = StatusFor(mapping[r][c])
    BY <1>1, <2>1 DEF TypeInv, TypeOK
  <2>3. {row \in hub' : row.ds = ds[r] /\ row.col = c} = {row \in RowsOf(r) : row.col = c}
    BY <1>1, <1>2
  <2>4. RowsOf(ConfigRow(r).by)' = RowsOf(r)
    BY <1>1 DEF ConfigRow, RowsOf, MetricColumns
  <2>5. CASE mapping[r][c] # "skip"
    <3>1. status'[ds[r]][c] = "confirmed"
      BY <2>2, <2>5 DEF StatusFor
    <3> QED BY <1>1, <2>3, <2>4, <3>1 DEF ColumnMatchesHub
  <2>6. CASE mapping[r][c] = "skip"
    <3>1. status'[ds[r]][c] = "skipped" /\ c \in skipped[r]
      <4>1. StatusAfter(r)[c] = "skipped" /\ status'[ds[r]][c] = "skipped"
        BY <2>1, <2>2, <2>6 DEF StatusFor
      <4>2. c \in skipped[r]
        BY <1>1, <4>1 DEF Undisturbed
      <4> QED BY <4>1, <4>2
    <3>2. c \notin MetricColumns(mapping[r])
      BY <2>6, MappingAssumption DEF MetricColumns
    <3>3. {row \in RowsOf(r) : row.col = c} = {}
      BY <3>2 DEF RowsOf
    <3> DEFINE f == [ds |-> ds[r], name |-> c, status |-> "skipped", by |-> r]
    <3>4. f \in features'
      BY <1>1, <3>1 DEF SkippedFeatures
    <3>5. f.ds = ds[r] /\ f.name = c /\ f.status = "skipped"
      OBVIOUS
    <3> HIDE DEF f
    <3>6. \E g \in features' : g.ds = ds[r] /\ g.name = c /\ g.status = "skipped"
      BY <3>4, <3>5
    <3>7. {row \in hub' : row.ds = ds[r] /\ row.col = c} = {}
      BY <2>3, <3>3
    <3> QED BY <1>1, <3>1, <3>6, <3>7 DEF ColumnMatchesHub
  <2> QED BY <2>5, <2>6
<1> QED BY <1>1, <1>3, <1>4, <1>5, CommitReviewed

-----------------------------------------------------------------------------
(* In plain use                                                            *)

\* What the step of request r leaves of the others, and of what is in flight
OneRequest(r) ==
  /\ \A s \in Requests \ {r} : pc'[s] = pc[s]
  /\ r \in InFlight \/ r \in InFlight'

LEMMA OnlyOneInFlight ==
  ASSUME NEW r \in Requests, OneRequest(r), PlainNow',
         \A p, q \in InFlight : p = q
  PROVE  \A q \in InFlight' : q = r
  BY DEF OneRequest, PlainNow, InFlight

\* What is to be shown of the step of a request in plain use
LEMMA PlainKept ==
  ASSUME PlainUse, NEW r \in Requests, OneRequest(r), plain, PlainNow',
         r \in InFlight' => Undisturbed(r)'
  PROVE  PlainUse'
<1>1. \A q \in InFlight' : q = r
  BY OnlyOneInFlight DEF PlainUse
<1>2. ASSUME NEW q \in InFlight' PROVE Undisturbed(q)'
  <2>1. q = r
    BY <1>1
  <2> QED BY <1>2, <2>1
<1> QED BY <1>1, <1>2 DEF PlainUse

\* A step of request r that leaves the committed rows, and its settled writers,
\* as they are
QuietStep(r) ==
  /\ UNCHANGED <<configs, status, hub, features>>
  /\ SettledKept /\ OneRequest(r)

LEMMA QuietKept ==
  ASSUME TypeInv, LoadsAreSerial, Plain, plain, PlainNow', NEW r \in Requests, QuietStep(r),
         r \in InFlight' => Undisturbed(r)'
  PROVE  Plain'
<1>1. ReviewMatchesHub'
  BY RowsKept DEF Plain, PlainReviewMatchesHub, QuietStep
<1>2. PlainUse'
  BY PlainKept DEF Plain, QuietStep
<1> QED BY <1>1, <1>2 DEF Plain, PlainReviewMatchesHub

\* In plain use a request in flight is undisturbed.
LEMMA InFlightUndisturbed ==
  ASSUME Plain, plain, NEW r \in Requests, pc[r] \in Waiting \union Holding
  PROVE  Undisturbed(r) /\ r \in InFlight
  BY DEF Plain, PlainUse, InFlight

LEMMA PlainBegin ==
  ASSUME TypeInv, LoadsAreSerial, Plain, plain, PlainNow', NEW r \in Requests, NEW d \in Datasets,
         \/ \E m \in Mappings : BeginConfirm(r, d, m)
         \/ \E c \in Columns, t \in Targets : BeginAdd(r, d, c, t)
  PROVE  Plain'
<1> USE DEF TypeInv, TypeOK
<1>1. pc[r] = "idle" /\ pc' = [pc EXCEPT ![r] = pc'[r]] /\ pc'[r] \in {"confirming", "adding"}
  BY DEF BeginConfirm, BeginAdd, Accept, GoTo
<1>2. r \in InFlight'
  BY <1>1 DEF InFlight
<1>3. QuietStep(r)
  BY <1>1, <1>2 DEF BeginConfirm, BeginAdd, Accept, stored, QuietStep, SettledKept, OneRequest, Settled
<1>4. CASE \E m \in Mappings : BeginConfirm(r, d, m)
  <2>1. /\ kind'[r] = "confirm" /\ pc'[r] = "confirming" /\ ds'[r] = d
        /\ seen'[r] = status[d] /\ status' = status
    BY <1>4 DEF BeginConfirm, Accept, GoTo, stored
  <2>2. Complete(mapping[r])'
    BY <1>2, <2>1 DEF PlainNow
  <2>3. Undisturbed(r)'
    BY <2>1, <2>2 DEF Undisturbed
  <2> QED BY <1>3, <2>3, QuietKept
<1>5. CASE \E c \in Columns, t \in Targets : BeginAdd(r, d, c, t)
  <2>1. PICK c \in Columns, t \in Targets : BeginAdd(r, d, c, t)
    BY <1>5
  <2>2. /\ kind'[r] = "add" /\ pc'[r] = "adding" /\ ds'[r] = d /\ status' = status
        /\ status[d][c] = "skipped" /\ mapping'[r] = JustColumn(c, t)
    BY <2>1 DEF BeginAdd, Accept, GoTo, stored
  <2>3. \A e \in Columns : mapping'[r][e] \in Targets => e = c
    BY <2>2, MappingAssumption DEF JustColumn
  <2>4. Undisturbed(r)'
    BY <2>2, <2>3 DEF Undisturbed, MetricColumns
  <2> QED BY <1>3, <2>4, QuietKept
<1> QED BY <1>4, <1>5

\* The statements of a confirmation before its commit
LEMMA PlainStatements ==
  ASSUME TypeInv, LoadsAreSerial, Plain, plain, PlainNow', NEW r \in Requests,
         ReadVersion(r) \/ FlushConfirm(r) \/ ClearHub(r) \/ ClearFeatures(r) \/ Load(r)
  PROVE  Plain'
<1> USE DEF TypeInv, TypeOK
<1>1. /\ pc[r] \in Waiting \union Holding /\ pc' = [pc EXCEPT ![r] = pc'[r]]
      /\ pc'[r] \in {"versioned"} \union Holding
      /\ UNCHANGED <<configs, status, hub, features, kind, ds, mapping, seen>>
      /\ kind[r] = "confirm"
  BY DEF ReadVersion, FlushConfirm, ClearHub, ClearFeatures, Load, GoTo, stored, payload, local,
         LoadsAreSerial, ClearedIsEverythingLoaded
<1>2. r \in InFlight /\ Undisturbed(r)
  BY <1>1, InFlightUndisturbed
<1>3. QuietStep(r)
  BY <1>1, <1>2 DEF QuietStep, SettledKept, OneRequest
<1>4. seen'[r] = status'[ds'[r]] /\ Complete(mapping[r])'
  BY <1>1, <1>2 DEF Undisturbed, Complete
<1>5. pc'[r] \in {"hub_cleared", "cleared", "loaded"} =>
        \A x \in hub' : x.ds = ds'[r] => x \in clearedHub'[r]
  <2>1. CASE ReadVersion(r) \/ FlushConfirm(r)
    BY <1>1, <2>1 DEF ReadVersion, FlushConfirm, GoTo
  <2>2. CASE ClearHub(r)
    BY <1>1, <2>2 DEF ClearHub
  <2>3. CASE ClearFeatures(r) \/ Load(r)
    BY <1>1, <1>2, <2>3 DEF ClearFeatures, Load, Undisturbed
  <2> QED BY <2>1, <2>2, <2>3
<1>6. StatusAfter(r)' = StatusAfter(r)
  BY <1>1 DEF StatusAfter, Dirty
<1>7. pc'[r] = "loaded" => skipped'[r] = {c \in Columns : StatusAfter(r)[c] = "skipped"}
  BY DEF ReadVersion, FlushConfirm, ClearHub, ClearFeatures, Load, GoTo
<1>8. Undisturbed(r)'
  BY <1>1, <1>4, <1>5, <1>6, <1>7 DEF Undisturbed
<1> QED BY <1>3, <1>8, QuietKept

\* A request that ends without a commit
LEMMA PlainEnd ==
  ASSUME TypeInv, LoadsAreSerial, Plain, plain, PlainNow', NEW r \in Requests,
         VersionConflict(r) \/ Rollback(r) \/ Respond(r) \/ LoseResponse(r)
  PROVE  Plain'
<1> USE DEF TypeInv, TypeOK
<1>1. /\ r \in InFlight /\ pc' = [pc EXCEPT ![r] = pc'[r]] /\ pc'[r] \in Ended
      /\ UNCHANGED <<configs, status, hub, features>>
  BY DEF VersionConflict, Rollback, Respond, LoseResponse, Abort, GoTo, stored, InFlight
<1>2. SettledKept
  BY DEF VersionConflict, Rollback, Respond, LoseResponse, Abort, payload, Settled, SettledKept
<1>3. QuietStep(r) /\ r \notin InFlight'
  BY <1>1, <1>2 DEF QuietStep, OneRequest, InFlight
<1> QED BY <1>3, QuietKept

\* A request that commits
LEMMA PlainCommit ==
  ASSUME TypeInv, LoadsAreSerial, Collecting, Plain, plain, PlainNow', NEW r \in Requests,
         CommitUnloaded(r) \/ CommitLoaded(r) \/ CommitAdd(r)
  PROVE  Plain'
<1> USE DEF TypeInv, TypeOK
<1>1. pc[r] \in Waiting \union Holding
  BY DEF CommitUnloaded, CommitLoaded, CommitAdd
<1>2. Undisturbed(r) /\ r \in InFlight
  BY <1>1, InFlightUndisturbed
<1>3. ReviewMatchesHub
  BY DEF Plain, PlainReviewMatchesHub
<1>4. ReviewMatchesHub'
  BY <1>2, <1>3, UnloadedReviewed, LoadReviewed, AddReviewed
<1>5. OneRequest(r)
  BY <1>2 DEF CommitUnloaded, CommitLoaded, CommitAdd, CommitConfig, GoTo, OneRequest
<1>6. r \in InFlight' => pc'[r] = "committed" /\ kind'[r] = "confirm"
  BY DEF CommitUnloaded, CommitLoaded, CommitAdd, CommitConfig, GoTo, payload, InFlight,
         LoadsAreSerial, ClearedIsEverythingLoaded
<1>7. r \in InFlight' => Undisturbed(r)'
  BY <1>6 DEF Undisturbed
<1>8. PlainUse'
  BY <1>5, <1>7, PlainKept DEF Plain
<1> QED BY <1>4, <1>8 DEF Plain, PlainReviewMatchesHub

-----------------------------------------------------------------------------
LEMMA PlainInit == Init => Plain
  BY DEF Init, Plain, PlainUse, PlainReviewMatchesHub, ReviewMatchesHub, InFlight, Newest

LEMMA PlainStep ==
  TypeInv /\ LoadsAreSerial /\ Collecting /\ Plain /\ [UseNext]_<<vars, plain>> => Plain'
<1> SUFFICES ASSUME TypeInv, LoadsAreSerial, Collecting, Plain, [UseNext]_<<vars, plain>>, plain'
             PROVE  Plain'
  BY DEF Plain, PlainUse, PlainReviewMatchesHub
\* What changes nothing but the datasets that can be onboarded
<1>1. ASSUME UNCHANGED <<configs, status, hub, features, pc, payload, local>>, plain
      PROVE  Plain'
  <2>1. SettledKept
    BY <1>1 DEF SettledKept, payload
  <2>2. ReviewMatchesHub'
    BY <1>1, <2>1, RowsKept DEF Plain, PlainReviewMatchesHub
  <2>3. PlainUse'
    BY <1>1 DEF Plain, PlainUse, InFlight, Undisturbed, Complete, MetricColumns, StatusAfter, Dirty,
                payload, local
  <2> QED BY <2>2, <2>3 DEF Plain, PlainReviewMatchesHub
<1>2. CASE UNCHANGED <<vars, plain>>
  BY <1>1, <1>2 DEF vars, stored
<1>3. CASE UseNext
  <2>1. plain /\ PlainNow' /\ Next
    BY <1>3 DEF UseNext
  <2>2. ASSUME NEW d \in Datasets, StartOnboarding(d) PROVE Plain'
    BY <1>1, <2>1, <2>2 DEF StartOnboarding
  <2> QED BY <2>1, <2>2, PlainBegin, PlainStatements, PlainEnd, PlainCommit DEF Next, Confirm
<1> QED BY <1>2, <1>3

\* When requests come one after the other and each confirmation lists every column,
\* what the review screen says of a column agrees with the hub, whatever was
\* confirmed, added, refused or rolled back before (get_feature_review,
\* confirm_onboarding, add_missed_feature).
THEOREM ReviewFollowsHub == UseSpec => []PlainReviewMatchesHub
<1> DEFINE Inv == TypeInv /\ LoadsAreSerial /\ Collecting /\ Plain
<1>1. Init => Inv
  <2>1. Init => Collecting
    BY DEF Init, Collecting, ClearedIsEverythingCollected, CollectedFeaturesMatchHub, CollectedFeatures, LoadedRows
  <2> QED BY <2>1, TypeInit, SerialInit, PlainInit
<1>2. Inv /\ [UseNext]_<<vars, plain>> => Inv'
  <2>1. [UseNext]_<<vars, plain>> => [Next]_vars
    BY DEF UseNext
  <2> QED BY <2>1, TypeStep, SerialStep, CollectStep, PlainStep
<1>3. Inv => PlainReviewMatchesHub
  BY DEF Plain
<1> QED BY <1>1, <1>2, <1>3, PTL DEF UseSpec
=============================================================================
