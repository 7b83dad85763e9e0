--------------------------- MODULE BackendProofs ---------------------------
(***************************************************************************)
(* Theorems about the API's process and what its requests share, for any   *)
(* number of requests, any size of the pool, and any number of retries, of *)
(* outages and of crashes.                                                 *)
(***************************************************************************)
EXTENDS Backend, TLAPS

USE DEF Ended, InEngine, Reading, Causes, boot

(* Types                                                                   *)

ScopePlaces == {"recall", "think", "save"}

LEMMA ScopeType == DOMAIN Scope = ScopePlaces /\ \A p \in ScopePlaces : Scope[p] \in {"think", "save", "respond"}
  BY DEF Scope, ScopePlaces

LEMMA WorkType == \A k \in Kinds : Work[k] \in {"respond", "open", "recall"} /\ (Work[k] = "open" <=> k = "hub")
  BY DEF Work, Kinds

\* The lifespan applies the schemas one after the other.
LEMMA AfterSchema ==
  ASSUME TypeOK, ApplySchema
  PROVE  phase' \in Phases \ {"down", "engine", "serving"}
<1>1. Len(Schemas) = 6 /\ \A i \in 1 .. 6 : Schemas[i] \in {"core", "ml", "rag", "agent", "auth", "views"}
  BY DEF Schemas
<1>2. CASE phase = "views"
  BY <1>2 DEF ApplySchema, Following, Phases
<1>3. CASE phase # "views"
  <2>1. PICK i \in 1 .. 6 : Schemas[i] = phase
    BY <1>1 DEF ApplySchema
  <2>2. Place(phase) \in 1 .. 6 /\ Schemas[Place(phase)] = phase
    BY <1>1, <2>1 DEF Place
  <2>3. Schemas[6] = "views"
    BY DEF Schemas
  <2>4. Place(phase) + 1 \in 1 .. 6
    BY <1>3, <2>2, <2>3
  <2>5. phase' = Schemas[Place(phase) + 1]
    BY <1>3 DEF ApplySchema, Following
  <2> QED BY <1>1, <2>4, <2>5 DEF Phases
<1> QED BY <1>2, <1>3

\* What a step of the lifespan or of the environment does to the threads
LEMMA StopType == ASSUME TypeOK, Stop PROVE TypeOK'
  BY DEF Stop, TypeOK, Phases, Places, Threads

LEMMA TypeStep == TypeOK /\ [Next]_vars => TypeOK'
<1> SUFFICES ASSUME TypeOK, [Next]_vars PROVE TypeOK'
  OBVIOUS
<1>1. /\ phase \in Phases /\ at \in [Threads -> Places] /\ at[boot] \in InEngine \union {"idle"}
      /\ kind \in [Requests -> Kinds] /\ cause \in [Requests -> SUBSET Causes]
      /\ "lifespan" \notin Requests /\ Threads = Requests \union {"lifespan"}
  BY BackendAssumption DEF TypeOK, Threads
<1>2. CASE UNCHANGED <<phase, at, kind, cause>>
  BY <1>1, <1>2 DEF TypeOK
<1>3. CASE Outage
  BY <1>1, <1>3 DEF Outage, process, TypeOK
<1>4. CASE Start
  BY <1>1, <1>4 DEF Start, TypeOK, Phases, Places
<1>5. CASE Boot \/ Crash
  <2>1. CASE WaitForPostgres
    BY <1>1, <2>1 DEF WaitForPostgres, TypeOK, Phases, Schemas
  <2>2. CASE ApplySchema
    BY <1>1, <2>2, AfterSchema DEF ApplySchema, TypeOK
  <2>3. CASE EnsureDirs \/ GiveUp \/ ApplyCoreFails \/ Crash
    BY <1>1, <2>3, StopType DEF EnsureDirs, GiveUp, ApplyCoreFails, Crash, TypeOK, Phases
  <2> QED BY <1>5, <2>1, <2>2, <2>3 DEF Boot
\* A thread goes somewhere.
<1>6. ASSUME NEW t \in Threads, NEW p \in Places, at' = [at EXCEPT ![t] = p], UNCHANGED <<phase, kind, cause>>,
             t = boot => p \in InEngine \union {"idle"}
      PROVE  TypeOK'
  BY <1>1, <1>6 DEF TypeOK
<1>7. ASSUME NEW t \in Threads, GetEngine(t) PROVE TypeOK'
  <2>1. PICK p : /\ p \in {"create", "publish", WithEngine(t)} /\ at' = [at EXCEPT ![t] = p]
    BY <1>7 DEF GetEngine, Engine, Create, Publish
  <2>2. UNCHANGED <<phase, kind, cause>>
    BY <1>7 DEF GetEngine, Engine, Create, Publish, process
  <2> QED BY <1>6, <2>1, <2>2 DEF WithEngine, Places
<1>8. ASSUME NEW q \in Requests, NEW p \in Places, at' = [at EXCEPT ![q] = p], UNCHANGED <<phase, kind>>,
             cause' \in [Requests -> SUBSET Causes]
      PROVE  TypeOK'
  BY <1>1, <1>8 DEF TypeOK
<1>9. ASSUME NEW q \in Requests, Handle(q) PROVE TypeOK'
  <2>0. UNCHANGED <<phase, kind>>
    BY <1>9 DEF Handle, Factory, Connect, ConnectTimesOut, Respond, EnterScope, LeaveScope, ScopeTimesOut,
       Open, OpenFails, Check, Attach, ReadHub, process
  <2>6. cause' \in [Requests -> SUBSET Causes]
    <3>1. CASE Attach(q)
      BY <1>1, <3>1 DEF Attach
    <3>2. CASE ConnectTimesOut(q)
      BY <1>1, <3>2 DEF ConnectTimesOut
    <3>4. CASE OpenFails(q)
      BY <1>1, <3>4 DEF OpenFails
    <3>3. CASE ~ Attach(q) /\ ~ ConnectTimesOut(q) /\ ~ OpenFails(q)
      BY <1>1, <1>9, <3>3 DEF Handle, Factory, Connect, Respond, EnterScope, LeaveScope, ScopeTimesOut, Open, OpenFails,
         Check, ReadHub
    <3> QED BY <3>1, <3>2, <3>3, <3>4
  <2>1. UNCHANGED <<phase, kind>> /\ cause' \in [Requests -> SUBSET Causes]
    BY <2>0, <2>6
  <2>2. CASE UNCHANGED at
    BY <1>1, <2>1, <2>2 DEF TypeOK
  <2>3. CASE Factory(q) \/ ConnectTimesOut(q) \/ Respond(q) \/ Open(q) \/ OpenFails(q) \/ Check(q) \/ Attach(q) \/ ReadHub(q)
    <3>1. \E p \in Places : at' = [at EXCEPT ![q] = p]
      BY <2>3 DEF Factory, ConnectTimesOut, Respond, Open, OpenFails, Check, Attach, ReadHub, To, Fail, Places
    <3> QED BY <1>8, <2>1, <3>1
  <2>4. CASE Connect(q)
    <3>1. \E p \in Places : at' = [at EXCEPT ![q] = p]
      BY <1>1, <2>4, WorkType, ScopeType DEF Connect, To, Fail, Places, ScopePlaces
    <3> QED BY <1>8, <2>1, <3>1
  <2>5. CASE LeaveScope(q) \/ ScopeTimesOut(q)
    <3>1. \E p \in Places : at' = [at EXCEPT ![q] = p]
      BY <2>5, ScopeType DEF LeaveScope, ScopeTimesOut, To, Places, ScopePlaces
    <3> QED BY <1>8, <2>1, <3>1
  <2> QED BY <1>9, <2>2, <2>3, <2>4, <2>5 DEF Handle, EnterScope
<1>10. ASSUME NEW q \in Requests, NEW k \in Kinds, Arrive(q, k) PROVE TypeOK'
  BY <1>1, <1>10 DEF Arrive, Known, process, TypeOK, Places
<1>11. CASE Recover \/ UNCHANGED vars
  BY <1>2, <1>11 DEF Recover, vars, process
<1> QED BY <1>3, <1>4, <1>5, <1>7, <1>9, <1>10, <1>11 DEF Next

LEMMA TypeCorrect == Spec => []TypeOK
<1>1. Init => TypeOK
  BY BackendAssumption DEF Init, TypeOK, Phases, Places, Threads, Kinds
<1> QED BY <1>1, TypeStep, PTL DEF Spec

-----------------------------------------------------------------------------
(* The engine                                                              *)

LEMMA EngineStep == TypeOK /\ BootMakesTheEngine /\ [Next]_vars => BootMakesTheEngine'
<1> SUFFICES ASSUME TypeOK, BootMakesTheEngine, [Next]_vars PROVE BootMakesTheEngine'
  OBVIOUS
<1>1. /\ phase \in Phases /\ at \in [Threads -> Places] /\ at[boot] \in InEngine \union {"idle"}
      /\ "lifespan" \notin Requests /\ Threads = Requests \union {"lifespan"} /\ kind \in [Requests -> Kinds]
  BY BackendAssumption DEF TypeOK, Threads
<1>2. CASE UNCHANGED <<phase, at, engine, factory>>
  BY <1>2 DEF BootMakesTheEngine
<1>3. CASE Start
  BY <1>1, <1>3 DEF Start, shared, BootMakesTheEngine
<1>4. CASE Stop
  BY <1>1, <1>4 DEF Stop, BootMakesTheEngine
<1>5. ASSUME UNCHANGED <<at, engine, factory>>, phase \notin {"down", "serving"}, phase' # "down",
             phase' = "engine" => phase = "engine", phase = "engine" => at[boot] = "idle"
      PROVE  BootMakesTheEngine'
  BY <1>5 DEF BootMakesTheEngine
<1>6. CASE Boot
  <2>1. CASE WaitForPostgres
    BY <1>1, <1>5, <2>1 DEF WaitForPostgres, shared
  <2>2. CASE ApplySchema
    <3>1. phase \notin {"down", "engine", "serving"}
      BY <2>2 DEF ApplySchema, Schemas
    <3> QED BY <1>5, <2>2, <3>1, AfterSchema DEF ApplySchema, shared
  <2>3. CASE EnsureDirs
    BY <1>4, <1>5, <2>3 DEF EnsureDirs, shared
  <2> QED BY <1>4, <1>6, <2>1, <2>2, <2>3 DEF Boot, GiveUp, ApplyCoreFails
\* Only the lifespan goes through get_engine: a request is given the factory.
<1>7. ASSUME NEW t \in Threads, GetEngine(t) PROVE BootMakesTheEngine'
  <2>1. t = boot /\ phase = "engine"
    BY <1>1, <1>7 DEF GetEngine, Engine, Create, Publish, BootMakesTheEngine
  <2>2. CASE Engine(t)
    BY <1>1, <2>1, <2>2 DEF Engine, process, BootMakesTheEngine
  <2>3. CASE Create(t)
    BY <1>1, <2>1, <2>3 DEF Create, process, BootMakesTheEngine
  <2>4. CASE Publish(t)
    BY <1>1, <2>1, <2>4 DEF Publish, process, WithEngine, BootMakesTheEngine
  <2> QED BY <1>7, <2>2, <2>3, <2>4 DEF GetEngine
<1>8. ASSUME NEW q \in Requests, NEW p, p \notin InEngine \union {"again"}, at' = [at EXCEPT ![q] = p],
             phase = "serving", UNCHANGED <<phase, engine, factory>>
      PROVE  BootMakesTheEngine'
  BY <1>1, <1>8 DEF BootMakesTheEngine
<1>9. ASSUME NEW q \in Requests, Handle(q) PROVE BootMakesTheEngine'
  <2>1. phase = "serving" /\ UNCHANGED <<phase, engine, factory>>
    <3>1. at[q] # "idle"
      BY <1>9, ScopeType DEF Handle, Factory, Connect, ConnectTimesOut, Respond, EnterScope, LeaveScope,
         ScopeTimesOut, Open, OpenFails, Check, Attach, ReadHub, ScopePlaces
    <3>2. UNCHANGED <<phase, engine, factory>>
      BY <1>9 DEF Handle, Factory, Connect, ConnectTimesOut, Respond, EnterScope, LeaveScope, ScopeTimesOut,
         Open, OpenFails, Check, Attach, ReadHub, process, shared
    <3> QED BY <3>1, <3>2 DEF BootMakesTheEngine
  <2>2. factory /\ at[q] \notin InEngine \union {"again"}
    BY <1>1, <2>1 DEF BootMakesTheEngine
  <2>3. CASE Factory(q)
    BY <1>8, <2>1, <2>2, <2>3 DEF Factory, To
  <2>4. CASE Connect(q)
    <3>1. Work[kind[q]] \notin InEngine \union {"again"}
      BY <1>1, WorkType
    <3> QED BY <1>8, <2>1, <2>4, <3>1 DEF Connect, To, Fail
  <2>5. CASE LeaveScope(q) \/ ScopeTimesOut(q)
    <3>1. Scope[at[q]] \notin InEngine \union {"again"}
      BY <2>5, ScopeType DEF LeaveScope, ScopeTimesOut
    <3> QED BY <1>8, <2>1, <2>5, <3>1 DEF LeaveScope, ScopeTimesOut, To
  <2>6. CASE ConnectTimesOut(q) \/ Respond(q) \/ Open(q) \/ OpenFails(q) \/ Check(q) \/ Attach(q) \/ ReadHub(q)
    BY <1>8, <2>1, <2>6 DEF ConnectTimesOut, Respond, Open, OpenFails, Check, Attach, ReadHub, To, Fail
  <2>7. CASE EnterScope(q)
    BY <1>2, <2>1, <2>7 DEF EnterScope
  <2> QED BY <1>9, <2>3, <2>4, <2>5, <2>6, <2>7 DEF Handle
<1>10. ASSUME NEW q \in Requests, NEW k \in Kinds, Arrive(q, k) PROVE BootMakesTheEngine'
  BY <1>8, <1>10 DEF Arrive, process, shared
<1>11. CASE Outage \/ Recover \/ UNCHANGED vars
  BY <1>2, <1>11 DEF Outage, Recover, process, shared, vars
<1> QED BY <1>3, <1>4, <1>6, <1>7, <1>9, <1>10, <1>11 DEF Next, Crash

LEMMA EngineMade == Spec => []BootMakesTheEngine
<1>1. Init => BootMakesTheEngine
  BY DEF Init, BootMakesTheEngine, Threads
<1> QED BY <1>1, EngineStep, TypeCorrect, PTL DEF Spec

-----------------------------------------------------------------------------
(* Failures                                                                *)

\* What a request can rely on, one request at a time
Relies(q) ==
  /\ at[q] \in {"open"} \union Reading => kind[q] = "hub"
  /\ at[q] = "read" => attached
  /\ at[q] \notin Ended /\ cause[q] = {} =>
       /\ database /\ "auth" \in schemas /\ (kind[q] = "hub" => "views" \in schemas)
       /\ ~ (at[q] = "attach" /\ attached)
  /\ at[q] = "failed" => cause[q] # {}

LEMMA KnownNone ==
  ASSUME NEW k
  PROVE  Known(k) = {} <=> database /\ "auth" \in schemas /\ (k = "hub" => "views" \in schemas)
  BY DEF Known

LEMMA CausesByRequest == CausesAreRecorded <=> \A q \in Requests : Relies(q)
  BY KnownNone DEF CausesAreRecorded, Relies

LEMMA CauseStep == TypeOK /\ BootMakesTheEngine /\ CausesAreRecorded /\ [Next]_vars => CausesAreRecorded'
<1> SUFFICES ASSUME TypeOK, BootMakesTheEngine, CausesAreRecorded, [Next]_vars,
                    NEW r \in Requests
             PROVE  Relies(r)'
  <2>1. (\A r \in Requests : Relies(r)') => CausesAreRecorded'
    <3>1. \A k : Known(k)' = {} <=>
            database' /\ "auth" \in schemas' /\ (k = "hub" => "views" \in schemas')
      BY DEF Known
    <3> QED BY <3>1 DEF CausesAreRecorded, Relies
  <2> QED BY <2>1
<1>1. /\ at \in [Threads -> Places] /\ kind \in [Requests -> Kinds]
      /\ cause \in [Requests -> SUBSET Causes]
      /\ "lifespan" \notin Requests /\ Threads = Requests \union {"lifespan"}
  BY BackendAssumption DEF TypeOK, Threads
<1>2. \A q \in Requests : Relies(q)
  BY CausesByRequest
\* A step of others, or of the environment: what has come between the request
\* and its answer is kept, and what comes between now is recorded.
<1>3. ASSUME at'[r] = at[r], kind'[r] = kind[r], at[r] = "read" /\ attached => attached',
             cause'[r] = {} => /\ cause[r] = {} /\ schemas \subseteq schemas' /\ (database => database')
                               /\ ~ (at[r] = "attach" /\ attached' /\ ~ attached)
      PROVE  Relies(r)'
  BY <1>2, <1>3 DEF Relies
\* The request goes somewhere, and what it has found stays.
<1>4. ASSUME at[r] \notin Ended, at'[r] \notin {"failed", "attach", "read"}, UNCHANGED <<kind, cause, database, schemas>>,
             at'[r] \in {"open"} \union Reading => at[r] \in {"open"} \union Reading \/ kind[r] = "hub"
      PROVE  Relies(r)'
  BY <1>2, <1>4 DEF Relies
\* The request fails for a cause.
<1>5. ASSUME at'[r] = "failed", cause'[r] # {} PROVE Relies(r)'
  BY <1>5 DEF Relies
<1>6. ASSUME UNCHANGED <<at, kind, cause, database, schemas, attached>> PROVE Relies(r)'
  BY <1>3, <1>6
<1>7. CASE Outage
  <2>1. cause'[r] # {}
    BY <1>7 DEF Outage
  <2> QED BY <1>3, <1>7, <2>1 DEF Outage
<1>8. CASE Recover
  BY <1>3, <1>8 DEF Recover, process
<1>9. CASE Stop
  BY <1>9 DEF Stop, Relies, Threads
<1>10. CASE Start
  BY <1>1, <1>3, <1>10 DEF Start, environment
<1>11. CASE WaitForPostgres
  BY <1>6, <1>11 DEF WaitForPostgres, environment
<1>12. CASE ApplySchema
  <2>1. schemas \subseteq schemas' /\ UNCHANGED <<database, at, kind, attached, cause>>
    BY <1>12 DEF ApplySchema
  <2> QED BY <1>3, <2>1
<1>13. CASE EnsureDirs
  BY <1>3, <1>9, <1>13 DEF EnsureDirs, environment
<1>14. ASSUME NEW t \in Threads, GetEngine(t) PROVE Relies(r)'
  <2>1. t = boot
    BY <1>1, <1>14 DEF GetEngine, Engine, Create, Publish, BootMakesTheEngine
  <2>2. at'[r] = at[r]
    BY <1>1, <1>14, <2>1 DEF GetEngine, Engine, Create, Publish
  <2>3. UNCHANGED <<kind, cause, database, schemas, attached>>
    BY <1>14 DEF GetEngine, Engine, Create, Publish, process, environment
  <2> QED BY <1>3, <2>2, <2>3
<1>15. ASSUME NEW q \in Requests, NEW k \in Kinds, Arrive(q, k) PROVE Relies(r)'
  <2>1. at' = [at EXCEPT ![q] = "factory"] /\ kind' = [kind EXCEPT ![q] = k] /\ UNCHANGED <<database, schemas, attached>>
    BY <1>15 DEF Arrive, process, environment
  <2>2. cause' = [cause EXCEPT ![q] = Known(k)]
    BY <1>15 DEF Arrive
  <2>3. CASE r # q
    BY <1>1, <1>3, <2>1, <2>2, <2>3
  <2>4. CASE r = q
    BY <1>1, <2>1, <2>2, <2>4, KnownNone DEF Relies
  <2> QED BY <2>3, <2>4
\* A request's steps, for the others first, then for itself.  Where it fails,
\* attached ends if no other is reading.
<1>16. ASSUME NEW q \in Requests, Handle(q), q # r PROVE Relies(r)'
  <2>1. UNCHANGED <<kind, database, schemas>>
    BY <1>16 DEF Handle, Factory, Connect, ConnectTimesOut, Respond, EnterScope, LeaveScope, ScopeTimesOut,
       Open, OpenFails, Check, Attach, ReadHub, process, environment
  <2>2. \/ UNCHANGED at
        \/ \E p : at' = [at EXCEPT ![q] = p]
    BY <1>16 DEF Handle, Factory, Connect, ConnectTimesOut, Respond, EnterScope, LeaveScope, ScopeTimesOut,
       Open, OpenFails, Check, Attach, ReadHub, To, Fail
  <2>3. at'[r] = at[r]
    BY <1>1, <1>16, <2>2
  <2>4. CASE Attach(q)
    <3>1. CASE attached' = TRUE /\ ~ attached
      <4>1. cause'[r] = IF at[r] = "attach" /\ r # q THEN cause[r] \union {"race"} ELSE cause[r]
        BY <2>4, <3>1 DEF Attach, Fail
      <4>2. cause'[r] = {} => cause[r] = {} /\ at[r] # "attach"
        BY <1>16, <4>1
      <4> QED BY <1>3, <2>1, <2>3, <3>1, <4>2
    <3>2. CASE ~ (attached' = TRUE /\ ~ attached)
      <4>1. Fail(q) /\ UNCHANGED cause
        BY <2>4, <3>2 DEF Attach
      <4>2. (attached' => attached) /\ (at[r] = "read" /\ attached => attached')
        BY <1>16, <4>1 DEF Fail
      <4> QED BY <1>3, <2>1, <2>3, <4>1, <4>2
    <3> QED BY <3>1, <3>2
  <2>5. CASE ReadHub(q)
    <3>0. attached /\ UNCHANGED cause
      BY <1>2, <2>5 DEF ReadHub, Relies
    <3>1. CASE Fail(q)
      <4>1. at[r] = "read" => attached'
        BY <1>16, <3>0, <3>1 DEF Fail
      <4> QED BY <1>3, <2>1, <2>3, <3>0, <4>1
    <3>2. CASE ~ Fail(q)
      <4>1. database /\ "views" \in schemas /\ UNCHANGED cause /\ attached' = \E x \in Requests \ {q} : at[x] \in Reading
        BY <2>5, <3>2 DEF ReadHub
      <4> QED BY <1>3, <1>16, <2>1, <2>3, <3>0, <4>1
    <3> QED BY <3>1, <3>2
  <2>6. CASE ConnectTimesOut(q) \/ OpenFails(q)
    <3>1. cause'[r] = cause[r] /\ (attached' => attached) /\ (at[r] = "read" /\ attached => attached')
      BY <1>1, <1>16, <2>6 DEF ConnectTimesOut, OpenFails, Fail
    <3> QED BY <1>3, <2>1, <2>3, <3>1
  <2>7. CASE Factory(q) \/ Connect(q) \/ Respond(q) \/ EnterScope(q) \/ LeaveScope(q) \/ ScopeTimesOut(q)
             \/ Open(q) \/ Check(q)
    <3>1. UNCHANGED cause /\ (Fail(q) \/ UNCHANGED attached)
      <4>1. CASE Factory(q)
        BY <4>1 DEF Factory
      <4>2. CASE Connect(q)
        BY <4>2 DEF Connect
      <4>4. CASE Respond(q)
        BY <4>4 DEF Respond
      <4>3. CASE EnterScope(q) \/ LeaveScope(q) \/ ScopeTimesOut(q) \/ Open(q) \/ Check(q)
        BY <4>3 DEF EnterScope, LeaveScope, ScopeTimesOut, Open, Check
      <4> QED BY <2>7, <4>1, <4>2, <4>3, <4>4
    <3>2. (attached' => attached) /\ (at[r] = "read" /\ attached => attached')
      <4>1. CASE Fail(q)
        BY <1>16, <4>1 DEF Fail
      <4>2. CASE UNCHANGED attached
        BY <4>2
      <4> QED BY <3>1, <4>1, <4>2
    <3> QED BY <1>3, <2>1, <2>3, <3>1, <3>2
  <2> QED BY <1>16, <2>4, <2>5, <2>6, <2>7 DEF Handle
<1>17. ASSUME Handle(r) PROVE Relies(r)'
  <2>1. /\ kind[r] \in Kinds /\ cause[r] \in SUBSET Causes
        /\ \A p : at' = [at EXCEPT ![r] = p] => at'[r] = p
    BY <1>1
  <2>2. UNCHANGED <<kind, database, schemas>>
    BY <1>17 DEF Handle, Factory, Connect, ConnectTimesOut, Respond, EnterScope, LeaveScope, ScopeTimesOut,
       Open, OpenFails, Check, Attach, ReadHub, process, environment
  <2>3. CASE Factory(r)
    <3>1. factory /\ at[r] # "again"
      BY <1>1, <2>3 DEF Factory, BootMakesTheEngine
    <3> QED BY <1>4, <2>1, <2>2, <2>3, <3>1 DEF Factory, To
  <2>4. CASE Connect(r)
    <3>1. CASE database /\ "auth" \in schemas
      BY <1>4, <2>1, <2>2, <2>4, <3>1, WorkType DEF Connect, To
    <3>2. CASE ~ (database /\ "auth" \in schemas)
      BY <1>2, <1>5, <2>1, <2>4, <3>2 DEF Connect, To, Fail, Relies
    <3> QED BY <3>1, <3>2
  <2>5. CASE ConnectTimesOut(r) \/ OpenFails(r)
    BY <1>1, <1>5, <2>1, <2>5 DEF ConnectTimesOut, OpenFails, To, Fail
  <2>6. CASE Respond(r)
    <3>1. CASE To(r, "answered")
      BY <1>4, <2>1, <2>2, <2>6, <3>1 DEF Respond, To
    <3>2. CASE "outage" \in cause[r] /\ Fail(r)
      BY <1>5, <2>1, <2>6, <3>2 DEF Respond, To, Fail
    <3> QED BY <2>6, <3>1, <3>2 DEF Respond
  <2>7. CASE EnterScope(r)
    BY <1>6, <2>2, <2>7 DEF EnterScope
  <2>8. CASE LeaveScope(r) \/ ScopeTimesOut(r)
    <3>1. at[r] \in ScopePlaces /\ at'[r] = Scope[at[r]]
      BY <2>1, <2>8, ScopeType DEF LeaveScope, ScopeTimesOut, To
    <3> QED BY <1>4, <2>2, <2>8, <3>1, ScopeType DEF LeaveScope, ScopeTimesOut, ScopePlaces
  <2>9. CASE Open(r)
    BY <1>4, <2>1, <2>2, <2>9 DEF Open, To
  <2>10. CASE Check(r)
    BY <1>2, <2>1, <2>2, <2>10 DEF Check, To, Relies
  <2>11. CASE Attach(r)
    <3>1. CASE ~ attached /\ database /\ attached' = TRUE /\ To(r, "read")
      <4>1. cause'[r] = cause[r]
        BY <1>1, <2>11, <3>1 DEF Attach, Fail
      <4> QED BY <1>2, <2>1, <2>2, <2>11, <3>1, <4>1 DEF Attach, To, Relies
    <3>2. CASE (attached \/ ~ database) /\ Fail(r) /\ UNCHANGED cause
      BY <1>2, <1>5, <2>1, <2>11, <3>2 DEF Attach, To, Fail, Relies
    <3> QED BY <2>11, <3>1, <3>2 DEF Attach
  <2>12. CASE ReadHub(r)
    <3>1. CASE database /\ "views" \in schemas /\ To(r, "respond") /\ UNCHANGED cause
      BY <1>4, <2>1, <2>2, <2>12, <3>1 DEF ReadHub, To
    <3>2. CASE ~ (database /\ "views" \in schemas) /\ Fail(r) /\ UNCHANGED cause
      BY <1>2, <1>5, <2>1, <2>12, <3>2 DEF ReadHub, To, Fail, Relies
    <3> QED BY <2>12, <3>1, <3>2 DEF ReadHub
  <2> QED BY <1>17, <2>3, <2>4, <2>5, <2>6, <2>7, <2>8, <2>9, <2>10, <2>11, <2>12 DEF Handle
<1>18. CASE UNCHANGED vars
  BY <1>6, <1>18 DEF vars, process, environment
<1> QED BY <1>7, <1>8, <1>9, <1>10, <1>11, <1>12, <1>13, <1>14, <1>15, <1>16, <1>17, <1>18
        DEF Next, Boot, GiveUp, ApplyCoreFails, Crash

\* Whatever comes over the API's process (outages, crashes, boots without a
\* schema, a DuckDB file that is locked, any number of requests on any pool), what
\* the requests share fails one of them only for one of five causes: never because
\* get_session_factory reads the engine and its factory without the lock.
THEOREM FailuresAreExplained == Spec => []FailuresHaveCauses
<1>1. Init => CausesAreRecorded
  BY DEF Init, CausesAreRecorded, Threads
<1>2. CausesAreRecorded => FailuresHaveCauses
  BY DEF CausesAreRecorded, FailuresHaveCauses
<1> QED BY <1>1, <1>2, CauseStep, TypeCorrect, EngineMade, PTL DEF Spec
=============================================================================
