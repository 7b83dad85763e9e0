------------------------------ MODULE Backend ------------------------------
(***************************************************************************)
(* The API's process and what its requests share: the lifespan that boots  *)
(* it, the engine and session factory that the first caller creates, the   *)
(* pool, and the DuckDB instance whose connections see Postgres attached.  *)
(*                                                                         *)
(* External: Docker, which starts the container again; Postgres, which may *)
(* be away; SQLAlchemy's pool, whose callers wait and give up; DuckDB, of  *)
(* which all connections to a file are one instance in a process, and      *)
(* whose file another process may lock.  A request fails here if the code  *)
(* between it and its handler does; what a handler refuses or gets wrong   *)
(* by itself is in the modules of the components.                          *)
(***************************************************************************)
EXTENDS Naturals, Sequences, FiniteSets

CONSTANTS
  Requests,
  Tries,      \* retries of wait_for_postgres
  PoolSize,   \* pool_size + max_overflow
  MaxOutages  \* bound on the outages of Postgres, of DuckDB, of schemas and of the process

ASSUME BackendAssumption == Tries \in Nat \ {0} /\ PoolSize \in Nat \ {0} /\ MaxOutages \in Nat
                            /\ "lifespan" \notin Requests

VARIABLES
  phase,    \* where the lifespan is, "down" while there is no process
  tried,    \* the attempts of wait_for_postgres
  database, \* whether Postgres answers
  schemas,  \* those it has been given
  engine, factory, lock, \* _engine, _SessionFactory, _engine_lock
  at,       \* where a thread is: the lifespan in get_engine, a request in its handler
  kind,     \* what a request is for
  holds,    \* its connections of the pool
  attached, \* whether Postgres is attached to the DuckDB instance
  cause,    \* history: what has come between a request and its answer
  outages

boot == "lifespan"
Threads == Requests \union {boot}
shared == <<engine, factory, lock>>
vars == <<phase, tried, database, schemas, shared, at, kind, holds, attached, cause, outages>>
process == <<phase, tried, schemas>>
environment == <<database, outages>>

Schemas == <<"core", "ml", "rag", "agent", "auth", "views">>
Kinds == {"page", "hub", "ask"}
Reading == {"check", "attach", "read"} \* with an open DuckDB connection
InEngine == {"engine", "create", "publish"}
Ended == {"idle", "answered", "failed"}
Causes == {"outage", "schema", "busy", "race", "duckdb"}

Init ==
  /\ phase = "down" /\ tried = 0 /\ database \in BOOLEAN /\ schemas = {}
  /\ engine = FALSE /\ factory = FALSE /\ lock = "free"
  /\ at = [t \in Threads |-> "idle"] /\ kind = [q \in Requests |-> "page"]
  /\ holds = [q \in Requests |-> 0] /\ attached = FALSE
  /\ cause = [q \in Requests |-> {}] /\ outages = 0

-----------------------------------------------------------------------------
(* The environment                                                         *)

Fault == outages < MaxOutages /\ outages' = outages + 1

Outage ==
  /\ database /\ Fault /\ database' = FALSE
  /\ cause' = [q \in Requests |-> cause[q] \union {"outage"}]
  /\ UNCHANGED <<process, shared, at, kind, holds, attached>>

Recover ==
  /\ ~ database /\ database' = TRUE
  /\ UNCHANGED <<process, shared, at, kind, holds, attached, cause, outages>>

\* restart: unless-stopped
Start ==
  /\ phase = "down" /\ phase' = "engine" /\ tried' = 0
  /\ at' = [at EXCEPT ![boot] = "engine"]
  /\ UNCHANGED <<schemas, environment, shared, kind, holds, attached, cause>>

\* The process ends, and with it all that lived in it.
Stop ==
  /\ phase' = "down" /\ tried' = 0
  /\ engine' = FALSE /\ factory' = FALSE /\ lock' = "free" /\ attached' = FALSE
  /\ at' = [t \in Threads |-> "idle"] /\ holds' = [q \in Requests |-> 0]
  /\ cause' = [q \in Requests |-> {}]
  /\ UNCHANGED <<schemas, database, kind>>

Crash == phase # "down" /\ Fault /\ Stop

-----------------------------------------------------------------------------
(* get_engine, of the lifespan and of requests                             *)

\* Where a thread goes with the engine it has been given
WithEngine(t) == IF t = boot THEN "idle" ELSE "again"

\* The check without the lock; then the lock, and the check again.
Engine(t) ==
  /\ at[t] = "engine"
  /\ \/ engine /\ at' = [at EXCEPT ![t] = WithEngine(t)] /\ UNCHANGED lock
     \/ ~ engine /\ lock = "free" /\ lock' = t /\ at' = [at EXCEPT ![t] = "create"]
  /\ UNCHANGED <<process, environment, engine, factory, kind, holds, attached, cause>>

Create(t) ==
  /\ at[t] = "create" /\ engine' = TRUE /\ at' = [at EXCEPT ![t] = "publish"]
  /\ UNCHANGED <<process, environment, factory, lock, kind, holds, attached, cause>>

Publish(t) ==
  /\ at[t] = "publish" /\ factory' = TRUE /\ lock' = "free"
  /\ at' = [at EXCEPT ![t] = WithEngine(t)]
  /\ UNCHANGED <<process, environment, engine, kind, holds, attached, cause>>

-----------------------------------------------------------------------------
(* lifespan                                                                *)

WaitForPostgres ==
  /\ \/ phase = "engine" /\ at[boot] = "idle" /\ phase' = "waiting" /\ UNCHANGED tried
     \/ phase = "waiting" /\ database /\ phase' = "core" /\ UNCHANGED tried
     \/ phase = "waiting" /\ ~ database /\ tried + 1 < Tries /\ tried' = tried + 1 /\ UNCHANGED phase
  /\ UNCHANGED <<schemas, environment, shared, at, kind, holds, attached, cause>>

GiveUp == phase = "waiting" /\ ~ database /\ tried + 1 = Tries /\ Stop /\ UNCHANGED outages

Place(s) == CHOOSE i \in 1 .. Len(Schemas) : Schemas[i] = s

Following(p) == IF p = "views" THEN "dirs" ELSE Schemas[Place(p) + 1]

\* Mutant: a schema that is there already fails.
ApplyNewSchema ==
  /\ phase \in {Schemas[i] : i \in 1 .. Len(Schemas)}
  /\ \/ /\ database /\ (phase = "core" => "core" \notin schemas)
        /\ schemas' = schemas \union {phase} /\ UNCHANGED outages
     \/ phase # "core" /\ ~ database /\ UNCHANGED <<schemas, outages>>
     \/ phase # "core" /\ Fault /\ UNCHANGED schemas
  /\ phase' = Following(phase)
  /\ UNCHANGED <<tried, database, shared, at, kind, holds, attached, cause>>

\* apply_schema and load_analytics_views, which leave what is there.  Only the
\* core schema has to succeed: without another (Postgres is away, the file is
\* missing or fails, DuckDB is locked) the lifespan goes on.
ApplySchema ==
  /\ phase \in {Schemas[i] : i \in 1 .. Len(Schemas)}
  /\ \/ database /\ schemas' = schemas \union {phase} /\ UNCHANGED outages
     \/ phase # "core" /\ ~ database /\ UNCHANGED <<schemas, outages>>
     \/ phase # "core" /\ Fault /\ UNCHANGED schemas
  /\ phase' = Following(phase)
  /\ UNCHANGED <<tried, database, shared, at, kind, holds, attached, cause>>

ApplyCoreFails == phase = "core" /\ ~ database /\ Stop /\ UNCHANGED outages

\* ensure_dirs; then requests are served.
EnsureDirs ==
  \/ /\ phase = "dirs" /\ phase' = "serving"
     /\ UNCHANGED <<tried, schemas, environment, shared, at, kind, holds, attached, cause>>
  \/ phase = "dirs" /\ Fault /\ Stop

-----------------------------------------------------------------------------
(* Requests                                                                *)

\* What a request has against it when it comes: Postgres is away, or a schema it
\* needs has not been applied.
Known(k) ==
  {c \in {"outage", "schema"} :
     \/ c = "outage" /\ ~ database
     \/ c = "schema" /\ ~ ("auth" \in schemas /\ (k = "hub" => "views" \in schemas))}

\* Mutant: the lifespan prepares in the background.
ArriveWhilePreparing(q, k) ==
  /\ phase # "down" /\ at[q] \in Ended
  /\ at' = [at EXCEPT ![q] = "factory"] /\ kind' = [kind EXCEPT ![q] = k]
  /\ cause' = [cause EXCEPT ![q] = Known(k)]
  /\ UNCHANGED <<process, environment, shared, holds, attached>>

Arrive(q, k) ==
  /\ phase = "serving" /\ at[q] \in Ended
  /\ at' = [at EXCEPT ![q] = "factory"] /\ kind' = [kind EXCEPT ![q] = k]
  /\ cause' = [cause EXCEPT ![q] = Known(k)]
  /\ UNCHANGED <<process, environment, shared, holds, attached>>

InUse == LET Sum[n \in 0 .. 2] == IF n = 0 THEN 0
                                  ELSE Sum[n - 1] + n * Cardinality({q \in Requests : holds[q] = n})
         IN  Sum[2]

To(q, place) == at' = [at EXCEPT ![q] = place]

\* The handler is left by an exception: get_db and the scopes close.
Fail(q) ==
  /\ To(q, "failed") /\ holds' = [holds EXCEPT ![q] = 0]
  /\ attached' = (attached /\ \E r \in Requests \ {q} : at[r] \in Reading)

\* get_session_factory
Factory(q) ==
  /\ \/ at[q] = "factory" /\ To(q, IF factory THEN "connect" ELSE "engine") /\ UNCHANGED <<holds, attached>>
     \/ at[q] = "again" /\ factory /\ To(q, "connect") /\ UNCHANGED <<holds, attached>>
     \/ at[q] = "again" /\ ~ factory /\ Fail(q)
  /\ UNCHANGED <<process, environment, shared, kind, cause>>

\* get_current_user is the first to use the session of get_db, which keeps its
\* connection until the request is over.
Work == [page |-> "respond", hub |-> "open", ask |-> "recall"]

Connect(q) ==
  /\ at[q] = "connect" /\ InUse < PoolSize
  /\ \/ /\ database /\ "auth" \in schemas
        /\ holds' = [holds EXCEPT ![q] = 1] /\ To(q, Work[kind[q]]) /\ UNCHANGED attached
     \/ ~ (database /\ "auth" \in schemas) /\ Fail(q)
  /\ UNCHANGED <<process, environment, shared, kind, cause>>

\* QueuePool gives up after its timeout, with the others' connections in use.
ConnectTimesOut(q) ==
  /\ at[q] = "connect" /\ InUse >= PoolSize
  /\ Fail(q) /\ cause' = [cause EXCEPT ![q] = @ \union {"busy"}]
  /\ UNCHANGED <<process, environment, shared, kind>>

\* The rest of the handler; the connection it has held may not have survived an
\* outage.
Respond(q) ==
  /\ at[q] = "respond"
  /\ \/ To(q, "answered") /\ holds' = [holds EXCEPT ![q] = 0] /\ UNCHANGED attached
     \/ "outage" \in cause[q] /\ Fail(q)
  /\ UNCHANGED <<process, environment, shared, kind, cause>>

\* The memory of an ask and its tools take a second connection, one at a time;
\* a failure of theirs is contained.
Scope == [recall |-> "think", think |-> "save", save |-> "respond"]

EnterScope(q) ==
  /\ at[q] \in DOMAIN Scope /\ holds[q] = 1 /\ InUse < PoolSize
  /\ holds' = [holds EXCEPT ![q] = 2]
  /\ UNCHANGED <<process, environment, shared, at, kind, attached, cause>>

LeaveScope(q) ==
  /\ at[q] \in DOMAIN Scope /\ holds[q] = 2
  /\ holds' = [holds EXCEPT ![q] = 1] /\ To(q, Scope[at[q]])
  /\ UNCHANGED <<process, environment, shared, kind, attached, cause>>

ScopeTimesOut(q) ==
  /\ at[q] \in DOMAIN Scope /\ holds[q] = 1 /\ InUse >= PoolSize
  /\ To(q, Scope[at[q]])
  /\ UNCHANGED <<process, environment, shared, kind, holds, attached, cause>>

\* duckdb_scope, get_duckdb and _attach_postgres, for a read of the hub: a
\* connection of the request's own to the shared instance
Open(q) ==
  /\ at[q] = "open" /\ To(q, "check")
  /\ UNCHANGED <<process, environment, shared, kind, holds, attached, cause>>

\* The file is locked or cannot be opened, or the extension not be installed.
OpenFails(q) ==
  /\ at[q] = "open" /\ Fault
  /\ Fail(q) /\ cause' = [cause EXCEPT ![q] = @ \union {"duckdb"}]
  /\ UNCHANGED <<process, database, shared, kind>>

Check(q) ==
  /\ at[q] = "check" /\ To(q, IF attached THEN "read" ELSE "attach")
  /\ UNCHANGED <<process, environment, shared, kind, holds, attached, cause>>

\* The alias may have been taken since the check.
Attach(q) ==
  /\ at[q] = "attach"
  /\ \/ /\ ~ attached /\ database
        /\ attached' = TRUE /\ To(q, "read") /\ UNCHANGED holds
        /\ cause' = [r \in Requests |->
             IF at[r] = "attach" /\ r # q THEN cause[r] \union {"race"} ELSE cause[r]]
     \/ (attached \/ ~ database) /\ Fail(q) /\ UNCHANGED cause
  /\ UNCHANGED <<process, environment, shared, kind>>

\* The view is read, or it is missing or Postgres away; the connection closes.
ReadHub(q) ==
  /\ at[q] = "read"
  /\ \/ /\ database /\ "views" \in schemas
        /\ To(q, "respond") /\ UNCHANGED holds
        /\ attached' = \E r \in Requests \ {q} : at[r] \in Reading
     \/ ~ (database /\ "views" \in schemas) /\ Fail(q)
  /\ UNCHANGED <<process, environment, shared, kind, cause>>

-----------------------------------------------------------------------------
Boot == WaitForPostgres \/ GiveUp \/ ApplySchema \/ ApplyCoreFails \/ EnsureDirs

Handle(q) ==
  \/ Factory(q) \/ Connect(q) \/ ConnectTimesOut(q) \/ Respond(q)
  \/ EnterScope(q) \/ LeaveScope(q) \/ ScopeTimesOut(q)
  \/ Open(q) \/ OpenFails(q) \/ Check(q) \/ Attach(q) \/ ReadHub(q)

GetEngine(t) == Engine(t) \/ Create(t) \/ Publish(t)

Next ==
  \/ Outage \/ Recover \/ Start \/ Crash \/ Boot
  \/ \E t \in Threads : GetEngine(t)
  \/ \E q \in Requests : Handle(q) \/ \E k \in Kinds : Arrive(q, k)

Spec == Init /\ [][Next]_vars

\* Docker restarts, and threads run.
FairSpec ==
  /\ Spec
  /\ WF_vars(Start) /\ WF_vars(Boot)
  /\ \A t \in Threads : WF_vars(GetEngine(t))
  /\ \A q \in Requests : WF_vars(Handle(q))

-----------------------------------------------------------------------------
(* Properties                                                              *)

\* Every variable that a proof reasons about holds a value of its type.
Places == Ended \union InEngine \union Reading
          \union {"factory", "again", "connect", "respond", "open"} \union DOMAIN Scope
Phases == {"down", "engine", "waiting", "dirs", "serving"} \union {Schemas[i] : i \in 1 .. Len(Schemas)}
TypeOK ==
  /\ phase \in Phases
  /\ at \in [Threads -> Places] /\ at[boot] \in InEngine \union {"idle"}
  /\ kind \in [Requests -> Kinds]
  /\ cause \in [Requests -> SUBSET Causes]

\* A request fails for a cause: Postgres was away; the lifespan went on without a
\* schema the request needs; the pool was used up by others; DuckDB could not be
\* opened or its extension not be had; or another read attached Postgres between
\* the check and the attaching of its own.  None finds the engine without its
\* session factory, although get_session_factory reads both without the lock: the
\* lifespan has had them made before the first request.
FailuresHaveCauses == \A q \in Requests : at[q] = "failed" => cause[q] # {}

\* The invariants behind it.  The lifespan makes the engine and then its factory
\* before it goes on, and takes no request before it serves: no request comes to
\* make the engine, or finds it half made.
BootMakesTheEngine ==
  /\ phase # "engine" => at[boot] = "idle"
  /\ phase = "down" \/ at[boot] \in {"engine", "create"} => ~ engine
  /\ at[boot] = "publish" => engine
  /\ phase # "down" /\ at[boot] = "idle" => engine /\ factory
  /\ phase # "serving" => \A q \in Requests : at[q] = "idle"
  /\ \A q \in Requests : at[q] \notin InEngine \union {"again"}

\* A read of the hub has Postgres attached, and a request that nothing has come
\* between finds what it needs.
CausesAreRecorded ==
  \A q \in Requests :
    /\ at[q] \in {"open"} \union Reading => kind[q] = "hub"
    /\ at[q] = "read" => attached
    /\ at[q] \notin Ended /\ cause[q] = {} => Known(kind[q]) = {} /\ ~ (at[q] = "attach" /\ attached)
    /\ at[q] = "failed" => cause[q] # {}

\* Once Postgres stays, the API comes to serve and goes on serving, whatever a
\* boot left half-done; and a request ends, one that waits for its second
\* connection while all others do included, unless the process does.
ServesAgain ==
  /\ (<>[]database) => <>[](phase = "serving")
  /\ \A q \in Requests : at[q] \notin Ended ~> at[q] \in Ended
=============================================================================
