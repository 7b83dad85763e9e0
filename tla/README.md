# A verification project for the operations-intelligence platform

TLA+ specifications of the platform in `src/`: how a CSV becomes hub rows, how
hub rows become analytics and ML results and those become statements to a manager,
how documents become searchable, how the copilot answers a question, who may see
what, and what keeps the API's process serving. Every definition is translated
from the code; `PROJECT.json` maps each one to the lines it stands for. TLC
checks the specifications on small instances, and TLAPS proves the safety of every
component that keeps state, and that onboarding, the analytics tables and the
life of a document implement their contracts, for every instance.

- [1. The system](#1-the-system): components, state, operations, interactions
- [2. What is hard here, and what makes it correct](#2-what-is-hard-here-and-what-makes-it-correct)
- [3. The modules](#3-the-modules), and how they correspond to the code
- [4. The runs](#4-the-runs), their bounds and their fairness
- [5. The proofs](#5-the-proofs)
- [6. Where the code and its words differ](#6-where-the-code-and-its-words-differ)
- [7. What is not modelled](#7-what-is-not-modelled)
- [8. The plan](#8-the-plan)

Run `tlc -config MCUploads.cfg MCUploads.tla` (and so on) to check an
instance, `tlapm OnboardingProofs.tla` (and so on) to check proofs.

## 1. The system

The platform takes operational CSVs of a business, asks a user to confirm what
each column means, stores the values in a hub with one table per domain
(assets, operations, quality, finance, ...), computes analytics and ML results from
it, and lets users ask questions about both the numbers and their documents.

| Component | Source | State it keeps | Operations | Modules |
| --- | --- | --- | --- | --- |
| API process | `api_app/main.py`, `packages/common/ops_common/db.py` | the engine and session factory, the pool, the DuckDB instance; which schemas the database has | boot (wait, apply schemas, directories), serve requests with one or two connections, attach Postgres to DuckDB | `Backend` |
| Profiling and suggestion | `services/ingestion/app/connectors`, `profiling`, `mapping` | none | clean and deduplicate columns, infer types, suggest targets | `Intake` |
| Ingestion | `services/ingestion/app` | `meta.dataset`, `meta.column_profile`, `meta.mapping_config`, `meta.feature_record`, eight hub tables | start, confirm (statuses, config version), validate, load, add a skipped column | `MappingRules`, `HubContract`, `Onboarding` |
| Upload directory, ingestion DAG | `/data/uploads`, `dags/ingestion_dag.py` | CSV files; Airflow's task instances | save, find, read; discover, ingest each file, archive, summarize | `UploadFiles` |
| Analytics | `api_app/spark_trigger.py`, `analytics_dag.py`, `analytics-spark/jobs` | `analytics.domain_metrics`, `daily_trend`, `entity_features` | trigger a run, and per domain: read, delete, append | `ResultsContract`, `AnalyticsRefresh`, `Statistics` |
| ML | `ml_orchestration_dag.py`, `services/ml/jobs` | `ml.forecasts`, `ml.anomalies`, `ml.risk_scores`, `ml.model_registry` | forecasting, anomaly detection, risk scoring | `MLRefresh`, `Statistics` |
| Intelligence, executive page | `services/intelligence`, `risk_index.py`, `routers/v1/executive.py`, `intelligence.py` | none | infer, rank, merge, translate, polish; index and band | `CrossDomain`, `RiskIndex` |
| Documents (RAG) | `services/rag`, `routers/v1/rag.py` | `rag.documents`, `rag.chunks`, `rag.embeddings`, stored files | register, index in the background, delete; extract, chunk, embed, search, answer | `LibraryContract`, `RagIndexing`, `Chunker`, `Answering` |
| Copilot | `services/agent`, `routers/v1/agent.py`, dashboard page | `agent.conversation`, `agent.message`; the page's stores | ask: load history, reason with tools, save the exchange | `AgentLoop`, `Copilot`, `AgentCalls`, `AgentTools` |
| Read API | `routers/v1/analytics.py`, `ml.py`, `domains.py` | none | filtered and ordered queries | `ReadAPI` |
| Authentication | `api_app/auth`, `dashboard/app/callbacks/auth.py` | `auth.users`, `auth.refresh_tokens`; the page's token stores | sign in, refresh, revoke, register, sign out | `Sessions` |
| Permissions | `auth_schema.sql`, the routers, `api_client.py`, `nav.py` | role grants | who may call what; what each page loads | `Access` |
| Dashboard | `services/dashboard` | one session store of the onboarding pages; callbacks in flight | upload, confirm, review, open a dataset, the route guard | `Wizard`, `Access` |

How they interact:

- **Calls.** The dashboard calls the API with a read timeout (240 s for a
  question). Nothing tells the API that its client has given up. A callback
  works on the stores it was called with, and its answer may come late or not
  at all.
- **Shared rows.** Every request has one Postgres session (`get_db`) and most
  have one READ COMMITTED transaction. The indexing task, the ML jobs, and the
  copilot's memory and tools open sessions of their own: a question holds one
  connection and asks for a second. Spark deletes and appends in separate
  transactions.
- **Shared files.** The API's upload directory *is* the directory the ingestion
  DAG looks through. `POST /features/add` looks through it too.
- **Triggers.** A confirmation starts a daemon thread that asks Airflow for an
  analytics run; nobody waits for it and it is not retried. An ML run is
  started by hand: its DAG has no schedule and nothing triggers it, although a
  comment there speaks of an upload (`ml_orchestration_dag.py:104`).
- **Background tasks.** FastAPI runs the indexing tasks of an upload, in order,
  after the response is out; they live in memory.
- **Functions.** The agent's tools call the read endpoints as plain Python
  functions, past their permission checks.

## 2. What is hard here, and what makes it correct

`PROJECT.json` lists every hazard at its line. They come in these groups, and
each has the properties that must hold in spite of it.

**Process.** The engine and its session factory are published one after the
other to threads that look without a lock; a question needs two connections of
a bounded pool; two reads attach Postgres to one DuckDB instance, whose file
another process may hold; a boot dies half-way through the schemas. Correct means:
a request fails only for an outage, a missing schema, a full pool, a race over the
attachment or a DuckDB file that does not open, and once the database stays, the
API serves again and every request ends (`FailuresHaveCauses`, `ServesAgain`).

**Intake.** Names are cleaned, columns dropped by name, repeats renamed, and a
model's reply is matched by name. Correct means: what is read has distinct
names and every column is proposed something, once (`IntakeIsComplete`).

**Onboarding.** Requests of one business race for the next config version; a
load is five statements with five snapshots; validation can fail after statuses
and config have been flushed; a transaction can wait for several others. Correct
means: versions of a business are unique and dense; what is loaded is exactly
what the newest valid config asks for, never a mixture; a confirmation takes
effect at one instant; the review view agrees with the hub; everybody is
answered.

**Upload directory.** Two programs use it without locks; a worker may be lost
before or after its commit, a file may be one that no attempt can read, and an
archive move may be refused between the copy and the removal. Correct means: no
file leaves without having been onboarded and archived; a file is onboarded again
only after a fault; every file that can be read leaves in the end, also beside one
that cannot.

**Refreshes.** Triggers may be lost, a run meets a hub that changes under it, a
job may fail between delete and append or inside the append, and is then started
from the beginning. Correct means: no table counts a row twice or mixes two
states of a dataset; a requested refresh lands, unless something known kept it
away; when all is quiet the tables follow the last load, unless it was one that asks
for no run; and who reads
while a run is at it sees results of one state, nothing, or part of those of a
state at least as new (`ImplementsResults`). For ML: what is
shown can be traced to a registered run, alerts are the newest, and risk
scores never weigh alerts of an earlier run.

**Results.** Empty values, several datasets, missing days, fallbacks. Correct
means: counts add up, forecasts continue the series, alerts show values that
were read, scores follow their factors (`ResultsFollowTheReadings`); a finding
keeps its own evidence through merging, ranking, translation and polishing, and
the index and its band follow the scores, as the cards and lists beside it do, but
for what rounding does at a limit (`InsightsTellTheEvidence`).

**Documents.** Every status change is a transaction of its own and any can fail;
documents are deleted while they are being indexed; a restart drops what was in
memory. Correct means: "indexed" promises all chunks; nothing deleted is
searched; each document gets an outcome, once, and a deleted one never comes back
(`DocumentsLiveOnce`); and from a page to a source under an
answer nothing readable is lost and numbers are kept (`DocumentsAreCited`).

**Copilot.** The model may do anything; two caps count different things; the
page may give up on a request that goes on and saves its exchange later. Correct
means: the graceful cap comes first; the conversation the model reads is one it
could have had; the user gets the last answer given and never a withdrawn one;
the page stays a dialogue; stored turns are in order, and alternate without a gap
even where two saves overlap (`TurnsAlternate`); however a call is worded,
what runs is a tool with its parameters and what it tells is what the tables
hold (`ToolCallsTellTheTables`).

**Sessions and pages.** A token carries permissions nobody looks up again;
sign-in is two requests that fill three stores; one store serves two workflows;
the guard and late answers both move the page. Correct means: access outlives
its grounds by at most one access lifetime; the stores are those of one
sign-in; the guard settles; a dataset the review has to show is asked for, and gets
its review or an error of its own in the end; a role is shown only pages that load (`RolesGetTheirPages`).

## 3. The modules

```
MappingRules ---- Onboarding ==> HubContract       (==> implements)   *
     Intake   :       |
                  UploadFiles                       the files Onboarding reads   *
                      :
                  AnalyticsRefresh ==> ResultsContract   what a committed load sets off   *
                      :               \
                  MLRefresh   *        Statistics   the content of both's tables   *
                                       CrossDomain, RiskIndex   statements on them
RagIndexing ==> LibraryContract   *
              : Chunker   *                         Prepare's cut
                Answering                           before and after the index
Copilot *     :  AgentLoop   *                      Copilot's Answer
                AgentCalls   *, AgentTools ---- ReadAPI  one superstep's tool calls
Sessions ---- Wizard   *                            one tab
Access                                              pages, routes, roles
Backend   *                                         the process under them all
```

Solid lines are EXTENDS or INSTANCE. Dotted ones are boundaries: the upper
module's effect is free or abstract in the lower one. `UploadFiles` has two routes of
"load" where `Onboarding` has the statements of one; `MLRefresh!SourcesChange`
lets a table be cleared or replaced at any time, which is all that
`AnalyticsRefresh` may do to it; `Copilot!Answer` ends, which is what `AgentLoop`
shows; `RagIndexing!Prepare` stands for extraction, `Chunker` and the embedding;
`AgentLoop` lets a tool return anything, and `AgentCalls` and `AgentTools` say what.
`Values` declares the three values (`None`, `Fails`, `Nested`) the function
modules share, and Python's rounding, halves to the even neighbour (`RoundTo`).

A star marks a component with theorems. They are in modules of their own:
`AgentLoopProofs`, `CopilotProofs` and `BackendProofs` extend the component's
module, `OnboardingProofs` extends `MCOnboardingUse` (`Onboarding` with its history
variable), `DashboardProofs` extends `Wizard` (and with it `Sessions`), and
`UploadsProofs` and `RefreshProofs` extend `MCUploads` and `MCRefresh`, each of which
instantiates a second component beside the first. `FunctionProofs` extends three of
the modules that are functions: `Chunker`, `Statistics` and `AgentCalls`.

Definitions whose comment begins with "Mutant:" are wrong on purpose. Each is a
plausible error in the definition that follows it, and putting it in that
definition's place makes TLC report the property it is paired with.

### MappingRules, HubContract, Onboarding

`MappingRules` is the meaning of a confirmed mapping: each column is mapped to a
target (`<<domain, metric>>`), is an entity, is skipped, or is not listed (a
client may send some columns only). `Valid` is `validate_dataframe`: some column
is mapped, and every metric column has numbers.

`HubContract` is the promise: per business one history of saved mappings, per
dataset a content; a confirmation appends to the first and, when valid, replaces
the second, in one step.

`Onboarding` is the code of `POST /onboard/confirm` and `POST /features/add`.
Committed rows are the variables `status`, `configs`, `hub`, `features`; a
request's program counter, payload and session (`seen`, `version`, the rows its
DELETEs have removed, the columns its load found skipped) are per request.

| Action | Code |
| --- | --- |
| `BeginConfirm` | `onboard_confirm` finds the dataset; `confirm_mappings` reads the profiles |
| `ReadVersion` | `_next_config_version` |
| `FlushConfirm`, `VersionConflict` | `session.flush()`: wait for the holder of the unique index entry or of a profile's lock, then insert, or fail |
| `CommitUnloaded` | `complete_onboarding` returns after a failed validation, the router commits |
| `ClearHub`, `ClearFeatures`, `Load` | `load_to_hub`, statement by statement |
| `CommitLoaded`, `Respond` | the router's commit; the trigger and the response |
| `BeginAdd`, `CommitAdd` | `add_missed_feature` |
| `Rollback`, `LoseResponse` | an exception, or the loss of the process |

The transaction is split exactly at the statements whose result depends on what
others have committed. Postgres is in the guards: `Blocks` and `AddBlocked` are
its row locks and the unique index, and a statement that would wait is not
enabled. The ORM writes only what differs from what the session loaded; `Dirty`
says so, because that is what decides which locks are taken. It is about statuses:
where only a suggested name differs, the code takes one lock more and an add waits
that the model lets go on.

### UploadFiles

A file name is its place in name order. A file on disk is partly written, whole, or
broken: one that the connector cannot read. `SaveBegin`/`SaveEnd` are
`_save_upload` (the file is on disk while it is being written), `Start`,
`ConfirmBegin`, `ConfirmEnd` and `Add` the API's reads of it, `Drop` a file put
there for the DAG, and `Discover`, `Ingest`, `Report`, `ArchiveCopy`,
`ArchiveRemove`, `EndRun` the DAG. `IngestRaises` is an attempt that the file fails: no
fault is needed for it, and a broken file fails every attempt of every run, since
nothing moves it away. `LoseWorker` is a fault (a lost worker, or a database that
is away), `ArchiveFault` a refused move. `Ingest` is a commit, which a file whose
validation fails gets as well, with a dataset and nothing loaded. Airflow's part (retries, mapped tasks, trigger rules) follows the
DAG's arguments.

### AnalyticsRefresh and MLRefresh

`AnalyticsRefresh` numbers the changes of the hub; a piece of a table is the
number of the change it was computed from. `Confirm` and `Trigger` are the API
and its thread, `Ingest` is a load of the ingestion DAG, which has a new dataset
and asks for no run; `StartRun`, `ReadDomain`, `PassEmpty`, `SkipDomain`, `Clear`,
`Write`, `EndTask` are a run of `domain_analytics` and then
`feature_engineering`. `TaskFails` may happen anywhere, with any part of an
append done. `missed` is a history variable: the datasets whose last refresh
something known kept away (a lost trigger, a skipped domain, a failed run, an
addition or a load of the ingestion DAG, which ask for no run).

`ResultsContract` is what the tables promise their readers: a table goes, a domain
at a time, from the results of one state of the hub through nothing to those of
a state at least as new (`Begin`, `Land`), or to a part of them if the append is
interrupted. It knows no runs, jobs, tasks or retries.

`MLRefresh` keeps with each result what it was computed from: the registry
entry, the two source tables, and, for risk scores, the anomalies. A job's reads
are one step and its transaction is one step (`Finish`, or `FinishEmpty` for the
early return).

### RagIndexing, Chunker, Answering

`RagIndexing` has one step per transaction of `index_document` and of its
failure path, `Register`/`RegisterFails`/`Respond` for the upload, `Delete`, and
`Crash`. `LibraryContract` is what its users see of it: an entry that is worked
on, ends once and is deleted once (`Entry`), and what a search may find (the
documents with stored chunks). `Chunker` is `chunk_document`: `Take` is one turn of the greedy loop,
with `_flush` and the `Carry`, and a page is a recursive function of it over the
sizes of its sentences. `Answering` holds the functions around them: `Clean`, `PdfPages`,
`OnePage` and `ExtractDocument` for `extractor.py`, the check of the embedding's dimension, the
search of one dataset with its distance bound, the context cut at its size, the
sources, and when an answer counts as grounded. A vector is its distance to the
question and a text is its size.

### AgentLoop, Copilot, AgentCalls, AgentTools, ReadAPI

`AgentLoop` is the LangGraph of `graph.py`: nodes `agent`, `tools`, `nudge` and
`give_up`, the router `Route`, the guard `AnswerIsImpossible`. The conversation
is the kinds of its messages. The model's turns and the tools' results are free;
`ToolRaises` is the one argument that `dispatch` lets raise (section 6).

`Copilot` is the page (`Submit`, `Receive`, `Timeout`, `Reload`) and, per
question, the request (`Load`, `Answer`, `ReadNext`, `Save` and their failures)
on the messages of a session. `ReadNext` and `Save` are apart because
`_next_turn_index` reads before it inserts.

`AgentCalls` reads a reply (native calls or JSON in text), coerces arguments,
dispatches, chooses the tools a question brings, and counts evidence.
`ReadAPI` has the endpoints as functions of a database of row sequences;
`AgentTools` resolves domains and metrics and builds the tools' results on it.

### Statistics, CrossDomain, RiskIndex, Intake

The pure algorithms, each with the statement it is checked against.
`Statistics` computes aggregates, trends and entity features from hub rows, and
forecasts, alerts and risk scores from those, in integers (averages in sixtieths,
shares in thousandths, rounded down). IsolationForest and ExponentialSmoothing are
external: what they return is an input; a series without a value (`Unfillable`)
ends the forecasting job with nothing written. A risk score is rounded after its
level is taken from it. `CrossDomain` is the walk of the rule
graph over corroborated edges, the merge of loops, the translation and the
reading of polished texts by id, with movements as exact fractions (`MoveOf`);
`InsightOut` is what the intelligence page gets of a translation, and
`ExecutiveInsights` what the executive page makes of insights that were not
translated. `RiskIndex` is the blend, the index with the band of its rounded value,
the cards with the band of theirs before it, and the executive lists. `Intake` is `csv_connector`, `profiler` and `suggester`, with
headers as sequences of characters and cells as counts; `Enriched` is the answer of
`start_onboarding`, one entry per column, from the last suggestion made for it.

### Sessions, Wizard, Access

`Sessions` has the API's handlers statement by statement: `LoginSelect`,
`LoginIssue`, `LoginProfile`, `LoginReturn` (a sign-in of the page, which can be
`LoginLost` between), `RefreshSelect` and `RefreshMint`, `Logout`, `LogoutAll`,
`RegisterSelect` and `RegisterInsert`; `CreateAdmin` is the bootstrap script,
and `EditAccount` is done in the database by hand (no route exists). A token is the claims it carries; time
is a bounded clock. `lostAt` is a history variable. `Wizard` extends it with one
tab: `Send*` starts a callback with a copy of the stores, `Serve*` is the API's
part, `Return` or `Fail` its end, `Guard` the route guard, `AskReview` and then
`ShowReview` or `ReviewFails` the review's load, which a refused or lost request
ends with an error and no dataset.

`Access` is data and its meaning: grants, routes with the permission of each,
the client's calls, what a page calls when it loads, and the navigation. Its
properties relate the five.

### Backend

`Start`, `WaitForPostgres`/`GiveUp`, `ApplySchema`/`ApplyCoreFails` and
`EnsureDirs` are the lifespan; `Engine`, `Create`, `Publish` are `get_engine`,
with the lock, for the lifespan and for requests; `Factory` is
`get_session_factory` with its second look. `Connect`, `EnterScope`,
`LeaveScope` and the timeouts are the pool; `Open`, `Check`, `Attach`, `ReadHub`
the DuckDB scope, with `OpenFails` for a file that is locked or cannot be opened and
an extension that cannot be installed or loaded. `Outage`, `Recover` and `Crash` are the environment.

## 4. The runs

All instances finish within three minutes or so with two workers. No run checks
deadlock: requests, questions, uploads, changes and faults are bounded by the
instance, so every model may stop once its users have asked for all they may.
Progress is a liveness property instead. The type invariants are definitions of
the modules and parts of the inductive invariants that are proved (section 5).

| Run | Properties | Instance | What it shows |
| --- | --- | --- | --- |
| `MCOnboardingUse` | `HubIsNewestValidConfig`, `CollectedFeaturesMatchHub`, `LoadsAreSerial`, `PlainReviewMatchesHub` | 3 requests on 2 threads (4 while the use is plain), 1 dataset, a numeric and a non-numeric column, partial lists | any two transactions interleaved, with a third before, between or after; and what the review shows when requests do not interleave (the fourth follows three that succeeded: one that failed alone leaves what was before it) |
| `MCOnboardingFair` | `ImplementsContract`, `EveryRequestEnds` | 2 requests, 2 datasets of one business, 2 targets | refinement of `HubContract`; waits for locks end |
| `MCOnboardingUncollected` | violated: `CollectedHasData` | 3 requests | see section 6 |
| `MCUploads` | `KeptUntilIngested`, `AtMostOnceMorePerFault`, `EveryFileLeaves`; `DocumentsLiveOnce`, `EveryDocumentSettles` | an upload and a dropped file, each whole or broken, 1 retry, 2 faults, 1 add; or 2 document uploads of up to 2 files, 2 faults, 1 restart | a file's whole life beside another's; failures and deletions at every step of indexing |
| `MCAgentLoop` | `OurCapFirst`, `ConversationIsValid`, `EndsWithItsAnswer`, `SentBackOnceWithBudget`, `EveryQuestionEnds` | 5 turns, 2 retries, 2 metrics | whatever the model says and the tools return |
| `MCCopilot` | `PageAlternates`, `CountIsExact`, `TurnsInOrder`, `GivenTheLastTurns`, `TurnsAlternate`, `EveryQuestionIsAnswered` | 4 questions, history of 3 turns, 2 faults, 1 timeout, 1 reload | late answers, failed statements, two sessions |
| `MCRefresh` | `FreshWhenIdle`, `ImplementsResults`, `RefreshesLand`; `ShownResultsAreNewest`, `RiskUsesOwnAnomalies` | 2 datasets, 2 domains, appends in 2 parts, 2 changes (of users or of the ingestion DAG), 1 run over all, 2 faults, 1 retry; or 2 ML runs, 2 changes of their sources, 2 faults | failures inside deletes and appends, changes during runs, runs of different scopes |
| `MCDashboard` | `AccessEndsWithItsGrounds`, `StoresAreOneSignIn`, `OnlyOpeningMixes`, `GuardSettles`, `ReviewCatchesUp` | 2 users, 1 permission, 1 handler, 1 session row, access for 1 and refresh for 2 of 2 clock units; 2 callbacks in flight (1 beside the review's), 2 datasets | every end of a session against every step of a sign-in; every order of late answers on the onboarding pages; the review's questions, answers and errors while datasets are opened, loaded and left |
| `MCMixedStore` | violated: `LoadsItsOwnFile` | as `MCDashboard` | see section 6 |
| `MCFunctions` | `IntakeIsComplete`, `InsightsTellTheEvidence`, `ToolCallsTellTheTables`, `DocumentsAreCited`, `ResultsFollowTheReadings`, `RolesGetTheirPages` | 207 572 inputs; a context of 7, stores of 2 to 8 | the functions, input by input |
| `MCTrends` | violated: `StoredTrendsAreDrawn` | as `MCFunctions` | see section 6 |
| `MCBackend` | `FailuresHaveCauses`, `ServesAgain` | 2 requests of 3 kinds, 2 connections, 2 attempts at a boot, 2 outages | boots, crashes and outages against overlapping requests |

**Two components in one run.** `MCUploads` and `MCRefresh` each hold two
components that share no variable, and a behaviour is of one of the two while
the other waits; a variable chosen at the start says which. `MCDashboard` spends
its bounds in one of three ways (`focus`): on the steps of sessions and guard, on
those of the pages but for the review's, or on the review's beside one callback at a
time. Their product is too large; the pages depend on a session only by its
existing, and the review only draws: no step but its own reads what it shows.
These are ways to spend the bounds; no module has them.

**Why the bounds are enough.** A race over a version or a row needs two
requests, and its aftermath a third that reads what the two have left. A file
needs one neighbour to be mistaken for. Two faults exhaust one retry (`AddsCount`
and `CrashesCount` let an add or a restart take the place of a fault, and
`FaultsEndRuns` allows the second fault of a refresh only where it ends a run).
Two domains are the least with something between them. Two runs are the least
where one can leave something for the other. With four questions and a history
of three turns the older exchanges are cut, and because the limit counts
messages an odd one cuts through an exchange: the model may be given an answer
whose question it is not shown, and `GivenTheLastTurns` is about turns. Two connections are the pool that two
questions can exhaust with one each. A clock of two units lets an access token
end before its session and a session before the clock. Two callbacks
in flight are the least that can answer out of order, and two datasets the
least that can be mixed; the review's question is a callback of its own, so one
other is enough to change the dataset under it. The inputs of `MCFunctions` are products of small sets
that were chosen to reach every branch: names that collide after cleaning, columns
at and beside a threshold, loops of the rule graph, replies of every shape,
a layer of the database away, chunks that fit the context together and that do not,
scores on both sides of a limit and at it, a column the model names twice, sentences that fit, break and exceed a chunk (size
5, overlap 2), every role with every page. The number of requests, faults and
turns is where a model cannot be larger; what is proved (section 5) has no such
bound. Symmetry (over request ids, which nothing orders) is used in safety runs only.

**Fairness.** `Onboarding`: weak fairness of each request, as threads run and
Postgres gives a released lock to a waiter; nothing has to fail and no client
has to come. `UploadFiles` and `AnalyticsRefresh`: Airflow keeps scheduling
(weak fairness of discovery, of each task, of a queued run) and threads run;
an attempt at a file ends one way or the other, with the file deciding which; faults
are not fair and users owe nothing. `RagIndexing`: a request's tasks run.
`Copilot`: a request is worked on; the page's timeout is not fair. `AgentLoop`:
nodes run until the end and requests to Ollama have a timeout. `Wizard`: the
browser runs the guard when the route or the token has changed, asks for a review
that is due, and the request ends in a review or in an error, as the client has a
timeout; which of the two is free, and whether other answers come is not fair. `Backend`: Docker starts the container again, the lifespan and requests run
and the pool's wait times out; outages need not end, and `ServesAgain` says what
follows when they do. Weak fairness is enough everywhere: what must happen
stays enabled until it does, except for a wait on a lock or a connection, whose
holder is fair as well.

## 5. The proofs

Eight modules hold theorems. Each theorem is about every value of the
constants: any number of requests, files, datasets, questions, retries, faults.
The assumptions are the named `ASSUME`s of the modules, which every run
evaluates, and they say only what kind of thing a constant is: numbers are
naturals (`PoolSize`, `Tries`, the token lives and `Parts` at least 1),
uploads are among the files, a business belongs to each dataset, a numeric column
is a column, targets are none of the roles, the lifespan is not a request.
`AgentAssumption` has the metrics finite, since the loop counts them;
`ChunkerAssumption` has a positive chunk size; `AgentCallsAssumption` has the words
for a cause in `graph.py` among those of `selector.py` (the lists are equal), and
the groups that the selector names among the groups. Bounds
on faults, clocks and changes are arbitrary naturals, so nothing depends on them.

`OnboardingProofs` (for every set of requests, datasets, businesses, columns and
targets, any number of threads, from `MappingAssumption` and
`OnboardingAssumption`):

- `TypeCorrect`: `Spec => []TypeOK`, with `Assigned` (a request past its begin
  has a dataset, one past its version a positive version) as the strengthening.
- `LoadsSerialised`: `Spec => []LoadsAreSerial`, the inductive invariant.
- `VersionsAreDense`, `HubFollowsConfig`: its two conclusions,
  `VersionsUniqueAndDense` and `HubIsNewestValidConfig`.

The argument: nothing in the code locks a dataset, and a load is several
statements, so `HubIsNewestValidConfig` is far from inductive. What saves it is
the UNIQUE index on `(business_name, version)`. A confirmation reads the latest
committed version plus one (`VersionFollowsCommitted`), inserts it before it
touches the hub, and holds the index entry until it commits. A second
confirmation of the business either waits for it or fails on it. So at most one
is past its flush, with a version newer than all committed ones
(`OneHolderPerBusiness`); nothing is loaded between its deletes and its commit,
so what it deletes is everything that was loaded (`ClearedIsEverythingLoaded`);
and the commit therefore replaces the content by that of the newest valid
config. `RowsRecordTheirRequest` ties a committed row to the request that wrote
it. The proof has a lemma per group of actions: those that change no committed
row (`SerialFrame` and its users), the flush (`SerialFlush`, where the index is
used), the holder's steps, the two commits (`SerialCommit` and its cases), and
the add, which touches no loaded row. If the index is dropped
(`BlocksOnProfiles`), TLC finds the invariant violated.

- `FeaturesFollowHub`: `Spec => []CollectedFeaturesMatchHub`. A load deletes rows
  and feature records with two statements that see different commits. The
  strengthening is `ClearedIsEverythingCollected`: what the second statement
  deletes is everything collected for the dataset, and nothing else, up to the
  commit. It holds since whoever else writes collected features is a
  confirmation of the same business, and an add writes rows of another kind.
- `OnboardingImplementsContract`: `Spec => ImplementsContract`, the refinement of
  `HubContract` that `MCOnboardingFair` checks on an instance. The contract's
  history of a business is read off the saved configs in version order
  (`SavedMappings`), its content off the loaded rows. Every commit of a
  confirmation is one `Contract!Confirm` and every other step is a stutter
  (`ContractStep`). It needs, besides `LoadsAreSerial`, that the versions of a
  business have an end and that what is confirmed can be submitted
  (`Contracted`); the rest is about sequences built by CHOOSE (`HistoryIs`,
  `HistoryKept`, `HistoryAppended`): a config with the next version appends its
  mapping and leaves the entries before it alone.

- `ReviewFollowsHub`: `UseSpec => []PlainReviewMatchesHub`, where `UseSpec` is
  `Onboarding` with the history variable `plain` and without the bounds of the
  run. The invariant `PlainUse` says that in plain use nothing comes between the
  statements of a request: a confirmation in flight has seen the statuses as they
  are (so that what it leaves unwritten is what it wants), a load has deleted
  everything the hub holds of the dataset, an add still finds its column
  skipped. Of the lemmas before it, it needs that a commit's config
  is the newest (`NewestAfter`) and that a load deletes nothing of other datasets.
  A request that fails ends nothing: use stays plain after it.

`UploadsProofs`:

- `NoFileIsLost`: `Spec => []KeptUntilIngested`, from `TaskHasDone`: a task past
  its commit has onboarded its file, past its copy has archived it. The removal
  itself remembers neither.
- `OncePlusFaults`: `Spec => []AtMostOnceMorePerFault`. The bound alone is not
  inductive, as a second onboarding is only justified by what was paid before
  it. `AgainAfterFaultOnly` says that a file on disk that is or will be taken
  up again has cost a fault for each time it was onboarded before, and that a
  file nobody has saved yet was never onboarded.
- `IndexedDocumentsAreComplete`, `DeletedDocumentsLeaveNothing`:
  `IndexedIsComplete` and `NoOrphans`, from `StoredOrDeleted`: a task that has
  stored its chunks still finds them, or finds no document. The contract below
  promises both, so that no run checks them apart.
- `DocumentsAreLivedOnce`: `Rag!Spec => DocumentsLiveOnce`, the refinement of
  `LibraryContract`. The list alone does not tell a deleted document from one that is
  yet to come; `Entry` reads that off the task. That an ending is the only one needs
  `WorkedOnOnce`: while a task is at a document nobody but the deletion has settled
  it, and an upload accepts a document that was never listed. After a deletion the
  task goes on, and what it writes must change nothing (`SetStatus` is an UPDATE,
  the chunks have a foreign key). `EntriesStay` and `OthersStay` are the frame,
  and `LibraryStep` takes the actions one by one.

`RefreshProofs`:

- `RerunsReplace`: `Spec => []ReplacedNotDuplicated`. An append adds to whatever
  is there, so it must be known that nothing is: `InPlace` (a job is at a table
  of its own, in a domain and scope it has read) and `ClearedIsEmpty` (after the
  delete, and until the append, nothing of the scope is left, however often the
  task has failed in between). The append may leave any number of its pieces. The contract below
  promises it too, and is what the run checks.
- `NothingStaleWhenIdle`: `Spec => []FreshWhenIdle`, from `FreshBehindTheRun`,
  which is about every moment of a run: for a dataset nobody is about to refresh,
  the tables and domains the run has behind it (`Done`) hold the current state,
  and at the table it is at, what it has read is the current state. The rows a
  failing append leaves are ahead of it or its dataset is `missed`. So is a dataset
  that the ingestion DAG has loaded, until a run has been asked for and begun: the code
  leaves it stale, and the theorem does not speak of it.
- `RefreshImplementsResults`: `Spec => ImplementsResults`, the refinement of
  `ResultsContract`: `Clear` is its `Begin`, and `Write` and the failure of an
  append are its `Land`; a change of the hub is its `Change`, the rest stutters.
  The contract's "at least as new" is not in any guard of the code: it holds since
  runs are one at a time and read a domain before they replace it, which is `NoOlder`
  (no piece is newer than the rows, and none at the place being replaced is newer
  than what was read). A job that is tried again deletes and appends anew: each
  attempt is a `Begin` and a `Land` of its own, and an append finds nothing
  (`ClearedIsEmpty`).
- `ResultsAreTraced`: `ML!Spec => []ShownResultsAreNewest`, with `Traceable` and
  `AnomaliesAreNewest` as parts of one inductive invariant.
- `RiskWeighsItsOwnRun`: the action property `RiskUsesOwnAnomalies`, from
  `OwnAnomaliesOnly`: while risk scoring runs, the anomalies of its scope, and those
  it has read, are its own run's or absent, because the run's anomaly
  detection has replaced them or removed them before.

`CopilotProofs`:

- `PageIsAConversation`: `PageAlternates`, from `WaitsForTheLast`: what the page
  waits for is the question it shows last. So an answer that comes after a
  timeout or a reload is not shown.
- `CountOfMessages`: `CountIsExact`. The count is increased in the row while the
  messages are inserted; the two agree because a question saves at most once
  (`AskedInOrder`: only a request past its save has messages, in its own
  session), even where two saves use the same turns.
- `TurnsAreNumbered`, `TheHistoryIsTheLastTurns`: `TurnsInOrder` and
  `GivenTheLastTurns`, both under "the page has not given up". `OneAtATime` (a
  session has one request at a time, for its last question) gives `Numbered` (its
  turns are 0 to count - 1, distinct, in the order of the questions; a request
  about to save writes from the count on). What a request was given at its load is
  what a later reader would compute, since nothing with a smaller question comes
  after it.
- `OverlappingTurnsAlternate`: `TurnsAlternate`, with no condition on the page. After
  a timeout two requests may read the same maximum, so `OneAtATime` and `Numbered`
  are gone; what is left is `SavesAfterAnAnswer`: a request about to save has an even
  turn, and the turn before it is taken, because turns are only ever added, in
  pairs and in one transaction.

`DashboardProofs`:

- `GroundsBoundAccess`: `AccessEndsWithItsGrounds`, from `Grounds`: a token expires
  at most one access lifetime after its session does, after its session was
  revoked, and after it lost any permission it carries; a refresh between its two
  statements has seen a session that is unexpired, and unrevoked unless it was
  revoked in this unit of time. The bound has to be on the
  expiry: that the clock has not passed it is only known while the token lives.
- `StoresBelongTogether`: `StoresAreOneSignIn`, from `AnswersAreOneSignIn`: an
  answer in flight carries the profile of its own token.
- `OnlyAnOpenedDatasetIsMixed`: `OnlyOpeningMixes`, from `OwnFiles`: until a
  dataset is opened over an upload, the store, its copies in callbacks and the
  answers that may become it name a dataset with its own file or with none.

`BackendProofs`:

- `FailuresAreExplained`: `FailuresHaveCauses`. `BootMakesTheEngine`: the lifespan
  makes the engine and then its factory before the first request, so that the
  look without a lock never finds one without the other. `CausesAreRecorded`: a
  request with nothing recorded against it has every schema it needs, and one
  that reads the hub has it attached. The list of causes (`Causes`) is what is left
  after that: an outage, a missing schema, a full pool, the race over the attachment,
  and DuckDB, whose opening may fail at any time (a failure counts as an outage of the bound).

`AgentLoopProofs` (for every set of metrics and results, every
`OPS_AGENT_MAX_STEPS` and number of retries, 0 included):

- `TypeCorrect`: `Spec => []TypeOK`, flags and data apart.
- `CapIsKept`: `Spec => []CapInvariant`: a turn and the node after it are two
  supersteps, and the model is asked again only below the cap.
- `CapFirst`: `Spec => []OurCapFirst`: LangGraph's limit of `2 * max_steps + 4`
  is never reached while there is a node to run.
- `ConversationStaysValid`, `AnswerIsOnRecord`: `ConversationIsValid` and
  `EndsWithItsAnswer`, from `ConversationShape`: what the last message is at each
  node, and when an answer is on record.
- `SentBackOnce`: `SentBackOnceWithBudget`, from `NudgedOnce`: a conversation with
  a nudge has the flag set, it never holds two, and the node is never reached
  with the flag set.

`FunctionProofs` (for every input of the functions, without a bound):

- `ChunksHoldEveryDocument`: `ChunksHoldTheDocument(text)` for every sequence of
  pages of sentence sizes, chunk size and overlap. `Collected` is the invariant
  of the loop: the current chunk is a run of neighbouring sentences of the page
  that ends with the one just taken, and it has one sentence or is within
  size plus overlap; the chunks behind it are `GoodChunks`, and every sentence so far is
  in one or in the current chunk (`Going`). `TakeGoesOn` takes one turn: the sentence
  fits, or the chunk is flushed and the `Carry`, which `CarryIsTail` shows to
  exist and to be a tail within the overlap, goes before it. `PageIsHeld` is the induction
  over a page with the last flush, the theorem the induction over the pages.
- `ForecastsFollowEverySeries`: `ForecastsFollowTheSeries(in)` for every finite
  sequence of readings whose days are numbers or missing. A series has a last day
  because it is finite (`GreatestOf`, `MaxOf`), and both models make their rows for
  the days of the horizon after it (`ForecastRow`). A series of empty values ends the
  job (`Forecasting`), and there is nothing to follow.
- `AlertsTellEveryReading`: `AlertsTellTheReadings(in)` for any readings and any
  outliers of the forest. An alert is of a group, whose observations are averages
  of its own series (`GroupRows`), or of the fallback, whose observations are last
  values of features not seen in any group (`FeatureRows`).
- `EveryCausalQuestionGetsItsTools`: `CausalQuestionsGetTheirTools(in)` for any
  question, a sequence of words with their hyphenated parts. `graph._is_causal` looks
  at the parts only, `select_tools` at whole words and parts, so that a part
  found by the first is found by the second, whose list holds it.

A recursive function is proved about by induction over the natural numbers. The
library states it of an operator, which no installed prover can instantiate, so
`EveryNatural` states it of a set, and follows from the library's theorem that a
well-founded order has minimal elements (`WFMin`). `RunExists` derives from it
that a function with given values at 0 and n + 1 exists, and `RunOfEquations`
that the one a definition chooses satisfies its equations. This is why `Chunker`
has recursive functions where the other modules fold.

**Model-checked only.** The liveness properties (`EveryRequestEnds`,
`EveryFileLeaves`, `EveryDocumentSettles`, `RefreshesLand`, `EveryQuestionEnds`,
`EveryQuestionIsAnswered`, `GuardSettles`, `ReviewCatchesUp`, `ServesAgain`): fairness
and ENABLED are out of the prover's reach. The six properties of
`MCFunctions` are model-checked as wholes. Of `DocumentsAreCited`,
`ResultsFollowTheReadings` (twice) and `ToolCallsTellTheTables` a part is proved for
every input, as above. The other parts are about folds, `SelectSeq` and `SortSeq` of
the community modules, which declare them recursively or take an operator, and
what those compute for every input would need induction inside the library.
`RolesGetTheirPages` is about finite tables of the code, all of which TLC evaluates,
so there is nothing more to prove of it.

## 6. Where the code and its words differ

Three disagreements are runs.

- `MCOnboardingUncollected`: when validation fails, `complete_onboarding`
  returns normally and the router commits, so the columns are "confirmed" and
  the config is saved with no row loaded (`ingestion/app/pipeline.py:263`); its
  docstring says that a failed validation is a `ValueError` (`:221`), which would
  have rolled both back.
- `MCMixedStore`: opening a dataset from the list replaces only the dataset id in
  the onboarding store (`dashboard/app/callbacks/datasets.py:84`). The file and
  the suggestions of an unfinished upload stay, and the next confirmation loads
  that file into the opened dataset. `OnlyOpeningMixes` shows that this is the
  only way to a mixture.
- `MCTrends`: `_trend_points` calls the API without the user's token
  (`dashboard/app/charts/domain_charts.py:299`), is refused, and draws nothing;
  its docstring says a failure is never turned into empty data (`:295`).

Others became visible while modelling and are part of the models, where the
properties are stated so as to say what still holds:

- Two concurrent adds of one column both pass the check for "skipped"
  (`features.py:242`), and an add that commits between a load's two deletes
  keeps its rows and loses its feature record (`loaders.py:191`).
  `PlainReviewMatchesHub` is therefore about requests that do not interleave.
- The ingestion DAG onboards the API's uploads a second time, under a business
  named after the file (`ingestion_dag.py:67`), and an add reads the last CSV of
  the directory, whichever dataset it belongs to (`features.py:278`).
- A load of the ingestion DAG asks for no analytics run, and `analytics_pipeline` has
  no schedule (`analytics_dag.py:46`): the tables do without the dataset until
  somebody starts one. `FreshWhenIdle` is about the other loads.
- A CSV that cannot be read fails all attempts of every run of the ingestion DAG,
  which is scheduled every 15 minutes, and stays in the directory for ever
  (`ingestion_dag.py:111`); one whose validation fails is archived with nothing loaded, as
  `complete_onboarding` returns (`pipeline.py:262`). `EveryFileLeaves` is about files
  that can be read.
- Two live columns with one cleaned name make the drop of dead columns raise
  (`csv_connector.py:170`), before repeats would have been renamed.
- The executive page reads `root_term`, `direction` and `narrative` from the
  engine's raw insights (`routers/v1/executive.py:567`), which have none of them, so
  the texts of its insights are empty; its docstring speaks of insights that are
  "template-rendered" (`:531`). `InsightsTellTheEvidence` is about what the page
  does show: the domain and its score.
- Every entry of the model's reply that names a column becomes a suggestion
  (`ingestion/app/mapping/suggester.py:254`), so a column named twice has two, where
  the docstring of `suggest_mappings` has "One suggestion per column" (`:283`).
  `start_onboarding` keeps the last one (`pipeline.py:135`), and `IntakeIsComplete`
  is about what it answers.
- At the cap an answer without enough evidence is delivered; the comment above
  the router expects `give_up` to report instead (`graph.py:359`).
- `_metrics_seen` does not read all the keys under which a tool shows metrics
  (`graph.py:105`).
- An entry of `tool_calls` that is not an object raises while the reply is read
  (`llm.py:322`); the request's backstop ends the question (`agent.py:128`).
- After a timeout the late request and the next question can save two exchanges
  at the same turn indices (`memory.py:293`); a reload starts a new session id,
  and the stored conversation is never read again (`copilot.py:86`).
- A document whose last status update fails is "failed" and searchable
  (`rag/pipeline.py:121`); when a file of a batch cannot be registered, the
  tasks of the others are lost with the response (`rag.py:187`).
- Sources are counted before the context is cut to its size, so that a chunk the
  model never saw may be credited (`retriever.py`, `qa_chain.py`).
- When the last sentence of a chunk is longer than the overlap, nothing is
  carried, and a fact over it and the next sentence is in no chunk
  (`chunker.py:79`).
- A domain that a confirmation drops keeps its old analytics
  (`domain_analytics.py:226`), and a forecasting run without rows is registered
  as the newest and leaves the old forecasts (`forecasting.py:157`).
- Anomaly detection gives every series of a metric to the first entity that has
  the metric (`anomaly_detection.py:259`), and its fallback cannot reach its
  threshold with seven points or fewer, since |z| is at most the root of n - 1.
- The page's sign-out clears its stores and calls nothing
  (`callbacks/auth.py:126`), while its docstring speaks of revoking the session
  (`:115`): the refresh token stays valid until it expires.
  `AccessEndsWithItsGrounds` is about the sessions the API is asked to revoke.
- The review that cannot be loaded shows an error in its place, and nothing asks for
  it again until the page is opened anew or a feature is added (`feature_review.py:68`).
- The index is banded from its rounded value (`risk_index.py:112`) and a domain's card
  from its score before rounding (`executive.py:166`): at 66.6 the only domain is
  "elevated" beside an index of 67, "high". A risk level is likewise that of the
  unrounded score (`risk_scoring.py:173`), so that 65.996 is stored as 66.0, "medium".
- A metric whose days have no value at all makes the line through them raise, and the
  forecasting job writes nothing for any series (`forecasting.py:85`).
- The text of an infinite number, given for a whole one, raises `OverflowError`
  in the coercion (`agent/tools/base.py:229`), which `dispatch` does not contain,
  against its docstring (`:115`): the question ends with an apology
  (`AgentLoop!ToolRaises`). `ToolCallsTellTheTables` shows that it is the
  only value of a call that does so.
- The onboarding store survives a sign-out (`callbacks/auth.py:114`).
- The lifespan goes on without a schema that could not be applied, but stops for
  the core schema (`main.py:69`); requests that need the other then fail, which
  `FailuresHaveCauses` counts as a cause.
- A Viewer is shown the buttons for adding a feature and uploading, whose calls
  are refused; the pages load all the same, which is what `RolesGetTheirPages`
  states.

## 7. What is not modelled

- **Library results.** What IsolationForest and ExponentialSmoothing return,
  embeddings, the wording of prompts and answers: inputs of the models.
- **`domain_intelligence`** (`routers/v1/ml.py:433`) passes FastAPI's `Query`
  objects on as values and always answers 503; no page calls it.
- **Errors inside a handler of `Backend`** that have nothing to do with the engine,
  the pool, the schemas or DuckDB: a request that fails for its own data is one that
  is answered. An engine that cannot be made stops the boot, which is `Crash`.
- **Plain listings** (the dataset list, metrics, reports) restate one query; they
  are calls of `Access` only.
- **Rendering**: charts, layout, design, and the pages that only load and draw
  (what they load is in `Access`).
- **Configuration, logging, the domain registry**: settings and constant tables,
  which appear as constants.
- **ML jobs started by hand** beside the DAG. Their versions have a resolution
  of a second, so two runs within one share a version; the DAG keeps its own
  runs apart.
- **Evaluation, simulator, demo script, migrations**: tools around the platform
  that write report files or data and keep no state of it.

## 8. The plan

Done, in this order: `MappingRules`, `HubContract`, `Onboarding` and its proofs
(the rows everything else is computed from); `UploadFiles`; `AgentLoop` with
proofs and `Copilot`; `RagIndexing`, `Chunker`; `AnalyticsRefresh`, `MLRefresh`;
`Sessions`, `Wizard`; the functions `Intake`, `Statistics`, `CrossDomain`,
`RiskIndex`, `ReadAPI`, `AgentTools`, `AgentCalls`, `Answering`; `Backend`; `Access`.

Then the proofs of every component with state: `OnboardingProofs` with the
refinement, `AgentLoopProofs`, `UploadsProofs`, `RefreshProofs`, `CopilotProofs`,
`DashboardProofs`, `BackendProofs`; those of functions, `FunctionProofs`; and the contracts of the analytics tables and of the
documents, `ResultsContract` and `LibraryContract`, with their refinements.

Worth doing next, when the code moves there:

1. A file of a dataset that the store remembers, so that an add reads the right one
   (`features.py:278`); the hazard has no property because the code promises nothing.
2. A contract for the copilot's stored conversation, once a save takes the next turn
   under a lock: `TurnsInOrder` would then hold without its condition.
