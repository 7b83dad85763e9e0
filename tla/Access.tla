------------------------------- MODULE Access -------------------------------
(* Who may do what, from end to end: the roles' grants, the API's routes with  *)
(* the permission each asks for, the calls of the dashboard's client, what     *)
(* each page calls when it loads, and what the copilot's tools read on a       *)
(* user's behalf.  A path is the sequence of its segments.                     *)
EXTENDS Values, Naturals, Sequences, FiniteSets, TLC

-----------------------------------------------------------------------------
(* auth_schema.sql *)
Permissions == {"dataset:read", "dataset:upload", "dataset:delete", "mapping:confirm",
  "analytics:read", "ml:read", "ml:trigger", "intelligence:read", "documents:read",
  "documents:upload", "evaluation:read", "copilot:use", "user:manage"}

(* Mutant: a viewer is granted the pages one by one, and one is forgotten. *)
GrantsWithoutML ==
  [Admin |-> Permissions, Analyst |-> Permissions \ {"dataset:delete", "user:manage"},
   Viewer |-> {"dataset:read", "analytics:read", "intelligence:read", "documents:read", "copilot:use"}]

Grants ==
  [Admin |-> Permissions, Analyst |-> Permissions \ {"dataset:delete", "user:manage"},
   Viewer |-> {"dataset:read", "analytics:read", "ml:read", "intelligence:read",
               "documents:read", "copilot:use"}]
UserRoles == DOMAIN Grants

-----------------------------------------------------------------------------
(* The routes, by router *)
X == "{}" \* a parameter, and the argument given for it
Route(method, path, permission) == [method |-> method, path |-> path, permission |-> permission]

OnboardRoutes == {Route("POST", <<"onboard", "start">>, "dataset:upload"),
                  Route("POST", <<"onboard", "confirm">>, "mapping:confirm")}
FeatureRoutes == {Route("GET", <<"features", X, "review">>, "dataset:read"),
                  Route("POST", <<"features", "add">>, "mapping:confirm")}
DomainRoutes == {Route("GET", p, "dataset:read") :
  p \in {<<"domains">>, <<"domains", X>>, <<"datasets", X, "summary">>,
         <<"datasets", X, "domains", X>>, <<"datasets">>}}
AnalyticsRoutes == {Route("GET", <<"analytics", X, p>>, "analytics:read") :
  p \in {"metrics", "overview", "trend", "features"}}
MLRoutes == {Route("GET", <<"ml", X, p>>, "ml:read") :
               p \in {"forecasts", "anomalies", "risk-scores", "overview"}}
            \cup {Route("GET", <<"ml", X, "domain", X>>, "ml:read")}
IntelligenceRoutes == {Route("GET", <<"intelligence", X>>, "intelligence:read")}
RagRoutes == {Route("POST", <<"rag", X, "upload">>, "documents:upload"),
              Route("GET", <<"rag", X, "documents">>, "documents:read"),
              Route("POST", <<"rag", X, "query">>, "documents:read"),
              Route("DELETE", <<"rag", X, "documents", X>>, "documents:upload")}
AgentRoutes == {Route("POST", <<"agent", "ask">>, "copilot:use"),
                Route("GET", <<"agent", "health">>, "copilot:use"),
                Route("GET", <<"agent", "tools">>, "copilot:use")}
EvaluationRoutes == {Route("GET", <<"evaluation", "reports">>, "evaluation:read"),
                     Route("GET", <<"evaluation", "reports", X>>, "evaluation:read")}
ExecutiveRoutes == {Route("GET", <<"executive", X, "summary">>, "analytics:read")}

Routes == OnboardRoutes \cup FeatureRoutes \cup DomainRoutes \cup AnalyticsRoutes \cup MLRoutes
          \cup IntelligenceRoutes \cup RagRoutes \cup AgentRoutes \cup EvaluationRoutes
          \cup ExecutiveRoutes

RoutesOf(call) ==
  {r \in Routes : /\ r.method = call.method /\ Len(r.path) = Len(call.path)
                  /\ \A i \in DOMAIN r.path : r.path[i] \in {X, call.path[i]}}

-----------------------------------------------------------------------------
(* api_client: the request of each function that carries a token *)
Get(path) == [method |-> "GET", path |-> path]
Post(path) == [method |-> "POST", path |-> path]

OnboardingCalls == [start_onboarding |-> Post(<<"onboard", "start">>),
                    confirm_onboarding |-> Post(<<"onboard", "confirm">>)]
ReviewCalls == [feature_review |-> Get(<<"features", X, "review">>),
                add_feature |-> Post(<<"features", "add">>)]
DatasetCalls == [list_domains |-> Get(<<"domains">>), dataset_summary |-> Get(<<"datasets", X, "summary">>),
                 domain_data |-> Get(<<"datasets", X, "domains", X>>), list_datasets |-> Get(<<"datasets">>)]
AnalyticsCalls == [analytics_overview |-> Get(<<"analytics", X, "overview">>),
                   analytics_metrics |-> Get(<<"analytics", X, "metrics">>),
                   analytics_trend |-> Get(<<"analytics", X, "trend">>),
                   analytics_features |-> Get(<<"analytics", X, "features">>)]
EvaluationCalls == [evaluation_reports |-> Get(<<"evaluation", "reports">>),
                    evaluation_report |-> Get(<<"evaluation", "reports", X>>)]
MLCalls == [ml_overview |-> Get(<<"ml", X, "overview">>), ml_forecasts |-> Get(<<"ml", X, "forecasts">>),
            ml_anomalies |-> Get(<<"ml", X, "anomalies">>), ml_risk_scores |-> Get(<<"ml", X, "risk-scores">>)]
IntelligenceCalls == [ml_domain_intelligence |-> Get(<<"ml", X, "domain", X>>),
                      intelligence |-> Get(<<"intelligence", X>>)]
DocumentCalls == [rag_upload |-> Post(<<"rag", X, "upload">>), rag_documents |-> Get(<<"rag", X, "documents">>),
                  rag_query |-> Post(<<"rag", X, "query">>),
                  rag_delete_document |-> [method |-> "DELETE", path |-> <<"rag", X, "documents", X>>]]
CopilotCalls == [agent_ask |-> Post(<<"agent", "ask">>), agent_health |-> Get(<<"agent", "health">>)]
ExecutiveCalls == [executive_summary |-> Get(<<"executive", X, "summary">>)]

Calls == OnboardingCalls @@ ReviewCalls @@ DatasetCalls @@ AnalyticsCalls @@ EvaluationCalls @@ MLCalls
         @@ IntelligenceCalls @@ DocumentCalls @@ CopilotCalls @@ ExecutiveCalls

(* require_permission, of a caller with a role or, with None, without a token *)
Status(role, call) ==
  IF RoutesOf(call) = {} THEN 404
  ELSE IF role = None THEN 401
  ELSE IF \A r \in RoutesOf(call) : r.permission \in Grants[role] THEN 200 ELSE 403

(* _handle: what a caller of the client is given *)
Handle(status) == IF status = 200 THEN "payload" ELSE "APIError"

-----------------------------------------------------------------------------
(* nav.NAV: the permission a page asks for *)
NAV == ("/" :> "analytics:read") @@ ("/upload" :> "dataset:upload") @@ ("/confirm" :> "mapping:confirm")
       @@ ("/review" :> "dataset:read") @@ ("/datasets" :> "dataset:read")
       @@ ("/analytics" :> "analytics:read") @@ ("/predictions" :> "ml:read")
       @@ ("/intelligence" :> "intelligence:read") @@ ("/evaluation" :> "evaluation:read")
       @@ ("/documents" :> "documents:read") @@ ("/copilot" :> "copilot:use")
       @@ ("/settings" :> None) @@ ("/users" :> None) @@ ("/audit-logs" :> None)
Pages == DOMAIN NAV

(* sidebar._visible and shell.guard_page, of a user who has signed in *)
Shown(role, page) == NAV[page] = None \/ NAV[page] \in Grants[role]

(* What the callbacks of the shell and of each page call before anything is    *)
(* clicked, with the token of the ACCESS_TOKEN store.                          *)
ShellLoads == {"list_datasets", "ml_anomalies"}
ExecutiveLoads == {"list_datasets", "executive_summary"}
ConfirmLoads == {"list_domains"}
ReviewLoads == {"feature_review", "dataset_summary"}
DatasetsLoads == {"list_datasets"}
AnalyticsLoads == {"list_datasets", "analytics_metrics", "analytics_trend", "analytics_features"}
PredictionsLoads == {"list_datasets", "ml_overview", "ml_forecasts", "ml_anomalies", "ml_risk_scores",
                     "analytics_metrics"}
IntelligenceLoads == {"list_datasets", "intelligence"}
EvaluationLoads == {"evaluation_report"}
DocumentsLoads == {"list_datasets", "rag_documents"}
CopilotLoads == {"list_datasets", "agent_health"}

Loads(page) ==
  ShellLoads \cup CASE page = "/" -> ExecutiveLoads [] page = "/confirm" -> ConfirmLoads
    [] page = "/review" -> ReviewLoads [] page = "/datasets" -> DatasetsLoads
    [] page = "/analytics" -> AnalyticsLoads [] page = "/predictions" -> PredictionsLoads
    [] page = "/intelligence" -> IntelligenceLoads [] page = "/evaluation" -> EvaluationLoads
    [] page = "/documents" -> DocumentsLoads [] page = "/copilot" -> CopilotLoads [] OTHER -> {}

(* domain_charts._trend_points, which the line of the assets and the area of   *)
(* the finances are drawn from: it asks without a token, and a refusal is no   *)
(* points.                                                                     *)
TrendPoints(stored) == IF Handle(Status(None, Calls["analytics_trend"])) = "payload" THEN stored ELSE <<>>

(* The routers' functions that the copilot's tools call, past the routes *)
ToolsRead == AnalyticsRoutes \cup DomainRoutes \cup IntelligenceRoutes \cup MLRoutes
             \cup {r \in RagRoutes : r.permission = "documents:read"}

-----------------------------------------------------------------------------
(* Properties                                                                *)

(* Each call of the client meets one route, the same whatever its arguments. *)
CallsMeetTheirRoutes == \A c \in DOMAIN Calls : Cardinality(RoutesOf(Calls[c])) = 1

(* A page that a role is shown loads: no call of it is refused for a           *)
(* permission that the page did not ask for (nav.NAV against the routes'       *)
(* require_permission and the seeded grants).                                  *)
ShownPagesLoad(role, page) ==
  Shown(role, page) => \A c \in Loads(page) : Handle(Status(role, Calls[c])) = "payload"

(* The copilot, whose tools call the routers' functions without their          *)
(* permission checks, reads for a role only what the role may read itself.     *)
CopilotReadsWhatIsPermitted(role) ==
  "copilot:use" \in Grants[role] => \A r \in ToolsRead : r.permission \in Grants[role]

(* A trend that is stored is drawn: it is "never silently turned into empty    *)
(* data" (comment of domain_charts._trend_points).                             *)
TrendsAreDrawn(stored) == TrendPoints(stored) = stored
=============================================================================
