---------------------------- MODULE MCFunctions ----------------------------
(* Inputs for the modules that are functions rather than state machines: TLC   *)
(* takes every input below once and evaluates the modules' properties on it.   *)
EXTENDS Intake, CrossDomain, RiskIndex, AgentTools, AgentCalls, Answering, Chunker,
        Statistics, Access

VARIABLE case

MCDomainOrder == <<"a", "b", "c">>

Contents == {
  [rows |-> 100, empty |-> 0, distinct |-> 3, dates |-> 0, numbers |-> 100,
   whole |-> TRUE, dtype |-> "integer", hinted |-> FALSE],
  [rows |-> 100, empty |-> 20, distinct |-> 3, dates |-> 64, numbers |-> 72,
   whole |-> FALSE, dtype |-> "object", hinted |-> TRUE],
  [rows |-> 100, empty |-> 20, distinct |-> 95, dates |-> 63, numbers |-> 71,
   whole |-> FALSE, dtype |-> "object", hinted |-> TRUE],
  [rows |-> 100, empty |-> 99, distinct |-> 1, dates |-> 0, numbers |-> 1,
   whole |-> TRUE, dtype |-> "float", hinted |-> FALSE]}

Headers == {<<"a">>, <<" ", "A", "%">>, <<"a", "-", "1">>, <<"_", "b", " ", "-", "2">>,
            <<"a", "_", "i", "d">>, <<"r", "e", "f">>}

Column(h, c, k) == [name |-> h, keyword |-> k] @@ c
DistinctTriples == {t \in Headers \X Headers \X Headers :
                      t[1] # t[2] /\ t[1] # t[3] /\ t[2] # t[3]}
SomeContents == {c \in Contents : c.dtype # "object"}

Files ==
  {[parses |-> TRUE, columns |-> <<Column(t[1], c, None), Column(t[2], d, None), Column(t[3], c, "sales")>>] :
     t \in DistinctTriples, c \in SomeContents, d \in SomeContents}
  \cup {[parses |-> p, columns |-> <<Column(<<"a">>, c, k), Column(h, d, None)>>] :
     p \in BOOLEAN, h \in {<<"A">>, <<"b">>, <<"a", "_", "i", "d">>}, c \in Contents, d \in Contents,
     k \in Domains \cup {None}}

Entries ==
  {[column |-> n, domain |-> d, role |-> r, confidence |-> f] :
     n \in {<<"a">>, <<"b">>, <<"z">>, Nested}, d \in {"sales", "moon", Nested}, r \in {"skip", "boss"},
     f \in {-5, 170}} \cup {Nested}
Named(n, d) == {x \in Entries : x # Nested /\ x.column = n /\ x.domain = d}
Replies == {None, <<>>} \cup {<<e>> : e \in Entries}
           \cup {<<e, f>> : e \in {x \in Entries : x # Nested /\ x.role = "boss"}, f \in {Nested}}
           \cup {<<e, f>> : e \in Named(<<"a">>, "sales"), f \in Named(<<"a">>, "moon") \cup Named(<<"b">>, "sales")}

-----------------------------------------------------------------------------
(* Three domains: every graph of up to three edges, signals strong or weak, in   *)
(* every order a set of three may have.                                         *)
Edge3 == {e \in [source : {"a", "b", "c"}, target : {"a", "b", "c"}] : e.source # e.target}
Labelled(e, k) == e @@ [label |-> e.source \o e.target, strength |-> <<"critical", "weak", "odd">>[k]]
Graphs3 == {<<>>} \cup {<<Labelled(e, 1), Labelled(f, 2), Labelled(g, k)>> :
              e \in Edge3, f \in Edge3, g \in Edge3, k \in {1, 3}}
           \cup {<<Labelled(e, 2), [source |-> None, target |-> "a"], Labelled(f, 1)>> :
              e \in Edge3, f \in Edge3}
Orders3 == {<<"a", "b", "c">>, <<"b", "c", "a">>, <<"c", "b", "a">>}

Signals(sa, sb, sc, cut) ==
  [forecasts |-> <<[domain |-> "a", metric |-> "m", values |-> <<10, None, cut>>],
                   [domain |-> "a", metric |-> "n", values |-> <<0, 1>>],
                   [domain |-> "c", metric |-> "o", values |-> <<None, 5>>]>>,
   anomalies |-> <<[domain |-> "b", severity |-> "high", metric |-> "p"],
                   [domain |-> "a", severity |-> "low", metric |-> "q"]>>,
   risks |-> <<[domain |-> "a", score |-> sa], [domain |-> "b", score |-> sb],
               [domain |-> "c", score |-> sc]>>,
   metrics |-> <<[domain |-> "a", metric |-> "m"]>>, mapping |-> "b" :> "label",
   polish |-> None]

Engine == {Signals(s[1], s[2], s[3], 4) @@ [edges |-> g, order |-> o] :
             s \in {<<60, 70, 90>>, <<90, 60, 60>>, <<None, 60, 80>>, <<0, 40, 50>>},
             g \in Graphs3, o \in Orders3}
Polishes == {None} \cup {<<[id |-> i, narrative |-> n]>> : i \in {"0", "1", "7", "text", "none"}, n \in {None, <<"w">>}}
            \cup {<<[id |-> "1", narrative |-> <<"w">>], [id |-> "0", narrative |-> <<"v">>],
                    [id |-> "1", narrative |-> <<"x">>]>>}
Polished == {[Signals(60, 70, 90, c) EXCEPT !.polish = p] @@ [edges |-> g, order |-> <<"a", "b", "c">>] :
               p \in Polishes, c \in {4, 10, 30},
               g \in {<<Labelled([source |-> "a", target |-> "b"], 1),
                       Labelled([source |-> "b", target |-> t], 2),
                       Labelled([source |-> "c", target |-> "b"], 3)>> : t \in {"a", "c"}}}

-----------------------------------------------------------------------------
(* Risk rows of up to six entities in two domains, and lists beside them. *)
Risk(d, e, s) == [domain |-> d, entity |-> e, score |-> s,
                  level |-> IF s = None THEN "low" ELSE "high"]
RiskRowSets == {<<Risk("a", "x", s), Risk("a", "y", t), Risk(d, "z", u)>> :
                  s \in {0, 33500, 66600, 93000}, t \in {None, 34000, 67000}, u \in {None, 500, 88000},
                  d \in {"a", "b"}}
               \cup {<<>>}
               \cup {[i \in 1..7 |-> Risk("b", ToString(i), IF i = k THEN 90000 ELSE 1000 * i)] : k \in 1..7}
Beside ==
  [alerts |-> <<[domain |-> "c"]>>,
   features |-> <<[domain |-> "a", entity |-> "y", slope |-> 1], [domain |-> "b", entity |-> "z", slope |-> 2],
                  [domain |-> "a", entity |-> "z", slope |-> 3]>>,
   forecasts |-> <<[history |-> <<5>>, values |-> <<7, None>>], [history |-> <<>>, values |-> <<0 - 3, 9>>],
                   [history |-> <<>>, values |-> <<0 - 3, 0 - 9>>], [history |-> <<0>>, values |-> <<4>>],
                   [history |-> <<>>, values |-> <<None>>]>>]
Summaries == {Beside @@ [risks |-> r] : r \in RiskRowSets}

-----------------------------------------------------------------------------
(* Tables of two datasets and three domains, and the words a model uses. *)
MCAlphabet == <<"d1", "d2", "d3", "e1", "e2", "e3", "fill level", "hours", "ops", "quality", "scrap rate", "stock", "units">>
MCCanonical == <<"ops", "quality", "stock">>
MCWords == [x \in {"ops", "quality", "stock"} |-> <<x>>] @@ "scrap" :> <<"scrap">> @@ "moon" :> <<"moon">>
           @@ "scrap ops" :> <<"scrap", "ops">> @@ "scrap rate" :> <<"scrap", "rate">> @@ "units" :> <<"units">>
           @@ "" :> <<>> @@ "nope" :> <<"nope">> @@ "fill level" :> <<"fill", "level">> @@ "hours" :> <<"hours">>
MCSynonyms == "scrap" :> "quality" @@ "units" :> "ops"

Row(d, dom, m, day, v) == [dataset |-> d, domain |-> dom, metric |-> m, day |-> day, value |-> v]
Shapes == {<<>>, <<100, None, 110>>, <<100, 50, None>>, <<0, 5, 7>>, <<101, 100, 101>>, <<None, None, None>>}
Daily(dom, m, v) == [i \in DOMAIN v |-> Row(1, dom, m, <<"d1", "d2", "d3">>[i], v[i])]
Stored(t, f) == [datasets |-> <<[id |-> 1]>>,
                 trend |-> t, forecasts |-> f, features |-> <<>>, anomalies |-> <<>>,
                 risks |-> <<>>, hub |-> <<>>, up |-> {"analytics", "ml", "hub"}]
OthersRow == <<Row(2, "stock", "hours", "d1", 5), Row(2, "stock", "hours", "d2", 9)>>
SeriesCases ==
  {[db |-> Stored(OthersRow \o Daily("quality", "scrap rate", q) \o Daily("ops", "units", u) \o Daily("ops", "hours", h)
                  \o Daily("stock", "fill level", <<20, 30, 60>>),
                  Daily("quality", "scrap rate", u) \o Daily("ops", "units", q) \o Daily("stock", "fill level", h)),
    call |-> [dataset |-> 1, domain |-> dom, metric |-> m, context |-> c]] :
     q \in Shapes, u \in Shapes, h \in {<<>>, <<100, 99, 120>>, <<0, 5, 7>>, <<100, 50, None>>},
     dom \in {None, "ops", "scrap", "scrap ops", "moon", ""},
     m \in {None, "units", "nope"}, c \in BOOLEAN}

Scored(dom, e, s) == [dataset |-> 1, domain |-> dom, entity |-> e, score |-> s,
                      level |-> IF s = None THEN "low" ELSE IF s > 60 THEN "high" ELSE "low"]
Unusual(dom, v) == [dataset |-> 1, domain |-> dom, metric |-> "units", severity |-> v]
Sloped(dom, e, s) == [dataset |-> 1, domain |-> dom, entity |-> e, metric |-> "units", slope |-> s]
Reading(dom, e) == [dataset |-> 1, domain |-> dom, entity |-> e, metric |-> "units", day |-> "d1"]
RankingCases ==
  {[db |-> [Stored(<<>>, <<>>) EXCEPT !.risks = <<Scored("ops", "e1", s), Scored("stock", "e2", t), Scored("ops", "e3", 50)>>,
              !.anomalies = [i \in 1..n |-> Unusual(<<"stock", "ops", "ops">>[i], <<"low", v, "high">>[i])],
              !.features = <<Sloped("ops", "e1", s), Sloped("ops", "e3", 0 - 70), Sloped("stock", "e2", t)>>,
              !.hub = h, !.up = up],
    call |-> [dataset |-> d, domain |-> dom, limit |-> l]] :
     s \in {None, 0, 90}, t \in {None, 61, 95}, n \in 0..3, v \in {"medium", "odd"},
     h \in {<<>>, <<Reading("ops", "e1"), Reading("quality", "e2")>>},
     up \in {{"analytics", "ml", "hub"}, {"ml"}}, d \in {1, 3}, dom \in {None, "stock", "scrap ops", "moon"}, l \in {1, 4}}

-----------------------------------------------------------------------------
(* Replies with at most two calls, and questions of up to three words. *)
MCGroups == [g \in {"hub", "analytics", "ml", "intelligence", "rag"} |-> {g}]
MCTools == [g \in DOMAIN MCGroups |->
  [dataset_id |-> [kind |-> "int", required |-> TRUE],
   domain |-> [kind |-> "str", required |-> FALSE], include_context |-> [kind |-> "bool", required |-> FALSE]]]
MCIntentWords == [g \in DOMAIN MCGroups |->
  CASE g = "ml" -> {<<"risk">>} [] g = "intelligence" -> {<<"why">>, <<"root", "cause">>, <<"root">>}
    [] g = "rag" -> {<<"manual">>} [] g = "analytics" -> {<<"trend">>} [] OTHER -> {<<"list">>}]
MCCausalWords == {<<"why">>, <<"cause">>, <<"root">>, <<"drop">>}
AllWords == {<<"why">>, <<"root", "cause">>, <<"drop", "off">>, <<"risk">>, <<"manual">>, <<"list">>, <<"is">>, <<"it">>}
Questions == UNION {[1..n -> AllWords] : n \in 0..3}

SomeValues == {Text(x) : x \in {"null", "whole", "fraction", "infinite", "word"}}
              \cup {[kind |-> "int"], [kind |-> "float"], [kind |-> "bool"], None, Nested}
SomeArguments == {Nested, <<>>} \cup {[dataset_id |-> v] : v \in SomeValues}
              \cup {[dataset_id |-> v, domain |-> w, junk |-> Nested] : v \in SomeValues, w \in SomeValues}
              \cup {[domain |-> w, include_context |-> w] : w \in SomeValues}
SomeCalls == {[name |-> n, arguments |-> a] : n \in {None, "ml", "unknown"}, a \in SomeArguments} \cup {None, Nested}
AgentReplies == {[calls |-> <<c>>, block |-> b] : c \in SomeCalls, b \in {None, [name |-> "hub", arguments |-> <<>>]}}
              \cup {[calls |-> <<>>, block |-> c] : c \in SomeCalls}
              \cup {[calls |-> <<[name |-> "hub", arguments |-> [dataset_id |-> Text("whole")]], c>>, block |-> None] : c \in SomeCalls}
CallCases ==
  {[reply |-> r, question |-> <<q>>, selecting |-> s, runs |-> x] :
     r \in AgentReplies, q \in {<<"why">>, <<"is">>}, s \in BOOLEAN, x \in {"returns", "raises", "other"}}
QuestionCases == {[question |-> q, selecting |-> s] : q \in Questions, s \in BOOLEAN}

-----------------------------------------------------------------------------
(* Documents of up to four pages' lines, and stores of up to three chunks. *)
SomePages == {Fails, <<>>, <<"x", "", "", "y">>, <<"", "z", "">>}
DocumentFiles == {[exists |-> e, opens |-> o, type |-> t, pages |-> p] :
  e \in BOOLEAN, o \in BOOLEAN, t \in {"pdf", "txt", "csv"}, p \in UNION {[1..n -> SomePages] : n \in 1..3}}
PagesRead == {f \in DocumentFiles : f.type # "pdf" => Len(f.pages) = 1 /\ f.pages[1] # Fails}

Piece(ds, d, p, x, z) == [dataset |-> ds, document |-> d, page |-> p, distance |-> x, size |-> z]
Stores == {<<Piece(1, "a", 1, x, 3), Piece(ds, "a", p, y, z), Piece(1, "b", 1, 40, 3), Piece(2, "c", 1, 5, 3)>> :
             ds \in {1, 2}, p \in {1, 2}, x \in {10, 76}, y \in {20, 40, 75}, z \in {2, 4, 6, 8}}
AskCases == {[dataset |-> d, question |-> q, topK |-> k, provider |-> v, storeUp |-> u, before |-> b, now |-> n, reply |-> r] :
  d \in {1, 3}, q \in {"", "how"}, k \in {None, 0, 1, -1},
  v \in {[name |-> "local", raises |-> FALSE, dimension |-> x] : x \in {384, 512}} \cup {[name |-> "anthropic", raises |-> FALSE, dimension |-> 384]},
  u \in BOOLEAN, b \in {<<>>, <<Piece(1, "a", 1, 10, 3)>>, <<Piece(3, "a", 1, 10, 3)>>}, n \in Stores \cup {<<>>}, r \in {None, Fails, "said"}}

(* Two pages: every mix of up to four short, long and oversized sentences on the *)
(* first, and at most one on the second.                                        *)
PagesOf(n) == UNION {[1 .. len -> {1, 2, 3, 5}] : len \in 0 .. n}
ChunkedTexts == {<<p, q>> : p \in PagesOf(4), q \in PagesOf(1)}

-----------------------------------------------------------------------------
(* Readings: every table of up to three; two entities of one dataset and one of  *)
(* another with two readings each; and one entity among many that stands out.   *)
Read(ds, e, d, v) == [dataset |-> ds, entity |-> e, metric |-> "m", day |-> d, value |-> v]
AnyReading == {Read(1, e, d, v) : e \in {"x", "y"}, d \in {None, 1, 2, 4}, v \in {None, 0, 6, -3}}
Hubs == UNION {[1 .. n -> AnyReading] : n \in 0 .. 3}
SixReadings ==
  {<<Read(1, "x", 1, v[1]), Read(1, "x", 2, v[2]), Read(1, "y", 1, v[3]),
     Read(1, "y", None, v[4]), Read(2, "x", 2, v[5]), Read(2, "x", 1, v[6])>> : v \in [1 .. 6 -> {-3, 0, 6}]}
Raised(ds, e, s) == [dataset |-> ds, entity |-> e, severity |-> s, day |-> 1]
RiskCases == {[hub |-> h, alerts |-> a, rising |-> b] : h \in SixReadings, b \in BOOLEAN,
                a \in {{}, {Raised(1, "x", "high"), Raised(2, "x", "low")},
                       {Raised(1, "y", "medium"), Raised(1, None, "high")}}}
(* Three entities of which one is stored at a limit it has not reached. *)
AtALimit ==
  {[hub |-> [i \in 1 .. 6 |-> Read(1, <<"x", "x", "y", "y", "z", "z">>[i], <<1, 2, 1, 2, 1, 2>>[i], v[i])],
    alerts |-> a, rising |-> TRUE] :
     v \in {<<6, 5, 6, 10, 2, 9>>, <<4, 11, 2, 3, 7, 12>>},
     a \in {{}, {Raised(1, "y", "high"), Raised(1, "z", "high"), Raised(1, "z", "low"),
                 [Raised(1, "z", "high") EXCEPT !.day = 2]}}}
OneApart(n, k, v) == [i \in 1 .. n |-> Read(1, ToString(i), i, IF i = k THEN v ELSE i % 2)]
AndAnother(hub) == hub \o [i \in DOMAIN hub |-> [hub[i] EXCEPT !.dataset = 2, !.value = @ + 1]]
AlertCases == {[hub |-> h, order |-> [i \in 1 .. 14 |-> ToString(i)], forest |-> f] :
                 h \in UNION {{OneApart(n, k, v), AndAnother(OneApart(n, k, v))} :
                        n \in {3, 4, 7, 8, 10, 14}, k \in {1, 3}, v \in {1, 10, -9}},
                 f \in {Fails, {}, {[day |-> 1, score |-> 80], [day |-> 2, score |-> 40]}}}
ForecastCases == {[hub |-> h, smoothed |-> b] : h \in Hubs \cup {OneApart(n, 1, 0) : n \in {3, 6}}, b \in BOOLEAN}

Trends == UNION {[1 .. n -> {1, 2}] : n \in 0 .. 3}

-----------------------------------------------------------------------------
Pick(k, S) == \E x \in S : case' = [kind |-> k, in |-> x]

Init == case = [kind |-> "none"]
Next ==
  /\ case.kind = "none"
  /\ \/ Pick("file", {<<f, None>> : f \in Files})
     \/ Pick("reply", {<<f, r>> : f \in {g \in Files : Len(g.columns) = 2 /\ g.parses}, r \in Replies})
     \/ Pick("engine", Engine) \/ Pick("polish", Polished)
     \/ Pick("summary", Summaries)
     \/ Pick("series", SeriesCases) \/ Pick("rankings", RankingCases)
     \/ Pick("call", CallCases) \/ Pick("question", QuestionCases)
     \/ Pick("pages", PagesRead) \/ Pick("ask", AskCases) \/ Pick("chunks", ChunkedTexts)
     \/ Pick("hub", ForecastCases) \/ Pick("alerts", AlertCases) \/ Pick("risk", RiskCases \cup AtALimit)
     \/ Pick("page", UserRoles \X Pages) \/ Pick("trend", Trends)
Spec == Init /\ [][Next]_case

(* What is uploaded can be mapped by name, and every column of it is proposed    *)
(* something, whatever the file holds and the model replies (csv_connector,      *)
(* profiler, suggester).                                                        *)
IntakeIsComplete ==
  /\ case.kind = "file" => ReadsDistinctColumns(case.in[1])
  /\ case.kind \in {"file", "reply"} => ProposesEveryColumn(case.in[1], case.in[2])

(* What is told to managers is what was measured: findings keep their evidence   *)
(* through merging, ranking and polishing, the index and its band agree with the *)
(* scores but for their rounding, and so do the cards and the lists beside it    *)
(* (inference_engine, translator, executive, risk_index).                       *)
InsightsTellTheEvidence ==
  /\ case.kind \in {"engine", "polish"} => TellsTheEvidence(case.in) /\ PolishKeepsFacts(case.in)
                                            /\ ExecutiveTellsTheEvidence(case.in)
  /\ case.kind = "summary" => IndexFollowsScores(case.in) /\ ListsAgreeWithRows(case.in)

(* A call of a tool, however the model writes it, is contained, a causal question *)
(* is given the tools it needs, and what a tool returns is what the tables hold  *)
(* (base.dispatch, selector.select_tools, the tools).                            *)
ToolCallsTellTheTables ==
  /\ case.kind = "call" => RepliesAreContained(case.in)
  /\ case.kind \in {"call", "question"} => CausalQuestionsGetTheirTools(case.in)
  /\ case.kind = "series" => SeriesTellTheTables(case.in) /\ DriversMovedAgainst(case.in)
  /\ case.kind = "rankings" => RankingsTellTheTables(case.in)

(* From the pages of a file to the sources under an answer, nothing that was     *)
(* readable is lost, a page keeps its number, and an answer rests on the dataset  *)
(* it is about (extractor, chunker, retriever, qa_chain).                        *)
DocumentsAreCited ==
  /\ case.kind = "pages" => PagesKeepTheirNumbers(case.in)
  /\ case.kind = "chunks" => ChunksHoldTheDocument(case.in)
  /\ case.kind = "ask" => AnswersRestOnTheDataset(case.in)

(* The derived tables follow from the readings of the hub: their counts add up,  *)
(* forecasts go on where the readings end, alerts show what was read, and scores  *)
(* follow their factors (domain_analytics, feature_engineering, the ML jobs).     *)
ResultsFollowTheReadings ==
  /\ case.kind = "hub" => TablesAddUp(case.in.hub) /\ ForecastsFollowTheSeries(case.in)
  /\ case.kind = "alerts" => AlertsTellTheReadings(case.in)
  /\ case.kind = "risk" => RiskFollowsTheFactors(case.in)

(* A page that a role is shown loads, the client's calls meet their routes, and  *)
(* the copilot reads for a role no more than the role may read itself (nav.NAV,  *)
(* require_permission, auth_schema.sql).                                        *)
RolesGetTheirPages ==
  case.kind = "page" =>
    /\ ShownPagesLoad(case.in[1], case.in[2])
    /\ CopilotReadsWhatIsPermitted(case.in[1])
    /\ CallsMeetTheirRoutes

(* A trend that the API holds is drawn: it is never silently turned into empty   *)
(* data (docstring of domain_charts._trend_points).                             *)
StoredTrendsAreDrawn == case.kind = "trend" => TrendsAreDrawn(case.in)
=============================================================================
