----------------------------- MODULE AgentTools -----------------------------
(* What the copilot's model can call and what it is told in return: reading a   *)
(* reply, checking and running a call, resolving the words it uses, the tools   *)
(* over the read endpoints, and which tools a question brings. Code:            *)
(* services/agent/tools, llm.py, agent.py.                                      *)
EXTENDS ReadAPI

CONSTANTS Words,        \* a name or a phrase -> its words
          Synonyms,     \* a user's word -> the domain it means
          WideCap,      \* _WIDE_CAP: series listed when every domain is searched
          ContextCap,   \* _CONTEXT_CAP: series listed beside the one asked for
          AlertLimit,   \* the limit ml_alerts reads anomalies with
          MoverCap      \* entities analytics_features ranks

(* ------------------------- resolving the user's words ----------------------- *)

(* Mutant: an unknown word is kept, and filters everything away. *)
NormalizeClosed(value) ==
  LET words == IF value = None THEN <<>> ELSE Words[value]
      named == SelectSeq(words, LAMBDA w : w \in ToSet(Canonical))
      meant == SelectSeq(words, LAMBDA w : w \in DOMAIN Synonyms)
  IN  IF named # <<>> THEN named[1] ELSE IF meant # <<>> THEN Synonyms[meant[1]] ELSE value

(* normalize_domain: a domain's own name anywhere in the phrase, else the first  *)
(* word with a known meaning, else None: an unknown word widens the search.     *)
NormalizeDomain(value) ==
  LET words == IF value = None THEN <<>> ELSE Words[value]
      named == SelectSeq(words, LAMBDA w : w \in ToSet(Canonical))
      meant == SelectSeq(words, LAMBDA w : w \in DOMAIN Synonyms)
  IN  IF named # <<>> THEN named[1] ELSE IF meant # <<>> THEN Synonyms[meant[1]] ELSE None

(* The scope of a trend or a forecast: the domain given, or the one a metric's   *)
(* name suggests when none is given.                                            *)
Scope(call) ==
  LET given == NormalizeDomain(call.domain)
      widened == call.domain # None /\ given = None
      guess == IF given = None /\ ~widened THEN NormalizeDomain(call.metric) ELSE None
  IN  [used |-> IF given # None THEN given ELSE guess, widened |-> widened,
       inferred |-> guess # None]

(* ------------------------------ series of values ---------------------------- *)

Known(values) == SelectSeq(values, LAMBDA v : v # None)
FirstOrNone(s) == IF s = <<>> THEN None ELSE s[1]
FirstValid(values) == FirstOrNone(Known(values))
LastValid(values) == FirstOrNone(Reverse(Known(values)))

(* _direction: two hundredths of the start either way are flat. *)
Direction(start, end) ==
  IF start = None \/ end = None THEN "unknown"
  ELSE IF 100 * end > 102 * start THEN "rising"
  ELSE IF 100 * end < 98 * start THEN "falling" ELSE "flat"

(* _movement: the change as a share of the start, of one when the start is zero, *)
(* as a numerator and a denominator.                                            *)
LOCAL Size(x) == IF x < 0 THEN 0 - x ELSE x
Movement(start, end) ==
  IF start = None \/ end = None THEN <<0, 1>>
  ELSE IF start = 0 THEN <<Size(end), 1>> ELSE <<Size(end - start), Size(start)>>

Faster(s, t) == s.movement[1] * t.movement[2] > t.movement[1] * s.movement[2]
MostMoved(s) == SortSeq(s, Faster)

(* The rows, one series for each metric of each domain, described. *)
Describe(r, start, end) ==
  [domain |-> r.domain, metric |-> r.metric, start |-> start, end |-> end,
   direction |-> Direction(start, end), movement |-> Movement(start, end)]

Described(rows) ==
  LET Key(r) == <<r.domain, r.metric>>
      heads == SelectSeq([i \in DOMAIN rows |-> i],
                 LAMBDA i : \A j \in 1..i - 1 : Key(rows[j]) # Key(rows[i]))
      Values(own) == [j \in DOMAIN own |-> own[j].value]
      Series(r, values) == Describe(r, FirstValid(values), LastValid(values))
      Of(r) == Series(r, Values(SelectSeq(rows, LAMBDA t : Key(t) = Key(r))))
  IN  [k \in DOMAIN heads |-> Of(rows[heads[k]])]

(* Everywhere searched, only the biggest movers are kept. *)
Trimmed(series, widened) ==
  IF widened /\ Len(series) > WideCap THEN FirstOf(MostMoved(series), WideCap) ELSE series

Refused == [ok |-> FALSE]

(* ------------------------------ the tools ----------------------------------- *)

(* What moved elsewhere: the other domains' series that moved, with or against   *)
(* the one of the answer that moved most.                                       *)
Sides(others, anchor) ==
  LET Side(against) == FirstOf(MostMoved(SelectSeq(others,
        LAMBDA s : s.direction \notin {"unknown", "flat"} /\ (s.direction # anchor) = against)), ContextCap)
  IN  [opposite |-> Side(TRUE), together |-> Side(FALSE)]

MovedElsewhere(db, call, out) ==
  LET rows == IF call.context /\ out.used # None THEN DatasetTrend(db, call.dataset, None, None) ELSE <<>>
  IN  Sides(Described(SelectSeq(rows, LAMBDA r : r.domain # out.used)),
            MostMoved(out.series)[1].direction)

(* The lookup of both tools of series: a metric nobody has is dropped from the    *)
(* query, and the domain's metrics are shown for the model to choose from.      *)
Told(rows, dropped, scope) ==
  IF rows \in {Fails, <<>>} THEN Refused
  ELSE [ok |-> TRUE, dropped |-> dropped, series |-> Trimmed(Described(rows), scope.widened)] @@ scope

Lookup(call, scope, exact, every) ==
  IF exact = <<>> /\ call.metric # None THEN Told(every, TRUE, scope) ELSE Told(exact, FALSE, scope)

AnalyticsTrend(db, call) ==
  LET In(scope) == Lookup(call, scope, DatasetTrend(db, call.dataset, scope.used, call.metric),
                                       DatasetTrend(db, call.dataset, scope.used, None))
      WithContext(out) ==
        IF out.ok THEN [shown |-> out.series] @@ out @@ MovedElsewhere(db, call, out) ELSE out
  IN  WithContext(In(Scope(call)))

(* The text of a forecast shows the first few series whatever the case. *)
MlForecast(db, call) ==
  LET In(scope) == Lookup(call, scope, DatasetForecasts(db, call.dataset, scope.used, call.metric),
                                       DatasetForecasts(db, call.dataset, scope.used, None))
      Cut(out) == IF out.ok THEN [shown |-> FirstOf(out.series, WideCap)] @@ out ELSE out
  IN  Cut(In(Scope(call)))

(* Anomalies and risks of one domain or of all: counts, and the first of each. *)
MlAlerts(db, call) ==
  LET used == NormalizeDomain(call.domain)
      anomalies == DatasetAnomalies(db, call.dataset, used, None, AlertLimit)
      risks == DatasetRiskScores(db, call.dataset, used, None)
      severities == {anomalies[i].severity : i \in DOMAIN anomalies}
  IN  IF Fails \in {anomalies, risks} \/ (anomalies = <<>> /\ risks = <<>>) THEN Refused
      ELSE [ok |-> TRUE, used |-> used, anomalies |-> Len(anomalies),
            counts |-> [v \in severities |-> Len(SelectSeq(anomalies, LAMBDA a : a.severity = v))],
            high |-> Len(SelectSeq(risks, LAMBDA r : r.level = "high")),
            worst |-> IF risks = <<>> THEN None ELSE risks[1]]

(* The entities whose values trend most, among the rows read. *)
AnalyticsFeatures(db, call) ==
  LET used == NormalizeDomain(call.domain)
      rows == DatasetFeatures(db, call.dataset, used, call.limit)
      Slope(r) == IF r.slope = None THEN 0 ELSE Size(r.slope)
  IN  IF rows \in {Fails, <<>>} THEN Refused
      ELSE [ok |-> TRUE, used |-> used, total |-> Len(rows),
            top |-> FirstOf(SortSeq(rows, LAMBDA r, t : Slope(r) > Slope(t)), MoverCap)]

(* The two overviews of what a dataset has; empty ones are refusals. *)
MlOverviewTool(db, call) ==
  LET seen == MlOverview(db, call.dataset)
  IN  IF seen = Fails THEN Refused
      ELSE IF seen.forecasts + seen.anomalies + seen.high = 0 THEN Refused
      ELSE [ok |-> TRUE] @@ seen

HubSummary(db, call) ==
  LET seen == DatasetSummary(db, call.dataset)
  IN  IF seen = Fails THEN Refused
      ELSE IF seen.missing THEN Refused
      ELSE IF DOMAIN seen.metrics = {} THEN Refused
      ELSE [ok |-> TRUE, domains |-> {k[1] : k \in DOMAIN seen.metrics}]

(* _hub_sweep_all_domains: a slice of every domain in turn, whatever the limit    *)
(* asked for; the ones that fail are passed over.                               *)
HubSweep(db, call) ==
  LET slice == Max({20, Min({call.limit, 60})})
      At(domain) == DomainData(db, call.dataset, domain, slice)
      Holds(domain) == IF At(domain) = Fails THEN FALSE ELSE At(domain).points # <<>>
      found == SelectSeq(Canonical, Holds)
  IN  IF Missing(db, call.dataset) \/ found = <<>> THEN Refused
      ELSE [ok |-> TRUE, used |-> None, searchedAll |-> TRUE, domains |-> ToSet(found),
            sampled |-> [k \in DOMAIN found |-> Len(At(found[k]).points)]]

HubDomainData(db, call) ==
  LET used == NormalizeDomain(call.domain)
      seen == DomainData(db, call.dataset, used, call.limit)
  IN  IF used = None THEN HubSweep(db, call)
      ELSE IF seen = Fails THEN Refused
      ELSE IF seen.missing THEN Refused
      ELSE IF seen.points = <<>> THEN Refused
      ELSE [ok |-> TRUE, used |-> used, searchedAll |-> FALSE, domains |-> {used}]

-----------------------------------------------------------------------------
LOCAL Held(table, call, used) ==
  SelectSeq(table, LAMBDA r : r.dataset = call.dataset /\ used \in {None, r.domain})

LOCAL Tells(out, held, exact, all) ==
  /\ out.ok <=> held # <<>>
  /\ out.ok =>
       /\ \A k \in DOMAIN out.series :
            LET s == out.series[k]
            IN  /\ \E i \in DOMAIN held : held[i].domain = s.domain /\ held[i].metric = s.metric
                /\ exact # <<>> => s.metric = exact[1].metric
                /\ (s.start # None /\ s.start >= 0) =>
                     /\ s.direction = "rising" => s.end > s.start
                     /\ s.direction = "falling" => s.end < s.start
       /\ \A k \in DOMAIN all : exact = <<>> =>
            \/ \E j \in DOMAIN out.series : out.series[j] = all[k]
            \/ out.widened /\ \A j \in DOMAIN out.series : ~Faster(all[k], out.series[j])

(* An answer about values over time is of the scope it states: it is refused only *)
(* when the scope holds nothing, an unknown word finds what no word finds, a       *)
(* metric that exists is the only one told, nothing left out of a wide search      *)
(* moved more than what is in it, and a stated direction is the one the values     *)
(* took (of a series that starts at zero or above)                                 *)
(* (analytics_tool.analytics_trend, ml_tool.ml_forecast).                          *)
SeriesTellTheTables(in) ==
  LET call == in.call
      plain == [call EXCEPT !.domain = None, !.metric = None]
      unheard == call.domain # None /\
        ToSet(Words[call.domain]) \cap (ToSet(Canonical) \cup DOMAIN Synonyms) = {}
      TellsOf(out, held) ==
        Tells(out, held, SelectSeq(held, LAMBDA r : r.metric = call.metric), Described(held))
      TellsIn(used, trend, forecast) ==
        /\ TellsOf(trend, Held(in.db.trend, call, used))
        /\ TellsOf(forecast, Held(in.db.forecasts, call, used))
        /\ unheard => trend.ok = AnalyticsTrend(in.db, plain).ok
  IN  in.db.up = {"analytics", "ml", "hub"} =>
        TellsIn(Scope(call).used, AnalyticsTrend(in.db, call), MlForecast(in.db, call))

LOCAL Drives(out, anchor, rest) ==
  LET Opposed(s) == {s.direction, anchor} = {"rising", "falling"}
      listed == ToSet(out.opposite) \cup ToSet(out.together)
  IN  anchor \in {"rising", "falling"} =>
        /\ \A s \in ToSet(out.opposite) : Opposed(s) /\ s.domain # out.used
        /\ \A s \in ToSet(out.together) : s.direction = anchor /\ s.domain # out.used
        /\ listed # {} => \A k \in DOMAIN rest :
             rest[k].domain # out.used /\ rest[k] \notin listed /\ rest[k].direction \notin {"unknown", "flat"} =>
               \A s \in listed : Opposed(s) = Opposed(rest[k]) => ~Faster(rest[k], s)

(* What is offered as a likely driver moved against a series that moved, and what *)
(* is offered as a consequence moved with it; neither is of the domain asked       *)
(* about, and none left out moved more (analytics_trend with include_context).     *)
DriversMovedAgainst(in) ==
  LET Checked(out) == out.ok => Drives(out, MostMoved(out.series)[1].direction,
                                       Described(Held(in.db.trend, in.call, None)))
  IN  Checked(AnalyticsTrend(in.db, in.call))

LOCAL AlertsAgree(alerts, risks, overview) ==
  /\ alerts.worst # None => \A i \in DOMAIN risks :
       risks[i].score # None => alerts.worst.score # None /\ alerts.worst.score >= risks[i].score
  /\ MapThenSumSet(LAMBDA v : alerts.counts[v], DOMAIN alerts.counts) = alerts.anomalies
  /\ (alerts.used = None /\ alerts.anomalies < AlertLimit) =>
       alerts.anomalies = overview.anomalies /\ alerts.high = overview.high

LOCAL MoversAreSteepest(movers, rows) ==
  LET Slope(r) == IF r.slope = None THEN 0 ELSE Size(r.slope)
  IN  \A i \in DOMAIN rows :
        movers.used \in {None, rows[i].domain} /\ rows[i] \notin ToSet(movers.top) =>
          \A t \in ToSet(movers.top) : Slope(rows[i]) <= Slope(t)

(* The alerts agree with each other and with the tables: the worst risk named is   *)
(* one no other outranks, the severities add up, and without a filter and below    *)
(* the limit the counts are the overview's; the features ranked first are the      *)
(* steepest of the rows read; a sweep names exactly the domains that answer when   *)
(* asked by name, which are the domains of the summary; and an overview that       *)
(* announces something is followed by a tool that shows something                  *)
(* (ml_tool.ml_alerts, ml_overview_tool, hub_tool, analytics_tool).                *)
RankingsTellTheTables(in) ==
  LET db == in.db
      call == in.call
      everywhere == [call EXCEPT !.domain = None] @@ [metric |-> None]
      Alerts(out) == out.ok => AlertsAgree(out, Held(db.risks, call, out.used), MlOverview(db, call.dataset))
      Movers(out) == (out.ok /\ out.total < call.limit) =>
                       MoversAreSteepest(out, Held(db.features, call, None))
      Sweep(out) ==
        /\ HubSummary(db, call).ok => HubSummary(db, call).domains = out.domains
        /\ out.ok => \A dom \in ToSet(Canonical) :
             dom \in out.domains <=> HubDomainData(db, [call EXCEPT !.domain = dom]).ok
  IN  /\ Alerts(MlAlerts(db, call))
      /\ Movers(AnalyticsFeatures(db, call))
      /\ MlOverviewTool(db, call).ok => MlAlerts(db, everywhere).ok \/ MlForecast(db, everywhere).ok
      /\ Sweep(HubSweep(db, call))
=============================================================================
