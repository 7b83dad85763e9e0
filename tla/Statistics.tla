----------------------------- MODULE Statistics -----------------------------
(* What the jobs compute, for one domain: from the hub's readings the daily    *)
(* trend and the features of entities (analytics-spark/jobs), and from those   *)
(* the forecasts, the alerts and the risk scores (ml/jobs).  Averages, slopes  *)
(* and deviations are in sixtieths and rounded down, shares in thousandths.    *)
(* Spark's and pandas' grouping are sets here; IsolationForest and             *)
(* ExponentialSmoothing are external, and what they return is an input.        *)
EXTENDS Values, Integers, Sequences, FiniteSetsExt, TLC

CONSTANT MaxRoot \* bound on standard deviations

LOCAL Unit == 60
KnownIn(hub, I) == {i \in I : hub[i].value # None}
SumOf(hub, I) == MapThenSumSet(LAMBDA i : hub[i].value, KnownIn(hub, I))
AverageOf(hub, I) ==
  IF KnownIn(hub, I) = {} THEN None ELSE (Unit * SumOf(hub, I)) \div Cardinality(KnownIn(hub, I))
ReadingsOf(hub, r) == {i \in DOMAIN hub : hub[i].dataset = r.dataset /\ hub[i].metric = r.metric}
LOCAL Abs(x) == IF x < 0 THEN -x ELSE x

-----------------------------------------------------------------------------
(* Rows of one dataset and metric: all of them, the empty ones counted apart. *)
ComputeMetricAggregates(hub) ==
  {LET I == ReadingsOf(hub, hub[k]) IN
     [dataset |-> hub[k].dataset, metric |-> hub[k].metric, rows |-> Cardinality(I),
      entities |-> Cardinality({hub[i].entity : i \in I}),
      nulls |-> Cardinality(I \ KnownIn(hub, I)), sum |-> SumOf(hub, I), avg |-> AverageOf(hub, I)] :
   k \in DOMAIN hub}

(* The rows that have a time, by day: of all entities together. *)
ComputeDailyTrend(hub) ==
  {LET I == {i \in ReadingsOf(hub, hub[k]) : hub[i].day = hub[k].day} IN
     [dataset |-> hub[k].dataset, metric |-> hub[k].metric, day |-> hub[k].day,
      rows |-> Cardinality(I), sum |-> SumOf(hub, I), avg |-> AverageOf(hub, I)] :
   k \in {i \in DOMAIN hub : hub[i].day # None}}

(* Window.orderBy("recorded_at"): those without a time come first. *)
LOCAL Time(hub, i) == IF hub[i].day = None THEN 0 ELSE hub[i].day
RankIn(hub, I, i) ==
  Cardinality({j \in I : Time(hub, j) < Time(hub, i) \/ (Time(hub, j) = Time(hub, i) /\ j <= i)})

(* The slope over the ranks; none for one reading, whose ranks do not vary. *)
TrendSlope(hub, I) ==
  LET n == Cardinality(I)
      sumX == MapThenSumSet(LAMBDA i : RankIn(hub, I, i), I)
      sumXX == MapThenSumSet(LAMBDA i : RankIn(hub, I, i) * RankIn(hub, I, i), I)
      sumXY == MapThenSumSet(LAMBDA i : RankIn(hub, I, i) * hub[i].value, I)
  IN  IF n * sumXX = sumX * sumX THEN None
      ELSE (Unit * (n * sumXY - sumX * SumOf(hub, I))) \div (n * sumXX - sumX * sumX)

(* stddev, of a sample: none for one reading. *)
LOCAL Root(v) == CHOOSE k \in 0 .. MaxRoot : k * k <= v /\ (k + 1) * (k + 1) > v
DeviationOf(hub, I) ==
  LET n == Cardinality(I)
      squares == MapThenSumSet(LAMBDA i : hub[i].value * hub[i].value, I)
  IN  IF n < 2 THEN None
      ELSE Root((Unit * Unit * (n * squares - SumOf(hub, I) * SumOf(hub, I))) \div (n * (n - 1)))

(* Readings of one entity and metric, the empty ones left out. *)
ComputeEntityFeatures(hub) ==
  {LET I == {i \in ReadingsOf(hub, hub[k]) : hub[i].entity = hub[k].entity /\ hub[i].value # None} IN
     [dataset |-> hub[k].dataset, entity |-> hub[k].entity, metric |-> hub[k].metric,
      obs |-> Cardinality(I), avg |-> AverageOf(hub, I), std |-> DeviationOf(hub, I),
      last |-> hub[CHOOSE i \in I : RankIn(hub, I, i) = Cardinality(I)].value,
      slope |-> TrendSlope(hub, I)] :
   k \in KnownIn(hub, DOMAIN hub)}

-----------------------------------------------------------------------------
(* The series of a dataset and metric: the days and averages of its trend. *)
SeriesKeys(trend) == {[dataset |-> t.dataset, metric |-> t.metric] : t \in trend}
SeriesOf(trend, k) == {t \in trend : t.dataset = k.dataset /\ t.metric = k.metric}

HORIZON == 7

(* forecasting._prepare_series fills the days between the first and the last.  *)
(* Six days are smoothed, if that does not fail; three have a line through     *)
(* them; fewer have no forecast.                                               *)
Forecasts(trend, smoothed) ==
  UNION {LET days == {t.day : t \in SeriesOf(trend, k)}
             points == Max(days) - Min(days) + 1
         IN  IF points < 3 THEN {}
             ELSE {[dataset |-> k.dataset, metric |-> k.metric, day |-> d,
                    model |-> IF points >= 6 /\ smoothed THEN "holt_winters" ELSE "linear_trend"] :
                     d \in Max(days) + 1 .. Max(days) + HORIZON} : k \in SeriesKeys(trend)}

(* forecasting.run writes them all, or none: with no average to fill from, a    *)
(* series stays empty, smoothing it fails, and so does the line through it,     *)
(* which nothing catches.                                                       *)
Unfillable(series) ==
  LET days == {t.day : t \in series}
  IN  Max(days) - Min(days) + 1 >= 3 /\ \A t \in series : t.avg = None
Forecasting(trend, smoothed) ==
  IF \E k \in SeriesKeys(trend) : Unfillable(SeriesOf(trend, k)) THEN Fails
  ELSE Forecasts(trend, smoothed)

-----------------------------------------------------------------------------
(* bucket_level *)
BucketLevel(score, low, high) ==
  IF score >= high THEN "high" ELSE IF score >= low THEN "medium" ELSE "low"

(* A z-score times the standard deviation and the number of the values, and    *)
(* the square of that deviation: no root is needed to compare.                 *)
LOCAL Far(values, I, i) == Cardinality(I) * values[i] - MapThenSumSet(LAMBDA j : values[j], I)
LOCAL Spread(values, I) ==
  Cardinality(I) * MapThenSumSet(LAMBDA j : values[j] * values[j], I)
  - MapThenSumSet(LAMBDA j : values[j], I) * MapThenSumSet(LAMBDA j : values[j], I)

(* |z| >= halves / 2 *)
LOCAL Beyond(values, I, i, halves) ==
  4 * Far(values, I, i) * Far(values, I, i) >= halves * halves * Spread(values, I)

(* _detect_zscore: those beyond 2.5 deviations, where there is any deviation. *)
DetectZscore(values, I) ==
  {i \in I : Cardinality(I) >= 4 /\ Spread(values, I) # 0 /\ Beyond(values, I, i, 5)}

ZscoreSeverity(values, I, i) ==
  IF Beyond(values, I, i, 7) THEN "high" ELSE IF Beyond(values, I, i, 6) THEN "medium" ELSE "low"

(* The forest's findings of a series, if it ran: days with scores. A series    *)
(* too short for it, or on which it fails, goes to the z-score.                *)
RowsFromGroup(series, entity, forest) ==
  LET day == [d \in {t.day : t \in series} |-> (CHOOSE t \in series : t.day = d).avg]
  IN  IF Cardinality(series) >= 8 /\ forest # Fails
      THEN {[entity |-> entity, day |-> f.day, observed |-> day[f.day], method |-> "isolation_forest",
             severity |-> BucketLevel(f.score, 40, 70)] : f \in {g \in forest : g.day \in DOMAIN day}}
      ELSE {[entity |-> entity, day |-> d, observed |-> day[d], method |-> "zscore",
             severity |-> ZscoreSeverity(day, DOMAIN day, d)] : d \in DetectZscore(day, DOMAIN day)}

(* entity_lookup: the first entity that has the metric stands for the series,  *)
(* which is of all of them.                                                    *)
EntityLookup(features, order, k) ==
  LET has == {j \in DOMAIN order : \E f \in SeriesOf(features, k) : f.entity = order[j]}
  IN  IF has = {} THEN None ELSE order[Min(has)]

(* Mutant: what a series has reported is reported of the entity again. *)
RowsFromFeaturesAgain(features, k, seen) ==
  LET last == [e \in {f.entity : f \in SeriesOf(features, k)} |->
                 (CHOOSE f \in SeriesOf(features, k) : f.entity = e).last]
  IN  {[entity |-> e, day |-> None, observed |-> last[e], method |-> "zscore",
        severity |-> ZscoreSeverity(last, DOMAIN last, e)] :
         e \in DetectZscore(last, DOMAIN last)}

(* The last value of an entity against those of all that have the metric. *)
RowsFromFeatures(features, k, seen) ==
  LET last == [e \in {f.entity : f \in SeriesOf(features, k)} |->
                 (CHOOSE f \in SeriesOf(features, k) : f.entity = e).last]
  IN  {[entity |-> e, day |-> None, observed |-> last[e], method |-> "zscore",
        severity |-> ZscoreSeverity(last, DOMAIN last, e)] :
         e \in DetectZscore(last, DOMAIN last) \ seen}

Anomalies(trend, features, order, forest) ==
  UNION {LET first == EntityLookup(features, order, k)
             group == RowsFromGroup(SeriesOf(trend, k), first, forest)
             seen == {r.entity : r \in group}
         IN  {[dataset |-> k.dataset, metric |-> k.metric, entity |-> r.entity, day |-> r.day,
               observed |-> r.observed, method |-> r.method, severity |-> r.severity] :
                r \in group \cup RowsFromFeatures(features, k, seen)} :
         k \in SeriesKeys(trend) \cup SeriesKeys(features)}

-----------------------------------------------------------------------------
(* Risk, of all entities the run found in the domain, whatever their dataset.  *)

(* _minmax *)
MinMax(v) ==
  LET low == Min({v[i] : i \in DOMAIN v})
      range == Max({v[i] : i \in DOMAIN v}) - low
  IN  [i \in DOMAIN v |-> IF range = 0 THEN 0 ELSE (1000 * (v[i] - low)) \div range]

(* _trend_component: only adverse movement adds. *)
TrendComponent(slopes, rising) ==
  MinMax([i \in DOMAIN slopes |->
            LET directed == IF rising THEN slopes[i] ELSE -slopes[i]
            IN  IF directed < 0 THEN 0 ELSE directed])

(* _volatility_component: the deviation against the average, in thousandths. *)
VolatilityComponent(stds, avgs) ==
  MinMax([i \in DOMAIN stds |-> (1000 * stds[i]) \div (IF avgs[i] = 0 THEN Unit ELSE Abs(avgs[i]))])

(* _load_anomaly_weights, of the alerts that name an entity *)
AnomalyWeight(alerts, dataset, entity) ==
  MapThenSumSet(LAMBDA a : [high |-> 3, medium |-> 2, low |-> 1][a.severity],
                {a \in alerts : a.dataset = dataset /\ a.entity = entity})

(* The mean over the metrics of an entity; one that has none counts as 0. *)
LOCAL MeanOf(values) ==
  LET known == {v \in values : v.of # None}
  IN  IF known = {} THEN 0 ELSE MapThenSumSet(LAMBDA v : v.of, known) \div Cardinality(known)

(* _score_domain: the score is stored to a hundredth, and its level is that of *)
(* the score before that rounding.                                             *)
ScoreDomain(features, alerts, rising) ==
  LET keys == {<<f.dataset, f.entity>> : f \in features}
      slopes == [k \in keys |-> MeanOf({[metric |-> f.metric, of |-> f.slope] :
                   f \in {g \in features : <<g.dataset, g.entity>> = k}})]
      stds == [k \in keys |-> MeanOf({[metric |-> f.metric, of |-> f.std] :
                   f \in {g \in features : <<g.dataset, g.entity>> = k}})]
      avgs == [k \in keys |-> MeanOf({[metric |-> f.metric, of |-> f.avg] :
                   f \in {g \in features : <<g.dataset, g.entity>> = k}})]
      weights == [k \in keys |-> AnomalyWeight(alerts, k[1], k[2])]
      trend == TrendComponent(slopes, rising)
      volatility == VolatilityComponent(stds, avgs)
      anomaly == MinMax(weights)
      score == [k \in keys |-> 45 * trend[k] + 25 * volatility[k] + 30 * anomaly[k]]
  IN  IF keys = {} THEN {}
      ELSE {[dataset |-> k[1], entity |-> k[2], score |-> RoundTo(score[k], 10),
             level |-> BucketLevel(score[k], 33000, 66000),
             slope |-> slopes[k], weight |-> weights[k], volatility |-> volatility[k]] : k \in keys}
-----------------------------------------------------------------------------
(* Properties                                                                *)

(* The three tables count the same readings: those of the days and those      *)
(* without a time, and those of the entities and the empty ones, are the rows  *)
(* of the metric (compute_metric_aggregates, compute_daily_trend,              *)
(* compute_entity_features).                                                   *)
TablesAddUp(hub) ==
  \A m \in ComputeMetricAggregates(hub) :
    LET days == {t \in ComputeDailyTrend(hub) : t.dataset = m.dataset /\ t.metric = m.metric}
        entities == {f \in ComputeEntityFeatures(hub) : f.dataset = m.dataset /\ f.metric = m.metric}
        undated == {i \in DOMAIN hub : hub[i].dataset = m.dataset /\ hub[i].metric = m.metric
                                       /\ hub[i].day = None}
    IN  /\ m.rows = MapThenSumSet(LAMBDA t : t.rows, days) + Cardinality(undated)
        /\ m.rows = MapThenSumSet(LAMBDA f : f.obs, entities) + m.nulls
        /\ m.entities >= Cardinality(entities)
        /\ Cardinality(undated) = 0 => m.sum = MapThenSumSet(LAMBDA t : t.sum, days)

(* A forecast begins on the day after the last one and leaves no day out,      *)
(* unless a series without a value ends the job with no forecast at all.       *)
ForecastsFollowTheSeries(in) ==
  LET trend == ComputeDailyTrend(in.hub)
      ahead == Forecasting(trend, in.smoothed)
  IN  ahead # Fails =>
        \A f \in ahead : \A t \in trend : t.dataset = f.dataset /\ t.metric = f.metric =>
          /\ f.day > t.day
          /\ f.day = t.day + 1 \/ \E e \in trend \cup ahead :
                e.dataset = f.dataset /\ e.metric = f.metric /\ e.day = f.day - 1

(* An alert shows what was read of its dataset and metric: the average of its  *)
(* day, or the last value of its entity.  What the series has told of an       *)
(* entity is not told again from its features (anomaly_detection.run).         *)
AlertsTellTheReadings(in) ==
  LET trend == ComputeDailyTrend(in.hub)
      features == ComputeEntityFeatures(in.hub)
      alerts == Anomalies(trend, features, in.order, in.forest)
  IN  \A a \in alerts :
        /\ a.day # None =>
             \E t \in SeriesOf(trend, a) : t.day = a.day /\ t.avg = a.observed
        /\ a.day = None =>
             /\ \E f \in SeriesOf(features, a) : f.entity = a.entity /\ f.last = a.observed
             /\ ~ \E b \in SeriesOf(alerts, a) : b.day # None /\ b.entity = a.entity

(* A score is between 0 and 100; its level is that of the score, except that a *)
(* score stored at a limit may have been below it before it was rounded; and   *)
(* an entity that is at least as bad in every respect has at least the score   *)
(* and the level; a movement the good way counts like none.                    *)
RiskFollowsTheFactors(in) ==
  LET scores == ScoreDomain(ComputeEntityFeatures(in.hub), in.alerts, in.rising)
      Adverse(s) == LET slope == IF in.rising THEN s.slope ELSE -s.slope
                    IN  IF slope < 0 THEN 0 ELSE slope
  IN  \A s \in scores :
        /\ s.score \in 0 .. 100000
        /\ s.level = "high" => s.score >= 66000
        /\ s.score > 66000 => s.level = "high"
        /\ s.level # "low" => s.score >= 33000
        /\ s.score > 33000 => s.level # "low"
        /\ \A r \in scores :
             Adverse(s) >= Adverse(r) /\ s.volatility >= r.volatility /\ s.weight >= r.weight
               => s.score >= r.score /\ (r.level = "high" => s.level = "high")
                  /\ (s.level = "low" => r.level = "low")
=============================================================================
