------------------------------- MODULE ReadAPI -------------------------------
(* The endpoints that only read, as functions of what the tables hold. Code:   *)
(* routers/v1/analytics.py, ml.py and domains.py. The agent's tools call these *)
(* endpoints as plain functions.                                               *)
(* db: the tables as sequences of rows in the order they are stored, and "up", *)
(* the layers that answer: "analytics", "ml", "hub".                           *)
EXTENDS Values, Integers, Sequences, SequencesExt, FiniteSetsExt, TLC

CONSTANTS Alphabet,   \* every name, in the order the database sorts names
          Canonical   \* the business domains, in the order the code lists them

LOCAL Rank(name) == CHOOSE i \in DOMAIN Alphabet : Alphabet[i] = name
LOCAL Before(r, t, columns) ==
  \E i \in DOMAIN columns : /\ Rank(r[columns[i]]) < Rank(t[columns[i]])
                            /\ \A j \in 1..i - 1 : r[columns[j]] = t[columns[j]]
Ordered(rows, columns) == SortSeq(rows, LAMBDA r, t : Before(r, t, columns))
FirstOf(rows, limit) == SubSeq(rows, 1, IF Len(rows) > limit THEN limit ELSE Len(rows))

(* The clauses of a query: a column is compared when a value is given. *)
Matching(rows, dataset, given) ==
  SelectSeq(rows, LAMBDA r : r.dataset = dataset /\
              \A c \in DOMAIN given : given[c] # None => r[c] = given[c])

DatasetTrend(db, d, domain, metric) ==
  LET rows == Matching(db.trend, d, [domain |-> domain, metric |-> metric])
  IN  IF "analytics" \notin db.up THEN Fails
      ELSE Ordered(rows, <<"domain", "metric", "day">>)

(* The limit is a part of the query: the first rows by name are kept. *)
DatasetFeatures(db, d, domain, limit) ==
  LET rows == Matching(db.features, d, [domain |-> domain])
  IN  IF "analytics" \notin db.up THEN Fails
      ELSE FirstOf(Ordered(rows, <<"domain", "entity", "metric">>), limit)

DatasetForecasts(db, d, domain, metric) ==
  LET rows == Matching(db.forecasts, d, [domain |-> domain, metric |-> metric])
  IN  IF "ml" \notin db.up THEN Fails
      ELSE Ordered(rows, <<"domain", "metric", "day">>)

LOCAL Urgency(r) == IF r.severity = "high" THEN 0 ELSE IF r.severity = "medium" THEN 1 ELSE 2
DatasetAnomalies(db, d, domain, severity, limit) ==
  LET rows == Matching(db.anomalies, d, [domain |-> domain, severity |-> severity])
      Sooner(r, t) == \/ Urgency(r) < Urgency(t)
                      \/ Urgency(r) = Urgency(t) /\ Before(r, t, <<"domain", "metric">>)
  IN  IF "ml" \notin db.up THEN Fails
      ELSE FirstOf(SortSeq(rows, Sooner), limit)

DatasetRiskScores(db, d, domain, level) ==
  LET rows == Matching(db.risks, d, [domain |-> domain, level |-> level])
  IN  IF "ml" \notin db.up THEN Fails
      ELSE SortSeq(rows, LAMBDA r, t : r.score # None /\ (t.score = None \/ r.score > t.score))

(* The name of the business is taken from a forecast, so that a dataset with     *)
(* only anomalies or risks has none.                                            *)
MlOverview(db, d) ==
  LET Rows(table) == SelectSeq(table, LAMBDA r : r.dataset = d)
      all == Rows(db.forecasts) \o Rows(db.anomalies) \o Rows(db.risks)
  IN  IF "ml" \notin db.up THEN Fails
      ELSE [named |-> Rows(db.forecasts) # <<>>, domains |-> {all[i].domain : i \in DOMAIN all},
            forecasts |-> Len(Rows(db.forecasts)), anomalies |-> Len(Rows(db.anomalies)),
            high |-> Len(SelectSeq(Rows(db.risks), LAMBDA r : r.level = "high"))]

Missing(db, d) == \A i \in DOMAIN db.datasets : db.datasets[i].id # d

(* The two reads of the hub: a dataset that is not there is told apart from a    *)
(* layer that does not answer.                                                  *)
DatasetSummary(db, d) ==
  IF Missing(db, d) THEN [missing |-> TRUE]
  ELSE IF "hub" \notin db.up THEN Fails
  ELSE LET rows == SelectSeq(db.hub, LAMBDA r : r.dataset = d)
           keys == {<<rows[i].domain, rows[i].metric>> : i \in DOMAIN rows}
       IN  [missing |-> FALSE,
            metrics |-> [k \in keys |-> Len(SelectSeq(rows, LAMBDA r : <<r.domain, r.metric>> = k))]]

DomainData(db, d, domain, limit) ==
  IF Missing(db, d) THEN [missing |-> TRUE]
  ELSE IF domain \notin ToSet(Canonical) \/ "hub" \notin db.up THEN Fails
  ELSE [missing |-> FALSE,
        points |-> FirstOf(Ordered(Matching(db.hub, d, [domain |-> domain]), <<"day", "entity">>), limit)]

=============================================================================
