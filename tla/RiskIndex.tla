------------------------------ MODULE RiskIndex ------------------------------
(* The executive summary: entities' risk scores blended into domains' scores,  *)
(* and those into one index, with the domain cards, the top risks and the      *)
(* headline forecasts. Code: services/ml/risk_index.py, routers/v1/executive.  *)
(* Scores are in thousandths, divisions rounded down.                          *)
EXTENDS Values, Integers, Sequences, SequencesExt, FiniteSetsExt, TLC

CONSTANT DomainOrder

LOCAL Scores(in, d) == SelectSeq(in.risks, LAMBDA r : r.domain = d /\ r.score # None)
LOCAL Total(s) == FoldLeft(LAMBDA a, b : a + b, 0, s)
LOCAL Peak(s) == Max({s[i] : i \in DOMAIN s})
LOCAL Mean(s) == Total(s) \div Len(s)

(* executive._blend: seven tenths of the mean, three tenths of the maximum. *)
Blend(s) == (7 * Mean(s) + 3 * Peak(s)) \div 10

(* band_for, and executive._band on a domain's score. *)
Band(thousandths) ==
  IF thousandths >= 67000 THEN "high" ELSE IF thousandths >= 34000 THEN "elevated" ELSE "low"

(* risk_index.compute over a function from domains to scores: the band is that  *)
(* of the rounded value. The peak's domain is looked for among all of them: a   *)
(* missing score beside a known one raises.                                     *)
Compute(score) ==
  LET known == SetToSeq({d \in DOMAIN score : score[d] # None})
      s == [i \in DOMAIN known |-> score[known[i]]]
      raw == IF s = <<>> THEN 0 ELSE Blend(s)
      capped == IF raw > 100000 THEN 100000 ELSE raw
  IN  IF s = <<>> THEN [value |-> 0, band |-> "low", count |-> 0, peak |-> {}]
      ELSE IF Len(s) # Cardinality(DOMAIN score) THEN [value |-> Fails]
      ELSE [value |-> RoundTo(capped, 1000), band |-> Band(RoundTo(capped, 1000)),
            count |-> Len(s), peak |-> {d \in DOMAIN score : score[d] = Peak(s)}]

DomainScores(in) ==
  [d \in {in.risks[i].domain : i \in {j \in DOMAIN in.risks : in.risks[j].score # None}} |->
     Blend([i \in DOMAIN Scores(in, d) |-> Scores(in, d)[i].score])]

(* The domains a dataset has: with a risk score, an alert or a feature. *)
ActiveIn(in) ==
  DOMAIN DomainScores(in) \cup {in.alerts[i].domain : i \in DOMAIN in.alerts}
  \cup {in.features[i].domain : i \in DOMAIN in.features}

(* A domain's card shows its score to a tenth, and the band of the score before *)
(* that rounding.                                                               *)
DomainHealth(in) ==
  [i \in DOMAIN DomainOrder |->
     LET d == DomainOrder[i]
     IN  [domain |-> d, active |-> d \in ActiveIn(in),
          alerts |-> Len(SelectSeq(in.alerts, LAMBDA a : a.domain = d)),
          score |-> IF d \in DOMAIN DomainScores(in) THEN RoundTo(DomainScores(in)[d], 100) ELSE None,
          band |-> IF d \in DOMAIN DomainScores(in) THEN Band(DomainScores(in)[d]) ELSE "absent"]]

(* _risk_rows puts the highest first and the unknown last; _top_risks takes     *)
(* five, each with the first slope of its own domain and entity.                *)
RiskRows(in) ==
  LET Key(i) == IF in.risks[i].score = None THEN -1 ELSE in.risks[i].score
      order == SetToSortSeq(DOMAIN in.risks, LAMBDA i, j : Key(i) > Key(j) \/ (Key(i) = Key(j) /\ i < j))
  IN  [k \in DOMAIN order |-> in.risks[order[k]]]

TopRisks(in) ==
  LET rows == RiskRows(in)
      top == SubSeq(rows, 1, IF Len(rows) > 5 THEN 5 ELSE Len(rows))
      Slopes(r) == SelectSeq(in.features, LAMBDA f : f.domain = r.domain /\ f.entity = r.entity)
  IN  [k \in DOMAIN top |->
         top[k] @@ [slope |-> IF Slopes(top[k]) = <<>> THEN None ELSE Slopes(top[k])[1].slope]]

(* _forecast_entries: from the last day known to the last day forecast, as a    *)
(* share of the former; no share of nothing or of zero.                         *)
ForecastEntry(f) ==
  LET values == SelectSeq(f.values, LAMBDA v : v # None)
      last == IF f.history # <<>> THEN Last(f.history)
              ELSE IF values # <<>> THEN values[1] ELSE None
      next == IF values # <<>> THEN Last(values) ELSE None
      size == IF last < 0 THEN 0 - last ELSE last
  IN  [last |-> last, next |-> next,
       percent |-> IF last = None \/ next = None THEN None
                   ELSE IF last = 0 THEN None ELSE (100 * (next - last)) \div size]

ExecutiveSummary(in) ==
  [index |-> Compute(DomainScores(in)), health |-> DomainHealth(in), top |-> TopRisks(in),
   atRisk |-> Len(SelectSeq(in.risks, LAMBDA r : r.level \in {"high", "medium"})),
   forecasts |-> [k \in DOMAIN in.forecasts |-> ForecastEntry(in.forecasts[k])]]

-----------------------------------------------------------------------------
LOCAL Rank(band) == CHOOSE n \in 0..2 : <<"low", "elevated", "high">>[n + 1] = band
LOCAL Follows(index, score, s) ==
  s # <<>> =>
    /\ index.value + 500 >= Mean(s) /\ index.value <= Peak(s) + 500
    /\ index.peak # {} /\ \A d \in index.peak : score[d] = Peak(s)
    /\ Rank(Band(Mean(s) - 500)) <= Rank(index.band) /\ Rank(index.band) <= Rank(Band(Peak(s) + 500))

(* The card of a dataset's only domain, beside the index. *)
LOCAL CardAgrees(index, card, score) ==
  /\ index.value \in score - 500 .. score + 500 /\ card.score \in score - 50 .. score + 50
  /\ Rank(card.band) <= Rank(index.band)
  /\ card.band # index.band => \E limit \in {34000, 67000} : score \in limit - 500 .. limit - 1

(* The headline index follows the scores it is made of: its value and its band  *)
(* lie between those of the mean and of the peak of the domains, to half a      *)
(* point; it names a domain with the peak, does not depend on the order of the  *)
(* rows, and never falls when an entity's risk rises. Where there is one domain *)
(* its card says the same, but for the rounding: the index has its band from    *)
(* the rounded value and the card from the score before it, so that less than   *)
(* half a point below a limit the index is a band above the card                *)
(* (risk_index.compute, executive.executive_summary).                           *)
IndexFollowsScores(in) ==
  LET Index(rows) == Compute(DomainScores([in EXCEPT !.risks = rows]))
      Risen(k) == [in.risks EXCEPT ![k].score = @ + 7000]
      InOrder(score) == [i \in DOMAIN SetToSeq(DOMAIN score) |-> score[SetToSeq(DOMAIN score)[i]]]
      Stands(index, score, health) ==
        /\ Follows(index, score, InOrder(score))
        /\ Index(Reverse(in.risks)) = index
        /\ \A k \in DOMAIN in.risks : in.risks[k].score # None => Index(Risen(k)).value >= index.value
        /\ \A d \in DOMAIN score : \E i \in DOMAIN health :
             /\ health[i].domain = d /\ health[i].active
             /\ DOMAIN score = {d} => CardAgrees(index, health[i], score[d])
  IN  Stands(Index(in.risks), DomainScores(in), ExecutiveSummary(in).health)

LOCAL Lists(out, in) ==
  LET Outranks(r, t) == r.score # None /\ (t.score = None \/ r.score > t.score)
      listed(r) == \E k \in DOMAIN out.top : out.top[k].entity = r.entity /\ out.top[k].domain = r.domain
  IN  /\ \A k \in DOMAIN in.risks : ~listed(in.risks[k]) =>
           \A j \in DOMAIN out.top : ~Outranks(in.risks[k], out.top[j])
      /\ \A k \in DOMAIN out.top : out.top[k].slope # None =>
           \E j \in DOMAIN in.features :
             /\ in.features[j].domain = out.top[k].domain /\ in.features[j].entity = out.top[k].entity
             /\ in.features[j].slope = out.top[k].slope
      /\ \A k \in DOMAIN out.forecasts : out.forecasts[k].percent # None =>
           LET f == out.forecasts[k]
           IN  (f.percent > 0 => f.next > f.last) /\ (f.percent < 0 => f.next < f.last)

(* The lists beside the index agree with the rows they come from: no risk left   *)
(* out outranks a listed one, a slope is of the entity it is shown for, and a    *)
(* percentage has the sign of the change it describes.                           *)
ListsAgreeWithRows(in) == Lists(ExecutiveSummary(in), in)
=============================================================================
