----------------------------- MODULE CrossDomain -----------------------------
(* Cross-domain intelligence: one signal per domain from the forecasts,        *)
(* anomalies and risks of a dataset, a walk of the relationship graph that     *)
(* only follows corroborated edges, loops merged, and the result put in the    *)
(* dataset's terms. Code: services/intelligence, routers/v1/intelligence.py,   *)
(* and the insights of routers/v1/executive.py.                                *)
(* Strengths and scores are in ten-thousandths, as the code rounds them; risk  *)
(* scores and forecasts are whole numbers below a million, so that a change is *)
(* above the code's millionth part. Sentences are not modelled: a finding is   *)
(* the list of facts it is worded from.                                        *)
EXTENDS Values, Integers, Sequences, SequencesExt, FiniteSetsExt, TLC

CONSTANTS MaxHops, SignalThreshold

LOCAL AtMost(n, cap) == IF n > cap THEN cap ELSE n
LOCAL Magnitude(n) == IF n < 0 THEN 0 - n ELSE n

-----------------------------------------------------------------------------
(* inference_engine.load_graph: a malformed edge is passed over. *)
LoadGraph(raw) == SelectSeq(raw, LAMBDA e : e.source # None /\ e.target # None)

Weight(strength) ==
  CASE strength = "critical" -> 5 [] strength = "strong" -> 4 [] strength = "medium" -> 3
    [] strength = "weak" -> 2 [] OTHER -> 1

(* A metric's expected move over its horizon, when two of its values are known: *)
(* a change, as a share of a base.                                              *)
NoMove == [change |-> 0, base |-> 1]
MoveOf(series) ==
  LET vals == SelectSeq(series.values, LAMBDA v : v # None)
  IN  IF Len(vals) < 2 THEN NoMove
      ELSE [change |-> Last(vals) - vals[1],
            base |-> IF vals[1] = 0 THEN 1 ELSE Magnitude(vals[1])]
LOCAL Beats(m, n) == Magnitude(m.change) * n.base > Magnitude(n.change) * m.base

(* The worst metric of a domain: the first of the largest moves. *)
WorstMove(forecasts, d) ==
  FoldLeft(LAMBDA worst, s :
    IF s.domain = d /\ Beats(MoveOf(s), worst.move)
    THEN [move |-> MoveOf(s), metric |-> s.metric] ELSE worst,
    [move |-> NoMove, metric |-> None], forecasts)

(* build_signals: which domains have a signal, and the blend of risk, move,     *)
(* number of anomalies and of high ones.                                        *)
SignalDomains(in) ==
  {in.anomalies[i].domain : i \in DOMAIN in.anomalies}
  \cup {in.risks[i].domain : i \in DOMAIN in.risks}
  \cup {in.forecasts[i].domain : i \in {j \in DOMAIN in.forecasts :
          Len(SelectSeq(in.forecasts[j].values, LAMBDA v : v # None)) >= 2}}

BuildSignals(in) ==
  [d \in SignalDomains(in) |->
     LET worst == WorstMove(in.forecasts, d)
         anomalies == SelectSeq(in.anomalies, LAMBDA a : a.domain = d)
         high == SelectSeq(anomalies, LAMBDA a : a.severity = "high")
         risk == Max({0} \cup {in.risks[i].score : i \in {j \in DOMAIN in.risks :
                                in.risks[j].domain = d /\ in.risks[j].score # None}})
         share == AtMost(3000 * Magnitude(worst.move.change), 3000 * worst.move.base)
     IN  [strength |-> AtMost(40 * risk + RoundTo(share, worst.move.base) \div worst.move.base
                              + 20 * AtMost(20 * Len(anomalies), 100)
                              + 10 * AtMost(50 * Len(high), 100), 10000),
          direction |-> IF worst.move.change < 0 THEN "down"
                        ELSE IF worst.move.change > 0 THEN "up" ELSE "flat",
          metric |-> IF worst.metric # None \/ anomalies = <<>> THEN worst.metric
                     ELSE anomalies[1].metric]]

Lit(signals, active) == {d \in DOMAIN signals \cap active : signals[d].strength >= SignalThreshold}

(* One hop of the breadth-first walk: the corroborated targets not yet visited, *)
(* in the order of the queue and of the edges.                                  *)
Hop(edges, lit, signals, walk, hop) ==
  FoldLeft(LAMBDA acc, node :
    FoldLeft(LAMBDA w, e :
      IF e.source # node \/ e.target \in w.visited \/ e.target \notin lit THEN w
      ELSE [visited |-> w.visited \cup {e.target},
            frontier |-> Append(w.frontier, e.target),
            impacts |-> Append(w.impacts,
              [target |-> e.target, label |-> e.label, strength |-> e.strength,
               weight |-> Weight(e.strength), hop |-> hop, signal |-> signals[e.target].strength])],
      acc, edges),
    [walk EXCEPT !.frontier = <<>>], walk.frontier)

Walk(edges, lit, signals, root) ==
  FoldLeft(LAMBDA walk, hop : Hop(edges, lit, signals, walk, hop),
           [visited |-> {root}, frontier |-> <<root>>, impacts |-> <<>>],
           [hop \in 1..MaxHops |-> hop]).impacts

(* list.sort(reverse=True) keeps the order of equals. *)
RankImpacts(impacts) ==
  LET Key(i) == 10 * impacts[i].weight * impacts[i].signal + impacts[i].weight
      Before(i, j) == Key(i) > Key(j) \/ (Key(i) = Key(j) /\ i < j)
      order == SetToSortSeq(DOMAIN impacts, Before)
  IN  [k \in DOMAIN order |-> impacts[order[k]]]

RankInsights(insights) ==
  LET Before(i, j) == \/ insights[i].score > insights[j].score
                      \/ insights[i].score = insights[j].score /\ i < j
      order == SetToSortSeq(DOMAIN insights, Before)
  IN  [k \in DOMAIN order |-> insights[order[k]]]

InsightFrom(edges, lit, signals, root) ==
  LET impacts == RankImpacts(Walk(edges, lit, signals, root))
  IN  [root |-> root, direction |-> signals[root].direction, metric |-> signals[root].metric,
       impacts |-> impacts, partner |-> None, forward |-> None, reverse |-> None,
       score |-> FoldLeft(LAMBDA sum, p : sum + p.weight * p.signal,
                          5 * signals[root].strength, impacts)]

DirectImpacts(ins, target) == {k \in DOMAIN ins.impacts :
                                 ins.impacts[k].target = target /\ ins.impacts[k].hop = 1}
LabelTo(ins, target) == ins.impacts[CHOOSE k \in DirectImpacts(ins, target) : TRUE].label

(* Mutant: a merged pair is not marked, and merges again from its other side. *)
MergeAgain(insights) ==
  LET At(root) == insights[CHOOSE i \in DOMAIN insights : insights[i].root = root]
      Partners(ins) == {q \in {insights[i].root : i \in DOMAIN insights} :
                          DirectImpacts(ins, q) # {} /\ DirectImpacts(At(q), ins.root) # {}}
  IN  [i \in DOMAIN insights |->
         IF Partners(insights[i]) = {} THEN insights[i]
         ELSE [insights[i] EXCEPT !.partner = CHOOSE q \in Partners(insights[i]) : TRUE]]

(* _merge_feedback_loops: in the order of the insights, each is merged with the *)
(* first of its direct impacts that points back and is not yet merged; the      *)
(* higher score leads, and brings its own impacts.                              *)
MergeFeedbackLoops(insights) ==
  LET At(root) == insights[CHOOSE i \in DOMAIN insights : insights[i].root = root]
      roots == {insights[i].root : i \in DOMAIN insights}
      Backs(ins, merged) == SelectSeq(ins.impacts, LAMBDA p :
        p.hop = 1 /\ p.target \in roots \ merged /\ DirectImpacts(At(p.target), ins.root) # {})
      Loop(a, b) == [a EXCEPT !.partner = b.root, !.forward = LabelTo(a, b.root),
                              !.reverse = LabelTo(b, a.root)]
      Visit(acc, ins) ==
        LET backs == Backs(ins, acc.merged)
        IN  IF ins.root \in acc.merged THEN acc
            ELSE IF backs = <<>> THEN [acc EXCEPT !.out = Append(@, ins)]
            ELSE LET other == At(backs[1].target)
                 IN  [merged |-> acc.merged \cup {ins.root, other.root},
                      out |-> Append(acc.out, IF ins.score >= other.score
                                              THEN Loop(ins, other) ELSE Loop(other, ins))]
  IN  FoldLeft(Visit, [merged |-> {}, out |-> <<>>], insights).out

(* infer: "order" is that of a set of strings, which no two processes share. *)
Infer(edges, signals, active, order) ==
  LET lit == Lit(signals, active)
      roots == SelectSeq(order, LAMBDA d : d \in lit)
      all == [i \in DOMAIN roots |-> InsightFrom(edges, lit, signals, roots[i])]
  IN  RankInsights(MergeFeedbackLoops(SelectSeq(all, LAMBDA ins : ins.impacts # <<>>)))

RunInference(in, active) == Infer(LoadGraph(in.edges), BuildSignals(in), active, in.order)

-----------------------------------------------------------------------------
(* translator.build_term_map: the label of the saved mapping, else the first    *)
(* metric of the domain, else the domain's own noun.                            *)
Term(in, d) ==
  LET own == SelectSeq(in.metrics, LAMBDA m : m.domain = d)
  IN  IF d \in DOMAIN in.mapping THEN in.mapping[d] ELSE IF own # <<>> THEN own[1].metric ELSE d

(* translate_insight: strong effects are told before the others, a loop as a    *)
(* loop; the advice depends on the strongest effect.                            *)
TranslateInsight(in, ins) ==
  LET strong == SelectSeq(ins.impacts, LAMBDA p : p.strength \in {"critical", "strong"})
      lesser == SelectSeq(ins.impacts, LAMBDA p : p.strength \notin {"critical", "strong"})
      told == IF ins.partner # None THEN <<ins.partner>>
              ELSE [k \in DOMAIN (strong \o lesser) |-> (strong \o lesser)[k].target]
  IN  [root |-> ins.root, term |-> Term(in, ins.root), direction |-> ins.direction,
       score |-> ins.score, partner |-> ins.partner,
       narrative |-> [k \in DOMAIN told |-> Term(in, told[k])],
       advice |-> IF ins.partner # None THEN "break the loop"
                  ELSE IF strong # <<>> THEN "prioritize" ELSE "monitor",
       impacted |-> [k \in DOMAIN ins.impacts |->
          [domain |-> ins.impacts[k].target, term |-> Term(in, ins.impacts[k].target),
           label |-> ins.impacts[k].label]]]

(* _apply_polish: the reply's items go by their ids, the last of an id counts;  *)
(* an item without an id is passed over, an unusable reply or id leaves the     *)
(* templates. Only the two texts are replaced.                                  *)
ApplyPolish(translated, reply) ==
  IF reply = None \/ \E k \in DOMAIN reply : reply[k].id = "text" THEN translated
  ELSE LET of(i) == SelectSeq(reply, LAMBDA it : it.id = ToString(i - 1))
       IN  [i \in DOMAIN translated |->
              IF of(i) = <<>> \/ Last(of(i)).narrative = None THEN translated[i]
              ELSE [translated[i] EXCEPT !.narrative = Last(of(i)).narrative]]

(* cross_domain_intelligence: every domain with any signal is active. *)
ActiveDomains(in) ==
  UNION {{s[i].domain : i \in DOMAIN s} : s \in {in.forecasts, in.anomalies, in.risks}}
(* InsightOut: what the page gets of a translation. That it is a loop, and with *)
(* whom, is only in the texts.                                                  *)
InsightOut(t) ==
  [root |-> t.root, term |-> t.term, direction |-> t.direction, score |-> t.score,
   narrative |-> t.narrative, advice |-> t.advice, impacted |-> t.impacted]

Intelligence(in) ==
  LET raw == RunInference(in, ActiveDomains(in))
      translated == ApplyPolish([k \in DOMAIN raw |-> TranslateInsight(in, raw[k])], in.polish)
  IN  [k \in DOMAIN translated |-> InsightOut(translated[k])]

(* executive._insight_entries: the same engine, over the domains with a risk    *)
(* score, and its three strongest insights. They are read as translations, and  *)
(* are none: the engine's insights have no term, no direction under that key    *)
(* and no narrative, which are left empty.                                      *)
ExecutiveInsights(in) ==
  LET raw == RunInference(in, {in.risks[i].domain : i \in DOMAIN in.risks})
  IN  [k \in 1 .. AtMost(Len(raw), 3) |->
         [root |-> raw[k].root, term |-> raw[k].root, direction |-> "", narrative |-> <<>>,
          score |-> raw[k].score]]

-----------------------------------------------------------------------------
(* Domains two corroborated steps away at most, the reference of the walk. *)
Within(edges, lit, root) ==
  LET To(S) == {edges[i].target : i \in {j \in DOMAIN edges : edges[j].source \in S}} \cap lit
      steps[n \in 0..MaxHops] == IF n = 0 THEN {root} ELSE steps[n - 1] \cup To(steps[n - 1])
  IN  steps[MaxHops] \ {root}

LOCAL Evidenced(out, edges, lit) ==
  LET Told(d) == {k \in DOMAIN out : out[k].root = d \/ out[k].partner = d}
      Edge(a, b) == \E i \in DOMAIN edges : edges[i].source = a /\ edges[i].target = b
  IN  /\ \A d \in lit : Cardinality(Told(d)) = IF Within(edges, lit, d) = {} THEN 0 ELSE 1
      /\ \A k \in DOMAIN out :
           /\ out[k].root \in lit
           /\ {out[k].impacts[j].target : j \in DOMAIN out[k].impacts}
                = Within(edges, lit, out[k].root)
           /\ out[k].partner # None =>
                Edge(out[k].root, out[k].partner) /\ Edge(out[k].partner, out[k].root)
      /\ \A k \in DOMAIN out : k > 1 => out[k - 1].score >= out[k].score

(* What an insight claims is in the evidence, and no evidence is lost: each lit *)
(* domain with a lit effect is told once, as a root or as the partner of a      *)
(* loop whose two directions are edges; a root's impacts are what is within the *)
(* hops, strongest first; and this whatever order the set of domains has.       *)
TellsTheEvidence(in) ==
  Evidenced(RunInference(in, ActiveDomains(in)), LoadGraph(in.edges),
            Lit(BuildSignals(in), ActiveDomains(in)))

LOCAL SameFacts(raw, out) ==
  /\ Len(out) = Len(raw)
  /\ \A k \in DOMAIN out :
       /\ out[k].root = raw[k].root /\ out[k].score = raw[k].score
       /\ out[k].direction = raw[k].direction
       /\ [j \in DOMAIN raw[k].impacts |-> raw[k].impacts[j].target]
            = [j \in DOMAIN out[k].impacted |-> out[k].impacted[j].domain]

(* The wording model may reword a finding and nothing else: whatever it         *)
(* replies, the findings stay the engine's, in its order, with their scores and *)
(* impacts (translator._apply_polish).                                          *)
PolishKeepsFacts(in) == SameFacts(RunInference(in, ActiveDomains(in)), Intelligence(in))

(* The executive page, whose engine sees the domains with a risk score only,    *)
(* shows nothing the intelligence page has no evidence for: each root has a     *)
(* signal and a corroborated effect there, and is told by one of its findings;  *)
(* no root is shown twice, and the strongest first                              *)
(* (executive._insight_entries).                                                *)
ExecutiveTellsTheEvidence(in) ==
  LET Supported(out, raw, lit) ==
        \A k \in DOMAIN out :
          /\ out[k].root \in lit /\ Within(LoadGraph(in.edges), lit, out[k].root) # {}
          /\ \E i \in DOMAIN raw : out[k].root \in {raw[i].root, raw[i].partner}
          /\ \A j \in 1 .. k - 1 : out[j].root # out[k].root /\ out[j].score >= out[k].score
  IN  Supported(ExecutiveInsights(in), RunInference(in, ActiveDomains(in)),
                Lit(BuildSignals(in), ActiveDomains(in)))
=============================================================================
