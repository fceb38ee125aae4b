---------------------------- MODULE MarketRegime ----------------------------
(***************************************************************************)
(* The regime of the market (src/core/pipeline/market_regime.py): metrics  *)
(* of a market, evidence from the metrics, a score for each regime.        *)
(*                                                                         *)
(* Changes are tenths of a percent, weights are doubled; a piece of        *)
(* evidence is its metric, its side of the threshold and the sign of its   *)
(* value.                                                                  *)
(***************************************************************************)
EXTENDS Bands, FiniteSets, FiniteSetsExt

\* A market is [change : [funds -> Changes \cup {None}], group : [funds -> groups],
\* volume, value]: the quotes of all funds, with the sums of their volumes and
\* values.
Known(market) == {f \in DOMAIN market.change : market.change[f] # None}

Total(market, funds) == MapThenSumSet(LAMBDA f : market.change[f], funds)

Mean(market, funds) == [sum |-> Total(market, funds), n |-> Cardinality(funds)]

\* stdev >= 3 %, for the population of two and more that has one.
Dispersed(market) ==
  LET n == Cardinality(Known(market))
      squares == MapThenSumSet(LAMBDA f : market.change[f] * market.change[f], Known(market))
  IN  n > 1 /\ n * squares - Total(market, Known(market)) ^ 2 >= 900 * n * (n - 1)

Metrics(market) ==
  LET funds == Known(market)
      groups == {market.group[f] : f \in funds}
  IN  [avg |-> IF funds = {} THEN None ELSE Mean(market, funds),
       volume |-> market.volume, value |-> market.value,
       up |-> Cardinality({f \in funds : market.change[f] > 0}),
       down |-> Cardinality({f \in funds : market.change[f] < 0}),
       dispersed |-> Dispersed(market),
       groups |-> {Mean(market, {f \in funds : market.group[f] = g}) : g \in groups}]

\* What the last market_snapshot row still tells when the provider fails.
SnapshotMetrics(metrics) ==
  [metrics EXCEPT !.up = None, !.down = None, !.dispersed = FALSE, !.groups = {}]

-----------------------------------------------------------------------------
Piece(metric, side, weight, sign) ==
  [metric |-> metric, side |-> side, weight |-> weight, sign |-> sign]

Sign(x) == IF x > 0 THEN 1 ELSE IF x < 0 THEN -1 ELSE 0

AverageEvidence(avg) ==
  CASE avg = None -> {}
    [] avg # None /\ avg.sum >= 3 * avg.n -> {Piece("avg_change_pct", "above", 4, 1)}
    [] avg # None /\ avg.sum <= -3 * avg.n -> {Piece("avg_change_pct", "below", 4, -1)}
    [] OTHER -> {Piece("avg_change_pct", "within", 2, Sign(avg.sum))}

LevelEvidence(metric, x, low, high, weight) ==
  CASE x = None -> {}
    [] x # None /\ x >= high -> {Piece(metric, "above", weight, 1)}
    [] x # None /\ x <= low -> {Piece(metric, "below", weight, Sign(x))}
    [] OTHER -> {}

\* up / max(down, 1) against 1.5 and 0.67.
BreadthEvidence(m) ==
  LET down == IF m.down > 0 THEN m.down ELSE 1
  IN  CASE m.up = None -> {}
        [] m.up # None /\ 2 * m.up >= 3 * down ->
             {Piece("advance_decline_ratio", "above", 3, Sign(m.up))}
        [] m.up # None /\ 100 * m.up <= 67 * down ->
             {Piece("advance_decline_ratio", "below", 3, Sign(m.up))}
        [] OTHER -> {}

GroupEvidence(groups) ==
  (IF \E g \in groups : g.sum > 10 * g.n THEN {Piece("best_group_momentum", "above", 1, 1)} ELSE {})
    \cup (IF \E g \in groups : g.sum < -10 * g.n THEN {Piece("worst_group_momentum", "below", 1, -1)} ELSE {})

Evidence(m) ==
  AverageEvidence(m.avg)
    \cup LevelEvidence("total_volume", m.volume, 500, 1000, 3)
    \cup LevelEvidence("total_value", m.value, 1, 5, 2)
    \cup BreadthEvidence(m)
    \cup (IF m.dispersed THEN {Piece("return_dispersion", "above", 2, 1)} ELSE {})
    \cup GroupEvidence(m.groups)

Has(evidence, metric, side) == \E e \in evidence : e.metric = metric /\ e.side = side

Contradictions(evidence) ==
  (IF Has(evidence, "total_volume", "above") /\ Has(evidence, "avg_change_pct", "below")
   THEN {"volume_change"} ELSE {})
  \cup (IF Has(evidence, "advance_decline_ratio", "above") /\ Has(evidence, "return_dispersion", "above")
        THEN {"breadth_dispersion"} ELSE {})

-----------------------------------------------------------------------------
Regimes == {"RISK_ON", "RISK_OFF", "NEUTRAL", "TRANSITION", "UNKNOWN"}

OnMetrics == {"avg_change_pct", "total_volume", "total_value", "advance_decline_ratio",
              "best_group_momentum"}
OffMetrics == (OnMetrics \ {"best_group_momentum"}) \cup {"worst_group_momentum"}

Weigh(evidence) == MapThenSumSet(LAMBDA e : e.weight, evidence)

\* A slip: the sign of the value is not looked at.
Scores_AnySign(evidence) ==
  LET on == {e \in evidence : e.side = "above" /\ e.metric \in OnMetrics}
      off == {e \in evidence : e.side = "below" /\ e.metric \in OffMetrics}
      within == {e \in evidence : e.side = "within"}
      wide == {e \in evidence : e.metric = "return_dispersion"}
  IN  [RISK_ON |-> 2 * Weigh(on), RISK_OFF |-> 2 * Weigh(off), NEUTRAL |-> Weigh(within),
       TRANSITION |-> 2 * Weigh(within) + 2 * Weigh(wide)]

Scores(evidence) ==
  LET on == {e \in evidence : e.side = "above" /\ e.sign > 0 /\ e.metric \in OnMetrics}
      off == {e \in evidence : e.side = "below" /\ e.sign < 0 /\ e.metric \in OffMetrics}
      within == {e \in evidence : e.side = "within"}
      wide == {e \in evidence : e.metric = "return_dispersion"}
  IN  [RISK_ON |-> 2 * Weigh(on), RISK_OFF |-> 2 * Weigh(off), NEUTRAL |-> Weigh(within),
       TRANSITION |-> 2 * Weigh(within) + 2 * Weigh(wide)]

Regime(evidence) ==
  LET scores == Scores(evidence)
      top == {r \in DOMAIN scores : \A q \in DOMAIN scores : scores[r] >= scores[q]}
  IN  CASE evidence = {} -> "UNKNOWN"
        [] evidence # {} /\ Cardinality(top) = 1 -> CHOOSE r \in top : TRUE
        [] evidence # {} /\ Cardinality(top) > 1
             /\ ("TRANSITION" \in top \/ {"RISK_ON", "RISK_OFF"} \subseteq top) -> "TRANSITION"
        [] OTHER -> IF "RISK_ON" \in top THEN "RISK_ON" ELSE "RISK_OFF"

RegimeConfidence(evidence, regime) ==
  LET share == IF evidence = {} \/ regime = "UNKNOWN" THEN 0
               ELSE Floor(50 * Scores(evidence)[regime], Weigh(evidence))
      level == AtLeast(share, << <<60, 2>>, <<35, 1>> >>, 0)
  IN  IF Cardinality(Contradictions(evidence)) >= 2 /\ level > 0 THEN level - 1 ELSE level

Supports(e, regime) ==
  CASE regime = "RISK_ON" -> e.sign > 0 /\ e.side \in {"above", "within"}
                               /\ (e.side = "within" => e.metric = "avg_change_pct")
    [] regime = "RISK_OFF" -> e.sign < 0 /\ e.side \in {"below", "within"}
                               /\ (e.side = "within" => e.metric = "avg_change_pct")
    [] regime = "TRANSITION" -> e.side = "within"
                                  \/ (e.metric = "return_dispersion" /\ e.side = "above")
    [] regime = "NEUTRAL" -> e.side = "within"
    [] OTHER -> FALSE
=============================================================================
