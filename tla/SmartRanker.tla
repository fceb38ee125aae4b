---------------------------- MODULE SmartRanker ----------------------------
(***************************************************************************)
(* The ranking of the funds of a run: indicators of each fund's history    *)
(* (src/core/indicators/engine.py), eight components of a fund, their      *)
(* percentiles among the funds and the weighted mean of these              *)
(* (src/core/ranking/smart_ranker.py).                                     *)
(*                                                                         *)
(* The windows of 1, 5, 14, 20, 50, 60, 90 and 200 days are constants.     *)
(* Returns are percents, rounded down.  Volatility, Sharpe ratio and MACD  *)
(* histogram are given with a history, not computed from it.               *)
(***************************************************************************)
EXTENDS Scoring, SequencesExt

CONSTANTS Days5, Days14, Days20, Days50, Days60, Days90, Days200,
          Fallback        \* 5: with fewer closes the trend is the day's change

ASSUME DaysAssumption ==
  {Days5, Days14, Days20, Days50, Days60, Days90, Days200} \subseteq Nat \ {0}

\* What the ranking is given of each fund: its quote (see Scoring), its history, kept
\* with the two figures that are not computed here, and whether it is leveraged.
QuoteTypes ==
  [value : 0..100, volume : 0..100, depth : 0..100, relative : Maybe(Int), bid : Nat, ask : Nat,
   bestBid : Maybe(Nat), bestAsk : Maybe(Nat),
   flow : [buyReal : Nat, buyLegal : Nat, sellReal : Nat, sellLegal : Nat],
   last : Maybe(Int), close : Maybe(Int), premium : Maybe(Int)]

HistoryTypes ==
  [rows : Seq([close : Maybe(Nat), last : Maybe(Nat)]), volatility : Maybe(Int),
   sharpe : Maybe(Int), hist : Maybe({"up", "down"})]

MemberTypes == [quote : QuoteTypes, history : HistoryTypes, leveraged : BOOLEAN]

\* So many funds a score of hundredths tells apart: the percentiles of 770 differ
\* by 13 hundredths or more, and 13 times the least weight, 80, is more than the
\* 1000 of a hundredth of the score.  The market has 450 funds, by
\* data/sync/live/funds_latest.json.
MostFunds == 770

\* The closing price of a row, or its last price, of the rows that have one.
Closes(rows) ==
  Without([i \in DOMAIN rows |-> IF rows[i].close # None THEN rows[i].close ELSE rows[i].last], {None})

Ret(closes, days) ==
  IF Len(closes) <= days THEN None
  ELSE LET old == closes[Len(closes) - days]
       IN  IF old = 0 THEN None ELSE Floor(100 * (Last(closes) - old), old)

SumTo(s, n) == SumOf(SubSeq(s, 1, n))

\* The exponential mean, started at the mean of the first days, as <<sum, of>>.
EmaSeeded(closes, days) ==
  FoldLeft(LAMBDA e, x : <<2 * x * e[2] + (days - 1) * e[1], e[2] * (days + 1)>>,
           <<SumTo(closes, days), days>>, SubSeq(closes, days + 1, Len(closes)))

AboveEma(closes, days) ==
  /\ Len(closes) >= days
  /\ LET e == EmaSeeded(closes, days) IN Last(closes) * e[2] > e[1]

\* ema20 >= ema50, None when there is no ema50.
EmaCross(closes) ==
  IF Len(closes) < Days50 THEN None
  ELSE LET fast == EmaSeeded(closes, Days20)
           slow == EmaSeeded(closes, Days50)
       IN  IF slow[1] = 0 \/ fast[1] = 0 THEN None ELSE fast[1] * slow[2] >= slow[1] * fast[2]

\* Wilder's mean: the mean of the first days, then (mean * 13 + x) / 14; the
\* sums of gains and losses stand over the same power of 14.
Wilder(changes) ==
  FoldLeft(LAMBDA m, x : <<(Days14 - 1) * m[1] + x * m[2], m[2] * Days14>>,
           <<SumTo(changes, Days14), Days14>>, SubSeq(changes, Days14 + 1, Len(changes)))[1]

Rsi(closes) ==
  LET Positive(x) == IF x > 0 THEN x ELSE 0
      gain == Wilder([i \in 1..Len(closes) - 1 |-> Positive(closes[i + 1] - closes[i])])
      loss == Wilder([i \in 1..Len(closes) - 1 |-> Positive(closes[i] - closes[i + 1])])
  IN  IF Len(closes) <= Days14 THEN None
      ELSE IF loss = 0 THEN 100 ELSE Floor(100 * gain, gain + loss)

\* The deepest fall below the running peak, in percent, at most zero.
MaxDrawdown(closes) ==
  LET window == SubSeq(closes, IF Len(closes) > Days90 THEN Len(closes) - Days90 + 1 ELSE 1, Len(closes))
      Step(d, c) == LET peak == IF c > d.peak THEN c ELSE d.peak
                        fall == IF peak > 0 THEN Floor(100 * (c - peak), peak) ELSE 0
                    IN  [peak |-> peak, worst |-> IF fall < d.worst THEN fall ELSE d.worst]
  IN  IF Len(window) < 2 THEN None
      ELSE FoldLeft(Step, [peak |-> Head(window), worst |-> 0], window).worst

\* history is [rows, volatility, sharpe, hist].
Snapshot(history) ==
  LET closes == Closes(history.rows)
  IN  [bars |-> Len(closes), ret1 |-> Ret(closes, 1), ret5 |-> Ret(closes, Days5),
       ret20 |-> Ret(closes, Days20), ret60 |-> Ret(closes, Days60), rsi |-> Rsi(closes),
       volatility |-> history.volatility, sharpe |-> history.sharpe, hist |-> history.hist,
       drawdown |-> MaxDrawdown(closes), cross |-> EmaCross(closes),
       above20 |-> AboveEma(closes, Days20), above50 |-> AboveEma(closes, Days50),
       above200 |-> AboveEma(closes, Days200)]

-----------------------------------------------------------------------------
Within(x, low, high) == IF x < low THEN low ELSE IF x > high THEN high ELSE x

\* What x adds, if it is known.
Weighed(x, unit) == IF x = None THEN 0 ELSE x * unit
Add(x, unit, low, high) == IF x = None THEN 0 ELSE Within(x * unit, low, high)
Gain(condition, points) == IF condition THEN points ELSE 0

TrendComponent(ind, change) ==
  IF ind.bars < Fallback /\ change # None THEN Clamp(5000 + Within(80 * change, -3000, 3000))
  ELSE Clamp(5000 + Add(ind.ret20, 200, -2500, 2500) + Add(ind.ret60, 60, -1500, 1500)
               + Gain(ind.above50, 800) + Gain(ind.above20, 500) + Gain(ind.above200, 500))

\* Without a return the change of the day, and that without bounds.
HistMomentum(ind, change) ==
  IF {ind.ret1, ind.ret5, ind.ret20} = {None}
  THEN 5000 + (IF change = None THEN 0 ELSE 50 * change)
  ELSE Clamp(5000 + Weighed(ind.ret1, 150) + Weighed(ind.ret5, 90) + Weighed(ind.ret20, 60))

RiskComponent(ind, leveraged) ==
  Clamp(6000 - (IF ind.volatility = None THEN 0 ELSE Within(120 * (ind.volatility - 15), -2000, 4000))
          + Add(ind.drawdown, 100, -3000, 1000) + Add(ind.sharpe, 800, -1000, 2000)
          - Gain(leveraged, 800))

TechnicalComponent(ind) ==
  LET rsi == CASE ind.rsi = None -> 0
               [] ind.rsi # None /\ ind.rsi >= 45 /\ ind.rsi <= 65 -> 1500
               [] ind.rsi # None /\ ind.rsi < 30 -> 500
               [] ind.rsi # None /\ ind.rsi > 75 -> -1000
               [] OTHER -> 30 * (ind.rsi - 50)
      Side(x, up) == IF x = None THEN 0 ELSE IF up THEN 800 ELSE -800
  IN  Clamp(5000 + rsi + Side(ind.hist, ind.hist = "up") + Side(ind.cross, ind.cross = TRUE))

\* a is [assessed : a result of Assess, ind : a snapshot, leveraged].
Components(a) ==
  LET f == a.assessed.factors
  IN  [trend |-> TrendComponent(a.ind, a.assessed.change),
       momentum_hist |-> HistMomentum(a.ind, a.assessed.change),
       liquidity |-> f.liquidity, money_flow |-> f.money_flow,
       risk |-> RiskComponent(a.ind, a.leveraged), technical |-> TechnicalComponent(a.ind),
       volume |-> f.volume_value, nav |-> f.nav_premium]

SmartWeights == [trend |-> 220, momentum_hist |-> 140, liquidity |-> 140, money_flow |-> 120,
                 risk |-> 120, technical |-> 100, volume |-> 80, nav |-> 80]

-----------------------------------------------------------------------------
\* A slip: equal values keep the ranks the sort gives them.
Percentile_TiesInOrder(values, i) ==
  LET less == {j \in DOMAIN values : values[j] < values[i] \/ (values[j] = values[i] /\ j < i)}
  IN  IF Len(values) = 1 THEN 5000 ELSE (10000 * Cardinality(less)) \div (Len(values) - 1)

\* The mean rank of the ties, from 0 to 100 %.  values is a sequence.
Percentile(values, i) ==
  LET less == {j \in DOMAIN values : values[j] < values[i]}
      same == {j \in DOMAIN values : values[j] = values[i]}
  IN  IF Len(values) = 1 THEN 5000
      ELSE (5000 * (2 * Cardinality(less) + Cardinality(same) - 1)) \div (Len(values) - 1)

\* components: a sequence of what Components gives, one for each fund.
SmartScore(components, i) ==
  LET Share(k) == SmartWeights[k] * Percentile([j \in DOMAIN components |-> components[j][k]], i)
  IN  MapThenSumSet(Share, DOMAIN SmartWeights) \div 1000

SmartRecommend(score, ind) ==
  LET ret == IF ind.ret20 = None THEN 0 ELSE ind.ret20
      up == ret > 2 /\ ind.above50
      down == ret < -2 /\ ~ind.above50
  IN  CASE score >= 8000 /\ up -> "strong_buy"
        [] score >= 7000 /\ ~down /\ ~(score >= 8000 /\ up) -> "buy"
        [] score < 4000 /\ (down \/ score < 3000) -> "sell"
        [] score < 5500 /\ ~(score < 4000 /\ (down \/ score < 3000)) -> "reduce"
        [] OTHER -> "hold"

\* The places 1.. of the funds: by score, falling, and equal scores in the
\* order of the input.
Places(components) ==
  LET score == [i \in DOMAIN components |-> SmartScore(components, i)]
      Before(j, i) == score[j] > score[i] \/ (score[j] = score[i] /\ j < i)
  IN  [i \in DOMAIN components |-> 1 + Cardinality({j \in DOMAIN components : Before(j, i)})]

\* The n best and the n worst: one fund is in both when there are few.
Top(places, n) == {i \in DOMAIN places : places[i] <= n}
Worst(places, n) == {i \in DOMAIN places : places[i] > Len(places) - n}
=============================================================================
