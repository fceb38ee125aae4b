-------------------------- MODULE PortfolioReport --------------------------
(***************************************************************************)
(* The report on a user's portfolio (src/services/analysis): the deep dive *)
(* of each fund, what the funds are together, and the suggestions.         *)
(*                                                                         *)
(* An item is [quantity, cost, price, fund]: the price is that of the one  *)
(* quote the report asks for, or None.  A fund is [valid, named, isin,     *)
(* quote, nav, closes, figures]: whether fund_universe has it, whether the *)
(* funds table finds it by its symbol or by its ISIN, the price of the     *)
(* second quote the deep dive asks for, the NAV, the closing prices of the *)
(* history, newest first, and the newest row of fund_indicators.  A mean   *)
(* is a fraction <<sum, of>>; None is the mean of nothing, which the code  *)
(* has as 0.0 beside an empty list.                                        *)
(***************************************************************************)
EXTENDS Bands

CONSTANTS Windows,      \* the days of the returns shown: 1, 5, 20, .. 365
          Charts,       \* the days of the charts: 30, 90, 365
          Shared,       \* 20: the days of history the co-movement asks for
          Longest       \* 60: the daily returns it looks at

FundTypes ==
  [valid : BOOLEAN, named : BOOLEAN, isin : BOOLEAN, quote : Maybe(Nat),
   nav : Maybe([redeem : Maybe(Int), issue : Maybe(Int)]), closes : Seq(Nat),
   figures : Maybe([momentum : Maybe(Int), volatility : Maybe(Int), drawdown : Maybe(Int)])]

\* The wizard of the bot is the only writer of quantities and costs, and takes
\* none that is not above zero; a holding may lack its cost.
ItemTypes == [quantity : Nat \ {0}, cost : Maybe(Nat \ {0}), price : Maybe(Nat), fund : FundTypes]

\* The redemption NAV, else the issue NAV; one that is zero counts as none.
Reference(nav) ==
  IF nav = None THEN None
  ELSE IF nav.redeem \notin {None, 0} THEN nav.redeem ELSE nav.issue

Bubble(price, nav) ==
  IF price \in {None, 0} \/ Reference(nav) = None \/ Reference(nav) <= 0 THEN None
  ELSE <<100 * (price - Reference(nav)), Reference(nav)>>

HasId(fund) == fund.named \/ (fund.valid /\ fund.isin)

\* A return divides by the price of its first day, a chart by its oldest price
\* unless all its prices are one.
RaisesInHistory(fund) ==
  LET closes == fund.closes
      Shown(days) == SubSeq(closes, 1, IF days < Len(closes) THEN days ELSE Len(closes))
  IN  /\ HasId(fund) /\ Len(closes) >= 2
      /\ \/ \E days \in Windows : days < Len(closes) /\ closes[days + 1] = 0
         \/ \E days \in Charts : Last(Shown(days)) = 0 /\ Cardinality(Range(Shown(days))) > 1

NoFigures == [momentum |-> None, volatility |-> None, drawdown |-> None]

\* The part of a deep dive the report on the portfolio reads.
DeepDive(fund) ==
  IF ~fund.valid THEN [bubble |-> None, figures |-> NoFigures]
  ELSE [bubble |-> Bubble(fund.quote, fund.nav),
        figures |-> IF HasId(fund) /\ fund.figures # None THEN fund.figures ELSE NoFigures]

-----------------------------------------------------------------------------
\* An item without a price is no holding.
Held(items) == Without(items, {item \in Range(items) : item.price \in {None, 0}})

Values(held) == [i \in DOMAIN held |-> held[i].quantity * held[i].price]

\* The quantity is multiplied by the cost, which a holding may lack.
RaisesInItem(item) ==
  item.cost = None \/ (item.fund.valid /\ RaisesInHistory(item.fund))

\* A slip: what was paid for the items without a price too.
TotalCost_OfAll(items) == SumOf([i \in DOMAIN items |-> items[i].quantity * items[i].cost])

TotalCost(items) ==
  LET held == Held(items) IN SumOf([i \in DOMAIN held |-> held[i].quantity * held[i].cost])

\* Gain over cost in percent, as a fraction; nothing paid counts as no gain.
Profit(value, cost) == IF cost > 0 THEN <<100 * (value - cost), cost>> ELSE <<0, 1>>

MeanOf(s) == IF s = <<>> THEN None ELSE <<SumOf(s), Len(s)>>

\* The sum of fractions, over their number.
MeanOfFractions(s) ==
  IF s = <<>> THEN None
  ELSE LET sum == FoldLeft(LAMBDA a, b : <<a[1] * b[2] + b[1] * a[2], a[2] * b[2]>>, <<0, 1>>, s)
       IN  <<sum[1], sum[2] * Len(s)>>

More(mean, bound) == mean # None /\ mean[1] > bound * mean[2]
Less(mean, bound) == mean # None /\ mean[1] < bound * mean[2]

Concentration(values) ==
  LET weights == SortSeq(values, LAMBDA a, b : a > b)
      First(n) == SumOf(SubSeq(weights, 1, IF n < Len(weights) THEN n ELSE Len(weights)))
      total == SumOf(values)
  IN  IF 100 * First(1) > 50 * total THEN "very_high"
      ELSE IF 100 * First(2) > 70 * total THEN "high"
      ELSE IF 100 * First(3) > 70 * total THEN "medium_to_high" ELSE "suitable"

\* Fifteen points for each fund with five percent of the value or more.
Diversification(values) ==
  LET significant == SelectSeq(values, LAMBDA v : 100 * v >= 5 * SumOf(values))
  IN  IF 15 * Len(significant) < 100 THEN 15 * Len(significant) ELSE 100

-----------------------------------------------------------------------------
\* Daily returns in percent, newest first, each rounded down.
Daily(closes) ==
  LET all == [i \in 1..Len(closes) - 1 |-> Floor(100 * (closes[i] - closes[i + 1]), closes[i + 1])]
  IN  SubSeq(all, 1, IF Longest < Len(all) THEN Longest ELSE Len(all))

\* The correlation in whole percent, towards zero.
Pearson(a, b) ==
  LET n == Len(a)
      Cov(x, y) == n * SumOf([i \in 1..n |-> x[i] * y[i]]) - SumOf(x) * SumOf(y)
      square == Cov(a, a) * Cov(b, b)
      size == CHOOSE c \in 0..100 :
                /\ c * c * square <= 10000 * Cov(a, b) * Cov(a, b)
                /\ (c = 100 \/ (c + 1) * (c + 1) * square > 10000 * Cov(a, b) * Cov(a, b))
  IN  IF square = 0 THEN 0 ELSE IF Cov(a, b) < 0 THEN -size ELSE size

Followed(held) == SelectSeq(held, LAMBDA item : HasId(item.fund) /\ Len(item.fund.closes) >= Shared)

\* The i-th newest return of one fund is paired with the i-th newest of the
\* other, whatever the days are.
CoMovement(held) ==
  LET series == [i \in DOMAIN Followed(held) |-> Daily(Followed(held)[i].fund.closes)]
      Cut(s, t) == SubSeq(s, 1, IF Len(t) < Len(s) THEN Len(t) ELSE Len(s))
      pairs == SetToSeq({p \in (DOMAIN series) \X (DOMAIN series) : p[1] < p[2]})
      mean == MeanOf([k \in DOMAIN pairs |->
                      Pearson(Cut(series[pairs[k][1]], series[pairs[k][2]]),
                              Cut(series[pairs[k][2]], series[pairs[k][1]]))])
  IN  IF Len(held) < 2 \/ mean = None THEN "unknown"
      ELSE IF More(mean, 70) THEN "high" ELSE IF More(mean, 40) THEN "medium" ELSE "low"

RaisesInCoMovement(held) ==
  /\ Len(held) >= 2
  /\ \E i \in DOMAIN Followed(held) : 0 \in Range(Tail(Followed(held)[i].fund.closes))

-----------------------------------------------------------------------------
\* The points above or below 50, before they are cut to 0..100.  High
\* co-movement adds none: the test asks one word to hold another.
RiskPoints(r) ==
  (CASE r.concentration \in {"very_high", "high"} -> 30
     [] r.concentration = "medium_to_high" -> 15
     [] OTHER -> 0)
  + (IF More(r.bubble, 10) THEN 25 ELSE IF More(r.bubble, 5) THEN 15 ELSE IF Less(r.bubble, -5) THEN -10 ELSE 0)
  + (IF Less(r.momentum, 30) THEN 20 ELSE IF More(r.momentum, 60) THEN -10 ELSE 0)
  + (IF More(r.volatility, 30) THEN 20 ELSE IF More(r.volatility, 15) THEN 10 ELSE 0)
  + (IF Less(r.drawdown, -15) THEN 15 ELSE IF Less(r.drawdown, -8) THEN 10 ELSE 0)
  + (IF Less(r.gain, -20) THEN 15 ELSE 0)

RiskScore(r) ==
  LET points == 50 + RiskPoints(r) IN IF points < 0 THEN 0 ELSE IF points > 100 THEN 100 ELSE points

\* What the suggestions are about; the ones on bubble and momentum are about
\* single funds.
Suggestions(held, r) ==
  LET dives == {DeepDive(held[i].fund) : i \in DOMAIN held}
      found ==
        {s \in {"concentration", "high_bubble", "low_bubble", "low_momentum", "co_movement",
                "diversification", "volatility", "drawdown", "loss", "profit"} :
           CASE s = "concentration" -> r.concentration \in {"very_high", "high"}
             [] s = "high_bubble" -> \E d \in dives : More(d.bubble, 10)
             [] s = "low_bubble" -> \E d \in dives : Less(d.bubble, -5)
             [] s = "low_momentum" -> \E d \in dives : d.figures.momentum # None /\ d.figures.momentum < 30
             [] s = "co_movement" -> r.co_movement = "high"
             [] s = "diversification" -> r.diversification < 40
             [] s = "volatility" -> More(r.volatility, 30)
             [] s = "drawdown" -> Less(r.drawdown, -15)
             [] s = "loss" -> Less(r.gain, -15)
             [] s = "profit" -> More(r.gain, 20)}
  IN  IF found = {} THEN {"balanced"} ELSE found

\* _analyze_composition, and the whole gain.  Volatility is counted in tenths
\* of a percent.
Composition(items) ==
  LET held == Held(items)
      values == Values(held)
      dives == [i \in DOMAIN held |-> DeepDive(held[i].fund)]
      Known(s) == Without(s, {None})
  IN  [concentration |-> Concentration(values), diversification |-> Diversification(values),
       bubble |-> MeanOfFractions(Known([i \in DOMAIN dives |-> dives[i].bubble])),
       momentum |-> MeanOf(Known([i \in DOMAIN dives |-> dives[i].figures.momentum])),
       volatility |-> MeanOf(Known([i \in DOMAIN dives |-> dives[i].figures.volatility])),
       drawdown |-> MeanOf(Known([i \in DOMAIN dives |-> dives[i].figures.drawdown])),
       gain |-> Profit(SumOf(values), TotalCost(items)),
       co_movement |-> CoMovement(held)]

\* analyze_portfolio.
Report(items) ==
  LET held == Held(items)
      figures == Composition(items)
  IN  IF items = <<>> THEN [quality |-> "empty"]
      ELSE IF \E i \in DOMAIN held : RaisesInItem(held[i]) THEN Raised
      ELSE IF held = <<>> THEN [quality |-> "no_prices"]
      ELSE IF RaisesInCoMovement(held) THEN Raised
      ELSE [quality |-> "complete", figures |-> figures, risk |-> RiskScore(figures),
            suggestions |-> Suggestions(held, figures)]
=============================================================================
