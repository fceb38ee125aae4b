----------------------------- MODULE Technical -----------------------------
(***************************************************************************)
(* The technical engine (src/core/pipeline/technical.py): five modules     *)
(* over the closing prices and volumes of a fund, oldest first.            *)
(*                                                                         *)
(* The windows of 20, 50, 14, 12, 26 and 90 days are constants.  Averages  *)
(* and returns are compared as fractions.  A division by zero, which       *)
(* leaves the engine by an exception, makes the result Raised.             *)
(***************************************************************************)
EXTENDS Bands

CONSTANTS Short, Long, RsiDays, Fast, Slow, Year

ASSUME WindowsAssumption ==
  {Short, Long, RsiDays, Fast, Slow, Year} \subseteq Nat \ {0} /\ Fast < Slow

\* A row of the history of prices.
RowTypes == [close : Maybe(Nat), volume : Maybe(Nat)]

Result(facts, claims) == [facts |-> facts, claims |-> claims]

Insufficient(name, value, facts) == Result(facts, {Claim(name, value, facts, 0)})

\* The rows of history without the ones that lack the column.
Column(rows, name) == Without([i \in DOMAIN rows |-> rows[i][name]], {None})

Recent(s, days) == SubSeq(s, Len(s) - days + 1, Len(s))
Steps(prices) == [i \in 1..Len(prices) - 1 |-> prices[i + 1] - prices[i]]
Negated(s) == [i \in DOMAIN s |-> -s[i]]
Positive(s) == Without(s, {x \in ToSet(s) : x <= 0})

-----------------------------------------------------------------------------
\* The price against the mean of the last days, times 1.02 and 0.98.
Over(prices, days) == 100 * days * Last(prices) > 102 * SumOf(Recent(prices, days))
Under(prices, days) == 100 * days * Last(prices) < 98 * SumOf(Recent(prices, days))

Trend(prices) ==
  IF Len(prices) < Short THEN Insufficient("trend_direction", "unknown", {"sma_20"})
  ELSE IF SumOf(Recent(prices, Short)) = 0 THEN Raised
  ELSE LET long == Len(prices) >= Long
           direction ==
             CASE Over(prices, Short) -> IF long /\ Over(prices, Long) THEN "strong_up" ELSE "up"
               [] Under(prices, Short) -> IF long /\ Under(prices, Long) THEN "strong_down" ELSE "down"
               [] OTHER -> "neutral"
           used == {"current_price", "sma_20"} \cup (IF long THEN {"sma_50"} ELSE {})
       IN  Result(used, {Claim("trend_direction", direction, used, 85),
                         Claim("price_sma_distance", None, {"current_price", "sma_20"}, 80)})

\* The mean of the last gains against the mean of the last losses, wherever in
\* the history they lie: 100 g / (g + l).
Strength(prices) ==
  LET Mean(s) == IF Len(s) > RsiDays THEN <<SumOf(Recent(s, RsiDays)), RsiDays>>
                 ELSE <<SumOf(s), IF s = <<>> THEN 1 ELSE Len(s)>>
      gain == Mean(Positive(Steps(prices)))
      loss == Mean(Positive(Negated(Steps(prices))))
      g == gain[1] * loss[2]
      l == loss[1] * gain[2]
  IN  IF loss[1] = 0 THEN 100 ELSE Floor(100 * g, g + l)

RsiState(prices) ==
  AtLeast(Strength(prices),
          << <<70, "overbought">>, <<55, "bullish">>, <<45, "neutral">>, <<30, "bearish">> >>,
          "oversold")

\* A slip: started at the newest price.
Ema_FromNewest(prices, days) ==
  FoldLeft(LAMBDA e, p : <<2 * p * e[2] + (days - 1) * e[1], e[2] * (days + 1)>>,
           <<Last(prices), 1>>, Tail(Reverse(prices)))

\* The exponential mean, started at the oldest price, as <<sum, of>>.
Ema(prices, days) ==
  FoldLeft(LAMBDA e, p : <<2 * p * e[2] + (days - 1) * e[1], e[2] * (days + 1)>>,
           <<Head(prices), 1>>, Tail(prices))

MacdSignal(prices) ==
  LET fast == Ema(prices, Fast)
      slow == Ema(prices, Slow)
  IN  IF fast[1] * slow[2] > slow[1] * fast[2] THEN "bullish" ELSE "bearish"

Momentum(prices) ==
  IF Len(prices) < RsiDays THEN Insufficient("rsi_state", "unknown", {"rsi_14"})
  ELSE LET macd == Len(prices) >= Slow
       IN  Result({"rsi_14"} \cup (IF macd THEN {"macd_line"} ELSE {}),
                  {Claim("rsi_state", RsiState(prices), {"rsi_14"}, 80)}
                    \cup (IF macd THEN {Claim("macd_signal", MacdSignal(prices), {"macd_line"}, 75)}
                          ELSE {}))

-----------------------------------------------------------------------------
\* Equal returns have no deviation; of others the model does not say how large
\* it is, and takes the band as given.
Steady(prices) ==
  \A i, j \in 2..Len(prices) : prices[i] * prices[j - 1] = prices[j] * prices[i - 1]

\* The greatest (peak - p) / peak, as <<peak, fall>>, by the running peak.
Drawdown(prices) ==
  LET Step(d, p) ==
        LET peak == IF p > d.peak THEN p ELSE d.peak
        IN  [peak |-> peak,
             worst |-> IF (peak - p) * d.worst[1] > d.worst[2] * peak THEN <<peak, peak - p>>
                       ELSE d.worst]
  IN  FoldLeft(Step, [peak |-> Head(prices), worst |-> <<1, 0>>], prices).worst

DrawdownBand(prices) ==
  LET d == Drawdown(prices)
  IN  Below(Floor(100 * d[2], d[1]), << <<10, "low">>, <<20, "moderate">> >>, "high")

Volatility(prices, band) ==
  IF Len(prices) < Short THEN Insufficient("volatility_regime", "unknown", {"volatility_20"})
  ELSE IF \E i \in 1..Len(prices) - 1 : prices[i] = 0 THEN Raised
  ELSE LET long == Len(prices) >= Year
           window == IF Len(prices) > Short THEN Recent(prices, Short + 1) ELSE prices
           used == {"volatility_20", "annualized_volatility"}
       IN  Result(used \cup (IF long THEN {"max_drawdown_90"} ELSE {}),
                  {Claim("volatility_regime", IF Steady(window) THEN "very_low" ELSE band, used, 80)}
                    \cup (IF long THEN {Claim("max_drawdown_assessment",
                                              DrawdownBand(Recent(prices, Year)),
                                              {"max_drawdown_90"}, 80)}
                          ELSE {}))

-----------------------------------------------------------------------------
Volume(volumes, prices) ==
  IF Len(volumes) < Short \/ Len(prices) < Short THEN Insufficient("volume_trend", "unknown", {})
  ELSE IF prices[Len(prices) - 1] = 0 THEN Raised
  ELSE LET mean == SumOf(Recent(volumes, Short))
           trend == CASE 2 * Short * Last(volumes) > 3 * mean -> "high"
                      [] 2 * Short * Last(volumes) <= mean -> "low"
                      [] OTHER -> "normal"
           used == {"avg_volume_20", "volume_ratio"}
       IN  Result(used, {Claim("volume_trend", trend, used, 80)})

Position(high, low, price) ==
  CASE 100 * (high - price) < 3 * high -> "near_high"
    [] 100 * (high - price) >= 3 * high /\ 100 * (price - low) < 3 * low -> "near_low"
    [] OTHER -> IF (high - price) * low < (price - low) * high THEN "upper_half" ELSE "lower_half"

PriceStructure(prices) ==
  IF Len(prices) < Long THEN Insufficient("position_in_range", "insufficient_data", {})
  ELSE LET range == ToSet(Recent(prices, Long))
           used == {"high_50", "low_50", "dist_from_high_pct", "dist_from_low_pct"}
       IN  IF 0 \in range THEN Raised
           ELSE Result(used, {Claim("position_in_range",
                                    Position(Max(range), Min(range), Last(prices)), used, 80)})

-----------------------------------------------------------------------------
NotApplicable(name) == Result({}, {Claim(name, "not_applicable", {}, 0)})

TechnicalMetrics == {"trend", "rsi", "volatility", "volume", "price_structure"}

\* The five modules in turn; what one raises ends the engine.
Modules(rows, band, applicable) ==
  LET prices == Column(rows, "close")
      volumes == Column(rows, "volume")
      Run(metric, name, result) == IF metric \in applicable THEN result ELSE NotApplicable(name)
  IN  {Run("trend", "trend_direction", Trend(prices)),
       Run("rsi", "rsi_state", Momentum(prices)),
       Run("volatility", "volatility_regime", Volatility(prices, band)),
       Run("volume", "volume_trend", Volume(volumes, prices)),
       Run("price_structure", "position_in_range", PriceStructure(prices))}

Technicals(rows, band, applicable) ==
  LET results == Modules(rows, band, applicable)
  IN  IF Raised \in results THEN Raised
      ELSE Result(UNION {r.facts : r \in results}, UNION {r.claims : r \in results})
=============================================================================
