------------------------------ MODULE Scoring ------------------------------
(***************************************************************************)
(* The score of one fund: six factors of its quote and their weighted mean *)
(* (src/core/factors, src/core/scoring/score_engine.py).                   *)
(*                                                                         *)
(* Scores are hundredths of a point, changes and premiums tenths of a      *)
(* percent, weights thousandths.  log_scale is left out: value, volume and *)
(* depth come as the 0..100 it makes of them.                              *)
(***************************************************************************)
EXTENDS Bands, FiniteSetsExt

Clamp(score) == IF score < 0 THEN 0 ELSE IF score > 10000 THEN 10000 ELSE score

Atleast1(x) == IF x > 1 THEN x ELSE 1

\* A quote is [value, volume, depth : 0..100, relative : volume in percent of
\* the month's mean or None, bid, ask : total quantities, bestBid, bestAsk :
\* prices or None, flow : [buyReal, buyLegal, sellReal, sellLegal], last, close :
\* changes or None, premium : over the NAV or None].
Liquidity(q) == Clamp(45 * q.value + 35 * q.volume + 20 * q.depth)

\* bid / max(ask, 1) against 3, 1.5, 0.33 and 1.
BookScore(bid, ask) ==
  CASE ask = 0 /\ bid > 0 -> 9500
    [] bid = 0 /\ ask > 0 -> 1000
    [] OTHER -> LET ratio == Floor(100 * bid, Atleast1(ask))
                IN  IF ratio >= 150
                    THEN AtLeast(ratio, << <<300, 9000>> >>, 7200)
                    ELSE IF Ceiling(100 * bid, Atleast1(ask)) <= 33 THEN 2000
                    ELSE AtLeast(ratio, << <<100, 5500>> >>, 3800)

\* A narrow spread, a negative one too, is worth three points, a wide one costs five.
SpreadBonus(bid, ask) ==
  IF bid = None \/ ask = None THEN 0
  ELSE IF bid = 0 \/ ask = 0 THEN 0
  ELSE CASE 10000 * (ask - bid) < 5 * bid -> 300
         [] 1000 * (ask - bid) > 5 * bid -> -500
         [] OTHER -> 0

OrderbookPressure(q) == Clamp(BookScore(q.bid, q.ask) + SpreadBonus(q.bestBid, q.bestAsk))

FlowScore(q) ==
  LET f == q.flow
      buy == f.buyReal + f.buyLegal
      all == buy + f.sellReal + f.sellLegal
      share == Floor(100 * f.buyReal, Atleast1(buy))
  IN  IF all <= 0 THEN 5000
      ELSE Clamp(Clamp(5000 + Floor(8000 * (f.buyReal - f.sellReal), all))
                   + AtLeast(share, << <<70, 800>>, <<55, 300>> >>, 0))

ChangeScore(change) ==
  IF change >= 5 THEN AtLeast(change, << <<20, 8800>> >>, 7000)
  ELSE AtMost(change, << <<-20, 1800>>, <<-5, 3500>> >>, 5200)

MomentumScore(q) ==
  LET change == IF q.last # None THEN q.last ELSE q.close
      turn == IF q.last = None \/ q.close = None THEN 0
              ELSE IF q.last > q.close THEN 300
              ELSE IF q.last < q.close - 3 THEN -300 ELSE 0
  IN  IF change = None THEN 5000 ELSE Clamp(ChangeScore(change) + turn)

VolumeBoost(relative) ==
  IF relative = None THEN 0
  ELSE IF relative >= 110 THEN AtLeast(relative, << <<150, 1200>> >>, 600)
  ELSE IF relative <= 50 THEN -1200
  ELSE Below(relative, << <<90, -500>> >>, 0)

VolumeValue(q) == Clamp(55 * q.value + 45 * q.volume + VolumeBoost(q.relative))

NavPremium(q) ==
  IF q.premium = None THEN 5000
  ELSE IF q.premium <= -5 THEN AtMost(q.premium, << <<-20, 9000>> >>, 7500)
  ELSE AtLeast(q.premium, << <<20, 2000>>, <<5, 3800>> >>, 5800)

Factors(q) ==
  [liquidity |-> Liquidity(q), orderbook_pressure |-> OrderbookPressure(q),
   money_flow |-> FlowScore(q), momentum |-> MomentumScore(q),
   volume_value |-> VolumeValue(q), nav_premium |-> NavPremium(q)]

-----------------------------------------------------------------------------
Weights == [liquidity |-> 180, orderbook_pressure |-> 200, money_flow |-> 180,
            momentum |-> 160, volume_value |-> 140, nav_premium |-> 140]

\* Without a premium its weight goes to the five others in equal parts.
WeightsOf(q) ==
  IF q.premium # None THEN Weights
  ELSE [k \in DOMAIN Weights |->
          IF k = "nav_premium" THEN 0 ELSE Weights[k] + Weights.nav_premium \div 5]

FinalScore(q) ==
  LET weights == WeightsOf(q)
      used == {k \in DOMAIN weights : weights[k] > 0}
      total == MapThenSumSet(LAMBDA k : weights[k], used)
  IN  Floor(MapThenSumSet(LAMBDA k : Factors(q)[k] * weights[k], used), total)

Recommend(score) ==
  AtLeast(score, << <<8000, "strong_buy">>, <<6500, "buy">>, <<4500, "neutral">>, <<3000, "weak">> >>,
          "sell")

Assess(q) ==
  [score |-> FinalScore(q), recommendation |-> Recommend(FinalScore(q)), factors |-> Factors(q),
   change |-> IF q.close # None THEN q.close ELSE q.last]
=============================================================================
