----------------------------- MODULE NavEngine -----------------------------
(***************************************************************************)
(* Premium and discount of a fund's price over its net asset value         *)
(* (src/core/pipeline/nav.py), and the fundamental engine                  *)
(* (src/core/pipeline/fundamental.py).                                     *)
(*                                                                         *)
(* A price is [last, at] and an NAV [redeem, issue, at]: values or None,   *)
(* and the time the provider stamped on them, None without one, Unreadable *)
(* when strptime refuses it.  asOf, which the engine never sees, is the    *)
(* time at which the value held.                                           *)
(***************************************************************************)
EXTENDS Bands, FundIdentity

CONSTANTS Unreadable,
          MaxAlignment, IdealAlignment    \* 300 and 60 seconds

\* What Python takes for true.
Given(x) == x # None /\ x # 0

PriceStamp(price, now) ==
  CASE price = None -> None
    [] price # None /\ ~Given(price.last) -> None
    [] price # None /\ Given(price.last) /\ price.at = Unreadable -> None
    [] OTHER -> IF price.at = None THEN now ELSE price.at

NavStamp(nav, now) ==
  CASE nav = None -> None
    [] nav # None /\ nav.redeem = None /\ nav.issue = None -> None
    [] nav # None /\ nav.at = Unreadable -> None
    [] OTHER -> IF nav.at = None THEN now ELSE nav.at

Apart(a, b) == IF a > b THEN a - b ELSE b - a

Alignment(price, nav) ==
  CASE price = None /\ nav = None -> "both_missing"
    [] price = None /\ nav # None -> "price_missing"
    [] price # None /\ nav = None -> "nav_missing"
    [] OTHER -> IF Apart(price, nav) <= MaxAlignment THEN "aligned" ELSE "misaligned"

\* (price - nav) / nav in percent.
Category(price, nav) ==
  LET excess == 100 * (price - nav)
  IN  IF excess < -nav
      THEN Below(Floor(excess, nav), << <<-5, "deep_discount">> >>, "discount")
      ELSE AtMost(Ceiling(excess, nav), << <<1, "near_par">>, <<5, "premium">>, <<15, "high_premium">> >>,
                  "extreme_premium")

NavValue(nav) == IF Given(nav.redeem) THEN nav.redeem ELSE nav.issue

Unavailable(refs) == {Claim("premium_discount", "unavailable", refs, 0)}

Premium(price, nav, apart) ==
  IF ~Given(NavValue(nav)) THEN Unavailable({})
  ELSE {Claim("premium_discount", Category(price.last, NavValue(nav)),
              {"last_price", "redeem_nav", "premium_discount_pct", "alignment_seconds"}, 85),
        Claim("category_interpretation", Category(price.last, NavValue(nav)),
              {"premium_discount_pct"}, 80),
        Claim("alignment_quality", AtMost(apart, << <<IdealAlignment, "excellent">> >>, "acceptable"),
              {"alignment_seconds"}, 100)}

\* An NAV that is zero leaves no fact at all.
NavFacts(status, nav) ==
  CASE status # "aligned" -> {"alignment_status"}
    [] status = "aligned" /\ Given(NavValue(nav)) ->
         {"last_price", "redeem_nav", "premium_discount_pct", "alignment_seconds"}
    [] OTHER -> {}

NavAnalysis(type, price, nav, now) ==
  LET p == PriceStamp(price, now)
      n == NavStamp(nav, now)
      status == Alignment(p, n)
  IN  IF ~IsApplicable("nav", type)
      THEN [facts |-> {}, claims |-> {Claim("premium_discount", "not_applicable", {}, 0)}]
      ELSE [facts |-> NavFacts(status, nav),
            claims |-> IF status = "aligned" THEN Premium(price, nav, Apart(p, n))
                       ELSE Unavailable({"alignment_status"})]

-----------------------------------------------------------------------------
\* The module of a kind of fund: the metric that lets it run, the fact it states
\* and what it would assess.  None of them has data: their claims have confidence
\* zero, and the engine's confidence is that of the universal module.
Specific ==
  [equity |-> <<"valuation", "equity_metrics_available", "valuation_assessment">>,
   fixed_income |-> <<"yield", "fixed_income_metrics_available", "yield_assessment">>,
   gold |-> <<"exposure", "gold_exposure_available", "exposure_assessment">>,
   index |-> <<"tracking", "tracking_metrics_available", "tracking_assessment">>,
   leveraged |-> <<"leverage", "leverage_metrics_available", "leverage_assessment">>]

Universal ==
  {Claim("liquidity_assessment", "proxy_only", {"liquidity_proxy_available"}, 40),
   Claim("size_assessment", "data_unavailable", {"fund_size_proxy_available"}, 0)}

SpecificRuns(type, applicable) == type \in DOMAIN Specific /\ Specific[type][1] \in applicable

FundamentalFacts(type, applicable) ==
  (IF "liquidity" \in applicable THEN {"liquidity_proxy_available", "fund_size_proxy_available"} ELSE {})
    \cup (IF SpecificRuns(type, applicable) THEN {Specific[type][2]} ELSE {})

Fundamental(type, applicable) ==
  (IF "liquidity" \in applicable THEN Universal ELSE {})
    \cup (IF SpecificRuns(type, applicable)
          THEN {Claim(Specific[type][3], "data_unavailable", {Specific[type][2]}, 0)} ELSE {})
=============================================================================
