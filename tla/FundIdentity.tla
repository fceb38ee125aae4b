---------------------------- MODULE FundIdentity ----------------------------
(***************************************************************************)
(* Which kind of fund a symbol is, and which metrics that kind has         *)
(* (src/core/pipeline/fund_identity.py).                                   *)
(*                                                                         *)
(* What the databases and the provider know of a fund is a record:         *)
(* universe and funds say whether fund_universe has it active and whether  *)
(* funds has it, label is the fund_type column of funds, words are the key *)
(* words its symbol, name, sector and board contain, bars is the number of *)
(* its history rows.                                                       *)
(***************************************************************************)
EXTENDS Bands, FiniteSets

Types == {"equity", "fixed_income", "gold", "commodity", "mixed", "index", "leveraged",
          "derivative", "other", "unknown"}

\* Not identified yet is no kind of fund.
ASSUME TypesAssumption == None \notin Types

Traded == Types \ {"fixed_income", "other", "unknown"}

Metric(name, types) == [name |-> name, types |-> types]

\* METRIC_APPLICABILITY; trend, price_structure, valuation, exposure, tracking
\* and leverage, which the engines ask for, are not in it.
Applicability ==
  {Metric(m, Types) : m \in {"price", "nav", "premium_discount", "volume", "value", "change_pct",
                             "liquidity", "kodal"}}
    \cup {Metric(m, Traded) :
            m \in {"money_flow", "orderbook", "rsi", "macd", "ema", "atr", "bollinger",
                   "volatility", "momentum", "returns", "drawdown", "sharpe", "sortino",
                   "market_risk", "correlation_risk"}}
    \cup {Metric(m, Types \ {"other", "unknown"}) : m \in {"nav_risk", "liquidity_risk"}}
    \cup {Metric(m, {"equity", "mixed"}) :
            m \in {"equity_exposure", "sector_concentration", "top_holdings"}}
    \cup {Metric(m, {"fixed_income"}) :
            m \in {"yield", "duration", "maturity", "credit_exposure", "interest_sensitivity"}}
    \cup {Metric("concentration_risk", {"equity", "mixed", "fixed_income"}),
          Metric("gold_exposure", {"gold"}), Metric("fx_sensitivity", {"gold"}),
          Metric("commodity_exposure", {"commodity"}), Metric("index_exposure", {"index"}),
          Metric("tracking_behavior", {"index", "leveraged", "gold"}),
          Metric("leverage_exposure", {"leveraged"}),
          Metric("path_dependency", {"leveraged", "derivative"})}

IsApplicable(metric, type) == \E m \in Applicability : m.name = metric /\ type \in m.types

ApplicableMetrics(type) == {m.name : m \in {k \in Applicability : type \in k.types}}

Restricted == {"fixed_income", "gold", "commodity", "leveraged", "derivative", "index", "unknown"}

-----------------------------------------------------------------------------
\* The first rule whose key word is in the text.  A word that stands for
\* several spellings stands where the first of them does.
Rules == << <<"ahrom", "leveraged">>, <<"tala", "gold">>, <<"zar", "gold">>,
            <<"sabet", "fixed_income">>, <<"kala", "commodity">>, <<"shakhes", "index">>,
            <<"mokhtalet", "mixed">>, <<"saham", "equity">>, <<"moshtaghe", "derivative">> >>

ClassifyText(words) == FirstOf(Rules, words, "unknown")

\* The labels of the funds table that the reader knows; for the others, such as
\* mokhtalet, it looks at the words.
Labels == [tala |-> "gold", ahrom |-> "leveraged", sahami |-> "equity",
           daramad_sabet |-> "fixed_income", shakhesi |-> "index"]

TypeOfRow(label, words) ==
  IF label \in DOMAIN Labels THEN Labels[label] ELSE ClassifyText(words)

\* fund_universe has no fund_type column; funds is looked at when it has no
\* active row, the provider's quote when neither has one.
FromDatabase(fund) ==
  CASE fund.universe -> ClassifyText(fund.words)
    [] ~fund.universe /\ fund.funds -> TypeOfRow(fund.label, fund.words)
    [] ~fund.universe /\ ~fund.funds /\ fund.quoted -> ClassifyText(fund.words)
    [] OTHER -> "unknown"

FromProvider(fund) == IF fund.quoted THEN ClassifyText(fund.words) ELSE "unknown"

History(bars) == AtLeast(bars, << <<180, "full">>, <<45, "partial">>, <<1, "insufficient">> >>, "none")

Identify(fund) ==
  [type |-> IF FromDatabase(fund) # "unknown" THEN FromDatabase(fund) ELSE FromProvider(fund),
   history |-> IF fund.funds THEN History(fund.bars) ELSE "none"]
=============================================================================
