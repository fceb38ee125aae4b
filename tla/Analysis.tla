------------------------------ MODULE Analysis ------------------------------
(***************************************************************************)
(* The analyses: one request for a fund, stage by stage as Phase1Pipeline  *)
(* and Phase2Pipeline (src/core/pipeline), and the ranking of all funds.   *)
(*                                                                         *)
(* Every stage asks the provider and the databases anew, and what they     *)
(* answer is chosen anew: the jobs and the receiver write between two      *)
(* stages.  The state is the trace of the request, and what the last       *)
(* engine read and answered.                                               *)
(***************************************************************************)
EXTENDS DataQuality, MarketRegime, TabloKhani, NavEngine, Technical, SmartRanker, LocalQuotes,
        PortfolioReport

CONSTANTS Knowns,      \* what the gate may find: see DataQuality
          Markets,     \* the markets the provider may show: see MarketRegime
          Funds,       \* what may be known of the fund: see FundIdentity
          Boards,      \* [book, flow, quote] of the BRS provider: see TabloKhani
          Histories,   \* the fund's history rows: see Technical
          Volatilities, \* bands of volatility, which the model does not compute
          Prices,      \* [price, nav] of the BRS provider: see NavEngine
          Tables,      \* the fund's history rows by day: see LocalQuotes
          Now,         \* the time of the request
          Universes,   \* sequences of [quote, history, leveraged]: see SmartRanker
          Portfolios   \* sequences of items: see PortfolioReport

ASSUME BoardsAssumption == Boards \subseteq BoardTypes

ASSUME HistoriesAssumption == Histories \subseteq Seq(RowTypes)

ASSUME UniversesAssumption ==
  \A universe \in Universes : universe \in Seq(MemberTypes) /\ Len(universe) <= MostFunds

ASSUME PortfoliosAssumption == Portfolios \subseteq Seq(ItemTypes)

VARIABLES at,          \* the stage the request is at
          trace,       \* what the request has found so far
          seen         \* what the stage has read and found: [engine, of, facts, claims]

vars == <<at, trace, seen>>

Seen(engine, of, facts, claims) == [engine |-> engine, of |-> of, facts |-> facts, claims |-> claims]

Nothing == Seen("none", None, {}, {})

\* What has not been found or decided yet is None.
NoTrace == [conflict |-> FALSE, type |-> None, missing |-> {}, unknown |-> None, raised |-> {},
            status |-> None]

Init == at = "gate" /\ trace = NoTrace /\ seen = Nothing

\* A stage begins when the one before it has handed over its result.
Begins(stage) == at = stage /\ seen = Nothing

-----------------------------------------------------------------------------
\* The names Phase 1 asks the gate for; it knows only nav, volume and history.
Required == {"last_price", "nav", "volume", "change_close_pct", "redeem_nav", "issue_nav",
             "avg_volume_1m", "orderbook", "money_flow", "history"}

Gate ==
  /\ Begins("gate")
  /\ \E known \in Knowns, force \in BOOLEAN :
       LET report == Check(Required, known, force)
       IN  seen' = Seen("quality", <<Overall(report), OverallConfidence(report)>>, {}, {})
  /\ UNCHANGED <<at, trace>>

\* The market of the provider; if it fails the last snapshot of the database.
JudgeMarket ==
  /\ Begins("regime")
  /\ \E market \in Markets, live \in BOOLEAN :
       LET metrics == IF live THEN Metrics(market) ELSE SnapshotMetrics(Metrics(market))
           evidence == Evidence(metrics)
       IN  /\ trace' = [trace EXCEPT !.conflict = Contradictions(evidence) # {}]
           /\ seen' = Seen("regime", Regime(evidence), evidence, {})
  /\ UNCHANGED at

IdentifyFund ==
  /\ Begins("identity")
  /\ \E fund \in Funds :
       LET identity == Identify(fund)
       IN  /\ trace' = [trace EXCEPT !.type = identity.type,
                                     !.missing = IF identity.type = "unknown" THEN {"fund_type"} ELSE {}]
           /\ seen' = Seen("identity", <<identity.history, identity.type \in Restricted>>, {}, {})
  /\ UNCHANGED at

\* A slip: a book with one side is no missing book.
Missing_OneSideWillDo(board) ==
  (IF board.book = None THEN {"orderbook"} ELSE {})
    \cup (IF board.flow = None THEN {"money_flow"} ELSE {})
    \cup (IF board.quote = None THEN {"quote.price"} ELSE {})

\* What the report names as missing.
Missing(board) ==
  (IF board.book = None THEN {"orderbook"}
   ELSE IF Empty(board.book.bid) \/ Empty(board.book.ask) THEN {"orderbook"} ELSE {})
    \cup (IF board.flow = None THEN {"money_flow"} ELSE {})
    \cup (IF board.quote = None THEN {"quote.price"}
          ELSE IF board.quote.last_price = None THEN {"quote.price"} ELSE {})

\* The row of the newest day as a board; the volumes of its flow may be zero.
LocalBoards ==
  {LET row == days[Len(days)]
   IN  IF row = None THEN [book |-> None, flow |-> None, quote |-> None]
       ELSE [book |-> LocalBook(row), flow |-> LocalFlow, quote |-> LocalQuote(row)] : days \in Tables}

ReadBoard ==
  /\ Begins("tablo")
  /\ \E board \in Boards \cup LocalBoards :
       LET claims == Tablo(board.book, board.flow, board.quote)
       IN  /\ trace' = [trace EXCEPT !.missing = @ \cup Missing(board),
                                     !.unknown = {c.name : c \in {d \in claims : d.value = "unknown"}}]
           /\ seen' = Seen("tablo", None, Facts(board.book, board.flow, board.quote), claims)
  /\ UNCHANGED at

\* Any stage of either phase may raise: on a locked database, on a money flow
\* with a null in it.  In phase 1 this leaves a warning in the trace, in phase 2
\* a missing stage.  What the stage would have noted in the trace, a conflict,
\* missing data, the kind of the fund, is lost with its result.
StageRaises ==
  /\ at \in {"gate", "regime", "identity", "tablo", "technical", "nav", "fundamental"}
  /\ Begins(at)
  /\ at = "technical" => trace.type # None
  /\ trace' = [trace EXCEPT !.raised = @ \cup {at}]
  /\ seen' = Seen("raised", at, {}, {})
  /\ UNCHANGED at

\* The status looks at what is missing and at the conflicts of the regime; the
\* quality the gate found is shown and not looked at, and neither are the
\* warnings: a stage is listed as executed before it runs.
Aggregate ==
  /\ Begins("aggregate")
  /\ trace' = [trace EXCEPT !.status = IF trace.missing # {} \/ trace.conflict THEN "partial" ELSE "success"]
  /\ seen' = Seen("report", None, {}, {})
  /\ UNCHANGED at

-----------------------------------------------------------------------------
\* What an engine that raises has found is lost, and its stage is missing.
Seeing(engine, of, result) ==
  IF result = Raised THEN Seen(engine, of, {}, {}) ELSE Seen(engine, of, result.facts, result.claims)

\* Phase 2 needs the kind of the fund: if phase 1 lost it, it is looked for
\* again, and what is raised now ends the request.
IdentifyAgain ==
  /\ Begins("technical") /\ trace.type = None
  /\ \/ at' = at /\ \E fund \in Funds : trace' = [trace EXCEPT !.type = Identify(fund).type]
     \/ at' = "gate" /\ trace' = NoTrace
  /\ UNCHANGED seen

RunTechnical ==
  /\ Begins("technical") /\ trace.type # None
  /\ \E rows \in Histories, band \in Volatilities :
       seen' = Seeing("technical", rows, Technicals(rows, band, ApplicableMetrics(trace.type)))
  /\ UNCHANGED <<at, trace>>

RunNav ==
  /\ Begins("nav")
  /\ \E p \in Prices \cup {[price |-> LocalPrice(d), nav |-> LocalNav(d)] : d \in Tables} :
       LET result == NavAnalysis(trace.type, p.price, p.nav, Now)
       IN  seen' = Seen("nav", p, result.facts, result.claims)
  /\ UNCHANGED <<at, trace>>

RunFundamental ==
  /\ Begins("fundamental")
  /\ LET applicable == ApplicableMetrics(trace.type)
     IN  seen' = Seen("fundamental", None, FundamentalFacts(trace.type, applicable),
                      Fundamental(trace.type, applicable))
  /\ UNCHANGED <<at, trace>>

\* The technical engine without an identity manager: every module runs.
TechnicalAlone ==
  /\ Begins("gate")
  /\ \E rows \in Histories, band \in Volatilities :
       seen' = Seeing("technical", rows, Technicals(rows, band, TechnicalMetrics))
  /\ at' = "alone"
  /\ UNCHANGED trace

\* DailyAnalysis.run assesses every fund, takes its indicators, and ranks them all.
AssessFunds ==
  /\ Begins("gate")
  /\ \E universe \in Universes :
       seen' = Seen("assess", [i \in DOMAIN universe |->
                                 Components([assessed |-> Assess(universe[i].quote),
                                             ind |-> Snapshot(universe[i].history),
                                             leveraged |-> universe[i].leveraged])], {}, {})
  /\ at' = "rank"
  /\ UNCHANGED trace

RankFunds ==
  /\ at = "rank" /\ seen.engine = "assess"
  /\ seen' = Seen("rank", [components |-> seen.of, places |-> Places(seen.of)], {}, {})
  /\ UNCHANGED <<at, trace>>

\* The bot's report on a user's portfolio.
AnalyzePortfolio ==
  /\ Begins("gate")
  /\ \E items \in Portfolios :
       seen' = Seen("portfolio", [items |-> items, report |-> Report(items)], {}, {})
  /\ at' = "portfolio"
  /\ UNCHANGED trace

-----------------------------------------------------------------------------
NextStage == [gate |-> "regime", regime |-> "identity", identity |-> "tablo", tablo |-> "aggregate",
              aggregate |-> "technical", technical |-> "nav", nav |-> "fundamental",
              fundamental |-> "gate", alone |-> "gate", rank |-> "gate",
              portfolio |-> "gate"]

\* A stage hands over.  The report of phase 1 is complete then: of its trace
\* phase 2 needs the kind of the fund, and the next request nothing.
HandOver ==
  /\ seen.engine \notin {"none", "assess"}
  /\ at' = NextStage[at]
  /\ trace' = CASE at' = "technical" -> [NoTrace EXCEPT !.type = trace.type]
                [] at' = "gate" -> NoTrace
                [] OTHER -> trace
  /\ seen' = Nothing

Next ==
  \/ Gate \/ JudgeMarket \/ IdentifyFund \/ ReadBoard \/ Aggregate \/ StageRaises
  \/ IdentifyAgain \/ RunTechnical \/ RunNav \/ RunFundamental
  \/ TechnicalAlone \/ AssessFunds \/ RankFunds \/ AnalyzePortfolio \/ HandOver

Spec == Init /\ [][Next]_vars

-----------------------------------------------------------------------------
\* Every claim an engine makes with some confidence cites facts, and facts it
\* has extracted: microstructure.py:8 asks that every interpretation rest on
\* facts.  A one-sided book, a short history or a row without a volume has
\* fewer facts than the claims a ladder could make of it.
ClaimsCiteFacts ==
  \A c \in seen.claims : c.confidence > 0 => c.refs # {} /\ c.refs \subseteq seen.facts

\* A regime that takes a side has evidence of that side, whatever the weights
\* add up to: of a quiet market with small, positive volumes it is not said
\* that it flees from risk.
RegimeIsSupported ==
  seen.engine = "regime" /\ seen.of \in {"RISK_ON", "RISK_OFF"} =>
    \E e \in seen.facts : Supports(e, seen.of)

Rising(prices) == \A i \in 1..Len(prices) - 1 : 0 < prices[i] /\ prices[i] < prices[i + 1]
Falling(prices) == \A i \in 1..Len(prices) - 1 : prices[i] > prices[i + 1] /\ prices[i + 1] > 0

Says(name, values) == Said(seen.claims, name) \cap values # {}

\* Of a price that only rose no module says that it fell, and the other way
\* round, although one looks at the mean of some days, one at gains and losses,
\* one at exponential means begun at the first day and one at the range.
DirectionsAgree ==
  seen.engine = "technical" /\ Len(Column(seen.of, "close")) >= 2 =>
    LET prices == Column(seen.of, "close")
    IN  /\ Rising(prices) =>
             /\ ~Says("trend_direction", {"down", "strong_down"})
             /\ ~Says("rsi_state", {"oversold", "bearish", "neutral"})
             /\ ~Says("macd_signal", {"bearish"})
             /\ ~Says("position_in_range", {"near_low", "lower_half", "upper_half"})
             /\ ~Says("max_drawdown_assessment", {"moderate", "high"})
        /\ Falling(prices) =>
             /\ ~Says("trend_direction", {"up", "strong_up"})
             /\ ~Says("rsi_state", {"overbought", "bullish", "neutral"})
             /\ ~Says("macd_signal", {"bullish"})
             /\ ~Says("position_in_range", {"upper_half"})

\* A report whose status is success, "complete" to the user, shows no unknown
\* interpretation of the order book and no unknown kind of fund, whatever was
\* read and whichever stages raised; what it does not show at all was raised
\* for, and the trace says so (phase1_pipeline.py:429, 453).  The status is
\* decided from what was missing, the interpretations from what was there.
SuccessIsComplete ==
  trace.status = "success" =>
    /\ trace.unknown = {} \/ "tablo" \in trace.raised
    /\ trace.type \notin {"unknown", None} \/ "identity" \in trace.raised

\* The badge taken at its word (phase1_pipeline.py:494): every stage was read.
SuccessReadEverything == trace.status = "success" => trace.raised = {}

\* A fund that is at least as good as another in every component, and better in
\* one, has the better place, whichever came first and however many others tie.
DominanceRespected ==
  seen.engine = "rank" =>
    LET of == seen.of.components
    IN  \A i, j \in DOMAIN of :
          /\ \A k \in DOMAIN of[i] : of[i][k] >= of[j][k]
          /\ \E k \in DOMAIN of[i] : of[i][k] > of[j][k]
          => seen.of.places[i] < seen.of.places[j]

Rungs == [bubble |-> "high_bubble", momentum |-> "low_momentum", volatility |-> "volatility",
          drawdown |-> "drawdown", gain |-> "loss"]

Gravest(figures, f) ==
  CASE f = "bubble" -> More(figures.bubble, 10)
    [] f = "momentum" -> Less(figures.momentum, 30)
    [] f = "volatility" -> More(figures.volatility, 30)
    [] f = "drawdown" -> Less(figures.drawdown, -15)
    [] f = "gain" -> Less(figures.gain, -20)

\* The report on a portfolio agrees with itself.  The whole gains no more than
\* its best fund and no less than its worst, whichever of them have no price
\* (analyze_portfolio skips those).  And a risk that cost the most points it can
\* has a suggestion, although points are given for means over the funds with a
\* figure and suggestions made for single funds: "balanced" is not said of it.
PortfolioAgrees ==
  seen.engine = "portfolio" /\ seen.of.report # Raised =>
    LET held == Held(seen.of.items)
        report == seen.of.report
        Single(i) == Profit(held[i].price, held[i].cost)
        NotOver(a, b) == a[1] * b[2] <= b[1] * a[2]
    IN  report.quality = "complete" =>
          /\ \E i \in DOMAIN held : NotOver(report.figures.gain, Single(i))
          /\ \E i \in DOMAIN held : NotOver(Single(i), report.figures.gain)
          /\ \A f \in DOMAIN Rungs : Gravest(report.figures, f) => Rungs[f] \in report.suggestions

\* A premium is computed only of a price and an NAV that held at about the same
\* time (nav.py:4: "price/NAV timestamp alignment mandatory").
PremiumIsAligned ==
  seen.engine = "nav" /\ Confident(seen.claims) =>
    Apart(seen.of.price.asOf, seen.of.nav.asOf) <= MaxAlignment
=============================================================================
