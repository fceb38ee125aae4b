--------------------------- MODULE AnalysisProofs ---------------------------
(***************************************************************************)
(* Proofs about the analyses, for any books, histories, prices, markets,    *)
(* universes and portfolios, and about the tables of funds and prices they  *)
(* read, for any funds, names, days and jobs.                               *)
(***************************************************************************)
EXTENDS Analysis, FundData, WellFoundedInduction, FiniteSetTheorems, SequenceTheorems, TLAPS

-----------------------------------------------------------------------------
(* Ladders                                                                  *)

(* A nonempty set of natural numbers has a least one.                       *)
LEMMA NatLeast == ASSUME NEW T, T \subseteq Nat, T # {} PROVE \E n \in T : \A m \in T : n <= m
<1> DEFINE Smaller == OpToRel(<, Nat)
<1>1. IsWellFoundedOn(Smaller, Nat)
  BY NatLessThanWellFounded
<1>2. \A x, y \in Nat : x < y => <<x, y>> \in Smaller
  BY DEF OpToRel
<1> HIDE DEF Smaller
<1>3. PICK n \in T : \A m \in T : ~(<<m, n>> \in Smaller)
  BY <1>1, WFMin
<1>4. n \in Nat
  BY <1>3
<1>5. ASSUME NEW m \in T PROVE n <= m
  <2>1. m \in Nat
    OBVIOUS
  <2>2. ~(m < n)
    BY <1>2, <1>3, <1>4, <2>1
  <2> QED
    BY <1>4, <2>1, <2>2
<1> QED
  BY <1>3, <1>5

(* A ladder ends on one of its steps or on the last branch.                 *)
LEMMA FirstOfNames ==
  ASSUME NEW steps, DOMAIN steps \subseteq Nat, NEW fits, NEW rest
  PROVE  \/ FirstOf(steps, fits, rest) = rest
         \/ \E i \in DOMAIN steps : steps[i][1] \in fits /\ FirstOf(steps, fits, rest) = steps[i][2]
<1> DEFINE fit == {i \in DOMAIN steps : steps[i][1] \in fits}
<1>1. CASE fit = {}
  BY <1>1 DEF FirstOf
<1>2. CASE fit # {}
  <2>1. fit \subseteq Nat
    OBVIOUS
  <2>2. \E i \in fit : \A j \in fit : i <= j
    BY <1>2, <2>1, NatLeast
  <2> DEFINE first == CHOOSE i \in fit : \A j \in fit : i <= j
  <2>3. first \in fit
    BY <2>2
  <2>4. FirstOf(steps, fits, rest) = steps[first][2]
    BY <1>2 DEF FirstOf
  <2> HIDE DEF first
  <2> QED
    BY <2>3, <2>4
<1> QED
  BY <1>1, <1>2

-----------------------------------------------------------------------------
(* What the engines claim and what they cite                                *)

Cited(facts, claims) == \A c \in claims : c.confidence > 0 => c.refs # {} /\ c.refs \subseteq facts

(* microstructure.py: a claim with a confidence is only made where the      *)
(* facts it cites were extracted.                                           *)
LEMMA TabloCites ==
  ASSUME NEW book, NEW flow, NEW quote
  PROVE  Cited(Facts(book, flow, quote), Tablo(book, flow, quote))
<1> DEFINE facts == Facts(book, flow, quote)
<1> USE DEF Claim
<1>1. Cited(facts, {Pressure(book)})
  BY DEF Cited, Facts, BookFacts, Pressure
<1>2. Cited(facts, {Spread(book)})
  BY DEF Cited, Facts, Spread
<1>3. Cited(facts, {Depth(book)})
  BY DEF Cited, Facts, BookFacts, Depth
<1>4. Cited(facts, {MoneyFlow(flow)})
  BY DEF Cited, Facts, FlowFacts, MoneyFlow
<1>5. Cited(facts, {Queue(book)})
  BY DEF Cited, Facts, Queue
<1>6. \A c \in Tablo(book, flow, quote) : Cited(facts, {c})
  BY <1>1, <1>2, <1>3, <1>4, <1>5 DEF Tablo
<1> HIDE DEF facts
<1>7. Cited(facts, Tablo(book, flow, quote))
  BY <1>6 DEF Cited
<1> QED
  BY <1>7 DEF facts

(* nav.py *)
LEMMA NavCites ==
  ASSUME NEW type, NEW price, NEW nav, NEW now
  PROVE  Cited(NavAnalysis(type, price, nav, now).facts, NavAnalysis(type, price, nav, now).claims)
<1> DEFINE p == PriceStamp(price, now)
           n == NavStamp(nav, now)
           status == Alignment(p, n)
           apart == Apart(p, n)
           result == NavAnalysis(type, price, nav, now)
<1>1. CASE ~IsApplicable("nav", type)
  <2>1. result = [facts |-> {}, claims |-> {Claim("premium_discount", "not_applicable", {}, 0)}]
    BY <1>1 DEF NavAnalysis
  <2> QED
    BY <2>1 DEF Cited, Claim
<1>2. CASE IsApplicable("nav", type)
  <2>1. result = [facts |-> NavFacts(status, nav),
                  claims |-> IF status = "aligned" THEN Premium(price, nav, apart)
                             ELSE Unavailable({"alignment_status"})]
    BY <1>2 DEF NavAnalysis
  <2> SUFFICES Cited(result.facts, result.claims)
    OBVIOUS
  <2> HIDE DEF p, n, status, apart, result
  <2>2. CASE status # "aligned"
    BY <2>1, <2>2 DEF NavFacts, Cited, Claim, Unavailable
  <2>3. CASE status = "aligned" /\ ~Given(NavValue(nav))
    BY <2>1, <2>3 DEF Premium, Unavailable, Claim, Cited
  <2>4. CASE status = "aligned" /\ Given(NavValue(nav))
    <3>1. \A c \in Premium(price, nav, apart) :
            c.refs \in {{"last_price", "redeem_nav", "premium_discount_pct", "alignment_seconds"},
                        {"premium_discount_pct"}, {"alignment_seconds"}}
      BY <2>4 DEF Premium, Claim
    <3>2. result.facts = {"last_price", "redeem_nav", "premium_discount_pct", "alignment_seconds"}
      BY <2>1, <2>4 DEF NavFacts
    <3> QED
      BY <2>1, <2>4, <3>1, <3>2 DEF Cited
  <2> QED
    BY <2>2, <2>3, <2>4
<1> QED
  BY <1>1, <1>2

(* fundamental.py *)
LEMMA FundamentalCites ==
  ASSUME NEW type, NEW applicable
  PROVE  Cited(FundamentalFacts(type, applicable), Fundamental(type, applicable))
<1>1. ASSUME NEW c \in Fundamental(type, applicable), c.confidence > 0
      PROVE  "liquidity" \in applicable /\ c.refs = {"liquidity_proxy_available"}
  <2>1. \/ "liquidity" \in applicable /\ c \in Universal
        \/ c = Claim(Specific[type][3], "data_unavailable", {Specific[type][2]}, 0)
    BY <1>1 DEF Fundamental
  <2>2. CASE c = Claim(Specific[type][3], "data_unavailable", {Specific[type][2]}, 0)
    BY <1>1, <2>2 DEF Claim
  <2> QED
    BY <1>1, <2>1, <2>2 DEF Universal, Claim
<1> QED
  BY <1>1 DEF Cited, FundamentalFacts

(* technical.py: what one module claims it cites of its own facts.          *)
Sound(result) == result = Raised \/ Cited(result.facts, result.claims)

LEMMA ModulesCite ==
  ASSUME NEW rows, NEW band, NEW applicable
  PROVE  \A r \in Modules(rows, band, applicable) : Sound(r)
<1> USE DEF Claim, Result, Insufficient, Cited, Sound
<1>1. ASSUME NEW prices PROVE Sound(Trend(prices))
  <2>1. CASE Len(prices) < Short
    BY <2>1 DEF Trend
  <2>2. CASE ~(Len(prices) < Short) /\ SumOf(Recent(prices, Short)) = 0
    BY <2>2 DEF Trend
  <2>3. CASE ~(Len(prices) < Short) /\ SumOf(Recent(prices, Short)) # 0
    <3> DEFINE long == Len(prices) >= Long
               direction ==
                 CASE Over(prices, Short) -> IF long /\ Over(prices, Long) THEN "strong_up" ELSE "up"
                   [] Under(prices, Short) -> IF long /\ Under(prices, Long) THEN "strong_down" ELSE "down"
                   [] OTHER -> "neutral"
               used == {"current_price", "sma_20"} \cup (IF long THEN {"sma_50"} ELSE {})
    <3>1. Trend(prices) = Result(used, {Claim("trend_direction", direction, used, 85),
                                        Claim("price_sma_distance", None, {"current_price", "sma_20"}, 80)})
      BY <2>3 DEF Trend
    <3>2. {"current_price", "sma_20"} \subseteq used
      OBVIOUS
    <3> HIDE DEF used, direction, long
    <3> QED
      BY <3>1, <3>2
  <2> QED
    BY <2>1, <2>2, <2>3
<1>2. ASSUME NEW prices PROVE Sound(Momentum(prices))
  <2>1. CASE Len(prices) < RsiDays
    BY <2>1 DEF Momentum
  <2>2. CASE ~(Len(prices) < RsiDays)
    <3> DEFINE state == RsiState(prices)
               signal == MacdSignal(prices)
               macd == Len(prices) >= Slow
    <3>1. Momentum(prices) =
            Result({"rsi_14"} \cup (IF macd THEN {"macd_line"} ELSE {}),
                   {Claim("rsi_state", state, {"rsi_14"}, 80)}
                     \cup (IF macd THEN {Claim("macd_signal", signal, {"macd_line"}, 75)} ELSE {}))
      BY <2>2 DEF Momentum
    <3> HIDE DEF state, signal, macd
    <3> QED
      BY <3>1
  <2> QED
    BY <2>1, <2>2
<1>3. ASSUME NEW prices PROVE Sound(Volatility(prices, band))
  <2> DEFINE long == Len(prices) >= Year
             window == IF Len(prices) > Short THEN Recent(prices, Short + 1) ELSE prices
             used == {"volatility_20", "annualized_volatility"}
             value == IF Steady(window) THEN "very_low" ELSE band
             fall == DrawdownBand(Recent(prices, Year))
             zero == \E i \in 1..Len(prices) - 1 : prices[i] = 0
  <2>1. CASE Len(prices) < Short
    BY <2>1 DEF Volatility
  <2>2. CASE ~(Len(prices) < Short) /\ zero
    BY <2>2 DEF Volatility
  <2>3. CASE ~(Len(prices) < Short) /\ ~zero
    <3>1. Volatility(prices, band) =
            Result(used \cup (IF long THEN {"max_drawdown_90"} ELSE {}),
                   {Claim("volatility_regime", value, used, 80)}
                     \cup (IF long THEN {Claim("max_drawdown_assessment", fall, {"max_drawdown_90"}, 80)}
                           ELSE {}))
      BY <2>3 DEF Volatility
    <3> HIDE DEF long, value, fall
    <3> QED
      BY <3>1
  <2> HIDE DEF zero
  <2> QED
    BY <2>1, <2>2, <2>3
<1>4. ASSUME NEW volumes, NEW prices PROVE Sound(Volume(volumes, prices))
  <2> DEFINE mean == SumOf(Recent(volumes, Short))
             trend == CASE 2 * Short * Last(volumes) > 3 * mean -> "high"
                        [] 2 * Short * Last(volumes) <= mean -> "low"
                        [] OTHER -> "normal"
             used == {"avg_volume_20", "volume_ratio"}
             few == Len(volumes) < Short \/ Len(prices) < Short
             zero == prices[Len(prices) - 1] = 0
  <2>1. CASE few
    BY <2>1 DEF Volume
  <2>2. CASE ~few /\ zero
    BY <2>2 DEF Volume
  <2>3. CASE ~few /\ ~zero
    <3>1. Volume(volumes, prices) = Result(used, {Claim("volume_trend", trend, used, 80)})
      BY <2>3 DEF Volume
    <3> HIDE DEF trend
    <3> QED
      BY <3>1
  <2> HIDE DEF few, zero
  <2> QED
    BY <2>1, <2>2, <2>3
<1>5. \A prices : Sound(PriceStructure(prices))
  BY DEF PriceStructure
<1>6. \A name : Sound(NotApplicable(name))
  BY DEF NotApplicable
<1> HIDE DEF Sound
<1> QED
  BY <1>1, <1>2, <1>3, <1>4, <1>5, <1>6 DEF Modules

LEMMA TechnicalCites ==
  ASSUME NEW rows, NEW band, NEW applicable, NEW of
  PROVE  LET s == Seeing("technical", of, Technicals(rows, band, applicable))
         IN  Cited(s.facts, s.claims)
<1> DEFINE results == Modules(rows, band, applicable)
           facts == UNION {r.facts : r \in results}
           claims == UNION {r.claims : r \in results}
           s == Seeing("technical", of, Technicals(rows, band, applicable))
<1>1. CASE Raised \in results
  BY <1>1 DEF Technicals, Seeing, Seen, Cited
<1>2. CASE Raised \notin results
  <2>1. Cited(facts, claims)
    BY <1>2, ModulesCite DEF Sound, Cited
  <2>2. Technicals(rows, band, applicable) = Result(facts, claims)
    BY <1>2 DEF Technicals
  <2> HIDE DEF results, facts, claims
  <2>3. (s.facts = {} /\ s.claims = {}) \/ (s.facts = facts /\ s.claims = claims)
    BY <2>2 DEF Seeing, Seen, Result
  <2> QED
    BY <2>1, <2>3 DEF Cited
<1> QED
  BY <1>1, <1>2

LEMMA StepCites == ClaimsCiteFacts /\ [Next]_vars => ClaimsCiteFacts'
<1> SUFFICES ASSUME ClaimsCiteFacts, [Next]_vars PROVE ClaimsCiteFacts'
  OBVIOUS
<1>1. ASSUME seen'.claims = {} PROVE ClaimsCiteFacts'
  BY <1>1 DEF ClaimsCiteFacts
<1>2. ASSUME Cited(seen'.facts, seen'.claims) PROVE ClaimsCiteFacts'
  BY <1>2 DEF ClaimsCiteFacts, Cited
<1>3. CASE Gate \/ Aggregate \/ StageRaises \/ HandOver
  BY <1>1, <1>3 DEF Gate, Aggregate, StageRaises, HandOver, Nothing, Seen
<1>4. CASE JudgeMarket
  <2>1. PICK of, facts : seen' = Seen("regime", of, facts, {})
    BY <1>4 DEF JudgeMarket
  <2> QED
    BY <1>1, <2>1 DEF Seen
<1>5. CASE IdentifyFund \/ AssessFunds \/ RankFunds \/ AnalyzePortfolio
  <2>1. PICK engine, of : seen' = Seen(engine, of, {}, {})
    BY <1>5 DEF IdentifyFund, AssessFunds, RankFunds, AnalyzePortfolio
  <2> QED
    BY <1>1, <2>1 DEF Seen
<1>6. CASE ReadBoard
  BY <1>2, <1>6, TabloCites DEF ReadBoard, Seen
<1>7. CASE RunTechnical \/ TechnicalAlone
  BY <1>2, <1>7, TechnicalCites DEF RunTechnical, TechnicalAlone
<1>8. CASE RunNav
  BY <1>2, <1>8, NavCites DEF RunNav, Seen
<1>9. CASE RunFundamental
  BY <1>2, <1>9, FundamentalCites DEF RunFundamental, Seen
<1>10. CASE IdentifyAgain \/ UNCHANGED vars
  BY <1>10 DEF IdentifyAgain, vars, ClaimsCiteFacts
<1> QED
  BY <1>3, <1>4, <1>5, <1>6, <1>7, <1>8, <1>9, <1>10 DEF Next

(* microstructure.py:8, nav.py, technical.py, fundamental.py: whatever the  *)
(* provider and the tables hold, every claim with some confidence cites     *)
(* facts, all of them extracted.                                            *)
THEOREM ClaimsAreFounded == Spec => []ClaimsCiteFacts
<1>1. Init => ClaimsCiteFacts
  BY DEF Init, Nothing, Seen, ClaimsCiteFacts
<1> QED
  BY <1>1, StepCites, PTL DEF Spec

-----------------------------------------------------------------------------
(* What is missing and what is unknown                                      *)

Levels(book) == book.bid.levels \in Nat \ {0} /\ book.ask.levels \in Nat \ {0}

(* microstructure.py: on a book with both sides, and with a money flow, no  *)
(* ladder ends on "unknown".                                                *)
LEMMA NothingUnknown ==
  ASSUME NEW book, NEW flow, NEW quote,
         book # None, Levels(book), flow # None, "unknown" \notin DOMAIN flow
  PROVE  \A c \in Tablo(book, flow, quote) : c.value # "unknown"
<1> USE DEF Claim
<1>1. ~Empty(book.bid) /\ ~Empty(book.ask)
  BY DEF Empty, Levels
<1>2. ASSUME NEW bid, NEW ask PROVE Lean(bid, ask) # "unknown"
  <2> DEFINE steps == << <<75, "strong_buy">>, <<60, "buy">>, <<40, "neutral">>, <<25, "sell">> >>
             fits == {b \in Bounds(steps) : Floor(100 * bid, bid + ask) >= b}
  <2>1. DOMAIN steps \subseteq Nat /\ \A i \in DOMAIN steps : steps[i][2] # "unknown"
    OBVIOUS
  <2>2. Lean(bid, ask) = "neutral" \/ Lean(bid, ask) = FirstOf(steps, fits, "strong_sell")
    BY DEF Lean, AtLeast
  <2> HIDE DEF steps, fits
  <2>3. FirstOf(steps, fits, "strong_sell") # "unknown"
    BY <2>1, FirstOfNames
  <2> QED
    BY <2>2, <2>3
<1>3. Pressure(book).value # "unknown"
  BY <1>2 DEF Pressure, PressureOf
<1>4. ASSUME NEW bid, NEW ask PROVE SpreadOf(bid, ask) # "unknown"
  <2> DEFINE steps == << <<1, "tight">>, <<5, "normal">>, <<20, "wide">> >>
             spread == IF bid + ask > 0 THEN Ceiling(2000 * (ask - bid), ask + bid) ELSE 0
             fits == {b \in Bounds(steps) : spread <= b}
  <2>1. DOMAIN steps \subseteq Nat /\ \A i \in DOMAIN steps : steps[i][2] # "unknown"
    OBVIOUS
  <2>2. SpreadOf(bid, ask) = FirstOf(steps, fits, "crossed")
    BY DEF SpreadOf, AtMost
  <2> HIDE DEF steps, fits, spread
  <2> QED
    BY <2>1, <2>2, FirstOfNames
<1>5. Spread(book).value # "unknown"
  BY <1>1, <1>4 DEF Spread, BookFacts
<1>6. Depth(book).value # "unknown"
  <2> DEFINE levels == book.bid.levels + book.ask.levels
  <2>1. levels >= 2
    BY DEF Levels
  <2> DEFINE some == levels >= 5
             many == levels >= 8
             qty == book.bid.total + book.ask.total
             value == CASE many /\ qty > 100000 -> "deep"
                        [] some /\ qty > 50000 /\ ~(many /\ qty > 100000) -> "moderate"
                        [] levels >= 2 /\ ~(some /\ qty > 50000) -> "shallow"
                        [] OTHER -> "unknown"
  <2>2. Depth(book).value = value
    BY DEF Depth
  <2>3. value # "unknown"
    <3> HIDE DEF levels, some, many, qty
    <3> QED
      BY <2>1
  <2> QED
    BY <2>2, <2>3
<1>7. MoneyFlow(flow).value # "unknown"
  <2> DEFINE over == {k \in DOMAIN flow : \A l \in DOMAIN flow \ {k} : flow[k] > flow[l]}
             most == CHOOSE k \in over : TRUE
  <2>1. over # {} => most \in DOMAIN flow
    OBVIOUS
  <2>2. Dominant(flow) = IF over = {} THEN "balanced" ELSE most
    BY DEF Dominant
  <2> HIDE DEF over, most
  <2> QED
    BY <2>1, <2>2 DEF MoneyFlow
<1>8. Queue(book).value # "unknown"
  BY <1>1 DEF Queue, BookFacts
<1> QED
  BY <1>3, <1>5, <1>6, <1>7, <1>8 DEF Tablo

(* Of a board that misses nothing nothing is unknown.                       *)
LEMMA CompleteBoard ==
  ASSUME NEW board \in Boards \cup LocalBoards, Missing(board) = {}
  PROVE  \A c \in Tablo(board.book, board.flow, board.quote) : c.value # "unknown"
<1>1. /\ board.book # None /\ board.flow # None
      /\ ~Empty(board.book.bid) /\ ~Empty(board.book.ask)
  BY DEF Missing
<1>2. Levels(board.book) /\ "unknown" \notin DOMAIN board.flow
  <2>1. CASE board \in Boards
    BY <1>1, <2>1, BoardsAssumption DEF BoardTypes, Levels, Empty
  <2>2. CASE board \in LocalBoards
    <3>1. PICK days \in Tables :
            LET row == days[Len(days)]
            IN  board = IF row = None THEN [book |-> None, flow |-> None, quote |-> None]
                        ELSE [book |-> LocalBook(row), flow |-> LocalFlow, quote |-> LocalQuote(row)]
      BY <2>2 DEF LocalBoards
    <3> DEFINE row == days[Len(days)]
    <3>2. board.book = LocalBook(row) /\ board.flow = LocalFlow
      BY <1>1, <3>1
    <3> HIDE DEF row
    <3>3. Levels(board.book)
      BY <1>1, <3>2 DEF LocalBook, LocalSide, Levels, Empty
    <3> QED
      BY <3>2, <3>3 DEF LocalFlow
  <2> QED
    BY <2>1, <2>2
<1> QED
  BY <1>1, <1>2, NothingUnknown

(* fund_identity.py: the manager always names a kind of fund.               *)
LEMMA IdentifiedIsKind == ASSUME NEW fund PROVE Identify(fund).type \in Types
<1>1. ASSUME NEW words PROVE ClassifyText(words) \in Types
  <2>1. DOMAIN Rules \subseteq Nat /\ \A i \in DOMAIN Rules : Rules[i][2] \in Types
    BY DEF Rules, Types
  <2>2. "unknown" \in Types
    BY DEF Types
  <2>3. \/ FirstOf(Rules, words, "unknown") = "unknown"
        \/ \E i \in DOMAIN Rules : FirstOf(Rules, words, "unknown") = Rules[i][2]
    BY <2>1, FirstOfNames
  <2> QED
    BY <2>1, <2>2, <2>3 DEF ClassifyText
<1>2. ASSUME NEW label, NEW words PROVE TypeOfRow(label, words) \in Types
  <2>1. \A l \in DOMAIN Labels : Labels[l] \in Types
    BY DEF Labels, Types
  <2> QED
    BY <1>1, <2>1 DEF TypeOfRow
<1>3. "unknown" \in Types
  BY DEF Types
<1>4. FromProvider(fund) \in Types
  BY <1>1, <1>3 DEF FromProvider
<1>5. FromDatabase(fund) \in Types
  <2>1. \/ FromDatabase(fund) = ClassifyText(fund.words)
        \/ FromDatabase(fund) = TypeOfRow(fund.label, fund.words)
        \/ FromDatabase(fund) = "unknown"
    BY DEF FromDatabase
  <2> QED
    BY <1>1, <1>2, <1>3, <2>1
<1> QED
  BY <1>4, <1>5 DEF Identify

(* What the trace of a request says when: the status is the last it learns; *)
(* a stage that has ended has named the kind of the fund, or noted it as    *)
(* missing, or raised, and so for what is unknown of the board.             *)
Identified ==
  trace.type \notin {"unknown", None} \/ "fund_type" \in trace.missing \/ "identity" \in trace.raised

BoardRead == trace.unknown = {} \/ trace.missing # {} \/ "tablo" \in trace.raised

TraceInv ==
  /\ at \in DOMAIN NextStage
  /\ \E conflict, type, missing, unknown, raised, status :
       trace = [conflict |-> conflict, type |-> type, missing |-> missing,
                unknown |-> unknown, raised |-> raised, status |-> status]
  /\ trace.status = "success" => trace.missing = {} /\ at = "aggregate"
  /\ at \in {"tablo", "aggregate"} => Identified
  /\ at = "identity" /\ seen # Nothing => Identified
  /\ at = "aggregate" => BoardRead
  /\ at = "tablo" /\ seen # Nothing => BoardRead

LEMMA StepTrace == TraceInv /\ [Next]_vars => TraceInv'
<1> SUFFICES ASSUME TraceInv, [Next]_vars PROVE TraceInv'
  OBVIOUS
<1> USE DEF NextStage, Identified, BoardRead
<1>0. None \notin {"success", "unknown"}
  BY NoneAssumption
<1>1. PICK conflict, type, missing, unknown, raised, status :
        trace = [conflict |-> conflict, type |-> type, missing |-> missing,
                 unknown |-> unknown, raised |-> raised, status |-> status]
  BY DEF TraceInv
<1>2. ASSUME UNCHANGED <<at, trace>>, at \notin {"identity", "tablo"} \/ UNCHANGED seen
      PROVE  TraceInv'
  BY <1>2 DEF TraceInv, Nothing, Seen
<1>3. CASE JudgeMarket
  BY <1>1, <1>3 DEF JudgeMarket, Begins, TraceInv
<1>4. CASE IdentifyFund
  <2>1. PICK fund \in Funds :
          trace' = [trace EXCEPT !.type = Identify(fund).type,
                                 !.missing = IF Identify(fund).type = "unknown" THEN {"fund_type"} ELSE {}]
    BY <1>4 DEF IdentifyFund
  <2> DEFINE kind == Identify(fund).type
             lost == IF kind = "unknown" THEN {"fund_type"} ELSE {}
  <2>2. kind # None
    BY IdentifiedIsKind, TypesAssumption
  <2>3. kind # "unknown" \/ "fund_type" \in lost
    OBVIOUS
  <2>4. trace' = [trace EXCEPT !.type = kind, !.missing = lost]
    BY <2>1
  <2>5. at = "identity" /\ at' = "identity"
    BY <1>4 DEF IdentifyFund, Begins
  <2> HIDE DEF kind, lost
  <2>6. trace' = [conflict |-> conflict, type |-> kind, missing |-> lost,
                  unknown |-> unknown, raised |-> raised, status |-> status]
    BY <1>1, <2>4
  <2>7. Identified'
    BY <2>2, <2>3, <2>6
  <2> QED
    BY <1>1, <2>5, <2>6, <2>7 DEF TraceInv
<1>5. CASE ReadBoard
  <2>1. PICK board \in Boards \cup LocalBoards :
          LET claims == Tablo(board.book, board.flow, board.quote)
          IN  trace' = [trace EXCEPT !.missing = @ \cup Missing(board),
                                     !.unknown = {c.name : c \in {d \in claims : d.value = "unknown"}}]
    BY <1>5 DEF ReadBoard
  <2> DEFINE found == {c.name : c \in {d \in Tablo(board.book, board.flow, board.quote) : d.value = "unknown"}}
             lost == Missing(board)
  <2>2. lost = {} => found = {}
    BY CompleteBoard
  <2>3. trace' = [conflict |-> conflict, type |-> type, missing |-> missing \cup lost,
                  unknown |-> found, raised |-> raised, status |-> status]
    BY <1>1, <2>1
  <2> HIDE DEF found, lost
  <2>4. at = "tablo" /\ at' = "tablo"
    BY <1>5 DEF ReadBoard, Begins
  <2>5. Identified' /\ BoardRead'
    BY <1>1, <2>2, <2>3, <2>4 DEF TraceInv
  <2> QED
    BY <1>1, <2>3, <2>4, <2>5 DEF TraceInv
<1>6. CASE StageRaises
  <2>1. trace' = [conflict |-> conflict, type |-> type, missing |-> missing,
                  unknown |-> unknown, raised |-> raised \cup {at}, status |-> status]
    BY <1>1, <1>6 DEF StageRaises
  <2>2. at' = at /\ at # "aggregate"
    BY <1>6 DEF StageRaises
  <2> QED
    BY <1>1, <2>1, <2>2 DEF TraceInv
<1>7. CASE Aggregate
  <2>1. PICK outcome :
          /\ trace' = [conflict |-> conflict, type |-> type, missing |-> missing,
                       unknown |-> unknown, raised |-> raised, status |-> outcome]
          /\ outcome = "success" => missing = {}
    BY <1>1, <1>7 DEF Aggregate
  <2>2. at = "aggregate" /\ at' = "aggregate"
    BY <1>7 DEF Aggregate, Begins
  <2> QED
    BY <1>1, <2>1, <2>2 DEF TraceInv
<1>8. CASE TechnicalAlone \/ AssessFunds \/ AnalyzePortfolio
  <2>1. at = "gate" /\ at' \in {"alone", "rank", "portfolio"} /\ trace' = trace
    BY <1>8 DEF TechnicalAlone, AssessFunds, AnalyzePortfolio, Begins
  <2> QED
    BY <2>1 DEF TraceInv
<1>9. ASSUME at' = "gate", trace' = NoTrace PROVE TraceInv'
  BY <1>0, <1>9 DEF NoTrace, TraceInv
<1>10. CASE HandOver
  <2>1. CASE at' = "technical"
    <3>1. trace' = [conflict |-> FALSE, type |-> type, missing |-> {}, unknown |-> None,
                    raised |-> {}, status |-> None]
      BY <1>1, <1>10, <2>1 DEF HandOver, NoTrace
    <3> QED
      BY <1>0, <2>1, <3>1 DEF TraceInv
  <2>2. CASE at' = "gate"
    BY <1>9, <1>10, <2>2 DEF HandOver
  <2>3. CASE at' \notin {"technical", "gate"}
    <3>1. trace' = trace
      BY <1>10, <2>3 DEF HandOver
    <3>2. at' = NextStage[at] /\ seen # Nothing /\ seen' = Nothing
      BY <1>10 DEF HandOver, Nothing, Seen
    <3>3. at \in DOMAIN NextStage
      BY DEF TraceInv
    <3>4. \/ at \in {"gate", "regime"} /\ at' \in {"regime", "identity"}
          \/ at = "identity" /\ at' = "tablo"
          \/ at = "tablo" /\ at' = "aggregate"
          \/ at \in {"technical", "nav"} /\ at' \in {"nav", "fundamental"}
      BY <2>3, <3>2, <3>3
    <3>5. trace.status = "success" => at = "aggregate"
      BY DEF TraceInv
    <3> QED
      BY <3>1, <3>2, <3>4, <3>5 DEF TraceInv
  <2> QED
    BY <2>1, <2>2, <2>3
<1>11. CASE IdentifyAgain
  <2>1. CASE at' = "gate" /\ trace' = NoTrace
    BY <1>9, <2>1
  <2>2. CASE at' = at /\ \E fund \in Funds : trace' = [trace EXCEPT !.type = Identify(fund).type]
    <3>1. PICK kind : trace' = [conflict |-> conflict, type |-> kind, missing |-> missing,
                                unknown |-> unknown, raised |-> raised, status |-> status]
      BY <1>1, <2>2
    <3>2. at = "technical"
      BY <1>11 DEF IdentifyAgain, Begins
    <3> QED
      BY <1>1, <2>2, <3>1, <3>2 DEF TraceInv
  <2> QED
    BY <1>11, <2>1, <2>2 DEF IdentifyAgain
<1>12. CASE Gate \/ RunTechnical \/ RunNav \/ RunFundamental \/ RankFunds \/ UNCHANGED vars
  BY <1>2, <1>12 DEF Gate, RunTechnical, RunNav, RunFundamental, RankFunds, Begins, vars
<1> QED
  BY <1>3, <1>4, <1>5, <1>6, <1>7, <1>8, <1>10, <1>11, <1>12 DEF Next

(* phase1_pipeline.py:429, 453: whatever the provider and the databases     *)
(* answer, and whichever stages raise, a report called a success has read   *)
(* the order book, the money flow and the kind of the fund, or its trace    *)
(* says which of the stages raised.                                         *)
THEOREM SuccessReadAll == Spec => []SuccessIsComplete
<1>1. Init => TraceInv
  <2> SUFFICES ASSUME Init PROVE TraceInv
    OBVIOUS
  <2>1. None # "success"
    BY NoneAssumption
  <2>2. trace = [conflict |-> FALSE, type |-> None, missing |-> {}, unknown |-> None,
                 raised |-> {}, status |-> None]
    BY DEF Init, NoTrace
  <2>3. at = "gate" /\ at \in DOMAIN NextStage
    BY DEF Init, NextStage
  <2> QED
    BY <2>1, <2>2, <2>3 DEF TraceInv
<1>2. TraceInv => SuccessIsComplete
  BY DEF TraceInv, SuccessIsComplete, Identified, BoardRead
<1> QED
  BY <1>1, <1>2, StepTrace, PTL DEF Spec

-----------------------------------------------------------------------------
(* Folds                                                                    *)

(* g is what a fold computes for the sets of D: base for the empty set, and *)
(* for another one a step from the element c chooses and the rest.          *)
Folding(g, D, base, step, c) ==
  \A s \in D : g[s] = IF s = {} THEN base ELSE step[<<c[s], g[s \ {c[s]}]>>]

(* c chooses from every set an element of it.                              *)
Peels(S, c) == \A s \in SUBSET S : s # {} => c[s] \in s

(* A fold over a finite set is a function, with the values its steps have:  *)
(* built up by the number of elements.                                      *)
LEMMA FoldDefined ==
  ASSUME NEW S, IsFiniteSet(S), NEW A, NEW base \in A, NEW step \in [S \X A -> A], NEW c, Peels(S, c)
  PROVE  \E g \in [SUBSET S -> A] : Folding(g, SUBSET S, base, step, c)
<1> USE DEF Peels
<1> DEFINE Level(k) == {s \in SUBSET S : Cardinality(s) <= k}
           Built(k) == \E g \in [Level(k) -> A] : Folding(g, Level(k), base, step, c)
           Bad == {k \in Nat : ~Built(k)}
<1>1. \A s \in SUBSET S : IsFiniteSet(s) /\ Cardinality(s) \in Nat
  BY FS_Subset, FS_CardinalityType
<1>2. ASSUME NEW n \in Nat, n # 0, NEW s \in Level(n), s # {}
      PROVE  s \ {c[s]} \in Level(n - 1)
  <2>1. IsFiniteSet(s) /\ Cardinality(s) \in Nat /\ s \in SUBSET S /\ c[s] \in s
    BY <1>1, <1>2
  <2>2. Cardinality(s \ {c[s]}) = Cardinality(s) - 1
    BY <2>1, FS_RemoveElement
  <2> QED
    BY <1>2, <2>1, <2>2
<1>3. ASSUME Bad # {} PROVE FALSE
  <2>1. PICK n \in Bad : \A m \in Bad : n <= m
    <3>1. Bad \subseteq Nat
      OBVIOUS
    <3> HIDE DEF Bad
    <3> QED
      BY <1>3, <3>1, NatLeast
  <2>2. n \in Nat /\ ~Built(n)
    BY <2>1
  <2>3. CASE n = 0
    <3> DEFINE g == [s \in Level(0) |-> base]
    <3>1. \A s \in Level(0) : s = {}
      BY <1>1, FS_EmptySet
    <3>2. Folding(g, Level(0), base, step, c)
      BY <3>1 DEF Folding
    <3>3. g \in [Level(0) -> A]
      OBVIOUS
    <3> QED
      BY <2>2, <2>3, <3>2, <3>3
  <2>4. CASE n # 0
    <3>0. n - 1 \in Nat /\ ~(n <= n - 1)
      BY <2>2, <2>4
    <3>1. n - 1 \in Nat /\ n - 1 \notin Bad
      <4> HIDE DEF Bad
      <4> QED
        BY <2>1, <3>0
    <3>2. PICK g \in [Level(n - 1) -> A] : Folding(g, Level(n - 1), base, step, c)
      BY <3>1
    <3> DEFINE h == [s \in Level(n) |-> IF s = {} THEN base ELSE step[<<c[s], g[s \ {c[s]}]>>]]
    <3>3. ASSUME NEW s \in Level(n) PROVE h[s] \in A
      <4>1. CASE s # {}
        <5>1. g[s \ {c[s]}] \in A
          BY <1>2, <2>2, <2>4, <3>2, <4>1
        <5>2. c[s] \in S
          BY <4>1
        <5>3. step[<<c[s], g[s \ {c[s]}]>>] \in A
          BY <5>1, <5>2
        <5> QED
          BY <4>1, <5>3
      <4>2. CASE s = {}
        BY <4>2
      <4> QED
        BY <4>1, <4>2
    <3>4. h \in [Level(n) -> A]
      BY <3>3
    <3>5. ASSUME NEW s \in Level(n - 1) PROVE s \in Level(n) /\ h[s] = g[s]
      <4>1. s \in Level(n)
        BY <1>1, <2>2, <3>1
      <4>2. g[s] = IF s = {} THEN base ELSE step[<<c[s], g[s \ {c[s]}]>>]
        BY <3>2 DEF Folding
      <4> HIDE DEF Level
      <4> QED
        BY <4>1, <4>2
    <3>6. ASSUME NEW s \in Level(n)
          PROVE  h[s] = IF s = {} THEN base ELSE step[<<c[s], h[s \ {c[s]}]>>]
      <4>1. s # {} => s \ {c[s]} \in Level(n - 1)
        BY <1>2, <2>2, <2>4
      <4>2. s # {} => h[s \ {c[s]}] = g[s \ {c[s]}]
        BY <3>5, <4>1
      <4> HIDE DEF Level
      <4> QED
        BY <4>2
    <3> HIDE DEF h
    <3>7. Folding(h, Level(n), base, step, c)
      BY <3>6 DEF Folding
    <3> QED
      BY <2>2, <3>4, <3>7
  <2> QED
    BY <2>3, <2>4
<1>4. Built(Cardinality(S))
  BY <1>1, <1>3
<1>5. Level(Cardinality(S)) = SUBSET S
  <2>1. \A s \in SUBSET S : Cardinality(s) <= Cardinality(S)
    BY FS_Subset
  <2> QED
    BY <2>1
<1> HIDE DEF Level
<1> QED
  BY <1>4, <1>5

(* What holds of the empty set, and of a set whenever it holds of the rest  *)
(* of it, holds of every set a fold passes.                                 *)
Grows(S, c, Q) == {} \in Q /\ \A s \in SUBSET S : s # {} /\ s \ {c[s]} \in Q => s \in Q

LEMMA PeelInduction ==
  ASSUME NEW S, IsFiniteSet(S), NEW c, Peels(S, c), NEW Q, Grows(S, c, Q)
  PROVE  SUBSET S \subseteq Q
<1> USE DEF Peels, Grows
<1> DEFINE Sizes == {Cardinality(s) : s \in {t \in SUBSET S : t \notin Q}}
<1>1. \A s \in SUBSET S : IsFiniteSet(s) /\ Cardinality(s) \in Nat
  BY FS_Subset, FS_CardinalityType
<1>2. ASSUME Sizes # {} PROVE FALSE
  <2>1. PICK n \in Sizes : \A m \in Sizes : n <= m
    <3>1. Sizes \subseteq Nat
      BY <1>1
    <3> HIDE DEF Sizes
    <3> QED
      BY <1>2, <3>1, NatLeast
  <2>2. PICK s \in SUBSET S : s \notin Q /\ Cardinality(s) = n
    OBVIOUS
  <2>3. s # {}
    BY <2>2
  <2>4. Cardinality(s \ {c[s]}) = Cardinality(s) - 1
    BY <1>1, <2>3, FS_RemoveElement
  <2>5. Cardinality(s \ {c[s]}) \notin Sizes
    BY <1>1, <2>1, <2>2, <2>4
  <2>6. s \ {c[s]} \in Q
    BY <2>5
  <2> QED
    BY <2>2, <2>3, <2>6
<1> QED
  BY <1>2

-----------------------------------------------------------------------------
(* Sums over sets                                                           *)

(* g is the sum of a over the sets a fold passes.                           *)
Adds(K, a, c, g) ==
  /\ g \in [SUBSET K -> Int] /\ g[{}] = 0
  /\ \A s \in SUBSET K : s # {} => g[s] = a[c[s]] + g[s \ {c[s]}]

AnyOf(K) == [s \in SUBSET K |-> CHOOSE x \in s : TRUE]

(* MapThenSumSet, with the values in a function.                            *)
Summing(K, a, g) ==
  g = [s \in SUBSET K |-> IF s = {} THEN 0
                         ELSE LET x == CHOOSE x \in s : TRUE IN a[x] + g[s \ {x}]]

LEMMA AnyPeels == ASSUME NEW K PROVE Peels(K, AnyOf(K))
BY DEF Peels, AnyOf

LEMMA SumExists ==
  ASSUME NEW K, IsFiniteSet(K), NEW a \in [K -> Int] PROVE \E g : Summing(K, a, g)
<1> DEFINE step == [p \in K \X Int |-> a[p[1]] + p[2]]
           c == AnyOf(K)
<1>1. step \in [K \X Int -> Int]
  OBVIOUS
<1>2. Peels(K, c)
  BY AnyPeels
<1>3. PICK g \in [SUBSET K -> Int] : Folding(g, SUBSET K, 0, step, c)
  <2> DEFINE A == Int
  <2>1. 0 \in A /\ step \in [K \X A -> A]
    BY <1>1
  <2> HIDE DEF A, step, c
  <2>2. \E g \in [SUBSET K -> A] : Folding(g, SUBSET K, 0, step, c)
    BY <1>2, <2>1, FoldDefined
  <2> QED
    BY <2>2 DEF A
<1>4. ASSUME NEW s \in SUBSET K
      PROVE  g[s] = IF s = {} THEN 0 ELSE LET x == CHOOSE x \in s : TRUE IN a[x] + g[s \ {x}]
  <2>1. g[s] = IF s = {} THEN 0 ELSE step[<<c[s], g[s \ {c[s]}]>>]
    BY <1>3 DEF Folding
  <2>2. s # {} => c[s] \in K /\ g[s \ {c[s]}] \in Int
    BY <1>2, <1>3 DEF Peels
  <2>3. s # {} => step[<<c[s], g[s \ {c[s]}]>>] = a[c[s]] + g[s \ {c[s]}]
    BY <2>2
  <2>4. c[s] = CHOOSE x \in s : TRUE
    BY DEF AnyOf
  <2> HIDE DEF step, c
  <2> QED
    BY <2>1, <2>3, <2>4
<1> QED
  BY <1>3, <1>4 DEF Summing

LEMMA SumAdds ==
  ASSUME NEW K, IsFiniteSet(K), NEW a \in [K -> Int], NEW g, Summing(K, a, g)
  PROVE  Adds(K, a, AnyOf(K), g)
<1> DEFINE c == AnyOf(K)
           Q == {s \in SUBSET K : g[s] \in Int}
<1>1. g[{}] = 0
  BY DEF Summing
<1>2. ASSUME NEW s \in SUBSET K, s # {} PROVE c[s] \in s /\ g[s] = a[c[s]] + g[s \ {c[s]}]
  <2>1. c[s] \in s
    BY <1>2, AnyPeels DEF Peels
  <2>2. g[s] = LET x == CHOOSE x \in s : TRUE IN a[x] + g[s \ {x}]
    BY <1>2 DEF Summing
  <2> QED
    BY <2>1, <2>2 DEF AnyOf
<1> HIDE DEF c
<1>3. Grows(K, c, Q)
  <2>1. ASSUME NEW s \in SUBSET K, s # {}, s \ {c[s]} \in Q PROVE g[s] \in Int
    <3>1. a[c[s]] \in Int
      BY <1>2, <2>1
    <3> QED
      BY <1>2, <2>1, <3>1
  <2> QED
    BY <1>1, <2>1 DEF Grows
<1>4. Peels(K, c)
  BY AnyPeels DEF c
<1>5. SUBSET K \subseteq Q
  <2> HIDE DEF Q
  <2> QED
    BY <1>3, <1>4, PeelInduction
<1>6. g \in [SUBSET K -> Int]
  BY <1>5 DEF Summing
<1>7. Adds(K, a, c, g)
  BY <1>1, <1>2, <1>6 DEF Adds
<1> QED
  BY <1>7 DEF c

(* Of greater values the sum is greater, by as much as one value is.        *)
LEMMA SumsCompare ==
  ASSUME NEW K, IsFiniteSet(K), NEW a \in [K -> Int], NEW b \in [K -> Int], NEW c, Peels(K, c),
         NEW g, Adds(K, a, c, g), NEW h, Adds(K, b, c, h),
         \A k \in K : a[k] <= b[k], NEW d \in Int, NEW j \in K, a[j] + d <= b[j]
  PROVE  g[K] + d <= h[K]
<1> DEFINE Q == {s \in SUBSET K : g[s] <= h[s] /\ (j \in s => g[s] + d <= h[s])}
<1>1. {} \in Q
  BY DEF Adds
<1>2. ASSUME NEW s \in SUBSET K, s # {}, s \ {c[s]} \in Q PROVE s \in Q
  <2>1. c[s] \in s /\ c[s] \in K
    BY <1>2 DEF Peels
  <2>2. /\ g[s] = a[c[s]] + g[s \ {c[s]}] /\ h[s] = b[c[s]] + h[s \ {c[s]}]
        /\ g[s \ {c[s]}] \in Int /\ h[s \ {c[s]}] \in Int
    BY <1>2 DEF Adds
  <2>3. a[c[s]] \in Int /\ b[c[s]] \in Int /\ a[c[s]] <= b[c[s]]
    BY <2>1
  <2>4. g[s] <= h[s]
    BY <1>2, <2>2, <2>3
  <2>5. CASE j = c[s]
    BY <1>2, <2>2, <2>3, <2>4, <2>5
  <2>6. CASE j # c[s]
    BY <1>2, <2>2, <2>3, <2>4, <2>6
  <2> QED
    BY <2>5, <2>6
<1>3. Grows(K, c, Q)
  BY <1>1, <1>2 DEF Grows
<1>4. SUBSET K \subseteq Q
  <2> HIDE DEF Q
  <2> QED
    BY <1>3, PeelInduction
<1> QED
  BY <1>4

-----------------------------------------------------------------------------
(* The regime of the market                                                 *)

Weighty(evidence) == IsFiniteSet(evidence) /\ \A e \in evidence : e.weight \in Nat

(* market_regime.py: a score is a sum of weights, and zero without evidence. *)
LEMMA WeighIsSum ==
  ASSUME NEW evidence, Weighty(evidence)
  PROVE  Weigh(evidence) \in Nat /\ (evidence = {} => Weigh(evidence) = 0)
<1> DEFINE a == [e \in evidence |-> e.weight]
           c == AnyOf(evidence)
           Rec(g) == g = [s \in SUBSET evidence |->
                            IF s = {} THEN 0
                            ELSE LET x == CHOOSE x \in s : TRUE IN x.weight + g[s \ {x}]]
           iter == CHOOSE g : Rec(g)
<1>1. Weigh(evidence) = iter[evidence]
  BY DEF Weigh, MapThenSumSet, MapThenFoldSet
<1>2. a \in [evidence -> Int] /\ IsFiniteSet(evidence)
  BY DEF Weighty
<1>3. \A g : Rec(g) <=> Summing(evidence, a, g)
  BY DEF Summing
<1>4. Rec(iter)
  <2>1. \E g : Rec(g)
    <3> HIDE DEF a, Rec
    <3> QED
      BY <1>2, <1>3, SumExists
  <2> HIDE DEF Rec
  <2> QED
    BY <2>1
<1> HIDE DEF iter, Rec
<1>5. Adds(evidence, a, c, iter)
  <2> HIDE DEF a
  <2> QED
    BY <1>2, <1>3, <1>4, SumAdds
<1> DEFINE Q == {s \in SUBSET evidence : iter[s] \in Nat}
<1>6. ASSUME NEW s \in SUBSET evidence, s # {}, s \ {c[s]} \in Q PROVE s \in Q
  <2>1. c[s] \in evidence
    BY <1>6, AnyPeels DEF Peels
  <2>2. a[c[s]] \in Nat
    BY <2>1 DEF Weighty
  <2>3. iter[s] = a[c[s]] + iter[s \ {c[s]}]
    BY <1>5, <1>6 DEF Adds
  <2> HIDE DEF a, c
  <2> QED
    BY <1>6, <2>2, <2>3
<1>7. {} \in Q
  BY <1>5 DEF Adds
<1> HIDE DEF c
<1>8. Peels(evidence, c)
  BY AnyPeels DEF c
<1>9. SUBSET evidence \subseteq Q
  <2>1. Grows(evidence, c, Q)
    BY <1>6, <1>7 DEF Grows
  <2> HIDE DEF Q
  <2> QED
    BY <1>2, <1>8, <2>1, PeelInduction
<1>10. iter[{}] = 0
  BY <1>5 DEF Adds
<1> QED
  BY <1>1, <1>9, <1>10

(* market_regime.py: a side is only taken when it alone has the most        *)
(* points; NEUTRAL never has the most without TRANSITION.                   *)
LEMMA SideHasEvidence ==
  ASSUME NEW evidence, Weighty(evidence), NEW r \in {"RISK_ON", "RISK_OFF"}, Regime(evidence) = r
  PROVE  \E e \in evidence : Supports(e, r)
<1> DEFINE on == {e \in evidence : e.side = "above" /\ e.sign > 0 /\ e.metric \in OnMetrics}
           off == {e \in evidence : e.side = "below" /\ e.sign < 0 /\ e.metric \in OffMetrics}
           within == {e \in evidence : e.side = "within"}
           wide == {e \in evidence : e.metric = "return_dispersion"}
           scores == Scores(evidence)
           top == {s \in DOMAIN scores : \A q \in DOMAIN scores : scores[s] >= scores[q]}
<1>1. /\ Weigh(on) \in Nat /\ (on = {} => Weigh(on) = 0)
      /\ Weigh(off) \in Nat /\ (off = {} => Weigh(off) = 0)
      /\ Weigh(within) \in Nat /\ Weigh(wide) \in Nat
  <2>1. \A part \in SUBSET evidence : Weighty(part)
    BY FS_Subset DEF Weighty
  <2>2. Weighty(on) /\ Weighty(off) /\ Weighty(within) /\ Weighty(wide)
    BY <2>1
  <2> HIDE DEF on, off, within, wide
  <2> QED
    BY <2>2, WeighIsSum
<1>2. scores = [RISK_ON |-> 2 * Weigh(on), RISK_OFF |-> 2 * Weigh(off), NEUTRAL |-> Weigh(within),
                TRANSITION |-> 2 * Weigh(within) + 2 * Weigh(wide)]
  BY DEF Scores
<1>3. CASE on # {} /\ r = "RISK_ON"
  BY <1>3 DEF Supports
<1>4. CASE off # {} /\ r = "RISK_OFF"
  BY <1>4 DEF Supports
<1>5. Regime(evidence) =
        CASE evidence = {} -> "UNKNOWN"
          [] evidence # {} /\ Cardinality(top) = 1 -> CHOOSE s \in top : TRUE
          [] evidence # {} /\ Cardinality(top) > 1
               /\ ("TRANSITION" \in top \/ {"RISK_ON", "RISK_OFF"} \subseteq top) -> "TRANSITION"
          [] OTHER -> IF "RISK_ON" \in top THEN "RISK_ON" ELSE "RISK_OFF"
  BY DEF Regime
<1> HIDE DEF on, off, within, wide
<1>6. /\ DOMAIN scores = {"RISK_ON", "RISK_OFF", "NEUTRAL", "TRANSITION"}
      /\ scores["RISK_ON"] = 2 * Weigh(on) /\ scores["RISK_OFF"] = 2 * Weigh(off)
      /\ scores["NEUTRAL"] \in Nat /\ scores["TRANSITION"] >= scores["NEUTRAL"]
      /\ scores["RISK_ON"] \in Nat /\ scores["RISK_OFF"] \in Nat /\ scores["TRANSITION"] \in Nat
  BY <1>1, <1>2
<1> HIDE DEF scores
<1>7. "NEUTRAL" \in top => "TRANSITION" \in top
  BY <1>6
<1>8. top \subseteq DOMAIN scores /\ top # {}
  BY <1>6
<1>9. r \in top /\ "NEUTRAL" \notin top => scores[r] > 0
  BY <1>6
<1> HIDE DEF top
<1>10. r \in top /\ "NEUTRAL" \notin top
  <2>1. IsFiniteSet(top) /\ Cardinality(top) \in Nat /\ Cardinality(top) # 0
    <3>1. IsFiniteSet(DOMAIN scores)
      <4>1. DOMAIN scores = (({"RISK_ON"} \cup {"RISK_OFF"}) \cup {"NEUTRAL"}) \cup {"TRANSITION"}
        BY <1>6
      <4>2. IsFiniteSet({"RISK_ON"})
        BY FS_Singleton
      <4>3. IsFiniteSet(({"RISK_ON"} \cup {"RISK_OFF"}) \cup {"NEUTRAL"})
        BY <4>2, FS_AddElement
      <4> QED
        BY <4>1, <4>3, FS_AddElement
    <3> QED
      BY <1>8, <3>1, FS_Subset, FS_CardinalityType, FS_EmptySet
  <2>2. CASE Cardinality(top) = 1
    <3>1. PICK t : top = {t}
      BY <2>1, <2>2, FS_Singleton
    <3>2. Regime(evidence) \in {t, "UNKNOWN"}
      BY <1>5, <2>2, <3>1
    <3> QED
      BY <3>1, <3>2
  <2>3. CASE Cardinality(top) # 1
    <3>1. Cardinality(top) > 1 /\ \A t : top # {t}
      BY <2>1, <2>3, FS_Singleton
    <3>2. "TRANSITION" \notin top /\ ~({"RISK_ON", "RISK_OFF"} \subseteq top)
      BY <1>5, <3>1
    <3>3. top \subseteq {"RISK_ON"} \/ top \subseteq {"RISK_OFF"}
      BY <1>6, <1>7, <1>8, <3>2
    <3> QED
      BY <1>8, <3>1, <3>3
  <2> QED
    BY <2>2, <2>3
<1>11. on # {} \/ r # "RISK_ON"
  BY <1>1, <1>6, <1>9, <1>10
<1>12. off # {} \/ r # "RISK_OFF"
  BY <1>1, <1>6, <1>9, <1>10
<1> QED
  BY <1>3, <1>4, <1>11, <1>12

(* The evidence of a market is a few pieces, their weights numbers.         *)
LEMMA EvidenceIsWeighty == ASSUME NEW m PROVE Weighty(Evidence(m))
<1> DEFINE AtMostOne(part) == part = {} \/ \E e : part = {e} /\ e.weight \in Nat
<1>1. AtMostOne(AverageEvidence(m.avg))
  BY DEF AverageEvidence, Piece
<1>2. AtMostOne(LevelEvidence("total_volume", m.volume, 500, 1000, 3))
  BY DEF LevelEvidence, Piece
<1>3. AtMostOne(LevelEvidence("total_value", m.value, 1, 5, 2))
  BY DEF LevelEvidence, Piece
<1>4. AtMostOne(BreadthEvidence(m))
  BY DEF BreadthEvidence, Piece
<1>5. AtMostOne(IF m.dispersed THEN {Piece("return_dispersion", "above", 2, 1)} ELSE {})
  BY DEF Piece
<1>6. ASSUME NEW a, NEW b, Weighty(a), Weighty(b) PROVE Weighty(a \cup b)
  BY <1>6, FS_Union DEF Weighty
<1>7. ASSUME NEW a, AtMostOne(a) PROVE Weighty(a)
  BY <1>7, FS_EmptySet, FS_Singleton DEF Weighty
<1>8. Weighty(GroupEvidence(m.groups))
  <2> DEFINE best == IF \E g \in m.groups : g.sum > 10 * g.n
                     THEN {Piece("best_group_momentum", "above", 1, 1)} ELSE {}
             worst == IF \E g \in m.groups : g.sum < -10 * g.n
                      THEN {Piece("worst_group_momentum", "below", 1, -1)} ELSE {}
  <2>1. AtMostOne(best) /\ AtMostOne(worst)
    BY DEF Piece
  <2>2. GroupEvidence(m.groups) = best \cup worst
    BY DEF GroupEvidence
  <2> HIDE DEF best, worst, AtMostOne
  <2> QED
    BY <1>6, <1>7, <2>1, <2>2
<1> DEFINE average == AverageEvidence(m.avg)
           volume == LevelEvidence("total_volume", m.volume, 500, 1000, 3)
           value == LevelEvidence("total_value", m.value, 1, 5, 2)
           breadth == BreadthEvidence(m)
           wide == IF m.dispersed THEN {Piece("return_dispersion", "above", 2, 1)} ELSE {}
           group == GroupEvidence(m.groups)
<1>9. Evidence(m) = ((((average \cup volume) \cup value) \cup breadth) \cup wide) \cup group
  BY DEF Evidence
<1>10. /\ Weighty(average) /\ Weighty(volume) /\ Weighty(value)
       /\ Weighty(breadth) /\ Weighty(wide) /\ Weighty(group)
  <2> HIDE DEF AtMostOne
  <2> QED
    BY <1>1, <1>2, <1>3, <1>4, <1>5, <1>7, <1>8
<1> HIDE DEF average, volume, value, breadth, wide, group
<1>11. Weighty((average \cup volume) \cup value)
  BY <1>6, <1>10
<1>12. Weighty((((average \cup volume) \cup value) \cup breadth) \cup wide)
  BY <1>6, <1>10, <1>11
<1> QED
  BY <1>6, <1>9, <1>10, <1>12

LEMMA StepSupports == RegimeIsSupported /\ [Next]_vars => RegimeIsSupported'
<1> SUFFICES ASSUME RegimeIsSupported, [Next]_vars PROVE RegimeIsSupported'
  OBVIOUS
<1>1. ASSUME NEW engine, engine # "regime", NEW of, NEW facts, NEW claims, seen' = Seen(engine, of, facts, claims)
      PROVE  RegimeIsSupported'
  BY <1>1 DEF RegimeIsSupported, Seen
<1>2. CASE JudgeMarket
  <2>1. PICK m : seen' = Seen("regime", Regime(Evidence(m)), Evidence(m), {})
    BY <1>2 DEF JudgeMarket
  <2> DEFINE evidence == Evidence(m)
  <2>2. Weighty(evidence)
    BY EvidenceIsWeighty
  <2>3. seen'.of = Regime(evidence) /\ seen'.facts = evidence
    BY <2>1 DEF Seen
  <2> HIDE DEF evidence
  <2> QED
    BY <2>2, <2>3, SideHasEvidence DEF RegimeIsSupported
<1>3. CASE Gate \/ Aggregate \/ StageRaises \/ HandOver
  BY <1>1, <1>3 DEF Gate, Aggregate, StageRaises, HandOver, Nothing
<1>4. CASE IdentifyFund \/ AssessFunds \/ RankFunds \/ AnalyzePortfolio
  <2>1. PICK engine, of : engine # "regime" /\ seen' = Seen(engine, of, {}, {})
    BY <1>4 DEF IdentifyFund, AssessFunds, RankFunds, AnalyzePortfolio
  <2> QED
    BY <1>1, <2>1
<1>5. CASE ReadBoard \/ RunNav \/ RunFundamental
  <2>1. PICK engine, of, facts, claims : engine # "regime" /\ seen' = Seen(engine, of, facts, claims)
    BY <1>5 DEF ReadBoard, RunNav, RunFundamental
  <2> QED
    BY <1>1, <2>1
<1>6. CASE RunTechnical \/ TechnicalAlone
  <2>1. PICK of, result : seen' = Seeing("technical", of, result)
    BY <1>6 DEF RunTechnical, TechnicalAlone
  <2> QED
    BY <1>1, <2>1 DEF Seeing
<1>7. CASE IdentifyAgain \/ UNCHANGED vars
  BY <1>7 DEF IdentifyAgain, vars, RegimeIsSupported
<1> QED
  BY <1>2, <1>3, <1>4, <1>5, <1>6, <1>7 DEF Next

(* market_regime.py: the regime of no market, live or from a snapshot, is   *)
(* RISK_ON or RISK_OFF without a piece of evidence for that side.           *)
THEOREM SidesAreSupported == Spec => []RegimeIsSupported
<1>1. Init => RegimeIsSupported
  BY DEF Init, Nothing, Seen, RegimeIsSupported
<1> QED
  BY <1>1, StepSupports, PTL DEF Spec

-----------------------------------------------------------------------------
(* Folds over sequences                                                     *)

LEMMA MaxIn ==
  ASSUME NEW n \in Nat, NEW t \in SUBSET (1..n), t # {}
  PROVE  Max(t) \in t /\ \A m \in t : m <= Max(t)
<1> DEFINE Gaps == {n - m : m \in t}
<1>1. Gaps \subseteq Nat /\ Gaps # {}
  <2>1. \A m \in 1..n : n - m \in Nat
    OBVIOUS
  <2>2. \A m \in t : n - m \in Nat
    BY <2>1
  <2> QED
    BY <2>2
<1> HIDE DEF Gaps
<1>2. PICK g \in Gaps : \A h \in Gaps : g <= h
  BY <1>1, NatLeast
<1>3. PICK x \in t : g = n - x
  BY DEF Gaps
<1>4. ASSUME NEW m \in t PROVE x >= m
  <2>1. n - m \in Gaps
    BY DEF Gaps
  <2>2. n - x <= n - m
    BY <1>2, <1>3, <2>1
  <2> QED
    BY <1>3, <2>2
<1>5. Max(t) \in t /\ \A m \in t : Max(t) >= m
  BY <1>4 DEF Max
<1> QED
  BY <1>5

LEMMA PrefixFacts ==
  ASSUME NEW n \in Nat, NEW k \in 1..n
  PROVE  /\ 1..k \in SUBSET (1..n) /\ 1..k # {} /\ Max(1..k) = k
         /\ (1..k) \ {k} = 1..(k - 1) /\ k - 1 \in 0..n
<1>1. 1..k \in SUBSET (1..n) /\ k \in 1..k
  OBVIOUS
<1>2. Max(1..k) \in 1..k /\ k <= Max(1..k)
  BY <1>1, MaxIn
<1>3. Max(1..k) = k
  BY <1>2
<1>4. (1..k) \ {k} = 1..(k - 1)
  OBVIOUS
<1> QED
  BY <1>1, <1>3, <1>4

LEMMA PrefixInduction ==
  ASSUME NEW n \in Nat, NEW Q, 0 \in Q, \A k \in 1..n : k - 1 \in Q => k \in Q
  PROVE  0..n \subseteq Q
<1> DEFINE T == {k \in 0..n : k \notin Q}
<1>1. ASSUME T # {} PROVE FALSE
  <2>1. T \subseteq Nat
    OBVIOUS
  <2> HIDE DEF T
  <2>2. PICK k \in T : \A m \in T : k <= m
    BY <1>1, <2>1, NatLeast
  <2>3. k \in 0..n /\ k \notin Q
    BY DEF T
  <2>4. k \in 1..n
    BY <2>3
  <2>5. k - 1 \in 0..n /\ ~(k <= k - 1)
    BY <2>4
  <2>6. k - 1 \in Q
    BY <2>2, <2>5 DEF T
  <2> QED
    BY <2>3, <2>4, <2>6
<1> QED
  BY <1>1

Highest(n) == [t \in SUBSET (1..n) |-> Max(t)]

(* A fold from the left is a function on the sets of places, with the       *)
(* values its steps have.                                                   *)
Run(n, A, base, step, g) ==
  /\ g \in [SUBSET (1..n) -> A] /\ g[{}] = base
  /\ \A t \in SUBSET (1..n) : t # {} =>
       /\ Max(t) \in 1..n /\ g[t \ {Max(t)}] \in A
       /\ g[t] = step[<<Max(t), g[t \ {Max(t)}]>>]

LEMMA SeqFold ==
  ASSUME NEW n \in Nat, NEW A, NEW base \in A, NEW step \in [(1..n) \X A -> A]
  PROVE  \E g : Run(n, A, base, step, g)
<1> DEFINE S == 1..n
           c == Highest(n)
<1>1. IsFiniteSet(S)
  BY FS_Interval
<1>2. Peels(S, c)
  BY MaxIn DEF Peels, Highest
<1>3. step \in [S \X A -> A]
  OBVIOUS
<1>4. PICK g \in [SUBSET S -> A] : Folding(g, SUBSET S, base, step, c)
  <2> HIDE DEF S, c
  <2> QED
    BY <1>1, <1>2, <1>3, FoldDefined
<1>5. g[{}] = base
  BY <1>4 DEF Folding
<1>6. ASSUME NEW t \in SUBSET (1..n), t # {}
      PROVE  /\ Max(t) \in 1..n /\ g[t \ {Max(t)}] \in A
             /\ g[t] = step[<<Max(t), g[t \ {Max(t)}]>>]
  <2>1. Max(t) \in 1..n
    BY <1>6, MaxIn
  <2>2. g[t \ {Max(t)}] \in A
    BY <1>4
  <2>3. g[t] = step[<<c[t], g[t \ {c[t]}]>>]
    BY <1>4, <1>6 DEF Folding
  <2>4. c[t] = Max(t)
    BY DEF Highest
  <2> HIDE DEF c
  <2> QED
    BY <2>1, <2>2, <2>3, <2>4
<1> QED
  BY <1>4, <1>5, <1>6 DEF Run

(* What Without does, member by member.                                     *)
Drops(s, out, r) ==
  /\ r[0] = <<>>
  /\ \A k \in 1..Len(s) : r[k] = IF s[k] \in out THEN r[k - 1] ELSE Append(r[k - 1], s[k])

LEMMA SeqFacts ==
  ASSUME NEW V, NEW s \in Seq(V)
  PROVE  Len(s) \in Nat /\ DOMAIN s = 1..Len(s) /\ \A i \in 1..Len(s) : s[i] \in V
OBVIOUS

LEMMA WithoutFold ==
  ASSUME NEW V, NEW s \in Seq(V), NEW out
  PROVE  \E r : Drops(s, out, r) /\ Without(s, out) = r[Len(s)]
<1> DEFINE n == Len(s)
           Op(kept, x) == IF x \in out THEN kept ELSE Append(kept, x)
           Rec(g) == g = [t \in SUBSET DOMAIN s |->
                            IF t = {} THEN <<>> ELSE LET x == Max(t) IN Op(g[t \ {x}], s[x])]
           iter == CHOOSE g : Rec(g)
           step == [p \in (1..n) \X Seq(V) |-> Op(p[2], s[p[1]])]
           r == [k \in 0..n |-> iter[1..k]]
<1>1. Without(s, out) = iter[DOMAIN s]
  BY DEF Without, FoldLeft, MapThenFoldSet
<1>2. n \in Nat /\ DOMAIN s = 1..n /\ \A i \in 1..n : s[i] \in V
  OBVIOUS
<1>3. step \in [(1..n) \X Seq(V) -> Seq(V)]
  <2>1. ASSUME NEW i \in 1..n, NEW kept \in Seq(V) PROVE Op(kept, s[i]) \in Seq(V)
    BY <1>2, AppendProperties
  <2> QED
    BY <2>1
<1>4. PICK g : Run(n, Seq(V), <<>>, step, g)
  <2> DEFINE A == Seq(V)
             base == <<>>
  <2>1. base \in A /\ step \in [(1..n) \X A -> A]
    BY <1>3, EmptySeq
  <2> HIDE DEF A, base, step, n
  <2>2. \E g : Run(n, A, base, step, g)
    BY <1>2, <2>1, SeqFold
  <2> QED
    BY <2>2 DEF A, base
<1>5. ASSUME NEW t \in SUBSET (1..n), t # {}
      PROVE  g[t] = LET x == Max(t) IN Op(g[t \ {x}], s[x])
  <2>1. Max(t) \in 1..n /\ g[t \ {Max(t)}] \in Seq(V) /\ g[t] = step[<<Max(t), g[t \ {Max(t)}]>>]
    BY <1>4, <1>5 DEF Run
  <2> HIDE DEF Op
  <2> QED
    BY <2>1
<1>6. Rec(g)
  <2> HIDE DEF Op, n, step
  <2> QED
    BY <1>2, <1>4, <1>5 DEF Run
<1>7. Rec(iter)
  <2> HIDE DEF Rec
  <2> QED
    BY <1>6
<1> HIDE DEF iter
<1>8. r[0] = <<>>
  <2>1. 1..0 = {}
    OBVIOUS
  <2> QED
    BY <1>2, <1>7, <2>1
<1>9. ASSUME NEW k \in 1..n PROVE r[k] = Op(r[k - 1], s[k])
  <2>1. /\ 1..k \in SUBSET (1..n) /\ 1..k # {} /\ Max(1..k) = k
        /\ (1..k) \ {k} = 1..(k - 1) /\ k - 1 \in 0..n /\ k \in 0..n
    BY <1>2, PrefixFacts
  <2> DEFINE t == 1..k
  <2>2. iter[t] = LET x == Max(t) IN Op(iter[t \ {x}], s[x])
    <3> HIDE DEF t, Op, n
    <3> QED
      BY <1>2, <1>7, <2>1 DEF t
  <2>3. iter[1..k] = Op(iter[1..(k - 1)], s[k])
    BY <2>1, <2>2
  <2> HIDE DEF Op
  <2> QED
    BY <2>1, <2>3
<1>10. Without(s, out) = r[n]
  BY <1>1, <1>2
<1> HIDE DEF r
<1> QED
  BY <1>8, <1>9, <1>10 DEF Drops

(* Without drops what is in out, and nothing else.                          *)
LEMMA WithoutIs ==
  ASSUME NEW V, NEW s \in Seq(V), NEW out
  PROVE  /\ Without(s, out) \in Seq({s[i] : i \in DOMAIN s} \ out)
         /\ Len(Without(s, out)) <= Len(s)
         /\ \A j \in DOMAIN s : s[j] \notin out =>
              \E i \in DOMAIN Without(s, out) : Without(s, out)[i] = s[j]
<1> DEFINE n == Len(s)
           W == {s[i] : i \in DOMAIN s} \ out
<1>0. PICK r : Drops(s, out, r) /\ Without(s, out) = r[n]
  BY WithoutFold
<1>1. /\ r[0] = <<>> /\ Without(s, out) = r[n]
      /\ \A k \in 1..n : r[k] = IF s[k] \in out THEN r[k - 1] ELSE Append(r[k - 1], s[k])
  BY <1>0 DEF Drops
<1>2. n \in Nat /\ DOMAIN s = 1..n
  OBVIOUS
<1> DEFINE Q == {k \in 0..n : /\ r[k] \in Seq(W) /\ Len(r[k]) <= k
                               /\ \A j \in 1..k : s[j] \notin out => \E i \in DOMAIN r[k] : r[k][i] = s[j]}
<1>3. 0 \in Q
  <2>1. r[0] \in Seq(W) /\ Len(r[0]) = 0 /\ 1..0 = {}
    BY <1>1, EmptySeq
  <2> HIDE DEF W
  <2> QED
    BY <1>2, <2>1
<1>4. ASSUME NEW k \in 1..n, k - 1 \in Q PROVE k \in Q
  <2>1. /\ r[k - 1] \in Seq(W) /\ Len(r[k - 1]) <= k - 1 /\ Len(r[k - 1]) \in Nat
        /\ \A j \in 1..(k - 1) : s[j] \notin out => \E i \in DOMAIN r[k - 1] : r[k - 1][i] = s[j]
    BY <1>4
  <2>2. k \in 0..n /\ \A j \in 1..k : j = k \/ j \in 1..(k - 1)
    BY <1>2
  <2>3. CASE s[k] \in out
    <3>1. r[k] = r[k - 1]
      BY <1>1, <2>3
    <3> HIDE DEF W
    <3> QED
      BY <2>1, <2>2, <2>3, <3>1
  <2>4. CASE s[k] \notin out
    <3>1. r[k] = Append(r[k - 1], s[k]) /\ s[k] \in W
      BY <1>1, <1>2, <2>4
    <3> HIDE DEF W
    <3>2. /\ r[k] \in Seq(W) /\ Len(r[k]) = Len(r[k - 1]) + 1
          /\ \A i \in 1..Len(r[k - 1]) : r[k][i] = r[k - 1][i]
          /\ r[k][Len(r[k - 1]) + 1] = s[k]
      BY <2>1, <3>1, AppendProperties
    <3>3. DOMAIN r[k] = 1..(Len(r[k - 1]) + 1) /\ DOMAIN r[k - 1] = 1..Len(r[k - 1])
      BY <2>1, <3>2
    <3>4. ASSUME NEW j \in 1..k, s[j] \notin out PROVE \E i \in DOMAIN r[k] : r[k][i] = s[j]
      <4>1. CASE j = k
        <5>1. Len(r[k - 1]) + 1 \in DOMAIN r[k]
          BY <2>1, <3>3
        <5> QED
          BY <3>2, <4>1, <5>1
      <4>2. CASE j # k
        <5>1. PICK i \in DOMAIN r[k - 1] : r[k - 1][i] = s[j]
          BY <2>1, <2>2, <3>4, <4>2
        <5>2. i \in DOMAIN r[k] /\ r[k][i] = s[j]
          BY <2>1, <3>2, <3>3, <5>1
        <5> QED
          BY <5>2
      <4> QED
        BY <4>1, <4>2
    <3>5. Len(r[k]) <= k
      BY <2>1, <2>2, <3>2
    <3> QED
      BY <2>2, <3>2, <3>4, <3>5
  <2> QED
    BY <2>3, <2>4
<1>5. 0..n \subseteq Q
  <2> HIDE DEF Q, n
  <2> QED
    BY <1>2, <1>3, <1>4, PrefixInduction
<1>6. n \in Q
  <2>1. n \in 0..n
    BY <1>2
  <2> HIDE DEF Q, n
  <2> QED
    BY <1>5, <2>1
<1> QED
  BY <1>1, <1>2, <1>6

(* SumOf, member by member.                                                 *)
SumsUp(s, r) ==
  /\ r[0] = 0 /\ \A k \in 0..Len(s) : r[k] \in Int
  /\ \A k \in 1..Len(s) : r[k] = r[k - 1] + s[k]

LEMMA SumFold ==
  ASSUME NEW s \in Seq(Int)
  PROVE  \E r : SumsUp(s, r) /\ SumOf(s) = r[Len(s)]
<1> DEFINE n == Len(s)
           Rec(g) == g = [t \in SUBSET DOMAIN s |->
                            IF t = {} THEN 0 ELSE LET x == Max(t) IN g[t \ {x}] + s[x]]
           iter == CHOOSE g : Rec(g)
           step == [p \in (1..n) \X Int |-> p[2] + s[p[1]]]
           r == [k \in 0..n |-> iter[1..k]]
<1>1. SumOf(s) = iter[DOMAIN s]
  BY DEF SumOf, FoldLeft, MapThenFoldSet
<1>2. n \in Nat /\ DOMAIN s = 1..n /\ \A i \in 1..n : s[i] \in Int
  OBVIOUS
<1>3. step \in [(1..n) \X Int -> Int]
  BY <1>2
<1>4. PICK g : Run(n, Int, 0, step, g)
  <2> DEFINE A == Int
  <2>1. 0 \in A /\ step \in [(1..n) \X A -> A]
    BY <1>3
  <2> HIDE DEF A, step, n
  <2>2. \E g : Run(n, A, 0, step, g)
    BY <1>2, <2>1, SeqFold
  <2> QED
    BY <2>2 DEF A
<1>5. ASSUME NEW t \in SUBSET (1..n), t # {}
      PROVE  g[t] = LET x == Max(t) IN g[t \ {x}] + s[x]
  <2>1. Max(t) \in 1..n /\ g[t \ {Max(t)}] \in Int /\ g[t] = step[<<Max(t), g[t \ {Max(t)}]>>]
    BY <1>4, <1>5 DEF Run
  <2> QED
    BY <2>1
<1>6. Rec(g)
  <2> HIDE DEF n, step
  <2> QED
    BY <1>2, <1>4, <1>5 DEF Run
<1>7. Rec(iter)
  <2> HIDE DEF Rec
  <2> QED
    BY <1>6
<1> HIDE DEF iter
<1>8. r[0] = 0
  <2>1. 1..0 = {}
    OBVIOUS
  <2> QED
    BY <1>2, <1>7, <2>1
<1>9. ASSUME NEW k \in 1..n PROVE r[k] = r[k - 1] + s[k]
  <2>1. /\ 1..k \in SUBSET (1..n) /\ 1..k # {} /\ Max(1..k) = k
        /\ (1..k) \ {k} = 1..(k - 1) /\ k - 1 \in 0..n /\ k \in 0..n
    BY <1>2, PrefixFacts
  <2> DEFINE t == 1..k
  <2>2. iter[t] = LET x == Max(t) IN iter[t \ {x}] + s[x]
    <3> HIDE DEF t, n
    <3> QED
      BY <1>2, <1>7, <2>1 DEF t
  <2>3. iter[1..k] = iter[1..(k - 1)] + s[k]
    BY <2>1, <2>2
  <2> QED
    BY <2>1, <2>3
<1>10. SumOf(s) = r[n]
  BY <1>1, <1>2
<1> HIDE DEF r
<1>11. \A k \in 0..n : r[k] \in Int
  <2> DEFINE Q == {k \in 0..n : r[k] \in Int}
  <2>1. 0 \in Q
    BY <1>2, <1>8
  <2>2. ASSUME NEW k \in 1..n, k - 1 \in Q PROVE k \in Q
    BY <1>2, <1>9, <2>2
  <2> HIDE DEF n, Q
  <2>3. 0..n \subseteq Q
    BY <1>2, <2>1, <2>2, PrefixInduction
  <2> QED
    BY <2>3 DEF Q
<1> QED
  BY <1>8, <1>9, <1>10, <1>11 DEF SumsUp

LEMMA SumType == ASSUME NEW s \in Seq(Int) PROVE SumOf(s) \in Int /\ (s = <<>> => SumOf(s) = 0)
<1>1. PICK r : SumsUp(s, r) /\ SumOf(s) = r[Len(s)]
  BY SumFold
<1>2. Len(s) \in 0..Len(s) /\ (s = <<>> => Len(s) = 0)
  BY EmptySeq
<1> QED
  BY <1>1, <1>2 DEF SumsUp

(* A sum of members that are m or more, and one of members that are m or   *)
(* less.                                                                    *)
LEMMA SumAtLeast ==
  ASSUME NEW s \in Seq(Int), NEW m \in Int, \A i \in 1..Len(s) : m <= s[i]
  PROVE  m * Len(s) <= SumOf(s)
<1> DEFINE n == Len(s)
<1>1. PICK r : SumsUp(s, r) /\ SumOf(s) = r[n]
  BY SumFold
<1>2. n \in Nat
  OBVIOUS
<1> DEFINE Q == {k \in 0..n : m * k <= r[k]}
<1>3. 0 \in Q
  BY <1>1, <1>2 DEF SumsUp
<1>4. ASSUME NEW k \in 1..n, k - 1 \in Q PROVE k \in Q
  <2>1. m * (k - 1) + m = m * k
    BY <1>2
  <2>2. r[k] = r[k - 1] + s[k] /\ r[k - 1] \in Int /\ r[k] \in Int
    BY <1>1, <1>2, <1>4 DEF SumsUp
  <2>3. s[k] \in Int /\ m * k \in Int /\ m * (k - 1) \in Int
    BY <1>2
  <2> QED
    BY <1>2, <1>4, <2>1, <2>2, <2>3
<1>5. n \in Q
  <2> HIDE DEF Q, n
  <2>1. 0..n \subseteq Q
    BY <1>2, <1>3, <1>4, PrefixInduction
  <2> QED
    BY <1>2, <2>1
<1> QED
  BY <1>1, <1>5

LEMMA SumAtMost ==
  ASSUME NEW s \in Seq(Int), NEW m \in Int, \A i \in 1..Len(s) : s[i] <= m
  PROVE  SumOf(s) <= m * Len(s)
<1> DEFINE n == Len(s)
<1>1. PICK r : SumsUp(s, r) /\ SumOf(s) = r[n]
  BY SumFold
<1>2. n \in Nat
  OBVIOUS
<1> DEFINE Q == {k \in 0..n : r[k] <= m * k}
<1>3. 0 \in Q
  BY <1>1, <1>2 DEF SumsUp
<1>4. ASSUME NEW k \in 1..n, k - 1 \in Q PROVE k \in Q
  <2>1. m * (k - 1) + m = m * k
    BY <1>2
  <2>2. r[k] = r[k - 1] + s[k] /\ r[k - 1] \in Int /\ r[k] \in Int
    BY <1>1, <1>2, <1>4 DEF SumsUp
  <2>3. s[k] \in Int /\ m * k \in Int /\ m * (k - 1) \in Int
    BY <1>2
  <2> QED
    BY <1>2, <1>4, <2>1, <2>2, <2>3
<1>5. n \in Q
  <2> HIDE DEF Q, n
  <2>1. 0..n \subseteq Q
    BY <1>2, <1>3, <1>4, PrefixInduction
  <2> QED
    BY <1>2, <2>1
<1> QED
  BY <1>1, <1>5

LEMMA AddInRatio ==
  ASSUME NEW x \in Int, NEW y \in Int, NEW a \in Int, NEW b \in Int, NEW c \in Int, NEW d \in Int,
         x * a <= y * c, x * b < y * d
  PROVE  x * (a + b) < y * (c + d)
<1>1. x * (a + b) = x * a + x * b /\ y * (c + d) = y * c + y * d
  OBVIOUS
<1>2. x * a \in Int /\ x * b \in Int /\ y * c \in Int /\ y * d \in Int
  OBVIOUS
<1> QED
  BY <1>1, <1>2

(* Two sums compare as their members do.                                    *)
LEMMA IntTimes == \A a, b \in Int : a * b \in Int
OBVIOUS

LEMMA SumsInRatio ==
  ASSUME NEW s \in Seq(Int), NEW t \in Seq(Int), Len(s) = Len(t), s # <<>>, NEW x \in Int, NEW y \in Int,
         \A i \in 1..Len(s) : x * s[i] < y * t[i]
  PROVE  x * SumOf(s) < y * SumOf(t)
<1> DEFINE n == Len(s)
<1>1. PICK r : SumsUp(s, r) /\ SumOf(s) = r[n]
  BY SumFold
<1>2. PICK q : SumsUp(t, q) /\ SumOf(t) = q[n]
  BY SumFold
<1>3. n = Len(s) /\ n = Len(t) /\ n \in Nat \ {0}
  BY EmptySeq
<1> HIDE DEF n
<1> DEFINE Q == {k \in 0..n : IF k = 0 THEN x * r[k] <= y * q[k] ELSE x * r[k] < y * q[k]}
<1>4. 0 \in Q
  BY <1>1, <1>2, <1>3 DEF SumsUp
<1>5. ASSUME NEW k \in 1..n, k - 1 \in Q PROVE k \in Q
  <2>0. k - 1 \in 0..n /\ k \in 0..n
    BY <1>3
  <2>1. /\ r[k] = r[k - 1] + s[k] /\ r[k - 1] \in Int
        /\ q[k] = q[k - 1] + t[k] /\ q[k - 1] \in Int
    BY <1>1, <1>2, <1>3, <2>0 DEF SumsUp
  <2>2. s[k] \in Int /\ t[k] \in Int
    BY <1>3
  <2>3. x * r[k - 1] <= y * q[k - 1]
    <3> DEFINE a == x * r[k - 1]
               b == y * q[k - 1]
    <3>1. a \in Int /\ b \in Int
      BY <2>1, IntTimes, Zenon
    <3>2. IF k - 1 = 0 THEN a <= b ELSE a < b
      BY <1>5
    <3> HIDE DEF a, b
    <3>3. a <= b
      BY <3>1, <3>2
    <3> QED
      BY <3>3 DEF a, b
  <2>4. x * s[k] < y * t[k]
    BY <1>3
  <2>5. x * (r[k - 1] + s[k]) < y * (q[k - 1] + t[k])
    BY <2>1, <2>2, <2>3, <2>4, AddInRatio
  <2>6. x * r[k] < y * q[k]
    BY <2>1, <2>5
  <2> QED
    BY <1>3, <2>0, <2>6
<1>6. n \in Q
  <2> HIDE DEF Q
  <2>1. 0..n \subseteq Q
    BY <1>3, <1>4, <1>5, PrefixInduction
  <2> QED
    BY <1>3, <2>1
<1> QED
  BY <1>1, <1>2, <1>3, <1>6

-----------------------------------------------------------------------------
(* The components of the ranking are numbers                                *)

LEMMA LadderType ==
  ASSUME NEW steps, DOMAIN steps \subseteq Nat, \A i \in DOMAIN steps : steps[i][2] \in Int,
         NEW fits, NEW rest \in Int
  PROVE  FirstOf(steps, fits, rest) \in Int
BY FirstOfNames

LEMMA ClampType == ASSUME NEW x \in Int PROVE Clamp(x) \in Int
BY DEF Clamp

LEMMA DivIs ==
  ASSUME NEW a \in Int, NEW m \in Nat, m > 0
  PROVE  a \div m \in Int /\ m * (a \div m) <= a /\ a < m * (a \div m) + m
OBVIOUS

(* src/core/factors: what the factors of a quote give the ranking.          *)
LEMMA QuoteIs ==
  ASSUME NEW q \in QuoteTypes
  PROVE  /\ q.value \in Int /\ q.volume \in Int /\ q.depth \in Int
         /\ q.relative \in Maybe(Int) /\ q.last \in Maybe(Int) /\ q.close \in Maybe(Int)
         /\ q.flow.buyReal \in Nat /\ q.flow.buyLegal \in Nat
         /\ q.flow.sellReal \in Nat /\ q.flow.sellLegal \in Nat
<1>1. q.flow \in [buyReal : Nat, buyLegal : Nat, sellReal : Nat, sellLegal : Nat]
  BY DEF QuoteTypes
<1> QED
  BY <1>1 DEF QuoteTypes

LEMMA LiquidityType == ASSUME NEW q \in QuoteTypes PROVE Liquidity(q) \in Int
<1> DEFINE sum == 45 * q.value + 35 * q.volume + 20 * q.depth
<1>1. sum \in Int
  BY QuoteIs
<1>2. Liquidity(q) = Clamp(sum)
  BY DEF Liquidity
<1> HIDE DEF sum
<1> QED
  BY <1>1, <1>2, ClampType

LEMMA FlowScoreType == ASSUME NEW q \in QuoteTypes PROVE FlowScore(q) \in Int
<1> DEFINE f == q.flow
           all == (f.buyReal + f.buyLegal) + f.sellReal + f.sellLegal
           real == 8000 * (f.buyReal - f.sellReal)
           share == Floor(real, all)
           steps == << <<70, 800>>, <<55, 300>> >>
           bonus == FirstOf(steps, {b \in Bounds(steps) :
                              Floor(100 * f.buyReal, Atleast1(f.buyReal + f.buyLegal)) >= b}, 0)
<1>1. FlowScore(q) = IF all <= 0 THEN 5000 ELSE Clamp(Clamp(5000 + share) + bonus)
  BY DEF FlowScore, AtLeast
<1>2. DOMAIN steps \subseteq Nat /\ \A i \in DOMAIN steps : steps[i][2] \in Int
  OBVIOUS
<1>3. all \in Nat /\ real \in Int
  BY QuoteIs
<1> HIDE DEF steps
<1>4. bonus \in Int
  BY <1>2, LadderType
<1> HIDE DEF bonus, all, real
<1>5. ASSUME ~(all <= 0) PROVE Clamp(5000 + share) \in Int
  <2>1. share \in Int
    BY <1>3, <1>5, DivIs DEF Floor
  <2> HIDE DEF share
  <2>2. 5000 + share \in Int
    BY <2>1
  <2> QED
    BY <2>2, ClampType
<1> DEFINE inner == Clamp(5000 + share)
<1> HIDE DEF share
<1>6. ~(all <= 0) => inner + bonus \in Int
  <2> HIDE DEF inner
  <2> QED
    BY <1>4, <1>5 DEF inner
<1> HIDE DEF inner
<1>7. ~(all <= 0) => Clamp(inner + bonus) \in Int
  BY <1>6, ClampType
<1>8. FlowScore(q) = IF all <= 0 THEN 5000 ELSE Clamp(inner + bonus)
  BY <1>1 DEF inner
<1> QED
  BY <1>7, <1>8

LEMMA VolumeValueType == ASSUME NEW q \in QuoteTypes PROVE VolumeValue(q) \in Int
<1>1. VolumeBoost(q.relative) \in Int
  <2> DEFINE high == << <<150, 1200>> >>
             low == << <<90, -500>> >>
  <2>1. /\ DOMAIN high \subseteq Nat /\ \A i \in DOMAIN high : high[i][2] \in Int
        /\ DOMAIN low \subseteq Nat /\ \A i \in DOMAIN low : low[i][2] \in Int
    OBVIOUS
  <2>2. VolumeBoost(q.relative) \in
          {0, -1200, AtLeast(q.relative, high, 600), Below(q.relative, low, 0)}
    BY DEF VolumeBoost
  <2> HIDE DEF high, low
  <2>3. AtLeast(q.relative, high, 600) \in Int /\ Below(q.relative, low, 0) \in Int
    BY <2>1, LadderType DEF AtLeast, Below
  <2> QED
    BY <2>2, <2>3
<1> DEFINE sum == 55 * q.value + 45 * q.volume + VolumeBoost(q.relative)
<1>2. sum \in Int
  BY <1>1, QuoteIs
<1>3. VolumeValue(q) = Clamp(sum)
  BY DEF VolumeValue
<1> HIDE DEF sum
<1> QED
  BY <1>2, <1>3, ClampType

LEMMA NavPremiumType == ASSUME NEW q \in QuoteTypes PROVE NavPremium(q) \in Int
<1> DEFINE low == << <<-20, 9000>> >>
           high == << <<20, 2000>>, <<5, 3800>> >>
<1>1. /\ DOMAIN high \subseteq Nat /\ \A i \in DOMAIN high : high[i][2] \in Int
      /\ DOMAIN low \subseteq Nat /\ \A i \in DOMAIN low : low[i][2] \in Int
  OBVIOUS
<1>2. NavPremium(q) \in {5000, AtMost(q.premium, low, 7500), AtLeast(q.premium, high, 5800)}
  BY DEF NavPremium
<1> HIDE DEF low, high
<1>3. AtMost(q.premium, low, 7500) \in Int /\ AtLeast(q.premium, high, 5800) \in Int
  BY <1>1, LadderType DEF AtMost, AtLeast
<1> QED
  BY <1>2, <1>3

(* indicators/engine.py: the indicators of a history are numbers.           *)
LEMMA ClosesType ==
  ASSUME NEW rows \in Seq([close : Maybe(Nat), last : Maybe(Nat)]) PROVE Closes(rows) \in Seq(Nat)
<1> DEFINE s == [i \in DOMAIN rows |-> IF rows[i].close # None THEN rows[i].close ELSE rows[i].last]
           W == {s[i] : i \in DOMAIN s} \ {None}
<1>1. Len(rows) \in Nat /\ DOMAIN rows = 1..Len(rows)
  OBVIOUS
<1>2. ASSUME NEW i \in 1..Len(rows) PROVE s[i] \in Maybe(Nat)
  <2> DEFINE R == [close : Maybe(Nat), last : Maybe(Nat)]
  <2>1. rows \in Seq(R)
    OBVIOUS
  <2>2. rows[i] \in R
    <3> HIDE DEF R
    <3> QED
      BY <2>1, ElementOfSeq
  <2> QED
    BY <1>1, <2>2
<1>3. s \in Seq(Maybe(Nat))
  <2> DEFINE V == Maybe(Nat)
  <2>1. s \in [1..Len(rows) -> V]
    BY <1>1, <1>2
  <2> HIDE DEF V, s
  <2>2. s \in Seq(V)
    BY <1>1, <2>1
  <2> QED
    BY <2>2 DEF V
<1>4. W \subseteq Nat
  BY <1>1, <1>2 DEF Maybe
<1>5. Without(s, {None}) \in Seq(W)
  <2> DEFINE V == Maybe(Nat)
  <2>1. s \in Seq(V)
    BY <1>3
  <2> HIDE DEF V, s
  <2> QED
    BY <2>1, WithoutIs
<1>6. Closes(rows) = Without(s, {None})
  BY DEF Closes
<1> HIDE DEF s, W
<1> QED
  BY <1>4, <1>5, <1>6, SeqMonotonic

LEMMA FloorType == ASSUME NEW a \in Int, NEW b \in Nat, b > 0 PROVE Floor(a, b) \in Int
BY DivIs DEF Floor

LEMMA RetType ==
  ASSUME NEW closes \in Seq(Nat), NEW days \in Nat \ {0} PROVE Ret(closes, days) \in Maybe(Int)
<1>1. CASE Len(closes) <= days
  BY <1>1 DEF Ret, Maybe
<1>2. CASE ~(Len(closes) <= days)
  <2> DEFINE old == closes[Len(closes) - days]
             last == closes[Len(closes)]
             fall == 100 * (last - old)
  <2>1. old \in Nat /\ last \in Nat
    BY <1>2
  <2>2. fall \in Int
    BY <2>1
  <2>3. Ret(closes, days) = IF old = 0 THEN None ELSE Floor(fall, old)
    BY <1>2 DEF Ret, Last
  <2> HIDE DEF old, fall
  <2>4. old # 0 => Floor(fall, old) \in Int
    BY <2>1, <2>2, FloorType
  <2> QED
    BY <2>3, <2>4 DEF Maybe
<1> QED
  BY <1>1, <1>2

(* A fold whose steps stay among A ends there.                              *)
LEMMA FoldStays ==
  ASSUME NEW n \in Nat, NEW A, NEW iter, iter[{}] \in A,
         \A k \in 1..n : iter[(1..k) \ {k}] \in A => iter[1..k] \in A
  PROVE  iter[1..n] \in A
<1> DEFINE Q == {k \in 0..n : iter[1..k] \in A}
<1>1. 0 \in Q
  <2>1. 1..0 = {}
    OBVIOUS
  <2> QED
    BY <2>1
<1>2. ASSUME NEW k \in 1..n, k - 1 \in Q PROVE k \in Q
  BY <1>2, PrefixFacts
<1>3. 0..n \subseteq Q
  <2> HIDE DEF Q
  <2> QED
    BY <1>1, <1>2, PrefixInduction
<1>4. n \in Q
  BY <1>3
<1> QED
  BY <1>4

LEMMA ProductType == ASSUME NEW a \in Nat, NEW b \in Nat PROVE a * b \in Nat
OBVIOUS

LEMMA WilderType ==
  ASSUME NEW moves \in Seq(Nat), Days14 <= Len(moves) PROVE Wilder(moves) \in Nat
<1> DEFINE s == SubSeq(moves, Days14 + 1, Len(moves))
           first == SubSeq(moves, 1, Days14)
           base == <<SumTo(moves, Days14), Days14>>
           A == Nat \X Nat
           Op(m, x) == <<(Days14 - 1) * m[1] + x * m[2], m[2] * Days14>>
           n == Len(s)
           Rec(g) == g = [t \in SUBSET DOMAIN s |->
                            IF t = {} THEN base ELSE LET x == Max(t) IN Op(g[t \ {x}], s[x])]
           iter == CHOOSE g : Rec(g)
           step == [p \in (1..n) \X A |-> Op(p[2], s[p[1]])]
<1>1. Wilder(moves) = iter[DOMAIN s][1]
  BY DEF Wilder, FoldLeft, MapThenFoldSet
<1>2. Days14 \in Nat \ {0}
  BY DaysAssumption
<1>3. s \in Seq(Nat) /\ first \in Seq(Nat)
  BY <1>2, SubSeqProperties
<1>4. base \in A
  <2>1. first \in Seq(Int) /\ \A i \in 1..Len(first) : 0 <= first[i]
    BY <1>3, SeqMonotonic
  <2>2. Len(first) \in Nat /\ SumTo(moves, Days14) = SumOf(first)
    BY <1>3 DEF SumTo
  <2> HIDE DEF first
  <2>3. SumOf(first) \in Int /\ 0 * Len(first) <= SumOf(first)
    BY <2>1, SumType, SumAtLeast
  <2>4. SumOf(first) \in Nat
    BY <2>2, <2>3
  <2> QED
    BY <1>2, <2>2, <2>4
<1>5. n \in Nat /\ DOMAIN s = 1..n /\ \A i \in 1..n : s[i] \in Nat
  <2> HIDE DEF s
  <2> QED
    BY <1>3, SeqFacts
<1> HIDE DEF base, s
<1>6. ASSUME NEW m \in A, NEW i \in 1..n PROVE Op(m, s[i]) \in A
  <2>1. m[1] \in Nat /\ m[2] \in Nat /\ s[i] \in Nat /\ Days14 - 1 \in Nat
    BY <1>2, <1>5
  <2>2. (Days14 - 1) * m[1] \in Nat /\ s[i] * m[2] \in Nat /\ m[2] * Days14 \in Nat
    BY <1>2, <2>1, ProductType
  <2> QED
    BY <2>2
<1>7. step \in [(1..n) \X A -> A]
  <2> HIDE DEF A, Op
  <2> QED
    BY <1>6
<1>8. PICK g : Run(n, A, base, step, g)
  <2> HIDE DEF A, step, n
  <2> QED
    BY <1>4, <1>5, <1>7, SeqFold
<1>9. ASSUME NEW t \in SUBSET (1..n), t # {}
      PROVE  g[t] = LET x == Max(t) IN Op(g[t \ {x}], s[x])
  <2>1. Max(t) \in 1..n /\ g[t \ {Max(t)}] \in A /\ g[t] = step[<<Max(t), g[t \ {Max(t)}]>>]
    BY <1>8, <1>9 DEF Run
  <2> HIDE DEF Op, A
  <2> QED
    BY <2>1
<1>10. Rec(g)
  <2> HIDE DEF Op, n, step, A
  <2> QED
    BY <1>5, <1>8, <1>9 DEF Run
<1>11. Rec(iter)
  <2> HIDE DEF Rec
  <2> QED
    BY <1>10
<1> HIDE DEF iter
<1>12. iter[{}] \in A
  BY <1>4, <1>11
<1>13. ASSUME NEW k \in 1..n, iter[(1..k) \ {k}] \in A PROVE iter[1..k] \in A
  <2>1. /\ 1..k \in SUBSET (1..n) /\ 1..k # {} /\ Max(1..k) = k
    BY <1>5, PrefixFacts
  <2> DEFINE t == 1..k
  <2>2. iter[t] = LET x == Max(t) IN Op(iter[t \ {x}], s[x])
    <3> HIDE DEF t, Op, n
    <3> QED
      BY <1>5, <1>11, <2>1 DEF t
  <2>3. iter[1..k] = Op(iter[(1..k) \ {k}], s[k])
    BY <2>1, <2>2
  <2> HIDE DEF Op, A
  <2> QED
    BY <1>6, <1>13, <2>3
<1>14. iter[1..n] \in A
  <2> HIDE DEF A, n
  <2> QED
    BY <1>5, <1>12, <1>13, FoldStays
<1> QED
  BY <1>1, <1>5, <1>14

LEMMA RsiType == ASSUME NEW closes \in Seq(Nat) PROVE Rsi(closes) \in Maybe(Int)
<1> DEFINE Above(x) == IF x > 0 THEN x ELSE 0
           gains == [i \in 1..Len(closes) - 1 |-> Above(closes[i + 1] - closes[i])]
           losses == [i \in 1..Len(closes) - 1 |-> Above(closes[i] - closes[i + 1])]
           gain == Wilder(gains)
           loss == Wilder(losses)
<1>1. Rsi(closes) = IF Len(closes) <= Days14 THEN None
                    ELSE IF loss = 0 THEN 100 ELSE Floor(100 * gain, gain + loss)
  BY DEF Rsi
<1>2. Len(closes) \in Nat /\ \A i \in 1..Len(closes) : closes[i] \in Nat
  OBVIOUS
<1>3. CASE Len(closes) <= Days14
  BY <1>1, <1>3 DEF Maybe
<1>4. CASE ~(Len(closes) <= Days14)
  <2>1. Days14 \in Nat \ {0}
    BY DaysAssumption
  <2>2. Len(closes) - 1 \in Nat /\ Days14 <= Len(closes) - 1
    BY <1>2, <1>4, <2>1
  <2>3. ASSUME NEW i \in 1..Len(closes) - 1
        PROVE  Above(closes[i + 1] - closes[i]) \in Nat /\ Above(closes[i] - closes[i + 1]) \in Nat
    <3>1. closes[i + 1] \in Nat /\ closes[i] \in Nat
      BY <1>2
    <3> QED
      BY <3>1
  <2>4. gains \in Seq(Nat) /\ losses \in Seq(Nat) /\ Len(gains) = Len(closes) - 1 /\ Len(losses) = Len(closes) - 1
    <3> HIDE DEF Above
    <3> QED
      BY <2>2, <2>3
  <2> HIDE DEF gains, losses
  <2>5. gain \in Nat /\ loss \in Nat
    BY <2>2, <2>4, WilderType
  <2> HIDE DEF gain, loss
  <2>6. loss # 0 => 100 * gain \in Int /\ gain + loss \in Nat /\ gain + loss > 0
    BY <2>5
  <2>7. loss # 0 => Floor(100 * gain, gain + loss) \in Int
    BY <2>6, FloorType
  <2> QED
    BY <1>1, <1>4, <2>7 DEF Maybe
<1> QED
  BY <1>3, <1>4

LEMMA MaxDrawdownType == ASSUME NEW closes \in Seq(Nat) PROVE MaxDrawdown(closes) \in Maybe(Int)
<1> DEFINE from == IF Len(closes) > Days90 THEN Len(closes) - Days90 + 1 ELSE 1
           s == SubSeq(closes, from, Len(closes))
           base == [peak |-> Head(s), worst |-> 0]
           A == [peak : Nat, worst : Int]
           Op(d, c) == LET peak == IF c > d.peak THEN c ELSE d.peak
                           fall == IF peak > 0 THEN Floor(100 * (c - peak), peak) ELSE 0
                       IN  [peak |-> peak, worst |-> IF fall < d.worst THEN fall ELSE d.worst]
           n == Len(s)
           Rec(g) == g = [t \in SUBSET DOMAIN s |->
                            IF t = {} THEN base ELSE LET x == Max(t) IN Op(g[t \ {x}], s[x])]
           iter == CHOOSE g : Rec(g)
           step == [p \in (1..n) \X A |-> Op(p[2], s[p[1]])]
<1>1. MaxDrawdown(closes) = IF n < 2 THEN None ELSE iter[DOMAIN s].worst
  BY DEF MaxDrawdown, FoldLeft, MapThenFoldSet
<1>2. Days90 \in Nat \ {0} /\ Len(closes) \in Nat
  BY DaysAssumption
<1>3. s \in Seq(Nat)
  <2>1. from \in Int /\ from >= 1
    BY <1>2
  <2> HIDE DEF from
  <2>2. \A i \in from..Len(closes) : closes[i] \in Nat
    BY <2>1
  <2> QED
    BY <1>2, <2>1, <2>2, SubSeqProperties
<1>4. n \in Nat /\ DOMAIN s = 1..n /\ \A i \in 1..n : s[i] \in Nat
  <2> HIDE DEF s
  <2> QED
    BY <1>3, SeqFacts
<1>5. CASE n < 2
  BY <1>1, <1>5 DEF Maybe
<1>6. CASE ~(n < 2)
  <2>1. base \in A
    <3> HIDE DEF s
    <3>1. s # <<>>
      BY <1>3, <1>6, EmptySeq
    <3>2. Head(s) \in Nat
      BY <1>3, <3>1, HeadTailProperties
    <3> QED
      BY <3>2
  <2> HIDE DEF base, s
  <2>2. ASSUME NEW d \in A, NEW i \in 1..n PROVE Op(d, s[i]) \in A
    <3> DEFINE c == s[i]
               peak == IF c > d.peak THEN c ELSE d.peak
               below == 100 * (c - peak)
               fall == IF peak > 0 THEN Floor(below, peak) ELSE 0
    <3>1. Op(d, s[i]) = [peak |-> peak, worst |-> IF fall < d.worst THEN fall ELSE d.worst]
      OBVIOUS
    <3>2. c \in Nat /\ d.peak \in Nat /\ d.worst \in Int
      BY <1>4
    <3> HIDE DEF c
    <3>3. peak \in Nat /\ below \in Int
      BY <3>2
    <3> HIDE DEF peak, below
    <3>4. fall \in Int
      BY <3>3, FloorType
    <3> HIDE DEF fall, Op
    <3> QED
      BY <3>1, <3>2, <3>3, <3>4
  <2>3. step \in [(1..n) \X A -> A]
    <3> HIDE DEF A, Op
    <3> QED
      BY <2>2
  <2>4. PICK g : Run(n, A, base, step, g)
    <3> HIDE DEF A, step, n
    <3> QED
      BY <1>4, <2>1, <2>3, SeqFold
  <2>5. ASSUME NEW t \in SUBSET (1..n), t # {}
        PROVE  g[t] = LET x == Max(t) IN Op(g[t \ {x}], s[x])
    <3>1. Max(t) \in 1..n /\ g[t \ {Max(t)}] \in A /\ g[t] = step[<<Max(t), g[t \ {Max(t)}]>>]
      BY <2>4, <2>5 DEF Run
    <3> HIDE DEF Op, A
    <3> QED
      BY <3>1
  <2>6. Rec(g)
    <3> HIDE DEF Op, n, step, A
    <3> QED
      BY <1>4, <2>4, <2>5 DEF Run
  <2>7. Rec(iter)
    <3> HIDE DEF Rec
    <3> QED
      BY <2>6
  <2> HIDE DEF iter
  <2>8. iter[{}] \in A
    BY <2>1, <2>7
  <2>9. ASSUME NEW k \in 1..n, iter[(1..k) \ {k}] \in A PROVE iter[1..k] \in A
    <3>1. 1..k \in SUBSET (1..n) /\ 1..k # {} /\ Max(1..k) = k
      BY <1>4, PrefixFacts
    <3> DEFINE t == 1..k
    <3>2. iter[t] = LET x == Max(t) IN Op(iter[t \ {x}], s[x])
      <4> HIDE DEF t, Op, n
      <4> QED
        BY <1>4, <2>7, <3>1 DEF t
    <3>3. iter[1..k] = Op(iter[(1..k) \ {k}], s[k])
      BY <3>1, <3>2
    <3> HIDE DEF Op, A
    <3> QED
      BY <2>2, <2>9, <3>3
  <2>10. iter[1..n] \in A
    <3> HIDE DEF A, n
    <3> QED
      BY <1>4, <2>8, <2>9, FoldStays
  <2> QED
    BY <1>1, <1>4, <1>6, <2>10 DEF Maybe
<1> QED
  BY <1>5, <1>6

(* smart_ranker.py: the components of a fund are numbers.                   *)
Indicated(ind) ==
  /\ ind.bars \in Nat /\ ind.ret1 \in Maybe(Int) /\ ind.ret5 \in Maybe(Int)
  /\ ind.ret20 \in Maybe(Int) /\ ind.ret60 \in Maybe(Int) /\ ind.rsi \in Maybe(Int)
  /\ ind.volatility \in Maybe(Int) /\ ind.sharpe \in Maybe(Int) /\ ind.drawdown \in Maybe(Int)

LEMMA SnapshotType == ASSUME NEW kept \in HistoryTypes PROVE Indicated(Snapshot(kept))
<1>1. kept.rows \in Seq([close : Maybe(Nat), last : Maybe(Nat)])
      /\ kept.volatility \in Maybe(Int) /\ kept.sharpe \in Maybe(Int)
  BY DEF HistoryTypes
<1> DEFINE closes == Closes(kept.rows)
<1>2. closes \in Seq(Nat)
  BY <1>1, ClosesType
<1>3. /\ Snapshot(kept).bars = Len(closes) /\ Snapshot(kept).ret1 = Ret(closes, 1)
      /\ Snapshot(kept).ret5 = Ret(closes, Days5) /\ Snapshot(kept).ret20 = Ret(closes, Days20)
      /\ Snapshot(kept).ret60 = Ret(closes, Days60) /\ Snapshot(kept).rsi = Rsi(closes)
      /\ Snapshot(kept).volatility = kept.volatility /\ Snapshot(kept).sharpe = kept.sharpe
      /\ Snapshot(kept).drawdown = MaxDrawdown(closes)
  BY DEF Snapshot
<1> HIDE DEF closes
<1>4. Len(closes) \in Nat
  BY <1>2
<1>5. /\ Ret(closes, 1) \in Maybe(Int) /\ Ret(closes, Days5) \in Maybe(Int)
      /\ Ret(closes, Days20) \in Maybe(Int) /\ Ret(closes, Days60) \in Maybe(Int)
  BY <1>2, RetType, DaysAssumption
<1>6. Rsi(closes) \in Maybe(Int) /\ MaxDrawdown(closes) \in Maybe(Int)
  BY <1>2, RsiType, MaxDrawdownType
<1> QED
  BY <1>1, <1>3, <1>4, <1>5, <1>6 DEF Indicated

LEMMA AddTypes ==
  ASSUME NEW x \in Maybe(Int), NEW unit \in Int, NEW low \in Int, NEW high \in Int
  PROVE  Add(x, unit, low, high) \in Int /\ Weighed(x, unit) \in Int
<1>1. x # None => x * unit \in Int
  BY DEF Maybe
<1> QED
  BY <1>1 DEF Add, Weighed, Within

LEMMA TrendType ==
  ASSUME NEW ind, Indicated(ind), NEW change \in Maybe(Int) PROVE TrendComponent(ind, change) \in Int
<1>1. CASE ind.bars < Fallback /\ change # None
  <2> DEFINE x == 5000 + Within(80 * change, -3000, 3000)
  <2>1. x \in Int
    BY <1>1 DEF Maybe, Within
  <2>2. TrendComponent(ind, change) = Clamp(x)
    BY <1>1 DEF TrendComponent
  <2> HIDE DEF x
  <2> QED
    BY <2>1, <2>2, ClampType
<1>2. CASE ~(ind.bars < Fallback /\ change # None)
  <2> DEFINE a == Add(ind.ret20, 200, -2500, 2500)
             b == Add(ind.ret60, 60, -1500, 1500)
             x == 5000 + a + b + Gain(ind.above50, 800) + Gain(ind.above20, 500) + Gain(ind.above200, 500)
  <2>1. a \in Int /\ b \in Int
    BY AddTypes DEF Indicated
  <2>2. TrendComponent(ind, change) = Clamp(x)
    BY <1>2 DEF TrendComponent
  <2> HIDE DEF a, b
  <2>3. x \in Int
    BY <2>1 DEF Gain
  <2> HIDE DEF x
  <2> QED
    BY <2>2, <2>3, ClampType
<1> QED
  BY <1>1, <1>2

LEMMA HistMomentumType ==
  ASSUME NEW ind, Indicated(ind), NEW change \in Maybe(Int) PROVE HistMomentum(ind, change) \in Int
<1> DEFINE a == Weighed(ind.ret1, 150)
           b == Weighed(ind.ret5, 90)
           c == Weighed(ind.ret20, 60)
           x == 5000 + a + b + c
           y == 5000 + (IF change = None THEN 0 ELSE 50 * change)
<1>1. HistMomentum(ind, change) = y \/ HistMomentum(ind, change) = Clamp(x)
  BY DEF HistMomentum
<1>2. a \in Int /\ b \in Int /\ c \in Int
  BY AddTypes DEF Indicated
<1>3. y \in Int
  BY DEF Maybe
<1> HIDE DEF a, b, c, y
<1>4. x \in Int
  BY <1>2
<1> HIDE DEF x
<1> QED
  BY <1>1, <1>3, <1>4, ClampType

LEMMA RiskType == ASSUME NEW ind, Indicated(ind), NEW leveraged PROVE RiskComponent(ind, leveraged) \in Int
<1> DEFINE v == IF ind.volatility = None THEN 0 ELSE Within(120 * (ind.volatility - 15), -2000, 4000)
           a == Add(ind.drawdown, 100, -3000, 1000)
           b == Add(ind.sharpe, 800, -1000, 2000)
           x == 6000 - v + a + b - Gain(leveraged, 800)
<1>1. RiskComponent(ind, leveraged) = Clamp(x)
  BY DEF RiskComponent
<1>2. a \in Int /\ b \in Int
  BY AddTypes DEF Indicated
<1>3. v \in Int
  BY DEF Indicated, Maybe, Within
<1> HIDE DEF a, b, v
<1>4. x \in Int
  BY <1>2, <1>3 DEF Gain
<1> HIDE DEF x
<1> QED
  BY <1>1, <1>4, ClampType

LEMMA TechnicalType == ASSUME NEW ind, Indicated(ind) PROVE TechnicalComponent(ind) \in Int
<1> DEFINE r == CASE ind.rsi = None -> 0
                  [] ind.rsi # None /\ ind.rsi >= 45 /\ ind.rsi <= 65 -> 1500
                  [] ind.rsi # None /\ ind.rsi < 30 -> 500
                  [] ind.rsi # None /\ ind.rsi > 75 -> -1000
                  [] OTHER -> 30 * (ind.rsi - 50)
           Side(x, up) == IF x = None THEN 0 ELSE IF up THEN 800 ELSE -800
           a == Side(ind.hist, ind.hist = "up")
           b == Side(ind.cross, ind.cross = TRUE)
           x == 5000 + r + a + b
<1>1. TechnicalComponent(ind) = Clamp(x)
  BY DEF TechnicalComponent
<1>2. r \in Int
  BY DEF Indicated, Maybe
<1>3. a \in Int /\ b \in Int
  OBVIOUS
<1> HIDE DEF r, a, b
<1>4. x \in Int
  BY <1>2, <1>3
<1> HIDE DEF x
<1> QED
  BY <1>1, <1>4, ClampType

ComponentTypes == [DOMAIN SmartWeights -> Int]

LEMMA ComponentsType ==
  ASSUME NEW member \in MemberTypes
  PROVE  Components([assessed |-> Assess(member.quote), ind |-> Snapshot(member.history),
                     leveraged |-> member.leveraged]) \in ComponentTypes
<1> DEFINE q == member.quote
           ind == Snapshot(member.history)
           change == IF q.close # None THEN q.close ELSE q.last
           names == {"trend", "momentum_hist", "liquidity", "money_flow", "risk", "technical", "volume", "nav"}
           c == [trend |-> TrendComponent(ind, change), momentum_hist |-> HistMomentum(ind, change),
                 liquidity |-> Liquidity(q), money_flow |-> FlowScore(q),
                 risk |-> RiskComponent(ind, member.leveraged), technical |-> TechnicalComponent(ind),
                 volume |-> VolumeValue(q), nav |-> NavPremium(q)]
<1>1. Components([assessed |-> Assess(q), ind |-> ind, leveraged |-> member.leveraged]) = c
  BY DEF Components, Assess, Factors
<1>2. q \in QuoteTypes /\ member.history \in HistoryTypes
  BY DEF MemberTypes
<1>3. Indicated(ind)
  BY <1>2, SnapshotType
<1>4. change \in Maybe(Int)
  <2> HIDE DEF q
  <2> QED
    BY <1>2, QuoteIs
<1> HIDE DEF q, ind, change
<1>5. /\ TrendComponent(ind, change) \in Int /\ HistMomentum(ind, change) \in Int
      /\ RiskComponent(ind, member.leveraged) \in Int /\ TechnicalComponent(ind) \in Int
  BY <1>3, <1>4, TrendType, HistMomentumType, RiskType, TechnicalType
<1>6. Liquidity(q) \in Int /\ FlowScore(q) \in Int /\ VolumeValue(q) \in Int /\ NavPremium(q) \in Int
  BY <1>2, LiquidityType, FlowScoreType, VolumeValueType, NavPremiumType
<1>7. c \in [names -> Int]
  BY <1>5, <1>6
<1>8. DOMAIN SmartWeights = names
  BY DEF SmartWeights
<1> QED
  BY <1>1, <1>7, <1>8 DEF q, ind, ComponentTypes

-----------------------------------------------------------------------------
(* The ranking                                                              *)

LEMMA QuotientGap ==
  ASSUME NEW a \in Int, NEW b \in Int, NEW d \in Int, NEW m \in Nat, m > 0, b + d * m <= a
  PROVE  (b \div m) + d <= a \div m
<1> DEFINE x == a \div m
           y == b \div m
<1>1. x \in Int /\ y \in Int /\ m * y <= b /\ a < m * x + m
  BY DivIs
<1> HIDE DEF x, y
<1>2. m * (y + d) < m * (x + 1)
  <2>1. m * (y + d) = m * y + d * m /\ m * (x + 1) = m * x + m
    BY <1>1
  <2>2. m * y \in Int /\ d * m \in Int /\ m * x \in Int
    BY <1>1
  <2> QED
    BY <1>1, <2>1, <2>2
<1>3. y + d < x + 1
  BY <1>1, <1>2
<1>4. y + d <= x
  BY <1>1, <1>3
<1> QED
  BY <1>4 DEF x, y

(* smart_ranker.py, percentile_ranks: the greater value has the greater     *)
(* percentile, by 13 hundredths among as many funds as the market may have, *)
(* and equal values have equal ones.                                        *)
LEMMA PercentilesOrdered ==
  ASSUME NEW values \in Seq(Int), Len(values) <= MostFunds,
         NEW i \in 1..Len(values), NEW j \in 1..Len(values), values[j] <= values[i]
  PROVE  /\ Percentile(values, i) \in Int /\ Percentile(values, j) \in Int
         /\ Percentile(values, j) <= Percentile(values, i)
         /\ values[j] < values[i] => Percentile(values, j) + 13 <= Percentile(values, i)
<1> DEFINE n == Len(values)
           li == {y \in DOMAIN values : values[y] < values[i]}
           lj == {y \in DOMAIN values : values[y] < values[j]}
           si == {y \in DOMAIN values : values[y] = values[i]}
           sj == {y \in DOMAIN values : values[y] = values[j]}
           pi == Percentile(values, i)
           pj == Percentile(values, j)
           m == n - 1
<1>1. n \in Nat /\ DOMAIN values = 1..n /\ i \in 1..n /\ j \in 1..n /\ \A x \in 1..n : values[x] \in Int
  OBVIOUS
<1>2. /\ pi = IF n = 1 THEN 5000 ELSE (5000 * (2 * Cardinality(li) + Cardinality(si) - 1)) \div m
      /\ pj = IF n = 1 THEN 5000 ELSE (5000 * (2 * Cardinality(lj) + Cardinality(sj) - 1)) \div m
  BY DEF Percentile
<1>3. IsFiniteSet(li) /\ IsFiniteSet(lj) /\ IsFiniteSet(si) /\ IsFiniteSet(sj)
  <2>1. IsFiniteSet(DOMAIN values)
    BY <1>1, FS_Interval
  <2>2. li \subseteq DOMAIN values /\ lj \subseteq DOMAIN values
        /\ si \subseteq DOMAIN values /\ sj \subseteq DOMAIN values
    OBVIOUS
  <2> HIDE DEF li, lj, si, sj
  <2> QED
    BY <2>1, <2>2, FS_Subset
<1>4. i \in si /\ j \in sj /\ values[i] \in Int /\ values[j] \in Int
  BY <1>1
<1>5. values[j] = values[i] => li = lj /\ si = sj
  OBVIOUS
<1>6. values[j] < values[i] => lj \cup sj \subseteq li /\ lj \cap sj = {}
  BY <1>1
<1>7. values[j] < values[i] => n # 1
  BY <1>1
<1>8. 13 * m <= 10000 /\ (n # 1 => m \in Nat /\ m > 0)
  BY <1>1 DEF MostFunds
<1> HIDE DEF li, lj, si, sj, pi, pj, n, m
<1> DEFINE bi == Cardinality(li)
           bj == Cardinality(lj)
           ei == Cardinality(si)
           ej == Cardinality(sj)
           ti == 5000 * (2 * bi + ei - 1)
           tj == 5000 * (2 * bj + ej - 1)
<1>9. bi \in Nat /\ bj \in Nat /\ ei \in Nat /\ ej \in Nat
  BY <1>3, FS_CardinalityType
<1>10. ei # 0 /\ ej # 0
  BY <1>3, <1>4, FS_EmptySet
<1>11. values[j] = values[i] => bi = bj /\ ei = ej
  BY <1>5
<1>12. values[j] < values[i] => bj + ej <= bi
  <2> SUFFICES ASSUME values[j] < values[i] PROVE bj + ej <= bi
    OBVIOUS
  <2>1. Cardinality(lj \cup sj) = bj + ej - Cardinality(lj \cap sj)
    BY <1>3, FS_Union
  <2>2. Cardinality(lj \cap sj) = 0
    BY <1>6, FS_EmptySet
  <2>3. Cardinality(lj \cup sj) <= bi
    BY <1>3, <1>6, FS_Subset
  <2> HIDE DEF bi, bj, ei, ej
  <2> QED
    BY <1>9, <2>1, <2>2, <2>3
<1>13. pi = (IF n = 1 THEN 5000 ELSE ti \div m) /\ pj = (IF n = 1 THEN 5000 ELSE tj \div m)
  BY <1>2
<1> HIDE DEF bi, bj, ei, ej
<1>14. ti \in Int /\ tj \in Int
  BY <1>9
<1>15. values[j] = values[i] => ti = tj
  BY <1>11
<1>16. values[j] < values[i] => tj + 10000 <= ti
  BY <1>9, <1>10, <1>12
<1> HIDE DEF ti, tj
<1>17. n # 1 => ti \div m \in Int /\ tj \div m \in Int
  BY <1>8, <1>14, DivIs
<1>18. values[j] < values[i] => (tj \div m) + 13 <= ti \div m
  <2> SUFFICES ASSUME values[j] < values[i] PROVE (tj \div m) + 13 <= ti \div m
    OBVIOUS
  <2>1. tj + 13 * m <= ti
    BY <1>7, <1>8, <1>14, <1>16
  <2>2. m \in Nat /\ m > 0
    BY <1>7, <1>8
  <2> QED
    BY <1>14, <2>1, <2>2, QuotientGap
<1>19. pi \in Int /\ pj \in Int
  BY <1>13, <1>17
<1>20. values[j] = values[i] => pj = pi
  BY <1>13, <1>15
<1>21. values[j] < values[i] => pj + 13 <= pi
  BY <1>7, <1>13, <1>18
<1>22. values[j] = values[i] \/ values[j] < values[i]
  BY <1>4
<1>23. pj <= pi /\ (values[j] < values[i] => pj + 13 <= pi)
  BY <1>19, <1>20, <1>21, <1>22
<1> QED
  BY <1>19, <1>23 DEF pi, pj

LEMMA WeightsFinite ==
  /\ IsFiniteSet(DOMAIN SmartWeights)
  /\ \A k \in DOMAIN SmartWeights : SmartWeights[k] \in Nat /\ SmartWeights[k] >= 80
<1>1. /\ IsFiniteSet({"trend"}) /\ IsFiniteSet({"momentum_hist"}) /\ IsFiniteSet({"liquidity"})
      /\ IsFiniteSet({"money_flow"}) /\ IsFiniteSet({"risk"}) /\ IsFiniteSet({"technical"})
      /\ IsFiniteSet({"volume"}) /\ IsFiniteSet({"nav"})
  BY FS_Singleton
<1> DEFINE a == {"trend"} \cup {"momentum_hist"}
           b == {"liquidity"} \cup {"money_flow"}
           c == {"risk"} \cup {"technical"}
           d == {"volume"} \cup {"nav"}
<1>2. IsFiniteSet(a) /\ IsFiniteSet(b) /\ IsFiniteSet(c) /\ IsFiniteSet(d)
  BY <1>1, FS_Union
<1>3. DOMAIN SmartWeights = (a \cup b) \cup (c \cup d)
  BY DEF SmartWeights
<1> HIDE DEF a, b, c, d
<1>4. IsFiniteSet(a \cup b) /\ IsFiniteSet(c \cup d)
  BY <1>2, FS_Union
<1>5. IsFiniteSet((a \cup b) \cup (c \cup d))
  BY <1>4, FS_Union
<1>6. \A k \in DOMAIN SmartWeights : SmartWeights[k] \in Nat /\ SmartWeights[k] >= 80
  BY DEF SmartWeights
<1> QED
  BY <1>3, <1>5, <1>6

(* What a fund's components weigh, before the score is cut to hundredths.   *)
Shares(components, i) ==
  [k \in DOMAIN SmartWeights |->
     SmartWeights[k] * Percentile([j \in DOMAIN components |-> components[j][k]], i)]

ValuesOf(components, k) == [j \in DOMAIN components |-> components[j][k]]

LEMMA ColumnIs ==
  ASSUME NEW components \in Seq(ComponentTypes), NEW k \in DOMAIN SmartWeights
  PROVE  /\ ValuesOf(components, k) \in Seq(Int)
         /\ Len(ValuesOf(components, k)) = Len(components)
         /\ \A i \in 1..Len(components) : ValuesOf(components, k)[i] = components[i][k]
<1>1. Len(components) \in Nat /\ DOMAIN components = 1..Len(components)
  OBVIOUS
<1>2. ASSUME NEW i \in 1..Len(components) PROVE components[i][k] \in Int
  <2>1. components[i] \in ComponentTypes
    BY ElementOfSeq
  <2> QED
    BY <2>1 DEF ComponentTypes
<1> QED
  BY <1>1, <1>2 DEF ValuesOf

(* smart_ranker.py, rank: the score is the sum of the weighted percentiles. *)
LEMMA ScoreIsSum ==
  ASSUME NEW components, NEW i, Shares(components, i) \in [DOMAIN SmartWeights -> Int]
  PROVE  \E g : /\ Adds(DOMAIN SmartWeights, Shares(components, i), AnyOf(DOMAIN SmartWeights), g)
                /\ SmartScore(components, i) = g[DOMAIN SmartWeights] \div 1000
<1> DEFINE K == DOMAIN SmartWeights
           a == Shares(components, i)
           Share(k) == SmartWeights[k] * Percentile([j \in DOMAIN components |-> components[j][k]], i)
           Rec(g) == g = [s \in SUBSET K |->
                            IF s = {} THEN 0
                            ELSE LET x == CHOOSE x \in s : TRUE IN Share(x) + g[s \ {x}]]
           iter == CHOOSE g : Rec(g)
<1>1. SmartScore(components, i) = iter[K] \div 1000
  BY DEF SmartScore, MapThenSumSet, MapThenFoldSet
<1>2. \A k \in K : a[k] = Share(k)
  BY DEF Shares
<1>3. a \in [K -> Int] /\ IsFiniteSet(K)
  BY WeightsFinite
<1> HIDE DEF Share, K, a
<1>4. ASSUME NEW s \in SUBSET K, s # {} PROVE (CHOOSE x \in s : TRUE) \in K
  BY <1>4
<1>5. \A g : Rec(g) <=> Summing(K, a, g)
  BY <1>2, <1>4 DEF Summing
<1>6. Rec(iter)
  <2>1. \E g : Rec(g)
    <3> HIDE DEF Rec
    <3> QED
      BY <1>3, <1>5, SumExists
  <2> HIDE DEF Rec
  <2> QED
    BY <2>1
<1> HIDE DEF iter, Rec
<1>7. Adds(K, a, AnyOf(K), iter)
  BY <1>3, <1>5, <1>6, SumAdds
<1> QED
  BY <1>1, <1>7 DEF K, a

Dominates(components, i, j) ==
  /\ \A k \in DOMAIN SmartWeights : components[i][k] >= components[j][k]
  /\ \E k \in DOMAIN SmartWeights : components[i][k] > components[j][k]

LEMMA WeighMore ==
  ASSUME NEW w \in Nat, w >= 80, NEW p \in Int, NEW q \in Int, p <= q
  PROVE  w * p <= w * q /\ (p + 13 <= q => w * p + 1040 <= w * q)
<1> DEFINE d == q - p
<1>1. d \in Nat /\ q = p + d
  OBVIOUS
<1> HIDE DEF d
<1>2. w * q = w * p + w * d /\ w * d \in Nat /\ w * p \in Int
  BY <1>1
<1>3. p + 13 <= q => 1040 <= w * d
  <2> SUFFICES ASSUME 13 <= d PROVE 1040 <= w * d
    BY <1>1
  <2>1. w * d = 80 * d + (w - 80) * d /\ (w - 80) * d >= 0
    BY <1>1
  <2>2. (w - 80) * d \in Int /\ w * d \in Int
    BY <1>1
  <2> QED
    BY <1>1, <2>1, <2>2
<1> HIDE DEF d
<1> QED
  BY <1>1, <1>2, <1>3

LEMMA ScoreType ==
  ASSUME NEW components \in Seq(ComponentTypes), Len(components) <= MostFunds,
         NEW i \in 1..Len(components)
  PROVE  Shares(components, i) \in [DOMAIN SmartWeights -> Int] /\ SmartScore(components, i) \in Int
<1> DEFINE K == DOMAIN SmartWeights
<1>1. ASSUME NEW k \in K PROVE Percentile(ValuesOf(components, k), i) \in Int
  <2>1. /\ ValuesOf(components, k) \in Seq(Int) /\ Len(ValuesOf(components, k)) = Len(components)
        /\ ValuesOf(components, k)[i] \in Int
    BY ColumnIs
  <2>2. ValuesOf(components, k)[i] <= ValuesOf(components, k)[i]
    BY <2>1
  <2> QED
    BY <2>1, <2>2, PercentilesOrdered
<1>2. ASSUME NEW k \in K PROVE SmartWeights[k] * Percentile(ValuesOf(components, k), i) \in Int
  <2>1. SmartWeights[k] \in Int
    BY WeightsFinite
  <2> QED
    BY <1>1, <2>1
<1>3. Shares(components, i) \in [K -> Int]
  BY <1>2 DEF Shares, ValuesOf
<1>4. PICK g : /\ Adds(K, Shares(components, i), AnyOf(K), g)
               /\ SmartScore(components, i) = g[K] \div 1000
  BY <1>3, ScoreIsSum
<1>5. g[K] \in Int
  BY <1>4 DEF Adds
<1> HIDE DEF K
<1>6. SmartScore(components, i) \in Int
  BY <1>4, <1>5, DivIs
<1> QED
  BY <1>3, <1>6 DEF K

(* The score of a fund that dominates another is greater by a hundredth.    *)
LEMMA ScoresOrdered ==
  ASSUME NEW components \in Seq(ComponentTypes), Len(components) <= MostFunds,
         NEW i \in 1..Len(components), NEW j \in 1..Len(components), Dominates(components, i, j)
  PROVE  SmartScore(components, j) < SmartScore(components, i)
<1> DEFINE K == DOMAIN SmartWeights
           P(x, k) == Percentile(ValuesOf(components, k), x)
           a == Shares(components, j)
           b == Shares(components, i)
<1>1. ASSUME NEW k \in K
      PROVE  /\ P(i, k) \in Int /\ P(j, k) \in Int /\ P(j, k) <= P(i, k)
             /\ components[j][k] < components[i][k] => P(j, k) + 13 <= P(i, k)
  <2> DEFINE v == ValuesOf(components, k)
  <2>1. /\ v \in Seq(Int) /\ Len(v) = Len(components)
        /\ v[i] = components[i][k] /\ v[j] = components[j][k]
    BY ColumnIs
  <2>2. v[i] \in Int /\ v[j] \in Int
    BY <2>1
  <2>3. v[j] <= v[i]
    BY <2>1, <2>2 DEF Dominates
  <2> HIDE DEF v
  <2> QED
    BY <2>1, <2>3, PercentilesOrdered DEF v
<1>2. ASSUME NEW k \in K
      PROVE  /\ a[k] = SmartWeights[k] * P(j, k) /\ b[k] = SmartWeights[k] * P(i, k)
  BY DEF Shares, ValuesOf
<1>3. PICK k \in K : components[i][k] > components[j][k]
  BY DEF Dominates
<1>4. components[j][k] < components[i][k]
  <2>1. components[j][k] \in Int /\ components[i][k] \in Int
    BY ColumnIs
  <2> QED
    BY <1>3, <2>1
<1> HIDE DEF a, b
<1>5. ASSUME NEW x \in K
      PROVE  a[x] <= b[x] /\ (components[j][x] < components[i][x] => a[x] + 1040 <= b[x])
  <2> DEFINE w == SmartWeights[x]
             p == P(j, x)
             q == P(i, x)
  <2>1. w \in Nat /\ w >= 80
    BY WeightsFinite
  <2>2. /\ p \in Int /\ q \in Int /\ p <= q
        /\ components[j][x] < components[i][x] => p + 13 <= q
    BY <1>1
  <2>3. a[x] = w * p /\ b[x] = w * q
    BY <1>2
  <2> HIDE DEF w, p, q
  <2> QED
    BY <2>1, <2>2, <2>3, WeighMore
<1>6. a[k] + 1040 <= b[k]
  BY <1>4, <1>5
<1>7. a \in [K -> Int] /\ b \in [K -> Int]
  BY ScoreType DEF a, b
<1>8. PICK g : Adds(K, a, AnyOf(K), g) /\ SmartScore(components, j) = g[K] \div 1000
  BY <1>7, ScoreIsSum DEF a
<1>9. PICK h : Adds(K, b, AnyOf(K), h) /\ SmartScore(components, i) = h[K] \div 1000
  BY <1>7, ScoreIsSum DEF b
<1>10. g[K] \in Int /\ h[K] \in Int
  BY <1>8, <1>9 DEF Adds
<1>11. g[K] + 1040 <= h[K]
  <2> DEFINE c == AnyOf(K)
             d == 1040
  <2>1. IsFiniteSet(K) /\ Peels(K, c) /\ d \in Int
    BY WeightsFinite, AnyPeels
  <2>2. Adds(K, a, c, g) /\ Adds(K, b, c, h) /\ a[k] + d <= b[k]
    BY <1>6, <1>8, <1>9
  <2>3. \A x \in K : a[x] <= b[x]
    BY <1>5
  <2> HIDE DEF K, c, d
  <2>4. g[K] + d <= h[K]
    BY <1>7, <2>1, <2>2, <2>3, SumsCompare
  <2> QED
    BY <2>4 DEF d
<1> HIDE DEF K
<1>12. (g[K] \div 1000) + 1 <= h[K] \div 1000
  BY <1>10, <1>11, QuotientGap
<1>13. SmartScore(components, j) \in Int /\ SmartScore(components, i) \in Int
  BY ScoreType
<1> QED
  BY <1>8, <1>9, <1>12, <1>13

(* rank sorts by the score: the fund with the greater score comes first.    *)
LEMMA PlacesOrdered ==
  ASSUME NEW components \in Seq(ComponentTypes), Len(components) <= MostFunds,
         NEW i \in DOMAIN components, NEW j \in DOMAIN components, Dominates(components, i, j)
  PROVE  Places(components)[i] < Places(components)[j]
<1> DEFINE n == Len(components)
           score == [x \in DOMAIN components |-> SmartScore(components, x)]
           Ahead(x) == {y \in DOMAIN components : score[y] > score[x] \/ (score[y] = score[x] /\ y < x)}
           s == Ahead(i)
           t == Ahead(j)
<1>1. n \in Nat /\ DOMAIN components = 1..n
  OBVIOUS
<1>2. Places(components)[i] = 1 + Cardinality(s) /\ Places(components)[j] = 1 + Cardinality(t)
  BY DEF Places
<1>3. \A x \in 1..n : score[x] \in Int
  BY <1>1, ScoreType
<1>4. score[j] < score[i]
  BY <1>1, ScoresOrdered
<1> HIDE DEF score
<1>5. s \subseteq t /\ i \in t /\ i \notin s
  BY <1>1, <1>3, <1>4
<1>6. IsFiniteSet(s) /\ IsFiniteSet(t)
  <2>1. s \subseteq 1..n /\ t \subseteq 1..n
    BY <1>1
  <2>2. IsFiniteSet(1..n)
    BY <1>1, FS_Interval
  <2> HIDE DEF s, t
  <2> QED
    BY <2>1, <2>2, FS_Subset
<1> HIDE DEF s, t
<1>7. Cardinality(s) < Cardinality(t) /\ Cardinality(s) \in Nat /\ Cardinality(t) \in Nat
  BY <1>5, <1>6, FS_Subset, FS_CardinalityType
<1> QED
  BY <1>2, <1>7

\* RankFunds ranks what AssessFunds has put together.
RankingInv ==
  /\ seen.engine = "assess" => seen.of \in Seq(ComponentTypes) /\ Len(seen.of) <= MostFunds
  /\ DominanceRespected

LEMMA UniverseAssessed ==
  ASSUME NEW u \in Universes
  PROVE  LET of == [i \in DOMAIN u |->
                      Components([assessed |-> Assess(u[i].quote),
                                  ind |-> Snapshot(u[i].history),
                                  leveraged |-> u[i].leveraged])]
         IN  of \in Seq(ComponentTypes) /\ Len(of) <= MostFunds
<1> DEFINE of == [i \in DOMAIN u |->
                    Components([assessed |-> Assess(u[i].quote),
                                ind |-> Snapshot(u[i].history),
                                leveraged |-> u[i].leveraged])]
           n == Len(u)
<1>1. u \in Seq(MemberTypes) /\ n <= MostFunds
  BY UniversesAssumption
<1>2. n \in Nat /\ DOMAIN u = 1..n
  BY <1>1
<1>3. ASSUME NEW i \in 1..n PROVE of[i] \in ComponentTypes
  <2> DEFINE member == u[i]
  <2>1. member \in MemberTypes
    BY <1>1, ElementOfSeq
  <2>2. of[i] = Components([assessed |-> Assess(member.quote), ind |-> Snapshot(member.history),
                            leveraged |-> member.leveraged])
    BY <1>2
  <2> HIDE DEF member, of
  <2> QED
    BY <2>1, <2>2, ComponentsType
<1>4. of \in [1..n -> ComponentTypes]
  <2>1. \A i \in 1..n : of[i] \in ComponentTypes
    BY <1>3
  <2> QED
    BY <1>2, <2>1
<1> DEFINE A == ComponentTypes
<1>5. of \in Seq(A) /\ Len(of) = n
  <2>1. of \in [1..n -> A]
    BY <1>4
  <2> HIDE DEF of, A, n
  <2> QED
    BY <1>2, <2>1
<1> HIDE DEF of, n
<1> QED
  BY <1>1, <1>5 DEF of

LEMMA StepRanks == RankingInv /\ [Next]_vars => RankingInv'
<1> SUFFICES ASSUME RankingInv, [Next]_vars PROVE RankingInv'
  OBVIOUS
<1>1. ASSUME seen'.engine \notin {"assess", "rank"} PROVE RankingInv'
  BY <1>1 DEF RankingInv, DominanceRespected
<1>2. CASE Gate
  BY <1>1, <1>2 DEF Gate, Seen
<1>3. CASE JudgeMarket
  BY <1>1, <1>3 DEF JudgeMarket, Seen
<1>4. CASE IdentifyFund
  BY <1>1, <1>4 DEF IdentifyFund, Seen
<1>5. CASE ReadBoard
  BY <1>1, <1>5 DEF ReadBoard, Seen
<1>6. CASE Aggregate
  BY <1>1, <1>6 DEF Aggregate, Seen
<1>7. CASE RunTechnical
  BY <1>1, <1>7 DEF RunTechnical, Seeing, Seen
<1>8. CASE RunNav
  BY <1>1, <1>8 DEF RunNav, Seen
<1>9. CASE RunFundamental
  BY <1>1, <1>9 DEF RunFundamental, Seen
<1>10. CASE TechnicalAlone
  BY <1>1, <1>10 DEF TechnicalAlone, Seeing, Seen
<1>11. CASE AssessFunds
  <2>1. PICK u \in Universes :
          seen' = Seen("assess", [i \in DOMAIN u |->
                                    Components([assessed |-> Assess(u[i].quote),
                                                ind |-> Snapshot(u[i].history),
                                                leveraged |-> u[i].leveraged])], {}, {})
    BY <1>11 DEF AssessFunds
  <2> DEFINE of == [i \in DOMAIN u |->
                      Components([assessed |-> Assess(u[i].quote), ind |-> Snapshot(u[i].history),
                                  leveraged |-> u[i].leveraged])]
  <2>2. of \in Seq(ComponentTypes) /\ Len(of) <= MostFunds
    BY UniverseAssessed
  <2>3. seen'.engine = "assess" /\ seen'.of = of
    BY <2>1 DEF Seen
  <2> HIDE DEF of
  <2> QED
    BY <2>2, <2>3 DEF RankingInv, DominanceRespected
<1>12. CASE RankFunds
  <2> DEFINE of == seen.of
  <2>1. of \in Seq(ComponentTypes) /\ Len(of) <= MostFunds
    BY <1>12 DEF RankFunds, RankingInv
  <2>2. /\ seen'.engine = "rank" /\ seen'.of.components = of /\ seen'.of.places = Places(of)
    BY <1>12 DEF RankFunds, Seen
  <2> HIDE DEF of
  <2>3. ASSUME NEW i \in DOMAIN of, NEW j \in DOMAIN of,
               \A k \in DOMAIN of[i] : of[i][k] >= of[j][k],
               \E k \in DOMAIN of[i] : of[i][k] > of[j][k]
        PROVE  Places(of)[i] < Places(of)[j]
    <3>1. of[i] \in ComponentTypes
      BY <2>1
    <3>2. DOMAIN of[i] = DOMAIN SmartWeights
      BY <3>1 DEF ComponentTypes
    <3>3. Dominates(of, i, j)
      BY <2>3, <3>2 DEF Dominates
    <3> QED
      BY <2>1, <3>3, PlacesOrdered
  <2>4. DominanceRespected'
    BY <2>2, <2>3 DEF DominanceRespected
  <2> QED
    BY <2>2, <2>4 DEF RankingInv
<1>13. CASE AnalyzePortfolio
  BY <1>1, <1>13 DEF AnalyzePortfolio, Seen
<1>14. CASE StageRaises \/ HandOver
  BY <1>1, <1>14 DEF StageRaises, HandOver, Nothing, Seen
<1>15. CASE IdentifyAgain \/ UNCHANGED vars
  BY <1>15 DEF IdentifyAgain, vars, RankingInv, DominanceRespected
<1> QED
  BY <1>2, <1>3, <1>4, <1>5, <1>6, <1>7, <1>8, <1>9, <1>10, <1>11, <1>12, <1>13, <1>14, <1>15 DEF Next

(***************************************************************************)
(* smart_ranker.py: a fund that is as good as another in every component   *)
(* and better in one has the better place, of any universe of funds of the *)
(* market's size.  The percentiles are cut to hundredths, and the score of *)
(* the eight again: what is cut never hides the difference, because the    *)
(* percentiles of two unequal values lie 13 hundredths apart, and the      *)
(* least weight makes more than a hundredth of the score of these.         *)
(***************************************************************************)
THEOREM BetterIsFirst == Spec => []DominanceRespected
<1>1. Init => RankingInv
  BY DEF Init, Nothing, Seen, RankingInv, DominanceRespected
<1>2. RankingInv => DominanceRespected
  BY DEF RankingInv
<1> QED
  BY <1>1, <1>2, StepRanks, PTL DEF Spec

-----------------------------------------------------------------------------
(* The technical engine                                                     *)

LEMMA RisingIs ==
  ASSUME NEW prices \in Seq(Nat), Len(prices) >= 2, Rising(prices)
  PROVE  \A i \in 1..Len(prices) : 0 < prices[i] /\ prices[i] <= prices[Len(prices)]
<1> DEFINE n == Len(prices)
           Q == {k \in 0..(n - 1) : prices[n - k] <= prices[n]}
<1>1. n \in Nat /\ n - 1 \in Nat /\ n >= 2 /\ \A i \in 1..n : prices[i] \in Nat
  OBVIOUS
<1>2. \A i \in 1..(n - 1) : 0 < prices[i] /\ prices[i] < prices[i + 1]
  BY DEF Rising
<1> HIDE DEF n
<1>3. 0 \in Q
  BY <1>1
<1>4. ASSUME NEW k \in 1..(n - 1), k - 1 \in Q PROVE k \in Q
  <2>1. n - k \in 1..(n - 1) /\ (n - k) + 1 = n - (k - 1) /\ n \in 1..n /\ n - (k - 1) \in 1..n
    BY <1>1
  <2>2. prices[n - k] < prices[n - (k - 1)]
    BY <1>2, <2>1
  <2>3. prices[n - (k - 1)] <= prices[n]
    BY <1>4
  <2>4. prices[n - k] \in Nat /\ prices[n - (k - 1)] \in Nat /\ prices[n] \in Nat
    <3>1. n - k \in 1..n
      BY <1>1, <2>1
    <3> QED
      BY <1>1, <2>1, <3>1
  <2> DEFINE a == prices[n - k]
             b == prices[n - (k - 1)]
             c == prices[n]
  <2>7. a \in Nat /\ b \in Nat /\ c \in Nat /\ a < b /\ b <= c
    BY <2>2, <2>3, <2>4
  <2>8. a <= c
    <3> HIDE DEF a, b, c
    <3> QED
      BY <2>7
  <2>5. prices[n - k] <= prices[n]
    BY <2>8
  <2>6. k \in 0..(n - 1)
    BY <1>1
  <2> QED
    BY <2>5, <2>6
<1>5. 0..(n - 1) \subseteq Q
  <2> DEFINE m == n - 1
  <2>1. m \in Nat /\ \A k \in 1..m : k - 1 \in Q => k \in Q
    BY <1>1, <1>4
  <2> HIDE DEF Q, m
  <2>2. 0..m \subseteq Q
    BY <1>3, <2>1, PrefixInduction
  <2> QED
    BY <2>2 DEF m
<1>6. ASSUME NEW i \in 1..n PROVE 0 < prices[i] /\ prices[i] <= prices[n]
  <2>1. n - i \in 0..(n - 1) /\ n - (n - i) = i
    BY <1>1
  <2>2. n - i \in Q
    BY <1>5, <2>1
  <2>3. prices[n - (n - i)] <= prices[n]
    BY <2>2
  <2>4. prices[i] <= prices[n]
    BY <2>1, <2>3
  <2>5. 0 < prices[i]
    <3>1. CASE i = n
      <4>1. n - 1 \in 1..(n - 1) /\ (n - 1) + 1 = n /\ n - 1 \in 1..n
        BY <1>1
      <4>2. prices[n - 1] < prices[n] /\ prices[n - 1] \in Nat /\ prices[n] \in Nat
        BY <1>1, <1>2, <4>1
      <4> QED
        BY <3>1, <4>2
    <3>2. CASE i # n
      BY <1>1, <1>2, <3>2
    <3> QED
      BY <3>1, <3>2
  <2> QED
    BY <2>4, <2>5
<1> QED
  BY <1>6 DEF n

LEMMA FallingIs ==
  ASSUME NEW prices \in Seq(Nat), Len(prices) >= 2, Falling(prices)
  PROVE  \A i \in 1..Len(prices) : 0 < prices[i] /\ prices[Len(prices)] <= prices[i]
<1> DEFINE n == Len(prices)
           Q == {k \in 0..(n - 1) : prices[n] <= prices[n - k]}
<1>1. n \in Nat /\ n - 1 \in Nat /\ n >= 2 /\ \A i \in 1..n : prices[i] \in Nat
  OBVIOUS
<1>2. \A i \in 1..(n - 1) : prices[i] > prices[i + 1] /\ prices[i + 1] > 0
  BY DEF Falling
<1> HIDE DEF n
<1>3. 0 \in Q
  BY <1>1
<1>4. ASSUME NEW k \in 1..(n - 1), k - 1 \in Q PROVE k \in Q
  <2>1. n - k \in 1..(n - 1) /\ (n - k) + 1 = n - (k - 1) /\ n \in 1..n /\ n - (k - 1) \in 1..n
    BY <1>1
  <2>2. prices[n - k] > prices[n - (k - 1)]
    BY <1>2, <2>1
  <2>3. prices[n] <= prices[n - (k - 1)]
    BY <1>4
  <2>4. prices[n - k] \in Nat /\ prices[n - (k - 1)] \in Nat /\ prices[n] \in Nat
    <3>1. n - k \in 1..n
      BY <1>1, <2>1
    <3> QED
      BY <1>1, <2>1, <3>1
  <2> DEFINE a == prices[n - k]
             b == prices[n - (k - 1)]
             c == prices[n]
  <2>7. a \in Nat /\ b \in Nat /\ c \in Nat /\ a > b /\ c <= b
    BY <2>2, <2>3, <2>4
  <2>8. c <= a
    <3> HIDE DEF a, b, c
    <3> QED
      BY <2>7
  <2>5. prices[n] <= prices[n - k]
    BY <2>8
  <2>6. k \in 0..(n - 1)
    BY <1>1
  <2> QED
    BY <2>5, <2>6
<1>5. 0..(n - 1) \subseteq Q
  <2> DEFINE m == n - 1
  <2>1. m \in Nat /\ \A k \in 1..m : k - 1 \in Q => k \in Q
    BY <1>1, <1>4
  <2> HIDE DEF Q, m
  <2>2. 0..m \subseteq Q
    BY <1>3, <2>1, PrefixInduction
  <2> QED
    BY <2>2 DEF m
<1>6. ASSUME NEW i \in 1..n PROVE 0 < prices[i] /\ prices[n] <= prices[i]
  <2>1. n - i \in 0..(n - 1) /\ n - (n - i) = i
    BY <1>1
  <2>2. n - i \in Q
    BY <1>5, <2>1
  <2>3. prices[n] <= prices[n - (n - i)]
    BY <2>2
  <2>4. prices[n] <= prices[i]
    BY <2>1, <2>3
  <2>5. 0 < prices[n]
    <3>1. n - 1 \in 1..(n - 1) /\ (n - 1) + 1 = n
      BY <1>1
    <3> QED
      BY <1>1, <1>2, <3>1
  <2> QED
    BY <1>1, <2>4, <2>5
<1> QED
  BY <1>6 DEF n

LEMMA RecentIs ==
  ASSUME NEW V, NEW s \in Seq(V), NEW days \in Nat \ {0}, days <= Len(s)
  PROVE  /\ Recent(s, days) \in Seq(V) /\ Len(Recent(s, days)) = days
         /\ \A i \in 1..days : Recent(s, days)[i] = s[Len(s) - days + i] /\ Len(s) - days + i \in 1..Len(s)
<1> DEFINE n == Len(s)
           m == n - days + 1
<1>1. n \in Nat /\ m \in Int /\ m >= 1 /\ \A i \in m..n : s[i] \in V
  OBVIOUS
<1>2. /\ SubSeq(s, m, n) \in Seq(V)
      /\ Len(SubSeq(s, m, n)) = IF m <= n THEN n - m + 1 ELSE 0
      /\ \A i \in 1..(n - m + 1) : SubSeq(s, m, n)[i] = s[m + i - 1]
  <2> HIDE DEF m
  <2> QED
    BY <1>1, SubSeqProperties
<1>3. Recent(s, days) = SubSeq(s, m, n)
  BY DEF Recent
<1>4. m <= n /\ n - m + 1 = days /\ \A i \in 1..days : m + i - 1 = n - days + i /\ n - days + i \in 1..n
  BY <1>1
<1> HIDE DEF m, n
<1> QED
  BY <1>2, <1>3, <1>4 DEF n

(* The mean of a rising price lies below its last, of a falling one above.  *)
LEMMA MeansLag ==
  ASSUME NEW prices \in Seq(Nat), Len(prices) >= 2, NEW days \in Nat \ {0}, days <= Len(prices)
  PROVE  (Rising(prices) => ~Under(prices, days)) /\ (Falling(prices) => ~Over(prices, days))
<1> DEFINE r == Recent(prices, days)
           last == prices[Len(prices)]
           sum == SumOf(r)
<1>1. /\ r \in Seq(Nat) /\ Len(r) = days
      /\ \A i \in 1..days : r[i] = prices[Len(prices) - days + i] /\ Len(prices) - days + i \in 1..Len(prices)
  BY RecentIs
<1>2. r \in Seq(Int)
  BY <1>1, SeqMonotonic
<1>3. last \in Nat
  OBVIOUS
<1>4. Under(prices, days) = (100 * days * last < 98 * sum) /\ Over(prices, days) = (100 * days * last > 102 * sum)
  BY DEF Under, Over, Last
<1> HIDE DEF r, last
<1>5. sum \in Int
  BY <1>2, SumType
<1> HIDE DEF sum
<1> DEFINE whole == last * days
<1>6. whole \in Nat /\ 100 * days * last = 100 * whole
  BY <1>3
<1>7. ASSUME Rising(prices) PROVE sum <= whole
  <2>1. \A i \in 1..Len(r) : r[i] <= last
    BY <1>1, <1>7, RisingIs DEF last
  <2>2. last \in Int /\ r \in Seq(Int)
    BY <1>2, <1>3
  <2> HIDE DEF whole
  <2>3. SumOf(r) <= last * Len(r)
    BY <2>1, <2>2, SumAtMost
  <2> QED
    BY <1>1, <2>3 DEF sum, whole
<1>8. ASSUME Falling(prices) PROVE whole <= sum
  <2>1. \A i \in 1..Len(r) : last <= r[i]
    BY <1>1, <1>8, FallingIs DEF last
  <2>2. last \in Int /\ r \in Seq(Int)
    BY <1>2, <1>3
  <2> HIDE DEF whole
  <2>3. last * Len(r) <= SumOf(r)
    BY <2>1, <2>2, SumAtLeast
  <2> QED
    BY <1>1, <2>3 DEF sum, whole
<1> HIDE DEF whole
<1>9. sum <= whole => ~(100 * whole < 98 * sum)
  BY <1>5, <1>6
<1>10. whole <= sum => ~(100 * whole > 102 * sum)
  BY <1>5, <1>6
<1> QED
  BY <1>4, <1>6, <1>7, <1>8, <1>9, <1>10

\* What a claim may say of a price that only rose, and of one that only fell.
Up(c) ==
  /\ c.name = "trend_direction" => c.value \notin {"down", "strong_down"}
  /\ c.name = "rsi_state" => c.value \notin {"oversold", "bearish", "neutral"}
  /\ c.name = "macd_signal" => c.value # "bearish"
  /\ c.name = "position_in_range" => c.value \notin {"near_low", "lower_half", "upper_half"}
  /\ c.name = "max_drawdown_assessment" => c.value \notin {"moderate", "high"}

Down(c) ==
  /\ c.name = "trend_direction" => c.value \notin {"up", "strong_up"}
  /\ c.name = "rsi_state" => c.value \notin {"overbought", "bullish", "neutral"}
  /\ c.name = "macd_signal" => c.value # "bullish"
  /\ c.name = "position_in_range" => c.value # "upper_half"

Agreeing(prices, r) ==
  r # Raised => \A c \in r.claims : (Rising(prices) => Up(c)) /\ (Falling(prices) => Down(c))

LEMMA TrendAgrees ==
  ASSUME NEW prices \in Seq(Nat), Len(prices) >= 2 PROVE Agreeing(prices, Trend(prices))
<1> USE DEF Claim, Result, Insufficient, Agreeing
<1>1. CASE Len(prices) < Short
  BY <1>1 DEF Trend, Up, Down
<1>2. CASE ~(Len(prices) < Short) /\ SumOf(Recent(prices, Short)) = 0
  BY <1>2 DEF Trend
<1>3. CASE ~(Len(prices) < Short) /\ SumOf(Recent(prices, Short)) # 0
  <2> DEFINE long == Len(prices) >= Long
             direction ==
               CASE Over(prices, Short) -> IF long /\ Over(prices, Long) THEN "strong_up" ELSE "up"
                 [] Under(prices, Short) -> IF long /\ Under(prices, Long) THEN "strong_down" ELSE "down"
                 [] OTHER -> "neutral"
             used == {"current_price", "sma_20"} \cup (IF long THEN {"sma_50"} ELSE {})
  <2>1. Trend(prices) = Result(used, {Claim("trend_direction", direction, used, 85),
                                      Claim("price_sma_distance", None, {"current_price", "sma_20"}, 80)})
    BY <1>3 DEF Trend
  <2>2. Short \in Nat \ {0} /\ Short <= Len(prices)
    BY <1>3, WindowsAssumption
  <2>3. (Rising(prices) => ~Under(prices, Short)) /\ (Falling(prices) => ~Over(prices, Short))
    BY <2>2, MeansLag
  <2>4. Rising(prices) => direction \notin {"down", "strong_down"}
    <3> HIDE DEF long
    <3> QED
      BY <2>3
  <2>5. Falling(prices) => direction \notin {"up", "strong_up"}
    <3> HIDE DEF long
    <3> QED
      BY <2>3
  <2> HIDE DEF used, direction, long
  <2> QED
    BY <2>1, <2>4, <2>5 DEF Up, Down
<1> QED
  BY <1>1, <1>2, <1>3

LEMMA LadderTop ==
  ASSUME NEW steps, DOMAIN steps \subseteq Nat \ {0}, 1 \in DOMAIN steps, NEW fits, steps[1][1] \in fits,
         NEW rest
  PROVE  FirstOf(steps, fits, rest) = steps[1][2]
<1> DEFINE fit == {i \in DOMAIN steps : steps[i][1] \in fits}
           first == CHOOSE i \in fit : \A j \in fit : i <= j
<1>1. 1 \in fit /\ \A j \in fit : 1 <= j
  OBVIOUS
<1>2. first \in fit /\ first <= 1
  BY <1>1
<1>3. first = 1
  BY <1>2
<1>4. FirstOf(steps, fits, rest) = steps[first][2]
  BY <1>1 DEF FirstOf
<1> HIDE DEF first
<1> QED
  BY <1>3, <1>4

LEMMA ZeroFloor == ASSUME NEW m \in Nat, m > 0 PROVE Floor(0, m) = 0
BY DivIs DEF Floor

LEMMA RsiBands ==
  ASSUME NEW prices
  PROVE  /\ Strength(prices) = 100 => RsiState(prices) = "overbought"
         /\ Strength(prices) = 0 => RsiState(prices) = "oversold"
<1> DEFINE steps == << <<70, "overbought">>, <<55, "bullish">>, <<45, "neutral">>, <<30, "bearish">> >>
           fits == {b \in Bounds(steps) : Strength(prices) >= b}
<1>1. RsiState(prices) = FirstOf(steps, fits, "oversold")
  BY DEF RsiState, AtLeast
<1>2. DOMAIN steps = 1..4 /\ steps[1] = <<70, "overbought">>
  OBVIOUS
<1>3. \A i \in 1..4 : steps[i][1] \in 30..70
  OBVIOUS
<1> HIDE DEF steps
<1>4. ASSUME Strength(prices) = 100 PROVE FirstOf(steps, fits, "oversold") = "overbought"
  <2>1. steps[1][1] = 70 /\ steps[1][2] = "overbought" /\ 1 \in DOMAIN steps
    BY <1>2
  <2>2. steps[1][1] \in fits
    BY <1>4, <2>1 DEF Bounds
  <2>3. DOMAIN steps \subseteq Nat \ {0}
    BY <1>2
  <2> HIDE DEF fits
  <2>4. FirstOf(steps, fits, "oversold") = steps[1][2]
    BY <2>1, <2>2, <2>3, LadderTop
  <2> QED
    BY <2>1, <2>4
<1>5. ASSUME Strength(prices) = 0 PROVE FirstOf(steps, fits, "oversold") = "oversold"
  <2>1. \A i \in DOMAIN steps : steps[i][1] \notin fits
    BY <1>2, <1>3, <1>5
  <2>2. DOMAIN steps \subseteq Nat
    BY <1>2
  <2> HIDE DEF fits
  <2> QED
    BY <2>1, <2>2, FirstOfNames
<1> QED
  BY <1>1, <1>4, <1>5

LEMMA StepsAre ==
  ASSUME NEW prices \in Seq(Nat), Len(prices) >= 2
  PROVE  /\ Steps(prices) \in Seq(Int) /\ Len(Steps(prices)) = Len(prices) - 1
         /\ Negated(Steps(prices)) \in Seq(Int) /\ Len(Negated(Steps(prices))) = Len(prices) - 1
         /\ \A i \in 1..(Len(prices) - 1) : /\ Steps(prices)[i] = prices[i + 1] - prices[i]
                                            /\ Negated(Steps(prices))[i] = prices[i] - prices[i + 1]
<1> DEFINE n == Len(prices) - 1
           s == Steps(prices)
           t == Negated(s)
<1>1. n \in Nat /\ \A i \in 1..n : prices[i] \in Nat /\ prices[i + 1] \in Nat
  <2>1. n \in Nat /\ Len(prices) = n + 1
    OBVIOUS
  <2>2. ASSUME NEW i \in 1..n PROVE prices[i] \in Nat /\ prices[i + 1] \in Nat
    <3>1. i \in 1..Len(prices) /\ i + 1 \in 1..Len(prices)
      BY <2>1
    <3> HIDE DEF n
    <3> QED
      BY <3>1, ElementOfSeq
  <2> QED
    BY <2>1, <2>2
<1>2. s \in Seq(Int) /\ Len(s) = n /\ \A i \in 1..n : s[i] = prices[i + 1] - prices[i]
  BY <1>1 DEF Steps
<1> HIDE DEF s
<1>3. DOMAIN s = 1..n /\ \A i \in 1..n : s[i] \in Int
  <2>1. s \in Seq(Int) /\ Len(s) = n
    BY <1>2
  <2> HIDE DEF n
  <2> QED
    BY <2>1, SeqFacts, Zenon
<1>4. t = [i \in 1..n |-> -s[i]] /\ \A i \in 1..n : -s[i] \in Int
  BY <1>3 DEF Negated
<1> HIDE DEF t
<1>5. t \in Seq(Int) /\ Len(t) = n /\ \A i \in 1..n : t[i] = -s[i]
  <2> HIDE DEF n
  <2> QED
    BY <1>1, <1>4
<1>6. ASSUME NEW i \in 1..n PROVE t[i] = prices[i] - prices[i + 1]
  <2>1. s[i] = prices[i + 1] - prices[i] /\ t[i] = -s[i] /\ prices[i] \in Nat /\ prices[i + 1] \in Nat
    BY <1>1, <1>2, <1>5
  <2> QED
    BY <2>1
<1> HIDE DEF n
<1> QED
  BY <1>2, <1>5, <1>6 DEF s, t, n

LEMMA PositiveIs ==
  ASSUME NEW s \in Seq(Int)
  PROVE  /\ (\A i \in 1..Len(s) : s[i] <= 0) => Positive(s) = <<>>
         /\ Positive(s) \in Seq(Int) /\ (\A i \in 1..Len(Positive(s)) : 1 <= Positive(s)[i])
         /\ (\E i \in 1..Len(s) : s[i] > 0) => Len(Positive(s)) >= 1
<1> DEFINE out == {x \in ToSet(s) : x <= 0}
           W == {s[i] : i \in DOMAIN s} \ out
           p == Positive(s)
<1>1. Len(s) \in Nat /\ DOMAIN s = 1..Len(s) /\ \A i \in 1..Len(s) : s[i] \in Int
  OBVIOUS
<1>2. W \subseteq {x \in Int : x >= 1} /\ \A i \in 1..Len(s) : s[i] \in out <=> s[i] <= 0
  BY <1>1 DEF ToSet
<1>3. p = Without(s, out)
  BY DEF Positive
<1>4. p \in Seq(W) /\ \A j \in DOMAIN s : s[j] \notin out => \E i \in DOMAIN p : p[i] = s[j]
  <2> HIDE DEF out, p
  <2> QED
    BY <1>3, WithoutIs
<1>5. (\A i \in 1..Len(s) : s[i] <= 0) => W = {}
  BY <1>1, <1>2
<1> HIDE DEF W, p, out
<1>6. p \in Seq(Int) /\ \A i \in 1..Len(p) : 1 <= p[i]
  BY <1>2, <1>4, SeqMonotonic, ElementOfSeq
<1>7. W = {} => p = <<>>
  <2>1. Len(p) \in Nat /\ \A i \in 1..Len(p) : p[i] \in W
    BY <1>4, ElementOfSeq
  <2>2. p # <<>> => Len(p) >= 1
    BY <1>4, EmptySeq
  <2> QED
    BY <2>1, <2>2
<1>8. (\E i \in 1..Len(s) : s[i] > 0) => Len(p) >= 1
  <2> SUFFICES ASSUME NEW j \in 1..Len(s), s[j] > 0 PROVE Len(p) >= 1
    OBVIOUS
  <2>1. s[j] \notin out
    BY <1>1, <1>2
  <2>2. PICK i \in DOMAIN p : TRUE
    BY <1>1, <1>4, <2>1
  <2>3. DOMAIN p = 1..Len(p) /\ Len(p) \in Nat
    BY <1>4
  <2> QED
    BY <2>2, <2>3
<1> QED
  BY <1>5, <1>6, <1>7, <1>8 DEF p

(* technical.py, _analyze_momentum: without losses the index is 100, without*)
(* gains 0.                                                                 *)
LEMMA StrengthIs ==
  ASSUME NEW prices \in Seq(Nat), Len(prices) >= 2
  PROVE  /\ Rising(prices) => Strength(prices) = 100
         /\ Falling(prices) => Strength(prices) = 0
<1> DEFINE AverageOf(s) == IF Len(s) > RsiDays THEN <<SumOf(Recent(s, RsiDays)), RsiDays>>
                           ELSE <<SumOf(s), IF s = <<>> THEN 1 ELSE Len(s)>>
           won == Positive(Steps(prices))
           lost == Positive(Negated(Steps(prices)))
           gain == AverageOf(won)
           loss == AverageOf(lost)
           g == gain[1] * loss[2]
           l == loss[1] * gain[2]
<1>1. Strength(prices) = IF loss[1] = 0 THEN 100 ELSE Floor(100 * g, g + l)
  BY DEF Strength
<1>2. RsiDays \in Nat \ {0}
  BY WindowsAssumption
<1>3. AverageOf(<<>>) = <<0, 1>>
  <2>1. <<>> \in Seq(Int) /\ Len(<<>>) = 0
    BY EmptySeq
  <2>2. SumOf(<<>>) = 0
    BY <2>1, SumType
  <2> QED
    BY <1>2, <2>1, <2>2
<1>4. ASSUME Rising(prices) PROVE lost = <<>>
  <2> DEFINE s == Negated(Steps(prices))
  <2>1. \A i \in 1..(Len(prices) - 1) : prices[i] < prices[i + 1] /\ prices[i] \in Nat /\ prices[i + 1] \in Nat
    BY <1>4 DEF Rising
  <2>2. /\ s \in Seq(Int) /\ Len(s) = Len(prices) - 1
        /\ \A i \in 1..(Len(prices) - 1) : s[i] = prices[i] - prices[i + 1]
    BY StepsAre
  <2> HIDE DEF s
  <2>3. ASSUME NEW i \in 1..Len(s) PROVE s[i] <= 0
    <3>1. i \in 1..(Len(prices) - 1)
      BY <2>2
    <3>2. s[i] = prices[i] - prices[i + 1] /\ prices[i] \in Nat /\ prices[i + 1] \in Nat /\ prices[i] < prices[i + 1]
      BY <2>1, <2>2, <3>1
    <3> QED
      BY <3>2
  <2> QED
    BY <2>2, <2>3, PositiveIs DEF s
<1>5. ASSUME Falling(prices) PROVE won = <<>> /\ lost \in Seq(Int) /\ Len(lost) >= 1 /\ \A i \in 1..Len(lost) : 1 <= lost[i]
  <2> DEFINE s == Steps(prices)
             t == Negated(s)
  <2>1. \A i \in 1..(Len(prices) - 1) : prices[i] > prices[i + 1] /\ prices[i] \in Nat /\ prices[i + 1] \in Nat
    BY <1>5 DEF Falling
  <2>2. /\ s \in Seq(Int) /\ Len(s) = Len(prices) - 1 /\ t \in Seq(Int) /\ Len(t) = Len(prices) - 1
        /\ \A i \in 1..(Len(prices) - 1) : s[i] = prices[i + 1] - prices[i] /\ t[i] = prices[i] - prices[i + 1]
    BY StepsAre
  <2> HIDE DEF s, t
  <2>3. ASSUME NEW i \in 1..Len(s) PROVE s[i] <= 0
    <3>1. i \in 1..(Len(prices) - 1)
      BY <2>2
    <3>2. s[i] = prices[i + 1] - prices[i] /\ prices[i] \in Nat /\ prices[i + 1] \in Nat /\ prices[i] > prices[i + 1]
      BY <2>1, <2>2, <3>1
    <3> QED
      BY <3>2
  <2>4. 1 \in 1..Len(t) /\ t[1] > 0
    <3>1. 1 \in 1..(Len(prices) - 1) /\ 1 \in 1..Len(t)
      BY <2>2
    <3>2. t[1] = prices[1] - prices[1 + 1]
      BY <2>2, <3>1
    <3>3. prices[1] \in Nat /\ prices[1 + 1] \in Nat /\ prices[1] > prices[1 + 1]
      BY <2>1, <3>1
    <3> QED
      BY <3>1, <3>2, <3>3
  <2>5. won = <<>>
    BY <2>2, <2>3, PositiveIs DEF s
  <2>6. lost = Positive(t)
    BY DEF s, t
  <2> QED
    BY <2>2, <2>4, <2>5, <2>6, PositiveIs
<1>6. CASE Rising(prices) /\ ~Falling(prices)
  <2>1. loss[1] = 0
    BY <1>3, <1>4, <1>6
  <2> QED
    BY <1>1, <1>6, <2>1
<1>7. CASE Falling(prices) /\ ~Rising(prices)
  <2>1. gain = <<0, 1>>
    BY <1>3, <1>5, <1>7
  <2>2. loss[1] \in Nat \ {0} /\ loss[2] \in Nat
    <3>0. lost \in Seq(Int) /\ Len(lost) \in Nat \ {0} /\ \A i \in 1..Len(lost) : 1 <= lost[i]
      BY <1>5, <1>7
    <3> HIDE DEF lost
    <3>1. CASE Len(lost) > RsiDays
      <4> DEFINE r == Recent(lost, RsiDays)
      <4>0. /\ r \in Seq(Int) /\ Len(r) = RsiDays
            /\ \A i \in 1..RsiDays : r[i] = lost[Len(lost) - RsiDays + i]
                                     /\ Len(lost) - RsiDays + i \in 1..Len(lost)
        <5>1. RsiDays <= Len(lost)
          BY <1>2, <3>0, <3>1
        <5> QED
          BY <1>2, <3>0, <5>1, RecentIs
      <4> HIDE DEF r
      <4>1. r \in Seq(Int) /\ Len(r) = RsiDays /\ \A i \in 1..Len(r) : 1 <= r[i]
        BY <3>0, <4>0
      <4>2. loss = <<SumOf(r), RsiDays>>
        BY <3>1 DEF r
      <4> HIDE DEF r, loss
      <4>3. SumOf(r) \in Int /\ 1 * Len(r) <= SumOf(r)
        BY <4>1, SumType, SumAtLeast
      <4> QED
        BY <1>2, <4>1, <4>2, <4>3
    <3>2. CASE ~(Len(lost) > RsiDays)
      <4>1. loss = <<SumOf(lost), IF lost = <<>> THEN 1 ELSE Len(lost)>>
        BY <3>2
      <4> HIDE DEF loss
      <4>2. SumOf(lost) \in Int /\ 1 * Len(lost) <= SumOf(lost)
        BY <3>0, SumType, SumAtLeast
      <4> QED
        BY <3>0, <4>1, <4>2
    <3> QED
      BY <3>1, <3>2
  <2> HIDE DEF gain, loss
  <2>3. g = 0 /\ l = loss[1]
    BY <2>1, <2>2
  <2>4. Floor(0, loss[1]) = 0
    BY <2>2, ZeroFloor
  <2> HIDE DEF g, l
  <2>5. 100 * g = 0 /\ g + l = loss[1]
    BY <2>2, <2>3
  <2> QED
    BY <1>1, <1>7, <2>2, <2>4, <2>5
<1>8. ~(Rising(prices) /\ Falling(prices))
  <2>1. 1 \in 1..(Len(prices) - 1) /\ prices[1] \in Nat /\ prices[1 + 1] \in Nat
    OBVIOUS
  <2> QED
    BY <2>1 DEF Rising, Falling
<1> QED
  BY <1>6, <1>7, <1>8

(* An exponential mean, day by day.                                         *)
EmaRun(prices, days, r) ==
  /\ r[0] = <<prices[1], 1>>
  /\ \A k \in 0..(Len(prices) - 1) : r[k][1] \in Nat /\ r[k][2] \in Nat \ {0}
  /\ \A k \in 1..(Len(prices) - 1) :
       r[k] = <<2 * prices[k + 1] * r[k - 1][2] + (days - 1) * r[k - 1][1], r[k - 1][2] * (days + 1)>>

LEMMA EmaStepType ==
  ASSUME NEW a \in Nat, NEW b \in Nat \ {0}, NEW x \in Nat, NEW days \in Nat \ {0}
  PROVE  2 * x * b + (days - 1) * a \in Nat /\ b * (days + 1) \in Nat \ {0}
<1>1. 2 * x \in Nat /\ days - 1 \in Nat /\ days + 1 \in Nat
  OBVIOUS
<1>2. (2 * x) * b \in Nat /\ (days - 1) * a \in Nat /\ b * (days + 1) \in Nat
  BY <1>1, ProductType
<1>3. b * (days + 1) # 0
  OBVIOUS
<1>4. 2 * x * b + (days - 1) * a \in Nat
  BY <1>2
<1> QED
  BY <1>2, <1>3, <1>4

LEMMA EmaFold ==
  ASSUME NEW prices \in Seq(Nat), Len(prices) >= 2, NEW days \in Nat \ {0}
  PROVE  \E r : EmaRun(prices, days, r) /\ Ema(prices, days) = r[Len(prices) - 1]
<1> DEFINE s == Tail(prices)
           base == <<Head(prices), 1>>
           A == Nat \X (Nat \ {0})
           Op(e, p) == <<2 * p * e[2] + (days - 1) * e[1], e[2] * (days + 1)>>
           n == Len(s)
           Rec(g) == g = [t \in SUBSET DOMAIN s |->
                            IF t = {} THEN base ELSE LET x == Max(t) IN Op(g[t \ {x}], s[x])]
           iter == CHOOSE g : Rec(g)
           step == [p \in (1..n) \X A |-> Op(p[2], s[p[1]])]
           r == [k \in 0..n |-> iter[1..k]]
<1>1. Ema(prices, days) = iter[DOMAIN s]
  BY DEF Ema, FoldLeft, MapThenFoldSet
<1>2. /\ s \in Seq(Nat) /\ n = Len(prices) - 1 /\ base = <<prices[1], 1>> /\ prices[1] \in Nat
      /\ \A i \in 1..n : s[i] = prices[i + 1]
  <2>1. prices # <<>>
    BY EmptySeq
  <2>2. Head(prices) = prices[1] /\ prices[1] \in Nat
    OBVIOUS
  <2> QED
    BY <2>1, <2>2, HeadTailProperties
<1>3. n \in Nat /\ DOMAIN s = 1..n /\ \A i \in 1..n : s[i] \in Nat
  BY <1>2
<1>4. base \in A
  BY <1>2
<1> HIDE DEF base, s
<1>5. ASSUME NEW e \in A, NEW i \in 1..n PROVE Op(e, s[i]) \in A
  <2>1. e[1] \in Nat /\ e[2] \in Nat \ {0} /\ s[i] \in Nat
    BY <1>3
  <2>2. 2 * s[i] * e[2] + (days - 1) * e[1] \in Nat /\ e[2] * (days + 1) \in Nat \ {0}
    BY <2>1, EmaStepType
  <2> QED
    BY <2>2
<1>6. step \in [(1..n) \X A -> A]
  <2> HIDE DEF A, Op
  <2> QED
    BY <1>5
<1>7. PICK g : Run(n, A, base, step, g)
  <2> HIDE DEF A, step, n
  <2> QED
    BY <1>3, <1>4, <1>6, SeqFold
<1>8. ASSUME NEW t \in SUBSET (1..n), t # {}
      PROVE  g[t] = LET x == Max(t) IN Op(g[t \ {x}], s[x])
  <2>1. Max(t) \in 1..n /\ g[t \ {Max(t)}] \in A /\ g[t] = step[<<Max(t), g[t \ {Max(t)}]>>]
    BY <1>7, <1>8 DEF Run
  <2> HIDE DEF Op, A
  <2> QED
    BY <2>1
<1>9. Rec(g)
  <2> HIDE DEF Op, n, step, A
  <2> QED
    BY <1>3, <1>7, <1>8 DEF Run
<1>10. Rec(iter)
  <2> HIDE DEF Rec
  <2> QED
    BY <1>9
<1> HIDE DEF iter
<1>11. r[0] = base
  <2>1. 1..0 = {} /\ {} \in SUBSET DOMAIN s /\ 0 \in 0..n
    BY <1>3
  <2> HIDE DEF Op
  <2>2. iter[{}] = base
    BY <1>10, <2>1
  <2> QED
    BY <2>1, <2>2
<1>12. ASSUME NEW k \in 1..n PROVE r[k] = Op(r[k - 1], s[k])
  <2>1. /\ 1..k \in SUBSET (1..n) /\ 1..k # {} /\ Max(1..k) = k
        /\ (1..k) \ {k} = 1..(k - 1) /\ k - 1 \in 0..n /\ k \in 0..n
    <3> HIDE DEF n, A, Op
    <3>1. n \in Nat
      BY <1>3
    <3>2. k \in 0..n
      BY <3>1
    <3> QED
      BY <3>1, <3>2, PrefixFacts, Zenon
  <2> DEFINE t == 1..k
  <2>2. iter[t] = LET x == Max(t) IN Op(iter[t \ {x}], s[x])
    <3> HIDE DEF t, Op, n
    <3> QED
      BY <1>3, <1>10, <2>1 DEF t
  <2>3. iter[1..k] = Op(iter[1..(k - 1)], s[k])
    BY <2>1, <2>2
  <2> HIDE DEF Op
  <2> QED
    BY <2>1, <2>3
<1>13. Ema(prices, days) = r[n]
  BY <1>1, <1>3
<1> HIDE DEF r
<1>14. 0..n \subseteq {k \in 0..n : r[k] \in A}
  <2> DEFINE Q == {k \in 0..n : r[k] \in A}
  <2>1. 0 \in Q
    BY <1>3, <1>4, <1>11
  <2>2. ASSUME NEW k \in 1..n, k - 1 \in Q PROVE k \in Q
    <3>1. r[k - 1] \in A /\ k \in 0..n
      BY <1>3, <2>2
    <3>2. r[k] = Op(r[k - 1], s[k])
      BY <1>12
    <3>3. Op(r[k - 1], s[k]) \in A
      BY <1>5, <3>1
    <3> HIDE DEF A, Op
    <3> QED
      BY <3>1, <3>2, <3>3
  <2> HIDE DEF Q, n
  <2> QED
    BY <1>3, <2>1, <2>2, PrefixInduction DEF Q
<1>15. \A k \in 0..n : r[k][1] \in Nat /\ r[k][2] \in Nat \ {0}
  BY <1>14
<1>16. \A k \in 1..n :
         r[k] = <<2 * prices[k + 1] * r[k - 1][2] + (days - 1) * r[k - 1][1], r[k - 1][2] * (days + 1)>>
  BY <1>2, <1>12
<1> HIDE DEF n
<1>17. EmaRun(prices, days, r)
  <2>1. n = Len(prices) - 1 /\ r[0] = <<prices[1], 1>>
    BY <1>2, <1>11
  <2> QED
    BY <1>15, <1>16, <2>1 DEF EmaRun
<1> QED
  BY <1>2, <1>13, <1>17

(* Of two means of a price that goes on rising the one over fewer days      *)
(* rises faster: a of b days counts more of the price p than c of d.        *)
LEMMA FasterRises ==
  ASSUME NEW a \in Nat, NEW b \in Nat \ {0}, NEW c \in Nat, NEW d \in Nat \ {0}, NEW p \in Nat,
         NEW f \in Nat \ {0}, NEW w \in Nat \ {0}, f < w, a < p * b, c * b <= a * d
  PROVE  (2 * p * d + (w - 1) * c) * (b * (f + 1)) < (2 * p * b + (f - 1) * a) * (d * (w + 1))
<1> DEFINE x == p * b * d
           y == a * d
           z == c * b
<1>1. x \in Nat /\ y \in Nat /\ z \in Nat
  BY ProductType
<1>2. y < x /\ z <= y
  <2>1. p * b \in Nat /\ a + 1 <= p * b
    BY ProductType
  <2>2. (a + 1) * d <= (p * b) * d
    BY <2>1
  <2>3. (a + 1) * d = a * d + d
    OBVIOUS
  <2> QED
    BY <1>1, <2>2, <2>3
<1>3. (2 * p * d + (w - 1) * c) * (b * (f + 1)) = 2 * (f + 1) * x + (w - 1) * (f + 1) * z
  OBVIOUS
<1>4. (2 * p * b + (f - 1) * a) * (d * (w + 1)) = 2 * (w + 1) * x + (f - 1) * (w + 1) * y
  OBVIOUS
<1> HIDE DEF x, y, z
<1>5. (w - 1) * (f + 1) * z <= (w - 1) * (f + 1) * y
  <2> DEFINE u == (w - 1) * (f + 1)
  <2>1. u \in Nat
    OBVIOUS
  <2> HIDE DEF u
  <2>2. u * z <= u * y
    BY <1>1, <1>2, <2>1
  <2> QED
    BY <2>2 DEF u
<1>6. 2 * (f + 1) * x + (w - 1) * (f + 1) * y < 2 * (w + 1) * x + (f - 1) * (w + 1) * y
  <2> DEFINE v == w - f
  <2>1. v \in Nat \ {0} /\ w = f + v
    OBVIOUS
  <2> HIDE DEF v
  <2>2. 2 * v * y < 2 * v * x
    BY <1>1, <1>2, <2>1
  <2>3. 2 * (w + 1) * x = 2 * (f + 1) * x + 2 * v * x
    BY <1>1, <2>1
  <2>4. (w - 1) * (f + 1) * y = (f - 1) * (w + 1) * y + 2 * v * y
    BY <1>1, <2>1
  <2>5. /\ 2 * (f + 1) * x \in Int /\ (f - 1) * (w + 1) * y \in Int /\ 2 * v * y \in Int /\ 2 * v * x \in Int
    BY <1>1, <2>1
  <2> QED
    BY <2>2, <2>3, <2>4, <2>5
<1>7. /\ 2 * (f + 1) * x \in Int /\ (w - 1) * (f + 1) * z \in Int /\ (w - 1) * (f + 1) * y \in Int
      /\ 2 * (w + 1) * x \in Int /\ (f - 1) * (w + 1) * y \in Int
  BY <1>1
<1> QED
  BY <1>3, <1>4, <1>5, <1>6, <1>7

LEMMA FasterFalls ==
  ASSUME NEW a \in Nat, NEW b \in Nat \ {0}, NEW c \in Nat, NEW d \in Nat \ {0}, NEW p \in Nat,
         NEW f \in Nat \ {0}, NEW w \in Nat \ {0}, f < w, p * b < a, a * d <= c * b
  PROVE  (2 * p * b + (f - 1) * a) * (d * (w + 1)) <= (2 * p * d + (w - 1) * c) * (b * (f + 1))
<1> DEFINE x == p * b * d
           y == a * d
           z == c * b
<1>1. x \in Nat /\ y \in Nat /\ z \in Nat
  BY ProductType
<1>2. x <= y /\ y <= z
  <2>1. p * b \in Nat
    BY ProductType
  <2>2. (p * b) * d <= a * d
    BY <2>1
  <2> QED
    BY <2>2
<1>3. (2 * p * d + (w - 1) * c) * (b * (f + 1)) = 2 * (f + 1) * x + (w - 1) * (f + 1) * z
  OBVIOUS
<1>4. (2 * p * b + (f - 1) * a) * (d * (w + 1)) = 2 * (w + 1) * x + (f - 1) * (w + 1) * y
  OBVIOUS
<1> HIDE DEF x, y, z
<1>5. (w - 1) * (f + 1) * y <= (w - 1) * (f + 1) * z
  <2> DEFINE u == (w - 1) * (f + 1)
  <2>1. u \in Nat
    OBVIOUS
  <2> HIDE DEF u
  <2>2. u * y <= u * z
    BY <1>1, <1>2, <2>1
  <2> QED
    BY <2>2 DEF u
<1>6. 2 * (w + 1) * x + (f - 1) * (w + 1) * y <= 2 * (f + 1) * x + (w - 1) * (f + 1) * y
  <2> DEFINE v == w - f
  <2>1. v \in Nat \ {0} /\ w = f + v
    OBVIOUS
  <2> HIDE DEF v
  <2>2. 2 * v * x <= 2 * v * y
    BY <1>1, <1>2, <2>1
  <2>3. 2 * (w + 1) * x = 2 * (f + 1) * x + 2 * v * x
    BY <1>1, <2>1
  <2>4. (w - 1) * (f + 1) * y = (f - 1) * (w + 1) * y + 2 * v * y
    BY <1>1, <2>1
  <2>5. /\ 2 * (f + 1) * x \in Int /\ (f - 1) * (w + 1) * y \in Int /\ 2 * v * y \in Int /\ 2 * v * x \in Int
    BY <1>1, <2>1
  <2> QED
    BY <2>2, <2>3, <2>4, <2>5
<1>7. /\ 2 * (f + 1) * x \in Int /\ (w - 1) * (f + 1) * z \in Int /\ (w - 1) * (f + 1) * y \in Int
      /\ 2 * (w + 1) * x \in Int /\ (f - 1) * (w + 1) * y \in Int
  BY <1>1
<1> QED
  BY <1>3, <1>4, <1>5, <1>6, <1>7

LEMMA MeanBelow ==
  ASSUME NEW a \in Nat, NEW b \in Nat \ {0}, NEW p \in Nat, NEW f \in Nat \ {0}
  PROVE  /\ a <= p * b => 2 * p * b + (f - 1) * a <= p * (b * (f + 1))
         /\ p * b <= a => p * (b * (f + 1)) <= 2 * p * b + (f - 1) * a
<1> DEFINE x == p * b
<1>1. x \in Nat /\ f - 1 \in Nat
  BY ProductType
<1>2. p * (b * (f + 1)) = 2 * x + (f - 1) * x /\ 2 * p * b = 2 * x
  OBVIOUS
<1> HIDE DEF x
<1>3. a <= x => (f - 1) * a <= (f - 1) * x
  BY <1>1
<1>4. x <= a => (f - 1) * x <= (f - 1) * a
  BY <1>1
<1>5. (f - 1) * x \in Int /\ (f - 1) * a \in Int
  BY <1>1
<1>6. /\ a <= x => 2 * x + (f - 1) * a <= 2 * x + (f - 1) * x
      /\ x <= a => 2 * x + (f - 1) * x <= 2 * x + (f - 1) * a
  BY <1>1, <1>3, <1>4, <1>5
<1> QED
  BY <1>2, <1>6 DEF x

LEMMA ProductOrder ==
  ASSUME NEW x \in Nat, NEW y \in Nat, NEW b \in Nat \ {0}, NEW a \in Nat
  PROVE  /\ x < y /\ a <= x * b => a < y * b
         /\ y < x /\ x * b <= a => y * b < a
<1>1. x * b \in Nat /\ y * b \in Nat
  BY ProductType
<1>2. (x < y => x * b < y * b) /\ (y < x => y * b < x * b)
  OBVIOUS
<1> QED
  BY <1>1, <1>2

(* technical.py, _calculate_ema: the mean over fewer days lies ahead.       *)
LEMMA MacdIs ==
  ASSUME NEW prices \in Seq(Nat), Len(prices) >= 2
  PROVE  /\ Rising(prices) => MacdSignal(prices) = "bullish"
         /\ Falling(prices) => MacdSignal(prices) = "bearish"
<1>1. Fast \in Nat \ {0} /\ Slow \in Nat \ {0} /\ Fast < Slow
  BY WindowsAssumption
<1>2. PICK r : EmaRun(prices, Fast, r) /\ Ema(prices, Fast) = r[Len(prices) - 1]
  BY <1>1, EmaFold
<1>3. PICK q : EmaRun(prices, Slow, q) /\ Ema(prices, Slow) = q[Len(prices) - 1]
  BY <1>1, EmaFold
<1> DEFINE n == Len(prices) - 1
<1>4. n \in Nat \ {0} /\ \A k \in 0..n : prices[k + 1] \in Nat
  <2>1. n \in Nat \ {0} /\ Len(prices) = n + 1
    <3> DEFINE m == Len(prices)
    <3>1. m \in Nat /\ m >= 2
      OBVIOUS
    <3> HIDE DEF m
    <3>2. m - 1 \in Nat \ {0} /\ m = (m - 1) + 1
      BY <3>1
    <3> QED
      BY <3>2 DEF m
  <2>2. ASSUME NEW k \in 0..n PROVE prices[k + 1] \in Nat
    <3>1. k + 1 \in 1..Len(prices)
      BY <2>1
    <3> QED
      BY <3>1
  <2> QED
    BY <2>1, <2>2
<1>5. /\ r[0] = <<prices[1], 1>> /\ q[0] = <<prices[1], 1>>
      /\ \A k \in 0..n : /\ r[k][1] \in Nat /\ r[k][2] \in Nat \ {0}
                         /\ q[k][1] \in Nat /\ q[k][2] \in Nat \ {0}
  BY <1>2, <1>3 DEF EmaRun
<1>6. ASSUME NEW k \in 1..n
      PROVE  /\ r[k][1] = 2 * prices[k + 1] * r[k - 1][2] + (Fast - 1) * r[k - 1][1]
             /\ r[k][2] = r[k - 1][2] * (Fast + 1)
             /\ q[k][1] = 2 * prices[k + 1] * q[k - 1][2] + (Slow - 1) * q[k - 1][1]
             /\ q[k][2] = q[k - 1][2] * (Slow + 1)
  <2>1. /\ r[k] = <<2 * prices[k + 1] * r[k - 1][2] + (Fast - 1) * r[k - 1][1], r[k - 1][2] * (Fast + 1)>>
        /\ q[k] = <<2 * prices[k + 1] * q[k - 1][2] + (Slow - 1) * q[k - 1][1], q[k - 1][2] * (Slow + 1)>>
    BY <1>2, <1>3 DEF EmaRun
  <2> QED
    BY <2>1
<1>7. ASSUME NEW k \in 1..n
      PROVE  /\ k - 1 \in 0..n /\ k \in 0..n /\ (k - 1) + 1 = k
             /\ Rising(prices) => prices[k] < prices[k + 1]
             /\ Falling(prices) => prices[k + 1] < prices[k]
  <2>1. prices[k] \in Nat /\ prices[k + 1] \in Nat
    OBVIOUS
  <2> QED
    BY <2>1 DEF Rising, Falling
<1>8. MacdSignal(prices) = IF r[n][1] * q[n][2] > q[n][1] * r[n][2] THEN "bullish" ELSE "bearish"
  BY <1>2, <1>3 DEF MacdSignal
<1> HIDE DEF n
<1>9. ASSUME Rising(prices) PROVE q[n][1] * r[n][2] < r[n][1] * q[n][2]
  <2> DEFINE Q == {k \in 0..n : /\ r[k][1] <= prices[k + 1] * r[k][2]
                                /\ IF k = 0 THEN q[k][1] * r[k][2] <= r[k][1] * q[k][2]
                                   ELSE q[k][1] * r[k][2] < r[k][1] * q[k][2]}
  <2>1. 0 \in Q
    <3>1. /\ r[0][1] = prices[1] /\ r[0][2] = 1 /\ q[0][1] = prices[1] /\ q[0][2] = 1
          /\ prices[1] \in Nat /\ prices[0 + 1] = prices[1] /\ 0 \in 0..n
      BY <1>4, <1>5
    <3> QED
      BY <3>1
  <2>2. ASSUME NEW k \in 1..n, k - 1 \in Q PROVE k \in Q
    <3> DEFINE a == r[k - 1][1]
               b == r[k - 1][2]
               c == q[k - 1][1]
               d == q[k - 1][2]
               p == prices[k + 1]
               before == prices[k]
    <3>1. a \in Nat /\ b \in Nat \ {0} /\ c \in Nat /\ d \in Nat \ {0} /\ p \in Nat /\ before \in Nat
      BY <1>4, <1>5, <1>7
    <3>2. before < p
      BY <1>7, <1>9
    <3>3. a <= before * b /\ (c * b <= a * d \/ c * b < a * d)
      BY <1>7, <2>2
    <3>4. /\ r[k][1] = 2 * p * b + (Fast - 1) * a /\ r[k][2] = b * (Fast + 1)
          /\ q[k][1] = 2 * p * d + (Slow - 1) * c /\ q[k][2] = d * (Slow + 1)
      BY <1>6
    <3> HIDE DEF a, b, c, d, p, before
    <3>5. a < p * b /\ c * b <= a * d
      <4>1. a < p * b
        BY <3>1, <3>2, <3>3, ProductOrder
      <4>2. c * b \in Nat /\ a * d \in Nat
        BY <3>1, ProductType
      <4> QED
        BY <3>3, <4>1, <4>2
    <3>6. (2 * p * d + (Slow - 1) * c) * (b * (Fast + 1)) < (2 * p * b + (Fast - 1) * a) * (d * (Slow + 1))
      BY <1>1, <3>1, <3>5, FasterRises
    <3>7. 2 * p * b + (Fast - 1) * a <= p * (b * (Fast + 1))
      <4>1. p * b \in Nat
        BY <3>1, ProductType
      <4>2. a <= p * b
        BY <3>1, <3>5, <4>1
      <4> QED
        BY <1>1, <3>1, <4>2, MeanBelow
    <3>8. r[k][1] <= p * r[k][2] /\ q[k][1] * r[k][2] < r[k][1] * q[k][2]
      BY <3>4, <3>6, <3>7
    <3> QED
      BY <1>7, <3>8 DEF p
  <2>3. 0..n \subseteq Q
    <3> HIDE DEF Q
    <3> QED
      BY <1>4, <2>1, <2>2, PrefixInduction
  <2>4. n \in Q
    BY <1>4, <2>3
  <2> QED
    BY <1>4, <2>4
<1>10. ASSUME Falling(prices) PROVE r[n][1] * q[n][2] <= q[n][1] * r[n][2]
  <2> DEFINE Q == {k \in 0..n : /\ prices[k + 1] * r[k][2] <= r[k][1]
                                /\ r[k][1] * q[k][2] <= q[k][1] * r[k][2]}
  <2>1. 0 \in Q
    <3>1. /\ r[0][1] = prices[1] /\ r[0][2] = 1 /\ q[0][1] = prices[1] /\ q[0][2] = 1
          /\ prices[1] \in Nat /\ prices[0 + 1] = prices[1] /\ 0 \in 0..n
      BY <1>4, <1>5
    <3> QED
      BY <3>1
  <2>2. ASSUME NEW k \in 1..n, k - 1 \in Q PROVE k \in Q
    <3> DEFINE a == r[k - 1][1]
               b == r[k - 1][2]
               c == q[k - 1][1]
               d == q[k - 1][2]
               p == prices[k + 1]
               before == prices[k]
    <3>1. a \in Nat /\ b \in Nat \ {0} /\ c \in Nat /\ d \in Nat \ {0} /\ p \in Nat /\ before \in Nat
      BY <1>4, <1>5, <1>7
    <3>2. p < before
      BY <1>7, <1>10
    <3>3. before * b <= a /\ a * d <= c * b
      BY <1>7, <2>2
    <3>4. /\ r[k][1] = 2 * p * b + (Fast - 1) * a /\ r[k][2] = b * (Fast + 1)
          /\ q[k][1] = 2 * p * d + (Slow - 1) * c /\ q[k][2] = d * (Slow + 1)
      BY <1>6
    <3> HIDE DEF a, b, c, d, p, before
    <3>5. p * b < a
      BY <3>1, <3>2, <3>3, ProductOrder
    <3>6. (2 * p * b + (Fast - 1) * a) * (d * (Slow + 1)) <= (2 * p * d + (Slow - 1) * c) * (b * (Fast + 1))
      BY <1>1, <3>1, <3>3, <3>5, FasterFalls
    <3>7. p * (b * (Fast + 1)) <= 2 * p * b + (Fast - 1) * a
      <4>1. p * b \in Nat
        BY <3>1, ProductType
      <4>2. p * b <= a
        BY <3>1, <3>5, <4>1
      <4> QED
        BY <1>1, <3>1, <4>2, MeanBelow
    <3>8. p * r[k][2] <= r[k][1] /\ r[k][1] * q[k][2] <= q[k][1] * r[k][2]
      BY <3>4, <3>6, <3>7
    <3> QED
      BY <1>7, <3>8 DEF p
  <2>3. 0..n \subseteq Q
    <3> HIDE DEF Q
    <3> QED
      BY <1>4, <2>1, <2>2, PrefixInduction
  <2>4. n \in Q
    BY <1>4, <2>3
  <2> QED
    BY <1>4, <2>4
<1> DEFINE u == r[n][1] * q[n][2]
           v == q[n][1] * r[n][2]
<1>11. u \in Nat /\ v \in Nat
  <2>1. n \in 0..n
    BY <1>4
  <2>2. r[n][1] \in Nat /\ r[n][2] \in Nat /\ q[n][1] \in Nat /\ q[n][2] \in Nat
    BY <1>5, <2>1
  <2> QED
    BY <2>2, ProductType
<1>12. MacdSignal(prices) = (IF u > v THEN "bullish" ELSE "bearish")
       /\ (Rising(prices) => v < u) /\ (Falling(prices) => u <= v)
  BY <1>8, <1>9, <1>10
<1> HIDE DEF u, v
<1> QED
  BY <1>11, <1>12

LEMMA MomentumAgrees ==
  ASSUME NEW prices \in Seq(Nat), Len(prices) >= 2 PROVE Agreeing(prices, Momentum(prices))
<1> USE DEF Claim, Result, Insufficient, Agreeing
<1>1. CASE Len(prices) < RsiDays
  BY <1>1 DEF Momentum, Up, Down
<1>2. CASE ~(Len(prices) < RsiDays)
  <2> DEFINE state == RsiState(prices)
             signal == MacdSignal(prices)
             macd == Len(prices) >= Slow
  <2>1. Momentum(prices) =
          Result({"rsi_14"} \cup (IF macd THEN {"macd_line"} ELSE {}),
                 {Claim("rsi_state", state, {"rsi_14"}, 80)}
                   \cup (IF macd THEN {Claim("macd_signal", signal, {"macd_line"}, 75)} ELSE {}))
    BY <1>2 DEF Momentum
  <2>2. (Rising(prices) => state = "overbought") /\ (Falling(prices) => state = "oversold")
    BY StrengthIs, RsiBands
  <2>3. (Rising(prices) => signal = "bullish") /\ (Falling(prices) => signal = "bearish")
    BY MacdIs
  <2> HIDE DEF state, signal, macd
  <2> QED
    BY <2>1, <2>2, <2>3 DEF Up, Down
<1> QED
  BY <1>1, <1>2

LEMMA DrawdownIs ==
  ASSUME NEW s \in Seq(Nat), s # <<>>, \A i \in 1..(Len(s) - 1) : s[i] < s[i + 1]
  PROVE  Drawdown(s) = <<1, 0>>
<1> DEFINE base == [peak |-> Head(s), worst |-> <<1, 0>>]
           A == [peak : Nat, worst : Nat \X Int]
           Op(d, p) == LET peak == IF p > d.peak THEN p ELSE d.peak
                       IN  [peak |-> peak,
                            worst |-> IF (peak - p) * d.worst[1] > d.worst[2] * peak THEN <<peak, peak - p>>
                                      ELSE d.worst]
           n == Len(s)
           Rec(g) == g = [t \in SUBSET DOMAIN s |->
                            IF t = {} THEN base ELSE LET x == Max(t) IN Op(g[t \ {x}], s[x])]
           iter == CHOOSE g : Rec(g)
           step == [p \in (1..n) \X A |-> Op(p[2], s[p[1]])]
<1>1. Drawdown(s) = iter[DOMAIN s].worst
  BY DEF Drawdown, FoldLeft, MapThenFoldSet
<1>2. n \in Nat \ {0} /\ DOMAIN s = 1..n /\ \A i \in 1..n : s[i] \in Nat
  BY EmptySeq
<1>3. base = [peak |-> s[1], worst |-> <<1, 0>>] /\ s[1] \in Nat /\ 1 \in 1..n
  BY <1>2
<1>4. base \in A
  BY <1>3
<1>5. \A i \in 1..(n - 1) : s[i] < s[i + 1]
  OBVIOUS
<1> HIDE DEF base, n
<1>6. ASSUME NEW d \in A, NEW i \in 1..n PROVE Op(d, s[i]) \in A
  <2> DEFINE p == s[i]
             peak == IF p > d.peak THEN p ELSE d.peak
  <2>1. p \in Nat /\ d.peak \in Nat /\ d.worst \in Nat \X Int
    BY <1>2
  <2>2. Op(d, p) = [peak |-> peak, worst |-> IF (peak - p) * d.worst[1] > d.worst[2] * peak
                                             THEN <<peak, peak - p>> ELSE d.worst]
    OBVIOUS
  <2> HIDE DEF p
  <2>3. peak \in Nat /\ peak - p \in Int
    BY <2>1
  <2> DEFINE worst == IF (peak - p) * d.worst[1] > d.worst[2] * peak THEN <<peak, peak - p>> ELSE d.worst
  <2> HIDE DEF peak, Op
  <2>4. worst \in Nat \X Int
    BY <2>1, <2>3
  <2>5. Op(d, p) = [peak |-> peak, worst |-> worst]
    BY <2>2
  <2> HIDE DEF worst
  <2>6. Op(d, p) \in A
    BY <2>3, <2>4, <2>5
  <2> QED
    BY <2>6 DEF p
<1>7. step \in [(1..n) \X A -> A]
  <2> HIDE DEF A, Op
  <2> QED
    BY <1>6
<1>8. PICK g : Run(n, A, base, step, g)
  <2> HIDE DEF A, step
  <2> QED
    BY <1>2, <1>4, <1>7, SeqFold
<1>9. ASSUME NEW t \in SUBSET (1..n), t # {}
      PROVE  g[t] = LET x == Max(t) IN Op(g[t \ {x}], s[x])
  <2>1. Max(t) \in 1..n /\ g[t \ {Max(t)}] \in A /\ g[t] = step[<<Max(t), g[t \ {Max(t)}]>>]
    BY <1>8, <1>9 DEF Run
  <2> HIDE DEF Op, A
  <2> QED
    BY <2>1
<1>10. Rec(g)
  <2> HIDE DEF Op, step, A
  <2> QED
    BY <1>2, <1>8, <1>9 DEF Run
<1>11. Rec(iter)
  <2> HIDE DEF Rec
  <2> QED
    BY <1>10
<1> HIDE DEF iter
<1> DEFINE At(k) == [peak |-> IF k = 0 THEN s[1] ELSE s[k], worst |-> <<1, 0>>]
           Q == {k \in 0..n : iter[1..k] = At(k)}
<1>12. 0 \in Q
  <2>1. 1..0 = {} /\ 0 \in 0..n /\ {} \in SUBSET (1..n)
    BY <1>2
  <2>2. iter[{}] = base
    BY <1>2, <1>11, <2>1
  <2> QED
    BY <1>3, <2>1, <2>2
<1>13. ASSUME NEW k \in 1..n, k - 1 \in Q PROVE k \in Q
  <2>1. /\ 1..k \in SUBSET (1..n) /\ 1..k # {} /\ Max(1..k) = k /\ (1..k) \ {k} = 1..(k - 1)
    BY <1>2, PrefixFacts
  <2> DEFINE t == 1..k
  <2>2. iter[t] = LET x == Max(t) IN Op(iter[t \ {x}], s[x])
    <3> HIDE DEF t, Op
    <3> QED
      BY <1>2, <1>11, <2>1 DEF t
  <2>3. iter[1..k] = Op(iter[1..(k - 1)], s[k])
    BY <2>1, <2>2
  <2>4. iter[1..(k - 1)] = At(k - 1)
    BY <1>13
  <2> DEFINE old == IF k - 1 = 0 THEN s[1] ELSE s[k - 1]
             p == s[k]
             peak == IF p > old THEN p ELSE old
  <2>5. old \in Nat /\ p \in Nat /\ old <= p
    <3>1. CASE k = 1
      BY <1>2, <3>1
    <3>2. CASE k # 1
      <4>1. k - 1 \in 1..(n - 1) /\ k - 1 \in 1..n /\ (k - 1) + 1 = k /\ k - 1 # 0
        BY <1>2, <3>2
      <4>2. s[k - 1] < s[k] /\ s[k - 1] \in Nat /\ s[k] \in Nat
        BY <1>2, <1>5, <4>1
      <4> QED
        BY <4>1, <4>2
    <3> QED
      BY <3>1, <3>2
  <2>6. At(k - 1) = [peak |-> old, worst |-> <<1, 0>>]
    OBVIOUS
  <2> HIDE DEF old, At
  <2>7. Op([peak |-> old, worst |-> <<1, 0>>], p)
          = [peak |-> peak, worst |-> IF (peak - p) * 1 > 0 * peak THEN <<peak, peak - p>> ELSE <<1, 0>>]
    OBVIOUS
  <2>8. peak = p
    BY <2>5
  <2> HIDE DEF Op, peak
  <2>9. ~((peak - p) * 1 > 0 * peak)
    BY <2>5, <2>8
  <2>10. iter[1..k] = [peak |-> s[k], worst |-> <<1, 0>>]
    BY <2>3, <2>4, <2>6, <2>7, <2>8, <2>9
  <2>11. k \in 0..n /\ k # 0
    BY <1>2
  <2> QED
    BY <2>10, <2>11 DEF At
<1>14. 0..n \subseteq Q
  <2> HIDE DEF Q
  <2> QED
    BY <1>2, <1>12, <1>13, PrefixInduction
<1>15. n \in Q
  BY <1>2, <1>14
<1>16. iter[1..n].worst = <<1, 0>>
  BY <1>15
<1> QED
  BY <1>1, <1>2, <1>16

LEMMA DrawdownBandIs == ASSUME NEW s, Drawdown(s) = <<1, 0>> PROVE DrawdownBand(s) = "low"
<1> DEFINE steps == << <<10, "low">>, <<20, "moderate">> >>
           x == Floor(100 * Drawdown(s)[2], Drawdown(s)[1])
           fits == {b \in Bounds(steps) : x < b}
<1>1. DrawdownBand(s) = FirstOf(steps, fits, "high")
  BY DEF DrawdownBand, Below
<1>2. x = 0
  <2>1. Floor(0, 1) = 0
    BY ZeroFloor
  <2> QED
    BY <2>1
<1>3. steps[1] = <<10, "low">> /\ DOMAIN steps = 1..2
  OBVIOUS
<1> HIDE DEF steps, x
<1>4. steps[1][1] \in fits /\ 1 \in DOMAIN steps /\ DOMAIN steps \subseteq Nat \ {0} /\ steps[1][2] = "low"
  BY <1>2, <1>3 DEF Bounds
<1> HIDE DEF fits
<1>5. FirstOf(steps, fits, "high") = steps[1][2]
  BY <1>4, LadderTop
<1> QED
  BY <1>1, <1>4, <1>5

LEMMA VolatilityAgrees ==
  ASSUME NEW prices \in Seq(Nat), Len(prices) >= 2, NEW band
  PROVE  Agreeing(prices, Volatility(prices, band))
<1> USE DEF Claim, Result, Insufficient, Agreeing
<1>1. CASE Len(prices) < Short
  BY <1>1 DEF Volatility, Up, Down
<1>2. CASE ~(Len(prices) < Short) /\ \E i \in 1..Len(prices) - 1 : prices[i] = 0
  BY <1>2 DEF Volatility
<1>3. CASE ~(Len(prices) < Short) /\ ~\E i \in 1..Len(prices) - 1 : prices[i] = 0
  <2> DEFINE long == Len(prices) >= Year
             window == IF Len(prices) > Short THEN Recent(prices, Short + 1) ELSE prices
             used == {"volatility_20", "annualized_volatility"}
             value == IF Steady(window) THEN "very_low" ELSE band
             fall == DrawdownBand(Recent(prices, Year))
  <2>1. Volatility(prices, band) =
          Result(used \cup (IF long THEN {"max_drawdown_90"} ELSE {}),
                 {Claim("volatility_regime", value, used, 80)}
                   \cup (IF long THEN {Claim("max_drawdown_assessment", fall, {"max_drawdown_90"}, 80)}
                         ELSE {}))
    BY <1>3 DEF Volatility
  <2>2. ASSUME Rising(prices), long PROVE fall = "low"
    <3> DEFINE s == Recent(prices, Year)
    <3>1. Year \in Nat \ {0} /\ Year <= Len(prices) /\ Len(prices) \in Nat
      BY <2>2, WindowsAssumption
    <3>2. /\ s \in Seq(Nat) /\ Len(s) = Year
          /\ \A i \in 1..Year : s[i] = prices[Len(prices) - Year + i] /\ Len(prices) - Year + i \in 1..Len(prices)
      BY <3>1, RecentIs
    <3> HIDE DEF s
    <3>3. s # <<>>
      BY <3>1, <3>2, EmptySeq
    <3>4. ASSUME NEW i \in 1..(Len(s) - 1) PROVE s[i] < s[i + 1]
      <4> DEFINE j == Len(prices) - Year + i
      <4>1. i \in 1..Year /\ i + 1 \in 1..Year /\ j \in 1..(Len(prices) - 1) /\ Len(prices) - Year + (i + 1) = j + 1
        <5> DEFINE n == Len(prices)
        <5>1. n \in Nat /\ Year \in Nat /\ Year <= n /\ i \in 1..(Year - 1)
          BY <3>1, <3>2
        <5> HIDE DEF n
        <5>2. i \in 1..Year /\ i + 1 \in 1..Year /\ n - Year + i \in 1..(n - 1) /\ n - Year + (i + 1) = (n - Year + i) + 1
          BY <5>1
        <5> QED
          BY <5>2 DEF n
      <4>2. s[i] = prices[j] /\ s[i + 1] = prices[j + 1]
        BY <3>2, <4>1
      <4> HIDE DEF j
      <4>3. prices[j] < prices[j + 1]
        BY <2>2, <4>1 DEF Rising
      <4> QED
        BY <4>2, <4>3
    <3>5. Drawdown(s) = <<1, 0>>
      BY <3>2, <3>3, <3>4, DrawdownIs
    <3> QED
      BY <3>5, DrawdownBandIs DEF s
  <2> HIDE DEF long, used, value, fall
  <2> QED
    BY <2>1, <2>2 DEF Up, Down
<1> QED
  BY <1>1, <1>2, <1>3

LEMMA MaxBounded ==
  ASSUME NEW S, S \subseteq Nat, S # {}, NEW b \in Nat, \A y \in S : y <= b
  PROVE  Max(S) \in S /\ \A y \in S : y <= Max(S)
<1> DEFINE Gaps == {b - y : y \in S}
<1>1. Gaps \subseteq Nat /\ Gaps # {}
  <2>1. \A y \in S : b - y \in Nat
    <3>1. \A y \in S : y \in Nat /\ y <= b
      OBVIOUS
    <3>2. \A y \in Nat : y <= b => b - y \in Nat
      OBVIOUS
    <3> QED
      BY <3>1, <3>2
  <2> QED
    BY <2>1
<1> HIDE DEF Gaps
<1>2. PICK g \in Gaps : \A h \in Gaps : g <= h
  BY <1>1, NatLeast
<1>3. PICK x \in S : g = b - x
  BY DEF Gaps
<1>4. ASSUME NEW y \in S PROVE x >= y
  <2>1. b - y \in Gaps
    BY DEF Gaps
  <2>2. b - x <= b - y
    BY <1>2, <1>3, <2>1
  <2>3. x \in Nat /\ y \in Nat
    OBVIOUS
  <2> QED
    BY <2>2, <2>3
<1>5. Max(S) \in S /\ \A y \in S : Max(S) >= y
  BY <1>4 DEF Max
<1> DEFINE m == Max(S)
<1>6. m \in S /\ \A y \in S : m >= y
  BY <1>5
<1> HIDE DEF m
<1>7. \A y \in S : y <= m
  BY <1>6
<1> QED
  BY <1>6, <1>7 DEF m

LEMMA MaxIs == ASSUME NEW S, S \subseteq Nat, NEW x \in S, \A y \in S : y <= x PROVE Max(S) = x
<1> DEFINE m == Max(S)
<1>1. m \in S /\ \A y \in S : y <= m
  BY MaxBounded
<1> HIDE DEF m
<1>2. m = x
  BY <1>1
<1> QED
  BY <1>2 DEF m

LEMMA MinIs == ASSUME NEW S, S \subseteq Nat, NEW x \in S, \A y \in S : x <= y PROVE Min(S) = x
<1>1. \E z \in S : \A y \in S : z <= y
  OBVIOUS
<1> DEFINE m == Min(S)
<1>2. m \in S /\ \A y \in S : m <= y
  BY <1>1 DEF Min
<1> HIDE DEF m
<1>3. m = x
  BY <1>2
<1> QED
  BY <1>3 DEF m

LEMMA FirstIsHighest ==
  ASSUME NEW prices \in Seq(Nat), Len(prices) >= 2, Falling(prices)
  PROVE  \A i \in 1..Len(prices) : prices[i] <= prices[1]
<1> DEFINE n == Len(prices)
           m == n - 1
           Q == {k \in 0..m : prices[k + 1] <= prices[1]}
<1>1. n \in Nat /\ m \in Nat /\ n = m + 1 /\ \A i \in 1..n : prices[i] \in Nat
  OBVIOUS
<1>2. \A i \in 1..m : prices[i] > prices[i + 1]
  BY DEF Falling
<1> HIDE DEF m, n
<1>3. 0 \in Q
  <2>1. 1 \in 1..n /\ 0 \in 0..m /\ 0 + 1 = 1
    BY <1>1
  <2> QED
    BY <1>1, <2>1
<1>4. ASSUME NEW k \in 1..m, k - 1 \in Q PROVE k \in Q
  <2>1. k \in 0..m /\ k \in 1..n /\ k + 1 \in 1..n /\ (k - 1) + 1 = k /\ 1 \in 1..n
    BY <1>1
  <2>2. prices[k] > prices[k + 1] /\ prices[k] <= prices[1]
    <3>1. prices[(k - 1) + 1] <= prices[1]
      BY <1>4
    <3> QED
      BY <1>2, <2>1, <3>1
  <2>3. prices[k + 1] <= prices[1]
    BY <1>1, <2>1, <2>2
  <2> QED
    BY <2>1, <2>3
<1>5. 0..m \subseteq Q
  <2> HIDE DEF Q
  <2> QED
    BY <1>1, <1>3, <1>4, PrefixInduction
<1>6. ASSUME NEW i \in 1..n PROVE prices[i] <= prices[1]
  <2>1. i - 1 \in 0..m /\ (i - 1) + 1 = i
    BY <1>1
  <2>2. i - 1 \in Q
    BY <1>5, <2>1
  <2>3. prices[(i - 1) + 1] <= prices[1]
    BY <2>2
  <2> QED
    BY <2>1, <2>3
<1> QED
  BY <1>6 DEF n

(* technical.py, _analyze_price_structure.                                  *)
LEMMA PositionIs ==
  ASSUME NEW high \in Nat, NEW low \in Nat, NEW price \in Nat \ {0}
  PROVE  /\ price = high => Position(high, low, price) = "near_high"
         /\ price = low /\ price <= high => Position(high, low, price) # "upper_half"
<1>1. ASSUME price = high PROVE Position(high, low, price) = "near_high"
  <2>1. 100 * (price - price) < 3 * price
    OBVIOUS
  <2> QED
    BY <1>1, <2>1 DEF Position
<1>2. ASSUME price = low, price <= high PROVE Position(high, low, price) # "upper_half"
  <2> DEFINE a == (high - price) * price
             b == (price - price) * high
  <2>1. high - price \in Nat /\ price - price = 0
    BY <1>2
  <2>2. a \in Nat /\ b = 0
    BY <2>1, ProductType
  <2> DEFINE near == 100 * (high - price) < 3 * high
             bottom == 100 * (high - price) >= 3 * high /\ 100 * (price - price) < 3 * price
  <2>3. Position(high, price, price)
          = CASE near -> "near_high" [] bottom -> "near_low"
              [] OTHER -> IF a < b THEN "upper_half" ELSE "lower_half"
    BY DEF Position
  <2>4. ~(a < b)
    BY <2>2
  <2>5. near => ~bottom
    <3>1. 100 * (high - price) \in Int /\ 3 * high \in Int
      OBVIOUS
    <3> QED
      BY <3>1
  <2> HIDE DEF a, b, near, bottom
  <2> QED
    BY <1>2, <2>3, <2>4, <2>5
<1> QED
  BY <1>1, <1>2

LEMMA PriceStructureAgrees ==
  ASSUME NEW prices \in Seq(Nat), Len(prices) >= 2 PROVE Agreeing(prices, PriceStructure(prices))
<1> USE DEF Claim, Result, Insufficient, Agreeing
<1> DEFINE s == Recent(prices, Long)
           range == ToSet(s)
           last == prices[Len(prices)]
           place == Position(Max(range), Min(range), last)
           used == {"high_50", "low_50", "dist_from_high_pct", "dist_from_low_pct"}
<1>1. CASE Len(prices) < Long
  BY <1>1 DEF PriceStructure, Up, Down
<1>2. CASE ~(Len(prices) < Long) /\ 0 \in range
  BY <1>2 DEF PriceStructure
<1>3. CASE ~(Len(prices) < Long) /\ 0 \notin range
  <2>1. PriceStructure(prices) = Result(used, {Claim("position_in_range", place, used, 80)})
    BY <1>3 DEF PriceStructure, Last
  <2>2. Long \in Nat \ {0} /\ Long <= Len(prices) /\ Len(prices) \in Nat
    BY <1>3, WindowsAssumption
  <2>3. /\ s \in Seq(Nat) /\ Len(s) = Long
        /\ \A i \in 1..Long : s[i] = prices[Len(prices) - Long + i] /\ Len(prices) - Long + i \in 1..Len(prices)
    BY <2>2, RecentIs
  <2>4. range = {s[i] : i \in 1..Long}
    <3> HIDE DEF s
    <3>1. DOMAIN s = 1..Long
      BY <2>3
    <3> QED
      BY <3>1 DEF ToSet
  <2> HIDE DEF s, range, last
  <2>5. range \subseteq Nat /\ last \in range
    <3>1. Long \in 1..Long /\ Len(prices) - Long + Long = Len(prices)
      BY <2>2
    <3>2. \A i \in 1..Long : s[i] \in Nat
      BY <2>3
    <3> QED
      BY <2>3, <2>4, <3>1, <3>2 DEF last
  <2>6. last \in Nat \ {0}
    BY <1>3, <2>5
  <2>7. \A y \in range : \E i \in 1..Len(prices) : y = prices[i]
    <3> SUFFICES ASSUME NEW y \in range PROVE \E i \in 1..Len(prices) : y = prices[i]
      OBVIOUS
    <3>1. PICK j \in 1..Long : y = s[j]
      BY <2>4
    <3>2. s[j] = prices[Len(prices) - Long + j] /\ Len(prices) - Long + j \in 1..Len(prices)
      BY <2>3
    <3> QED
      BY <3>1, <3>2
  <2>8. ASSUME Rising(prices) PROVE place = "near_high"
    <3>1. \A i \in 1..Len(prices) : prices[i] <= last
      BY <2>8, RisingIs DEF last
    <3>2. \A y \in range : y <= last
      BY <2>7, <3>1
    <3>4. Max(range) = last
      BY <2>5, <3>2, MaxIs
    <3> DEFINE low == Min(range)
    <3>5. low \in Nat
      <4>1. PICK x \in range : \A y \in range : x <= y
        BY <2>5, NatLeast
      <4>2. Min(range) = x
        BY <2>5, <4>1, MinIs
      <4> QED
        BY <2>5, <4>2
    <3> HIDE DEF low
    <3>6. Position(last, low, last) = "near_high"
      BY <2>6, <3>5, PositionIs
    <3> QED
      BY <3>4, <3>6 DEF low
  <2>9. ASSUME Falling(prices) PROVE place # "upper_half"
    <3>1. \A i \in 1..Len(prices) : last <= prices[i]
      BY <2>9, FallingIs DEF last
    <3>2. \A y \in range : last <= y
      BY <2>7, <3>1
    <3>3. Min(range) = last
      BY <2>5, <3>2, MinIs
    <3> DEFINE top == prices[1]
    <3>4. top \in Nat /\ \A y \in range : y <= top
      <4>1. \A i \in 1..Len(prices) : prices[i] <= top
        BY <2>9, FirstIsHighest
      <4>2. top \in Nat
        OBVIOUS
      <4> HIDE DEF top
      <4> QED
        BY <2>7, <4>1, <4>2
    <3> HIDE DEF top
    <3> DEFINE high == Max(range)
    <3>5. high \in range /\ \A y \in range : y <= high
      BY <2>5, <3>4, MaxBounded
    <3> HIDE DEF high
    <3>6. high \in Nat /\ last <= high
      BY <2>5, <3>5
    <3>7. Position(high, last, last) # "upper_half"
      BY <2>6, <3>6, PositionIs
    <3> QED
      BY <3>3, <3>7 DEF high
  <2> HIDE DEF place, used
  <2> QED
    BY <2>1, <2>8, <2>9 DEF Up, Down
<1> QED
  BY <1>1, <1>2, <1>3

(* technical.py: the volumes say nothing of the direction of the price.     *)
LEMMA VolumeAgrees == ASSUME NEW prices, NEW volumes PROVE Agreeing(prices, Volume(volumes, prices))
<1> USE DEF Claim, Result, Insufficient, Agreeing, Up, Down
<1>1. CASE Len(volumes) < Short \/ Len(prices) < Short
  BY <1>1 DEF Volume
<1>2. CASE ~(Len(volumes) < Short \/ Len(prices) < Short) /\ prices[Len(prices) - 1] = 0
  BY <1>2 DEF Volume
<1>3. CASE ~(Len(volumes) < Short \/ Len(prices) < Short) /\ prices[Len(prices) - 1] # 0
  <2> DEFINE mean == SumOf(Recent(volumes, Short))
             trend == CASE 2 * Short * Last(volumes) > 3 * mean -> "high"
                        [] 2 * Short * Last(volumes) <= mean -> "low"
                        [] OTHER -> "normal"
             used == {"avg_volume_20", "volume_ratio"}
  <2>1. Volume(volumes, prices) = Result(used, {Claim("volume_trend", trend, used, 80)})
    BY <1>3 DEF Volume
  <2> HIDE DEF trend, used
  <2> QED
    BY <2>1
<1> QED
  BY <1>1, <1>2, <1>3

(* technical.py: no module contradicts a price that only rose or only fell. *)
LEMMA ModulesAgree ==
  ASSUME NEW rows, NEW band, NEW applicable,
         Column(rows, "close") \in Seq(Nat), Len(Column(rows, "close")) >= 2
  PROVE  \A r \in Modules(rows, band, applicable) : Agreeing(Column(rows, "close"), r)
<1> DEFINE prices == Column(rows, "close")
           volumes == Column(rows, "volume")
           Run1(metric, name, result) == IF metric \in applicable THEN result ELSE NotApplicable(name)
<1>1. Modules(rows, band, applicable) =
        {Run1("trend", "trend_direction", Trend(prices)),
         Run1("rsi", "rsi_state", Momentum(prices)),
         Run1("volatility", "volatility_regime", Volatility(prices, band)),
         Run1("volume", "volume_trend", Volume(volumes, prices)),
         Run1("price_structure", "position_in_range", PriceStructure(prices))}
  BY DEF Modules
<1>2. prices \in Seq(Nat) /\ Len(prices) >= 2
  OBVIOUS
<1> HIDE DEF prices, volumes
<1>3. \A name : Agreeing(prices, NotApplicable(name))
  <2> SUFFICES ASSUME NEW name PROVE Agreeing(prices, NotApplicable(name))
    OBVIOUS
  <2> QED
    BY DEF NotApplicable, Claim, Result, Agreeing, Up, Down
<1>4. /\ Agreeing(prices, Trend(prices)) /\ Agreeing(prices, Momentum(prices))
      /\ Agreeing(prices, Volatility(prices, band)) /\ Agreeing(prices, PriceStructure(prices))
  BY <1>2, TrendAgrees, MomentumAgrees, VolatilityAgrees, PriceStructureAgrees
<1>5. Agreeing(prices, Volume(volumes, prices))
  BY VolumeAgrees
<1>6. \A r \in Modules(rows, band, applicable) : Agreeing(prices, r)
  BY <1>1, <1>3, <1>4, <1>5
<1> QED
  BY <1>6 DEF prices

LEMMA TechnicalsAgree ==
  ASSUME NEW rows, NEW band, NEW applicable,
         Column(rows, "close") \in Seq(Nat), Len(Column(rows, "close")) >= 2
  PROVE  Agreeing(Column(rows, "close"), Technicals(rows, band, applicable))
<1> DEFINE results == Modules(rows, band, applicable)
           prices == Column(rows, "close")
           all == Result(UNION {r.facts : r \in results}, UNION {r.claims : r \in results})
<1>1. Technicals(rows, band, applicable) = IF Raised \in results THEN Raised ELSE all
  BY DEF Technicals
<1>2. \A r \in results : Agreeing(prices, r)
  BY ModulesAgree
<1> HIDE DEF results, prices
<1>3. ASSUME Raised \notin results PROVE Agreeing(prices, all)
  <2> SUFFICES ASSUME NEW c \in all.claims PROVE (Rising(prices) => Up(c)) /\ (Falling(prices) => Down(c))
    BY DEF Agreeing
  <2>1. PICK r \in results : c \in r.claims
    BY DEF Result
  <2>2. r # Raised /\ Agreeing(prices, r)
    BY <1>2, <1>3
  <2> QED
    BY <2>1, <2>2 DEF Agreeing
<1>4. Agreeing(prices, Raised)
  BY DEF Agreeing
<1>5. Agreeing(prices, Technicals(rows, band, applicable))
  BY <1>1, <1>3, <1>4
<1> QED
  BY <1>5 DEF prices

LEMMA ColumnType ==
  ASSUME NEW rows \in Seq(RowTypes) PROVE Column(rows, "close") \in Seq(Nat)
<1> DEFINE s == [i \in DOMAIN rows |-> rows[i]["close"]]
           W == {s[i] : i \in DOMAIN s} \ {None}
<1>1. Len(rows) \in Nat /\ DOMAIN rows = 1..Len(rows)
  OBVIOUS
<1>2. ASSUME NEW i \in 1..Len(rows) PROVE s[i] \in Maybe(Nat)
  <2>1. rows[i] \in RowTypes
    BY ElementOfSeq
  <2>2. rows[i].close \in Maybe(Nat)
    BY <2>1 DEF RowTypes
  <2> QED
    BY <1>1, <2>2
<1>3. s \in Seq(Maybe(Nat))
  <2> DEFINE V == Maybe(Nat)
  <2>1. s \in [1..Len(rows) -> V]
    BY <1>1, <1>2
  <2> HIDE DEF V, s
  <2>2. s \in Seq(V)
    BY <1>1, <2>1
  <2> QED
    BY <2>2 DEF V
<1>4. W \subseteq Nat
  BY <1>1, <1>2 DEF Maybe
<1>5. Column(rows, "close") = Without(s, {None})
  BY DEF Column
<1> HIDE DEF s
<1>6. Without(s, {None}) \in Seq(W)
  <2> DEFINE V == Maybe(Nat)
  <2>1. s \in Seq(V)
    BY <1>3
  <2> HIDE DEF V
  <2> QED
    BY <2>1, WithoutIs
<1> HIDE DEF W
<1> QED
  BY <1>4, <1>5, <1>6, SeqMonotonic

LEMMA SeeingAgrees ==
  ASSUME NEW rows, NEW result, seen' = Seeing("technical", rows, result),
         Len(Column(rows, "close")) >= 2 => Agreeing(Column(rows, "close"), result)
  PROVE  DirectionsAgree'
<1> DEFINE prices == Column(rows, "close")
<1>1. seen'.of = rows /\ seen'.claims = IF result = Raised THEN {} ELSE result.claims
  BY DEF Seeing, Seen
<1> SUFFICES ASSUME Len(prices) >= 2
             PROVE  /\ Rising(prices) =>
                         /\ ~(Said(seen'.claims, "trend_direction") \cap {"down", "strong_down"} # {})
                         /\ ~(Said(seen'.claims, "rsi_state") \cap {"oversold", "bearish", "neutral"} # {})
                         /\ ~(Said(seen'.claims, "macd_signal") \cap {"bearish"} # {})
                         /\ ~(Said(seen'.claims, "position_in_range")
                                \cap {"near_low", "lower_half", "upper_half"} # {})
                         /\ ~(Said(seen'.claims, "max_drawdown_assessment") \cap {"moderate", "high"} # {})
                    /\ Falling(prices) =>
                         /\ ~(Said(seen'.claims, "trend_direction") \cap {"up", "strong_up"} # {})
                         /\ ~(Said(seen'.claims, "rsi_state") \cap {"overbought", "bullish", "neutral"} # {})
                         /\ ~(Said(seen'.claims, "macd_signal") \cap {"bullish"} # {})
                         /\ ~(Said(seen'.claims, "position_in_range") \cap {"upper_half"} # {})
  BY <1>1 DEF DirectionsAgree, Says
<1>2. Agreeing(prices, result)
  OBVIOUS
<1> HIDE DEF prices
<1> DEFINE claims == seen'.claims
<1>3. \A c \in claims : (Rising(prices) => Up(c)) /\ (Falling(prices) => Down(c))
  BY <1>1, <1>2 DEF Agreeing
<1> HIDE DEF claims
<1>4. ASSUME NEW name, NEW v \in Said(claims, name) PROVE \E c \in claims : c.name = name /\ c.value = v
  BY DEF Said
<1>5. ASSUME Rising(prices), NEW name, NEW v \in Said(claims, name)
      PROVE  /\ name = "trend_direction" => v \notin {"down", "strong_down"}
             /\ name = "rsi_state" => v \notin {"oversold", "bearish", "neutral"}
             /\ name = "macd_signal" => v # "bearish"
             /\ name = "position_in_range" => v \notin {"near_low", "lower_half", "upper_half"}
             /\ name = "max_drawdown_assessment" => v \notin {"moderate", "high"}
  <2>1. PICK c \in claims : c.name = name /\ c.value = v
    BY <1>4
  <2> QED
    BY <1>3, <1>5, <2>1 DEF Up
<1>6. ASSUME Falling(prices), NEW name, NEW v \in Said(claims, name)
      PROVE  /\ name = "trend_direction" => v \notin {"up", "strong_up"}
             /\ name = "rsi_state" => v \notin {"overbought", "bullish", "neutral"}
             /\ name = "macd_signal" => v # "bullish"
             /\ name = "position_in_range" => v # "upper_half"
  <2>1. PICK c \in claims : c.name = name /\ c.value = v
    BY <1>4
  <2> QED
    BY <1>3, <1>6, <2>1 DEF Down
<1> QED
  BY <1>5, <1>6 DEF claims

LEMMA StepDirections ==
  ASSUME DirectionsAgree, [Next]_vars PROVE DirectionsAgree'
<1>1. ASSUME NEW rows \in Histories, NEW band, NEW applicable,
             seen' = Seeing("technical", rows, Technicals(rows, band, applicable))
      PROVE  DirectionsAgree'
  <2>1. Column(rows, "close") \in Seq(Nat)
    BY HistoriesAssumption, ColumnType
  <2> DEFINE result == Technicals(rows, band, applicable)
  <2>2. Len(Column(rows, "close")) >= 2 => Agreeing(Column(rows, "close"), result)
    BY <2>1, TechnicalsAgree
  <2>3. seen' = Seeing("technical", rows, result)
    BY <1>1
  <2> HIDE DEF result
  <2> QED
    BY <2>2, <2>3, SeeingAgrees
<1>2. CASE RunTechnical
  BY <1>1, <1>2 DEF RunTechnical
<1>3. CASE TechnicalAlone
  BY <1>1, <1>3 DEF TechnicalAlone
<1>4. CASE Gate \/ JudgeMarket \/ IdentifyFund \/ ReadBoard \/ Aggregate
  <2> SUFFICES seen'.engine # "technical"
    BY DEF DirectionsAgree
  <2>1. \A engine, of, facts, claims : Seen(engine, of, facts, claims).engine = engine
    BY DEF Seen
  <2>2. CASE Gate
    BY <2>1, <2>2 DEF Gate
  <2>3. CASE JudgeMarket
    BY <2>1, <2>3 DEF JudgeMarket
  <2>4. CASE IdentifyFund
    BY <2>1, <2>4 DEF IdentifyFund
  <2>5. CASE ReadBoard
    BY <2>1, <2>5 DEF ReadBoard
  <2>6. CASE Aggregate
    BY <2>1, <2>6 DEF Aggregate
  <2> QED
    BY <1>4, <2>2, <2>3, <2>4, <2>5, <2>6
<1>5. CASE \/ StageRaises \/ RunNav \/ RunFundamental
            \/ AssessFunds \/ RankFunds \/ AnalyzePortfolio \/ HandOver
  <2>1. seen'.engine # "technical"
    BY <1>5 DEF StageRaises, RunNav, RunFundamental, AssessFunds, RankFunds, AnalyzePortfolio,
                HandOver, Nothing, Seen
  <2> QED
    BY <2>1 DEF DirectionsAgree
<1>6. CASE IdentifyAgain \/ UNCHANGED vars
  BY <1>6 DEF IdentifyAgain, vars, DirectionsAgree, Says
<1> QED
  BY <1>2, <1>3, <1>4, <1>5, <1>6 DEF Next

(* technical.py: of a price that only rose no module says that it fell, and *)
(* the other way round, whatever the windows and the number of days.        *)
THEOREM DirectionsFollowPrice == Spec => []DirectionsAgree
<1>1. Init => DirectionsAgree
  BY DEF Init, Nothing, Seen, DirectionsAgree
<1> QED
  BY <1>1, StepDirections, PTL DEF Spec

-----------------------------------------------------------------------------
(* The report on a portfolio.                                               *)

(* analyze_portfolio goes on with the items that have a price.              *)
Priced == {item \in ItemTypes : item.price \notin {None, 0}}

LEMMA HeldType == ASSUME NEW items \in Seq(ItemTypes) PROVE Held(items) \in Seq(Priced)
<1> DEFINE out == {item \in Range(items) : item.price \in {None, 0}}
           W == {items[i] : i \in DOMAIN items} \ out
<1>1. \A i \in DOMAIN items : items[i] \in ItemTypes
  <2> DEFINE V == ItemTypes
  <2>1. items \in Seq(V)
    OBVIOUS
  <2> HIDE DEF V
  <2>2. \A i \in DOMAIN items : items[i] \in V
    BY <2>1
  <2> QED
    BY <2>2 DEF V
<1>2. W \subseteq Priced
  BY <1>1 DEF Priced, Range
<1>3. Held(items) = Without(items, out)
  BY DEF Held
<1>4. Without(items, out) \in Seq(W)
  <2> DEFINE V == ItemTypes
  <2>1. items \in Seq(V)
    OBVIOUS
  <2> HIDE DEF V, out
  <2> QED
    BY <2>1, WithoutIs
<1> HIDE DEF W, out
<1> QED
  BY <1>2, <1>3, <1>4, SeqMonotonic

(* Of two sums, terms in no greater ratio than the sums, and in no smaller. *)
LEMMA RatioBetween ==
  ASSUME NEW s \in Seq(Int), NEW t \in Seq(Int), Len(s) = Len(t), s # <<>>
  PROVE  /\ \E i \in 1..Len(s) : SumOf(t) * s[i] >= SumOf(s) * t[i]
         /\ \E i \in 1..Len(s) : SumOf(t) * s[i] <= SumOf(s) * t[i]
<1> DEFINE x == SumOf(s)
           y == SumOf(t)
<1>1. x \in Int /\ y \in Int
  BY SumType
<1>2. \A i \in 1..Len(s) : s[i] \in Int /\ t[i] \in Int
  OBVIOUS
<1>3. -s[1] \in Int
  BY EmptySeq
<1> HIDE DEF x, y
<1>4. ASSUME \A i \in 1..Len(s) : y * s[i] < x * t[i] PROVE FALSE
  <2>1. y * SumOf(s) < x * SumOf(t)
    BY <1>1, <1>4, SumsInRatio
  <2>2. y * x < x * y
    BY <2>1 DEF x, y
  <2> QED
    BY <1>1, <2>2
<1>5. ASSUME \A i \in 1..Len(s) : x * t[i] < y * s[i] PROVE FALSE
  <2>1. t # <<>>
    BY EmptySeq
  <2>2. x * SumOf(t) < y * SumOf(s)
    BY <1>1, <1>5, <2>1, SumsInRatio
  <2>3. x * y < y * x
    BY <2>2 DEF x, y
  <2> QED
    BY <1>1, <2>3
<1>6. PICK i \in 1..Len(s) : ~(y * s[i] < x * t[i])
  BY <1>4
<1>7. PICK j \in 1..Len(s) : ~(x * t[j] < y * s[j])
  BY <1>5
<1>8. y * s[i] >= x * t[i]
  <2>1. y * s[i] \in Int /\ x * t[i] \in Int
    BY <1>1, <1>2, IntTimes, Zenon
  <2> QED
    BY <1>6, <2>1
<1>9. y * s[j] <= x * t[j]
  <2>1. y * s[j] \in Int /\ x * t[j] \in Int
    BY <1>1, <1>2, IntTimes, Zenon
  <2> QED
    BY <1>7, <2>1
<1> QED
  BY <1>8, <1>9 DEF x, y

LEMMA PerUnit ==
  ASSUME NEW v \in Int, NEW w \in Int, NEW q \in Nat \ {0}, NEW p \in Int, NEW c \in Int
  PROVE  /\ w * (q * p) >= v * (q * c) => 100 * (v - w) * c <= 100 * (p - c) * w
         /\ w * (q * p) <= v * (q * c) => 100 * (p - c) * w <= 100 * (v - w) * c
<1> DEFINE x == w * p
           y == v * c
<1>1. x \in Int /\ y \in Int
  OBVIOUS
<1>2. w * (q * p) = q * x /\ v * (q * c) = q * y
  OBVIOUS
<1>3. 100 * (v - w) * c = 100 * y - 100 * (w * c) /\ 100 * (p - c) * w = 100 * x - 100 * (w * c)
  OBVIOUS
<1> DEFINE z == w * c
<1>4. z \in Int
  OBVIOUS
<1> HIDE DEF x, y, z
<1>5. q * x >= q * y => x >= y
  BY <1>1
<1>6. q * x <= q * y => x <= y
  BY <1>1
<1>7. 100 * (v - w) * c = 100 * y - 100 * z /\ 100 * (p - c) * w = 100 * x - 100 * z
  BY <1>3 DEF z
<1>8. /\ x >= y => 100 * y - 100 * z <= 100 * x - 100 * z
      /\ x <= y => 100 * x - 100 * z <= 100 * y - 100 * z
  BY <1>1, <1>4
<1> QED
  BY <1>2, <1>5, <1>6, <1>7, <1>8

NotOver(a, b) == a[1] * b[2] <= b[1] * a[2]

(* The whole gains no more than its best fund and no less than its worst.   *)
LEMMA GainIsBetween ==
  ASSUME NEW items, NEW held \in Seq(Priced), held = Held(items), held # <<>>,
         \A i \in DOMAIN held : held[i].cost # None
  PROVE  LET gain == Profit(SumOf(Values(held)), TotalCost(items))
         IN  /\ SumOf(Values(held)) \in Int /\ TotalCost(items) \in Int
             /\ \E i \in DOMAIN held : NotOver(gain, Profit(held[i].price, held[i].cost))
             /\ \E i \in DOMAIN held : NotOver(Profit(held[i].price, held[i].cost), gain)
<1> DEFINE s == Values(held)
           t == [i \in DOMAIN held |-> held[i].quantity * held[i].cost]
           n == Len(held)
           v == SumOf(s)
           w == SumOf(t)
           gain == Profit(v, w)
<1>1. n \in Nat \ {0} /\ DOMAIN held = 1..n
  BY EmptySeq
<1>2. \A i \in 1..n : held[i] \in Priced
  BY ElementOfSeq
<1>3. \A i \in 1..n : /\ held[i].quantity \in Nat \ {0} /\ held[i].price \in Nat
                      /\ held[i].cost \in Nat \ {0}
  BY <1>1, <1>2 DEF Priced, ItemTypes, Maybe
<1>4. /\ s = [i \in 1..n |-> held[i].quantity * held[i].price]
      /\ t = [i \in 1..n |-> held[i].quantity * held[i].cost]
  BY <1>1 DEF Values
<1>5. TotalCost(items) = w
  BY DEF TotalCost
<1> HIDE DEF s, t, n
<1>6. ASSUME NEW i \in 1..n PROVE s[i] \in Int /\ t[i] \in Int /\ 1 <= t[i]
  <2>1. held[i].quantity \in Nat \ {0} /\ held[i].price \in Nat /\ held[i].cost \in Nat \ {0}
    BY <1>3
  <2>2. held[i].quantity * held[i].price \in Nat /\ held[i].quantity * held[i].cost \in Nat
    BY <2>1, ProductType
  <2>3. held[i].quantity * held[i].cost # 0
    BY <2>1
  <2> QED
    BY <1>4, <2>2, <2>3
<1>7. s \in Seq(Int) /\ t \in Seq(Int) /\ Len(s) = n /\ Len(t) = n /\ s # <<>>
  <2>1. s \in [1..n -> Int] /\ t \in [1..n -> Int]
    BY <1>4, <1>6
  <2>2. s \in Seq(Int) /\ t \in Seq(Int) /\ Len(s) = n /\ Len(t) = n
    BY <1>1, <2>1
  <2> QED
    BY <1>1, <2>2, EmptySeq
<1>8. v \in Int /\ w \in Int
  BY <1>7, SumType
<1>9. w > 0
  <2>1. \A i \in 1..Len(t) : 1 <= t[i]
    BY <1>6, <1>7
  <2>2. 1 * Len(t) <= w
    BY <1>7, <2>1, SumAtLeast
  <2> HIDE DEF w
  <2> QED
    BY <1>1, <1>7, <1>8, <2>2
<1>10. gain = <<100 * (v - w), w>>
  <2> HIDE DEF v, w
  <2> QED
    BY <1>9 DEF Profit
<1>11. /\ \E i \in 1..n : w * s[i] >= v * t[i]
       /\ \E i \in 1..n : w * s[i] <= v * t[i]
  BY <1>7, RatioBetween
<1> HIDE DEF v, w
<1>12. ASSUME NEW i \in 1..n
       PROVE  /\ w * s[i] >= v * t[i] => NotOver(gain, Profit(held[i].price, held[i].cost))
              /\ w * s[i] <= v * t[i] => NotOver(Profit(held[i].price, held[i].cost), gain)
  <2> DEFINE q == held[i].quantity
             p == held[i].price
             c == held[i].cost
  <2>1. q \in Nat \ {0} /\ p \in Int /\ c \in Int /\ c > 0
    BY <1>3
  <2>2. s[i] = q * p /\ t[i] = q * c
    BY <1>4
  <2> HIDE DEF q, p, c
  <2>3. Profit(p, c) = <<100 * (p - c), c>>
    BY <2>1 DEF Profit
  <2>4. /\ w * (q * p) >= v * (q * c) => 100 * (v - w) * c <= 100 * (p - c) * w
        /\ w * (q * p) <= v * (q * c) => 100 * (p - c) * w <= 100 * (v - w) * c
    BY <1>8, <2>1, PerUnit
  <2>5. /\ NotOver(gain, Profit(p, c)) = (100 * (v - w) * c <= 100 * (p - c) * w)
        /\ NotOver(Profit(p, c), gain) = (100 * (p - c) * w <= 100 * (v - w) * c)
    BY <1>10, <2>3 DEF NotOver
  <2> HIDE DEF gain
  <2>6. /\ w * s[i] >= v * t[i] => NotOver(gain, Profit(p, c))
        /\ w * s[i] <= v * t[i] => NotOver(Profit(p, c), gain)
    BY <2>2, <2>4, <2>5
  <2> QED
    BY <2>6 DEF p, c
<1> HIDE DEF gain
<1>13. /\ \E i \in 1..n : NotOver(gain, Profit(held[i].price, held[i].cost))
       /\ \E i \in 1..n : NotOver(Profit(held[i].price, held[i].cost), gain)
  BY <1>11, <1>12
<1> QED
  BY <1>1, <1>5, <1>8, <1>13 DEF gain, v, s

Fractions == Int \X (Nat \ {0})

(* A sum of fractions, term by term.                                        *)
FractionRun(s, r) ==
  /\ r[0] = <<0, 1>>
  /\ \A k \in 0..Len(s) : r[k][1] \in Int /\ r[k][2] \in Nat \ {0}
  /\ \A k \in 1..Len(s) :
       r[k] = <<r[k - 1][1] * s[k][2] + s[k][1] * r[k - 1][2], r[k - 1][2] * s[k][2]>>

LEMMA FractionStepType ==
  ASSUME NEW a \in Int, NEW b \in Nat \ {0}, NEW c \in Int, NEW d \in Nat \ {0}
  PROVE  a * d + c * b \in Int /\ b * d \in Nat \ {0}
<1>1. b * d \in Nat
  BY ProductType
<1>2. b * d # 0
  OBVIOUS
<1>3. a * d + c * b \in Int
  OBVIOUS
<1> QED
  BY <1>1, <1>2, <1>3

LEMMA FractionFold ==
  ASSUME NEW s \in Seq(Fractions), s # <<>>
  PROVE  \E r : FractionRun(s, r) /\ MeanOfFractions(s) = <<r[Len(s)][1], r[Len(s)][2] * Len(s)>>
<1> DEFINE base == <<0, 1>>
           A == Fractions
           Op(e, p) == <<e[1] * p[2] + p[1] * e[2], e[2] * p[2]>>
           n == Len(s)
           Rec(g) == g = [t \in SUBSET DOMAIN s |->
                            IF t = {} THEN base ELSE LET x == Max(t) IN Op(g[t \ {x}], s[x])]
           iter == CHOOSE g : Rec(g)
           step == [p \in (1..n) \X A |-> Op(p[2], s[p[1]])]
           r == [k \in 0..n |-> iter[1..k]]
<1>1. MeanOfFractions(s) = <<iter[DOMAIN s][1], iter[DOMAIN s][2] * n>>
  BY DEF MeanOfFractions, FoldLeft, MapThenFoldSet
<1>2. n \in Nat /\ DOMAIN s = 1..n
  OBVIOUS
<1>3. ASSUME NEW i \in 1..n PROVE s[i] \in Fractions
  <2> DEFINE V == Fractions
  <2>1. s \in Seq(V)
    OBVIOUS
  <2> HIDE DEF V
  <2>2. s[i] \in V
    BY <2>1, ElementOfSeq
  <2> QED
    BY <2>2 DEF V
<1>4. base \in A
  BY DEF Fractions
<1> HIDE DEF base
<1>5. ASSUME NEW e \in A, NEW i \in 1..n PROVE Op(e, s[i]) \in A
  <2>1. e[1] \in Int /\ e[2] \in Nat \ {0} /\ s[i][1] \in Int /\ s[i][2] \in Nat \ {0}
    BY <1>3 DEF Fractions
  <2>2. e[1] * s[i][2] + s[i][1] * e[2] \in Int /\ e[2] * s[i][2] \in Nat \ {0}
    BY <2>1, FractionStepType
  <2> QED
    BY <2>2 DEF Fractions
<1>6. step \in [(1..n) \X A -> A]
  <2> HIDE DEF A, Op
  <2> QED
    BY <1>5
<1>7. PICK g : Run(n, A, base, step, g)
  <2> HIDE DEF A, step, n
  <2> QED
    BY <1>2, <1>4, <1>6, SeqFold
<1>8. ASSUME NEW t \in SUBSET (1..n), t # {}
      PROVE  g[t] = LET x == Max(t) IN Op(g[t \ {x}], s[x])
  <2>1. Max(t) \in 1..n /\ g[t \ {Max(t)}] \in A /\ g[t] = step[<<Max(t), g[t \ {Max(t)}]>>]
    BY <1>7, <1>8 DEF Run
  <2> HIDE DEF Op, A
  <2> QED
    BY <2>1
<1>9. Rec(g)
  <2> HIDE DEF Op, n, step, A
  <2> QED
    BY <1>2, <1>7, <1>8 DEF Run
<1>10. Rec(iter)
  <2> HIDE DEF Rec
  <2> QED
    BY <1>9
<1> HIDE DEF iter
<1>11. r[0] = base
  <2>1. 1..0 = {} /\ {} \in SUBSET DOMAIN s /\ 0 \in 0..n
    BY <1>2
  <2> HIDE DEF Op
  <2>2. iter[{}] = base
    BY <1>10, <2>1
  <2> QED
    BY <2>1, <2>2
<1>12. ASSUME NEW k \in 1..n PROVE r[k] = Op(r[k - 1], s[k])
  <2>1. /\ 1..k \in SUBSET (1..n) /\ 1..k # {} /\ Max(1..k) = k
        /\ (1..k) \ {k} = 1..(k - 1) /\ k - 1 \in 0..n /\ k \in 0..n
    <3> HIDE DEF n, A, Op
    <3> QED
      BY <1>2, PrefixFacts
  <2> DEFINE t == 1..k
  <2>2. iter[t] = LET x == Max(t) IN Op(iter[t \ {x}], s[x])
    <3> HIDE DEF t, Op, n
    <3> QED
      BY <1>2, <1>10, <2>1 DEF t
  <2>3. iter[1..k] = Op(iter[1..(k - 1)], s[k])
    BY <2>1, <2>2
  <2> HIDE DEF Op
  <2> QED
    BY <2>1, <2>3
<1>13. MeanOfFractions(s) = <<r[n][1], r[n][2] * n>>
  BY <1>1, <1>2
<1> HIDE DEF r
<1>14. 0..n \subseteq {k \in 0..n : r[k] \in A}
  <2> DEFINE Q == {k \in 0..n : r[k] \in A}
  <2>1. 0 \in Q
    BY <1>2, <1>4, <1>11
  <2>2. ASSUME NEW k \in 1..n, k - 1 \in Q PROVE k \in Q
    <3>1. r[k - 1] \in A /\ k \in 0..n
      BY <1>2, <2>2
    <3>2. r[k] = Op(r[k - 1], s[k])
      BY <1>12
    <3>3. Op(r[k - 1], s[k]) \in A
      BY <1>5, <3>1
    <3> HIDE DEF A, Op
    <3> QED
      BY <3>1, <3>2, <3>3
  <2> HIDE DEF Q, n
  <2> QED
    BY <1>2, <2>1, <2>2, PrefixInduction DEF Q
<1>15. \A k \in 0..n : r[k][1] \in Int /\ r[k][2] \in Nat \ {0}
  BY <1>14 DEF Fractions
<1>16. FractionRun(s, r)
  BY <1>11, <1>12, <1>15 DEF FractionRun, base
<1> QED
  BY <1>13, <1>16

LEMMA TimesUp == ASSUME NEW x \in Int, NEW y \in Int, NEW b \in Nat, x <= y PROVE x * b <= y * b
OBVIOUS

LEMMA FractionBound ==
  ASSUME NEW a \in Int, NEW b \in Nat \ {0}, NEW c \in Int, NEW d \in Nat \ {0}, NEW m \in Int, NEW k \in Nat,
         a <= (m * k) * b, c <= m * d
  PROVE  a * d + c * b <= (m * (k + 1)) * (b * d)
<1>1. a * d <= ((m * k) * b) * d
  <2>1. (m * k) * b \in Int
    OBVIOUS
  <2> QED
    BY <2>1, TimesUp
<1>2. c * b <= (m * d) * b
  <2>1. m * d \in Int
    OBVIOUS
  <2> QED
    BY <2>1, TimesUp
<1>3. (m * (k + 1)) * (b * d) = ((m * k) * b) * d + (m * d) * b
  OBVIOUS
<1> DEFINE u == a * d
           v == c * b
           x == ((m * k) * b) * d
           y == (m * d) * b
<1>4. u \in Int /\ v \in Int /\ x \in Int /\ y \in Int
  OBVIOUS
<1> HIDE DEF u, v, x, y
<1>5. u + v <= x + y
  BY <1>1, <1>2, <1>4 DEF u, v, x, y
<1> QED
  BY <1>3, <1>5 DEF u, v, x, y

(* No mean is above all its terms.                                          *)
LEMMA MeanIsReached ==
  ASSUME NEW s \in Seq(Fractions), s # <<>>, NEW m \in Int, More(MeanOfFractions(s), m)
  PROVE  \E i \in 1..Len(s) : s[i][1] > m * s[i][2]
<1> DEFINE n == Len(s)
<1>1. PICK r : FractionRun(s, r) /\ MeanOfFractions(s) = <<r[n][1], r[n][2] * n>>
  BY FractionFold
<1>2. n \in Nat
  OBVIOUS
<1>3. ASSUME NEW i \in 1..n PROVE s[i][1] \in Int /\ s[i][2] \in Nat \ {0}
  <2> DEFINE V == Fractions
  <2>1. s \in Seq(V)
    OBVIOUS
  <2> HIDE DEF V
  <2>2. s[i] \in V
    BY <2>1, ElementOfSeq
  <2> QED
    BY <2>2 DEF V, Fractions
<1>4. /\ r[0] = <<0, 1>>
      /\ \A k \in 0..n : r[k][1] \in Int /\ r[k][2] \in Nat \ {0}
      /\ \A k \in 1..n : r[k] = <<r[k - 1][1] * s[k][2] + s[k][1] * r[k - 1][2], r[k - 1][2] * s[k][2]>>
  BY <1>1 DEF FractionRun
<1> HIDE DEF n
<1>5. ASSUME \A i \in 1..n : ~(s[i][1] > m * s[i][2]) PROVE FALSE
  <2> DEFINE Q == {k \in 0..n : r[k][1] <= (m * k) * r[k][2]}
  <2>1. 0 \in Q
    <3>1. 0 \in 0..n /\ r[0][1] = 0 /\ r[0][2] = 1 /\ 0 <= (m * 0) * 1
      BY <1>2, <1>4
    <3> QED
      BY <3>1
  <2>2. ASSUME NEW k \in 1..n, k - 1 \in Q PROVE k \in Q
    <3> DEFINE a == r[k - 1][1]
               b == r[k - 1][2]
               c == s[k][1]
               d == s[k][2]
    <3>1. k - 1 \in 0..n /\ k \in 0..n /\ k - 1 \in Nat /\ (k - 1) + 1 = k
      BY <1>2
    <3>2. a \in Int /\ b \in Nat \ {0} /\ c \in Int /\ d \in Nat \ {0}
      BY <1>3, <1>4, <3>1
    <3>3. a <= (m * (k - 1)) * b
      BY <2>2
    <3>4. ~(c > m * d)
      BY <1>5
    <3>5. r[k][1] = a * d + c * b /\ r[k][2] = b * d
      BY <1>4
    <3> HIDE DEF a, b, c, d
    <3>6. c <= m * d
      <4>1. m * d \in Int
        BY <3>2
      <4> QED
        BY <3>2, <3>4, <4>1
    <3>7. a * d + c * b <= (m * ((k - 1) + 1)) * (b * d)
      BY <3>1, <3>2, <3>3, <3>6, FractionBound
    <3>8. r[k][1] <= (m * k) * r[k][2]
      BY <3>1, <3>5, <3>7
    <3> QED
      BY <3>1, <3>8
  <2>3. 0..n \subseteq Q
    <3> HIDE DEF Q
    <3> QED
      BY <1>2, <2>1, <2>2, PrefixInduction
  <2>4. n \in Q /\ n \in 0..n
    BY <1>2, <2>3
  <2> DEFINE a == r[n][1]
             b == r[n][2]
  <2>5. a \in Int /\ b \in Nat \ {0} /\ a <= (m * n) * b
    BY <1>4, <2>4
  <2>6. a > m * (b * n)
    BY <1>1 DEF More
  <2> HIDE DEF a, b
  <2>7. m * (b * n) = (m * n) * b /\ (m * n) * b \in Int
    BY <1>2, <2>5
  <2> QED
    BY <2>5, <2>6, <2>7
<1> QED
  BY <1>5 DEF n

LEMMA MeanIsReachedBelow ==
  ASSUME NEW s \in Seq(Int), NEW m \in Int, Less(MeanOf(s), m)
  PROVE  \E i \in 1..Len(s) : s[i] < m
<1>1. SumOf(s) < m * Len(s)
  BY DEF Less, MeanOf
<1>2. SumOf(s) \in Int /\ Len(s) \in Nat /\ \A i \in 1..Len(s) : s[i] \in Int
  BY SumType
<1>3. ASSUME \A i \in 1..Len(s) : ~(s[i] < m) PROVE FALSE
  <2>1. \A i \in 1..Len(s) : m <= s[i]
    BY <1>2, <1>3
  <2>2. m * Len(s) <= SumOf(s)
    BY <2>1, SumAtLeast
  <2>3. m * Len(s) \in Int
    BY <1>2
  <2> QED
    BY <1>1, <1>2, <2>2, <2>3
<1> QED
  BY <1>3

LEMMA KnownIs ==
  ASSUME NEW A, NEW s \in Seq(A \cup {None})
  PROVE  /\ Without(s, {None}) \in Seq(A)
         /\ \A j \in 1..Len(Without(s, {None})) :
              \E i \in DOMAIN s : s[i] # None /\ Without(s, {None})[j] = s[i]
<1> DEFINE W == {s[i] : i \in DOMAIN s} \ {None}
           known == Without(s, {None})
<1>1. known \in Seq(W)
  <2> DEFINE V == A \cup {None}
  <2>1. s \in Seq(V)
    OBVIOUS
  <2> HIDE DEF V
  <2> QED
    BY <2>1, WithoutIs
<1>2. W \subseteq A
  BY ElementOfSeq
<1>3. \A w \in W : \E i \in DOMAIN s : s[i] # None /\ w = s[i]
  OBVIOUS
<1> HIDE DEF W, known
<1>4. known \in Seq(A)
  BY <1>1, <1>2, SeqMonotonic
<1>5. \A j \in 1..Len(known) : known[j] \in W
  BY <1>1, ElementOfSeq
<1> QED
  BY <1>3, <1>4, <1>5 DEF known

(* fund_deepdive.py, _fill_price_and_nav: a bubble is a share of an NAV     *)
(* above zero.                                                              *)
LEMMA BubbleType ==
  ASSUME NEW price \in Maybe(Nat), NEW nav \in Maybe([redeem : Maybe(Int), issue : Maybe(Int)])
  PROVE  Bubble(price, nav) \in Fractions \cup {None}
<1> DEFINE ref == Reference(nav)
<1>1. ref \in Int \cup {None}
  <2>1. CASE nav = None
    BY <2>1 DEF Reference
  <2>2. CASE nav # None
    <3>1. nav.redeem \in Maybe(Int) /\ nav.issue \in Maybe(Int)
      BY <2>2 DEF Maybe
    <3> QED
      BY <2>2, <3>1 DEF Reference, Maybe
  <2> QED
    BY <2>1, <2>2
<1>2. Bubble(price, nav) = IF price \in {None, 0} \/ ref = None \/ ref <= 0 THEN None
                           ELSE <<100 * (price - ref), ref>>
  BY DEF Bubble
<1> HIDE DEF ref
<1>3. ASSUME ~(price \in {None, 0} \/ ref = None \/ ref <= 0) PROVE <<100 * (price - ref), ref>> \in Fractions
  <2>1. price \in Int /\ ref \in Int /\ ~(ref <= 0)
    BY <1>1, <1>3 DEF Maybe
  <2>2. 100 * (price - ref) \in Int /\ ref \in Nat \ {0}
    BY <2>1
  <2> QED
    BY <2>2 DEF Fractions
<1> QED
  BY <1>2, <1>3

LEMMA DiveType ==
  ASSUME NEW fund \in FundTypes
  PROVE  /\ DeepDive(fund).bubble \in Fractions \cup {None}
         /\ DeepDive(fund).figures.momentum \in Int \cup {None}
<1>1. fund.quote \in Maybe(Nat) /\ fund.nav \in Maybe([redeem : Maybe(Int), issue : Maybe(Int)])
  BY DEF FundTypes
<1>2. fund.figures # None => fund.figures.momentum \in Int \cup {None}
  BY DEF FundTypes, Maybe
<1>3. Bubble(fund.quote, fund.nav) \in Fractions \cup {None}
  BY <1>1, BubbleType
<1>4. CASE ~fund.valid
  BY <1>4 DEF DeepDive, NoFigures
<1>5. CASE fund.valid
  <2> DEFINE figures == IF HasId(fund) /\ fund.figures # None THEN fund.figures ELSE NoFigures
             bubble == Bubble(fund.quote, fund.nav)
  <2>1. DeepDive(fund) = [bubble |-> bubble, figures |-> figures]
    BY <1>5 DEF DeepDive
  <2>2. figures.momentum \in Int \cup {None}
    BY <1>2 DEF NoFigures
  <2> HIDE DEF figures, bubble
  <2>3. DeepDive(fund).bubble = bubble /\ DeepDive(fund).figures = figures
    BY <2>1
  <2> QED
    BY <1>3, <2>2, <2>3 DEF bubble
<1> QED
  BY <1>4, <1>5

(* _generate_suggestions.                                                   *)
LEMMA SuggestionsAre ==
  ASSUME NEW held, NEW r
  PROVE  /\ \A i \in DOMAIN held : More(DeepDive(held[i].fund).bubble, 10) =>
              "high_bubble" \in Suggestions(held, r)
         /\ \A i \in DOMAIN held :
              DeepDive(held[i].fund).figures.momentum # None
                /\ DeepDive(held[i].fund).figures.momentum < 30 =>
              "low_momentum" \in Suggestions(held, r)
         /\ More(r.volatility, 30) => "volatility" \in Suggestions(held, r)
         /\ Less(r.drawdown, -15) => "drawdown" \in Suggestions(held, r)
         /\ Less(r.gain, -15) => "loss" \in Suggestions(held, r)
<1> DEFINE dives == {DeepDive(held[i].fund) : i \in DOMAIN held}
           high == \E d \in dives : More(d.bubble, 10)
           low == \E d \in dives : Less(d.bubble, -5)
           slow == \E d \in dives : d.figures.momentum # None /\ d.figures.momentum < 30
           volatile == More(r.volatility, 30)
           fallen == Less(r.drawdown, -15)
           lost == Less(r.gain, -15)
           won == More(r.gain, 20)
           narrow == r.concentration \in {"very_high", "high"}
           moved == r.co_movement = "high"
           few == r.diversification < 40
           names == {"concentration", "high_bubble", "low_bubble", "low_momentum", "co_movement",
                     "diversification", "volatility", "drawdown", "loss", "profit"}
           found == {s \in names :
                       CASE s = "concentration" -> narrow
                         [] s = "high_bubble" -> high
                         [] s = "low_bubble" -> low
                         [] s = "low_momentum" -> slow
                         [] s = "co_movement" -> moved
                         [] s = "diversification" -> few
                         [] s = "volatility" -> volatile
                         [] s = "drawdown" -> fallen
                         [] s = "loss" -> lost
                         [] s = "profit" -> won}
<1>1. Suggestions(held, r) = IF found = {} THEN {"balanced"} ELSE found
  BY DEF Suggestions
<1>2. /\ \A i \in DOMAIN held : More(DeepDive(held[i].fund).bubble, 10) => high
      /\ \A i \in DOMAIN held :
           DeepDive(held[i].fund).figures.momentum # None
             /\ DeepDive(held[i].fund).figures.momentum < 30 => slow
  OBVIOUS
<1> HIDE DEF high, low, slow, volatile, fallen, lost, won, narrow, moved, few
<1>3. high => "high_bubble" \in found
  OBVIOUS
<1>4. slow => "low_momentum" \in found
  OBVIOUS
<1>5. volatile => "volatility" \in found
  OBVIOUS
<1>6. fallen => "drawdown" \in found
  OBVIOUS
<1>7. lost => "loss" \in found
  OBVIOUS
<1> HIDE DEF found
<1>8. \A s \in found : s \in Suggestions(held, r)
  BY <1>1
<1> QED
  BY <1>2, <1>3, <1>4, <1>5, <1>6, <1>7, <1>8 DEF volatile, fallen, lost

(* A mean above a bound has a fund above it, so that there is a suggestion. *)
LEMMA RungsAreSuggested ==
  ASSUME NEW items, NEW held \in Seq(Priced), held = Held(items), held # <<>>,
         \A i \in DOMAIN held : held[i].cost # None,
         NEW f \in DOMAIN Rungs, Gravest(Composition(items), f)
  PROVE  Rungs[f] \in Suggestions(held, Composition(items))
<1> DEFINE r == Composition(items)
           n == Len(held)
           dives == [i \in DOMAIN held |-> DeepDive(held[i].fund)]
           bubbles == [i \in DOMAIN dives |-> dives[i].bubble]
           momentums == [i \in DOMAIN dives |-> dives[i].figures.momentum]
<1>1. /\ r.bubble = MeanOfFractions(Without(bubbles, {None}))
      /\ r.momentum = MeanOf(Without(momentums, {None}))
      /\ r.gain = Profit(SumOf(Values(held)), TotalCost(items))
  BY DEF Composition
<1>2. n \in Nat /\ DOMAIN held = 1..n
  OBVIOUS
<1>3. /\ bubbles = [i \in 1..n |-> DeepDive(held[i].fund).bubble]
      /\ momentums = [i \in 1..n |-> DeepDive(held[i].fund).figures.momentum]
  BY <1>2
<1> HIDE DEF n, bubbles, momentums, r
<1>4. ASSUME NEW i \in 1..n
      PROVE  /\ DeepDive(held[i].fund).bubble \in Fractions \cup {None}
             /\ DeepDive(held[i].fund).figures.momentum \in Int \cup {None}
  <2>1. held[i] \in Priced
    BY <1>2, ElementOfSeq
  <2>2. held[i].fund \in FundTypes
    BY <2>1 DEF Priced, ItemTypes
  <2> QED
    BY <2>2, DiveType
<1>5. DOMAIN Rungs = {"bubble", "momentum", "volatility", "drawdown", "gain"}
  BY DEF Rungs
<1>6. CASE f = "bubble"
  <2> DEFINE A == Fractions
             known == Without(bubbles, {None})
  <2>1. bubbles \in Seq(A \cup {None})
    <3> DEFINE V == A \cup {None}
    <3>1. bubbles \in [1..n -> V]
      BY <1>3, <1>4
    <3> HIDE DEF V
    <3>2. bubbles \in Seq(V)
      BY <1>2, <3>1
    <3> QED
      BY <3>2 DEF V
  <2> HIDE DEF A
  <2>2. /\ known \in Seq(A)
        /\ \A j \in 1..Len(known) : \E i \in DOMAIN bubbles : bubbles[i] # None /\ known[j] = bubbles[i]
    BY <2>1, KnownIs
  <2>3. More(MeanOfFractions(known), 10)
    BY <1>1, <1>6 DEF Gravest, r
  <2> HIDE DEF known
  <2>4. known # <<>>
    BY <2>3 DEF More, MeanOfFractions
  <2>5. PICK j \in 1..Len(known) : known[j][1] > 10 * known[j][2]
    BY <2>2, <2>3, <2>4, MeanIsReached DEF A
  <2>6. PICK i \in DOMAIN bubbles : bubbles[i] # None /\ known[j] = bubbles[i]
    BY <2>2
  <2>7. i \in DOMAIN held /\ bubbles[i] = DeepDive(held[i].fund).bubble
    BY <1>2, <1>3
  <2>8. More(DeepDive(held[i].fund).bubble, 10)
    BY <2>5, <2>6, <2>7 DEF More
  <2>9. "high_bubble" \in Suggestions(held, r)
    BY <2>7, <2>8, SuggestionsAre
  <2> QED
    BY <1>6, <2>9 DEF Rungs, r
<1>7. CASE f = "momentum"
  <2> DEFINE A == Int
             known == Without(momentums, {None})
  <2>1. momentums \in Seq(A \cup {None})
    <3> DEFINE V == A \cup {None}
    <3>1. momentums \in [1..n -> V]
      BY <1>3, <1>4
    <3> HIDE DEF V
    <3>2. momentums \in Seq(V)
      BY <1>2, <3>1
    <3> QED
      BY <3>2 DEF V
  <2> HIDE DEF A
  <2>2. /\ known \in Seq(A)
        /\ \A j \in 1..Len(known) : \E i \in DOMAIN momentums : momentums[i] # None /\ known[j] = momentums[i]
    BY <2>1, KnownIs
  <2>3. Less(MeanOf(known), 30)
    BY <1>1, <1>7 DEF Gravest, r
  <2> HIDE DEF known
  <2>4. PICK j \in 1..Len(known) : known[j] < 30
    BY <2>2, <2>3, MeanIsReachedBelow DEF A
  <2>5. PICK i \in DOMAIN momentums : momentums[i] # None /\ known[j] = momentums[i]
    BY <2>2
  <2>6. i \in DOMAIN held /\ momentums[i] = DeepDive(held[i].fund).figures.momentum
    BY <1>2, <1>3
  <2>7. "low_momentum" \in Suggestions(held, r)
    BY <2>4, <2>5, <2>6, SuggestionsAre
  <2> QED
    BY <1>7, <2>7 DEF Rungs, r
<1>8. CASE f = "volatility"
  <2>1. More(r.volatility, 30)
    BY <1>8 DEF Gravest, r
  <2>2. "volatility" \in Suggestions(held, r)
    BY <2>1, SuggestionsAre
  <2> QED
    BY <1>8, <2>2 DEF Rungs, r
<1>9. CASE f = "drawdown"
  <2>1. Less(r.drawdown, -15)
    BY <1>9 DEF Gravest, r
  <2>2. "drawdown" \in Suggestions(held, r)
    BY <2>1, SuggestionsAre
  <2> QED
    BY <1>9, <2>2 DEF Rungs, r
<1>10. CASE f = "gain"
  <2>1. Less(r.gain, -20)
    BY <1>10 DEF Gravest, r
  <2>2. Less(r.gain, -15)
    <3> DEFINE v == SumOf(Values(held))
               w == TotalCost(items)
    <3>1. v \in Int /\ w \in Int
      BY GainIsBetween
    <3>2. r.gain = IF w > 0 THEN <<100 * (v - w), w>> ELSE <<0, 1>>
      BY <1>1 DEF Profit
    <3> HIDE DEF v, w
    <3>3. CASE w > 0
      <4> DEFINE x == 100 * (v - w)
      <4>1. r.gain = <<x, w>>
        BY <3>2, <3>3
      <4>2. x \in Int
        BY <3>1
      <4> HIDE DEF x
      <4>3. <<x, w>> # None /\ x < (-20) * w
        BY <2>1, <4>1 DEF Less
      <4>4. x < (-15) * w
        BY <3>1, <3>3, <4>2, <4>3
      <4> QED
        BY <4>1, <4>3, <4>4 DEF Less
    <3>4. CASE ~(w > 0)
      BY <2>1, <3>2, <3>4 DEF Less
    <3> QED
      BY <3>3, <3>4
  <2>3. "loss" \in Suggestions(held, r)
    BY <2>2, SuggestionsAre
  <2> QED
    BY <1>10, <2>3 DEF Rungs, r
<1> QED
  BY <1>5, <1>6, <1>7, <1>8, <1>9, <1>10

LEMMA ReportAgrees ==
  ASSUME NEW items \in Seq(ItemTypes), Report(items) # Raised, Report(items).quality = "complete"
  PROVE  LET held == Held(items)
             report == Report(items)
         IN  /\ \E i \in DOMAIN held : NotOver(report.figures.gain, Profit(held[i].price, held[i].cost))
             /\ \E i \in DOMAIN held : NotOver(Profit(held[i].price, held[i].cost), report.figures.gain)
             /\ \A f \in DOMAIN Rungs : Gravest(report.figures, f) => Rungs[f] \in report.suggestions
<1> DEFINE held == Held(items)
           figures == Composition(items)
           full == [quality |-> "complete", figures |-> figures, risk |-> RiskScore(figures),
                    suggestions |-> Suggestions(held, figures)]
           raises == \E i \in DOMAIN held : RaisesInItem(held[i])
<1>1. Report(items) = IF items = <<>> THEN [quality |-> "empty"]
                      ELSE IF raises THEN Raised
                      ELSE IF held = <<>> THEN [quality |-> "no_prices"]
                      ELSE IF RaisesInCoMovement(held) THEN Raised ELSE full
  BY DEF Report
<1>2. held \in Seq(Priced)
  BY HeldType
<1>3. figures.gain = Profit(SumOf(Values(held)), TotalCost(items))
  BY DEF Composition
<1>4. full.figures = figures /\ full.suggestions = Suggestions(held, figures)
  OBVIOUS
<1>5. raises \/ \A i \in DOMAIN held : held[i].cost # None
  BY DEF RaisesInItem
<1> HIDE DEF held, raises, full
<1>6. /\ [quality |-> "empty"].quality # "complete"
      /\ [quality |-> "no_prices"].quality # "complete"
  OBVIOUS
<1>7. Report(items) = full /\ held # <<>> /\ ~raises
  BY <1>1, <1>6
<1>8. \A i \in DOMAIN held : held[i].cost # None
  BY <1>5, <1>7
<1>9. held = Held(items)
  BY DEF held
<1>10. /\ \E i \in DOMAIN held : NotOver(figures.gain, Profit(held[i].price, held[i].cost))
       /\ \E i \in DOMAIN held : NotOver(Profit(held[i].price, held[i].cost), figures.gain)
  BY <1>2, <1>3, <1>7, <1>8, <1>9, GainIsBetween
<1>11. \A f \in DOMAIN Rungs : Gravest(figures, f) => Rungs[f] \in Suggestions(held, figures)
  <2> SUFFICES ASSUME NEW f \in DOMAIN Rungs, Gravest(figures, f)
               PROVE  Rungs[f] \in Suggestions(held, figures)
    OBVIOUS
  <2> QED
    BY <1>2, <1>7, <1>8, <1>9, RungsAreSuggested
<1> HIDE DEF figures
<1> QED
  BY <1>4, <1>7, <1>9, <1>10, <1>11

LEMMA StepReport ==
  ASSUME PortfolioAgrees, [Next]_vars PROVE PortfolioAgrees'
<1>1. CASE AnalyzePortfolio
  <2>1. PICK items \in Portfolios :
          seen' = Seen("portfolio", [items |-> items, report |-> Report(items)], {}, {})
    BY <1>1 DEF AnalyzePortfolio
  <2>2. items \in Seq(ItemTypes)
    BY PortfoliosAssumption
  <2>3. seen'.of.items = items /\ seen'.of.report = Report(items)
    BY <2>1 DEF Seen
  <2>4. Report(items) # Raised /\ Report(items).quality = "complete" =>
          LET held == Held(items)
              report == Report(items)
          IN  /\ \E i \in DOMAIN held : NotOver(report.figures.gain, Profit(held[i].price, held[i].cost))
              /\ \E i \in DOMAIN held : NotOver(Profit(held[i].price, held[i].cost), report.figures.gain)
              /\ \A f \in DOMAIN Rungs : Gravest(report.figures, f) => Rungs[f] \in report.suggestions
    BY <2>2, ReportAgrees
  <2> QED
    BY <2>3, <2>4 DEF PortfolioAgrees, NotOver
<1>2. CASE Gate \/ JudgeMarket \/ IdentifyFund \/ ReadBoard \/ Aggregate
  <2> SUFFICES seen'.engine # "portfolio"
    BY DEF PortfolioAgrees
  <2>1. \A engine, of, facts, claims : Seen(engine, of, facts, claims).engine = engine
    BY DEF Seen
  <2>2. CASE Gate
    BY <2>1, <2>2 DEF Gate
  <2>3. CASE JudgeMarket
    BY <2>1, <2>3 DEF JudgeMarket
  <2>4. CASE IdentifyFund
    BY <2>1, <2>4 DEF IdentifyFund
  <2>5. CASE ReadBoard
    BY <2>1, <2>5 DEF ReadBoard
  <2>6. CASE Aggregate
    BY <2>1, <2>6 DEF Aggregate
  <2> QED
    BY <1>2, <2>2, <2>3, <2>4, <2>5, <2>6
<1>3. CASE RunTechnical \/ TechnicalAlone
  <2>1. \A of, result : Seeing("technical", of, result).engine = "technical"
    BY DEF Seeing, Seen
  <2>2. seen'.engine # "portfolio"
    BY <1>3, <2>1 DEF RunTechnical, TechnicalAlone
  <2> QED
    BY <2>2 DEF PortfolioAgrees
<1>4. CASE StageRaises \/ RunNav \/ RunFundamental \/ AssessFunds \/ RankFunds \/ HandOver
  <2>1. seen'.engine # "portfolio"
    BY <1>4 DEF StageRaises, RunNav, RunFundamental, AssessFunds, RankFunds, HandOver, Nothing, Seen
  <2> QED
    BY <2>1 DEF PortfolioAgrees
<1>5. CASE IdentifyAgain \/ UNCHANGED vars
  BY <1>5 DEF IdentifyAgain, vars, PortfolioAgrees
<1> QED
  BY <1>1, <1>2, <1>3, <1>4, <1>5 DEF Next

(* portfolio_analyzer.py: whatever is held and whichever funds have no      *)
(* price, no NAV or no figures, the whole gains no more than its best fund  *)
(* and no less than its worst, and what cost the most points is suggested.  *)
THEOREM ReportAgreesWithItself == Spec => []PortfolioAgrees
<1>1. Init => PortfolioAgrees
  BY DEF Init, Nothing, Seen, PortfolioAgrees
<1> QED
  BY <1>1, StepReport, PTL DEF Spec

-----------------------------------------------------------------------------
(* The funds, their names and their histories.                              *)

(* Every name a table, a list or the market has for a fund is a name of     *)
(* that fund.                                                               *)
OwnNames(list) == list \in [Isins -> Symbols \cup {Absent}] /\
                  \A i \in Isins : list[i] # Absent => list[i] \in Names(i)

NamesInv ==
  /\ OwnNames(market)
  /\ sync \in [Syncers -> [at : {"idle", "fetched", "saved"}, list : Lists]]
  /\ \A p \in Syncers : OwnNames(sync[p].list)
  /\ universe \in [Isins -> [symbol : Symbols, active : BOOLEAN] \cup {Absent}]
  /\ \A i \in Isins : universe[i] # Absent => universe[i].symbol \in Names(i)
  /\ funds \in [Symbols -> Isins \cup {Absent}]
  /\ \A s \in Symbols : funds[s] # Absent => funds[s] = Owner[s]

SeriesInv ==
  /\ today \in Nat
  /\ history \in [Symbols -> SUBSET [day : Nat, calendar : Calendars]]
  /\ series \in [Symbols -> SUBSET Isins]
  /\ RowsOfOneFund

(* What a job was given for a symbol is a row of the fund that has it.      *)
OwnRow(e) == e.symbol \in Symbols /\ e.id \in Symbols /\ Owner[e.id] = Owner[e.symbol]

TodoInv == DOMAIN todo = Jobs /\ \A job \in Jobs : \A e \in todo[job] : OwnRow(e)

FundInv == NamesInv /\ SeriesInv /\ TodoInv

LEMMA FundInitHolds == FundInit => FundInv
<1> SUFFICES ASSUME FundInit PROVE FundInv
  OBVIOUS
<1>1. OwnNames(market)
  BY FundDataAssumption DEF FundInit, OwnNames, Names
<1>2. NoSync \in [at : {"idle", "fetched", "saved"}, list : Lists] /\ OwnNames(NoSync.list)
  BY DEF NoSync, Nobody, Lists, OwnNames
<1>3. NamesInv
  BY <1>1, <1>2 DEF FundInit, NamesInv
<1>4. SeriesInv
  BY DEF FundInit, SeriesInv, RowsOfOneFund
<1>5. TodoInv
  BY DEF FundInit, TodoInv
<1> QED
  BY <1>3, <1>4, <1>5 DEF FundInv

(* The rows a job finds for a symbol are of the fund that has the symbol.   *)
LEMMA FoundIsOwn ==
  ASSUME NamesInv, NEW s \in Symbols, NEW id \in FundIds(s)
  PROVE  id \in Symbols /\ Owner[id] = Owner[s]
<1>1. CASE funds[s] # Absent
  BY <1>1 DEF FundIds
<1>2. CASE funds[s] = Absent
  <2>1. PICK i \in ActiveOf(s) : id \in Symbols /\ funds[id] # Absent /\ funds[id] = i
    BY <1>2 DEF FundIds
  <2>2. Owner[s] = i
    BY <2>1 DEF ActiveOf, NamesInv, Names
  <2> QED
    BY <2>1, <2>2 DEF NamesInv
<1> QED
  BY <1>1, <1>2

LEMMA RowIsOwn ==
  ASSUME NamesInv, NEW s \in Symbols, FundIds(s) # {}
  PROVE  RowOf(s) \in Symbols /\ Owner[RowOf(s)] = Owner[s]
<1>1. RowOf(s) \in FundIds(s)
  BY DEF RowOf
<1> QED
  BY <1>1, FoundIsOwn

LEMMA PutKeeps ==
  ASSUME SeriesInv, NEW id \in Symbols, NEW rows \in SUBSET [day : Nat, calendar : Calendars],
         Put(id, Owner[id], rows), today' = today
  PROVE  SeriesInv'
<1>1. Owner[id] \in Isins
  BY FundDataAssumption
<1>2. history' \in [Symbols -> SUBSET [day : Nat, calendar : Calendars]]
  BY DEF Put, SeriesInv
<1>3. series' \in [Symbols -> SUBSET Isins]
  BY <1>1 DEF Put, SeriesInv
<1>4. RowsOfOneFund'
  BY DEF Put, SeriesInv, RowsOfOneFund
<1> QED
  BY <1>2, <1>3, <1>4 DEF SeriesInv

(* A job that files the answer for a symbol under a row of its fund.        *)
LEMMA FileKeeps ==
  ASSUME SeriesInv, NEW s \in Symbols, NEW id \in Symbols, Owner[id] = Owner[s],
         NEW calendar \in Calendars,
         Put(id, Owner[s], [day : Answer(s), calendar : {calendar}]), today' = today
  PROVE  SeriesInv'
<1>1. Answer(s) \subseteq Nat
  <2>1. Owner[s] \in Isins /\ FirstDay[Owner[s]] \in Nat /\ today \in Nat
    BY FundDataAssumption DEF SeriesInv
  <2> QED
    BY <2>1 DEF Answer
<1> DEFINE rows == [day : Answer(s), calendar : {calendar}]
<1>2. rows \in SUBSET [day : Nat, calendar : Calendars]
  BY <1>1
<1>3. Put(id, Owner[id], rows)
  OBVIOUS
<1> HIDE DEF rows
<1> QED
  BY <1>2, <1>3, PutKeeps

(* An entry that is done leaves a part of the list.                         *)
LEMMA DoneKeeps ==
  ASSUME TodoInv, NEW job \in Jobs, NEW e, Done(job, e)
  PROVE  TodoInv'
BY DEF TodoInv, Done, OwnRow

(* What a sync has fetched is a list of own names.                          *)
LEMMA EntriesAreOwn == ASSUME OwnNames(market) PROVE OwnNames(Entries(market))
BY DEF OwnNames, Entries

LEMMA FundStepKeeps == FundInv /\ [FundNext]_fundVars => FundInv'
<1> SUFFICES ASSUME FundInv, [FundNext]_fundVars PROVE FundInv'
  OBVIOUS
<1> USE DEF FundInv
<1>1. CASE Listings
  <2>1. OwnNames(market')
    BY <1>1 DEF Listings, NamesInv, OwnNames, Names
  <2> QED
    BY <1>1, <2>1 DEF Listings, NamesInv, SeriesInv, RowsOfOneFund, TodoInv, OwnRow
<1>2. CASE DayPasses
  BY <1>2 DEF DayPasses, NamesInv, OwnNames, SeriesInv, RowsOfOneFund, TodoInv, OwnRow
<1>3. ASSUME NEW p \in Syncers, Fetch(p) PROVE FundInv'
  <2>1. OwnNames(Entries(market))
    BY EntriesAreOwn DEF NamesInv
  <2> DEFINE list == Entries(market)
  <2>2. list \in Lists
    BY <2>1 DEF OwnNames, Lists
  <2>3. sync' = [sync EXCEPT ![p] = [at |-> "fetched", list |-> list]]
    BY <1>3 DEF Fetch
  <2> HIDE DEF list
  <2>4. sync' \in [Syncers -> [at : {"idle", "fetched", "saved"}, list : Lists]]
    BY <2>2, <2>3 DEF NamesInv
  <2>5. OwnNames(list)
    BY <2>1 DEF list
  <2>6. \A q \in Syncers : OwnNames(sync'[q].list)
    BY <2>3, <2>5 DEF NamesInv
  <2> QED
    BY <1>3, <2>4, <2>6 DEF Fetch, NamesInv, OwnNames, SeriesInv, RowsOfOneFund, TodoInv, OwnRow
<1>4. ASSUME NEW p \in Syncers, Save(p) PROVE FundInv'
  <2>1. OwnNames(sync[p].list)
    BY DEF NamesInv
  <2>2. sync' \in [Syncers -> [at : {"idle", "fetched", "saved"}, list : Lists]]
        /\ \A q \in Syncers : sync'[q].list = sync[q].list
    BY <1>4 DEF Save, NamesInv
  <2>3. universe' \in [Isins -> [symbol : Symbols, active : BOOLEAN] \cup {Absent}]
    <3>1. ASSUME NEW i \in Isins
          PROVE  universe'[i] \in [symbol : Symbols, active : BOOLEAN] \cup {Absent}
      BY <1>4, <2>1 DEF Save, NamesInv, OwnNames
    <3> QED
      BY <1>4, <3>1 DEF Save
  <2>4. \A i \in Isins : universe'[i] # Absent => universe'[i].symbol \in Names(i)
    BY <1>4, <2>1 DEF Save, NamesInv, OwnNames
  <2> QED
    BY <1>4, <2>2, <2>3, <2>4 DEF Save, NamesInv, OwnNames, SeriesInv, RowsOfOneFund, TodoInv, OwnRow
<1>5. ASSUME NEW p \in Syncers, Deactivate(p) PROVE FundInv'
  <2>1. NoSync \in [at : {"idle", "fetched", "saved"}, list : Lists] /\ OwnNames(NoSync.list)
    BY DEF NoSync, Nobody, Lists, OwnNames
  <2>2. sync' \in [Syncers -> [at : {"idle", "fetched", "saved"}, list : Lists]]
        /\ \A q \in Syncers : OwnNames(sync'[q].list)
    BY <1>5, <2>1 DEF Deactivate, NamesInv
  <2>3. universe' \in [Isins -> [symbol : Symbols, active : BOOLEAN] \cup {Absent}]
    <3>1. ASSUME NEW i \in Isins
          PROVE  universe'[i] \in [symbol : Symbols, active : BOOLEAN] \cup {Absent}
      BY <1>5 DEF Deactivate, NamesInv
    <3> QED
      BY <1>5, <3>1 DEF Deactivate
  <2>4. \A i \in Isins : universe'[i] # Absent => universe'[i].symbol \in Names(i)
    BY <1>5 DEF Deactivate, NamesInv
  <2> QED
    BY <1>5, <2>2, <2>3, <2>4 DEF Deactivate, NamesInv, OwnNames, SeriesInv, RowsOfOneFund, TodoInv, OwnRow
<1>6. ASSUME NEW p \in Syncers, SyncDies(p) PROVE FundInv'
  <2>1. NoSync \in [at : {"idle", "fetched", "saved"}, list : Lists] /\ OwnNames(NoSync.list)
    BY DEF NoSync, Nobody, Lists, OwnNames
  <2>2. sync' \in [Syncers -> [at : {"idle", "fetched", "saved"}, list : Lists]]
        /\ \A q \in Syncers : OwnNames(sync'[q].list)
    BY <1>6, <2>1 DEF SyncDies, NamesInv
  <2> QED
    BY <1>6, <2>2 DEF SyncDies, NamesInv, OwnNames, SeriesInv, RowsOfOneFund, TodoInv, OwnRow
<1>7. ASSUME NEW i \in Isins, Quote(i) PROVE FundInv'
  <2>1. market[i] \in Symbols /\ Owner[market[i]] = i
    BY <1>7 DEF Quote, NamesInv, OwnNames, Names
  <2>2. funds' \in [Symbols -> Isins \cup {Absent}]
        /\ \A s \in Symbols : funds'[s] # Absent => funds'[s] = Owner[s]
    BY <1>7, <2>1 DEF Quote, UpsertFund, NamesInv
  <2> DEFINE rows == {[day |-> today, calendar |-> QuoteDates]}
  <2>3. rows \in SUBSET [day : Nat, calendar : Calendars]
    BY FundDataAssumption DEF SeriesInv, Calendars
  <2>4. \/ Put(market[i], Owner[market[i]], rows)
        \/ UNCHANGED <<history, series>>
    BY <1>7, <2>1 DEF Quote
  <2>5. today' = today /\ UNCHANGED todo
    BY <1>7 DEF Quote
  <2> HIDE DEF rows
  <2>6. CASE Put(market[i], Owner[market[i]], rows)
    <3>1. SeriesInv'
      BY <2>1, <2>3, <2>5, <2>6, PutKeeps
    <3> QED
      BY <1>7, <2>2, <2>5, <3>1 DEF Quote, NamesInv, OwnNames, TodoInv, OwnRow
  <2>7. CASE UNCHANGED <<history, series>>
    <3>1. SeriesInv'
      BY <2>5, <2>7 DEF SeriesInv, RowsOfOneFund
    <3> QED
      BY <1>7, <2>2, <2>5, <3>1 DEF Quote, NamesInv, OwnNames, TodoInv, OwnRow
  <2> QED
    BY <2>4, <2>6, <2>7
<1>8. ASSUME NEW job \in Jobs, StartBackfill(job) PROVE FundInv'
  <2> DEFINE list == {[symbol |-> s, id |-> RowOf(s), place |-> Place(s)] : s \in Cut(MaxFunds)}
  <2>1. ASSUME NEW e \in list PROVE OwnRow(e)
    <3>1. PICK s \in Cut(MaxFunds) : e = [symbol |-> s, id |-> RowOf(s), place |-> Place(s)]
      OBVIOUS
    <3>2. s \in Symbols /\ FundIds(s) # {}
      BY DEF Cut, Needy
    <3>3. RowOf(s) \in Symbols /\ Owner[RowOf(s)] = Owner[s]
      BY <3>2, RowIsOwn
    <3>4. e.symbol = s /\ e.id = RowOf(s)
      BY <3>1
    <3> QED
      BY <3>2, <3>3, <3>4 DEF OwnRow
  <2>2. todo' = [todo EXCEPT ![job] = list]
    BY <1>8 DEF StartBackfill
  <2> HIDE DEF list
  <2>3. TodoInv'
    BY <2>1, <2>2 DEF TodoInv, OwnRow
  <2> QED
    BY <1>8, <2>3 DEF StartBackfill, NamesInv, OwnNames, SeriesInv, RowsOfOneFund
<1>9. ASSUME NEW job \in Jobs, SkipFund(job) PROVE FundInv'
  <2>1. TodoInv'
    BY <1>9, DoneKeeps DEF SkipFund
  <2> QED
    BY <1>9, <2>1 DEF SkipFund, NamesInv, OwnNames, SeriesInv, RowsOfOneFund
<1>10. ASSUME NEW s \in Symbols, HistoryBackfill(s) PROVE FundInv'
  <2>1. TodoInv'
    BY <1>10, DoneKeeps DEF HistoryBackfill, Jobs
  <2>2. RowOf(s) \in Symbols /\ Owner[RowOf(s)] = Owner[s]
    BY <1>10, RowIsOwn DEF HistoryBackfill
  <2>3. Put(RowOf(s), Owner[s], [day : Answer(s), calendar : {"gregorian"}]) /\ today' = today
    BY <1>10 DEF HistoryBackfill
  <2> DEFINE id == RowOf(s)
  <2>4. id \in Symbols /\ Owner[id] = Owner[s]
        /\ Put(id, Owner[s], [day : Answer(s), calendar : {"gregorian"}])
    BY <2>2, <2>3
  <2> HIDE DEF id
  <2>5. SeriesInv'
    BY <2>3, <2>4, FileKeeps DEF Calendars
  <2> QED
    BY <1>10, <2>1, <2>5 DEF HistoryBackfill, NamesInv, OwnNames
<1>11. ASSUME NEW s \in Symbols, CandlestickBackfill(s) PROVE FundInv'
  <2>1. PICK e \in todo["candlesticks"] :
          /\ e.symbol = s /\ Done("candlesticks", e)
          /\ Put(e.id, Owner[s], [day : Answer(s), calendar : {"jalali"}])
    BY <1>11 DEF CandlestickBackfill
  <2>2. TodoInv'
    BY <2>1, DoneKeeps DEF Jobs
  <2> DEFINE id == e.id
  <2>3. id \in Symbols /\ Owner[id] = Owner[s] /\ today' = today
    BY <1>11, <2>1 DEF TodoInv, OwnRow, Jobs, CandlestickBackfill
  <2>4. Put(id, Owner[s], [day : Answer(s), calendar : {"jalali"}])
    BY <2>1
  <2> HIDE DEF id
  <2>5. SeriesInv'
    BY <2>3, <2>4, FileKeeps DEF Calendars
  <2> QED
    BY <1>11, <2>2, <2>5 DEF CandlestickBackfill, NamesInv, OwnNames
<1>12. CASE UNCHANGED fundVars
  BY <1>12 DEF fundVars, NamesInv, OwnNames, SeriesInv, RowsOfOneFund, TodoInv, OwnRow
<1> QED
  BY <1>1, <1>2, <1>3, <1>4, <1>5, <1>6, <1>7, <1>8, <1>9, <1>10, <1>11, <1>12 DEF FundNext

(* universe_store.py, repository.py: at any time every name is known under  *)
(* the fund that has it, and no row holds prices of another fund than its   *)
(* own.                                                                     *)
THEOREM FundInvariance == FundSpec => []FundInv
<1>1. FundInit => FundInv
  BY FundInitHolds
<1>2. FundInv /\ [FundNext]_fundVars => FundInv'
  BY FundStepKeeps
<1> QED
  BY <1>1, <1>2, PTL DEF FundSpec

(* history_backfill.py:142, candlestick_backfill.py, repository.py:         *)
(* whatever is renamed, delisted or synced from an old list, whichever job  *)
(* writes, the rows filed under one fund are prices of that fund.           *)
THEOREM RowsAreOwn == FundSpec => []RowsOfOneFund
<1>1. FundInv => RowsOfOneFund
  BY DEF FundInv, SeriesInv
<1> QED
  BY <1>1, FundInvariance, PTL
=============================================================================
