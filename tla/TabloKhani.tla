----------------------------- MODULE TabloKhani -----------------------------
(***************************************************************************)
(* The order book reader (src/core/pipeline/microstructure.py): facts read *)
(* off a book, a money flow and a quote, and interpretations that cite     *)
(* them.                                                                   *)
(*                                                                         *)
(* Of one side of a book the engine uses the number of levels, the price   *)
(* and quantity of the best one and the total quantity.  A fact stands for *)
(* its name: its value is the field it was read from.                      *)
(***************************************************************************)
EXTENDS Bands, FiniteSets

Sides(prices, quantities) ==
  {s \in [levels : 0..5, price : prices, best : quantities, total : quantities] :
     /\ s.best <= s.total
     /\ s.levels = 1 => s.total = s.best}

\* What the engine is given: a side may have any number of levels.
BoardTypes ==
  LET Side == [levels : Nat, price : Nat, best : Nat, total : Nat]
      Dominance == {"real_buy_dominant", "legal_buy_dominant", "real_sell_dominant", "legal_sell_dominant"}
      Quoted == {"last_price", "volume", "trade_value", "trade_count", "change_close_pct"}
  IN  [book : {None} \cup [bid : Side, ask : Side], flow : {None} \cup [Dominance -> Nat],
       quote : {None} \cup [Quoted -> Int \cup {None}]]

NoSide == [levels |-> 0, price |-> 0, best |-> 0, total |-> 0]

Empty(side) == side.levels = 0

BookFacts(book) ==
  IF book = None THEN {} ELSE
  {"total_bid_qty", "total_ask_qty", "bid_levels", "ask_levels"}
    \cup (IF Empty(book.bid) THEN {} ELSE {"best_bid_price", "best_bid_qty", "best_bid_orders"})
    \cup (IF Empty(book.ask) THEN {} ELSE {"best_ask_price", "best_ask_qty", "best_ask_orders"})
    \cup (IF Empty(book.bid) \/ Empty(book.ask) THEN {} ELSE {"spread", "spread_pct", "mid_price"})

FlowFacts(flow) ==
  IF flow = None THEN {} ELSE
  {"buy_real_vol", "buy_legal_vol", "sell_real_vol", "sell_legal_vol", "total_buy_vol",
   "total_sell_vol", "net_volume_flow", "buy_real_cnt", "buy_legal_cnt", "sell_real_cnt",
   "sell_legal_cnt", "total_buy_cnt", "total_sell_cnt", "net_count_flow"}

QuoteFacts(quote) ==
  IF quote = None THEN {} ELSE
  {n \in {"last_price", "volume", "trade_value", "trade_count", "change_close_pct"} :
     quote[n] # None}

Facts(book, flow, quote) == BookFacts(book) \cup FlowFacts(flow) \cup QuoteFacts(quote)

-----------------------------------------------------------------------------
\* Best levels that are there and empty: the queues of a blocked market.
BuyQueue(book) == ~Empty(book.ask) /\ book.ask.best = 0
SellQueue(book) == ~Empty(book.bid) /\ book.bid.best = 0

Lean(bid, ask) ==
  IF bid + ask = 0 THEN "neutral"
  ELSE AtLeast(Floor(100 * bid, bid + ask),
               << <<75, "strong_buy">>, <<60, "buy">>, <<40, "neutral">>, <<25, "sell">> >>,
               "strong_sell")

PressureOf(book) ==
  CASE BuyQueue(book) /\ SellQueue(book) -> "neutral"
    [] BuyQueue(book) /\ ~SellQueue(book) -> "queue_buy"
    [] SellQueue(book) /\ ~BuyQueue(book) -> "queue_sell"
    [] OTHER -> Lean(book.bid.total, book.ask.total)

\* A slip that would cite the best quantities, which a one-sided book has not got.
Pressure_CitesBest(book) ==
  IF book = None THEN Claim("orderbook_pressure", "unknown", {}, 0)
  ELSE Claim("orderbook_pressure", PressureOf(book), {"best_bid_qty", "best_ask_qty"}, 85)

Pressure(book) ==
  IF book = None THEN Claim("orderbook_pressure", "unknown", {}, 0)
  ELSE Claim("orderbook_pressure", PressureOf(book), {"total_bid_qty", "total_ask_qty"}, 85)

\* spread_pct <= bound / 10, of the middle price.
SpreadOf(bid, ask) ==
  LET spread == IF bid + ask > 0 THEN Ceiling(2000 * (ask - bid), ask + bid) ELSE 0
  IN  AtMost(spread, << <<1, "tight">>, <<5, "normal">>, <<20, "wide">> >>, "crossed")

Spread(book) ==
  IF "spread_pct" \notin BookFacts(book) THEN Claim("spread_quality", "unknown", {}, 0)
  ELSE Claim("spread_quality", SpreadOf(book.bid.price, book.ask.price), {"spread_pct"}, 80)

Depth(book) ==
  IF book = None THEN Claim("depth_quality", "unknown", {}, 0)
  ELSE LET levels == book.bid.levels + book.ask.levels
           qty == book.bid.total + book.ask.total
       IN  Claim("depth_quality",
                 CASE levels >= 8 /\ qty > 100000 -> "deep"
                   [] levels >= 5 /\ qty > 50000 /\ ~(levels >= 8 /\ qty > 100000) -> "moderate"
                   [] levels >= 2 /\ ~(levels >= 5 /\ qty > 50000) -> "shallow"
                   [] OTHER -> "unknown",
                 {"bid_levels", "ask_levels", "total_bid_qty", "total_ask_qty"}, 80)

\* The one volume above the three others, if there is one.
Dominant(flow) ==
  LET over == {k \in DOMAIN flow : \A l \in DOMAIN flow \ {k} : flow[k] > flow[l]}
  IN  IF over = {} THEN "balanced" ELSE CHOOSE k \in over : TRUE

MoneyFlow(flow) ==
  IF flow = None THEN Claim("money_flow_pressure", "unknown", {}, 0)
  ELSE Claim("money_flow_pressure", Dominant(flow),
             {"net_volume_flow", "total_buy_vol", "total_sell_vol"}, 80)

Queue(book) ==
  IF ~({"best_bid_qty", "best_ask_qty"} \subseteq BookFacts(book))
  THEN Claim("queue_status", "unknown", {}, 0)
  ELSE CASE BuyQueue(book) -> Claim("queue_status", "queue_buy", {"best_ask_qty"}, 90)
         [] SellQueue(book) /\ ~BuyQueue(book) ->
              Claim("queue_status", "queue_sell", {"best_bid_qty"}, 90)
         [] OTHER -> Claim("queue_status", "none", {"best_bid_qty", "best_ask_qty"}, 90)

Tablo(book, flow, quote) ==
  {Pressure(book), Spread(book), Depth(book), MoneyFlow(flow), Queue(book)}
=============================================================================
