----------------------------- MODULE MCAnalysis -----------------------------
EXTENDS Analysis

MCKnowns == {[stored |-> s, live |-> l, age |-> a] :
               s \in BOOLEAN, l \in {{}, {"nav", "volume"}}, a \in {None, 0, 2, 3}}

\* Four funds of two groups; the volume and the value on each side of their
\* two bounds and between them.
MCMarkets ==
  {[change |-> c, group |-> [f1 |-> "g1", f2 |-> "g1", f3 |-> "g2"],
    volume |-> v, value |-> w] :
     c \in [{"f1", "f2", "f3"} -> {None, -40, -2, 0, 3, 40}],
     v \in {400, 800, 1200}, w \in {0, 3, 6}}

MCFunds ==
  {[universe |-> u, funds |-> f, quoted |-> q, label |-> l, words |-> w, bars |-> b] :
     u \in BOOLEAN, f \in BOOLEAN, q \in BOOLEAN, l \in {"tala", "mokhtalet", "daramad_sabet"},
     w \in {{}, {"ahrom", "tala"}, {"sabet"}, {"saham"}}, b \in {0, 50}}

\* One side of a book: none, one level, or four; the asks at every spread of the
\* one price of the bids, below it too.
MCBids == {NoSide} \cup {s \in Sides({1000}, {0, 100, 300, 90000}) : s.levels \in {1, 4}}
MCAsks == {NoSide} \cup {s \in Sides({990, 1000, 1004, 1010, 1100}, {0, 100, 300, 90000}) :
                          s.levels \in {1, 4} /\ s.best < 300}

Flow(a, b, c, d) == [real_buy_dominant |-> a, legal_buy_dominant |-> b,
                     real_sell_dominant |-> c, legal_sell_dominant |-> d]

Quote(p) == [last_price |-> p, volume |-> 5, trade_value |-> None, trade_count |-> None,
             change_close_pct |-> 1]

MCBoards ==
  {[book |-> b, flow |-> f, quote |-> q] :
     b \in {None} \cup [bid : MCBids, ask : MCAsks],
     f \in {None, Flow(4, 1, 2, 2)}, q \in {None, Quote(None), Quote(100)}}

\* Days without a price, without a volume and with the price zero among them.
Row(close, volume) == [close |-> close, volume |-> volume]
MCRows == {Row(97, 4), Row(100, None), Row(110, 1), Row(121, 9), Row(None, 2), Row(0, 1)}
MCHistories == UNION {[1..n -> MCRows] : n \in 0..5}

MCPrices ==
  {[price |-> p, nav |-> n] :
     p \in {None} \cup {[last |-> x, at |-> t, asOf |-> a] : x \in {None, 0, 100}, t \in {1, Unreadable}, a \in {1}}
             \cup {[last |-> 100, at |-> 9, asOf |-> 9]},
     n \in {None} \cup {[redeem |-> x, issue |-> y, at |-> t, asOf |-> 3] :
                          x \in {None, 0, 90, 99, 104}, y \in {None, 100}, t \in {3, Unreadable}}}

MCTables ==
  UNION {[1..n -> {None} \cup {[last |-> x, close |-> y, bid |-> b, ask |-> a] :
                                 x \in {0, 101}, y \in {None, 100}, b \in {0, 7}, a \in {0, 9}}] :
           n \in 1..2}

\* Three funds, the first two with any of the quotes and histories.
MCQuote(v, bid, flow, change, premium) ==
  [value |-> v, volume |-> v, depth |-> 50, relative |-> 100, bid |-> bid, ask |-> 10,
   bestBid |-> 100, bestAsk |-> 101,
   flow |-> [buyReal |-> flow, buyLegal |-> 2, sellReal |-> 3, sellLegal |-> 1],
   last |-> change, close |-> change, premium |-> premium]

MCQuotes == {MCQuote(v, 12, flow, change, premium) :
               v \in {40, 80}, flow \in {0, 6}, change \in {None, 25}, premium \in {None, 6}}

Given3(rows, volatility) == [rows |-> rows, volatility |-> volatility, sharpe |-> None, hist |-> None]
R(c) == [close |-> c, last |-> 1]
MCSeries == {Given3(<<>>, None), Given3(<<R(100), R(None), R(90), R(95)>>, 30),
             Given3(<<R(90), R(100), R(110), R(105)>>, 10), Given3(<<R(90), R(100), R(110), R(121)>>, 30)}

MCMembers == {[quote |-> q, history |-> h, leveraged |-> FALSE] : q \in MCQuotes, h \in MCSeries}
MCThird == [quote |-> MCQuote(40, 12, 6, -6, 6), history |-> Given3(<<R(90), R(100), R(110), R(105)>>, 10),
            leveraged |-> TRUE]

MCUniverses == {<<a, b, MCThird>> : a, b \in MCMembers}

\* Up to three items, the third one of two.  Among the funds: one far above its
\* NAV, one with every bad figure, one with every good one, one without a second
\* quote, one with a day at the price zero, and one fund_universe does not have.
Figures(m, v, d) == [momentum |-> m, volatility |-> v, drawdown |-> d]
Fund(quote, redeem, closes, figures) ==
  [valid |-> TRUE, named |-> TRUE, isin |-> TRUE, quote |-> quote,
   nav |-> [redeem |-> redeem, issue |-> 100], closes |-> closes, figures |-> figures]
Up == <<104, 102, 101, 100>>
Down == <<98, 100, 101, 103>>

MCItem(quantity, cost, price, fund) ==
  [quantity |-> quantity, cost |-> cost, price |-> price, fund |-> fund]

Calm == MCItem(4, 95, 100, Fund(101, 100, <<>>, Figures(50, 10, -9)))

MCItems ==
  {Calm} \cup {MCItem(q, c, 100, f) : q \in {1, 4}, c \in {95, 200},
     f \in {Fund(120, 100, Up, None), Fund(90, 0, Down, Figures(20, 40, -20)),
            Fund(106, 100, Up, Figures(70, 10, 0))}}
  \cup {MCItem(2, c, p, Fund(None, 100, <<>>, Figures(None, 20, -9))) : c \in {80, 200}, p \in {None, 100}}
  \cup {MCItem(2, 80, 100, [Fund(100, 100, Up, Figures(20, 40, -20)) EXCEPT !.named = n, !.isin = n, !.valid = v]) :
          n, v \in BOOLEAN}
  \cup {MCItem(2, 80, 100, Fund(100, 100, <<101, 0, 100>>, None)), [Calm EXCEPT !.cost = None]}

MCThirds == {MCItem(4, 200, 100, Fund(120, 100, Up, None)), Calm}

MCPortfolios == {<<>>} \cup UNION {[1..n -> MCItems] : n \in 1..2}
                      \cup {<<a, b, c>> : a, b \in MCItems, c \in MCThirds}
=============================================================================
