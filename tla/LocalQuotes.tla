---------------------------- MODULE LocalQuotes ----------------------------
(***************************************************************************)
(* What the local database provider (src/services/providers/               *)
(* localdb_provider.py) makes of the history table: a price, an NAV and a  *)
(* book.  days is a sequence with the fund's row of each day of the table, *)
(* None where it has none; a row is [last, close, bid, ask].               *)
(***************************************************************************)
EXTENDS Bands, FiniteSets

CONSTANT Day           \* the length of a day, on the clock of the requests

\* get_symbol asks for the newest day of the whole table; the row has no time.
LocalPrice(days) ==
  LET row == days[Len(days)]
  IN  IF row = None THEN None ELSE [last |-> row.last, at |-> None, asOf |-> Day * Len(days)]

\* get_nav: nothing writes nav_history, so it is the fund's latest closing price,
\* of whatever day, and without a time.
LocalNav(days) ==
  LET known == {d \in DOMAIN days : IF days[d] = None THEN FALSE ELSE days[d].close # None}
      latest == CHOOSE d \in known : \A e \in known : e <= d
      close == days[latest].close
  IN  IF known = {} THEN [redeem |-> None, issue |-> None, at |-> None, asOf |-> 0]
      ELSE IF close = 0 THEN [redeem |-> None, issue |-> None, at |-> None, asOf |-> 0]
      ELSE [redeem |-> close, issue |-> close, at |-> None, asOf |-> Day * latest]

\* _row_to_quote: the closing price bids and the last price asks, for one level.
LocalSide(price, quantity) ==
  IF quantity > 0
  THEN [levels |-> 1, price |-> IF price = None THEN 0 ELSE price, best |-> quantity, total |-> quantity]
  ELSE [levels |-> 0, price |-> 0, best |-> 0, total |-> 0]

\* A row without volumes of buyers and sellers has them as zero.
LocalFlow == [real_buy_dominant |-> 0, legal_buy_dominant |-> 0, real_sell_dominant |-> 0,
              legal_sell_dominant |-> 0]

LocalQuote(row) == [last_price |-> row.last, volume |-> None, trade_value |-> None,
                    trade_count |-> None, change_close_pct |-> None]

LocalBook(row) == [bid |-> LocalSide(row.close, row.bid), ask |-> LocalSide(row.last, row.ask)]
=============================================================================
