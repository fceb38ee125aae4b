------------------------------- MODULE FundData -------------------------------
(***************************************************************************)
(* The funds and their price series: the fund universe and its sync from   *)
(* the list of the exchange (src/services/discovery/fund_universe.py and   *)
(* universe_store.py), the older table of funds that quotes fill           *)
(* (src/core/history/repository.py), and the jobs that fill the history    *)
(* table (history_backfill.py and candlestick_backfill.py under            *)
(* src/services/sync/), next to the quotes of the day.                     *)
(*                                                                         *)
(* A row of history is abstracted to its trading day and the calendar its  *)
(* date is written in: dates are text, and the key of the table.  Prices   *)
(* are left out, and so is the table of candlesticks, which nothing reads. *)
(* A symbol is a number, whose order is the alphabet's.                    *)
(***************************************************************************)
EXTENDS Integers, FiniteSets

CONSTANTS
  Isins,         \* the funds of the exchange
  Symbols,       \* the names they may carry
  Owner,         \* the fund a name belongs to: names are not used again
  Suffixed,      \* the names that end in 2, 3 or 4
  FirstDay,      \* the first trading day of each fund
  FirstList,     \* the funds listed at first, and their symbols
  Days,          \* bound: the last trading day
  QuoteDates,    \* the calendar of the dates of quotes; without one, the day's
  MinDays,       \* min_history_days
  MaxFunds,      \* max_funds_per_run of the two backfills
  Syncers,       \* programs that sync the universe
  Scheduled,     \* the one that runs again and again
  MaxChanges,    \* bound: listings, delistings and renamings
  Absent         \* no row, not listed

ASSUME FundDataAssumption ==
  /\ Symbols \subseteq Nat
  /\ Owner \in [Symbols -> Isins]
  /\ Suffixed \subseteq Symbols
  /\ FirstDay \in [Isins -> Nat]
  /\ FirstList \in [Isins -> Symbols \cup {Absent}]
  /\ \A i \in Isins : FirstList[i] = Absent \/ Owner[FirstList[i]] = i
  /\ Scheduled \in Syncers
  /\ QuoteDates \in {"gregorian", "jalali"}
  /\ {Days, MinDays, MaxFunds, MaxChanges} \subseteq Nat

VARIABLES
  market,        \* the symbol each fund trades under, Absent when it does not
  changes,       \* changes of the market so far
  today,         \* the trading day
  universe,      \* table fund_universe
  sync,          \* sync_fund_universe of each program: its step and its list
  funds,         \* table funds: the ISIN in the row of a symbol
  history,       \* table history, the rows of each fund
  series,        \* the funds whose prices are in these rows
  todo           \* the funds a job has still to do, with their rows of funds

fundVars == <<market, changes, today, universe, sync, funds, history, series, todo>>

Jobs == {"history", "candlesticks"}

Calendars == {"gregorian", "jalali"}

Rows == [day : 1..Days, calendar : Calendars]

Lists == [Isins -> Symbols \cup {Absent}]

TypeOK ==
  /\ market \in Lists
  /\ changes \in 0..MaxChanges
  /\ today \in 1..Days
  /\ universe \in [Isins -> [symbol : Symbols, active : BOOLEAN] \cup {Absent}]
  /\ sync \in [Syncers -> [at : {"idle", "fetched", "saved"}, list : Lists]]
  /\ funds \in [Symbols -> Isins \cup {Absent}]
  /\ history \in [Symbols -> SUBSET Rows]
  /\ series \in [Symbols -> SUBSET Isins]
  /\ \A job \in Jobs : todo[job] \subseteq [symbol : Symbols, id : Symbols, place : Nat]

Nobody == [i \in Isins |-> Absent]

NoSync == [at |-> "idle", list |-> Nobody]

Names(i) == {s \in Symbols : Owner[s] = i}

FundInit ==
  /\ market = FirstList
  /\ changes = 0
  /\ today = 1
  /\ universe = [i \in Isins |-> Absent]
  /\ sync = [p \in Syncers |-> NoSync]
  /\ funds = [s \in Symbols |-> Absent]
  /\ history = [s \in Symbols |-> {}]
  /\ series = [s \in Symbols |-> {}]
  /\ todo = [j \in Jobs |-> {}]

-----------------------------------------------------------------------------
(* The exchange: a fund is listed, delisted or renamed; a day passes.      *)

Listings ==
  /\ changes < MaxChanges
  /\ changes' = changes + 1
  /\ \E i \in Isins : \E s \in (Names(i) \cup {Absent}) \ {market[i]} :
       market' = [market EXCEPT ![i] = s]
  /\ UNCHANGED <<today, universe, sync, funds, history, series, todo>>

DayPasses ==
  /\ today < Days
  /\ today' = today + 1
  /\ UNCHANGED <<market, changes, universe, sync, funds, history, series, todo>>

-----------------------------------------------------------------------------
(* Syncing the universe                                                    *)

\* The entries built of the symbols of sector 68: a symbol that ends in 2,
\* 3 or 4 is taken for a derivative.
Entries(list) == [i \in Isins |-> IF list[i] \in Suffixed THEN Absent ELSE list[i]]

Listed(list) == {i \in Isins : list[i] # Absent}

Fetch(p) ==
  /\ sync[p].at = "idle"
  /\ Listed(Entries(market)) # {}
  /\ sync' = [sync EXCEPT ![p] = [at |-> "fetched", list |-> Entries(market)]]
  /\ UNCHANGED <<market, changes, today, universe, funds, history, series, todo>>

Save_KeepsActive(p) ==
  /\ sync[p].at = "fetched"
  /\ universe' = [i \in Isins |-> IF sync[p].list[i] = Absent THEN universe[i] ELSE
       [symbol |-> sync[p].list[i], active |-> universe[i] = Absent \/ universe[i].active]]
  /\ sync' = [sync EXCEPT ![p].at = "saved"]
  /\ UNCHANGED <<market, changes, today, funds, history, series, todo>>

\* save_universe: one transaction.
Save(p) ==
  /\ sync[p].at = "fetched"
  /\ universe' = [i \in Isins |-> IF sync[p].list[i] = Absent THEN universe[i] ELSE
       [symbol |-> sync[p].list[i], active |-> TRUE]]
  /\ sync' = [sync EXCEPT ![p].at = "saved"]
  /\ UNCHANGED <<market, changes, today, funds, history, series, todo>>

\* deactivate_missing: a transaction of its own.
Deactivate(p) ==
  /\ sync[p].at = "saved"
  /\ universe' = [i \in Isins |-> IF universe[i] = Absent \/ sync[p].list[i] # Absent
                                  THEN universe[i] ELSE [universe[i] EXCEPT !.active = FALSE]]
  /\ sync' = [sync EXCEPT ![p] = NoSync]
  /\ UNCHANGED <<market, changes, today, funds, history, series, todo>>

\* The program is stopped, or a transaction fails.
SyncDies(p) ==
  /\ sync[p].at # "idle"
  /\ sync' = [sync EXCEPT ![p] = NoSync]
  /\ UNCHANGED <<market, changes, today, universe, funds, history, series, todo>>

-----------------------------------------------------------------------------
(* Writing history                                                         *)

Put(id, isin, rows) ==
  /\ history' = [history EXCEPT ![id] = @ \cup rows]
  /\ series' = [series EXCEPT ![id] = @ \cup {isin}]

\* The row of the symbol is made when it is missing, its ISIN filled in.
UpsertFund(i) == funds' = [funds EXCEPT ![market[i]] = i]

\* upsert_history_from_quote, of sync_daily and the rankings, which commit the
\* quotes of one run fund by fund.  The row of history is a transaction of its
\* own: it may fail, or come after steps of the others, which then find what
\* a failure leaves.
Quote(i) ==
  /\ market[i] # Absent
  /\ UpsertFund(i)
  /\ \/ Put(market[i], i, {[day |-> today, calendar |-> QuoteDates]})
     \/ UNCHANGED <<history, series>>
  /\ UNCHANGED <<market, changes, today, universe, sync, todo>>

-----------------------------------------------------------------------------
(* The jobs                                                                *)

ActiveOf(s) == {i \in Isins : universe[i] # Absent /\ universe[i].active /\ universe[i].symbol = s}

FundIds_AnyFund(s) ==
  IF funds[s] # Absent THEN {s}
  ELSE {t \in Symbols : funds[t] # Absent}

\* _get_fund_id_from_funds_table: by symbol, then by the ISIN of the universe.
FundIds(s) ==
  IF funds[s] # Absent THEN {s}
  ELSE {t \in Symbols : funds[t] # Absent /\ \E i \in ActiveOf(s) : funds[t] = i}

\* The row that the query returns, of those that it may.
RowOf(s) == CHOOSE id \in FundIds(s) : TRUE

Length(s) == Cardinality(history[RowOf(s)])

\* _find_funds_needing_history: the fund with the shortest history first,
\* by symbol among equals.
Needy ==
  {s \in Symbols : ActiveOf(s) # {} /\ FundIds(s) # {} /\ Length(s) < MinDays}

Shorter(s, t) == Length(s) < Length(t) \/ (Length(s) = Length(t) /\ s < t)

Place(s) == Cardinality({t \in Needy : Shorter(t, s)})

Cut_OneShort(n) == {s \in Needy : Place(s) < n - 1}

Cut(n) == {s \in Needy : Place(s) < n}

StartBackfill(job) ==
  /\ todo[job] = {}
  /\ Needy # {}
  /\ todo' = [todo EXCEPT ![job] =
                {[symbol |-> s, id |-> RowOf(s), place |-> Place(s)] : s \in Cut(MaxFunds)}]
  /\ UNCHANGED <<market, changes, today, universe, sync, funds, history, series>>

\* What get_candlestick has for a symbol: nothing for a name of the past.
Answer(s) == IF market[Owner[s]] = s THEN FirstDay[Owner[s]]..today ELSE {}

IsNext(job, e) == \A f \in todo[job] : e.place <= f.place

Done(job, e) == todo' = [todo EXCEPT ![job] = @ \ {e}]

\* _backfill_fund_history looks for the row once more; the dates of the
\* answer are made Gregorian.
HistoryBackfill(s) ==
  /\ \E e \in todo["history"] :
       e.symbol = s /\ IsNext("history", e) /\ Done("history", e)
  /\ Answer(s) # {}
  /\ FundIds(s) # {}
  /\ Put(RowOf(s), Owner[s], [day : Answer(s), calendar : {"gregorian"}])
  /\ UNCHANGED <<market, changes, today, universe, sync, funds>>

\* _backfill_fund_candlesticks takes the row that was found for the list;
\* the dates stay as they came.
CandlestickBackfill(s) ==
  /\ Answer(s) # {}
  /\ \E e \in todo["candlesticks"] :
       /\ e.symbol = s /\ IsNext("candlesticks", e) /\ Done("candlesticks", e)
       /\ Put(e.id, Owner[s], [day : Answer(s), calendar : {"jalali"}])
  /\ UNCHANGED <<market, changes, today, universe, sync, funds>>

\* No answer, no row of the fund, an error: the job goes on with the next.
SkipFund(job) ==
  /\ \E e \in todo[job] : IsNext(job, e) /\ Done(job, e)
  /\ UNCHANGED <<market, changes, today, universe, sync, funds, history, series>>

FundNext ==
  \/ Listings \/ DayPasses
  \/ \E p \in Syncers : Fetch(p) \/ Save(p) \/ Deactivate(p) \/ SyncDies(p)
  \/ \E i \in Isins : Quote(i)
  \/ \E job \in Jobs : StartBackfill(job) \/ SkipFund(job)
  \/ \E s \in Symbols : HistoryBackfill(s) \/ CandlestickBackfill(s)

FundSpec ==
  /\ FundInit /\ [][FundNext]_fundVars
  /\ WF_fundVars(Fetch(Scheduled)) /\ SF_fundVars(Save(Scheduled)) /\ SF_fundVars(Deactivate(Scheduled))
  /\ WF_fundVars(StartBackfill("history") \/ SkipFund("history"))
  /\ \A s \in Symbols : SF_fundVars(HistoryBackfill(s))

-----------------------------------------------------------------------------
(* Properties                                                              *)

\* However the two transactions of one sync interleave with those of
\* another, working from an older list, and whichever of them are lost: once
\* the exchange stops changing, the active rows become, and stay, the funds
\* it lists, under their present names (universe_store.py:267-286).
UniverseFollowsMarket ==
  <>[](LET list == Entries(market) IN
       Listed(list) # {} =>
         {i \in Isins : universe[i] # Absent /\ universe[i].active /\ universe[i].symbol = list[i]}
           = Listed(list))

\* A renamed fund is looked for by its ISIN in the table of funds; the rows
\* of one fund are nevertheless all prices of that fund.
RowsOfOneFund == \A s \in Symbols : series[s] \subseteq {Owner[s]}

\* The short funds that no answer can fill: too young, or listed no more.
Holding == {s \in Needy : Cardinality(Answer(s)) < MinDays}

Filled(i) ==
  LET s == market[i] IN
  (s \notin Suffixed \cup {Absent} /\ today - FirstDay[i] >= MinDays - 1 /\ FundIds(s) # {}) =>
    Length(s) >= MinDays

\* Every fund with enough trading days is filled sooner or later, whatever a
\* run skips, if the funds that cannot be filled leave one of its places
\* free: the shortest go first, and those never get any longer
\* (history_backfill.py:69).
FundsServed ==
  <>[](Cardinality(Holding) < MaxFunds) => <>[](\A i \in Isins : Filled(i))

\* Without that condition: the funds that cannot be filled may hold every
\* place of every run.
NoneStarves == <>[](\A i \in Isins : Filled(i))

\* The rows of a fund, in the order of their dates, are in the order of
\* their days: text puts every Jalali date before every Gregorian one
\* (core/indicators/engine.py:45).
SeriesInOrder ==
  \A s \in Symbols : \A q, r \in history[s] :
    (q.calendar = "jalali" /\ r.calendar = "gregorian") => q.day < r.day
=============================================================================
