------------------------------ MODULE Rankings ------------------------------
(***************************************************************************)
(* How a ranking comes to the screen: the analysis pipeline                *)
(* (src/core/pipeline/daily_analysis.py), the nightly job                  *)
(* (src/core/pipeline/daily_rank.py), the snapshots they leave             *)
(* (src/services/snapshot/store.py), the provider they ask                 *)
(* (brs_provider, brs_client, reliability, health; localdb_provider), and  *)
(* the two caches above them (rank_loader._CACHE and the bot's own).       *)
(*                                                                         *)
(* A list of quotes is abstracted to where its prices come from and its    *)
(* length, the history table to its newest rows.  Scores, indicators and   *)
(* the wording of reports are left out.  Time is kept as ages, counted in  *)
(* ticks up to the age at which they stop to matter.  The second call of   *)
(* load_rankings, for a ranking whose first and last score are equal, is   *)
(* left out: the cache just filled answers it.                             *)
(***************************************************************************)
EXTENDS Integers, FiniteSets, FiniteSetsExt

CONSTANTS
  Providers,    \* MARKET_DATA_PROVIDER: a subset of {"brs", "localdb"}
  MaxAge,       \* max_age_sec of both caches
  TTL,          \* cache_ttl_seconds of AllSymbols
  Threshold,    \* failures that open the circuit breaker
  Calls,        \* bound: requests a ranking makes after the list, one per fund
  Enough,       \* the 20 rows a snapshot must have
  Target,       \* the 30 rows an offline ranking has at most, and the demo has
  ListSizes,    \* lengths of the provider's list of funds
  None,         \* Python's None, a missing file or row, a provider that is down
  Torn          \* a file cut short

ASSUME RankingsAssumption ==
  /\ {MaxAge, Threshold, Calls, Target} \subseteq Nat
  /\ {TTL, Enough} \subseteq Nat \ {0}
  /\ ListSizes \subseteq Nat
  /\ Enough <= Target

VARIABLES
  provider,     \* the provider of this installation
  feed,         \* the length of the list the API would return, None when down
  failures, open,  \* provider_health of the bot's process
  answered,     \* AllSymbols in the bot's quota cache
  latest,       \* the files under snapshots/latest
  history,      \* the rows of the newest date of the history table
  run,          \* the pipeline of each process
  cache,        \* rank_loader._CACHE
  ranked        \* the bot's _ranked_cache

vars == <<provider, feed, failures, open, answered, latest, history, run, cache, ranked>>

Processes == {"bot", "job"}

OldAge == TTL + 2 * MaxAge

Lengths == ListSizes \cup 0..Target

Quotes == [origin : {"real", "demo"}, n : Lengths]

Files == {"fund_quotes", "daily_ranking"}

Contents == {None, Torn} \cup Quotes

Answers == {None} \cup [rows : Quotes, age : 0..TTL]

Labels == {"live", "offline", "demo"}

Rankings == {None} \cup [origin : {"real", "demo"}, label : Labels, age : 0..MaxAge, old : 0..OldAge]

Steps == {"idle", "discover", "offline", "demo", "history", "calls", "write",
          "writing", "sharing", "quotes", "writing_quotes"}

Runs == [pc : Steps, rows : Quotes, label : Labels, old : 0..OldAge,
         calls : 0..Calls, began : 0..MaxAge]

Idle == [pc |-> "idle", rows |-> [origin |-> "demo", n |-> 0], label |-> "demo", old |-> 0, calls |-> 0, began |-> 0]

Init ==
  /\ provider \in Providers
  /\ feed \in IF provider = "brs" THEN ListSizes \cup {None} ELSE {None}
  /\ failures = 0 /\ open = FALSE
  /\ answered = None
  /\ latest = [f \in Files |-> None]
  /\ history = None
  /\ run = [p \in Processes |-> Idle]
  /\ cache = None /\ ranked = None

Older(a, limit) == IF a < limit THEN a + 1 ELSE limit

\* What is not live has no age that matters, nor has what expired.
AgedData(r, age) ==
  IF r.label = "live" /\ age + 1 < MaxAge THEN Older(r.old, OldAge) ELSE 0

Aged(c) == IF c = None THEN None
           ELSE [c EXCEPT !.age = Older(@, MaxAge), !.old = AgedData(c, c.age)]

Fresh_Always(c, limit) == c # None

Fresh(c, limit) == c # None /\ c.age < limit

Continue(p, r) == run' = [run EXCEPT ![p] = r]

-----------------------------------------------------------------------------
(* The two caches: _get_ranked and load_rankings.                          *)

\* A report asks for the ranking; /refresh does so with force.  What the
\* bot's own cache answers changes nothing.
GetRanked(force) ==
  /\ run["bot"].pc = "idle"
  /\ force \/ ~Fresh(ranked, MaxAge)
  /\ IF Fresh(cache, MaxAge)
     THEN ranked' = [cache EXCEPT !.age = 0] /\ UNCHANGED run
     ELSE /\ Continue("bot", [Idle EXCEPT !.pc = "discover"])
          /\ ranked' = IF force THEN None ELSE ranked
  /\ UNCHANGED <<provider, feed, failures, open, answered, latest, history, cache>>

Keep_DatedAtTheEnd(r) ==
  /\ cache' = [origin |-> r.rows.origin, label |-> r.label, age |-> 0, old |-> r.old]
  /\ ranked' = cache'
  /\ Continue("bot", Idle)

\* The ranking is in both caches, each dated when its function was entered.
Keep(r) ==
  /\ cache' = [origin |-> r.rows.origin, label |-> r.label, age |-> r.began, old |-> r.old]
  /\ ranked' = cache'
  /\ Continue("bot", Idle)

-----------------------------------------------------------------------------
(* The provider, its circuit breaker and its cache.                        *)

Listed(n) == [origin |-> "real", n |-> n]

\* get_all_symbols of localdb: the rows of the last trade date, whatever wrote
\* them.  Their quotes have no date, so saving them dates them today.
Newest == IF history = None THEN [origin |-> "demo", n |-> 0] ELSE history

\* The pipeline has a list; an empty one raises, and load_rankings falls back
\* to a pipeline without a provider, the nightly job saves it.
Discovered(p, rows, old) ==
  LET r == [run[p] EXCEPT !.rows = rows, !.old = old, !.label = "live"]
  IN  Continue(p, IF rows.n > 0 \/ p = "job" THEN [r EXCEPT !.pc = "history"]
                  ELSE [r EXCEPT !.pc = "demo", !.label = "demo"])

Undiscovered_CalledLive(p) ==
  Continue(p, IF p = "job" THEN Idle
              ELSE [run[p] EXCEPT !.pc = "offline", !.label = "live"])

\* Discovery raised: the analysis goes on offline, the nightly job ends.
Undiscovered(p) ==
  Continue(p, IF p = "job" THEN Idle
              ELSE [run[p] EXCEPT !.pc = "offline", !.label = "offline"])

DiscoverLocal(p) ==
  /\ run[p].pc = "discover"
  /\ provider = "localdb"
  /\ Discovered(p, Newest, 0)
  /\ UNCHANGED <<provider, feed, failures, open, answered, latest, history, cache, ranked>>

DiscoverCached ==
  /\ run["bot"].pc = "discover"
  /\ provider = "brs"
  /\ Fresh(answered, TTL)
  /\ Discovered("bot", answered.rows, answered.age)
  /\ UNCHANGED <<provider, feed, failures, open, answered, latest, history, cache, ranked>>

\* One request of the bot through reliable_provider: three attempts count as
\* one failure, and while the breaker is open nothing is sent.
Request(ok) ==
  IF open THEN UNCHANGED <<failures, open>>
  ELSE IF ok THEN failures' = 0 /\ open' = FALSE
  ELSE /\ failures' = Min({failures + 1, Threshold})
       /\ open' = (failures + 1 >= Threshold)

\* The fallback reads a snapshot nobody writes, and None is not a list.
Discover(p) ==
  /\ run[p].pc = "discover"
  /\ provider = "brs"
  /\ p = "bot" => ~Fresh(answered, TTL)
  /\ IF p = "bot" THEN Request(feed # None) ELSE UNCHANGED <<failures, open>>
  /\ IF feed = None \/ (p = "bot" /\ open)
     THEN Undiscovered(p) /\ UNCHANGED answered
     ELSE /\ Discovered(p, Listed(feed), 0)
          /\ answered' = IF p = "bot" THEN [rows |-> Listed(feed), age |-> 0] ELSE answered
  /\ UNCHANGED <<provider, feed, latest, history, cache, ranked>>

\* A candlestick per fund, answered by the cache or the API; whatever it
\* raises is ignored.
AskCandles ==
  /\ run["bot"].pc = "calls"
  /\ IF run["bot"].calls = 0 THEN Continue("bot", [run["bot"] EXCEPT !.pc = "write"])
     ELSE Continue("bot", [run["bot"] EXCEPT !.calls = @ - 1])
  /\ \/ run["bot"].calls > 0 /\ Request(feed # None)
     \/ UNCHANGED <<failures, open>>
  /\ UNCHANGED <<provider, feed, answered, latest, history, cache, ranked>>

-----------------------------------------------------------------------------
(* Snapshots.                                                              *)

Rows(f) == IF latest[f] \in {None, Torn} THEN 0 ELSE latest[f].n

Larger_PrefersRanking ==
  IF Rows("daily_ranking") >= Rows("fund_quotes") THEN "daily_ranking" ELSE "fund_quotes"

\* The longer of the two files, the rows of a ranking dated today, or a
\* universe of thirty funds with invented prices.
Larger == IF Rows("daily_ranking") > Rows("fund_quotes") THEN "daily_ranking" ELSE "fund_quotes"

Offline ==
  IF Rows(Larger) >= Enough THEN [latest[Larger] EXCEPT !.n = Min({@, Target})]
  ELSE [origin |-> "demo", n |-> Target]

LoadOffline ==
  /\ run["bot"].pc \in {"offline", "demo"}
  /\ Continue("bot", [run["bot"] EXCEPT !.pc = "history", !.rows = Offline, !.old = 0,
                    !.calls = IF run["bot"].pc = "offline" /\ provider = "brs" THEN Calls ELSE 0])
  /\ UNCHANGED <<provider, feed, failures, open, answered, latest, history, cache, ranked>>

\* bulk_upsert_quotes overwrites what the table has of the same date.
SaveHistory(p) ==
  /\ run[p].pc = "history"
  /\ history' = IF run[p].rows.n = 0 THEN history ELSE run[p].rows
  /\ Continue(p, [run[p] EXCEPT
       !.pc = IF p = "bot" THEN "calls" ELSE "write",
       !.calls = IF p = "bot" /\ provider = "brs" /\ run[p].label = "live" THEN Calls ELSE @])
  /\ UNCHANGED <<provider, feed, failures, open, answered, latest, cache, ranked>>

\* The step of q once p has opened the ranking: who has it open while another
\* opens it shares it from then on.
Opened(p, q) ==
  CASE q = p -> IF \E o \in Processes \ {p} : run[o].pc \in {"writing", "sharing"}
                THEN "sharing" ELSE "writing"
    [] q # p /\ run[q].pc = "writing" -> "sharing"
    [] OTHER -> run[q].pc

\* save_latest opens the file for writing, which empties it, and fills it.
OpenRanking(p) ==
  /\ run[p].pc = "write"
  /\ latest' = [latest EXCEPT !["daily_ranking"] = Torn]
  /\ run' = [q \in Processes |-> [run[q] EXCEPT !.pc = Opened(p, q)]]
  /\ UNCHANGED <<provider, feed, failures, open, answered, history, cache, ranked>>

OpenQuotes ==
  /\ run["job"].pc = "quotes"
  /\ latest' = [latest EXCEPT !["fund_quotes"] = Torn]
  /\ Continue("job", [run["job"] EXCEPT !.pc = "writing_quotes"])
  /\ UNCHANGED <<provider, feed, failures, open, answered, history, cache, ranked>>

\* Both of two writers of one file may leave what neither wrote.
Filled(p) == IF run[p].pc = "sharing" THEN {run[p].rows, Torn} ELSE {run[p].rows}

WriteRanking(p) ==
  /\ run[p].pc \in {"writing", "sharing"}
  /\ \E c \in Filled(p) : latest' = [latest EXCEPT !["daily_ranking"] = c]
  /\ \/ p = "job" /\ Continue(p, [run[p] EXCEPT !.pc = "quotes"]) /\ UNCHANGED <<cache, ranked>>
     \/ p = "bot" /\ Keep(run[p])
  /\ UNCHANGED <<provider, feed, failures, open, answered, history>>

WriteQuotes(p) ==
  /\ run[p].pc = "writing_quotes"
  /\ latest' = [latest EXCEPT !["fund_quotes"] = run[p].rows]
  /\ Continue(p, Idle)
  /\ UNCHANGED <<provider, feed, failures, open, answered, history, cache, ranked>>

-----------------------------------------------------------------------------
(* The rest of the world.                                                  *)

StartJob ==
  /\ run["job"].pc = "idle"
  /\ Continue("job", [Idle EXCEPT !.pc = "discover"])
  /\ UNCHANGED <<provider, feed, failures, open, answered, latest, history, cache, ranked>>

KillJob ==
  /\ run["job"].pc # "idle"
  /\ Continue("job", Idle)
  /\ UNCHANGED <<provider, feed, failures, open, answered, latest, history, cache, ranked>>

RestartBot ==
  /\ Continue("bot", Idle)
  /\ failures' = 0 /\ open' = FALSE
  /\ answered' = None /\ cache' = None /\ ranked' = None
  /\ UNCHANGED <<provider, feed, latest, history>>

\* The receiver on this host writes the rows of today.
SyncArrives ==
  /\ provider = "localdb"
  /\ \E n \in ListSizes \ {0} : history' = Listed(n)
  /\ UNCHANGED <<provider, feed, failures, open, answered, latest, run, cache, ranked>>

ChangeFeed ==
  /\ provider = "brs"
  /\ feed' \in (ListSizes \cup {None}) \ {feed}
  /\ UNCHANGED <<provider, failures, open, answered, latest, history, run, cache, ranked>>

\* What has expired in the caches of answers and of the bot is as good as gone.
Tick ==
  /\ answered' = IF answered = None \/ answered.age + 1 >= TTL THEN None
                 ELSE [answered EXCEPT !.age = @ + 1]
  /\ cache' = Aged(cache)
  /\ ranked' = IF ranked = None \/ ranked.age + 1 >= MaxAge THEN None ELSE Aged(ranked)
  /\ run' = [run EXCEPT !["bot"] =
       IF @.pc = "idle" THEN @
       ELSE [@ EXCEPT !.old = AgedData(run["bot"], 0), !.began = Older(run["bot"].began, MaxAge)]]
  /\ UNCHANGED <<provider, feed, failures, open, latest, history>>

Pipeline(p) ==
  \/ Discover(p)
  \/ DiscoverLocal(p)
  \/ SaveHistory(p)
  \/ OpenRanking(p)
  \/ WriteRanking(p)

Bot == DiscoverCached \/ LoadOffline \/ AskCandles \/ Pipeline("bot")

Job == \/ Pipeline("job")
       \/ OpenQuotes
       \/ WriteQuotes("job")

Next ==
  \/ Bot
  \/ \E force \in BOOLEAN : GetRanked(force)
  \/ Job
  \/ StartJob
  \/ KillJob
  \/ RestartBot
  \/ SyncArrives
  \/ ChangeFeed
  \/ Tick

\* Users go on asking for reports, a pipeline goes on, time passes.
Fairness ==
  /\ WF_vars(Bot)
  /\ WF_vars(GetRanked(FALSE))
  /\ WF_vars(Tick)

Spec == Init /\ [][Next]_vars /\ Fairness
-----------------------------------------------------------------------------
(* What the caches, the files and the table promise each other.            *)

TypeOK ==
  /\ provider \in Providers /\ feed \in ListSizes \cup {None}
  /\ failures \in 0..Threshold /\ open \in BOOLEAN
  /\ open <=> failures = Threshold
  /\ answered \in Answers /\ cache \in Rankings /\ ranked \in Rankings
  /\ latest \in [Files -> Contents]
  /\ history \in {None} \cup Quotes
  /\ run \in [Processes -> Runs]

\* With the API as provider, a ranking that either cache calls live was made of
\* quotes the API returned, through failures, restarts and fallbacks.
LiveIsReal ==
  provider = "brs" =>
    \A c \in {cache, ranked} : c # None /\ c.label = "live" => c.origin = "real"

\* The three caches add up: what load_rankings answers from its cache was fetched
\* less than TTL + MaxAge ago, what the bot shows less than TTL + 2 MaxAge ago,
\* however long the pipeline took.
LiveIsRecent ==
  /\ Fresh(cache, MaxAge) /\ cache.label = "live" => cache.old <= (TTL - 1) + (MaxAge - 1)
  /\ Fresh(ranked, MaxAge) /\ ranked.label = "live" => ranked.old <= (TTL - 1) + 2 * (MaxAge - 1)

\* An offline pipeline that finds a whole snapshot of real quotes never ranks
\* the invented universe instead, whatever rankings were saved since.
RealSnapshotWins ==
  [][/\ run["bot"].pc \in {"offline", "demo"} /\ run'["bot"].pc = "history"
     /\ Rows("fund_quotes") >= Target /\ latest["fund_quotes"].origin = "real"
     => run'["bot"].rows.origin = "real"]_vars

Serving == provider = "brs" /\ feed \notin {None, 0}

LiveLoaded == cache # None /\ cache.label = "live"

\* Once the API answers for good, the breaker is closed and the bot is no longer
\* restarted, an offline or demo ranking expires and load_rankings has a live one
\* again and again.
LiveAgain == <>[](Serving /\ ~open /\ cache # None) => []<>LiveLoaded

\* Violated.  The documents call a provider whose breaker is open temporarily
\* unavailable; nothing closes the breaker of a bot that is not restarted.
BreakerRecovers == <>[](Serving /\ cache # None) => []<>LiveLoaded

\* Violated.  _ensure_min_history says no synthetic data is made; the invented
\* quotes of an offline run are rows of the history like any other.
HistoryIsReal == history # None => history.origin = "real"
=============================================================================
