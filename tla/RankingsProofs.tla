--------------------------- MODULE RankingsProofs ---------------------------
(***************************************************************************)
(* Proofs about what the caches call live and what an offline pipeline      *)
(* reads, for any ages, limits, sizes and numbers of requests.              *)
(***************************************************************************)
EXTENDS Rankings, TLAPS

Row == [origin : {"real", "demo"}, n : Nat]

Pipe == [pc : Steps, rows : Row, label : Labels, old : Nat, calls : Nat, began : Nat]

Kept == [origin : {"real", "demo"}, label : Labels, age : Nat, old : Nat]

(* The variables the two properties rest on have the shape of records; the  *)
(* bounds of their numbers do not matter here.                              *)
Shape ==
  /\ feed \in ListSizes \cup {None}
  /\ answered \in {None} \cup [rows : Row, age : Nat]
  /\ latest \in [Files -> {None, Torn} \cup Row]
  /\ history \in {None} \cup Row
  /\ run \in [Processes -> Pipe]
  /\ cache \in {None} \cup Kept
  /\ ranked \in {None} \cup Kept

(* No run is called live before it has a list, which with the API as        *)
(* provider is a list of the API.                                           *)
RunsReal ==
  /\ \A p \in Processes : run[p].pc \in {"offline", "demo"} => run[p].label # "live"
  /\ provider = "brs" =>
       /\ answered # None => answered.rows.origin = "real"
       /\ \A p \in Processes : run[p].label = "live" => run[p].rows.origin = "real"

(* The age of data, where it can still be shown: what came out of the quota *)
(* cache, and the time since the run began, the entry was made, and made    *)
(* again above.                                                             *)
Dated ==
  /\ \A p \in Processes : run[p].label = "live" /\ run[p].began < MaxAge =>
       run[p].old <= (TTL - 1) + run[p].began
  /\ cache # None /\ cache.label = "live" /\ cache.age < MaxAge =>
       cache.old <= (TTL - 1) + cache.age
  /\ ranked # None /\ ranked.label = "live" /\ ranked.age < MaxAge =>
       ranked.old <= (TTL - 1) + (MaxAge - 1) + ranked.age

IInv == Shape /\ RunsReal /\ LiveIsReal /\ Dated

LEMMA OlderIs ==
  ASSUME NEW a \in Nat, NEW limit \in Nat
  PROVE  Older(a, limit) \in Nat /\ Older(a, limit) <= a + 1
         /\ (Older(a, limit) = a + 1 \/ Older(a, limit) = limit)
  BY DEF Older

LEMMA LeastIs ==
  ASSUME NEW a \in Nat, NEW b \in Nat
  PROVE  Min({a, b}) \in Nat
<1>1. \E x \in {a, b} : \A y \in {a, b} : x <= y
  OBVIOUS
<1> QED
  BY <1>1 DEF Min

LEMMA AgesAreNat == MaxAge \in Nat /\ TTL \in Nat /\ TTL > 0 /\ OldAge \in Nat
BY RankingsAssumption DEF OldAge

(* A tick makes an entry older, and its data with it as long as it can be   *)
(* shown.                                                                   *)
LEMMA AgedIs ==
  ASSUME NEW c \in {None} \cup Kept, NEW bound \in Int,
         c # None /\ c.label = "live" /\ c.age < MaxAge => c.old <= bound + c.age
  PROVE  /\ Aged(c) \in {None} \cup Kept
         /\ Aged(c) # None => c # None /\ Aged(c).label = c.label /\ Aged(c).origin = c.origin
         /\ Aged(c) # None /\ Aged(c).label = "live" /\ Aged(c).age < MaxAge =>
              Aged(c).old <= bound + Aged(c).age
<1>1. CASE c = None
  BY <1>1 DEF Aged
<1>2. CASE c # None
  <2>1. c \in Kept /\ c.age \in Nat /\ c.old \in Nat
    BY <1>2 DEF Kept
  <2> DEFINE age == Older(c.age, MaxAge)
             old == AgedData(c, c.age)
  <2>2. age \in Nat /\ (age = c.age + 1 \/ age = MaxAge)
    BY <2>1, OlderIs, AgesAreNat
  <2>3. old \in Nat /\ (c.age + 1 < MaxAge => old <= c.old + 1)
    <3>1. Older(c.old, OldAge) \in Nat /\ Older(c.old, OldAge) <= c.old + 1
      BY <2>1, OlderIs, AgesAreNat
    <3>2. old = Older(c.old, OldAge) \/ old = 0
      BY DEF AgedData
    <3> QED
      BY <2>1, <3>1, <3>2
  <2>4. Aged(c) = [c EXCEPT !.age = age, !.old = old]
    BY <1>2 DEF Aged
  <2> HIDE DEF age, old
  <2>5. Aged(c) \in Kept /\ Aged(c).label = c.label /\ Aged(c).origin = c.origin
        /\ Aged(c).age = age /\ Aged(c).old = old
    BY <2>1, <2>2, <2>3, <2>4 DEF Kept
  <2>6. c.label = "live" /\ age < MaxAge => old <= bound + age
    BY <1>2, <2>1, <2>2, <2>3, AgesAreNat
  <2> QED
    BY <1>2, <2>5, <2>6
<1> QED
  BY <1>1, <1>2

LEMMA InitHolds == Init => IInv
<1>1. Idle \in Pipe /\ Idle.label = "demo" /\ Idle.pc = "idle"
  BY DEF Idle, Pipe, Steps, Labels, Row
<1> QED
  BY <1>1 DEF Init, IInv, Shape, RunsReal, LiveIsReal, Dated

(* A step of a pipeline that touches its run alone: what must be shown of   *)
(* the new run.                                                             *)
RunGood(r) ==
  /\ r \in Pipe
  /\ r.pc \in {"offline", "demo"} => r.label # "live"
  /\ provider = "brs" /\ r.label = "live" => r.rows.origin = "real"
  /\ r.label = "live" /\ r.began < MaxAge => r.old <= (TTL - 1) + r.began

LEMMA RunsAreGood == ASSUME IInv, NEW p \in Processes PROVE RunGood(run[p])
BY DEF IInv, Shape, RunsReal, Dated, RunGood

LEMMA RunKeeps ==
  ASSUME IInv, NEW p \in Processes, NEW r, RunGood(r), Continue(p, r),
         UNCHANGED <<provider, feed, cache, ranked>>,
         answered' \in {None} \cup [rows : Row, age : Nat],
         provider = "brs" /\ answered' # None => answered'.rows.origin = "real",
         latest' \in [Files -> {None, Torn} \cup Row],
         history' \in {None} \cup Row
  PROVE  IInv'
<1>1. run' \in [Processes -> Pipe] /\ \A q \in Processes : run'[q] = IF q = p THEN r ELSE run[q]
  BY DEF Continue, IInv, Shape, RunGood
<1>2. Shape'
  BY <1>1 DEF IInv, Shape
<1>3. RunsReal'
  BY <1>1 DEF IInv, RunsReal, RunGood
<1>4. Dated'
  BY <1>1 DEF IInv, Dated, RunGood
<1> QED
  BY <1>2, <1>3, <1>4 DEF IInv, LiveIsReal

(* What the variables beside the runs are, for the steps that keep them.    *)
LEMMA RestIsGood ==
  IInv => /\ feed \in ListSizes \cup {None}
          /\ answered \in {None} \cup [rows : Row, age : Nat]
          /\ provider = "brs" /\ answered # None => answered.rows.origin = "real"
          /\ latest \in [Files -> {None, Torn} \cup Row]
          /\ history \in {None} \cup Row
BY DEF IInv, Shape, RunsReal

(* A run that has found a list of quotes.                                   *)
LEMMA DiscoveredKeeps ==
  ASSUME IInv, NEW p \in Processes, NEW rows \in Row, NEW old \in Nat, old <= TTL - 1,
         provider = "brs" => rows.origin = "real", Discovered(p, rows, old)
  PROVE  \E r : RunGood(r) /\ Continue(p, r)
<1>1. RunGood(run[p])
  BY RunsAreGood
<1> DEFINE r == [run[p] EXCEPT !.rows = rows, !.old = old, !.label = "live"]
           found == [r EXCEPT !.pc = "history"]
           empty == [r EXCEPT !.pc = "demo", !.label = "demo"]
<1>2. r \in Pipe /\ r.rows = rows /\ r.old = old /\ r.label = "live" /\ r.began \in Nat
  BY <1>1 DEF RunGood, Pipe, Labels
<1>3. Continue(p, found) \/ Continue(p, empty)
  BY DEF Discovered
<1> HIDE DEF r
<1>4. found \in Pipe /\ found.pc = "history" /\ found.rows = rows /\ found.old = old
      /\ found.began \in Nat
  BY <1>2 DEF Pipe, Steps
<1>5. empty \in Pipe /\ empty.label = "demo"
  BY <1>2 DEF Pipe, Steps, Labels
<1> HIDE DEF found, empty
<1>6. RunGood(found)
  BY <1>4, AgesAreNat DEF RunGood
<1>7. RunGood(empty)
  BY <1>5 DEF RunGood
<1> QED
  BY <1>3, <1>6, <1>7

(* A run that goes on with the same rows, from a step with a list.          *)
LEMMA GoesOnGood ==
  ASSUME NEW r, RunGood(r), NEW pc \in Steps, pc \notin {"offline", "demo"}, NEW calls \in Nat
  PROVE  RunGood([r EXCEPT !.pc = pc]) /\ RunGood([r EXCEPT !.pc = pc, !.calls = calls])
         /\ RunGood([r EXCEPT !.calls = calls])
<1>1. \A q \in {[r EXCEPT !.pc = pc], [r EXCEPT !.pc = pc, !.calls = calls]} :
        q \in Pipe /\ q.pc = pc /\ q.label = r.label /\ q.rows = r.rows /\ q.old = r.old
        /\ q.began = r.began
  BY DEF RunGood, Pipe
<1>2. \A q \in {[r EXCEPT !.calls = calls]} :
        q \in Pipe /\ q.pc = r.pc /\ q.label = r.label /\ q.rows = r.rows /\ q.old = r.old
        /\ q.began = r.began
  BY DEF RunGood, Pipe
<1> QED
  BY <1>1, <1>2 DEF RunGood

LEMMA IdleIsGood == RunGood(Idle) /\ RunGood([Idle EXCEPT !.pc = "discover"])
BY DEF RunGood, Idle, Pipe, Steps, Labels, Row

LEMMA GetRankedKeeps == ASSUME IInv, NEW force \in BOOLEAN, GetRanked(force) PROVE IInv'
<1>1. CASE Fresh(cache, MaxAge)
  <2>1. cache \in Kept /\ cache.age < MaxAge
    BY <1>1 DEF Fresh, IInv, Shape
  <2>2. ranked' = [cache EXCEPT !.age = 0]
        /\ UNCHANGED <<provider, feed, answered, latest, history, run, cache>>
    BY <1>1 DEF GetRanked
  <2>3. ranked' \in Kept /\ ranked'.label = cache.label /\ ranked'.origin = cache.origin
        /\ ranked'.age = 0 /\ ranked'.old = cache.old
    BY <2>1, <2>2 DEF Kept
  <2>4. cache # None
    BY <1>1 DEF Fresh
  <2>5. cache.label = "live" => cache.old <= (TTL - 1) + (MaxAge - 1)
    BY <2>1, <2>4, AgesAreNat DEF IInv, Dated, Kept
  <2>6. Shape' /\ RunsReal' /\ LiveIsReal'
    BY <2>2, <2>3, <2>4 DEF IInv, Shape, RunsReal, LiveIsReal
  <2>7. Dated'
    <3>1. cache.old \in Nat /\ TTL - 1 \in Int /\ MaxAge - 1 \in Int
      BY <2>1, AgesAreNat DEF Kept
    <3> QED
      BY <2>2, <2>3, <2>5, <3>1 DEF IInv, Dated
  <2> QED
    BY <2>6, <2>7 DEF IInv
<1>2. CASE ~Fresh(cache, MaxAge)
  <2>1. Continue("bot", [Idle EXCEPT !.pc = "discover"]) /\ ranked' \in {None, ranked}
        /\ UNCHANGED <<provider, feed, answered, latest, history, cache>>
    BY <1>2 DEF GetRanked
  <2> DEFINE r == [Idle EXCEPT !.pc = "discover"]
  <2>2. RunGood(r)
    BY IdleIsGood
  <2> HIDE DEF r
  <2>3. "bot" \in Processes
    BY DEF Processes
  <2>4. run' \in [Processes -> Pipe] /\ \A q \in Processes : run'[q] = IF q = "bot" THEN r ELSE run[q]
    BY <2>1, <2>2, <2>3 DEF Continue, IInv, Shape, RunGood, r
  <2>5. Shape' /\ LiveIsReal'
    BY <2>1, <2>4 DEF IInv, Shape, LiveIsReal
  <2>6. RunsReal' /\ Dated'
    BY <2>1, <2>2, <2>4 DEF IInv, RunsReal, Dated, RunGood
  <2> QED
    BY <2>5, <2>6 DEF IInv
<1> QED
  BY <1>1, <1>2


LEMMA ListedIsRow ==
  ASSUME NEW n \in ListSizes PROVE Listed(n) \in Row /\ Listed(n).origin = "real"
BY RankingsAssumption DEF Listed, Row

LEMMA DiscoverKeeps == ASSUME IInv, NEW p \in Processes, Discover(p) PROVE IInv'
<1>1. RunGood(run[p])
  BY RunsAreGood
<1>2. CASE feed = None \/ (p = "bot" /\ open)
  <2> DEFINE r == [run[p] EXCEPT !.pc = "offline", !.label = "offline"]
  <2>1. Continue(p, Idle) \/ Continue(p, r)
    BY <1>2 DEF Discover, Undiscovered
  <2>2. r \in Pipe /\ r.label = "offline"
    BY <1>1 DEF RunGood, Pipe, Steps, Labels
  <2> HIDE DEF r
  <2>3. RunGood(r)
    BY <2>2 DEF RunGood
  <2>4. UNCHANGED <<provider, feed, answered, latest, history, cache, ranked>>
    BY <1>2 DEF Discover
  <2> QED
    BY <2>1, <2>3, <2>4, IdleIsGood, RunKeeps, RestIsGood
<1>3. CASE ~(feed = None \/ (p = "bot" /\ open))
  <2>1. Listed(feed) \in Row /\ Listed(feed).origin = "real"
    BY <1>3, RestIsGood, ListedIsRow
  <2>2. Discovered(p, Listed(feed), 0)
        /\ answered' \in {answered, [rows |-> Listed(feed), age |-> 0]}
        /\ UNCHANGED <<provider, feed, latest, history, cache, ranked>>
    BY <1>3 DEF Discover
  <2>3. PICK r : RunGood(r) /\ Continue(p, r)
    BY <2>1, <2>2, DiscoveredKeeps, AgesAreNat
  <2>4. answered' \in {None} \cup [rows : Row, age : Nat]
        /\ (provider = "brs" /\ answered' # None => answered'.rows.origin = "real")
    BY <2>1, <2>2, RestIsGood
  <2> QED
    BY <2>2, <2>3, <2>4, RunKeeps, RestIsGood
<1> QED
  BY <1>2, <1>3

LEMMA DiscoverLocalKeeps == ASSUME IInv, NEW p \in Processes, DiscoverLocal(p) PROVE IInv'
<1>1. Newest \in Row /\ 0 \in Nat
  BY RestIsGood DEF Newest, Row
<1>2. Discovered(p, Newest, 0) /\ provider # "brs"
  BY DEF DiscoverLocal
<1>3. PICK r : RunGood(r) /\ Continue(p, r)
  BY <1>1, <1>2, DiscoveredKeeps, AgesAreNat
<1> QED
  BY <1>3, RunKeeps, RestIsGood DEF DiscoverLocal

LEMMA DiscoverCachedKeeps == ASSUME IInv, DiscoverCached PROVE IInv'
<1>1. answered # None /\ answered.age < TTL /\ Discovered("bot", answered.rows, answered.age)
      /\ "bot" \in Processes
  BY DEF DiscoverCached, Fresh, Processes
<1>2. answered.rows \in Row /\ answered.age \in Nat
      /\ (provider = "brs" => answered.rows.origin = "real")
  BY <1>1, RestIsGood
<1>3. answered.age <= TTL - 1
  BY <1>1, <1>2, AgesAreNat
<1>4. PICK r : RunGood(r) /\ Continue("bot", r)
  BY <1>1, <1>2, <1>3, DiscoveredKeeps
<1> QED
  BY <1>1, <1>4, RunKeeps, RestIsGood DEF DiscoverCached

LEMMA AskCandlesKeeps == ASSUME IInv, AskCandles PROVE IInv'
<1>1. "bot" \in Processes /\ RunGood(run["bot"])
  BY RunsAreGood DEF Processes
<1>2. run["bot"].calls \in Nat /\ run["bot"].calls # 0 => run["bot"].calls - 1 \in Nat
  BY <1>1 DEF RunGood, Pipe
<1>3. PICK r : RunGood(r) /\ Continue("bot", r)
  <2> DEFINE last == [run["bot"] EXCEPT !.pc = "write"]
             more == [run["bot"] EXCEPT !.calls = @ - 1]
  <2>1. Continue("bot", last) \/ (run["bot"].calls # 0 /\ Continue("bot", more))
    BY DEF AskCandles
  <2>2. RunGood(last)
    BY <1>1, GoesOnGood DEF Steps
  <2>3. run["bot"].calls # 0 => RunGood(more)
    <3> SUFFICES ASSUME run["bot"].calls # 0 PROVE RunGood(more)
      OBVIOUS
    <3> DEFINE n == run["bot"].calls - 1
    <3>1. n \in Nat /\ more = [run["bot"] EXCEPT !.calls = n]
      BY <1>1, <1>2 DEF RunGood, Pipe
    <3> HIDE DEF n, more
    <3> QED
      BY <1>1, <3>1, GoesOnGood DEF Steps
  <2> HIDE DEF last, more
  <2> QED
    BY <2>1, <2>2, <2>3
<1> QED
  BY <1>1, <1>3, RunKeeps, RestIsGood DEF AskCandles


LEMMA OfflineIsRow == ASSUME IInv PROVE Offline \in Row
<1>1. CASE Rows(Larger) >= Enough
  <2>1. Larger \in Files /\ latest[Larger] \in Row
    BY <1>1, RestIsGood, RankingsAssumption DEF Rows, Larger, Files
  <2>2. Min({latest[Larger].n, Target}) \in Nat
    BY <2>1, LeastIs, RankingsAssumption DEF Row
  <2> DEFINE n == Min({latest[Larger].n, Target})
  <2>3. Offline = [latest[Larger] EXCEPT !.n = n]
    BY <1>1 DEF Offline
  <2> HIDE DEF n
  <2>4. n \in Nat
    BY <2>2 DEF n
  <2> QED
    BY <2>1, <2>3, <2>4 DEF Row
<1>2. CASE ~(Rows(Larger) >= Enough)
  BY <1>2, RankingsAssumption DEF Offline, Row
<1> QED
  BY <1>1, <1>2

LEMMA LoadOfflineKeeps == ASSUME IInv, LoadOffline PROVE IInv'
<1>1. "bot" \in Processes /\ RunGood(run["bot"]) /\ run["bot"].label # "live"
  BY RunsAreGood DEF Processes, LoadOffline, RunGood
<1> DEFINE calls == IF run["bot"].pc = "offline" /\ provider = "brs" THEN Calls ELSE 0
           rows == Offline
           r == [run["bot"] EXCEPT !.pc = "history", !.rows = rows, !.old = 0, !.calls = calls]
<1>2. calls \in Nat /\ rows \in Row
  BY OfflineIsRow, RankingsAssumption
<1>3. Continue("bot", r)
  BY DEF LoadOffline
<1> HIDE DEF calls, rows
<1>4. r \in Pipe /\ r.label = run["bot"].label
  BY <1>1, <1>2 DEF RunGood, Pipe, Steps
<1> HIDE DEF r
<1>5. RunGood(r)
  BY <1>1, <1>4 DEF RunGood
<1> QED
  BY <1>1, <1>3, <1>5, RunKeeps, RestIsGood DEF LoadOffline

LEMMA SaveHistoryKeeps == ASSUME IInv, NEW p \in Processes, SaveHistory(p) PROVE IInv'
<1>1. RunGood(run[p]) /\ run[p].rows \in Row /\ run[p].calls \in Nat
  BY RunsAreGood DEF RunGood, Pipe
<1> DEFINE pc == IF p = "bot" THEN "calls" ELSE "write"
           calls == IF p = "bot" /\ provider = "brs" /\ run[p].label = "live"
                    THEN Calls ELSE run[p].calls
<1>2. pc \in Steps /\ pc \notin {"offline", "demo"} /\ calls \in Nat
  BY <1>1, RankingsAssumption DEF Steps
<1>3. run' = [run EXCEPT ![p] = [run[p] EXCEPT !.pc = pc, !.calls = calls]]
  BY <1>1 DEF SaveHistory, Continue, RunGood, Pipe
<1> HIDE DEF pc, calls
<1>4. RunGood([run[p] EXCEPT !.pc = pc, !.calls = calls])
  BY <1>1, <1>2, GoesOnGood
<1>5. history' \in {None} \cup Row
  BY <1>1, RestIsGood DEF SaveHistory
<1>6. Continue(p, [run[p] EXCEPT !.pc = pc, !.calls = calls])
  BY <1>3 DEF Continue
<1> QED
  BY <1>4, <1>5, <1>6, RunKeeps, RestIsGood DEF SaveHistory

(* Opening the ranking leaves every run as it is but for its step.          *)
LEMMA OpenedRuns ==
  ASSUME IInv, NEW p \in Processes, OpenRanking(p), NEW q \in Processes
  PROVE  \/ run'[q] = run[q]
         \/ \E pc \in Steps \ {"offline", "demo"} : run'[q] = [run[q] EXCEPT !.pc = pc]
<1> DEFINE pc == Opened(p, q)
<1>1. run'[q] = [run[q] EXCEPT !.pc = pc]
  BY DEF OpenRanking
<1>2. pc \in {"writing", "sharing"} \/ pc = run[q].pc
  BY DEF Opened
<1> HIDE DEF pc
<1>3. run[q] \in Pipe
  BY DEF IInv, Shape
<1>4. CASE pc = run[q].pc
  BY <1>1, <1>3, <1>4 DEF Pipe
<1>5. CASE pc \in {"writing", "sharing"}
  BY <1>1, <1>5 DEF Steps
<1> QED
  BY <1>2, <1>4, <1>5

LEMMA OpenRankingKeeps == ASSUME IInv, NEW p \in Processes, OpenRanking(p) PROVE IInv'
<1>1. ASSUME NEW q \in Processes PROVE RunGood(run'[q])
  <2>1. RunGood(run[q])
    BY RunsAreGood
  <2>2. ASSUME NEW pc \in Steps \ {"offline", "demo"} PROVE RunGood([run[q] EXCEPT !.pc = pc])
    BY <2>1, GoesOnGood
  <2> QED
    BY <2>1, <2>2, OpenedRuns
<1>2. run' = [q \in Processes |-> run'[q]]
  BY DEF OpenRanking
<1>3. run' \in [Processes -> Pipe]
  BY <1>1, <1>2 DEF RunGood
<1>4. latest' \in [Files -> {None, Torn} \cup Row]
  BY RestIsGood DEF OpenRanking
<1>5. UNCHANGED <<provider, feed, answered, history, cache, ranked>>
  BY DEF OpenRanking
<1>6. Shape'
  BY <1>3, <1>4, <1>5 DEF IInv, Shape
<1>7. RunsReal'
  BY <1>1, <1>5 DEF IInv, RunsReal, RunGood
<1>8. Dated'
  BY <1>1, <1>5 DEF IInv, Dated, RunGood
<1> QED
  BY <1>5, <1>6, <1>7, <1>8 DEF IInv, LiveIsReal

LEMMA OpenQuotesKeeps == ASSUME IInv, OpenQuotes PROVE IInv'
<1>1. "job" \in Processes
  BY DEF Processes
<1>2. RunGood([run["job"] EXCEPT !.pc = "writing_quotes"])
  BY <1>1, RunsAreGood, GoesOnGood DEF Steps
<1>3. latest' \in [Files -> {None, Torn} \cup Row]
  BY RestIsGood DEF OpenQuotes
<1> QED
  BY <1>1, <1>2, <1>3, RunKeeps, RestIsGood DEF OpenQuotes

LEMMA FilledIs == ASSUME IInv, NEW p \in Processes, NEW c \in Filled(p) PROVE c \in {None, Torn} \cup Row
BY RunsAreGood DEF Filled, RunGood, Pipe

LEMMA WriteRankingKeeps == ASSUME IInv, NEW p \in Processes, WriteRanking(p) PROVE IInv'
<1>1. RunGood(run[p])
  BY RunsAreGood
<1>2. latest' \in [Files -> {None, Torn} \cup Row]
  BY RestIsGood, FilledIs DEF WriteRanking, Files
<1>3. CASE p = "job"
  <2>1. RunGood([run[p] EXCEPT !.pc = "quotes"])
    BY <1>1, GoesOnGood DEF Steps
  <2> QED
    BY <1>2, <1>3, <2>1, RunKeeps, RestIsGood DEF WriteRanking
<1>4. CASE p = "bot"
  <2> DEFINE r == run["bot"]
             kept == [origin |-> r.rows.origin, label |-> r.label, age |-> r.began, old |-> r.old]
  <2>1. cache' = kept /\ ranked' = kept /\ Continue("bot", Idle)
    BY <1>4 DEF WriteRanking, Keep
  <2>2. kept \in Kept
    BY <1>1, <1>4 DEF RunGood, Pipe, Row, Kept
  <2>3. kept.label = "live" /\ kept.age < MaxAge => kept.old <= (TTL - 1) + kept.age
    BY <1>1, <1>4 DEF RunGood
  <2>4. provider = "brs" /\ kept.label = "live" => kept.origin = "real"
    BY <1>1, <1>4 DEF RunGood
  <2> HIDE DEF kept
  <2>5. kept.label = "live" /\ kept.age < MaxAge => kept.old <= (TTL - 1) + (MaxAge - 1) + kept.age
    BY <2>2, <2>3, AgesAreNat DEF Kept
  <2>6. UNCHANGED <<provider, feed, answered, history>>
    BY DEF WriteRanking
  <2>7. run' \in [Processes -> Pipe] /\ \A q \in Processes : run'[q] = IF q = "bot" THEN Idle ELSE run[q]
    BY <1>4, <2>1, IdleIsGood DEF Continue, IInv, Shape, RunGood
  <2>8. Shape' /\ LiveIsReal'
    BY <1>2, <2>1, <2>2, <2>4, <2>6, <2>7 DEF IInv, Shape, LiveIsReal
  <2>9. RunsReal'
    BY <2>6, <2>7, IdleIsGood DEF IInv, RunsReal, RunGood
  <2>10. Dated'
    BY <2>1, <2>3, <2>5, <2>7, IdleIsGood DEF IInv, Dated, RunGood
  <2> QED
    BY <2>8, <2>9, <2>10 DEF IInv
<1> QED
  BY <1>3, <1>4 DEF Processes

LEMMA WriteQuotesKeeps == ASSUME IInv, NEW p \in Processes, WriteQuotes(p) PROVE IInv'
<1>1. run[p].rows \in Row
  BY RunsAreGood DEF RunGood, Pipe
<1>2. latest' \in [Files -> {None, Torn} \cup Row]
  BY <1>1, RestIsGood DEF WriteQuotes
<1> QED
  BY <1>2, IdleIsGood, RunKeeps, RestIsGood DEF WriteQuotes


LEMMA RestartKeeps == ASSUME IInv, RestartBot PROVE IInv'
<1>1. "bot" \in Processes
  BY DEF Processes
<1>2. run' \in [Processes -> Pipe] /\ \A q \in Processes : run'[q] = IF q = "bot" THEN Idle ELSE run[q]
  BY <1>1, IdleIsGood DEF RestartBot, Continue, IInv, Shape, RunGood
<1> QED
  BY <1>2, IdleIsGood DEF RestartBot, IInv, Shape, RunsReal, LiveIsReal, Dated, RunGood

LEMMA TickKeeps == ASSUME IInv, Tick PROVE IInv'
<1>1. "bot" \in Processes /\ RunGood(run["bot"])
  BY RunsAreGood DEF Processes
<1> DEFINE old == AgedData(run["bot"], 0)
           began == Older(run["bot"].began, MaxAge)
           r == IF run["bot"].pc = "idle" THEN run["bot"]
                ELSE [run["bot"] EXCEPT !.old = old, !.began = began]
<1>2. RunGood(r)
  <2>1. run["bot"].old \in Nat /\ run["bot"].began \in Nat
    BY <1>1 DEF RunGood, Pipe
  <2>2. began \in Nat /\ (began = run["bot"].began + 1 \/ began = MaxAge)
    BY <2>1, OlderIs, AgesAreNat
  <2>3. Older(run["bot"].old, OldAge) \in Nat /\ Older(run["bot"].old, OldAge) <= run["bot"].old + 1
    BY <2>1, OlderIs, AgesAreNat
  <2>4. old = Older(run["bot"].old, OldAge) \/ old = 0
    BY DEF AgedData
  <2>5. old \in Nat /\ old <= run["bot"].old + 1
    BY <2>1, <2>3, <2>4
  <2> DEFINE aged == [run["bot"] EXCEPT !.old = old, !.began = began]
  <2> HIDE DEF old, began
  <2>6. aged \in Pipe /\ aged.pc = run["bot"].pc /\ aged.label = run["bot"].label
        /\ aged.rows = run["bot"].rows /\ aged.old = old /\ aged.began = began
    BY <1>1, <2>2, <2>5 DEF RunGood, Pipe
  <2>7. run["bot"].label = "live" /\ began < MaxAge => old <= (TTL - 1) + began
    BY <1>1, <2>1, <2>2, <2>5, AgesAreNat DEF RunGood
  <2> HIDE DEF aged
  <2>8. RunGood(aged)
    BY <1>1, <2>6, <2>7 DEF RunGood
  <2> QED
    BY <1>1, <2>8 DEF aged
<1>3. run' = [run EXCEPT !["bot"] = r]
  BY <1>1 DEF Tick, IInv, Shape
<1> HIDE DEF r
<1>4. run' \in [Processes -> Pipe] /\ \A q \in Processes : run'[q] = IF q = "bot" THEN r ELSE run[q]
  BY <1>1, <1>2, <1>3 DEF IInv, Shape, RunGood
<1>5. answered' \in {None} \cup [rows : Row, age : Nat]
      /\ (answered' # None => answered # None /\ answered'.rows = answered.rows)
  <2>1. CASE answered = None \/ answered.age + 1 >= TTL
    BY <2>1 DEF Tick
  <2>2. CASE ~(answered = None \/ answered.age + 1 >= TTL)
    <3> DEFINE age == answered.age + 1
    <3>1. answered \in [rows : Row, age : Nat] /\ age \in Nat
      BY <2>2, RestIsGood
    <3>2. answered' = [answered EXCEPT !.age = age]
      BY <2>2 DEF Tick
    <3> HIDE DEF age
    <3> QED
      BY <2>2, <3>1, <3>2
  <2> QED
    BY <2>1, <2>2
<1>6. /\ cache' \in {None} \cup Kept
      /\ cache' # None => cache # None /\ cache'.label = cache.label /\ cache'.origin = cache.origin
      /\ cache' # None /\ cache'.label = "live" /\ cache'.age < MaxAge =>
           cache'.old <= (TTL - 1) + cache'.age
  <2>1. TTL - 1 \in Int
    BY AgesAreNat
  <2>2. cache' = Aged(cache)
    BY DEF Tick
  <2> QED
    BY <2>1, <2>2, AgedIs DEF IInv, Shape, Dated
<1>7. /\ ranked' \in {None} \cup Kept
      /\ ranked' # None => ranked # None /\ ranked'.label = ranked.label /\ ranked'.origin = ranked.origin
      /\ ranked' # None /\ ranked'.label = "live" /\ ranked'.age < MaxAge =>
           ranked'.old <= (TTL - 1) + (MaxAge - 1) + ranked'.age
  <2>1. (TTL - 1) + (MaxAge - 1) \in Int
    BY AgesAreNat
  <2>2. CASE ranked' = None
    BY <2>2 DEF Kept
  <2>3. CASE ranked' = Aged(ranked)
    BY <2>1, <2>3, AgedIs DEF IInv, Shape, Dated
  <2> QED
    BY <2>2, <2>3 DEF Tick
<1>8. UNCHANGED <<provider, feed, latest, history>>
  BY DEF Tick
<1>9. Shape' /\ LiveIsReal'
  BY <1>4, <1>5, <1>6, <1>7, <1>8 DEF IInv, Shape, LiveIsReal
<1>10. RunsReal'
  BY <1>2, <1>4, <1>5, <1>8 DEF IInv, RunsReal, RunGood
<1>11. Dated'
  BY <1>2, <1>4, <1>6, <1>7 DEF IInv, Dated, RunGood
<1> QED
  BY <1>9, <1>10, <1>11 DEF IInv

LEMMA StepKeeps == IInv /\ [Next]_vars => IInv'
<1> SUFFICES ASSUME IInv, [Next]_vars PROVE IInv'
  OBVIOUS
<1>1. ASSUME NEW p \in Processes, Pipeline(p) PROVE IInv'
  <2>1. CASE Discover(p)
    BY <2>1, DiscoverKeeps
  <2>2. CASE DiscoverLocal(p)
    BY <2>2, DiscoverLocalKeeps
  <2>3. CASE SaveHistory(p)
    BY <2>3, SaveHistoryKeeps
  <2>4. CASE OpenRanking(p)
    BY <2>4, OpenRankingKeeps
  <2>5. CASE WriteRanking(p)
    BY <2>5, WriteRankingKeeps
  <2> QED
    BY <1>1, <2>1, <2>2, <2>3, <2>4, <2>5 DEF Pipeline
<1>2. "bot" \in Processes /\ "job" \in Processes
  BY DEF Processes
<1>3. CASE Bot
  BY <1>1, <1>2, <1>3, DiscoverCachedKeeps, LoadOfflineKeeps, AskCandlesKeeps DEF Bot
<1>4. CASE Job
  BY <1>1, <1>2, <1>4, OpenQuotesKeeps, WriteQuotesKeeps DEF Job
<1>5. CASE \E force \in BOOLEAN : GetRanked(force)
  BY <1>5, GetRankedKeeps
<1>6. CASE StartJob
  BY <1>2, <1>6, IdleIsGood, RunKeeps, RestIsGood DEF StartJob
<1>7. CASE KillJob
  BY <1>2, <1>7, IdleIsGood, RunKeeps, RestIsGood DEF KillJob
<1>8. CASE RestartBot
  BY <1>8, RestartKeeps
<1>9. CASE SyncArrives
  <2>1. history' \in Row
    BY <1>9, ListedIsRow DEF SyncArrives
  <2> QED
    BY <1>9, <2>1 DEF SyncArrives, IInv, Shape, RunsReal, LiveIsReal, Dated
<1>10. CASE ChangeFeed
  BY <1>10 DEF ChangeFeed, IInv, Shape, RunsReal, LiveIsReal, Dated
<1>11. CASE Tick
  BY <1>11, TickKeeps
<1>12. CASE UNCHANGED vars
  BY <1>12 DEF vars, IInv, Shape, RunsReal, LiveIsReal, Dated
<1> QED
  BY <1>3, <1>4, <1>5, <1>6, <1>7, <1>8, <1>9, <1>10, <1>11, <1>12 DEF Next

(* rank_loader.py, daily_analysis.py: no cache calls anything live that is  *)
(* not, and every run and entry is dated.                                   *)
THEOREM Invariance == Spec => []IInv
<1>1. Init => IInv
  BY InitHolds
<1>2. IInv /\ [Next]_vars => IInv'
  BY StepKeeps
<1> QED
  BY <1>1, <1>2, PTL DEF Spec

(* daily_analysis.py:81: with the API as provider nothing but quotes of the *)
(* API is ever shown as live, through outages, restarts, jobs that are      *)
(* killed and invented rows in every file and table.                        *)
THEOREM LiveStaysReal == Spec => []LiveIsReal
<1>1. IInv => LiveIsReal
  BY DEF IInv
<1> QED
  BY <1>1, Invariance, PTL

(* rank_loader.py:27: however long a run takes and whichever of the three   *)
(* caches answers, live data on the screen is younger than the sum of their *)
(* limits.                                                                  *)
THEOREM LiveStaysRecent == Spec => []LiveIsRecent
<1>1. IInv => LiveIsRecent
  <2> SUFFICES ASSUME IInv PROVE LiveIsRecent
    OBVIOUS
  <2>1. Fresh(cache, MaxAge) /\ cache.label = "live" => cache.old <= (TTL - 1) + (MaxAge - 1)
    <3> SUFFICES ASSUME Fresh(cache, MaxAge), cache.label = "live"
                 PROVE  cache.old <= (TTL - 1) + (MaxAge - 1)
      OBVIOUS
    <3>1. cache \in Kept /\ cache.age < MaxAge /\ cache.old <= (TTL - 1) + cache.age
      BY DEF Fresh, IInv, Shape, Dated
    <3> QED
      BY <3>1, AgesAreNat DEF Kept
  <2>2. Fresh(ranked, MaxAge) /\ ranked.label = "live" => ranked.old <= (TTL - 1) + 2 * (MaxAge - 1)
    <3> SUFFICES ASSUME Fresh(ranked, MaxAge), ranked.label = "live"
                 PROVE  ranked.old <= (TTL - 1) + 2 * (MaxAge - 1)
      OBVIOUS
    <3>1. ranked \in Kept /\ ranked.age < MaxAge
          /\ ranked.old <= (TTL - 1) + (MaxAge - 1) + ranked.age
      BY DEF Fresh, IInv, Shape, Dated
    <3> QED
      BY <3>1, AgesAreNat DEF Kept
  <2> QED
    BY <2>1, <2>2 DEF LiveIsRecent
<1> QED
  BY <1>1, Invariance, PTL

-----------------------------------------------------------------------------
(* What the offline pipeline reads.  Nothing longer than the invented       *)
(* universe was invented: such rows can only have come in a list of the     *)
(* provider, and are copied whole from file to run and back.                *)
Long(rows) == rows.n > Target => rows.origin = "real"

LongIsReal ==
  /\ \A p \in Processes : Long(run[p].rows)
  /\ \A f \in Files : latest[f] \notin {None, Torn} => Long(latest[f])
  /\ history # None => Long(history)
  /\ answered # None => Long(answered.rows)

SInv == IInv /\ LongIsReal

LEMMA IdleIsLong == Long(Idle.rows) /\ Long([Idle EXCEPT !.pc = "discover"].rows)
BY RankingsAssumption DEF Long, Idle

LEMMA ListedIsLong == ASSUME NEW n PROVE Long(Listed(n))
BY DEF Long, Listed

LEMMA InitIsLong == Init => LongIsReal
BY IdleIsLong DEF Init, LongIsReal

(* A run that goes on with other rows, or the same, while the files, the    *)
(* table and the cache of answers stay.                                     *)
LEMMA RunIsLong ==
  ASSUME SInv, NEW p \in Processes, NEW r, Long(r.rows), Continue(p, r),
         UNCHANGED <<latest, history, answered>>
  PROVE  LongIsReal'
<1>1. \A q \in Processes : run'[q] = IF q = p THEN r ELSE run[q]
  BY DEF Continue, SInv, IInv, Shape
<1> QED
  BY <1>1 DEF SInv, LongIsReal, Long

LEMMA DiscoveredIsLong ==
  ASSUME SInv, NEW p \in Processes, NEW rows, NEW old, Long(rows), Discovered(p, rows, old)
  PROVE  \E r : Long(r.rows) /\ Continue(p, r)
<1> DEFINE r == [run[p] EXCEPT !.rows = rows, !.old = old, !.label = "live"]
           found == [r EXCEPT !.pc = "history"]
           empty == [r EXCEPT !.pc = "demo", !.label = "demo"]
<1>1. run[p] \in Pipe
  BY DEF SInv, IInv, Shape
<1>2. found.rows = rows /\ empty.rows = rows
  BY <1>1 DEF Pipe
<1>3. Continue(p, found) \/ Continue(p, empty)
  BY DEF Discovered
<1> HIDE DEF found, empty
<1> QED
  BY <1>2, <1>3

LEMMA UndiscoveredIsLong ==
  ASSUME SInv, NEW p \in Processes, Undiscovered(p)
  PROVE  \E r : Long(r.rows) /\ Continue(p, r)
<1> DEFINE r == [run[p] EXCEPT !.pc = "offline", !.label = "offline"]
<1>1. run[p] \in Pipe /\ Long(run[p].rows)
  BY DEF SInv, IInv, Shape, LongIsReal
<1>2. Long(r.rows)
  BY <1>1 DEF Pipe
<1>3. Continue(p, r) \/ Continue(p, Idle)
  BY DEF Undiscovered
<1> HIDE DEF r
<1> QED
  BY <1>2, <1>3, IdleIsLong

LEMMA DiscoverIsLong == ASSUME SInv, NEW p \in Processes, Discover(p) PROVE LongIsReal'
<1>1. CASE feed = None \/ (p = "bot" /\ open)
  <2>1. Undiscovered(p) /\ UNCHANGED <<latest, history, answered>>
    BY <1>1 DEF Discover
  <2> QED
    BY <2>1, UndiscoveredIsLong, RunIsLong
<1>2. CASE ~(feed = None \/ (p = "bot" /\ open))
  <2>1. Discovered(p, Listed(feed), 0) /\ UNCHANGED <<latest, history>>
        /\ answered' = IF p = "bot" THEN [rows |-> Listed(feed), age |-> 0] ELSE answered
    BY <1>2 DEF Discover
  <2>2. PICK r : Long(r.rows) /\ Continue(p, r)
    BY <2>1, ListedIsLong, DiscoveredIsLong
  <2>3. \A q \in Processes : run'[q] = IF q = p THEN r ELSE run[q]
    BY <2>2 DEF Continue, SInv, IInv, Shape
  <2>4. answered' # None => Long(answered'.rows)
    BY <2>1, ListedIsLong DEF SInv, LongIsReal
  <2> QED
    BY <2>1, <2>2, <2>3, <2>4 DEF SInv, LongIsReal, Long
<1> QED
  BY <1>1, <1>2

LEMMA OfflineIsLong == SInv => Long(Offline)
<1> SUFFICES ASSUME SInv PROVE Long(Offline)
  OBVIOUS
<1>1. CASE Rows(Larger) >= Enough
  <2>1. Larger \in Files /\ latest[Larger] \in Row /\ latest[Larger].n \in Nat
    BY <1>1, RestIsGood, RankingsAssumption DEF SInv, Rows, Larger, Files, Row
  <2>2. Min({latest[Larger].n, Target}) <= Target
    <3>1. \E x \in {latest[Larger].n, Target} : \A y \in {latest[Larger].n, Target} : x <= y
      BY <2>1, RankingsAssumption
    <3> QED
      BY <3>1, <2>1, RankingsAssumption DEF Min
  <2> DEFINE n == Min({latest[Larger].n, Target})
  <2>3. Offline = [latest[Larger] EXCEPT !.n = n]
    BY <1>1 DEF Offline
  <2>4. n \in Nat /\ n <= Target
    BY <2>1, <2>2, LeastIs, RankingsAssumption
  <2> HIDE DEF n
  <2> QED
    BY <2>1, <2>3, <2>4, RankingsAssumption DEF Row, Long
<1>2. CASE ~(Rows(Larger) >= Enough)
  BY <1>2, RankingsAssumption DEF Offline, Long
<1> QED
  BY <1>1, <1>2

LEMMA LoadOfflineIsLong == ASSUME SInv, LoadOffline PROVE LongIsReal'
<1> DEFINE rows == Offline
           calls == IF run["bot"].pc = "offline" /\ provider = "brs" THEN Calls ELSE 0
           r == [run["bot"] EXCEPT !.pc = "history", !.rows = rows, !.old = 0, !.calls = calls]
<1>1. Continue("bot", r) /\ "bot" \in Processes /\ UNCHANGED <<latest, history, answered>>
  BY DEF LoadOffline, Processes
<1>2. Long(rows)
  BY OfflineIsLong
<1>3. run["bot"] \in Pipe
  BY <1>1 DEF SInv, IInv, Shape
<1> HIDE DEF rows, calls
<1>4. r.rows = rows
  BY <1>3 DEF Pipe
<1> HIDE DEF r
<1> QED
  BY <1>1, <1>2, <1>4, RunIsLong

(* A step of a run that keeps its rows and leaves the rest alone.           *)
LEMMA SameRowsAreLong ==
  ASSUME SInv, NEW p \in Processes, NEW r, r.rows = run[p].rows, Continue(p, r),
         UNCHANGED <<latest, history, answered>>
  PROVE  LongIsReal'
BY RunIsLong DEF SInv, LongIsReal, Long

LEMMA TickIsLong == ASSUME SInv, Tick PROVE LongIsReal'
<1> DEFINE old == AgedData(run["bot"], 0)
           began == Older(run["bot"].began, MaxAge)
           aged == [run["bot"] EXCEPT !.old = old, !.began = began]
<1>1. UNCHANGED <<latest, history>> /\ run["bot"] \in Pipe /\ run \in [Processes -> Pipe]
      /\ "bot" \in Processes
  BY DEF Tick, SInv, IInv, Shape, Processes
<1>2. run' = [run EXCEPT !["bot"] = IF run["bot"].pc = "idle" THEN run["bot"] ELSE aged]
  BY <1>1 DEF Tick
<1> HIDE DEF old, began
<1>3. aged.rows = run["bot"].rows
  BY <1>1 DEF Pipe
<1> HIDE DEF aged
<1>4. \A p \in Processes : run'[p].rows = run[p].rows
  BY <1>1, <1>2, <1>3
<1>5. answered' # None => answered # None /\ answered'.rows = answered.rows
  <2>1. CASE answered = None \/ answered.age + 1 >= TTL
    BY <2>1 DEF Tick
  <2>2. CASE ~(answered = None \/ answered.age + 1 >= TTL)
    <3> DEFINE age == answered.age + 1
    <3>1. answered \in [rows : Row, age : Nat]
      BY <2>2, RestIsGood DEF SInv
    <3>2. answered' = [answered EXCEPT !.age = age]
      BY <2>2 DEF Tick
    <3> HIDE DEF age
    <3> QED
      BY <2>2, <3>1, <3>2
  <2> QED
    BY <2>1, <2>2
<1> QED
  BY <1>1, <1>4, <1>5 DEF SInv, LongIsReal, Long

LEMMA WriteRankingIsLong ==
  ASSUME SInv, NEW p \in Processes, WriteRanking(p) PROVE LongIsReal'
<1>1. run[p] \in Pipe /\ latest \in [Files -> {None, Torn} \cup Row] /\ run \in [Processes -> Pipe]
  BY DEF SInv, IInv, Shape
<1>2. PICK c \in Filled(p) : latest' = [latest EXCEPT !["daily_ranking"] = c]
  BY DEF WriteRanking
<1>3. c = Torn \/ c = run[p].rows
  BY <1>2 DEF Filled
<1>4. \A f \in Files : latest'[f] \notin {None, Torn} => Long(latest'[f])
  BY <1>1, <1>2, <1>3 DEF SInv, LongIsReal, Long
<1>5. \E r : Long(r.rows) /\ Continue(p, r)
  <2>1. CASE p = "bot"
    BY <2>1, IdleIsLong DEF WriteRanking, Keep
  <2>2. CASE p = "job"
    <3> DEFINE r == [run[p] EXCEPT !.pc = "quotes"]
    <3>1. Continue(p, r)
      BY <2>2 DEF WriteRanking
    <3>2. r.rows = run[p].rows
      BY <1>1 DEF Pipe
    <3> HIDE DEF r
    <3> QED
      BY <3>1, <3>2 DEF SInv, LongIsReal, Long
  <2> QED
    BY <2>1, <2>2 DEF Processes
<1>6. PICK r : Long(r.rows) /\ Continue(p, r)
  BY <1>5
<1>7. \A q \in Processes : run'[q] = IF q = p THEN r ELSE run[q]
  BY <1>1, <1>6 DEF Continue
<1>8. UNCHANGED <<history, answered>>
  BY DEF WriteRanking
<1> QED
  BY <1>4, <1>6, <1>7, <1>8 DEF SInv, LongIsReal, Long

LEMMA WriteQuotesIsLong ==
  ASSUME SInv, NEW p \in Processes, WriteQuotes(p) PROVE LongIsReal'
<1>1. latest' = [latest EXCEPT !["fund_quotes"] = run[p].rows] /\ Continue(p, Idle)
      /\ UNCHANGED <<history, answered>>
  BY DEF WriteQuotes
<1>2. \A q \in Processes : run'[q] = IF q = p THEN Idle ELSE run[q]
  BY <1>1 DEF Continue, SInv, IInv, Shape
<1>3. \A f \in Files : latest'[f] \notin {None, Torn} => Long(latest'[f])
  BY <1>1 DEF SInv, IInv, Shape, LongIsReal, Long
<1> QED
  BY <1>1, <1>2, <1>3, IdleIsLong DEF SInv, LongIsReal, Long

LEMMA OpenRankingIsLong ==
  ASSUME SInv, NEW p \in Processes, OpenRanking(p) PROVE LongIsReal'
<1>1. \A q \in Processes : run[q] \in Pipe
  BY DEF SInv, IInv, Shape
<1>2. \A q \in Processes : run'[q].rows = run[q].rows
  BY <1>1, OpenedRuns DEF SInv, Pipe
<1>3. latest' = [latest EXCEPT !["daily_ranking"] = Torn] /\ UNCHANGED <<history, answered>>
  BY DEF OpenRanking
<1> QED
  BY <1>2, <1>3 DEF SInv, IInv, Shape, LongIsReal, Long

LEMMA OpenQuotesIsLong == ASSUME SInv, OpenQuotes PROVE LongIsReal'
<1> DEFINE r == [run["job"] EXCEPT !.pc = "writing_quotes"]
<1>1. latest' = [latest EXCEPT !["fund_quotes"] = Torn] /\ Continue("job", r)
      /\ UNCHANGED <<history, answered>>
  BY DEF OpenQuotes
<1>2. r.rows = run["job"].rows
  BY DEF SInv, IInv, Shape, Pipe, Processes
<1> HIDE DEF r
<1>3. \A q \in Processes : run'[q].rows = run[q].rows
  BY <1>1, <1>2 DEF Continue, SInv, IInv, Shape
<1> QED
  BY <1>1, <1>3 DEF SInv, IInv, Shape, LongIsReal, Long

LEMMA SaveHistoryIsLong ==
  ASSUME SInv, NEW p \in Processes, SaveHistory(p) PROVE LongIsReal'
<1> DEFINE pc == IF p = "bot" THEN "calls" ELSE "write"
           calls == IF p = "bot" /\ provider = "brs" /\ run[p].label = "live"
                    THEN Calls ELSE run[p].calls
           r == [run[p] EXCEPT !.pc = pc, !.calls = calls]
<1>1. run[p] \in Pipe /\ run \in [Processes -> Pipe]
  BY DEF SInv, IInv, Shape
<1>2. run' = [run EXCEPT ![p] = r]
  BY <1>1 DEF SaveHistory, Continue, Pipe
<1> HIDE DEF pc, calls
<1>3. r.rows = run[p].rows
  BY <1>1 DEF Pipe
<1> HIDE DEF r
<1>4. \A q \in Processes : run'[q].rows = run[q].rows
  BY <1>1, <1>2, <1>3
<1>5. history' = history \/ history' = run[p].rows
  BY DEF SaveHistory
<1>6. UNCHANGED <<latest, answered>>
  BY DEF SaveHistory
<1> QED
  BY <1>4, <1>5, <1>6 DEF SInv, LongIsReal, Long

LEMMA AskCandlesIsLong == ASSUME SInv, AskCandles PROVE LongIsReal'
<1> DEFINE last == [run["bot"] EXCEPT !.pc = "write"]
           more == [run["bot"] EXCEPT !.calls = @ - 1]
<1>1. "bot" \in Processes /\ run["bot"] \in Pipe
  BY DEF SInv, IInv, Shape, Processes
<1>2. (Continue("bot", last) \/ Continue("bot", more)) /\ UNCHANGED <<latest, history, answered>>
  BY DEF AskCandles
<1>3. last.rows = run["bot"].rows /\ more.rows = run["bot"].rows
  BY <1>1 DEF Pipe
<1> HIDE DEF last, more
<1> QED
  BY <1>1, <1>2, <1>3, SameRowsAreLong

LEMMA LongStepKeeps == ASSUME SInv, [Next]_vars PROVE LongIsReal'
<1>1. ASSUME NEW p \in Processes, Pipeline(p) PROVE LongIsReal'
  <2>1. CASE Discover(p)
    BY <2>1, DiscoverIsLong
  <2>2. CASE DiscoverLocal(p)
    <3>1. Long(Newest)
      BY RankingsAssumption DEF Newest, SInv, LongIsReal, Long
    <3>2. Discovered(p, Newest, 0) /\ UNCHANGED <<latest, history, answered>>
      BY <2>2 DEF DiscoverLocal
    <3> QED
      BY <3>1, <3>2, DiscoveredIsLong, RunIsLong
  <2>3. CASE SaveHistory(p)
    BY <2>3, SaveHistoryIsLong
  <2>4. CASE OpenRanking(p)
    BY <2>4, OpenRankingIsLong
  <2>5. CASE WriteRanking(p)
    BY <2>5, WriteRankingIsLong
  <2> QED
    BY <1>1, <2>1, <2>2, <2>3, <2>4, <2>5 DEF Pipeline
<1>2. "bot" \in Processes /\ "job" \in Processes
  BY DEF Processes
<1>3. CASE Bot
  <2>1. CASE DiscoverCached
    <3>1. Long(answered.rows) /\ Discovered("bot", answered.rows, answered.age)
          /\ UNCHANGED <<latest, history, answered>>
      BY <2>1 DEF DiscoverCached, Fresh, SInv, LongIsReal
    <3> QED
      BY <1>2, <3>1, DiscoveredIsLong, RunIsLong
  <2> QED
    BY <1>1, <1>2, <1>3, <2>1, LoadOfflineIsLong, AskCandlesIsLong DEF Bot
<1>4. CASE Job
  BY <1>1, <1>2, <1>4, OpenQuotesIsLong, WriteQuotesIsLong DEF Job
<1>5. CASE \E force \in BOOLEAN : GetRanked(force)
  <2>1. UNCHANGED run \/ Continue("bot", [Idle EXCEPT !.pc = "discover"])
    BY <1>5 DEF GetRanked
  <2>2. UNCHANGED <<latest, history, answered>>
    BY <1>5 DEF GetRanked
  <2>3. CASE UNCHANGED run
    BY <2>2, <2>3 DEF SInv, LongIsReal, Long
  <2> QED
    BY <1>2, <2>1, <2>2, <2>3, IdleIsLong, RunIsLong
<1>6. CASE StartJob
  BY <1>2, <1>6, IdleIsLong, RunIsLong DEF StartJob
<1>7. CASE KillJob
  BY <1>2, <1>7, IdleIsLong, RunIsLong DEF KillJob
<1>8. CASE RestartBot
  <2>1. \A q \in Processes : run'[q] = IF q = "bot" THEN Idle ELSE run[q]
    BY <1>2, <1>8 DEF RestartBot, Continue, SInv, IInv, Shape
  <2> QED
    BY <1>8, <2>1, IdleIsLong DEF RestartBot, SInv, LongIsReal, Long
<1>9. CASE SyncArrives
  <2>1. Long(history') /\ UNCHANGED <<latest, run, answered>>
    BY <1>9, ListedIsLong DEF SyncArrives
  <2> QED
    BY <2>1 DEF SInv, LongIsReal, Long
<1>10. CASE ChangeFeed
  BY <1>10 DEF ChangeFeed, SInv, LongIsReal, Long
<1>11. CASE Tick
  BY <1>11, TickIsLong
<1>12. CASE UNCHANGED vars
  BY <1>12 DEF vars, SInv, LongIsReal, Long
<1> QED
  BY <1>3, <1>4, <1>5, <1>6, <1>7, <1>8, <1>9, <1>10, <1>11, <1>12 DEF Next

(* Only LoadOffline takes a run of the bot from the snapshots to a list: no *)
(* other step finds the bot there and leaves it at "history".               *)
LEMMA OnlyLoadOffline ==
  ASSUME SInv, [Next]_vars, run["bot"].pc \in {"offline", "demo"}, run'["bot"].pc = "history"
  PROVE  LoadOffline
<1>1. run \in [Processes -> Pipe] /\ "bot" \in Processes /\ "job" \in Processes
      /\ "job" # "bot"
  BY DEF SInv, IInv, Shape, Processes
<1>2. run'["bot"] # run["bot"]
  OBVIOUS
<1>3. ASSUME NEW r, Continue("job", r) PROVE FALSE
  BY <1>1, <1>2, <1>3 DEF Continue
<1>4. ASSUME NEW p \in Processes, Pipeline(p) PROVE FALSE
  <2>1. CASE OpenRanking(p)
    <3>1. Opened(p, "bot") # "history"
      BY DEF Opened
    <3>2. run'["bot"] = [run["bot"] EXCEPT !.pc = Opened(p, "bot")]
      BY <1>1, <2>1 DEF OpenRanking
    <3>3. run'["bot"].pc = Opened(p, "bot")
      BY <1>1, <3>2 DEF Pipe
    <3> QED
      BY <3>1, <3>3
  <2>2. CASE p = "bot"
    BY <1>4, <2>1, <2>2 DEF Pipeline, Discover, DiscoverLocal, SaveHistory, WriteRanking
  <2>3. CASE p = "job" /\ ~OpenRanking(p)
    <3>1. \E r : Continue("job", r)
      BY <1>4, <2>3 DEF Pipeline, Discover, Discovered, Undiscovered, DiscoverLocal,
         SaveHistory, WriteRanking
    <3> QED
      BY <3>1, <1>3
  <2> QED
    BY <2>1, <2>2, <2>3 DEF Processes
<1>5. CASE Bot
  BY <1>1, <1>4, <1>5 DEF Bot, DiscoverCached, AskCandles
<1>6. CASE \E force \in BOOLEAN : GetRanked(force)
  BY <1>6 DEF GetRanked
<1>7. CASE Job
  BY <1>1, <1>3, <1>4, <1>7 DEF Job, OpenQuotes, WriteQuotes
<1>8. CASE RestartBot
  <2>1. run'["bot"] = Idle
    BY <1>1, <1>8 DEF RestartBot, Continue
  <2> QED
    BY <2>1 DEF Idle
<1>9. CASE Tick
  <2> DEFINE old == AgedData(run["bot"], 0)
             began == Older(run["bot"].began, MaxAge)
             aged == [run["bot"] EXCEPT !.old = old, !.began = began]
  <2>1. run'["bot"] = run["bot"] \/ run'["bot"] = aged
    BY <1>1, <1>9 DEF Tick
  <2> HIDE DEF old, began
  <2>2. aged.pc = run["bot"].pc
    BY <1>1 DEF Pipe
  <2> HIDE DEF aged
  <2> QED
    BY <2>1, <2>2
<1> QED
  BY <1>2, <1>3, <1>5, <1>6, <1>7, <1>8, <1>9
  DEF Next, StartJob, KillJob, SyncArrives, ChangeFeed, vars

(* daily_analysis.py:328: of two whole files the longer one is read, and a  *)
(* ranking longer than the target was not made of invented rows.            *)
LEMMA LoadsReal ==
  ASSUME SInv, LoadOffline, Rows("fund_quotes") >= Target, latest["fund_quotes"].origin = "real"
  PROVE  run'["bot"].rows.origin = "real"
<1>1. Rows("fund_quotes") \in Nat /\ Rows("daily_ranking") \in Nat
      /\ (\A f \in Files : Rows(f) # 0 => latest[f] \notin {None, Torn} /\ Rows(f) = latest[f].n
            /\ latest[f] \in Row)
  BY DEF SInv, IInv, Shape, Files, Rows, Row
<1>2. Rows(Larger) >= Target /\ Larger \in Files
  BY <1>1, RankingsAssumption DEF Larger, Files
<1>3. Rows(Larger) >= Enough /\ Rows(Larger) # 0 /\ Rows(Larger) \in Nat
  BY <1>1, <1>2, RankingsAssumption DEF Larger
<1>4. latest[Larger] \in Row /\ latest[Larger].origin = "real"
  <2>1. CASE Larger = "fund_quotes"
    BY <1>1, <1>2, <1>3, <2>1
  <2>2. CASE Larger # "fund_quotes"
    <3>1. Larger = "daily_ranking" /\ Rows("daily_ranking") > Target
      BY <1>1, <2>2, RankingsAssumption DEF Larger
    <3>2. Long(latest["daily_ranking"]) /\ latest["daily_ranking"].n > Target
      BY <1>1, <1>2, <1>3, <3>1 DEF SInv, LongIsReal
    <3> QED
      BY <1>1, <1>2, <1>3, <3>1, <3>2 DEF Long
  <2> QED
    BY <2>1, <2>2
<1> DEFINE n == Min({latest[Larger].n, Target})
           rows == Offline
           calls == IF run["bot"].pc = "offline" /\ provider = "brs" THEN Calls ELSE 0
           r == [run["bot"] EXCEPT !.pc = "history", !.rows = rows, !.old = 0, !.calls = calls]
<1>5. rows = [latest[Larger] EXCEPT !.n = n]
  BY <1>3 DEF Offline
<1>6. Continue("bot", r)
  BY DEF LoadOffline
<1> HIDE DEF n, rows, calls
<1>7. rows.origin = "real"
  BY <1>4, <1>5 DEF Row
<1>8. run["bot"] \in Pipe /\ run \in [Processes -> Pipe] /\ "bot" \in Processes
  BY DEF SInv, IInv, Shape, Processes
<1>9. r.rows = rows
  BY <1>8 DEF Pipe
<1> HIDE DEF r
<1> QED
  BY <1>6, <1>7, <1>8, <1>9 DEF Continue

(* daily_analysis.py:300-330: a pipeline without a provider that finds a    *)
(* whole file of real quotes ranks real quotes, whatever rankings of        *)
(* invented rows were saved beside it.                                      *)
THEOREM RealSnapshotIsRead == Spec => RealSnapshotWins
<1>1. Init => SInv
  BY InitHolds, InitIsLong DEF SInv
<1>2. SInv /\ [Next]_vars => SInv'
  BY StepKeeps, LongStepKeeps DEF SInv
<1>3. Spec => []SInv
  BY <1>1, <1>2, PTL DEF Spec
<1> DEFINE Wins ==
  run["bot"].pc \in {"offline", "demo"} /\ run'["bot"].pc = "history"
     /\ Rows("fund_quotes") >= Target /\ latest["fund_quotes"].origin = "real"
     => run'["bot"].rows.origin = "real"
<1>4. SInv /\ [Next]_vars => [Wins]_vars
  BY OnlyLoadOffline, LoadsReal
<1> QED
  BY <1>3, <1>4, PTL DEF Spec, RealSnapshotWins

=============================================================================
