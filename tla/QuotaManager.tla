---------------------------- MODULE QuotaManager ----------------------------
(***************************************************************************)
(* The guard in front of the BRS API: BRSQuotaManager.request of           *)
(* services/providers/brs_quota_manager.py, as BrsProvider._quota_request  *)
(* calls it, for one endpoint (each has counters of its own).              *)
(*                                                                         *)
(* Any number of threads call it.  Each critical section of the lock is    *)
(* one action; the fetch, and the sleep before a retry, hold no lock.      *)
(* Counters are increased before each attempt, long after they were        *)
(* checked.  The counters of a day and of a window are only looked at, and *)
(* set back, when a request checks them.                                   *)
(*                                                                         *)
(* Time goes in ticks: what matters is the age of the window, the life     *)
(* left to a cached answer and whether midnight has passed.  Hit, miss and *)
(* error statistics, and the warnings that are only logged, are left out.  *)
(***************************************************************************)
EXTENDS Naturals, FiniteSets

CONSTANTS Threads,       \* threads that call request
          Keys,          \* cache keys: the parameters requests differ in
          DailyBudget,   \* APIConfig.daily_budget
          RateLimit,     \* APIConfig.rate_limit_per_5min
          MaxTries,      \* max_retries + 1
          Window,        \* the length of the rate window, 300 s, in ticks
          DayLength,     \* the length of a day in ticks
          CacheTtl       \* APIConfig.cache_ttl_seconds in ticks

ASSUME ThreadsAssumption == IsFiniteSet(Threads) /\ Threads # {}
ASSUME KeysAssumption == Keys # {}
ASSUME LimitsAssumption == /\ DailyBudget \in Nat \ {0}
                           /\ RateLimit \in Nat \ {0}
                           /\ MaxTries \in Nat \ {0}
ASSUME TimesAssumption == /\ Window \in Nat \ {0}
                          /\ DayLength \in Nat \ {0}
                          /\ CacheTtl \in Nat \ {0}

VARIABLES
  usage,      \* UsageStats of the endpoint
  cache,      \* cache[k]: ticks until _cache[k] expires, 0 if absent or expired
  pending,    \* _pending_requests
  thread,     \* the calls of request
  clock,      \* the time of day
  sent,       \* observer: requests really sent since midnight
  lastSend,   \* observer: ticks since the last one
  moved       \* observer: a reset has moved the start of a window in use

counters == <<usage, moved>>
observers == <<sent, lastSend, moved>>
vars == <<usage, cache, pending, thread, clock, sent, lastSend, moved>>

(* today: requests_today; window: requests_5min; age: now - window_start,  *)
(* which matters up to Window; current: day_start is today.                *)
Usages == [today : Nat, window : Nat, age : 0 .. Window + 1, current : BOOLEAN]

Steps == {"idle", "rate", "lookup", "miss", "try", "wait", "store", "release",
          "denied"}
Calls == [pc : Steps, key : Keys, tries : 0 .. MaxTries]

Init == /\ usage = [today |-> 0, window |-> 0, age |-> 0, current |-> TRUE]
        /\ cache = [k \in Keys |-> 0]
        /\ pending = [k \in Keys |-> 0]
        /\ thread \in [Threads -> {[pc |-> "idle", key |-> k, tries |-> 0] : k \in Keys}]
        /\ clock = 0
        /\ sent = 0
        /\ lastSend = Window + 1
        /\ moved = FALSE

At(t, step) == thread[t].pc = step
Goto(t, step) == thread' = [thread EXCEPT ![t].pc = step]

-----------------------------------------------------------------------------
(* request: the checks *)

(* UsageStats once _check_daily_budget has seen what day it is.            *)
Dated == IF usage.current THEN usage
                          ELSE [usage EXCEPT !.today = 0, !.current = TRUE]

(* Operators named X_Fault are faulty variants of X, which no action uses.  *)
CheckDailyBudget_OneMore(t, k) ==
  /\ At(t, "idle")
  /\ usage' = Dated
  /\ thread' = [thread EXCEPT ![t] =
       [pc |-> IF Dated.today > DailyBudget THEN "denied" ELSE "rate",
        key |-> k, tries |-> 0]]
  /\ UNCHANGED <<cache, pending, clock, observers>>

CheckDailyBudget_StaysStale(t, k) ==
  /\ At(t, "idle")
  /\ usage' = [Dated EXCEPT !.current = usage.current]
  /\ thread' = [thread EXCEPT ![t] =
       [pc |-> IF Dated.today >= DailyBudget THEN "denied" ELSE "rate",
        key |-> k, tries |-> 0]]
  /\ UNCHANGED <<cache, pending, clock, observers>>

CheckDailyBudget_NoRollover(t, k) ==
  /\ At(t, "idle")
  /\ thread' = [thread EXCEPT ![t] =
       [pc |-> IF usage.today >= DailyBudget THEN "denied" ELSE "rate",
        key |-> k, tries |-> 0]]
  /\ UNCHANGED <<usage, cache, pending, clock, observers>>

CheckDailyBudget(t, k) ==
  /\ At(t, "idle")
  /\ usage' = Dated
  /\ thread' = [thread EXCEPT ![t] =
       [pc |-> IF Dated.today >= DailyBudget THEN "denied" ELSE "rate",
        key |-> k, tries |-> 0]]
  /\ UNCHANGED <<cache, pending, clock, observers>>

(* UsageStats once _check_rate_limit has seen what time it is.             *)
Timed == IF usage.age > Window THEN [usage EXCEPT !.window = 0, !.age = 0]
                               ELSE usage

PassRate(t) == /\ At(t, "rate")
               /\ usage' = Timed
               /\ moved' = (moved /\ usage.age <= Window)
               /\ Timed.window < RateLimit
               /\ Goto(t, "lookup")
               /\ UNCHANGED <<cache, pending, clock, sent, lastSend>>

ExceedRate_Restarts(t) ==
  /\ At(t, "rate")
  /\ usage.window >= RateLimit
  /\ usage' = [usage EXCEPT !.age = 0]
  /\ Goto(t, "denied")
  /\ UNCHANGED <<cache, pending, clock, observers>>

(* A window that has expired starts anew and cannot be exceeded.            *)
ExceedRate(t) == /\ At(t, "rate")
                 /\ Timed.window >= RateLimit
                 /\ usage' = Timed
                 /\ Goto(t, "denied")
                 /\ UNCHANGED <<cache, pending, clock, observers>>

(* _get_from_cache: an expired entry, which it deletes, counts as absent.  *)
ReadCache(t) == /\ At(t, "lookup")
                /\ Goto(t, IF cache[thread[t].key] > 0 THEN "idle" ELSE "miss")
                /\ UNCHANGED <<usage, cache, pending, clock, observers>>

(* BrsProvider._quota_request, when a limit was exceeded: it looks into the *)
(* cache, then returns what it found or raises; nothing changes.            *)
FallBack(t) == /\ At(t, "denied")
               /\ Goto(t, "idle")
               /\ UNCHANGED <<usage, cache, pending, clock, observers>>

-----------------------------------------------------------------------------
(* request: the fetch *)

(* The count of simultaneous identical requests is kept but not acted on.  *)
Register(t) == /\ At(t, "miss")
               /\ pending' = [pending EXCEPT ![thread[t].key] = @ + 1]
               /\ Goto(t, "try")
               /\ UNCHANGED <<usage, cache, clock, observers>>

CountAndSend_Alone(t) ==
  /\ At(t, "try") /\ pending[thread[t].key] = 1
  /\ usage' = [usage EXCEPT !.window = @ + 1, !.today = @ + 1]
  /\ thread' = [thread EXCEPT ![t].pc = "wait", ![t].tries = @ + 1]
  /\ sent' = sent + 1
  /\ lastSend' = 0
  /\ UNCHANGED <<cache, pending, clock, moved>>

CountAndSend(t) ==
  /\ At(t, "try")
  /\ usage' = [usage EXCEPT !.window = @ + 1, !.today = @ + 1]
  /\ thread' = [thread EXCEPT ![t].pc = "wait", ![t].tries = @ + 1]
  /\ sent' = sent + 1
  /\ lastSend' = 0
  /\ UNCHANGED <<cache, pending, clock, moved>>

(* The fetcher returns data, returns None, or raises.                       *)
FetchData(t) == /\ At(t, "wait")
                /\ Goto(t, "store")
                /\ UNCHANGED <<usage, cache, pending, clock, observers>>

FetchNothing(t) == /\ At(t, "wait")
                   /\ Goto(t, "release")
                   /\ UNCHANGED <<usage, cache, pending, clock, observers>>

FetchFails_NoFinally(t) ==
  /\ At(t, "wait")
  /\ Goto(t, IF thread[t].tries < MaxTries THEN "try" ELSE "idle")
  /\ UNCHANGED <<usage, cache, pending, clock, observers>>

FetchFails(t) ==
  /\ At(t, "wait")
  /\ Goto(t, IF thread[t].tries < MaxTries THEN "try" ELSE "release")
  /\ UNCHANGED <<usage, cache, pending, clock, observers>>

SetCache(t) == /\ At(t, "store")
               /\ cache' = [cache EXCEPT ![thread[t].key] = CacheTtl]
               /\ Goto(t, "release")
               /\ UNCHANGED <<usage, pending, clock, observers>>

Release(t) == /\ At(t, "release")
              /\ pending' = [pending EXCEPT ![thread[t].key] = @ - 1]
              /\ Goto(t, "idle")
              /\ UNCHANGED <<usage, cache, clock, observers>>

-----------------------------------------------------------------------------
(* The other operations, and time *)

(* reset_daily_counters, for a nightly job: on a new day it also takes now  *)
(* for the start of the window, whose count stays.                          *)
ResetDailyCounters ==
  /\ IF usage.current
     THEN UNCHANGED counters
     ELSE /\ usage' = [Dated EXCEPT !.age = 0]
          /\ moved' = TRUE
  /\ UNCHANGED <<cache, pending, thread, clock, sent, lastSend>>

ClearCache == /\ cache' = [k \in Keys |-> 0]
              /\ UNCHANGED <<usage, pending, thread, clock, observers>>

Older(age) == IF age > Window THEN age ELSE age + 1

Tick ==
  /\ clock' = (clock + 1) % DayLength
  /\ usage' = [usage EXCEPT !.age = Older(@),
                            !.current = @ /\ clock' # 0]
  /\ cache' = [k \in Keys |-> IF cache[k] = 0 THEN 0 ELSE cache[k] - 1]
  /\ sent' = IF clock' = 0 THEN 0 ELSE sent
  /\ lastSend' = Older(lastSend)
  /\ UNCHANGED <<pending, thread, moved>>

Ask(t) == \E k \in Keys : CheckDailyBudget(t, k)

Step(t) == \/ PassRate(t) \/ ExceedRate(t) \/ ReadCache(t) \/ FallBack(t)
           \/ Register(t) \/ CountAndSend(t)
           \/ FetchData(t) \/ FetchNothing(t) \/ FetchFails(t)
           \/ SetCache(t) \/ Release(t)

Next == \/ \E t \in Threads : Ask(t) \/ Step(t)
        \/ ResetDailyCounters
        \/ ClearCache
        \/ Tick

Spec == Init /\ [][Next]_vars

(* The lock is held for short sections and fetches time out, so a call that *)
(* has begun goes on; time passes; and somebody keeps asking for data.      *)
Fairness == /\ \A t \in Threads : WF_vars(Step(t))
            /\ WF_vars(Tick)
            /\ WF_vars(\E t \in Threads : Ask(t))

FairSpec == Spec /\ Fairness

-----------------------------------------------------------------------------
(* Properties *)

(* Type invariant of the counters, the cache and the calls.                 *)
TypeOK == /\ usage \in Usages
          /\ cache \in [Keys -> 0 .. CacheTtl]
          /\ pending \in [Keys -> Nat]
          /\ thread \in [Threads -> Calls]
          /\ clock \in 0 .. DayLength - 1
          /\ sent \in Nat
          /\ lastSend \in 0 .. Window + 1
          /\ moved \in BOOLEAN

(* What the calls in flight can still spend when all of them passed their   *)
(* check: one call of request makes up to MaxTries attempts on one check.   *)
Overshoot == Cardinality(Threads) * MaxTries

(* Checks and increments are in different critical sections and a retry is  *)
(* not checked again, so the limits are exceeded; but each thread exceeds   *)
(* them by the attempts of one call at most, however calls interleave.      *)
LimitsOvershot == /\ usage.today <= DailyBudget - 1 + Overshoot
                  /\ usage.window <= RateLimit - 1 + Overshoot

(* Attempts made after midnight by calls that were checked before it are    *)
(* forgotten when the counter is set back: what is really sent in one day   *)
(* exceeds the budget by two overshoots at most.                            *)
SentInDay == sent <= DailyBudget - 1 + 2 * Overshoot

Fetching(t, k) == /\ thread[t].key = k
                  /\ thread[t].pc \in {"try", "wait", "store", "release"}

(* The deduplication count of a key is the number of calls fetching it, on  *)
(* every way out of a fetch.                                                *)
PendingIsInFlight ==
  \A k \in Keys : pending[k] = Cardinality({t \in Threads : Fetching(t, k)})

(* A call is refused for its rate only if requests were sent during the     *)
(* last window, unless a nightly reset has moved the start of the window.   *)
RefusedWhenBusy ==
  [][\A t \in Threads :
       At(t, "rate") /\ thread'[t].pc = "denied" /\ ~moved => lastSend <= Window]_vars

(* Violated without the exception: the reset starts a window at now and      *)
(* keeps the count of the last one (brs_quota_manager.py:271).               *)
RefusedWhenSent ==
  [][\A t \in Threads :
       At(t, "rate") /\ thread'[t].pc = "denied" => lastSend <= Window]_vars

(* Every call returns or raises.                                            *)
CallEnds == \A t \in Threads : ~At(t, "idle") ~> At(t, "idle")

(* An exhausted budget comes back, without the nightly job.                 *)
BudgetComesBack == usage.today >= DailyBudget ~> usage.today < DailyBudget
=============================================================================
