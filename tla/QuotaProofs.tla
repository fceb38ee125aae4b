----------------------------- MODULE QuotaProofs -----------------------------
(***************************************************************************)
(* Proofs about the quota manager, for any number of threads and any       *)
(* limits: how far the limits can be exceeded.                             *)
(***************************************************************************)
EXTENDS QuotaManager, FiniteSetTheorems, TLAPS

(* An attempt that a call may still make is a pair: the call and the number *)
(* of the attempt.  Sets of such pairs are what the limits are measured by. *)
Pairs == Threads \X (1 .. MaxTries)

Left(steps) == {p \in Pairs : /\ thread[p[1]].pc \in steps
                              /\ thread[p[1]].tries < p[2]}

AfterRate == {"lookup", "miss", "try", "wait"}
DayLeft == Left({"rate"} \cup AfterRate)
RateLeft == Left(AfterRate)

InFlight(k) == {t \in Threads : Fetching(t, k)}

(* Where a call is says how many attempts it can have made.                 *)
TriesFit == \A t \in Threads :
  /\ thread[t].pc \in {"rate", "lookup", "miss"} => thread[t].tries = 0
  /\ thread[t].pc = "try" => thread[t].tries < MaxTries

TInv == TypeOK /\ TriesFit /\ PendingIsInFlight

(* What was spent and what can still be spent, together, are bounded; and   *)
(* what was sent since midnight was counted, or was left over at midnight.  *)
SpendInv == /\ usage.today + Cardinality(DayLeft) <= DailyBudget - 1 + Overshoot
            /\ usage.window + Cardinality(RateLeft) <= RateLimit - 1 + Overshoot
            /\ usage.current => sent <= usage.today + Overshoot
            /\ ~usage.current => sent + Cardinality(DayLeft) <= Overshoot

-----------------------------------------------------------------------------
(* Sets of attempts and of threads *)

LEMMA PairSets ==
  ASSUME NEW S \in SUBSET Pairs
  PROVE  /\ IsFiniteSet(S) /\ Cardinality(S) \in Nat
         /\ Overshoot \in Nat /\ Cardinality(S) <= Overshoot
         /\ \A R \in SUBSET S : Cardinality(R) <= Cardinality(S)
         /\ \A p \in S : Cardinality(S \ {p}) = Cardinality(S) - 1
<1>1. IsFiniteSet(1 .. MaxTries) /\ Cardinality(1 .. MaxTries) = MaxTries
  BY FS_Interval, LimitsAssumption
<1>2. IsFiniteSet(Pairs) /\ Cardinality(Pairs) = Overshoot
  BY <1>1, FS_Product, ThreadsAssumption DEF Pairs, Overshoot
<1>3. IsFiniteSet(S) /\ Cardinality(S) <= Overshoot
  BY <1>2, FS_Subset
<1>4. Cardinality(S) \in Nat /\ Overshoot \in Nat
  BY <1>2, <1>3, FS_CardinalityType
<1>5. \A R \in SUBSET S : Cardinality(R) <= Cardinality(S)
  BY <1>3, FS_Subset
<1>6. \A p \in S : Cardinality(S \ {p}) = Cardinality(S) - 1
  BY <1>3, FS_RemoveElement
<1> QED
  BY <1>3, <1>4, <1>5, <1>6

LEMMA LeftSets ==
  /\ DayLeft \in SUBSET Pairs /\ RateLeft \in SUBSET Pairs
  /\ DayLeft' \in SUBSET Pairs /\ RateLeft' \in SUBSET Pairs
BY DEF DayLeft, RateLeft, Left

LEMMA FlightSets ==
  ASSUME NEW S \in SUBSET Threads
  PROVE  /\ IsFiniteSet(S) /\ Cardinality(S) \in Nat
         /\ \A t \in S : Cardinality(S \ {t}) = Cardinality(S) - 1
         /\ \A t \in Threads \ S : Cardinality(S \cup {t}) = Cardinality(S) + 1
<1>1. IsFiniteSet(S)
  BY FS_Subset, ThreadsAssumption
<1> QED
  BY <1>1, FS_CardinalityType, FS_RemoveElement, FS_AddElement

-----------------------------------------------------------------------------
(* What an action does to the calls *)

(* One call changes, the others do not.                                     *)
Only(t, pc, key, tries) ==
  /\ thread'[t] = [pc |-> pc, key |-> key, tries |-> tries]
  /\ \A u \in Threads \ {t} : thread'[u] = thread[u]

LEMMA GotoOnly ==
  ASSUME thread \in [Threads -> Calls], NEW t \in Threads, NEW s \in Steps,
         Goto(t, s)
  PROVE  /\ thread' \in [Threads -> Calls]
         /\ Only(t, s, thread[t].key, thread[t].tries)
BY DEF Goto, Only, Calls

LEMMA AskOnly ==
  ASSUME TypeOK, NEW t \in Threads, NEW k \in Keys, CheckDailyBudget(t, k)
  PROVE  /\ thread' \in [Threads -> Calls]
         /\ Dated \in Usages /\ Dated.today \in Nat
         /\ Only(t, IF Dated.today >= DailyBudget THEN "denied" ELSE "rate", k, 0)
<1>1. Dated \in Usages /\ Dated.today \in Nat
  BY DEF TypeOK, Dated, Usages
<1> DEFINE pc == IF Dated.today >= DailyBudget THEN "denied" ELSE "rate"
           call == [pc |-> pc, key |-> k, tries |-> 0]
<1>2. call \in Calls
  BY LimitsAssumption DEF Calls, Steps
<1>3. thread' = [thread EXCEPT ![t] = call]
  BY DEF CheckDailyBudget
<1> HIDE DEF call
<1>4. /\ thread' \in [Threads -> Calls] /\ thread'[t] = call
      /\ \A u \in Threads \ {t} : thread'[u] = thread[u]
  BY <1>2, <1>3 DEF TypeOK
<1> QED
  BY <1>1, <1>4 DEF Only, call

LEMMA SendOnly ==
  ASSUME TypeOK, TriesFit, NEW t \in Threads, CountAndSend(t)
  PROVE  /\ thread' \in [Threads -> Calls]
         /\ Only(t, "wait", thread[t].key, thread[t].tries + 1)
<1>1. thread[t] \in Calls /\ thread[t].tries \in Nat /\ thread[t].tries < MaxTries
  BY DEF TypeOK, TriesFit, CountAndSend, At, Calls
<1> DEFINE call == [pc |-> "wait", key |-> thread[t].key, tries |-> thread[t].tries + 1]
<1>2. call \in Calls
  BY <1>1, LimitsAssumption DEF Calls, Steps
<1>3. thread' = [thread EXCEPT ![t] = call]
  BY <1>1 DEF CountAndSend, TypeOK, Calls
<1> HIDE DEF call
<1>4. /\ thread' \in [Threads -> Calls] /\ thread'[t] = call
      /\ \A u \in Threads \ {t} : thread'[u] = thread[u]
  BY <1>2, <1>3 DEF TypeOK
<1> QED
  BY <1>4 DEF Only, call

-----------------------------------------------------------------------------
(* Types and the deduplication count *)

Flight == {"try", "wait", "store", "release"}

LEMMA SameFlight ==
  ASSUME PendingIsInFlight, UNCHANGED pending, NEW t \in Threads,
         NEW pc, NEW key, NEW n, Only(t, pc, key, n),
         pc \in Flight <=> thread[t].pc \in Flight,
         pc \in Flight => key = thread[t].key
  PROVE  PendingIsInFlight'
<1> SUFFICES ASSUME NEW k \in Keys
             PROVE  pending'[k] = Cardinality({u \in Threads : Fetching(u, k)'})
  BY DEF PendingIsInFlight
<1>1. \A u \in Threads : Fetching(u, k)' <=> Fetching(u, k)
  BY DEF Only, Fetching, Flight
<1>2. {u \in Threads : Fetching(u, k)'} = {u \in Threads : Fetching(u, k)}
  BY <1>1
<1> QED
  BY <1>2 DEF PendingIsInFlight

LEMMA RegisterCounts ==
  ASSUME TInv, NEW t \in Threads, Register(t)
  PROVE  PendingIsInFlight' /\ pending' \in [Keys -> Nat]
<1> DEFINE key == thread[t].key
<1>1. Only(t, "try", key, thread[t].tries) /\ thread[t].pc = "miss" /\ key \in Keys
  BY GotoOnly DEF TInv, TypeOK, Register, At, Steps, Calls
<1>2. pending' = [pending EXCEPT ![key] = @ + 1] /\ pending \in [Keys -> Nat]
  BY DEF TInv, TypeOK, Register
<1>3. pending' \in [Keys -> Nat]
  BY <1>1, <1>2
<1>4. ASSUME NEW k \in Keys
      PROVE  pending'[k] = Cardinality({u \in Threads : Fetching(u, k)'})
  <2>1. CASE k = key
    <3>1. \A u \in Threads : Fetching(u, k)' <=> (Fetching(u, k) \/ u = t)
      BY <1>1, <2>1 DEF Only, Fetching
    <3>2. {u \in Threads : Fetching(u, k)'} = {u \in Threads : Fetching(u, k)} \cup {t}
      BY <3>1
    <3>3. t \notin {u \in Threads : Fetching(u, k)}
      BY <1>1 DEF Fetching
    <3> DEFINE S == {u \in Threads : Fetching(u, k)}
    <3>4. Cardinality(S \cup {t}) = Cardinality(S) + 1
      BY <3>3, FlightSets
    <3> QED
      BY <1>2, <2>1, <3>2, <3>4 DEF TInv, PendingIsInFlight
  <2>2. CASE k # key
    <3>1. \A u \in Threads : Fetching(u, k)' <=> Fetching(u, k)
      BY <1>1, <2>2 DEF Only, Fetching
    <3>2. {u \in Threads : Fetching(u, k)'} = {u \in Threads : Fetching(u, k)}
      BY <3>1
    <3> QED
      BY <1>2, <2>2, <3>2 DEF TInv, PendingIsInFlight
  <2> QED
    BY <2>1, <2>2
<1> QED
  BY <1>3, <1>4 DEF PendingIsInFlight

LEMMA ReleaseCounts ==
  ASSUME TInv, NEW t \in Threads, Release(t)
  PROVE  PendingIsInFlight' /\ pending' \in [Keys -> Nat]
<1> DEFINE key == thread[t].key
           S(k) == {u \in Threads : Fetching(u, k)}
<1>1. Only(t, "idle", key, thread[t].tries) /\ thread[t].pc = "release" /\ key \in Keys
  BY GotoOnly DEF TInv, TypeOK, Release, At, Steps, Calls
<1>2. pending' = [pending EXCEPT ![key] = @ - 1] /\ pending \in [Keys -> Nat]
  BY DEF TInv, TypeOK, Release
<1>3. pending[key] = Cardinality(S(key)) /\ t \in S(key)
  BY <1>1 DEF TInv, PendingIsInFlight, Fetching
<1>4. pending[key] - 1 = Cardinality(S(key) \ {t}) /\ pending[key] - 1 \in Nat
  <2>1. Cardinality(S(key) \ {t}) = Cardinality(S(key)) - 1
    BY <1>3, FlightSets
  <2>2. Cardinality(S(key) \ {t}) \in Nat
    <3>1. S(key) \ {t} \in SUBSET Threads
      OBVIOUS
    <3> QED
      BY <3>1, FlightSets
  <2> QED
    BY <1>3, <2>1, <2>2
<1>5. pending' \in [Keys -> Nat]
  BY <1>1, <1>2, <1>4
<1>6. ASSUME NEW k \in Keys
      PROVE  pending'[k] = Cardinality({u \in Threads : Fetching(u, k)'})
  <2>1. CASE k = key
    <3>1. \A u \in Threads : Fetching(u, k)' <=> (Fetching(u, k) /\ u # t)
      BY <1>1, <2>1 DEF Only, Fetching
    <3>2. {u \in Threads : Fetching(u, k)'} = S(k) \ {t}
      BY <3>1
    <3> QED
      BY <1>2, <1>4, <2>1, <3>2
  <2>2. CASE k # key
    <3>1. \A u \in Threads : Fetching(u, k)' <=> Fetching(u, k)
      BY <1>1, <2>2 DEF Only, Fetching
    <3>2. {u \in Threads : Fetching(u, k)'} = S(k)
      BY <3>1
    <3> QED
      BY <1>2, <2>2, <3>2 DEF TInv, PendingIsInFlight
  <2> QED
    BY <2>1, <2>2
<1> QED
  BY <1>5, <1>6 DEF PendingIsInFlight

LEMMA Bounds == /\ 0 \in 0 .. Window + 1 /\ Window + 1 \in 0 .. Window + 1
                /\ 0 \in 0 .. CacheTtl /\ 0 \in 0 .. DayLength - 1
                /\ 0 \in 0 .. MaxTries
BY TimesAssumption, LimitsAssumption

LEMMA UsageTypes ==
  ASSUME usage \in Usages
  PROVE  /\ Dated \in Usages /\ [Dated EXCEPT !.age = 0] \in Usages
         /\ Timed \in Usages
<1>1. Dated \in Usages
  <2>1. [usage EXCEPT !.today = 0, !.current = TRUE] \in Usages
    BY DEF Usages
  <2> QED
    BY <2>1 DEF Dated
<1>2. \A u \in Usages : [u EXCEPT !.age = 0] \in Usages
  BY Bounds DEF Usages
<1>3. Timed \in Usages
  <2>1. [usage EXCEPT !.window = 0, !.age = 0] \in Usages
    BY Bounds DEF Usages
  <2> QED
    BY <2>1 DEF Timed
<1> QED
  BY <1>1, <1>2, <1>3

LEMMA FitStays ==
  ASSUME TriesFit, NEW t \in Threads, NEW pc, NEW key, NEW n, Only(t, pc, key, n),
         pc \in {"rate", "lookup", "miss"} => n = 0,
         pc = "try" => n < MaxTries
  PROVE  TriesFit'
BY DEF TriesFit, Only

LEMMA InitTyped == Init => TInv
<1> SUFFICES ASSUME Init PROVE TInv
  OBVIOUS
<1>1. TypeOK
  <2>1. usage \in Usages
    BY Bounds DEF Init, Usages
  <2>2. thread \in [Threads -> Calls]
    <3>1. \A k \in Keys : [pc |-> "idle", key |-> k, tries |-> 0] \in Calls
      BY Bounds DEF Calls, Steps
    <3> QED
      BY <3>1 DEF Init
  <2>3. /\ cache \in [Keys -> 0 .. CacheTtl] /\ pending \in [Keys -> Nat]
        /\ clock \in 0 .. DayLength - 1 /\ lastSend \in 0 .. Window + 1
        /\ sent \in Nat /\ moved \in BOOLEAN
    BY Bounds DEF Init
  <2> QED
    BY <2>1, <2>2, <2>3 DEF TypeOK
<1>2. \A t \in Threads : thread[t].pc = "idle"
  BY DEF Init
<1>3. \A k \in Keys : {t \in Threads : Fetching(t, k)} = {}
  BY <1>2 DEF Fetching
<1>4. PendingIsInFlight
  BY <1>3, FS_EmptySet DEF PendingIsInFlight, Init
<1> QED
  BY <1>1, <1>2, <1>4 DEF TInv, TriesFit

LEMMA TypeStep == TInv /\ [Next]_vars => TInv'
<1> SUFFICES ASSUME TInv, [Next]_vars PROVE TInv'
  OBVIOUS
<1> USE DEF observers
<1>0. /\ TypeOK /\ TriesFit /\ PendingIsInFlight
      /\ thread \in [Threads -> Calls] /\ usage \in Usages
      /\ \A t \in Threads : thread[t] \in Calls /\ thread[t].tries \in Nat
  BY DEF TInv, TypeOK, Calls
<1>1. ASSUME NEW t \in Threads, NEW k \in Keys, CheckDailyBudget(t, k) PROVE TInv'
  <2>1. TypeOK'
    BY <1>0, <1>1, AskOnly DEF CheckDailyBudget, TypeOK
  <2>3. thread[t].pc = "idle" /\ UNCHANGED pending
    BY <1>1 DEF CheckDailyBudget, At
  <2>4. PendingIsInFlight' /\ TriesFit'
    <3> DEFINE pc == IF Dated.today >= DailyBudget THEN "denied" ELSE "rate"
    <3>1. Only(t, pc, k, 0) /\ pc \notin Flight /\ thread[t].pc \notin Flight
          /\ pc # "try"
      BY <1>0, <1>1, <2>3, AskOnly DEF Flight
    <3> HIDE DEF pc
    <3> QED
      BY <1>0, <2>3, <3>1, SameFlight, FitStays
  <2> QED
    BY <2>1, <2>4 DEF TInv
<1>2. ASSUME NEW t \in Threads, CountAndSend(t) PROVE TInv'
  <2>1. thread[t].pc = "try" /\ UNCHANGED pending
    BY <1>2 DEF CountAndSend, At
  <2>2. TypeOK'
    <3>1. sent' \in Nat /\ lastSend' \in 0 .. Window + 1
      BY <1>0, <1>2, Bounds DEF CountAndSend, TypeOK
    <3>2. usage' \in Usages
      <4> DEFINE w == usage.window + 1
                 d == usage.today + 1
      <4>1. w \in Nat /\ d \in Nat
        BY <1>0 DEF Usages
      <4>2. usage' = [usage EXCEPT !.window = w, !.today = d]
        BY <1>2 DEF CountAndSend
      <4> HIDE DEF w, d
      <4> QED
        BY <1>0, <4>1, <4>2 DEF Usages
    <3> QED
      BY <1>0, <1>2, <3>1, <3>2, SendOnly DEF CountAndSend, TypeOK
  <2>3. TriesFit'
    BY <1>0, <1>2, SendOnly, FitStays
  <2>4. PendingIsInFlight'
    BY <1>0, <1>2, <2>1, SendOnly, SameFlight DEF Flight
  <2> QED
    BY <2>2, <2>3, <2>4 DEF TInv
<1>3. ASSUME NEW t \in Threads, PassRate(t) \/ ExceedRate(t) \/ ReadCache(t)
                                  \/ FallBack(t)
      PROVE  TInv'
  <2>1. PICK s \in {"lookup", "denied", "idle", "miss"} :
          /\ Goto(t, s)
          /\ s \in {"lookup", "miss"} => thread[t].pc \in {"rate", "lookup"}
    BY <1>3 DEF PassRate, ExceedRate, ReadCache, FallBack, At
  <2>2. thread[t].pc \in {"rate", "lookup", "denied"} /\ UNCHANGED pending
    BY <1>3 DEF PassRate, ExceedRate, ReadCache, FallBack, At
  <2>3. thread' \in [Threads -> Calls] /\ Only(t, s, thread[t].key, thread[t].tries)
    BY <1>0, <2>1, GotoOnly DEF Steps
  <2>4. Timed \in Usages
    BY <1>0, UsageTypes
  <2>5. TypeOK'
    BY <1>0, <1>3, <2>3, <2>4 DEF TypeOK, PassRate, ExceedRate, ReadCache, FallBack
  <2>6. TriesFit'
    BY <1>0, <2>1, <2>3 DEF TriesFit, Only
  <2>7. PendingIsInFlight'
    BY <1>0, <2>1, <2>2, <2>3, SameFlight DEF Flight
  <2> QED
    BY <2>5, <2>6, <2>7 DEF TInv
<1>4. ASSUME NEW t \in Threads, FetchData(t) \/ FetchNothing(t) \/ FetchFails(t)
                                  \/ SetCache(t)
      PROVE  TInv'
  <2>1. PICK s \in {"store", "release", "try"} :
          Goto(t, s) /\ (s = "try" => thread[t].tries < MaxTries)
    BY <1>4 DEF FetchData, FetchNothing, FetchFails, SetCache
  <2>2. thread[t].pc \in {"wait", "store"} /\ UNCHANGED pending
    BY <1>4 DEF FetchData, FetchNothing, FetchFails, SetCache, At
  <2>3. thread' \in [Threads -> Calls] /\ Only(t, s, thread[t].key, thread[t].tries)
    BY <1>0, <2>1, GotoOnly DEF Steps
  <2>4. cache' \in [Keys -> 0 .. CacheTtl]
    BY <1>0, <1>4, TimesAssumption
       DEF TypeOK, FetchData, FetchNothing, FetchFails, SetCache
  <2>5. TypeOK'
    BY <1>0, <1>4, <2>3, <2>4
       DEF TypeOK, FetchData, FetchNothing, FetchFails, SetCache
  <2>6. TriesFit'
    BY <1>0, <2>1, <2>3 DEF TriesFit, Only
  <2>7. PendingIsInFlight'
    BY <1>0, <2>1, <2>2, <2>3, SameFlight DEF Flight
  <2> QED
    BY <2>5, <2>6, <2>7 DEF TInv
<1>5. ASSUME NEW t \in Threads, Register(t) \/ Release(t) PROVE TInv'
  <2>1. PICK s \in {"try", "idle"} :
          Goto(t, s) /\ (s = "try" => thread[t].tries < MaxTries)
    BY <1>0, <1>5, LimitsAssumption DEF Register, Release, At, TriesFit
  <2>2. thread' \in [Threads -> Calls] /\ Only(t, s, thread[t].key, thread[t].tries)
    BY <1>0, <2>1, GotoOnly DEF Steps
  <2>3. PendingIsInFlight' /\ pending' \in [Keys -> Nat]
    BY <1>5, RegisterCounts, ReleaseCounts
  <2>4. TypeOK'
    BY <1>0, <1>5, <2>2, <2>3 DEF TypeOK, Register, Release
  <2>5. TriesFit'
    BY <1>0, <2>1, <2>2 DEF TriesFit, Only
  <2> QED
    BY <2>3, <2>4, <2>5 DEF TInv
<1>6. ASSUME UNCHANGED <<thread, pending>>, TypeOK' PROVE TInv'
  BY <1>0, <1>6 DEF TInv, TriesFit, PendingIsInFlight, Fetching
<1>7. CASE ResetDailyCounters
  <2>1. Dated \in Usages /\ [Dated EXCEPT !.age = 0] \in Usages
    BY <1>0, UsageTypes
  <2>2. TypeOK'
    BY <1>0, <1>7, <2>1 DEF ResetDailyCounters, counters, TypeOK
  <2> QED
    BY <1>6, <1>7, <2>2 DEF ResetDailyCounters
<1>8. CASE ClearCache
  BY <1>0, <1>6, <1>8, TimesAssumption DEF ClearCache, TypeOK
<1>9. CASE Tick
  <2>1. \A age \in 0 .. Window + 1 : Older(age) \in 0 .. Window + 1
    BY TimesAssumption DEF Older
  <2>2. usage' \in Usages
    <3> DEFINE a == Older(usage.age)
               c == usage.current /\ clock' # 0
    <3>1. a \in 0 .. Window + 1 /\ c \in BOOLEAN
      BY <1>0, <2>1 DEF Usages
    <3>2. usage' = [usage EXCEPT !.age = a, !.current = c]
      BY <1>9 DEF Tick
    <3> HIDE DEF a, c
    <3> QED
      BY <1>0, <3>1, <3>2 DEF Usages
  <2>3. cache' \in [Keys -> 0 .. CacheTtl]
    <3>1. \A k \in Keys :
            (IF cache[k] = 0 THEN 0 ELSE cache[k] - 1) \in 0 .. CacheTtl
      BY <1>0, TimesAssumption DEF TypeOK
    <3> QED
      BY <1>9, <3>1 DEF Tick
  <2>4. clock' \in 0 .. DayLength - 1
    BY <1>0, <1>9, TimesAssumption DEF Tick, TypeOK
  <2>5. sent' \in Nat /\ lastSend' \in 0 .. Window + 1
    BY <1>0, <1>9, <2>1 DEF Tick, TypeOK
  <2> QED
    BY <1>0, <1>6, <1>9, <2>2, <2>3, <2>4, <2>5 DEF Tick, TypeOK
<1>10. CASE UNCHANGED vars
  BY <1>0, <1>6, <1>10 DEF vars, TypeOK
<1> QED
  BY <1>1, <1>2, <1>3, <1>4, <1>5, <1>7, <1>8, <1>9, <1>10 DEF Next, Ask, Step

(* Counters, cache and calls always have their types; in particular the     *)
(* deduplication count, which is decreased, is never negative.              *)
THEOREM TypeCorrect == Spec => []TypeOK
<1>1. TInv => TypeOK
  BY DEF TInv
<1> QED
  BY <1>1, InitTyped, TypeStep, PTL DEF Spec

(* The deduplication count of a key is the number of calls fetching it.     *)
THEOREM PendingCountsCalls == Spec => []PendingIsInFlight
<1>1. TInv => PendingIsInFlight
  BY DEF TInv
<1> QED
  BY <1>1, InitTyped, TypeStep, PTL DEF Spec

-----------------------------------------------------------------------------
(* How far the limits can be exceeded *)

LEMMA FewerLeft ==
  ASSUME NEW t \in Threads, NEW steps, NEW pc, NEW key,
         Only(t, pc, key, thread[t].tries), pc \in steps => thread[t].pc \in steps
  PROVE  Left(steps)' \in SUBSET Left(steps)
BY DEF Left, Only, Pairs

(* A step that spends nothing and lets no call past a check.                *)
LEMMA NothingSpent ==
  ASSUME TypeOK, TypeOK', SpendInv,
         DayLeft' \in SUBSET DayLeft, RateLeft' \in SUBSET RateLeft,
         usage'.today = usage.today, usage'.window <= usage.window,
         usage'.current = usage.current, UNCHANGED sent
  PROVE  SpendInv'
<1>1. /\ usage.today \in Nat /\ usage.window \in Nat /\ usage'.window \in Nat
      /\ sent \in Nat /\ usage.current \in BOOLEAN
  BY DEF TypeOK, Usages
<1>2. /\ Cardinality(DayLeft') <= Cardinality(DayLeft)
      /\ Cardinality(RateLeft') <= Cardinality(RateLeft)
      /\ Cardinality(DayLeft') \in Nat /\ Cardinality(DayLeft) \in Nat
      /\ Cardinality(RateLeft') \in Nat /\ Cardinality(RateLeft) \in Nat
      /\ Overshoot \in Nat
  BY LeftSets, PairSets
<1>3. Overshoot' = Overshoot
  BY DEF Overshoot
<1>4. /\ usage'.today + Cardinality(DayLeft') <= DailyBudget - 1 + Overshoot
      /\ usage'.window + Cardinality(RateLeft') <= RateLimit - 1 + Overshoot
  BY <1>1, <1>2, LimitsAssumption DEF SpendInv
<1>5. usage'.current => sent' <= usage'.today + Overshoot
  BY DEF SpendInv
<1>6. ~usage'.current => sent' + Cardinality(DayLeft') <= Overshoot
  BY <1>1, <1>2 DEF SpendInv
<1> QED
  BY <1>3, <1>4, <1>5, <1>6 DEF SpendInv

LEMMA AskSpends ==
  ASSUME TInv, TypeOK', SpendInv, NEW t \in Threads, NEW k \in Keys,
         CheckDailyBudget(t, k)
  PROVE  SpendInv'
<1> DEFINE pc == IF Dated.today >= DailyBudget THEN "denied" ELSE "rate"
<1>0. /\ TypeOK /\ Only(t, pc, k, 0) /\ Dated.today \in Nat
      /\ thread[t].pc = "idle" /\ usage' = Dated /\ UNCHANGED sent
  BY AskOnly DEF TInv, CheckDailyBudget, At, observers
<1>1. /\ usage.today \in Nat /\ usage.window \in Nat /\ sent \in Nat
      /\ usage.current \in BOOLEAN
  BY <1>0 DEF TypeOK, Usages
<1>2. /\ usage'.window = usage.window /\ usage'.current = TRUE
      /\ usage'.today = IF usage.current THEN usage.today ELSE 0
  BY <1>0, <1>1 DEF Dated, TypeOK, Usages
<1>3. RateLeft' \in SUBSET RateLeft
  BY <1>0 DEF RateLeft, AfterRate, Left, Only, Pairs
<1>4. /\ Cardinality(DayLeft') \in Nat /\ Cardinality(DayLeft) \in Nat
      /\ Cardinality(DayLeft') <= Overshoot
      /\ Cardinality(RateLeft') \in Nat /\ Cardinality(RateLeft) \in Nat
      /\ Cardinality(RateLeft') <= Cardinality(RateLeft)
      /\ Overshoot \in Nat /\ Overshoot' = Overshoot
  BY <1>3, LeftSets, PairSets DEF Overshoot
<1>5. usage'.window + Cardinality(RateLeft') <= RateLimit - 1 + Overshoot
  BY <1>1, <1>2, <1>4, LimitsAssumption DEF SpendInv
<1>6. sent' <= usage'.today + Overshoot
  BY <1>0, <1>1, <1>2, <1>4 DEF SpendInv
<1>7. usage'.today + Cardinality(DayLeft') <= DailyBudget - 1 + Overshoot
  <2>1. CASE Dated.today >= DailyBudget
    <3>1. DayLeft' \in SUBSET DayLeft
      BY <1>0, <2>1 DEF DayLeft, AfterRate, Left, Only, Pairs
    <3>2. Cardinality(DayLeft') <= Cardinality(DayLeft)
      BY <3>1, LeftSets, PairSets
    <3> QED
      BY <1>1, <1>2, <1>4, <3>2, LimitsAssumption DEF SpendInv
  <2>2. CASE Dated.today < DailyBudget
    BY <1>0, <1>4, <2>2, LimitsAssumption
  <2> QED
    BY <1>0, <2>1, <2>2, LimitsAssumption
<1> QED
  BY <1>2, <1>4, <1>5, <1>6, <1>7 DEF SpendInv

LEMMA PassSpends ==
  ASSUME TInv, TypeOK', SpendInv, NEW t \in Threads, PassRate(t)
  PROVE  SpendInv'
<1>0. /\ TypeOK /\ Only(t, "lookup", thread[t].key, thread[t].tries)
      /\ thread[t].pc = "rate" /\ usage' = Timed /\ UNCHANGED sent
  BY GotoOnly DEF TInv, TypeOK, PassRate, At, Steps
<1>1. /\ usage.today \in Nat /\ sent \in Nat /\ usage'.window \in Nat
      /\ usage.current \in BOOLEAN
  BY <1>0 DEF TypeOK, Usages
<1>2. /\ usage'.today = usage.today /\ usage'.current = usage.current
      /\ usage'.window <= RateLimit - 1
  <2>1. usage'.today = usage.today /\ usage'.current = usage.current
    BY <1>0 DEF Timed, TypeOK, Usages
  <2>2. usage'.window < RateLimit
    BY <1>0 DEF PassRate
  <2> QED
    BY <1>1, <2>1, <2>2, LimitsAssumption
<1>3. DayLeft' \in SUBSET DayLeft
  BY <1>0, FewerLeft DEF DayLeft, AfterRate
<1>4. /\ Cardinality(DayLeft') <= Cardinality(DayLeft)
      /\ Cardinality(DayLeft') \in Nat /\ Cardinality(DayLeft) \in Nat
      /\ Cardinality(RateLeft') \in Nat /\ Cardinality(RateLeft') <= Overshoot
      /\ Overshoot \in Nat /\ Overshoot' = Overshoot
  BY <1>3, LeftSets, PairSets DEF Overshoot
<1>5. /\ usage'.today + Cardinality(DayLeft') <= DailyBudget - 1 + Overshoot
      /\ usage'.window + Cardinality(RateLeft') <= RateLimit - 1 + Overshoot
  BY <1>1, <1>2, <1>4, LimitsAssumption DEF SpendInv
<1>6. /\ usage'.current => sent' <= usage'.today + Overshoot
      /\ ~usage'.current => sent' + Cardinality(DayLeft') <= Overshoot
  BY <1>0, <1>1, <1>2, <1>4 DEF SpendInv
<1> QED
  BY <1>4, <1>5, <1>6 DEF SpendInv

LEMMA SendSpends ==
  ASSUME TInv, TypeOK', SpendInv, NEW t \in Threads, CountAndSend(t)
  PROVE  SpendInv'
<1> DEFINE n == thread[t].tries
           p == <<t, n + 1>>
<1>0. /\ TypeOK /\ Only(t, "wait", thread[t].key, n + 1) /\ thread[t].pc = "try"
      /\ n \in Nat /\ n < MaxTries
  <2>1. TypeOK /\ TriesFit /\ thread[t] \in Calls /\ thread[t].pc = "try"
    BY DEF TInv, TypeOK, CountAndSend, At
  <2>2. n \in Nat /\ n < MaxTries
    BY <2>1 DEF Calls, TriesFit
  <2> QED
    BY <2>1, <2>2, SendOnly
<1>1. /\ usage.today \in Nat /\ usage.window \in Nat /\ sent \in Nat
      /\ usage.current \in BOOLEAN
  BY <1>0 DEF TypeOK, Usages
<1>2. /\ usage'.today = usage.today + 1 /\ usage'.window = usage.window + 1
      /\ usage'.current = usage.current /\ sent' = sent + 1
  BY <1>0 DEF CountAndSend, TypeOK, Usages
<1>3. ASSUME NEW steps, "try" \in steps, "wait" \in steps
      PROVE  p \in Left(steps) /\ Left(steps)' = Left(steps) \ {p}
  <2>1. p \in Pairs
    BY <1>0, LimitsAssumption DEF Pairs
  <2>2. p \in Left(steps)
    BY <1>0, <1>3, <2>1 DEF Left
  <2>3. ASSUME NEW q \in Pairs
        PROVE  q \in Left(steps)' <=> (q \in Left(steps) /\ q # p)
    <3>1. q = <<q[1], q[2]>> /\ q[1] \in Threads /\ q[2] \in 1 .. MaxTries
      BY <2>3 DEF Pairs
    <3>2. CASE q[1] = t
      <4>1. q \in Left(steps)' <=> n + 1 < q[2]
        BY <1>0, <1>3, <2>3, <3>2 DEF Left, Only
      <4>2. q \in Left(steps) <=> n < q[2]
        BY <1>0, <1>3, <2>3, <3>2 DEF Left
      <4>3. q # p <=> q[2] # n + 1
        BY <3>1, <3>2
      <4> QED
        BY <1>0, <3>1, <4>1, <4>2, <4>3
    <3>3. CASE q[1] # t
      BY <1>0, <3>1, <3>3 DEF Left, Only
    <3> QED
      BY <3>2, <3>3
  <2>4. Left(steps)' \subseteq Pairs /\ Left(steps) \subseteq Pairs
    BY DEF Left
  <2> QED
    BY <2>2, <2>3, <2>4
<1>4. /\ p \in DayLeft /\ DayLeft' = DayLeft \ {p}
      /\ p \in RateLeft /\ RateLeft' = RateLeft \ {p}
  BY <1>3 DEF DayLeft, RateLeft, AfterRate
<1>5. /\ Cardinality(DayLeft') = Cardinality(DayLeft) - 1
      /\ Cardinality(RateLeft') = Cardinality(RateLeft) - 1
      /\ Cardinality(DayLeft) \in Nat /\ Cardinality(RateLeft) \in Nat
      /\ Overshoot \in Nat /\ Overshoot' = Overshoot
  BY <1>4, LeftSets, PairSets DEF Overshoot
<1>6. /\ usage'.today + Cardinality(DayLeft') <= DailyBudget - 1 + Overshoot
      /\ usage'.window + Cardinality(RateLeft') <= RateLimit - 1 + Overshoot
  BY <1>1, <1>2, <1>5, LimitsAssumption DEF SpendInv
<1>7. /\ usage'.current => sent' <= usage'.today + Overshoot
      /\ ~usage'.current => sent' + Cardinality(DayLeft') <= Overshoot
  BY <1>1, <1>2, <1>5 DEF SpendInv
<1> QED
  BY <1>5, <1>6, <1>7 DEF SpendInv

LEMMA SpendStep == TInv /\ TInv' /\ SpendInv /\ [Next]_vars => SpendInv'
<1> SUFFICES ASSUME TInv, TInv', SpendInv, [Next]_vars PROVE SpendInv'
  OBVIOUS
<1> USE DEF observers
<1>0. /\ TypeOK /\ TypeOK' /\ thread \in [Threads -> Calls] /\ usage \in Usages
      /\ usage.window \in Nat /\ usage.today \in Nat
      /\ usage.current \in BOOLEAN /\ sent \in Nat
  BY DEF TInv, TypeOK, Usages
<1>1. ASSUME NEW t \in Threads, ExceedRate(t) \/ ReadCache(t) \/ FallBack(t)
                \/ Register(t) \/ FetchData(t) \/ FetchNothing(t)
                \/ FetchFails(t) \/ SetCache(t) \/ Release(t)
      PROVE  SpendInv'
  <2>1. PICK s \in Steps :
          /\ Goto(t, s)
          /\ s \in {"rate"} \cup AfterRate => thread[t].pc \in {"rate"} \cup AfterRate
          /\ s \in AfterRate => thread[t].pc \in AfterRate
    BY <1>1 DEF ExceedRate, ReadCache, FallBack, Register, FetchData, FetchNothing,
                FetchFails, SetCache, Release, At, Steps, AfterRate
  <2>2. Only(t, s, thread[t].key, thread[t].tries)
    BY <1>0, <2>1, GotoOnly
  <2>3. DayLeft' \in SUBSET DayLeft /\ RateLeft' \in SUBSET RateLeft
    BY <2>1, <2>2, FewerLeft DEF DayLeft, RateLeft
  <2>4. usage' \in {usage, Timed} /\ UNCHANGED sent
    BY <1>1 DEF ExceedRate, ReadCache, FallBack, Register, FetchData, FetchNothing,
                FetchFails, SetCache, Release
  <2>5. /\ usage'.today = usage.today /\ usage'.window <= usage.window
        /\ usage'.current = usage.current
    <3>1. usage.window <= usage.window /\ 0 <= usage.window
      BY <1>0
    <3>2. CASE usage' = usage
      BY <3>1, <3>2
    <3>3. CASE usage' = [usage EXCEPT !.window = 0, !.age = 0]
      BY <1>0, <3>1, <3>3 DEF Usages
    <3> QED
      BY <2>4, <3>2, <3>3 DEF Timed
  <2> QED
    BY <1>0, <2>3, <2>4, <2>5, NothingSpent
<1>2. ASSUME UNCHANGED thread
      PROVE  DayLeft' = DayLeft /\ RateLeft' = RateLeft
  BY <1>2 DEF DayLeft, RateLeft, Left
<1>3. CASE ResetDailyCounters
  <2>1. CASE usage.current
    <3>1. usage' = usage /\ sent' = sent /\ UNCHANGED thread
      BY <1>3, <2>1 DEF ResetDailyCounters, counters
    <3>2. usage'.window <= usage.window
      BY <1>0, <3>1
    <3> QED
      BY <1>0, <1>2, <3>1, <3>2, NothingSpent
  <2>2. CASE ~usage.current
    <3>1. /\ usage'.today = 0 /\ usage'.window = usage.window
          /\ usage'.current = TRUE /\ sent' = sent
      BY <1>0, <1>3, <2>2 DEF ResetDailyCounters, Dated, Usages
    <3>2. /\ Cardinality(DayLeft) \in Nat /\ Cardinality(DayLeft) <= Overshoot
          /\ Overshoot \in Nat /\ Overshoot' = Overshoot
      BY LeftSets, PairSets DEF Overshoot
    <3>3. DayLeft' = DayLeft /\ RateLeft' = RateLeft
      BY <1>2, <1>3 DEF ResetDailyCounters
    <3>4. sent <= Overshoot
      BY <1>0, <2>2, <3>2 DEF SpendInv
    <3>5. usage'.today + Cardinality(DayLeft') <= DailyBudget - 1 + Overshoot
      BY <3>1, <3>2, <3>3, LimitsAssumption
    <3>6. usage'.window + Cardinality(RateLeft') <= RateLimit - 1 + Overshoot
      BY <3>1, <3>3 DEF SpendInv
    <3>7. sent' <= usage'.today + Overshoot
      BY <1>0, <3>1, <3>2, <3>4
    <3> QED
      BY <3>1, <3>2, <3>5, <3>6, <3>7 DEF SpendInv
  <2> QED
    BY <2>1, <2>2
<1>4. CASE Tick
  <2>1. /\ usage'.today = usage.today /\ usage'.window = usage.window
        /\ usage'.current = (usage.current /\ clock' # 0)
        /\ sent' = IF clock' = 0 THEN 0 ELSE sent
    BY <1>0, <1>4 DEF Tick, Usages
  <2>2. DayLeft' = DayLeft /\ RateLeft' = RateLeft
    BY <1>2, <1>4 DEF Tick
  <2>3. CASE clock' # 0
    BY <1>0, <2>1, <2>2, <2>3, NothingSpent
  <2>4. CASE clock' = 0
    <3>1. /\ Cardinality(DayLeft) \in Nat /\ Cardinality(DayLeft) <= Overshoot
          /\ Overshoot' = Overshoot
      BY LeftSets, PairSets DEF Overshoot
    <3>2. /\ usage'.today + Cardinality(DayLeft') <= DailyBudget - 1 + Overshoot
          /\ usage'.window + Cardinality(RateLeft') <= RateLimit - 1 + Overshoot
      BY <2>1, <2>2 DEF SpendInv
    <3>3. sent' + Cardinality(DayLeft') <= Overshoot
      <4>1. sent' = 0
        BY <2>1, <2>4
      <4> QED
        BY <2>2, <3>1, <4>1
    <3>4. ~usage'.current
      BY <2>1, <2>4
    <3> QED
      BY <3>1, <3>2, <3>3, <3>4 DEF SpendInv
  <2> QED
    BY <2>3, <2>4
<1>5. CASE ClearCache \/ UNCHANGED vars
  BY <1>0, <1>2, <1>5, NothingSpent DEF ClearCache, vars
<1>6. ASSUME NEW t \in Threads, Ask(t) PROVE SpendInv'
  BY <1>0, <1>6, AskSpends DEF Ask
<1> QED
  BY <1>0, <1>1, <1>3, <1>4, <1>5, <1>6, PassSpends, SendSpends DEF Next, Step

LEMMA InitSpent == Init => SpendInv
<1> SUFFICES ASSUME Init PROVE SpendInv
  OBVIOUS
<1>1. DayLeft = {} /\ RateLeft = {}
  <2>1. \A t \in Threads : thread[t].pc = "idle"
    BY DEF Init
  <2> QED
    BY <2>1 DEF DayLeft, RateLeft, Left, Pairs, AfterRate
<1>2. Cardinality(DayLeft) = 0 /\ Cardinality(RateLeft) = 0
  BY <1>1, FS_EmptySet
<1>3. Overshoot \in Nat
  BY LeftSets, PairSets
<1> QED
  BY <1>2, <1>3, LimitsAssumption DEF Init, SpendInv

THEOREM Invariance == Spec => [](TInv /\ SpendInv)
<1>1. Init => TInv /\ SpendInv
  BY InitTyped, InitSpent
<1>2. (TInv /\ SpendInv) /\ [Next]_vars => (TInv /\ SpendInv)'
  BY TypeStep, SpendStep
<1> QED
  BY <1>1, <1>2, PTL DEF Spec

LEMMA SpendBounds == TInv /\ SpendInv => LimitsOvershot /\ SentInDay
<1> SUFFICES ASSUME TInv, SpendInv PROVE LimitsOvershot /\ SentInDay
  OBVIOUS
<1>1. /\ Cardinality(DayLeft) \in Nat /\ Cardinality(RateLeft) \in Nat
      /\ Overshoot \in Nat
  BY LeftSets, PairSets
<1>2. /\ usage.today \in Nat /\ usage.window \in Nat /\ sent \in Nat
      /\ usage.current \in BOOLEAN
  BY DEF TInv, TypeOK, Usages
<1>3. LimitsOvershot
  BY <1>1, <1>2, LimitsAssumption DEF SpendInv, LimitsOvershot
<1>4. SentInDay
  BY <1>1, <1>2, <1>3, LimitsAssumption DEF SpendInv, LimitsOvershot, SentInDay
<1> QED
  BY <1>3, <1>4

(* The counters exceed their limits by less than the attempts that one call *)
(* of every thread may make.                                                *)
THEOREM OvershootBounded == Spec => []LimitsOvershot
BY Invariance, SpendBounds, PTL

(* And what is really sent in a day exceeds the budget by less than twice   *)
(* as much, whatever the calls that were under way at midnight do.          *)
THEOREM DayBounded == Spec => []SentInDay
BY Invariance, SpendBounds, PTL
-----------------------------------------------------------------------------
(* Who is refused *)

(* A window that has counted something holds the last request: what was     *)
(* sent last is no older than the window, unless a reset has moved it.      *)
BusyInv == ~moved /\ usage.window > 0 => lastSend <= usage.age

LEMMA BusyStep == TypeOK /\ TypeOK' /\ BusyInv /\ [Next]_vars => BusyInv'
<1> SUFFICES ASSUME TypeOK, TypeOK', BusyInv, [Next]_vars PROVE BusyInv'
  OBVIOUS
<1> USE DEF observers, BusyInv
<1>0. /\ usage \in Usages /\ usage.window \in Nat /\ usage.age \in 0 .. Window + 1
      /\ lastSend \in 0 .. Window + 1 /\ moved \in BOOLEAN
  BY DEF TypeOK, Usages
<1>1. ASSUME NEW t \in Threads, NEW k \in Keys, CheckDailyBudget(t, k) PROVE BusyInv'
  <2>1. usage'.window = usage.window /\ usage'.age = usage.age
    BY <1>0, <1>1 DEF CheckDailyBudget, Dated, Usages
  <2> QED
    BY <1>1, <2>1 DEF CheckDailyBudget
<1>2. ASSUME NEW t \in Threads, PassRate(t) PROVE BusyInv'
  <2>1. CASE usage.age > Window
    <3>1. usage'.window = 0
      BY <1>0, <1>2, <2>1 DEF PassRate, Timed, Usages
    <3> QED
      BY <3>1
  <2>2. CASE ~(usage.age > Window)
    <3>1. usage' = usage /\ moved' = moved /\ lastSend' = lastSend
      BY <1>0, <1>2, <2>2, TimesAssumption DEF PassRate, Timed
    <3> QED
      BY <3>1
  <2> QED
    BY <2>1, <2>2
<1>3. ASSUME NEW t \in Threads, ExceedRate(t) PROVE BusyInv'
  <2>1. CASE usage.age > Window
    <3>1. usage'.window = 0
      BY <1>0, <1>3, <2>1 DEF ExceedRate, Timed, Usages
    <3> QED
      BY <3>1
  <2>2. CASE ~(usage.age > Window)
    BY <1>3, <2>2 DEF ExceedRate, Timed
  <2> QED
    BY <2>1, <2>2
<1>4. ASSUME NEW t \in Threads, CountAndSend(t) PROVE BusyInv'
  <2>1. usage'.age = usage.age /\ lastSend' = 0
    BY <1>0, <1>4 DEF CountAndSend, Usages
  <2> QED
    BY <1>0, <2>1
<1>5. ASSUME NEW t \in Threads, ReadCache(t) \/ FallBack(t) \/ Register(t) \/ FetchData(t)
                \/ FetchNothing(t) \/ FetchFails(t) \/ SetCache(t) \/ Release(t)
      PROVE  BusyInv'
  BY <1>5 DEF ReadCache, FallBack, Register, FetchData, FetchNothing, FetchFails, SetCache, Release
<1>6. CASE ResetDailyCounters
  BY <1>6 DEF ResetDailyCounters, counters
<1>7. CASE Tick
  <2>1. /\ usage'.window = usage.window /\ usage'.age = Older(usage.age)
        /\ lastSend' = Older(lastSend) /\ moved' = moved
    BY <1>0, <1>7 DEF Tick, Usages
  <2>2. lastSend <= usage.age => Older(lastSend) <= Older(usage.age)
    BY <1>0, TimesAssumption DEF Older
  <2> QED
    BY <2>1, <2>2
<1>8. CASE ClearCache \/ UNCHANGED vars
  BY <1>8 DEF ClearCache, vars
<1> QED
  BY <1>1, <1>2, <1>3, <1>4, <1>5, <1>6, <1>7, <1>8 DEF Next, Ask, Step

(* Only a full window refuses a call, and a full window is in use.          *)
LEMMA OnlyFullWindowRefuses ==
  ASSUME TypeOK, BusyInv, [Next]_vars, NEW t \in Threads,
         At(t, "rate"), thread'[t].pc = "denied", ~moved
  PROVE  lastSend <= Window
<1>0. /\ usage \in Usages /\ usage.window \in Nat /\ usage.age \in 0 .. Window + 1
      /\ lastSend \in 0 .. Window + 1 /\ thread \in [Threads -> Calls] /\ thread[t].pc = "rate"
  BY DEF TypeOK, Usages, At
<1>1. ASSUME NEW u \in Threads, ExceedRate(u) PROVE lastSend <= Window
  <2>1. Timed.window > 0
    BY <1>0, <1>1, LimitsAssumption DEF ExceedRate, Timed, Usages
  <2>2. usage.window > 0 /\ ~(usage.age > Window)
    BY <1>0, <2>1 DEF Timed, Usages
  <2> QED
    BY <1>0, <2>2, TimesAssumption DEF BusyInv
<1>2. ASSUME NEW u \in Threads, NEW k \in Keys, CheckDailyBudget(u, k) PROVE FALSE
  <2>1. u # t /\ thread'[t] = thread[t]
    BY <1>0, <1>2, AskOnly DEF CheckDailyBudget, At, Only
  <2> QED
    BY <1>0, <2>1
<1>3. ASSUME NEW u \in Threads, PassRate(u) PROVE FALSE
  <2>1. Only(u, "lookup", thread[u].key, thread[u].tries)
    BY <1>0, <1>3, GotoOnly DEF PassRate, Steps
  <2> QED
    BY <1>0, <2>1 DEF Only
<1>4. ASSUME NEW u \in Threads, ReadCache(u) \/ FallBack(u) \/ Register(u) \/ FetchData(u)
                \/ FetchNothing(u) \/ FetchFails(u) \/ SetCache(u) \/ Release(u)
      PROVE  FALSE
  <2>1. PICK s \in Steps : Goto(u, s) /\ thread[u].pc # "rate"
    BY <1>4 DEF ReadCache, FallBack, Register, FetchData, FetchNothing, FetchFails, SetCache,
                Release, At, Steps
  <2>2. u # t /\ thread'[t] = thread[t]
    BY <1>0, <2>1, GotoOnly DEF Only
  <2> QED
    BY <1>0, <2>2
<1>5. ASSUME NEW u \in Threads, CountAndSend(u) PROVE FALSE
  <2>1. u # t
    BY <1>0, <1>5 DEF CountAndSend, At
  <2>2. thread'[t] = thread[t]
    BY <1>0, <1>5, <2>1 DEF CountAndSend
  <2> QED
    BY <1>0, <2>2
<1>6. CASE ResetDailyCounters \/ ClearCache \/ Tick \/ UNCHANGED vars
  BY <1>0, <1>6 DEF ResetDailyCounters, ClearCache, Tick, vars
<1> QED
  BY <1>1, <1>2, <1>3, <1>4, <1>5, <1>6 DEF Next, Ask, Step

(* brs_quota_manager.py, _check_rate_limit: however the calls of any number *)
(* of threads interleave, a call is refused for its rate only when a        *)
(* request was sent during the last window, unless a nightly reset has      *)
(* moved the start of the window.                                           *)
THEOREM RefusedOnlyWhenBusy == Spec => RefusedWhenBusy
<1>1. Init => BusyInv
  BY DEF Init, BusyInv
<1>2. (TInv /\ SpendInv) /\ (TInv /\ SpendInv)' /\ BusyInv /\ [Next]_vars => BusyInv'
  BY BusyStep DEF TInv
<1>3. TInv /\ SpendInv /\ BusyInv /\ [Next]_vars =>
        [\A t \in Threads :
           At(t, "rate") /\ thread'[t].pc = "denied" /\ ~moved => lastSend <= Window]_vars
  BY OnlyFullWindowRefuses DEF TInv
<1> QED
  BY <1>1, <1>2, <1>3, Invariance, PTL DEF Spec, RefusedWhenBusy
=============================================================================
