---------------------------- MODULE SenderProofs ----------------------------
(***************************************************************************)
(* Proofs about the sync worker, for any number of batches, chunks and     *)
(* attempts.                                                               *)
(***************************************************************************)
EXTENDS Sender, FiniteSetTheorems, TLAPS

LEMMA IdleType == IdleWorker \in Workers
<1>1. (CHOOSE b \in Batches : TRUE) \in Batches
  BY BatchesAssumption
<1> QED
  BY <1>1, NumChunksAssumption, MaxAttemptsAssumption
     DEF IdleWorker, Workers, WorkerSteps

(* What the control state says of the counters: it is what keeps them       *)
(* within their bounds.                                                     *)
Counts ==
  /\ worker.start <= worker.next
  /\ worker.acked <= worker.next - worker.start
  /\ worker.pc \in {"store", "begin", "manifest", "manifest_wait"} =>
       worker.start = 0 /\ worker.next = 0 /\ worker.attempt = 0
  /\ worker.pc = "resume" => worker.attempt = 0
  /\ worker.pc \in {"resume", "chunk", "chunk_wait"} => worker.next < NumChunks
  /\ worker.pc = "chunk" => worker.attempt < MaxAttempts
  /\ worker.pc = "finish" => worker.next = NumChunks

TInv == TypeOK /\ Counts

LEMMA InitTyped == Init => TInv
BY IdleType, NumChunksAssumption
   DEF Init, TInv, TypeOK, Counts, StateFiles, Statuses, IdleWorker

LEMMA TypeStep == TInv /\ [Next]_vars => TInv'
<1> SUFFICES ASSUME TInv, [Next]_vars PROVE TInv'
  OBVIOUS
<1> USE NumChunksAssumption, MaxAttemptsAssumption
    DEF TInv, TypeOK, Counts, Workers, WorkerSteps, StateFiles, Statuses, At,
        Goto, SaveState
<1>a. ASSUME NEW gain \in {0, 1}, At("chunk_wait"), HandleNext(gain)
      PROVE  worker' \in Workers /\ Counts'
  <2>1. /\ worker.next \in Nat /\ worker.next < NumChunks
        /\ worker.acked \in Nat /\ worker.start \in Nat
        /\ worker.acked + gain <= worker.next + 1 - worker.start
    BY <1>a
  <2>2. worker.next + 1 \in 0 .. NumChunks /\ worker.acked + gain \in 0 .. NumChunks
    BY <2>1
  <2>3. worker' \in Workers
    <3> DEFINE pc == IF worker.next + 1 = NumChunks THEN "finish" ELSE "chunk"
    <3>1. pc \in WorkerSteps /\ 0 \in 0 .. MaxAttempts
      OBVIOUS
    <3>2. worker' = [worker EXCEPT !.pc = pc, !.next = @ + 1,
                                   !.acked = @ + gain, !.attempt = 0]
      BY <1>a DEF HandleNext
    <3> HIDE DEF pc
    <3> QED
      BY <2>2, <3>1, <3>2
  <2>4. /\ worker'.start = worker.start /\ worker'.next = worker.next + 1
        /\ worker'.acked = worker.acked + gain /\ worker'.attempt = 0
        /\ worker'.pc = IF worker.next + 1 = NumChunks THEN "finish" ELSE "chunk"
    BY <1>a DEF HandleNext
  <2>5. Counts'
    BY <2>1, <2>4
  <2> QED
    BY <2>3, <2>5
<1>1. ASSUME NEW b \in Batches, StartCycle(b) PROVE TInv'
  <2>1. worker' \in Workers
    BY <1>1, IdleType DEF StartCycle
  <2>2. /\ worker'.start = 0 /\ worker'.next = 0 /\ worker'.acked = 0
        /\ worker'.attempt = 0 /\ worker'.pc = "store"
    BY <1>1 DEF StartCycle, IdleWorker
  <2>3. Counts'
    BY <2>2
  <2> QED
    BY <1>1, <2>1, <2>3 DEF StartCycle
<1>2. CASE StorePending
  BY <1>2 DEF StorePending, IdleWorker
<1>3. CASE BeginSending
  BY <1>3 DEF BeginSending, IdleWorker
<1>4. CASE PostManifest
  BY <1>4 DEF PostManifest
<1>5. CASE ManifestDone
  BY <1>5 DEF ManifestDone
<1>6. CASE ManifestFailed
  BY <1>6, IdleType DEF ManifestFailed, IdleWorker
<1>7. CASE PostChunk
  <2>1. /\ worker.attempt \in 0 .. MaxAttempts
        /\ worker.attempt < MaxAttempts
    BY <1>7 DEF PostChunk
  <2>2. worker.attempt + 1 \in 0 .. MaxAttempts
    BY <2>1
  <2>3. worker' \in Workers
    BY <1>7, <2>2 DEF PostChunk
  <2>4. /\ worker'.start = worker.start /\ worker'.next = worker.next
        /\ worker'.acked = worker.acked /\ worker'.pc = "chunk_wait"
    BY <1>7 DEF PostChunk
  <2>5. Counts'
    BY <1>7, <2>4 DEF PostChunk
  <2> QED
    BY <1>7, <2>3, <2>5 DEF PostChunk
<1>8. CASE ChunkDone
  <2>1. worker.next \in Chunks
    BY <1>8 DEF ChunkDone, Chunks
  <2>2. confirmed' \in [Batches -> SUBSET Chunks]
    BY <1>8, <2>1 DEF ChunkDone
  <2> QED
    BY <1>8, <1>a, <2>2 DEF ChunkDone
<1>9. CASE ChunkFailed
  <2>1. CASE HandleNext(0)
    BY <1>9, <1>a, <2>1 DEF ChunkFailed
  <2>2. CASE worker.attempt < MaxAttempts /\ Goto("chunk")
    BY <1>9, <2>2 DEF ChunkFailed
  <2> QED
    BY <1>9, <2>1, <2>2 DEF ChunkFailed
<1>10. CASE FinishBatch
  BY <1>10, IdleType DEF FinishBatch, IdleWorker
<1>11. ASSUME NEW b \in Batches, BeginResume(b) PROVE TInv'
  <2>1. stateFile[b].received \in 0 .. NumChunks /\ stateFile[b].received < NumChunks
    BY <1>11 DEF BeginResume
  <2>2. worker' \in Workers
    BY <1>11, <2>1, IdleType DEF BeginResume
  <2>3. /\ worker'.start = stateFile[b].received
        /\ worker'.next = stateFile[b].received
        /\ worker'.acked = 0 /\ worker'.attempt = 0 /\ worker'.pc = "resume"
    BY <1>11 DEF BeginResume, IdleWorker
  <2>4. Counts'
    BY <2>1, <2>3
  <2> QED
    BY <1>11, <2>2, <2>4 DEF BeginResume
<1>12. CASE ResumeSending
  BY <1>12 DEF ResumeSending
<1>13. CASE WorkerCrash
  BY <1>13, IdleType DEF WorkerCrash, IdleWorker
<1>14. CASE UNCHANGED vars
  BY <1>14 DEF vars
<1> QED
  BY <1>1, <1>2, <1>3, <1>4, <1>5, <1>6, <1>7, <1>8, <1>9, <1>10, <1>11,
     <1>12, <1>13, <1>14
     DEF Next, Local, Post, Answered

(* The worker's state and its files always have their types.                *)
THEOREM TypeCorrect == Spec => []TypeOK
<1>1. TInv => TypeOK
  BY DEF TInv
<1> QED
  BY <1>1, InitTyped, TypeStep, PTL DEF Spec

-----------------------------------------------------------------------------
(* What the counter of acknowledged chunks stands for                       *)

(* The chunks of the present run over the list that were acknowledged.      *)
Seen == {i \in confirmed[worker.batch] : worker.start <= i /\ i < worker.next}

(* There are at least as many as the counter says; if none is missing from  *)
(* the counter, none is missing from them; and a batch that was never       *)
(* resumed is gone through from chunk 0.                                    *)
Counted ==
  /\ worker.acked <= Cardinality(Seen)
  /\ worker.acked = worker.next - worker.start =>
       \A i \in Chunks : worker.start <= i /\ i < worker.next => i \in Seen
  /\ worker.batch \notin resumed => worker.start = 0

AInv == /\ TInv
        /\ Counted
        /\ ReceivedIsConfirmed
        /\ AckedIsConfirmed

LEMMA ChunksFinite == IsFiniteSet(Chunks)
BY FS_Interval, NumChunksAssumption DEF Chunks

LEMMA ConfirmedFinite ==
  ASSUME TInv, NEW b \in Batches
  PROVE  IsFiniteSet(confirmed[b]) /\ Cardinality(confirmed[b]) \in Nat
<1>1. confirmed[b] \in SUBSET Chunks
  BY DEF TInv, TypeOK
<1> QED
  BY <1>1, ChunksFinite, FS_Subset, FS_CardinalityType

LEMMA SeenFinite ==
  ASSUME TInv
  PROVE  /\ IsFiniteSet(Seen) /\ Cardinality(Seen) \in Nat
         /\ Cardinality(Seen) <= Cardinality(confirmed[worker.batch])
<1>1. worker.batch \in Batches
  BY DEF TInv, TypeOK, Workers
<1>2. Seen \in SUBSET confirmed[worker.batch]
  BY DEF Seen
<1> QED
  BY <1>1, <1>2, ConfirmedFinite, FS_Subset, FS_CardinalityType

(* A worker that has done nothing yet has counted right.                    *)
LEMMA FreshCounted ==
  ASSUME TInv, worker.acked = 0, worker.next = worker.start,
         worker.batch \notin resumed => worker.start = 0
  PROVE  Counted
BY SeenFinite DEF Counted, TInv, TypeOK, Workers, Chunks

LEMMA InitCounted == Init => AInv
<1> SUFFICES ASSUME Init PROVE AInv
  OBVIOUS
<1>1. TInv
  BY InitTyped
<1>2. Counted
  BY <1>1, FreshCounted DEF Init, IdleWorker
<1>3. ReceivedIsConfirmed
  BY <1>1, ConfirmedFinite DEF Init, ReceivedIsConfirmed
<1>4. AckedIsConfirmed
  BY DEF Init, AckedIsConfirmed
<1> QED
  BY <1>1, <1>2, <1>3, <1>4 DEF AInv

(* Handling one more chunk keeps the count right.                           *)
LEMMA HandledCounted ==
  ASSUME AInv, TInv', At("chunk_wait"), NEW gain \in {0, 1}, HandleNext(gain),
         UNCHANGED resumed,
         confirmed' = IF gain = 1
                      THEN [confirmed EXCEPT ![worker.batch] = @ \cup {worker.next}]
                      ELSE confirmed
  PROVE  Counted'
<1> DEFINE b == worker.batch
           n == worker.next
<1>1. /\ b \in Batches /\ n \in Chunks /\ n \in Nat /\ worker.start \in Nat
      /\ worker.acked \in Nat /\ worker.start <= n
      /\ worker.acked <= n - worker.start
  BY NumChunksAssumption DEF AInv, TInv, TypeOK, Counts, Workers, At, Chunks
<1>2. /\ worker'.batch = b /\ worker'.start = worker.start
      /\ worker'.next = n + 1 /\ worker'.acked = worker.acked + gain
  BY DEF AInv, TInv, TypeOK, Workers, HandleNext
<1>3. confirmed[b] \in SUBSET Chunks /\ Chunks \subseteq Int
  BY <1>1 DEF AInv, TInv, TypeOK, Chunks
<1>4. CASE gain = 1
  <2>1. confirmed'[b] = confirmed[b] \cup {n}
    BY <1>1, <1>4 DEF AInv, TInv, TypeOK
  <2>2. Seen' = Seen \cup {n}
    <3>1. Seen' = {i \in confirmed[b] \cup {n} : worker.start <= i /\ i < n + 1}
      BY <1>2, <2>1 DEF Seen
    <3>2. Seen = {i \in confirmed[b] : worker.start <= i /\ i < n}
      BY DEF Seen
    <3>3. \A i \in confirmed[b] : i \in Int
      BY <1>3
    <3> QED
      BY <1>1, <3>1, <3>2, <3>3
  <2>3. n \notin Seen
    BY <1>1 DEF Seen
  <2>4. Cardinality(Seen') = Cardinality(Seen) + 1
    BY <2>2, <2>3, SeenFinite, FS_AddElement DEF AInv
  <2>5. worker'.acked <= Cardinality(Seen')
    BY <1>1, <1>2, <1>4, <2>4, SeenFinite DEF AInv, Counted
  <2>6. worker'.acked = worker'.next - worker'.start =>
           \A i \in Chunks : worker'.start <= i /\ i < worker'.next => i \in Seen'
    BY <1>1, <1>2, <1>3, <1>4, <2>2 DEF AInv, Counted
  <2> QED
    BY <1>2, <2>5, <2>6 DEF AInv, Counted
<1>5. CASE gain = 0
  <2>1. confirmed'[b] = confirmed[b]
    BY <1>5
  <2>2. Seen \in SUBSET (Seen')
    <3>1. Seen' = {i \in confirmed[b] : worker.start <= i /\ i < n + 1}
      BY <1>2, <2>1 DEF Seen
    <3>2. Seen = {i \in confirmed[b] : worker.start <= i /\ i < n}
      BY DEF Seen
    <3>3. \A i \in confirmed[b] : i \in Int
      BY <1>3
    <3> QED
      BY <1>1, <3>1, <3>2, <3>3
  <2>3. Cardinality(Seen) <= Cardinality(Seen') /\ Cardinality(Seen') \in Nat
    <3>1. Seen' \in SUBSET Chunks
      BY <1>1, <1>2, <1>3, <2>1 DEF Seen
    <3>2. IsFiniteSet(Seen') /\ Cardinality(Seen') \in Nat
      BY <3>1, ChunksFinite, FS_Subset, FS_CardinalityType
    <3> QED
      BY <2>2, <3>2, FS_Subset
  <2>4. worker'.acked <= Cardinality(Seen')
    BY <1>1, <1>2, <1>5, <2>3, SeenFinite DEF AInv, Counted
  <2>5. worker'.acked # worker'.next - worker'.start
    BY <1>1, <1>2, <1>5
  <2> QED
    BY <1>2, <2>4, <2>5 DEF AInv, Counted
<1> QED
  BY <1>4, <1>5

(* A step that leaves the run's counters and what was confirmed alone.      *)
LEMMA SameCounted ==
  ASSUME Counted, UNCHANGED <<confirmed, resumed>>,
         worker'.batch = worker.batch, worker'.start = worker.start,
         worker'.next = worker.next, worker'.acked = worker.acked
  PROVE  Counted'
<1>1. Seen' = Seen
  BY DEF Seen
<1> QED
  BY <1>1 DEF Counted

(* The same for a step that begins a run or ends it.                        *)
LEMMA FreshAgain ==
  ASSUME TInv', worker'.acked = 0, worker'.next = worker'.start,
         worker'.batch \notin resumed' => worker'.start = 0
  PROVE  Counted'
<1>1. worker'.batch \in Batches /\ worker'.start \in Int
      /\ confirmed'[worker'.batch] \in SUBSET Chunks
  BY DEF TInv, TypeOK, Workers
<1>2. Seen' \in SUBSET Chunks
  BY <1>1 DEF Seen
<1>3. Cardinality(Seen') \in Nat
  BY <1>2, ChunksFinite, FS_Subset, FS_CardinalityType
<1>4. \A i \in Chunks : ~(worker'.start <= i /\ i < worker'.next)
  BY <1>1, NumChunksAssumption DEF Chunks
<1> QED
  BY <1>3, <1>4 DEF Counted

(* What was confirmed is never taken back, so a state file that the step    *)
(* does not write stays right.                                              *)
LEMMA FilesStayRight ==
  ASSUME AInv, TInv', NEW b \in Batches, stateFile'[b] = stateFile[b],
         confirmed[b] \subseteq confirmed'[b], resumed \subseteq resumed'
  PROVE  /\ stateFile'[b].received <= Cardinality(confirmed'[b])
         /\ (b \notin resumed' /\ stateFile'[b].status = "acked")
              => confirmed'[b] = Chunks
<1>1. confirmed[b] \in SUBSET Chunks /\ confirmed'[b] \in SUBSET Chunks
      /\ stateFile[b].received \in Nat
  BY DEF AInv, TInv, TypeOK, StateFiles
<1>2. IsFiniteSet(confirmed'[b]) /\ Cardinality(confirmed'[b]) \in Nat
      /\ Cardinality(confirmed[b]) \in Nat
  BY <1>1, ChunksFinite, FS_Subset, FS_CardinalityType
<1>3. Cardinality(confirmed[b]) <= Cardinality(confirmed'[b])
  BY <1>2, FS_Subset
<1>4. stateFile[b].received <= Cardinality(confirmed[b])
  BY DEF AInv, ReceivedIsConfirmed
<1>5. (b \notin resumed /\ stateFile[b].status = "acked") => confirmed[b] = Chunks
  BY DEF AInv, AckedIsConfirmed
<1>6. stateFile'[b].received <= Cardinality(confirmed'[b])
  BY <1>1, <1>2, <1>3, <1>4
<1>7. ASSUME b \notin resumed', stateFile'[b].status = "acked"
      PROVE  confirmed'[b] = Chunks
  BY <1>1, <1>5, <1>7
<1> QED
  BY <1>6, <1>7

LEMMA CountStep == AInv /\ TInv' /\ [Next]_vars => AInv'
<1> SUFFICES ASSUME AInv, TInv', [Next]_vars PROVE AInv'
  OBVIOUS
<1> DEFINE b == worker.batch
           Right(c) ==
             /\ stateFile'[c].received <= Cardinality(confirmed'[c])
             /\ (c \notin resumed' /\ stateFile'[c].status = "acked")
                  => confirmed'[c] = Chunks
<1>a. b \in Batches /\ Counted /\ TypeOK /\ Counts
  BY DEF AInv, TInv, TypeOK, Workers
<1>b. ASSUME Counted', \A c \in Batches : Right(c) PROVE AInv'
  BY <1>b DEF AInv, ReceivedIsConfirmed, AckedIsConfirmed
<1>c. ASSUME UNCHANGED <<confirmed, resumed>>, NEW status \in Statuses \ {"acked"},
             SaveState(status, 0)
      PROVE  \A c \in Batches : Right(c)
  <2>1. Right(b)
    <3>1. stateFile'[b] = [status |-> status, received |-> 0]
      BY <1>a, <1>c DEF SaveState, TypeOK
    <3>2. Cardinality(confirmed'[b]) \in Nat
      BY <1>a, <1>c, ConfirmedFinite DEF AInv
    <3> QED
      BY <1>c, <3>1, <3>2
  <2>2. \A c \in Batches \ {b} : stateFile'[c] = stateFile[c]
    BY <1>a, <1>c DEF SaveState, TypeOK
  <2> QED
    BY <1>c, <2>1, <2>2, FilesStayRight
<1>d. ASSUME UNCHANGED <<confirmed, stateFile>>, resumed \subseteq resumed'
      PROVE  \A c \in Batches : Right(c)
  BY <1>d, FilesStayRight
<1>1. ASSUME NEW c \in Batches, StartCycle(c) PROVE AInv'
  BY <1>1, <1>b, <1>d, FreshAgain DEF StartCycle, IdleWorker
<1>2. CASE StorePending \/ BeginSending \/ ResumeSending
  <2>1. Counted'
    BY <1>2, <1>a, SameCounted
       DEF StorePending, BeginSending, ResumeSending, Goto, TypeOK, Workers
  <2>2. \A c \in Batches : Right(c)
    BY <1>2, <1>c DEF StorePending, BeginSending, ResumeSending, Statuses
  <2> QED
    BY <1>b, <2>1, <2>2
<1>3. CASE PostManifest \/ ManifestDone \/ PostChunk
  <2>1. Counted'
    BY <1>3, <1>a, SameCounted
       DEF PostManifest, ManifestDone, PostChunk, Goto, TypeOK, Workers
  <2> QED
    BY <1>3, <1>b, <1>d, <2>1 DEF PostManifest, ManifestDone, PostChunk
<1>4. CASE ManifestFailed
  BY <1>4, <1>b, <1>d, FreshAgain DEF ManifestFailed, IdleWorker
<1>5. CASE ChunkDone
  <2>1. Counted'
    BY <1>5, HandledCounted DEF ChunkDone
  <2>2. \A c \in Batches : confirmed[c] \subseteq confirmed'[c]
    BY <1>5, <1>a DEF ChunkDone, TypeOK
  <2> QED
    BY <1>5, <1>b, <2>1, <2>2, FilesStayRight DEF ChunkDone
<1>6. CASE ChunkFailed
  <2>1. CASE HandleNext(0)
    BY <1>6, <1>b, <1>d, <2>1, HandledCounted DEF ChunkFailed
  <2>2. CASE Goto("chunk")
    <3>1. Counted'
      BY <1>6, <1>a, <2>2, SameCounted DEF ChunkFailed, Goto, TypeOK, Workers
    <3> QED
      BY <1>6, <1>b, <1>d, <3>1 DEF ChunkFailed
  <2> QED
    BY <1>6, <2>1, <2>2 DEF ChunkFailed
<1>7. CASE FinishBatch
  <2>1. Counted'
    BY <1>7, FreshAgain DEF FinishBatch, IdleWorker
  <2>2. \A c \in Batches \ {b} : stateFile'[c] = stateFile[c]
    BY <1>7, <1>a DEF FinishBatch, SaveState, TypeOK
  <2>3. /\ stateFile'[b].received = worker.acked
        /\ stateFile'[b].status = "acked" => worker.acked = NumChunks - worker.start
        /\ confirmed' = confirmed /\ resumed' = resumed
        /\ worker.next = NumChunks
    <3>1. stateFile'[b] =
            [status |-> IF worker.acked = NumChunks - worker.start
                        THEN "acked" ELSE "failed",
             received |-> worker.acked]
      BY <1>7, <1>a DEF FinishBatch, SaveState, TypeOK
    <3>2. confirmed' = confirmed /\ resumed' = resumed /\ worker.next = NumChunks
      BY <1>7, <1>a DEF FinishBatch, At, Counts
    <3> QED
      BY <3>1, <3>2
  <2>4. worker.acked <= Cardinality(confirmed[b])
    <3>1. worker.acked \in Nat
      BY <1>a DEF TypeOK, Workers
    <3> QED
      BY <1>a, <3>1, SeenFinite, ConfirmedFinite DEF AInv, Counted
  <2>5. ASSUME b \notin resumed, stateFile'[b].status = "acked"
        PROVE  confirmed[b] = Chunks
    <3>1. \A i \in Chunks : 0 <= i /\ i < NumChunks
      BY NumChunksAssumption DEF Chunks
    <3>2. \A i \in Chunks : i \in Seen
      BY <1>a, <2>3, <2>5, <3>1 DEF Counted
    <3>3. confirmed[b] \subseteq Chunks
      BY <1>a DEF TypeOK
    <3> QED
      BY <3>2, <3>3 DEF Seen
  <2>6. Right(b)
    BY <2>3, <2>4, <2>5
  <2> QED
    BY <1>b, <2>1, <2>2, <2>3, <2>6, FilesStayRight
<1>8. ASSUME NEW c \in Batches, BeginResume(c) PROVE AInv'
  BY <1>8, <1>b, <1>d, FreshAgain DEF BeginResume, IdleWorker
<1>9. CASE WorkerCrash
  <2>1. Counted'
    BY <1>9, FreshAgain DEF WorkerCrash, IdleWorker
  <2>2. \A c \in Batches : Right(c)
    BY <1>9, <1>c, <1>d DEF WorkerCrash, Statuses
  <2> QED
    BY <1>b, <2>1, <2>2
<1>10. CASE UNCHANGED vars
  <2>1. Counted'
    BY <1>10, <1>a, SameCounted DEF vars
  <2> QED
    BY <1>10, <1>b, <1>d, <2>1 DEF vars
<1> QED
  BY <1>1, <1>2, <1>3, <1>4, <1>5, <1>6, <1>7, <1>8, <1>9, <1>10
     DEF Next, Local, Post, Answered

THEOREM Invariance == Spec => []AInv
<1>1. AInv /\ [Next]_vars => AInv'
  BY TypeStep, CountStep DEF AInv
<1> QED
  BY <1>1, InitCounted, PTL DEF Spec

(* The received count of a state file never exceeds what was acknowledged,  *)
(* with or without resume_batch and crashes.                                *)
THEOREM ReceivedCountsConfirmed == Spec => []ReceivedIsConfirmed
<1>1. AInv => ReceivedIsConfirmed
  BY DEF AInv
<1> QED
  BY <1>1, Invariance, PTL

(* A batch that was never resumed and is recorded as acked has had every    *)
(* chunk acknowledged, in whatever order cycles, resumes and crashes come.  *)
THEOREM AckedMeansConfirmed == Spec => []AckedIsConfirmed
<1>1. AInv => AckedIsConfirmed
  BY DEF AInv
<1> QED
  BY <1>1, Invariance, PTL
=============================================================================
