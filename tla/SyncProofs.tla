----------------------------- MODULE SyncProofs -----------------------------
(***************************************************************************)
(* Proofs about the sync pipeline end to end, for any number of batches,   *)
(* chunks, attempts and validation threads.  The invariants of the worker  *)
(* and of the receiver are taken over from their own proofs, since every   *)
(* step of the pipeline is a step of the one, of the other, or of neither. *)
(***************************************************************************)
EXTENDS SyncSystem, FiniteSetTheorems, TLAPS

SP == INSTANCE SenderProofs
RP == INSTANCE ReceiverProofs WITH Chunks <- 0 .. NumChunks - 1

(* What SenderProofs and ReceiverProofs need of the constants.              *)
LEMMA Constants ==
  /\ Batches # {} /\ NumChunks \in Nat \ {0} /\ MaxAttempts \in Nat \ {0}
  /\ MaxRows \in Nat \ {0}
  /\ 0 .. NumChunks - 1 # {}
  /\ CanResume \in BOOLEAN
  /\ CanCrash \in BOOLEAN /\ DbErrors \in BOOLEAN
  /\ FundsHasFundLike \in BOOLEAN /\ HasReceivedBatches \in BOOLEAN
<1>1. 0 \in 0 .. NumChunks - 1
  BY NumChunksAssumption
<1> QED
  BY <1>1, BatchesAssumption, NumChunksAssumption, MaxAttemptsAssumption,
     MaxRowsAssumption, FlagsAssumption

(* The types of what is under way between the hosts.                        *)
NetworkTyped ==
  /\ flight \subseteq [req : RP!Requests, post : 0 .. MaxAttempts]
  /\ serving \in 0 .. MaxAttempts
  /\ responses \subseteq [req : RP!Requests, post : 0 .. MaxAttempts,
                          ok : BOOLEAN]
  /\ late \subseteq Batches
  /\ calls \in [Batches -> 0 .. MaxRows]

-----------------------------------------------------------------------------
(* The two ends                                                             *)

(* Each step of the pipeline is a step of the worker or leaves the worker   *)
(* alone.                                                                   *)
LEMMA WorkerSide == [Next]_vars => [SP!Next]_(SP!vars)
<1> SUFFICES ASSUME [Next]_vars PROVE [SP!Next]_(SP!vars)
  OBVIOUS
<1> USE DEF senderVars, SP!vars
<1>1. CASE WorkerStep
  BY <1>1
     DEF WorkerStep, S!StartCycle, S!BeginResume, S!Local, S!StorePending,
         S!BeginSending, S!ResumeSending, S!FinishBatch, S!At, S!Goto,
         S!SaveState, S!IdleWorker,
         SP!Next, SP!StartCycle, SP!BeginResume, SP!Local, SP!StorePending,
         SP!BeginSending, SP!ResumeSending, SP!FinishBatch, SP!At, SP!Goto,
         SP!SaveState, SP!IdleWorker
<1>2. CASE PostManifest \/ PostChunk
  BY <1>2
     DEF PostManifest, PostChunk, S!PostManifest, S!PostChunk, S!At, S!Goto,
         SP!Next, SP!Post, SP!PostManifest, SP!PostChunk, SP!At, SP!Goto
<1>3. CASE Timeout \/ \E a \in responses : Answer(a)
  <2>1. S!ManifestDone \/ S!ManifestFailed \/ S!ChunkDone \/ S!ChunkFailed
    BY <1>3 DEF Timeout, Answer
  <2> QED
    BY <2>1
       DEF S!ManifestDone, S!ManifestFailed, S!ChunkDone, S!ChunkFailed,
           S!HandleNext, S!IdleWorker, S!At, S!Goto,
           SP!Next, SP!Answered, SP!ManifestDone, SP!ManifestFailed,
           SP!ChunkDone, SP!ChunkFailed, SP!HandleNext, SP!IdleWorker, SP!At,
           SP!Goto
<1>4. CASE WorkerCrash
  BY <1>4
     DEF WorkerCrash, S!WorkerCrash, S!At, S!SaveState, S!IdleWorker,
         SP!Next, SP!WorkerCrash, SP!At, SP!SaveState, SP!IdleWorker
<1>5. CASE UNCHANGED senderVars
  BY <1>5
<1> QED
  BY <1>1, <1>2, <1>3, <1>4, <1>5
     DEF Next, Deliver, LoseRequest, HandlerRuns, ThreadRuns, Respond, LoseResponse,
         ReceiverCrash, vars

(* The operators of the two instances of Receiver are the same.             *)
LEMMA SameOperators ==
  /\ R!Absent = RP!Absent /\ R!Torn = RP!Torn
  /\ R!IdleThread = RP!IdleThread /\ R!IdleHandler = RP!IdleHandler
  /\ \A s, m : R!Rec(s, m) = RP!Rec(s, m)
  /\ \A b : R!Known(b) = RP!Known(b)
<1>1. /\ R!NoChunks = RP!NoChunks
      /\ \A s, m : R!Rec(s, m) = RP!Rec(s, m)
  BY DEF R!NoChunks, RP!NoChunks, R!Rec, RP!Rec
<1>2. R!Absent = RP!Absent /\ R!Torn = RP!Torn
  BY <1>1 DEF R!Absent, RP!Absent, R!Torn, RP!Torn
<1>3. R!IdleThread = RP!IdleThread /\ R!IdleHandler = RP!IdleHandler
  BY <1>1 DEF R!IdleThread, RP!IdleThread, R!IdleHandler, RP!IdleHandler,
              R!AnyRequest, RP!AnyRequest
<1>4. ASSUME NEW b PROVE R!Known(b) = RP!Known(b)
  <2>1. R!Load(b) = RP!Load(b)
    BY <1>1, <1>2 DEF R!Load, RP!Load, R!Readable, RP!Readable
  <2> QED
    BY <1>2, <2>1 DEF R!Known, RP!Known
<1> QED
  BY <1>1, <1>2, <1>3, <1>4

(* Each step of the pipeline is a step of the receiver or leaves the        *)
(* receiver alone; first what the requests do.                              *)
LEMMA Received == ASSUME NEW r, R!Receive(r) PROVE RP!Receive(r)
<1> USE SameOperators
    DEF R!files, RP!files, R!memory, RP!memory, R!tables, RP!tables, R!Open,
        RP!Open, R!Reply, RP!Reply, R!Begin, RP!Begin, R!Reload, RP!Reload,
        R!SumMatches, RP!SumMatches, R!ChunkArrives, RP!ChunkArrives,
        R!SomeIdle, RP!SomeIdle
<1>1. CASE R!ReceiveManifest(r)
  BY <1>1 DEF R!ReceiveManifest, RP!ReceiveManifest, RP!Receive, R!NoChunks,
              RP!NoChunks
<1>2. CASE R!ReceiveDuplicate(r)
  BY <1>2 DEF R!ReceiveDuplicate, RP!ReceiveDuplicate, RP!Receive,
              R!IsComplete, RP!IsComplete, R!StartValidation,
              RP!StartValidation
<1>3. CASE R!RefuseUnknown(r)
  BY <1>3 DEF R!RefuseUnknown, RP!RefuseUnknown, RP!Receive
<1>4. CASE R!RejectChecksum(r)
  BY <1>4 DEF R!RejectChecksum, RP!RejectChecksum, RP!Receive
<1>5. CASE R!AcceptChunk(r)
  BY <1>5 DEF R!AcceptChunk, RP!AcceptChunk, RP!Receive
<1> QED
  BY <1>1, <1>2, <1>3, <1>4, <1>5 DEF R!Receive

LEMMA Handled == R!HandlerStep => RP!HandlerStep
<1> USE SameOperators
    DEF R!files, RP!files, R!memory, RP!memory, R!tables, RP!tables, R!Open,
        RP!Open, R!Write, RP!Write, R!Reply, RP!Reply, R!Goto, RP!Goto,
        R!NoChunks, RP!NoChunks, R!IsComplete, RP!IsComplete,
        R!StartValidation, RP!StartValidation
<1>1. CASE R!SaveNewBatch \/ R!SaveManifest
  BY <1>1 DEF R!SaveNewBatch, R!SaveManifest, RP!SaveNewBatch,
              RP!SaveManifest, RP!HandlerStep
<1>2. CASE R!StoreChunk \/ R!ListChunk \/ R!SavePending
  BY <1>2 DEF R!StoreChunk, R!ListChunk, R!SavePending, RP!StoreChunk,
              RP!ListChunk, RP!SavePending, RP!HandlerStep
<1>3. CASE R!CheckComplete \/ R!MarkFailed \/ R!SaveFailed
  BY <1>3 DEF R!CheckComplete, R!MarkFailed, R!SaveFailed, RP!CheckComplete,
              RP!MarkFailed, RP!SaveFailed, RP!HandlerStep
<1> QED
  BY <1>1, <1>2, <1>3 DEF R!HandlerStep

LEMMA ThreadRan == ASSUME NEW t, R!ThreadStep(t) PROVE RP!ThreadStep(t)
<1> USE SameOperators
    DEF R!files, RP!files, R!memory, RP!memory, R!tables, RP!tables, R!Open,
        RP!Open, R!Write, RP!Write, R!At, RP!At, R!Advance, RP!Advance,
        R!Finish, RP!Finish
<1>1. CASE R!ValidateIntact(t) \/ R!ValidateMismatch(t) \/ R!SaveComplete(t)
  BY <1>1 DEF R!ValidateIntact, R!ValidateMismatch, R!SaveComplete, R!Intact,
              RP!ValidateIntact, RP!ValidateMismatch, RP!SaveComplete,
              RP!Intact, RP!ThreadStep
<1>2. CASE R!LoadForProcessing(t)
  <2>1. R!LoadedIntact(thread[t].batch) <=> RP!LoadedIntact(thread[t].batch)
    BY DEF R!LoadedIntact, RP!LoadedIntact, R!Load, RP!Load, R!Readable,
           RP!Readable, R!Intact, RP!Intact
  <2> QED
    BY <1>2, <2>1 DEF R!LoadForProcessing, RP!LoadForProcessing, RP!ThreadStep
<1>3. CASE R!UpsertFunds(t) \/ R!SaveMarketSnapshot(t) \/ R!SaveHistory(t)
  BY <1>3 DEF R!UpsertFunds, R!SaveMarketSnapshot, R!SaveHistory,
              RP!UpsertFunds, RP!SaveMarketSnapshot, RP!SaveHistory,
              RP!ThreadStep
<1>4. CASE R!MarkProcessed(t) \/ R!TransactionFails(t)
  BY <1>4 DEF R!MarkProcessed, R!TransactionFails, R!Readable, RP!Readable,
              RP!MarkProcessed, RP!TransactionFails, RP!ThreadStep
<1> QED
  BY <1>1, <1>2, <1>3, <1>4 DEF R!ThreadStep

LEMMA ReceiverSide == NetworkTyped /\ [Next]_vars => [RP!Next]_(RP!vars)
<1> SUFFICES ASSUME NetworkTyped, [Next]_vars PROVE [RP!Next]_(RP!vars)
  OBVIOUS
<1> USE DEF receiverVars, RP!vars
<1>1. ASSUME NEW f \in flight, Deliver(f) PROVE RP!Next
  BY <1>1, Received DEF Deliver, NetworkTyped, RP!Next
<1>2. CASE HandlerRuns \/ \E t \in Threads : ThreadRuns(t)
  BY <1>2, Handled, ThreadRan DEF HandlerRuns, ThreadRuns, RP!Next
<1>3. CASE Respond
  BY <1>3, SameOperators
     DEF Respond, R!Respond, RP!Next, RP!Respond, R!files, RP!files, R!memory,
         RP!memory, R!tables, RP!tables
<1>4. CASE ReceiverCrash
  BY <1>4, SameOperators
     DEF ReceiverCrash, R!Crash, RP!Next, RP!Crash, R!files, RP!files,
         R!tables, RP!tables
<1>5. CASE UNCHANGED receiverVars
  BY <1>5
<1> QED
  BY <1>1, <1>2, <1>3, <1>4, <1>5
     DEF Next, WorkerStep, PostManifest, PostChunk, LoseRequest, Answer,
         LoseResponse, Timeout, WorkerCrash, vars

(* What the proofs of the two ends know of their states, here.              *)
EndsInv == SP!AInv /\ RP!IInv /\ NetworkTyped

LEMMA InitEnds == Init => EndsInv
<1> SUFFICES ASSUME Init PROVE EndsInv
  OBVIOUS
<1>1. SP!Init
  BY DEF Init, S!Init, S!IdleWorker, SP!Init, SP!IdleWorker
<1>2. RP!Init
  BY SameOperators DEF Init, R!Init, RP!Init, R!NoChunks, RP!NoChunks
<1>3. RP!IInv
  BY <1>2, RP!InitType, RP!InitSafe, Constants DEF RP!IInv
<1>4. SP!AInv
  BY <1>1, SP!InitCounted, Constants
<1>5. NetworkTyped
  BY MaxAttemptsAssumption, MaxRowsAssumption DEF Init, NetworkTyped
<1> QED
  BY <1>3, <1>4, <1>5 DEF EndsInv

LEMMA EndsStep == EndsInv /\ [Next]_vars => EndsInv'
<1> SUFFICES ASSUME EndsInv, [Next]_vars PROVE EndsInv'
  OBVIOUS
<1>1. SP!AInv'
  <2>1. SP!TInv /\ [SP!Next]_(SP!vars)
    BY WorkerSide DEF EndsInv, SP!AInv
  <2>2. SP!TInv'
    BY <2>1, SP!TypeStep, Constants
  <2> QED
    BY <2>1, <2>2, SP!CountStep, Constants DEF EndsInv
<1>2. RP!IInv'
  <2>1. RP!IInv /\ [RP!Next]_(RP!vars)
    BY ReceiverSide DEF EndsInv
  <2>2. RP!TypeOK'
    BY <2>1, RP!TypeStep, Constants DEF RP!IInv
  <2>3. RP!Safe'
    BY <2>1, <2>2, RP!SafeStep, Constants
  <2> QED
    BY <2>2, <2>3 DEF RP!IInv
<1>3. NetworkTyped'
  <2> USE DEF NetworkTyped, observers
  <2>0. NetworkTyped /\ worker.batch \in Batches
    BY DEF EndsInv, SP!AInv, SP!TInv, SP!TypeOK, SP!Workers
  <2>1. CASE PostManifest
    <3>1. ManifestRequest \in RP!Requests /\ 0 \in 0 .. MaxAttempts
      BY <2>0, MaxAttemptsAssumption DEF ManifestRequest, RP!Requests
    <3> QED
      BY <2>0, <2>1, <3>1 DEF PostManifest
  <2>2. CASE PostChunk
    <3>1. /\ worker.next \in 0 .. NumChunks /\ worker.next < NumChunks
          /\ worker.attempt \in 0 .. MaxAttempts /\ worker.attempt < MaxAttempts
      BY <2>2 DEF PostChunk, S!PostChunk, S!At, EndsInv, SP!AInv, SP!TInv,
                  SP!TypeOK, SP!Workers, SP!Counts
    <3>2. worker.next \in 0 .. NumChunks - 1 /\ worker.attempt + 1 \in 0 .. MaxAttempts
      BY <3>1, NumChunksAssumption, MaxAttemptsAssumption
    <3>3. ChunkRequest \in RP!Requests
      BY <2>0, <3>2 DEF ChunkRequest, RP!Requests, RP!Payloads
    <3> QED
      BY <2>0, <2>2, <3>2, <3>3 DEF PostChunk
  <2>3. ASSUME NEW f \in flight, Deliver(f) \/ LoseRequest(f) PROVE NetworkTyped'
    BY <2>0, <2>3 DEF Deliver, LoseRequest
  <2>4. CASE Respond
    <3>1. handler.req \in RP!Requests
      BY DEF EndsInv, RP!IInv, RP!TypeOK
    <3> DEFINE ok == handler.code \in {"accepted", "duplicate"}
    <3>2. responses' = responses \cup {[req |-> handler.req, post |-> serving,
                                        ok |-> ok]}
      BY <2>4 DEF Respond
    <3>3. ok \in BOOLEAN
      OBVIOUS
    <3> HIDE DEF ok
    <3> QED
      BY <2>0, <2>4, <3>1, <3>2, <3>3 DEF Respond
  <2>5. ASSUME NEW a \in responses, Answer(a) \/ LoseResponse(a)
        PROVE  NetworkTyped'
    BY <2>0, <2>5 DEF Answer, LoseResponse
  <2>6. CASE Timeout
    BY <2>0, <2>6 DEF Timeout, network
  <2>7. CASE UNCHANGED <<network, observers>>
    BY <2>0, <2>7 DEF network, observers
  <2>8. ASSUME NEW t \in Threads, ThreadRuns(t) PROVE NetworkTyped'
    <3> DEFINE b == thread[t].batch
               n == IF R!At(t, "save") /\ calls[b] < MaxRows THEN calls[b] + 1
                                                            ELSE calls[b]
    <3>1. calls' = [calls EXCEPT ![b] = n]
      BY <2>8 DEF ThreadRuns
    <3>2. b \in Batches
      BY DEF EndsInv, RP!IInv, RP!TypeOK
    <3>3. n \in 0 .. MaxRows
      BY <2>0, <3>2, MaxRowsAssumption
    <3>4. UNCHANGED <<flight, serving, responses, late>>
      BY <2>8 DEF ThreadRuns, network, observers
    <3> HIDE DEF b, n
    <3> QED
      BY <2>0, <3>1, <3>2, <3>3, <3>4
  <2> QED
    BY <2>1, <2>2, <2>3, <2>4, <2>5, <2>6, <2>7, <2>8
       DEF Next, WorkerStep, HandlerRuns, ThreadRuns, ReceiverCrash, WorkerCrash, vars,
           network, observers
<1> QED
  BY <1>1, <1>2, <1>3 DEF EndsInv

(* The worker, the network and the receiver always have their types.        *)
THEOREM TypeCorrect == Spec => []TypeOK
<1>1. EndsInv => TypeOK
  <2> SUFFICES ASSUME EndsInv PROVE TypeOK
    OBVIOUS
  <2>1. S!TypeOK
    BY DEF EndsInv, SP!AInv, SP!TInv, SP!TypeOK, SP!Workers, SP!WorkerSteps,
           SP!StateFiles, SP!Statuses, SP!Chunks, S!TypeOK, S!Workers,
           S!WorkerSteps, S!StateFiles, S!Statuses, S!Chunks
  <2>2. R!Requests = RP!Requests
    BY DEF R!Requests, RP!Requests, R!Payloads, RP!Payloads
  <2>3. R!TypeOK
    BY <2>2 DEF EndsInv, RP!IInv, RP!TypeOK, RP!BatchRecs, RP!Statuses,
           RP!ChunkMaps, RP!Contents, RP!Payloads, RP!HandlerSteps, RP!Codes,
           RP!StoringSteps, RP!ThreadSteps, R!TypeOK, R!BatchRecs,
           R!Statuses, R!ChunkMaps, R!Contents, R!Payloads, R!HandlerSteps,
           R!Codes, R!StoringSteps, R!ThreadSteps
  <2> QED
    BY <2>1, <2>2, <2>3 DEF EndsInv, NetworkTyped, TypeOK
<1> QED
  BY <1>1, InitEnds, EndsStep, PTL DEF Spec

(* Every behaviour of the pipeline is, seen from its ends, one of the       *)
(* worker alone and one of the receiver alone: what is proved of them holds *)
(* in the pipeline, that the receiver implements BatchIntake included.      *)
THEOREM EndsImplemented == Spec => SP!Spec /\ RP!Spec /\ RP!ImplementsIntake
<1>1. Init => SP!Init /\ RP!Init
  BY SameOperators
     DEF Init, S!Init, S!IdleWorker, SP!Init, SP!IdleWorker, R!Init, RP!Init,
         R!NoChunks, RP!NoChunks
<1>2. EndsInv /\ [Next]_vars => [SP!Next]_(SP!vars) /\ [RP!Next]_(RP!vars)
  BY WorkerSide, ReceiverSide DEF EndsInv
<1>3. RP!Spec => RP!ImplementsIntake
  BY RP!Implements, Constants
<1> QED
  BY <1>1, <1>2, <1>3, InitEnds, EndsStep, PTL DEF Spec, SP!Spec, RP!Spec

-----------------------------------------------------------------------------
(* An acked batch is at the receiver                                        *)

Chunks == 0 .. NumChunks - 1

(* A chunk that the receiver has told the worker it has: its file is there, *)
(* and whole unless processes crash.                                        *)
Held(b, i) == /\ chunkFile[b][i] # "none"
              /\ ~CanCrash => chunkFile[b][i] = "good"

IsChunk(r) == r.kind = "chunk"
IsAck(code) == code \in {"accepted", "duplicate"}

(* From the request to the acknowledgement.  The worker never sends a chunk *)
(* with the checksum of its own payload, so a chunk is accepted only if it  *)
(* is genuine and the only one of its batch.                                *)
ChunksSent == \A f \in flight : IsChunk(f.req) => f.req.sum # "own"

ChunkServed ==
  LET r == handler.req
  IN /\ handler.pc \in RP!StoringSteps => r.payload = "good" /\ Chunks = {r.chunk}
     /\ (IsChunk(r) /\ \/ handler.pc \in RP!StoringSteps \ {"chunk_file"}
                       \/ handler.pc = "reply" /\ IsAck(handler.code))
          => Held(r.batch, r.chunk)
     /\ handler.pc \in {"manifest_batch", "manifest_file"} => ~IsChunk(r)

ChunksAnswered ==
  \A a \in responses : a.ok /\ IsChunk(a.req) => Held(a.req.batch, a.req.chunk)

ChunksConfirmed == \A b \in Batches : \A i \in confirmed[b] : Held(b, i)

(* Without crashes a file is torn only while the handler writes it; and no  *)
(* chunk of a batch of several is ever stored.                              *)
FilesWhole ==
  ~CanCrash => \A b \in Batches, i \in Chunks :
                 \/ chunkFile[b][i] \in {"none", "good"}
                 \/ /\ handler.pc = "chunk_file"
                    /\ handler.req.batch = b /\ handler.req.chunk = i

NothingOfSeveral ==
  NumChunks # 1 => \A b \in Batches, i \in Chunks : chunkFile[b][i] = "none"

(* The worker counts from a chunk that exists, and an acked batch is        *)
(* confirmed to the last chunk, be it resumed or not.                       *)
AckedConfirmed == /\ worker.start < NumChunks
                  /\ \A b \in Batches : Acked(b) => confirmed[b] = Chunks

HeldInv == /\ ChunksSent /\ ChunkServed /\ ChunksAnswered /\ ChunksConfirmed
           /\ FilesWhole /\ NothingOfSeveral /\ AckedConfirmed

LEMMA InitHeld == Init => HeldInv
<1> SUFFICES ASSUME Init PROVE HeldInv
  OBVIOUS
<1>1. handler.pc = "idle" /\ flight = {} /\ responses = {}
  BY DEF Init, R!Init, R!IdleHandler
<1>2. \A b \in Batches : /\ confirmed[b] = {} /\ stateFile[b].status = "absent"
                        /\ \A i \in Chunks : chunkFile[b][i] = "none"
  BY DEF Init, S!Init, R!Init, R!NoChunks, Chunks
<1>3. worker.start = 0
  BY DEF Init, S!Init, S!IdleWorker
<1>4. ChunksSent /\ ChunkServed /\ ChunksAnswered
  BY <1>1 DEF ChunksSent, ChunkServed, ChunksAnswered, RP!StoringSteps
<1>5. ChunksConfirmed /\ FilesWhole /\ NothingOfSeveral /\ AckedConfirmed
  BY <1>2, <1>3, NumChunksAssumption
     DEF ChunksConfirmed, FilesWhole, NothingOfSeveral, AckedConfirmed, Acked
<1> QED
  BY <1>4, <1>5 DEF HeldInv

LEMMA ChunkType ==
  /\ \A r \in RP!Requests :
       r.batch \in Batches /\ (IsChunk(r) => r.chunk \in Chunks)
  /\ EndsInv => chunkFile \in [Batches -> [Chunks -> RP!Contents]]
<1>1. \A r \in RP!Requests :
        r.batch \in Batches /\ (IsChunk(r) => r.chunk \in Chunks)
  BY DEF RP!Requests, IsChunk, Chunks
<1>2. EndsInv => chunkFile \in [Batches -> [Chunks -> RP!Contents]]
  BY DEF EndsInv, RP!IInv, RP!TypeOK, RP!ChunkMaps, Chunks
<1> QED
  BY <1>1, <1>2

(* The chunk file that a step writes: one that a request creates, torn, or  *)
(* the one that the handler has in hand, with what was sent.                *)
LEMMA FileWritten ==
  ASSUME EndsInv, HeldInv, [Next]_vars
  PROVE  \/ UNCHANGED chunkFile
         \/ LET r == handler.req
            IN /\ handler.pc = "chunk_file" /\ handler'.pc = "chunk_list"
               /\ r.batch \in Batches /\ r.chunk \in Chunks
               /\ r.payload = "good" /\ Chunks = {r.chunk}
               /\ chunkFile[r.batch][r.chunk] = "torn"
               /\ handler'.req = r
               /\ chunkFile' = [chunkFile EXCEPT ![r.batch][r.chunk] = "good"]
         \/ LET r == handler'.req
            IN /\ handler'.pc = "chunk_file" /\ IsChunk(r)
               /\ handler.pc = "idle"
               /\ r.batch \in Batches /\ r.chunk \in Chunks
               /\ r.payload = "good" /\ Chunks = {r.chunk}
               /\ chunkFile[r.batch][r.chunk] = "none"
               /\ chunkFile' = [chunkFile EXCEPT ![r.batch][r.chunk] = "torn"]
<1> USE DEF receiverVars
<1>1. CASE \E f \in flight : Deliver(f)
  <2>1. PICK f \in flight : Deliver(f)
    BY <1>1
  <2>2. f.req \in RP!Requests /\ RP!Receive(f.req)
    BY <2>1, Received DEF Deliver, EndsInv, NetworkTyped
  <2>3. CASE RP!AcceptChunk(f.req)
    <3>1. f.req.payload = "good" /\ Chunks = {f.req.chunk}
      BY <2>2, <2>3 DEF RP!AcceptChunk, RP!SumMatches, RP!ChunkArrives, HeldInv,
                  ChunksSent, IsChunk, Chunks
    <3> QED
      BY <2>2, <2>3, <3>1, ChunkType DEF RP!AcceptChunk, RP!Begin, RP!ChunkArrives, IsChunk
  <2> QED
    BY <2>2, <2>3
       DEF RP!Receive, RP!ReceiveManifest, RP!ReceiveDuplicate,
           RP!RefuseUnknown, RP!RejectChecksum, RP!files
<1>2. CASE RP!StoreChunk
  <2>1. IsChunk(handler.req) /\ handler.req \in RP!Requests
    BY <1>2 DEF RP!StoreChunk, EndsInv, RP!IInv, RP!TypeOK, RP!StoringSteps, IsChunk
  <2>2. chunkFile[handler.req.batch][handler.req.chunk] = "torn"
    BY <1>2 DEF RP!StoreChunk, EndsInv, RP!IInv, RP!Safe, RP!ChunkInHand
  <2>3. /\ handler.req.payload = "good" /\ Chunks = {handler.req.chunk}
        /\ handler' = [handler EXCEPT !.pc = "chunk_list"]
    BY <1>2 DEF RP!StoreChunk, RP!StoringSteps, HeldInv, ChunkServed, RP!Goto
  <2>4. handler'.pc = "chunk_list" /\ handler'.req = handler.req
    BY <2>3 DEF EndsInv, RP!IInv, RP!TypeOK
  <2> QED
    BY <1>2, <2>1, <2>2, <2>3, <2>4, ChunkType DEF RP!StoreChunk
<1>3. CASE HandlerRuns \/ \E t \in Threads : ThreadRuns(t)
  BY <1>2, <1>3, Handled, ThreadRan
     DEF HandlerRuns, ThreadRuns, RP!HandlerStep, RP!ThreadStep, RP!SaveNewBatch,
         RP!SaveManifest, RP!ListChunk, RP!SavePending, RP!CheckComplete,
         RP!MarkFailed, RP!SaveFailed, RP!ValidateIntact,
         RP!ValidateMismatch, RP!SaveComplete, RP!LoadForProcessing,
         RP!UpsertFunds, RP!SaveMarketSnapshot, RP!SaveHistory,
         RP!MarkProcessed, RP!TransactionFails, RP!files
<1>4. CASE Respond \/ ReceiverCrash
  BY <1>4 DEF Respond, R!Respond, ReceiverCrash, R!Crash, R!files
<1> QED
  BY <1>1, <1>3, <1>4
     DEF Next, WorkerStep, PostManifest, PostChunk, LoseRequest, Answer,
         LoseResponse, Timeout, WorkerCrash, vars

(* What is held stays held.                                                 *)
LEMMA HeldStays ==
  ASSUME EndsInv, HeldInv, [Next]_vars, NEW b \in Batches, NEW i \in Chunks,
         Held(b, i)
  PROVE  Held(b, i)'
BY FileWritten, ChunkType DEF Held

(* What moves the request handler.                                          *)
LEMMA HandlerMoves ==
  ASSUME EndsInv, [Next]_vars
  PROVE  \/ UNCHANGED <<handler, chunkFile>>
         \/ \E f \in flight : Deliver(f) /\ RP!Receive(f.req) /\ f.req \in RP!Requests
         \/ RP!HandlerStep
         \/ RP!Respond
         \/ CanCrash /\ handler'.pc = "idle" /\ UNCHANGED chunkFile
<1> USE DEF receiverVars
<1>1. ASSUME NEW f \in flight, Deliver(f) PROVE RP!Receive(f.req) /\ f.req \in RP!Requests
  BY <1>1, Received DEF Deliver, EndsInv, NetworkTyped
<1>2. CASE HandlerRuns \/ \E t \in Threads : ThreadRuns(t)
  BY <1>2, Handled, ThreadRan
     DEF HandlerRuns, ThreadRuns, RP!ThreadStep, RP!ValidateIntact,
         RP!ValidateMismatch, RP!SaveComplete, RP!LoadForProcessing,
         RP!UpsertFunds, RP!SaveMarketSnapshot, RP!SaveHistory,
         RP!MarkProcessed, RP!TransactionFails, RP!files
<1>3. CASE Respond
  BY <1>3, SameOperators
     DEF Respond, R!Respond, RP!Respond, R!files, RP!files, R!memory,
         RP!memory, R!tables, RP!tables
<1>4. CASE ReceiverCrash
  BY <1>4 DEF ReceiverCrash, R!Crash, R!IdleHandler, R!files
<1> QED
  BY <1>1, <1>2, <1>3, <1>4
     DEF Next, WorkerStep, PostManifest, PostChunk, LoseRequest, Answer,
         LoseResponse, Timeout, WorkerCrash, vars

(* The receiver's half of the invariant: a request becomes a file.          *)
LEMMA ServedStep ==
  ASSUME EndsInv, EndsInv', HeldInv, [Next]_vars
  PROVE  ChunkServed' /\ FilesWhole' /\ NothingOfSeveral'
<1> USE DEF RP!StoringSteps, IsAck
<1>0. handler \in [pc : RP!HandlerSteps, req : RP!Requests, code : RP!Codes]
  BY DEF EndsInv, RP!IInv, RP!TypeOK
<1>1. FilesWhole' /\ NothingOfSeveral'
  <2>1. CASE UNCHANGED chunkFile
    <3>1. NothingOfSeveral'
      BY <2>1 DEF HeldInv, NothingOfSeveral
    <3>2. ~RP!StoreChunk
      <4> SUFFICES ASSUME RP!StoreChunk PROVE FALSE
        OBVIOUS
      <4>1. IsChunk(handler.req) /\ handler.req \in RP!Requests
        BY <1>0 DEF RP!StoreChunk, EndsInv, RP!IInv, RP!TypeOK, IsChunk
      <4>2. /\ chunkFile[handler.req.batch][handler.req.chunk] = "torn"
            /\ handler.req.payload = "good"
        BY DEF RP!StoreChunk, EndsInv, RP!IInv, RP!Safe, RP!ChunkInHand,
               HeldInv, ChunkServed
      <4> QED
        BY <2>1, <4>1, <4>2, ChunkType DEF RP!StoreChunk
    <3>3. ASSUME handler.pc = "chunk_file", ~CanCrash PROVE UNCHANGED handler
      <4>1. ~RP!HandlerStep
        BY <3>2, <3>3
           DEF RP!HandlerStep, RP!SaveNewBatch, RP!SaveManifest,
               RP!ListChunk, RP!SavePending, RP!CheckComplete,
               RP!MarkFailed, RP!SaveFailed
      <4>2. ~RP!Respond
        BY <3>3 DEF RP!Respond
      <4>3. \A r : ~RP!Receive(r)
        BY <3>3 DEF RP!Receive, RP!ReceiveManifest, RP!ReceiveDuplicate,
                    RP!RefuseUnknown, RP!RejectChecksum, RP!AcceptChunk,
                    RP!ChunkArrives
      <4> QED
        BY <3>3, <4>1, <4>2, <4>3, HandlerMoves
    <3>4. FilesWhole'
      BY <2>1, <3>3 DEF HeldInv, FilesWhole
    <3> QED
      BY <3>1, <3>4
  <2>2. CASE ~UNCHANGED chunkFile
    <3>1. \E i \in Chunks : Chunks = {i}
      BY <2>2, FileWritten
    <3>2. NumChunks = 1
      <4>1. 0 \in Chunks /\ (NumChunks # 1 => 1 \in Chunks)
        BY NumChunksAssumption DEF Chunks
      <4> QED
        BY <3>1, <4>1
    <3>3. PICK b \in Batches, i \in Chunks, p \in {"good", "torn"} :
             /\ chunkFile' = [chunkFile EXCEPT ![b][i] = p]
             /\ handler.pc = "chunk_file" =>
                  handler.req.batch = b /\ handler.req.chunk = i
             /\ p = "torn" => /\ handler'.pc = "chunk_file"
                              /\ handler'.req.batch = b
                              /\ handler'.req.chunk = i
      <4>1. CASE handler.pc = "chunk_file" /\ handler'.pc = "chunk_list"
        <5>1. /\ handler.req.batch \in Batches /\ handler.req.chunk \in Chunks
              /\ chunkFile' = [chunkFile EXCEPT
                                ![handler.req.batch][handler.req.chunk] = "good"]
          BY <2>2, <4>1, FileWritten
        <5> QED
          BY <5>1
      <4>2. CASE handler.pc = "idle" /\ handler'.pc = "chunk_file"
        <5>1. /\ handler'.req.batch \in Batches /\ handler'.req.chunk \in Chunks
              /\ chunkFile' = [chunkFile EXCEPT
                                ![handler'.req.batch][handler'.req.chunk] = "torn"]
          BY <2>2, <4>2, FileWritten
        <5> QED
          BY <4>2, <5>1
      <4> QED
        BY <2>2, <4>1, <4>2, FileWritten
    <3>4. \A c \in Batches, j \in Chunks :
            chunkFile'[c][j] = IF c = b /\ j = i THEN p ELSE chunkFile[c][j]
      BY <3>3, ChunkType
    <3>5. FilesWhole'
      BY <3>3, <3>4 DEF HeldInv, FilesWhole
    <3> QED
      BY <3>2, <3>5 DEF NothingOfSeveral
  <2> QED
    BY <2>1, <2>2
<1>2. ChunkServed'
  <2>0. \A b \in Batches, i \in Chunks : Held(b, i) => Held(b, i)'
    BY HeldStays
  <2>a. IsChunk(handler.req) => handler.req.batch \in Batches /\ handler.req.chunk \in Chunks
    BY <1>0, ChunkType
  <2>1. CASE UNCHANGED <<handler, chunkFile>>
    BY <2>1 DEF HeldInv, ChunkServed, Held
  <2>2. ASSUME NEW f \in flight, RP!Receive(f.req), f.req \in RP!Requests
        PROVE  ChunkServed'
    <3> DEFINE r == f.req
    <3>1. CASE RP!AcceptChunk(r)
      <4>1. handler'.req = r /\ handler'.pc = "chunk_file"
        BY <3>1 DEF RP!AcceptChunk, RP!Begin
      <4>2. chunkFile[r.batch][r.chunk] = "none" /\ r.batch \in Batches /\ r.chunk \in Chunks
        BY <2>2, <3>1, ChunkType DEF RP!AcceptChunk, RP!ChunkArrives, IsChunk
      <4>3. ~UNCHANGED chunkFile
        BY <3>1, <4>2, ChunkType DEF RP!AcceptChunk
      <4> QED
        BY <4>1, <4>3, FileWritten DEF ChunkServed
    <3>2. CASE RP!ReceiveDuplicate(r)
      <4>1. /\ handler' = [pc |-> "reply", req |-> r, code |-> "duplicate"]
            /\ handler.pc = "idle" /\ UNCHANGED chunkFile
            /\ IsChunk(r) /\ chunkFile[r.batch][r.chunk] # "none"
        BY <3>2 DEF RP!ReceiveDuplicate, RP!Reply, RP!ChunkArrives, RP!files,
                    IsChunk
      <4>2. Held(r.batch, r.chunk)
        BY <2>2, <4>1, ChunkType DEF HeldInv, FilesWhole, Held
      <4> QED
        BY <4>1, <4>2 DEF ChunkServed, Held
    <3>3. CASE RP!ReceiveManifest(r)
      BY <3>3 DEF RP!ReceiveManifest, RP!Begin, ChunkServed, IsChunk
    <3>4. CASE RP!RefuseUnknown(r) \/ RP!RejectChecksum(r)
      BY <3>4 DEF RP!RefuseUnknown, RP!RejectChecksum, RP!Reply, ChunkServed
    <3> QED
      BY <2>2, <3>1, <3>2, <3>3, <3>4 DEF RP!Receive
  <2>3. CASE RP!HandlerStep
    <3>1. CASE RP!StoreChunk
      <4>1. IsChunk(handler.req)
        BY <3>1 DEF RP!StoreChunk, EndsInv, RP!IInv, RP!TypeOK, IsChunk
      <4>2. handler'.req = handler.req /\ handler'.pc = "chunk_list"
        BY <1>0, <3>1 DEF RP!StoreChunk, RP!Goto
      <4>3. chunkFile'[handler.req.batch][handler.req.chunk] = "good"
        BY <2>a, <3>1, <4>1, ChunkType DEF RP!StoreChunk, HeldInv, ChunkServed
      <4>4. handler.req.payload = "good" /\ Chunks = {handler.req.chunk}
        BY <3>1 DEF RP!StoreChunk, HeldInv, ChunkServed
      <4> QED
        BY <4>2, <4>3, <4>4 DEF ChunkServed, Held
    <3>2. CASE ~RP!StoreChunk
      <4>1. /\ handler'.req = handler.req /\ handler.pc # "idle"
            /\ handler.pc # "reply" /\ handler.pc # "chunk_file" /\ handler'.pc # "chunk_file"
            /\ UNCHANGED chunkFile
            /\ handler'.pc \in RP!StoringSteps => handler.pc \in RP!StoringSteps
            /\ handler'.pc \in {"manifest_batch", "manifest_file"} =>
                 handler.pc \in {"manifest_batch", "manifest_file"}
        BY <1>0, <2>3, <3>2 DEF RP!HandlerStep, RP!SaveNewBatch, RP!SaveManifest, RP!ListChunk,
             RP!SavePending, RP!CheckComplete, RP!MarkFailed, RP!SaveFailed, RP!Goto, RP!Reply, RP!files
      <4>2. handler.pc \in RP!StoringSteps \/ handler.pc \in {"manifest_batch", "manifest_file"}
        BY <1>0, <4>1 DEF RP!HandlerSteps
      <4> QED
        BY <1>0, <4>1, <4>2 DEF HeldInv, ChunkServed, Held
    <3> QED
      BY <3>1, <3>2
  <2>4. CASE RP!Respond
    BY <2>4 DEF RP!Respond, RP!IdleHandler, ChunkServed
  <2>5. CASE handler'.pc = "idle"
    BY <2>5 DEF ChunkServed
  <2> QED
    BY <2>1, <2>2, <2>3, <2>4, <2>5, HandlerMoves
<1> QED
  BY <1>1, <1>2

(* The network's part: what is sent and what is answered.                   *)
LEMMA AnsweredStep ==
  ASSUME EndsInv, EndsInv', HeldInv, [Next]_vars
  PROVE  ChunksSent' /\ ChunksAnswered'
<1> USE DEF receiverVars, senderVars, network, observers
<1>0. /\ \A b \in Batches, i \in Chunks : Held(b, i) => Held(b, i)'
      /\ \A a \in responses : /\ a.req.batch \in Batches
                              /\ IsChunk(a.req) => a.req.chunk \in Chunks
  BY HeldStays, ChunkType DEF EndsInv, NetworkTyped
<1>1. ChunksSent'
  <2>1. CASE PostManifest
    BY <2>1 DEF PostManifest, ManifestRequest, HeldInv, ChunksSent, IsChunk
  <2>2. CASE PostChunk
    BY <2>2 DEF PostChunk, ChunkRequest, HeldInv, ChunksSent
  <2>3. CASE flight' \subseteq flight
    BY <2>3 DEF HeldInv, ChunksSent
  <2> QED
    BY <2>1, <2>2, <2>3
       DEF Next, Deliver, LoseRequest, WorkerStep, HandlerRuns, ThreadRuns, Respond,
           Answer, LoseResponse, Timeout, ReceiverCrash, WorkerCrash, vars
<1>2. ChunksAnswered'
  <2>1. CASE Respond
    <3>1. /\ UNCHANGED chunkFile /\ handler.pc = "reply"
          /\ responses' = responses \cup
               {[req |-> handler.req, post |-> serving,
                 ok |-> handler.code \in {"accepted", "duplicate"}]}
      BY <2>1 DEF Respond, R!Respond, R!files
    <3>2. IsChunk(handler.req) /\ IsAck(handler.code) =>
            Held(handler.req.batch, handler.req.chunk)
      BY <3>1 DEF HeldInv, ChunkServed
    <3>3. ASSUME NEW a \in responses', a.ok, IsChunk(a.req)
          PROVE  Held(a.req.batch, a.req.chunk)
      <4>1. CASE a \in responses
        BY <3>3, <4>1 DEF HeldInv, ChunksAnswered
      <4>2. CASE a \notin responses
        <5>1. a.req = handler.req
          BY <3>1, <4>2
        <5>2. a.ok = (handler.code \in {"accepted", "duplicate"})
          BY <3>1, <4>2
        <5> QED
          BY <3>2, <3>3, <5>1, <5>2 DEF IsAck
      <4> QED
        BY <4>1, <4>2
    <3> QED
      BY <3>1, <3>3 DEF ChunksAnswered, Held
  <2>2. CASE responses' \subseteq responses
    BY <1>0, <2>2 DEF HeldInv, ChunksAnswered
  <2> QED
    BY <2>1, <2>2
       DEF Next, Deliver, LoseRequest, WorkerStep, HandlerRuns, ThreadRuns,
           Answer, LoseResponse, Timeout, ReceiverCrash, WorkerCrash, vars,
           PostManifest, PostChunk
<1> QED
  BY <1>1, <1>2

(* What the worker confirms, an awaited answer has acknowledged.            *)
LEMMA ConfirmedStep ==
  ASSUME EndsInv, EndsInv', HeldInv, [Next]_vars
  PROVE  ChunksConfirmed'
<1> USE DEF senderVars
<1>0. /\ \A b \in Batches, i \in Chunks : Held(b, i) => Held(b, i)'
      /\ confirmed \in [Batches -> SUBSET Chunks] /\ worker.batch \in Batches
  BY HeldStays DEF EndsInv, SP!AInv, SP!TInv, SP!TypeOK, SP!Chunks, Chunks, SP!Workers
<1>1. CASE UNCHANGED confirmed
  BY <1>0, <1>1 DEF HeldInv, ChunksConfirmed
<1>2. ASSUME NEW a \in responses, Answer(a), a.ok, S!ChunkDone
      PROVE  ChunksConfirmed'
  <2>1. worker.pc = "chunk_wait"
    BY <1>2 DEF S!ChunkDone, S!At
  <2>2. a.req = ChunkRequest
    BY <1>2, <2>1 DEF Answer, Awaited
  <2>3. /\ IsChunk(a.req)
        /\ a.req.batch = worker.batch /\ a.req.chunk = worker.next
    BY <2>2 DEF ChunkRequest, IsChunk
  <2>4. Held(worker.batch, worker.next)
    BY <1>2, <2>3 DEF HeldInv, ChunksAnswered
  <2>5. worker.next \in Chunks
    BY <2>3, ChunkType DEF EndsInv, NetworkTyped
  <2> QED
    BY <1>0, <1>2, <2>4, <2>5 DEF S!ChunkDone, HeldInv, ChunksConfirmed
<1>3. UNCHANGED confirmed \/ \E a \in responses : Answer(a) /\ a.ok /\ S!ChunkDone
  BY DEF Next, Deliver, LoseRequest, HandlerRuns, ThreadRuns, Respond, Answer,
         LoseResponse, Timeout, ReceiverCrash, WorkerStep, WorkerCrash, vars,
         PostManifest, PostChunk, S!StartCycle, S!BeginResume, S!Local,
         S!StorePending, S!BeginSending, S!ResumeSending, S!FinishBatch,
         S!PostManifest, S!PostChunk, S!ManifestDone, S!ManifestFailed,
         S!ChunkFailed, S!WorkerCrash
<1> QED
  BY <1>1, <1>2, <1>3

(* A run that acknowledged everything it went through has gone through      *)
(* everything: of a batch of one chunk it cannot have skipped any, and of   *)
(* a batch of several none is ever acknowledged.                            *)
LEMMA AckedStep ==
  ASSUME EndsInv, EndsInv', HeldInv, [Next]_vars
  PROVE  AckedConfirmed'
<1> USE DEF SP!SaveState, SP!At, SP!Goto
<1>0. /\ worker.batch \in Batches /\ worker.start \in Nat /\ worker.acked \in Nat
      /\ worker \in SP!Workers
      /\ worker.start < NumChunks
      /\ stateFile \in [Batches -> SP!StateFiles]
      /\ confirmed \in [Batches -> SUBSET Chunks]
      /\ confirmed' \in [Batches -> SUBSET Chunks]
      /\ \A b \in Batches : Acked(b) => confirmed[b] = Chunks
  BY DEF EndsInv, SP!AInv, SP!TInv, SP!TypeOK, SP!Chunks, Chunks, SP!Workers,
         HeldInv, AckedConfirmed
<1>a. [SP!Next]_(SP!vars)
  BY WorkerSide
<1>b. ASSUME worker'.start < NumChunks,
             \A b \in Batches : confirmed[b] \subseteq confirmed'[b],
             \A b \in Batches : Acked(b)' => Acked(b)
      PROVE  AckedConfirmed'
  BY <1>0, <1>b DEF AckedConfirmed
<1>c. SP!IdleWorker.start = 0 /\ 0 < NumChunks
  BY NumChunksAssumption DEF SP!IdleWorker
<1>d. ASSUME NEW status \in SP!Statuses \ {"acked"}, SP!SaveState(status, 0)
      PROVE  \A b \in Batches : Acked(b)' => Acked(b)
  BY <1>0, <1>d DEF Acked
<1>1. ASSUME NEW b \in Batches, SP!StartCycle(b) PROVE AckedConfirmed'
  <2>1. worker'.start = 0 /\ UNCHANGED <<stateFile, confirmed>>
    BY <1>1 DEF SP!StartCycle, SP!IdleWorker
  <2> QED
    BY <1>b, <1>c, <2>1 DEF Acked
<1>2. ASSUME NEW b \in Batches, SP!BeginResume(b) PROVE AckedConfirmed'
  <2>1. worker'.start < NumChunks /\ UNCHANGED <<stateFile, confirmed>>
    BY <1>2 DEF SP!BeginResume, SP!IdleWorker
  <2> QED
    BY <1>b, <2>1 DEF Acked
<1>3. CASE SP!StorePending \/ SP!BeginSending \/ SP!ResumeSending
  <2>1. /\ \E status \in SP!Statuses \ {"acked"} : SP!SaveState(status, 0)
        /\ UNCHANGED confirmed /\ worker'.start = worker.start
    BY <1>0, <1>3 DEF SP!StorePending, SP!BeginSending, SP!ResumeSending,
                      SP!Statuses, SP!Workers
  <2> QED
    BY <1>0, <1>b, <1>d, <2>1
<1>4. CASE SP!FinishBatch
  <2> DEFINE b == worker.batch
  <2>0. worker'.start < NumChunks /\ UNCHANGED confirmed
    BY <1>4, <1>c DEF SP!FinishBatch
  <2>1. CASE worker.acked = NumChunks - worker.start
    <3>1. worker.next = NumChunks
      BY <1>4 DEF SP!FinishBatch, EndsInv, SP!AInv, SP!TInv, SP!Counts
    <3>2. \A i \in Chunks : worker.start <= i => i \in confirmed[b]
      <4>1. \A i \in Chunks : worker.start <= i /\ i < worker.next => i \in SP!Seen
        BY <2>1, <3>1 DEF EndsInv, SP!AInv, SP!Counted, SP!Chunks, Chunks
      <4>2. \A i \in Chunks : i < NumChunks
        BY NumChunksAssumption DEF Chunks
      <4> QED
        BY <3>1, <4>1, <4>2 DEF SP!Seen
    <3>3. NumChunks = 1
      <4>1. worker.start \in Chunks
        BY <1>0, NumChunksAssumption DEF Chunks
      <4>2. Held(b, worker.start)
        BY <1>0, <3>2, <4>1 DEF HeldInv, ChunksConfirmed
      <4> QED
        BY <1>0, <4>1, <4>2 DEF Held, HeldInv, NothingOfSeveral
    <3>4. confirmed[b] = Chunks
      BY <1>0, <3>2, <3>3 DEF Chunks
    <3> QED
      BY <1>0, <1>4, <2>0, <3>4 DEF SP!FinishBatch, AckedConfirmed, Acked
  <2>2. CASE worker.acked # NumChunks - worker.start
    BY <1>0, <1>4, <2>0, <2>2 DEF SP!FinishBatch, AckedConfirmed, Acked
  <2> QED
    BY <2>1, <2>2
<1>5. CASE SP!Post \/ SP!Answered
  <2>1. UNCHANGED stateFile
    BY <1>5 DEF SP!Post, SP!PostManifest, SP!PostChunk, SP!Answered,
                SP!ManifestDone, SP!ManifestFailed, SP!ChunkDone,
                SP!ChunkFailed
  <2>2. \A b \in Batches : confirmed[b] \subseteq confirmed'[b]
    BY <1>0, <1>5 DEF SP!Post, SP!PostManifest, SP!PostChunk, SP!Answered,
                SP!ManifestDone, SP!ManifestFailed, SP!ChunkDone,
                SP!ChunkFailed
  <2>3. worker'.start = worker.start \/ worker' = SP!IdleWorker
    BY <1>0, <1>5
       DEF SP!Post, SP!PostManifest, SP!PostChunk, SP!Answered,
           SP!ManifestDone, SP!ManifestFailed, SP!ChunkDone, SP!ChunkFailed,
           SP!HandleNext, SP!Workers
  <2> QED
    BY <1>0, <1>b, <1>c, <2>1, <2>2, <2>3 DEF Acked
<1>6. CASE SP!WorkerCrash
  <2>1. /\ worker' = SP!IdleWorker /\ UNCHANGED confirmed
        /\ UNCHANGED stateFile \/ SP!SaveState("torn", 0)
    BY <1>6 DEF SP!WorkerCrash
  <2>2. \A b \in Batches : Acked(b)' => Acked(b)
    BY <1>d, <2>1 DEF SP!Statuses, Acked
  <2> QED
    BY <1>b, <1>c, <2>1, <2>2
<1>7. CASE UNCHANGED SP!vars
  BY <1>0, <1>7, <1>b DEF SP!vars, Acked
<1> QED
  BY <1>a, <1>1, <1>2, <1>3, <1>4, <1>5, <1>6, <1>7 DEF SP!Next, SP!Local

LEMMA HeldAlways == Spec => [](EndsInv /\ HeldInv)
<1>1. EndsInv /\ HeldInv /\ [Next]_vars => HeldInv'
  BY EndsStep, ServedStep, AnsweredStep, ConfirmedStep, AckedStep DEF HeldInv
<1> QED
  BY <1>1, InitEnds, InitHeld, EndsStep, PTL DEF Spec

(* An acked batch has a file for each of its chunks at the receiver,        *)
(* whatever is lost, resumed or retried, and wherever processes crash.      *)
THEOREM AckedBatchesHaveFiles == Spec => []AckedHasFiles
<1>1. EndsInv /\ HeldInv => AckedHasFiles
  BY DEF HeldInv, AckedConfirmed, ChunksConfirmed, AckedHasFiles, Held, Acked,
         S!Chunks, Chunks
<1> QED
  BY <1>1, HeldAlways, PTL

(* Without crashes those files are the genuine slices: acked means durable. *)
THEOREM AckedBatchesAreDurable ==
  ASSUME ~CanCrash
  PROVE  Spec => []AckedIsDurable
<1>1. EndsInv /\ HeldInv => AckedIsDurable
  BY DEF HeldInv, AckedConfirmed, ChunksConfirmed, AckedIsDurable, Held, Acked,
         R!Intact, Chunks
<1> QED
  BY <1>1, HeldAlways, PTL

(* A batch of several chunks, each of which carries the checksum of the     *)
(* whole batch (services/sync/chunker.py), is never stored at the receiver, *)
(* not in part, and never acked: the property above is about batches of one *)
(* chunk, the only ones there can be acked.                                 *)
THEOREM ChunkedBatchesStayOut ==
  ASSUME NumChunks # 1
  PROVE  Spec => [](\A b \in Batches : ~Acked(b) /\ \A i \in Chunks : chunkFile[b][i] = "none")
<1> DEFINE Out == \A b \in Batches : ~Acked(b) /\ \A i \in Chunks : chunkFile[b][i] = "none"
<1>1. EndsInv /\ HeldInv => Out
  <2> SUFFICES ASSUME HeldInv, NEW b \in Batches
               PROVE  ~Acked(b) /\ \A i \in Chunks : chunkFile[b][i] = "none"
    OBVIOUS
  <2>1. \A i \in Chunks : chunkFile[b][i] = "none"
    BY DEF HeldInv, NothingOfSeveral
  <2>2. 0 \in Chunks
    BY NumChunksAssumption DEF Chunks
  <2>3. Acked(b) => chunkFile[b][0] # "none"
    BY <2>2 DEF HeldInv, AckedConfirmed, ChunksConfirmed, Held
  <2> QED
    BY <2>1, <2>2, <2>3
<1> HIDE DEF Out
<1>2. Spec => []Out
  BY <1>1, HeldAlways, PTL
<1> QED
  BY <1>2 DEF Out

-----------------------------------------------------------------------------
(* A batch is processed once                                                *)

(* Where the one chunk request of a batch may be: on its way, being served, *)
(* or answered; Acking when the handler is about to say that it went well.  *)
Sent(b) == {f \in flight : IsChunk(f.req) /\ f.req.batch = b}
Serving(b) == handler.pc # "idle" /\ IsChunk(handler.req) /\ handler.req.batch = b
Acking == handler.pc = "reply" /\ IsAck(handler.code)
Replied(b) == {a \in responses : IsChunk(a.req) /\ a.req.batch = b}

(* The validation threads of a batch, and those that have yet to process it.*)
On(b) == {t \in Threads : thread[t].pc # "idle" /\ thread[t].batch = b}
Before(b) == {t \in On(b) : thread[t].pc \in {"validate", "save"}}
Untouched(b) == calls[b] = 0 /\ On(b) = {}

(* The worker has not posted the chunk yet, or is about to do so again.     *)
Undecided(b) == \/ b \notin exported
                \/ /\ worker.batch = b
                   /\ worker.pc \in {"store", "begin", "manifest",
                                     "manifest_wait", "chunk"}

AtMostOne(X) == \A x, y \in X : x = y

(* As long as the worker waits for each answer, there is at most one        *)
(* request, and nothing has been done for the batch unless an               *)
(* acknowledgement is due, under way, or read.                              *)
OnceOf(b) ==
  /\ Undecided(b) => Sent(b) = {} /\ ~Serving(b) /\ Replied(b) = {} /\ Untouched(b)
  /\ Sent(b) # {} => ~Serving(b) /\ Replied(b) = {} /\ Untouched(b)
  /\ Serving(b) => Replied(b) = {} /\ (~Acking => Untouched(b))
  /\ \A a \in Replied(b) : ~a.ok => Untouched(b)
  /\ AtMostOne(Sent(b)) /\ AtMostOne(Replied(b)) /\ AtMostOne(On(b))
  /\ calls[b] <= 1
  /\ Before(b) # {} => calls[b] = 0

NeverResumed == /\ worker.pc # "resume"
                /\ worker.pc # "idle" => worker.batch \in exported

OnceInv == /\ NeverResumed
           /\ NumChunks # 1 => \A b \in Batches : calls[b] = 0
           /\ NumChunks = 1 => \A b \in Batches \ late : OnceOf(b)

LEMMA IdleIsIdle == RP!IdleThread.pc = "idle"
<1> DEFINE someBatch == CHOOSE b \in Batches : TRUE
<1>1. RP!IdleThread = [pc |-> "idle", batch |-> someBatch,
                       chunks |-> RP!NoChunks]
  BY DEF RP!IdleThread
<1> HIDE DEF someBatch
<1> QED
  BY <1>1

LEMMA InitOnce == Init => OnceInv
<1> SUFFICES ASSUME Init PROVE OnceInv
  OBVIOUS
<1>1. /\ handler.pc = "idle" /\ flight = {} /\ responses = {} /\ exported = {}
      /\ \A b \in Batches : calls[b] = 0
  BY DEF Init, S!Init, R!Init, R!IdleHandler
<1>2. worker.pc = "idle"
  BY DEF Init, S!Init, S!IdleWorker
<1>3. \A t \in Threads : thread[t].pc = "idle"
  BY SameOperators, IdleIsIdle DEF Init, R!Init
<1>4. \A b \in Batches : /\ Sent(b) = {} /\ ~Serving(b) /\ Replied(b) = {}
                        /\ On(b) = {} /\ Before(b) = {}
  BY <1>1, <1>3 DEF Sent, Serving, Replied, On, Before
<1> QED
  BY <1>1, <1>2, <1>4 DEF OnceInv, NeverResumed, OnceOf, Untouched, AtMostOne

(* A step that brings no new request, answer or thread for the batch.       *)
LEMMA LessOfIt ==
  ASSUME NEW b, OnceOf(b), Undecided(b)' => Undecided(b),
         Sent(b)' \subseteq Sent(b), Replied(b)' \subseteq Replied(b),
         Serving(b)' => Serving(b) /\ (Acking => Acking'),
         On(b)' \subseteq On(b), Before(b)' \subseteq Before(b),
         calls'[b] = calls[b]
  PROVE  OnceOf(b)'
<1>1. Untouched(b) => Untouched(b)'
  BY DEF Untouched
<1> QED
  BY <1>1 DEF OnceOf, AtMostOne

LEMMA NeverResumedStep ==
  ASSUME ~CanResume, EndsInv, NeverResumed, [Next]_vars
  PROVE  NeverResumed'
<1> USE DEF SP!At, SP!Goto
<1>0. worker \in SP!Workers
  BY DEF EndsInv, SP!AInv, SP!TInv, SP!TypeOK
<1>1. [SP!Next]_(SP!vars)
  BY WorkerSide
<1>2. ASSUME NEW b \in Batches, SP!StartCycle(b) \/ SP!BeginResume(b)
      PROVE  NeverResumed'
  BY <1>2 DEF SP!StartCycle, SP!BeginResume, SP!IdleWorker, NeverResumed
<1>3. CASE SP!Local \/ SP!Post \/ SP!Answered \/ SP!WorkerCrash
  <2>0. SP!IdleWorker.pc = "idle"
    BY DEF SP!IdleWorker
  <2>1. /\ UNCHANGED exported /\ worker.pc # "idle"
        /\ \/ worker' = SP!IdleWorker
           \/ worker'.batch = worker.batch /\ worker'.pc # "resume"
    <3>1. CASE SP!Local
      BY <1>0, <3>1 DEF SP!Local, SP!StorePending, SP!BeginSending,
                        SP!ResumeSending, SP!FinishBatch, SP!Workers
    <3>2. CASE SP!Post
      BY <1>0, <3>2 DEF SP!Post, SP!PostManifest, SP!PostChunk, SP!Workers
    <3>3. CASE SP!Answered
      BY <1>0, <3>3 DEF SP!Answered, SP!ManifestDone, SP!ManifestFailed,
                        SP!ChunkDone, SP!ChunkFailed, SP!HandleNext, SP!Workers
    <3>4. CASE SP!WorkerCrash
      BY <3>4 DEF SP!WorkerCrash
    <3> QED
      BY <1>3, <3>1, <3>2, <3>3, <3>4
  <2> QED
    BY <2>0, <2>1 DEF NeverResumed
<1>4. CASE UNCHANGED SP!vars
  BY <1>4 DEF SP!vars, NeverResumed
<1> QED
  BY <1>1, <1>2, <1>3, <1>4 DEF SP!Next

(* A batch goes back to being undecided only by an answer that was awaited  *)
(* and is a refusal, or because the worker gave up on a post.               *)
LEMMA DecidedAgain ==
  ASSUME ~CanResume, NumChunks = 1, EndsInv, NeverResumed, [Next]_vars,
         NEW b \in Batches \ late', Undecided(b)', ~Undecided(b)
  PROVE  \E a \in Replied(b) : ~a.ok /\ responses' = responses \ {a}
<1> USE DEF Undecided, S!At, S!Goto
<1>0. worker \in SP!Workers
  BY DEF EndsInv, SP!AInv, SP!TInv, SP!TypeOK
<1>1. CASE WorkerStep
  <2>1. \A c : ~S!BeginResume(c)
    BY DEF S!BeginResume
  <2>2. ASSUME NEW c \in Batches, S!StartCycle(c) PROVE FALSE
    <3>1. worker'.batch = c /\ exported' = exported \cup {c} /\ c \notin exported
      BY <2>2 DEF S!StartCycle, S!IdleWorker
    <3> QED
      BY <3>1
  <2>3. CASE S!Local
    <3>1. /\ UNCHANGED exported /\ worker.pc # "resume"
          /\ \/ worker'.pc \in {"idle"}
             \/ worker'.batch = worker.batch /\ worker.pc \in {"store", "begin"}
      BY <1>0, <2>3
         DEF S!Local, S!StorePending, S!BeginSending, S!ResumeSending,
             S!FinishBatch, S!IdleWorker, NeverResumed, SP!Workers
    <3> QED
      BY <3>1
  <2> QED
    BY <1>1, <2>1, <2>2, <2>3 DEF WorkerStep
<1>2. CASE PostManifest \/ PostChunk
  <2>1. /\ UNCHANGED exported /\ worker'.batch = worker.batch
        /\ \/ worker'.pc = "chunk_wait"
           \/ worker.pc = "manifest"
    BY <1>0, <1>2 DEF PostManifest, PostChunk, S!PostManifest, S!PostChunk, SP!Workers
  <2> QED
    BY <2>1
<1>3. ASSUME NEW a \in responses, Answer(a)
      PROVE  a \in Replied(b) /\ ~a.ok /\ responses' = responses \ {a}
  <2>1. CASE S!ManifestDone \/ S!ManifestFailed
    BY <1>0, <2>1 DEF S!ManifestDone, S!ManifestFailed, S!IdleWorker, SP!Workers
  <2>2. CASE S!ChunkDone
    <3>1. worker.next = 0
      BY <2>2 DEF S!ChunkDone, EndsInv, SP!AInv, SP!TInv, SP!TypeOK, SP!Workers, SP!Counts
    <3>2. worker'.pc = "finish" /\ UNCHANGED exported
      BY <1>0, <2>2, <3>1 DEF S!ChunkDone, S!HandleNext, SP!Workers
    <3> QED
      BY <3>2
  <2>3. CASE S!ChunkFailed /\ ~a.ok
    <3>1. worker.pc = "chunk_wait" /\ UNCHANGED exported /\ worker'.batch = worker.batch
      BY <1>0, <2>3 DEF S!ChunkFailed, S!HandleNext, SP!Workers
    <3>2. a.req = ChunkRequest /\ worker.batch = b
      BY <1>3, <3>1 DEF Answer, Awaited
    <3> QED
      BY <1>3, <2>3, <3>2 DEF Replied, Answer, ChunkRequest, IsChunk
  <2> QED
    BY <1>3, <2>1, <2>2, <2>3 DEF Answer
<1>4. CASE Timeout
  <2>1. b # worker.batch
    BY <1>4 DEF Timeout
  <2>2. CASE S!ManifestFailed
    BY <2>2 DEF S!ManifestFailed, S!IdleWorker
  <2>3. CASE S!ChunkFailed
    <3>1. worker'.batch = worker.batch /\ UNCHANGED exported
      BY <1>0, <2>3 DEF S!ChunkFailed, S!HandleNext, SP!Workers
    <3> QED
      BY <2>1, <3>1
  <2> QED
    BY <1>4, <2>2, <2>3 DEF Timeout
<1>5. CASE WorkerCrash
  BY <1>5 DEF WorkerCrash, S!WorkerCrash, S!IdleWorker
<1>6. CASE UNCHANGED senderVars
  BY <1>6 DEF senderVars
<1> QED
  BY <1>1, <1>2, <1>3, <1>4, <1>5, <1>6
     DEF Next, Deliver, LoseRequest, HandlerRuns, ThreadRuns, Respond, LoseResponse,
         ReceiverCrash, vars, senderVars

(* Starting a validation adds one thread, for that batch.                   *)
LEMMA OneMoreThread ==
  ASSUME EndsInv, NEW b \in Batches, NEW m, RP!StartValidation(b, m)
  PROVE  /\ \A c \in Batches : c # b => On(c)' = On(c) /\ Before(c)' = Before(c)
         /\ \E t \in Threads : On(b)' = On(b) \cup {t}
<1>1. PICK t \in Threads :
        /\ thread[t] = RP!IdleThread
        /\ thread' = [thread EXCEPT ![t] = [pc |-> "validate", batch |-> b,
                                            chunks |-> m]]
  BY DEF RP!StartValidation
<1>2. /\ thread'[t].pc = "validate" /\ thread'[t].batch = b
      /\ \A u \in Threads : u # t => thread'[u] = thread[u]
  BY <1>1 DEF EndsInv, RP!IInv, RP!TypeOK
<1>3. thread[t].pc = "idle"
  BY <1>1, IdleIsIdle
<1>4. \A c \in Batches : c # b => On(c)' = On(c)
  BY <1>2, <1>3 DEF On
<1>5. \A c \in Batches : c # b => Before(c)' = Before(c)
  BY <1>2, <1>3, <1>4 DEF Before, On
<1>6. On(b)' = On(b) \cup {t}
  BY <1>2, <1>3 DEF On
<1> QED
  BY <1>4, <1>5, <1>6

(* The request is delivered: what it does is up to the receiver, but it     *)
(* does it once.                                                            *)
LEMMA OnceDelivered ==
  ASSUME EndsInv, NEW f \in flight, Deliver(f), NEW b \in Batches, OnceOf(b)
  PROVE  OnceOf(b)'
<1> DEFINE r == f.req
<1>0. r \in RP!Requests /\ RP!Receive(r) /\ r.batch \in Batches
  BY Received, ChunkType DEF Deliver, EndsInv, NetworkTyped
<1>1. /\ flight' = flight \ {f}
      /\ UNCHANGED <<worker, exported, responses>>
  BY DEF Deliver, senderVars
<1>2. /\ handler'.req = r
      /\ UNCHANGED calls
      /\ ~IsChunk(r) => UNCHANGED thread
      /\ \/ UNCHANGED thread
         \/ Acking' /\ \E m : RP!StartValidation(r.batch, m)
  BY <1>0
     DEF RP!Receive, RP!ReceiveManifest, RP!ReceiveDuplicate,
         RP!RefuseUnknown, RP!RejectChecksum, RP!AcceptChunk, RP!Begin,
         RP!Reply, RP!ChunkArrives, IsChunk, Acking, IsAck, Deliver, observers
<1>3. Undecided(b)' = Undecided(b) /\ Replied(b)' = Replied(b)
  BY <1>1 DEF Undecided, Replied
<1>4. CASE r.batch = b /\ IsChunk(r)
  <2>1. f \in Sent(b)
    BY <1>4 DEF Sent
  <2>2. Sent(b)' = {}
    BY <1>1, <2>1 DEF Sent, OnceOf, AtMostOne
  <2>3. ~Undecided(b) /\ Replied(b) = {} /\ Untouched(b)
    BY <2>1 DEF OnceOf
  <2>4. CASE UNCHANGED thread
    <3>1. On(b)' = {} /\ Before(b)' = {}
      BY <2>3, <2>4 DEF Untouched, On, Before
    <3>2. Untouched(b)'
      BY <1>2, <2>3, <3>1 DEF Untouched
    <3> QED
      BY <1>3, <2>2, <2>3, <3>1, <3>2 DEF OnceOf, AtMostOne, Untouched
  <2>5. CASE Acking' /\ \E m : RP!StartValidation(b, m)
    <3>1. PICK t \in Threads : On(b)' = {t}
      BY <2>3, <2>5, OneMoreThread DEF Untouched
    <3>2. calls'[b] = 0
      BY <1>2, <2>3 DEF Untouched
    <3> QED
      BY <1>3, <2>2, <2>3, <2>5, <3>1, <3>2 DEF OnceOf, AtMostOne
  <2> QED
    BY <1>2, <1>4, <2>4, <2>5
<1>5. CASE ~(r.batch = b /\ IsChunk(r))
  <2>1. ~Serving(b)'
    BY <1>2, <1>5 DEF Serving
  <2>2. Sent(b)' \subseteq Sent(b)
    BY <1>1 DEF Sent
  <2>3. On(b)' = On(b) /\ Before(b)' = Before(b)
    <3>1. CASE UNCHANGED thread
      BY <3>1 DEF On, Before
    <3>2. CASE r.batch # b /\ \E m : RP!StartValidation(r.batch, m)
      BY <1>0, <3>2, OneMoreThread
    <3> QED
      BY <1>2, <1>5, <3>1, <3>2
  <2> QED
    BY <1>2, <1>3, <2>1, <2>2, <2>3, LessOfIt
<1> QED
  BY <1>4, <1>5

(* The handler goes on; the last chunk starts the validation.               *)
LEMMA OnceHandled ==
  ASSUME EndsInv, HeldInv, RP!HandlerStep,
         UNCHANGED <<senderVars, network, observers>>,
         NEW b \in Batches, OnceOf(b)
  PROVE  OnceOf(b)'
<1>0. /\ handler \in [pc : RP!HandlerSteps, req : RP!Requests, code : RP!Codes]
      /\ handler.req.batch \in Batches
  BY ChunkType DEF EndsInv, RP!IInv, RP!TypeOK
<1>1. /\ handler'.req = handler.req /\ handler.pc # "idle" /\ ~Acking
      /\ UNCHANGED calls
  BY <1>0 DEF RP!HandlerStep, RP!SaveNewBatch, RP!SaveManifest,
              RP!StoreChunk, RP!ListChunk, RP!SavePending, RP!CheckComplete,
              RP!MarkFailed, RP!SaveFailed, RP!Goto, RP!Reply, observers,
              Acking
<1>2. Undecided(b)' = Undecided(b) /\ Replied(b)' = Replied(b) /\ Sent(b)' = Sent(b)
  BY DEF Undecided, Replied, Sent, senderVars, network, observers
<1>3. CASE UNCHANGED thread
  <2>1. On(b)' = On(b) /\ Before(b)' = Before(b)
    BY <1>3 DEF On, Before
  <2> QED
    BY <1>1, <1>2, <2>1, LessOfIt DEF Serving
<1>4. CASE RP!CheckComplete /\ ~UNCHANGED thread
  <2>1. /\ Acking' /\ IsChunk(handler.req)
        /\ \E m : RP!StartValidation(handler.req.batch, m)
    BY <1>4 DEF RP!CheckComplete, RP!Reply, Acking, IsAck, IsChunk, EndsInv,
                RP!IInv, RP!TypeOK, RP!StoringSteps
  <2>2. CASE handler.req.batch = b
    <3>1. Serving(b)
      BY <1>1, <2>1, <2>2 DEF Serving
    <3>2. Untouched(b) /\ Sent(b) = {} /\ Replied(b) = {} /\ ~Undecided(b)
      BY <1>1, <3>1 DEF OnceOf
    <3>3. PICK t \in Threads : On(b)' = {t}
      BY <1>0, <2>1, <2>2, <3>2, OneMoreThread DEF Untouched
    <3>4. calls'[b] = 0
      BY <1>1, <3>2 DEF Untouched
    <3> QED
      BY <1>2, <2>1, <3>2, <3>3, <3>4 DEF OnceOf, AtMostOne
  <2>3. CASE handler.req.batch # b
    <3>1. On(b)' = On(b) /\ Before(b)' = Before(b)
      BY <1>0, <2>1, <2>3, OneMoreThread
    <3> QED
      BY <1>1, <1>2, <3>1, LessOfIt DEF Serving
  <2> QED
    BY <2>2, <2>3
<1> QED
  BY <1>3, <1>4
     DEF RP!HandlerStep, RP!SaveNewBatch, RP!SaveManifest, RP!StoreChunk,
         RP!ListChunk, RP!SavePending, RP!MarkFailed, RP!SaveFailed

(* A thread goes on; it processes the batch once on its way.                *)
LEMMA OncePersisted ==
  ASSUME EndsInv, NEW t \in Threads, ThreadRuns(t), NEW b \in Batches, OnceOf(b)
  PROVE  OnceOf(b)'
<1> USE DEF RP!At, RP!Advance, RP!Finish
<1>r. RP!ThreadStep(t) /\ UNCHANGED <<senderVars, network, late>>
  BY ThreadRan DEF ThreadRuns
<1>0. /\ thread \in [Threads -> [pc : RP!ThreadSteps, batch : Batches,
                                 chunks : RP!ChunkMaps]]
      /\ calls \in [Batches -> 0 .. MaxRows]
      /\ UNCHANGED handler
  BY <1>r DEF EndsInv, NetworkTyped, RP!IInv, RP!TypeOK, RP!ThreadStep, RP!ValidateIntact,
         RP!ValidateMismatch, RP!SaveComplete, RP!LoadForProcessing,
         RP!UpsertFunds, RP!SaveMarketSnapshot, RP!SaveHistory,
         RP!MarkProcessed, RP!TransactionFails
<1>1. /\ Undecided(b)' = Undecided(b) /\ Replied(b)' = Replied(b)
      /\ Sent(b)' = Sent(b) /\ Serving(b)' = Serving(b) /\ Acking' = Acking
  BY <1>0, <1>r DEF Undecided, Replied, Sent, Serving, Acking, senderVars, network
<1>2. /\ thread[t].pc # "idle"
      /\ \A u \in Threads \ {t} : thread'[u] = thread[u]
      /\ \/ thread'[t].pc = "idle"
         \/ thread'[t].batch = thread[t].batch
  <2>1. thread[t].pc # "idle"
    BY <1>r DEF RP!ThreadStep, RP!ValidateIntact,
         RP!ValidateMismatch, RP!SaveComplete, RP!LoadForProcessing,
         RP!UpsertFunds, RP!SaveMarketSnapshot, RP!SaveHistory,
         RP!MarkProcessed, RP!TransactionFails
  <2>2. \/ \E step \in RP!ThreadSteps : RP!Advance(t, step)
        \/ RP!Finish(t)
    BY <1>r DEF RP!ThreadStep, RP!ValidateIntact,
         RP!ValidateMismatch, RP!SaveComplete, RP!LoadForProcessing,
         RP!UpsertFunds, RP!SaveMarketSnapshot, RP!SaveHistory,
         RP!MarkProcessed, RP!TransactionFails, RP!ThreadSteps
  <2> QED
    BY <1>0, <2>1, <2>2, IdleIsIdle
<1>3. On(b)' \subseteq On(b)
  BY <1>2 DEF On
<1>4. CASE RP!SaveComplete(t) /\ thread[t].batch = b
  <2>1. t \in On(b) /\ t \in Before(b)
    BY <1>2, <1>4 DEF On, Before, RP!SaveComplete
  <2>2. calls[b] = 0 /\ ~Untouched(b) /\ On(b) = {t}
    BY <2>1 DEF OnceOf, Untouched, AtMostOne
  <2>3. calls'[b] = 1
    BY <1>0, <1>4, <2>2, MaxRowsAssumption DEF RP!SaveComplete, ThreadRuns, R!At
  <2>4. thread'[t].pc = "load"
    BY <1>0, <1>4 DEF RP!SaveComplete
  <2>5. Before(b)' = {} /\ AtMostOne(On(b))'
    BY <1>3, <2>2, <2>4 DEF Before, AtMostOne
  <2> QED
    BY <1>1, <2>2, <2>3, <2>5 DEF OnceOf, AtMostOne
<1>5. CASE ~(RP!SaveComplete(t) /\ thread[t].batch = b)
  <2>1. calls'[b] = calls[b]
    <3>1. thread[t].batch # b \/ thread[t].pc # "save"
      BY <1>r, <1>5 DEF RP!ThreadStep, RP!ValidateIntact,
         RP!ValidateMismatch, RP!SaveComplete, RP!LoadForProcessing,
         RP!UpsertFunds, RP!SaveMarketSnapshot, RP!SaveHistory,
         RP!MarkProcessed, RP!TransactionFails
    <3> QED
      BY <1>0, <3>1 DEF ThreadRuns, R!At
  <2>2. thread'[t].pc \in {"validate", "save"} =>
          thread[t].pc \in {"validate", "save"}
    BY <1>0, <1>r, IdleIsIdle
       DEF RP!ThreadStep, RP!ValidateIntact, RP!ValidateMismatch,
           RP!SaveComplete, RP!LoadForProcessing, RP!UpsertFunds,
           RP!SaveMarketSnapshot, RP!SaveHistory, RP!MarkProcessed,
           RP!TransactionFails
  <2>3. Before(b)' \subseteq Before(b)
    BY <1>2, <1>3, <2>2 DEF Before, On
  <2> QED
    BY <1>1, <1>3, <2>1, <2>3, LessOfIt
<1> QED
  BY <1>4, <1>5

LEMMA OnceStep ==
  ASSUME ~CanResume, NumChunks = 1, EndsInv, EndsInv', HeldInv, OnceInv,
         [Next]_vars, NEW b \in Batches \ late'
  PROVE  OnceOf(b)'
<1> USE DEF senderVars, receiverVars, network, observers
<1>0. OnceOf(b) /\ NeverResumed
  <2>1. late \subseteq late'
    BY DEF Next, WorkerStep, PostManifest, PostChunk, Deliver, LoseRequest,
           HandlerRuns, ThreadRuns, Respond, Answer, LoseResponse, Timeout,
           ReceiverCrash, WorkerCrash, vars
  <2> QED
    BY <2>1 DEF OnceInv
<1>1. \/ Undecided(b)' => Undecided(b)
      \/ \E a \in Replied(b) : ~a.ok /\ responses' = responses \ {a}
  BY <1>0, DecidedAgain
(* The worker and the network: nothing new at the receiver. *)
<1>a. ASSUME UNCHANGED <<receiverVars, calls>>, Undecided(b)' => Undecided(b),
             Sent(b)' \subseteq Sent(b), responses' \subseteq responses
      PROVE  OnceOf(b)'
  <2>1. Replied(b)' \subseteq Replied(b)
    BY <1>a DEF Replied
  <2>2. /\ Serving(b)' = Serving(b) /\ Acking' = Acking
        /\ On(b)' = On(b) /\ Before(b)' = Before(b)
    BY <1>a DEF Serving, Acking, On, Before
  <2> QED
    BY <1>0, <1>a, <2>1, <2>2, LessOfIt
<1>2. CASE WorkerStep \/ WorkerCrash
  <2>1. UNCHANGED <<receiverVars, network, observers>>
    BY <1>2 DEF WorkerStep, WorkerCrash
  <2>2. Undecided(b)' => Undecided(b)
    BY <1>1, <2>1 DEF Replied
  <2> QED
    BY <1>a, <2>1, <2>2 DEF Sent
<1>3. CASE PostManifest
  <2>1. Sent(b)' \subseteq Sent(b)
    BY <1>3 DEF PostManifest, ManifestRequest, Sent, IsChunk
  <2>2. UNCHANGED <<receiverVars, calls, responses>>
    BY <1>3 DEF PostManifest
  <2>3. Undecided(b)' => Undecided(b)
    BY <1>1, <2>2 DEF Replied
  <2> QED
    BY <1>a, <2>1, <2>2, <2>3
<1>4. CASE PostChunk
  <2> DEFINE f == [req |-> ChunkRequest, post |-> worker.attempt + 1]
  <2>1. /\ flight' = flight \cup {f} /\ f.req = ChunkRequest
        /\ UNCHANGED <<receiverVars, calls, responses, exported>>
        /\ worker.pc = "chunk" /\ worker'.pc = "chunk_wait"
    BY <1>4 DEF PostChunk, S!PostChunk, S!At, EndsInv, SP!AInv, SP!TInv,
                SP!TypeOK, SP!Workers
  <2>2. ChunkRequest.batch = worker.batch /\ IsChunk(ChunkRequest)
    BY DEF ChunkRequest, IsChunk
  <2> HIDE DEF f
  <2>3. CASE worker.batch = b
    <3>1. Sent(b) = {} /\ ~Serving(b) /\ Replied(b) = {} /\ Untouched(b)
      BY <1>0, <2>1, <2>3 DEF OnceOf, Undecided
    <3>2. Sent(b)' = {f}
      BY <2>1, <2>2, <2>3, <3>1 DEF Sent
    <3>3. ~Undecided(b)'
      BY <1>0, <2>1, <2>3 DEF Undecided, NeverResumed
    <3>4. /\ Serving(b)' = Serving(b) /\ Replied(b)' = Replied(b)
          /\ On(b)' = On(b) /\ Before(b)' = Before(b)
      BY <2>1 DEF Serving, Replied, On, Before
    <3>5. Untouched(b)'
      BY <2>1, <3>1, <3>4 DEF Untouched
    <3> QED
      BY <1>0, <3>1, <3>2, <3>3, <3>4, <3>5 DEF OnceOf, AtMostOne, Untouched
  <2>4. CASE worker.batch # b
    <3>1. Sent(b)' \subseteq Sent(b)
      BY <2>1, <2>2, <2>4 DEF Sent
    <3>2. Undecided(b)' => Undecided(b)
      BY <1>1, <2>1 DEF Replied
    <3> QED
      BY <1>a, <2>1, <3>1, <3>2
  <2> QED
    BY <2>3, <2>4
<1>5. ASSUME NEW f \in flight, Deliver(f) PROVE OnceOf(b)'
  BY <1>0, <1>5, OnceDelivered
<1>6. ASSUME NEW f \in flight, LoseRequest(f) PROVE OnceOf(b)'
  <2>1. /\ UNCHANGED <<receiverVars, calls, senderVars, responses>>
        /\ flight' \subseteq flight
    BY <1>6 DEF LoseRequest
  <2> QED
    BY <1>a, <2>1 DEF Sent, Undecided
<1>7. CASE HandlerRuns \/ \E t \in Threads : ThreadRuns(t)
  BY <1>0, <1>7, Handled, OnceHandled, OncePersisted DEF HandlerRuns
<1>8. CASE Respond
  <2> DEFINE a == [req |-> handler.req, post |-> serving,
                   ok |-> handler.code \in {"accepted", "duplicate"}]
  <2>1. /\ responses' = responses \cup {a}
        /\ UNCHANGED <<senderVars, flight, thread, calls>>
        /\ handler.pc = "reply" /\ handler'.pc = "idle"
    BY <1>8 DEF Respond, R!Respond, R!IdleHandler
  <2>2. a.req = handler.req /\ (a.ok <=> Acking)
    BY <2>1 DEF Acking, IsAck
  <2> HIDE DEF a
  <2>3. /\ ~Serving(b)' /\ Sent(b)' = Sent(b) /\ Undecided(b)' = Undecided(b)
        /\ On(b)' = On(b) /\ Before(b)' = Before(b)
    BY <2>1 DEF Serving, Sent, Undecided, On, Before
  <2>4. CASE IsChunk(handler.req) /\ handler.req.batch = b
    <3>1. Serving(b)
      BY <2>1, <2>4 DEF Serving
    <3>2. /\ Replied(b) = {} /\ ~Undecided(b) /\ Sent(b) = {}
          /\ ~Acking => Untouched(b)
      BY <1>0, <3>1 DEF OnceOf
    <3>3. Replied(b)' = {a}
      BY <2>1, <2>2, <2>4, <3>2 DEF Replied
    <3>4. Untouched(b)' = Untouched(b)
      BY <2>1, <2>3 DEF Untouched
    <3> QED
      BY <1>0, <2>1, <2>2, <2>3, <3>2, <3>3, <3>4 DEF OnceOf, AtMostOne
  <2>5. CASE ~(IsChunk(handler.req) /\ handler.req.batch = b)
    <3>1. Replied(b)' \subseteq Replied(b)
      BY <2>1, <2>2, <2>5 DEF Replied
    <3> QED
      BY <1>0, <2>1, <2>3, <3>1, LessOfIt
  <2> QED
    BY <2>4, <2>5
<1>9. ASSUME NEW a \in responses, Answer(a) PROVE OnceOf(b)'
  <2>1. /\ UNCHANGED <<receiverVars, calls, flight>> /\ responses' = responses \ {a}
    BY <1>9 DEF Answer
  <2>2. CASE Undecided(b)' => Undecided(b)
    BY <1>a, <2>1, <2>2 DEF Sent
  <2>3. CASE a \in Replied(b) /\ ~a.ok
    <3>1. Replied(b)' = {}
      BY <1>0, <2>1, <2>3 DEF Replied, OnceOf, AtMostOne
    <3>2. Untouched(b) /\ Sent(b) = {} /\ ~Serving(b)
      BY <1>0, <2>3 DEF OnceOf
    <3>3. /\ Sent(b)' = Sent(b) /\ Serving(b)' = Serving(b)
          /\ On(b)' = On(b) /\ Before(b)' = Before(b)
      BY <2>1 DEF Sent, Serving, On, Before
    <3>4. Untouched(b)'
      BY <2>1, <3>2, <3>3 DEF Untouched
    <3> QED
      BY <1>0, <3>1, <3>2, <3>3, <3>4 DEF OnceOf, AtMostOne, Untouched
  <2> QED
    BY <1>1, <2>1, <2>2, <2>3 DEF Replied
<1>10. ASSUME NEW a \in responses, LoseResponse(a) PROVE OnceOf(b)'
  <2>1. /\ UNCHANGED <<receiverVars, calls, senderVars, flight>>
        /\ responses' \subseteq responses
    BY <1>10 DEF LoseResponse
  <2> QED
    BY <1>a, <2>1 DEF Sent, Undecided
<1>11. CASE Timeout
  <2>1. UNCHANGED <<receiverVars, calls, flight, responses>>
    BY <1>11 DEF Timeout
  <2>2. Undecided(b)' => Undecided(b)
    BY <1>1, <2>1 DEF Replied
  <2> QED
    BY <1>a, <2>1, <2>2 DEF Sent
<1>12. CASE ReceiverCrash
  <2>1. /\ UNCHANGED <<senderVars, flight, responses, calls>>
        /\ handler'.pc = "idle"
        /\ \A t \in Threads : thread'[t] = R!IdleThread
    BY <1>12 DEF ReceiverCrash, R!Crash, R!IdleHandler
  <2>2. On(b)' = {} /\ Before(b)' = {}
    BY <2>1, SameOperators, IdleIsIdle DEF On, Before
  <2>3. /\ ~Serving(b)' /\ Sent(b)' = Sent(b) /\ Replied(b)' = Replied(b)
        /\ Undecided(b)' = Undecided(b)
    BY <2>1 DEF Serving, Sent, Replied, Undecided
  <2> QED
    BY <1>0, <2>1, <2>2, <2>3, LessOfIt
<1>13. CASE UNCHANGED vars
  BY <1>13, <1>a DEF vars, Sent, Undecided
<1> QED
  BY <1>2, <1>3, <1>4, <1>5, <1>6, <1>7, <1>8, <1>9, <1>10, <1>11, <1>12,
     <1>13
     DEF Next

(* Of a batch of several chunks nothing is ever processed.                  *)
LEMMA NothingProcessed ==
  ASSUME EndsInv, HeldInv, NumChunks # 1, [Next]_vars
  PROVE  \A b \in Batches : calls'[b] = calls[b]
<1>1. ASSUME NEW t \in Threads, ThreadRuns(t)
      PROVE  \A b \in Batches : calls'[b] = calls[b]
  <2>0. thread[t].batch \in Batches /\ calls \in [Batches -> 0 .. MaxRows]
    BY DEF EndsInv, RP!IInv, RP!TypeOK, NetworkTyped
  <2>1. ~RP!Running(t)
    <3> SUFFICES ASSUME RP!Running(t) PROVE FALSE
      OBVIOUS
    <3>1. \A i \in Chunks : chunkFile[thread[t].batch][i] \in RP!Payloads
      BY DEF EndsInv, RP!IInv, RP!Safe, RP!ThreadSeesDisk, Chunks
    <3>2. 0 \in Chunks
      BY NumChunksAssumption DEF Chunks
    <3> QED
      BY <2>0, <3>1, <3>2 DEF HeldInv, NothingOfSeveral, RP!Payloads
  <2> QED
    BY <1>1, <2>0, <2>1 DEF ThreadRuns, R!At, RP!Running, RP!At
<1>2. CASE ~\E t \in Threads : ThreadRuns(t)
  <2>1. UNCHANGED calls
    BY <1>2 DEF Next, WorkerStep, PostManifest, PostChunk, Deliver,
                LoseRequest, HandlerRuns, Respond, Answer, LoseResponse,
                Timeout, ReceiverCrash, WorkerCrash, vars, observers
  <2> QED
    BY <2>1
<1> QED
  BY <1>1, <1>2

(* No batch is processed twice unless the worker gave up on one of its      *)
(* posts: nothing calls resume_batch, and crashes at either end, database   *)
(* errors and losses do not change it, whatever the schema.                 *)
THEOREM ProcessedOnceUnlessLate ==
  ASSUME ~CanResume
  PROVE  Spec => []ProcessedOnceOnTime
<1>1. EndsInv /\ EndsInv' /\ HeldInv /\ OnceInv /\ [Next]_vars => OnceInv'
  <2> SUFFICES ASSUME EndsInv, EndsInv', HeldInv, OnceInv, [Next]_vars
               PROVE  OnceInv'
    OBVIOUS
  <2>1. NeverResumed'
    BY NeverResumedStep DEF OnceInv
  <2>2. NumChunks # 1 => \A b \in Batches : calls'[b] = 0
    BY NothingProcessed DEF OnceInv
  <2>3. NumChunks = 1 => \A b \in Batches \ late' : OnceOf(b)'
    BY OnceStep
  <2> QED
    BY <2>1, <2>2, <2>3 DEF OnceInv
<1>2. EndsInv /\ OnceInv => ProcessedOnceOnTime
  BY DEF OnceInv, OnceOf, ProcessedOnceOnTime
<1> QED
  BY <1>1, <1>2, InitOnce, HeldAlways, PTL DEF Spec
=============================================================================
