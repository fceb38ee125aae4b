----------------------------- MODULE SyncSystem -----------------------------
(***************************************************************************)
(* The sync pipeline end to end: the worker of the gateway host (Sender),  *)
(* the HTTP requests between the hosts, and the receiver (Receiver).       *)
(*                                                                         *)
(* A request is on its way, then served, then answered.  Either direction  *)
(* may lose it, and the worker may stop waiting (timeout) while the        *)
(* receiver still serves it.  Nothing is duplicated by the network: the    *)
(* copies of a chunk that reach the receiver are the worker's own retries. *)
(***************************************************************************)
EXTENDS Naturals, FiniteSets

CONSTANTS Batches, NumChunks, MaxAttempts, CanResume,
          Threads, MaxRows, CanCrash, DbErrors,
          FundsHasFundLike, HasReceivedBatches,
          CanLose          \* whether messages get lost and posts time out

(* What Sender and Receiver assume of the same constants.                  *)
ASSUME BatchesAssumption == Batches # {}
ASSUME NumChunksAssumption == NumChunks \in Nat \ {0}
ASSUME MaxAttemptsAssumption == MaxAttempts \in Nat \ {0}
ASSUME MaxRowsAssumption == MaxRows \in Nat \ {0}
ASSUME FlagsAssumption == /\ CanResume \in BOOLEAN
                          /\ CanCrash \in BOOLEAN
                          /\ DbErrors \in BOOLEAN
                          /\ FundsHasFundLike \in BOOLEAN
                          /\ HasReceivedBatches \in BOOLEAN
                          /\ CanLose \in BOOLEAN

VARIABLES worker, stateFile, exported, confirmed, resumed,
          registry, manifests, handler, thread, batchFile, manifestFile,
          chunkFile, funds, rows, history, processed,
          flight,    \* requests on their way to the receiver
          serving,   \* the number of the post that the handler is serving
          responses, \* responses on their way to the worker
          (* observers: no step depends on them *)
          late,      \* batches with a post the worker gave up on
          calls      \* how often process_batch was called for a batch

S == INSTANCE Sender
R == INSTANCE Receiver WITH Chunks <- 0 .. NumChunks - 1

senderVars == <<worker, stateFile, exported, confirmed, resumed>>
receiverVars == <<registry, manifests, handler, thread, batchFile,
                  manifestFile, chunkFile, funds, rows, history, processed>>
network == <<flight, serving, responses>>
observers == <<late, calls>>
vars == <<worker, stateFile, exported, confirmed, resumed, registry, manifests,
          handler, thread, batchFile, manifestFile, chunkFile, funds, rows,
          history, processed, flight, serving, responses, late, calls>>

Init == /\ S!Init /\ R!Init
        /\ flight = {} /\ serving = 0 /\ responses = {}
        /\ late = {} /\ calls = [b \in Batches |-> 0]

(* SyncTransport.  A chunk carries the payload of its slice and, as the    *)
(* chunker made it, the checksum of the whole batch; a resumed chunk has   *)
(* no payload and a checksum that matches nothing.                         *)
ManifestRequest == [kind |-> "manifest", batch |-> worker.batch]
ChunkRequest == [kind |-> "chunk", batch |-> worker.batch,
                 chunk |-> worker.next,
                 payload |-> IF worker.resuming THEN "bad" ELSE "good",
                 sum |-> IF worker.resuming THEN "stale" ELSE "batch"]

WorkerStep == /\ \/ \E b \in Batches : S!StartCycle(b) \/ S!BeginResume(b)
                 \/ S!Local
              /\ UNCHANGED <<receiverVars, network, observers>>

PostManifest == /\ S!PostManifest
                /\ flight' = flight \cup {[req |-> ManifestRequest, post |-> 0]}
                /\ UNCHANGED <<receiverVars, serving, responses, observers>>

PostChunk == /\ S!PostChunk
             /\ flight' = flight \cup
                  {[req |-> ChunkRequest, post |-> worker.attempt + 1]}
             /\ UNCHANGED <<receiverVars, serving, responses, observers>>

Deliver(f) == /\ R!Receive(f.req)
              /\ flight' = flight \ {f}
              /\ serving' = f.post
              /\ UNCHANGED <<senderVars, responses, observers>>

HandlerRuns == /\ R!HandlerStep
               /\ UNCHANGED <<senderVars, network, observers>>

(* Once it has saved the batch as complete, a validation thread calls      *)
(* process_batch, whatever becomes of the call.                            *)
ThreadRuns(t) ==
  /\ R!ThreadStep(t)
  /\ calls' = [calls EXCEPT ![thread[t].batch] =
                  IF R!At(t, "save") /\ @ < MaxRows THEN @ + 1 ELSE @]
  /\ UNCHANGED <<senderVars, network, late>>

Respond == /\ R!Respond
           /\ responses' = responses \cup
                {[req |-> handler.req, post |-> serving,
                  ok |-> handler.code \in {"accepted", "duplicate"}]}
           /\ UNCHANGED <<senderVars, flight, serving, observers>>

Awaited(a) == \/ /\ worker.pc = "manifest_wait"
                 /\ a.req = ManifestRequest
              \/ /\ worker.pc = "chunk_wait"
                 /\ a.req = ChunkRequest /\ a.post = worker.attempt

(* raise_for_status turns every refusal into an exception.                 *)
Answer(a) == /\ Awaited(a)
             /\ IF a.ok THEN S!ManifestDone \/ S!ChunkDone
                        ELSE S!ManifestFailed \/ S!ChunkFailed
             /\ responses' = responses \ {a}
             /\ UNCHANGED <<receiverVars, flight, serving, observers>>

Timeout == /\ CanLose
           /\ S!ManifestFailed \/ S!ChunkFailed
           /\ late' = late \cup {worker.batch}
           /\ UNCHANGED <<receiverVars, network, calls>>

LoseRequest(f) == /\ CanLose
                  /\ flight' = flight \ {f}
                  /\ UNCHANGED <<senderVars, receiverVars, serving, responses, observers>>

(* A response nobody waits for any more, or one the network loses.         *)
LoseResponse(a) == /\ CanLose \/ ~Awaited(a)
                   /\ responses' = responses \ {a}
                   /\ UNCHANGED <<senderVars, receiverVars, flight, serving, observers>>

ReceiverCrash == /\ R!Crash
                 /\ UNCHANGED <<senderVars, network, observers>>

WorkerCrash == /\ CanCrash
               /\ S!WorkerCrash
               /\ UNCHANGED <<receiverVars, network, observers>>

Next == \/ WorkerStep
        \/ PostManifest
        \/ PostChunk
        \/ \E f \in flight : Deliver(f) \/ LoseRequest(f)
        \/ HandlerRuns
        \/ \E t \in Threads : ThreadRuns(t)
        \/ Respond
        \/ \E a \in responses : Answer(a) \/ LoseResponse(a)
        \/ Timeout
        \/ ReceiverCrash
        \/ WorkerCrash

Spec == Init /\ [][Next]_vars

(* Both programs run when they can, a response that arrives is read, a     *)
(* request that is not lost is delivered, and a post that gets no answer   *)
(* times out.                                                              *)
Fairness == /\ WF_vars(WorkerStep \/ PostManifest \/ PostChunk)
            /\ WF_vars(HandlerRuns)
            /\ WF_vars(Respond)
            /\ \A t \in Threads : WF_vars(ThreadRuns(t))
            /\ WF_vars(\E f \in flight : Deliver(f))
            /\ WF_vars(Timeout \/ \E a \in responses : Answer(a))

FairSpec == Spec /\ Fairness

-----------------------------------------------------------------------------
(* Properties *)

(* Type invariant of the network; the two ends have their own.             *)
TypeOK == /\ S!TypeOK
          /\ R!TypeOK
          /\ flight \subseteq [req : R!Requests, post : 0 .. MaxAttempts]
          /\ serving \in 0 .. MaxAttempts
          /\ responses \subseteq [req : R!Requests, post : 0 .. MaxAttempts,
                                  ok : BOOLEAN]
          /\ late \subseteq Batches
          /\ calls \in [Batches -> 0 .. MaxRows]

Acked(b) == stateFile[b].status = "acked"

(* When the worker records a batch as acked, every chunk of it is durable   *)
(* and genuine at the receiver: what lets the worker forget the batch.      *)
AckedIsDurable == \A b \in Batches : Acked(b) => R!Intact(chunkFile[b])

(* What is left of that promise when both programs may crash anywhere and   *)
(* batches are resumed: an acked batch has a file for each chunk, although  *)
(* the file may be torn.                                                    *)
AckedHasFiles == \A b \in Batches : Acked(b) =>
                   \A i \in S!Chunks : chunkFile[b][i] # "none"

(* An acked batch is marked complete by the receiver sooner or later: its   *)
(* data does not stay in the chunk files unprocessed.                       *)
AckedCompletes ==
  \A b \in Batches : Acked(b) ~> batchFile[b].status = "complete"

(* A batch that is exported is marked complete by the receiver sooner or     *)
(* later, unless the worker gives up on one of its posts: nobody has to      *)
(* send it again.                                                            *)
ExportedCompletes ==
  \A b \in Batches :
    b \in exported ~> (batchFile[b].status = "complete" \/ b \in late)

(* docs/RECEIVER_V1_DESIGN.md:278: no batch is reprocessed.                  *)
ProcessedOnce == \A b \in Batches : calls[b] <= 1

(* What holds of it: a batch goes through process_batch a second time only   *)
(* if the worker gave up on one of its posts; the validation threads alone   *)
(* never do it.                                                              *)
ProcessedOnceOnTime == \A b \in Batches : b \notin late => calls[b] <= 1

(* services/receiver/processor.py:35: a completed batch is upserted into     *)
(* funds, market_snapshot and history.                                       *)
ExportedReachesHistory ==
  \A b \in Batches : b \in exported ~> (b \in history \/ b \in late)
=============================================================================
