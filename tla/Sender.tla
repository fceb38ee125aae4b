------------------------------- MODULE Sender -------------------------------
(***************************************************************************)
(* The sync worker of the gateway host: services/sync/worker/{worker,      *)
(* sender,retry,state}.  A single thread runs one cycle at a time: it      *)
(* exports a batch with a new id, saves its state file, posts the manifest *)
(* once and then every chunk with up to MaxAttempts attempts.  Any         *)
(* response below 400 counts as an acknowledgement; the body is not read.  *)
(* A failed post and a timeout look the same to the worker.                *)
(*                                                                         *)
(* resume_batch is an operation no code in src calls; CanResume says       *)
(* whether an operator calls it between cycles.                            *)
(***************************************************************************)
EXTENDS Naturals, FiniteSets

CONSTANTS Batches,      \* the batches that cycles export, one id each
          NumChunks,    \* chunks per batch
          MaxAttempts,  \* RetryPolicy.max_retries
          CanResume     \* whether resume_batch is ever called

ASSUME BatchesAssumption == Batches # {}
ASSUME NumChunksAssumption == NumChunks \in Nat \ {0}
ASSUME MaxAttemptsAssumption == MaxAttempts \in Nat \ {0}
ASSUME CanResumeAssumption == CanResume \in BOOLEAN

Chunks == 0 .. NumChunks - 1

VARIABLES
  worker,      \* the control state of the worker thread
  stateFile,   \* StateManager's {batch_id}.json
  exported,    \* batches that a cycle has exported
  confirmed,   \* observer: chunks whose post the worker saw succeed
  resumed      \* observer: batches that were ever resumed

vars == <<worker, stateFile, exported, confirmed, resumed>>

Statuses == {"absent", "torn", "pending", "sending", "acked", "failed"}
WorkerSteps == {"idle", "store", "begin", "manifest", "manifest_wait",
                "resume", "chunk", "chunk_wait", "finish"}

(* next: chunks handled so far; start: where they began; acked: how many   *)
(* of them were acknowledged; attempt: posts made of the current one.      *)
Workers == [pc : WorkerSteps, batch : Batches, start : 0 .. NumChunks,
            next : 0 .. NumChunks, acked : 0 .. NumChunks,
            attempt : 0 .. MaxAttempts, resuming : BOOLEAN]
StateFiles == [status : Statuses, received : 0 .. NumChunks]

IdleWorker == [pc |-> "idle", batch |-> CHOOSE b \in Batches : TRUE,
               start |-> 0, next |-> 0, acked |-> 0, attempt |-> 0,
               resuming |-> FALSE]

Init == /\ worker = IdleWorker
        /\ stateFile = [b \in Batches |-> [status |-> "absent", received |-> 0]]
        /\ exported = {}
        /\ confirmed = [b \in Batches |-> {}]
        /\ resumed = {}

At(step) == worker.pc = step
Goto(step) == worker' = [worker EXCEPT !.pc = step]

(* save_batch_state: what the call does not pass falls back to its default,*)
(* so every save without received_chunks sets it to 0.                     *)
SaveState(status, received) ==
  stateFile' = [stateFile EXCEPT ![worker.batch] =
                  [status |-> status, received |-> received]]

-----------------------------------------------------------------------------
(* SyncWorker.run_cycle *)

StartCycle(b) ==
  /\ At("idle") /\ b \notin exported
  /\ exported' = exported \cup {b}
  /\ worker' = [IdleWorker EXCEPT !.pc = "store", !.batch = b]
  /\ UNCHANGED <<stateFile, confirmed, resumed>>

StorePending == /\ At("store")
                /\ SaveState("pending", 0)
                /\ Goto("begin")
                /\ UNCHANGED <<exported, confirmed, resumed>>

(* SyncSender.send_batch *)

BeginSending == /\ At("begin")
                /\ SaveState("sending", 0)
                /\ Goto("manifest")
                /\ UNCHANGED <<exported, confirmed, resumed>>

PostManifest == /\ At("manifest")
                /\ Goto("manifest_wait")
                /\ UNCHANGED <<stateFile, exported, confirmed, resumed>>

ManifestDone == /\ At("manifest_wait")
                /\ Goto("chunk")
                /\ UNCHANGED <<stateFile, exported, confirmed, resumed>>

(* Not retried: the exception leaves the cycle, and the state file says    *)
(* "sending" for good.                                                     *)
ManifestFailed == /\ At("manifest_wait")
                  /\ worker' = IdleWorker
                  /\ UNCHANGED <<stateFile, exported, confirmed, resumed>>

PostChunk == /\ At("chunk")
             /\ worker' = [worker EXCEPT !.pc = "chunk_wait",
                                         !.attempt = @ + 1]
             /\ UNCHANGED <<stateFile, exported, confirmed, resumed>>

(* On to the next chunk of the list, or to the final state of the batch.   *)
HandleNext(gain) ==
  worker' = [worker EXCEPT
               !.pc = IF worker.next + 1 = NumChunks THEN "finish" ELSE "chunk",
               !.next = @ + 1, !.acked = @ + gain, !.attempt = 0]

ChunkDone == /\ At("chunk_wait")
             /\ confirmed' = [confirmed EXCEPT ![worker.batch] =
                                @ \cup {worker.next}]
             /\ HandleNext(1)
             /\ UNCHANGED <<stateFile, exported, resumed>>

(* Operators named X_Fault are faulty variants of X, which no action uses.  *)
ChunkFailed_Forever == /\ At("chunk_wait")
                       /\ worker' = [worker EXCEPT !.pc = "chunk", !.attempt = 0]
                       /\ UNCHANGED <<stateFile, exported, confirmed, resumed>>

ChunkFailed_Counted == /\ At("chunk_wait")
                       /\ IF worker.attempt < MaxAttempts THEN Goto("chunk")
                                                          ELSE HandleNext(1)
                       /\ UNCHANGED <<stateFile, exported, confirmed, resumed>>

ChunkFailed == /\ At("chunk_wait")
               /\ IF worker.attempt < MaxAttempts THEN Goto("chunk")
                                                  ELSE HandleNext(0)
               /\ UNCHANGED <<stateFile, exported, confirmed, resumed>>

FinishBatch_AllTried ==
  /\ At("finish")
  /\ SaveState(IF worker.next = NumChunks THEN "acked" ELSE "failed", worker.acked)
  /\ worker' = IdleWorker
  /\ UNCHANGED <<exported, confirmed, resumed>>

FinishBatch_CountsTried ==
  /\ At("finish")
  /\ SaveState(IF worker.acked = NumChunks - worker.start
               THEN "acked" ELSE "failed", worker.next)
  /\ worker' = IdleWorker
  /\ UNCHANGED <<exported, confirmed, resumed>>

FinishBatch ==
  /\ At("finish")
  /\ SaveState(IF worker.acked = NumChunks - worker.start
               THEN "acked" ELSE "failed", worker.acked)
  /\ worker' = IdleWorker
  /\ UNCHANGED <<exported, confirmed, resumed>>

-----------------------------------------------------------------------------
(* SyncSender.resume_batch: the acknowledged chunks are taken to be the    *)
(* first received_chunks ones, and the manifest is not sent again.         *)
BeginResume(b) ==
  /\ CanResume
  /\ At("idle")
  /\ stateFile[b].status \notin {"absent", "torn"}
  /\ stateFile[b].received < NumChunks
  /\ worker' = [IdleWorker EXCEPT !.pc = "resume", !.batch = b,
                  !.start = stateFile[b].received,
                  !.next = stateFile[b].received, !.resuming = TRUE]
  /\ resumed' = resumed \cup {b}
  /\ UNCHANGED <<stateFile, exported, confirmed>>

ResumeSending == /\ At("resume")
                 /\ SaveState("sending", 0)
                 /\ Goto("chunk")
                 /\ UNCHANGED <<exported, confirmed, resumed>>

-----------------------------------------------------------------------------
(* The worker process dies and is started again; a state file that it was  *)
(* rewriting (write_text truncates first) may be left torn.                *)
WorkerCrash ==
  /\ ~At("idle")
  /\ worker' = IdleWorker
  /\ \/ UNCHANGED stateFile
     \/ /\ worker.pc \in {"store", "begin", "resume", "finish"}
        /\ SaveState("torn", 0)
  /\ UNCHANGED <<exported, confirmed, resumed>>

Local == \/ StorePending \/ BeginSending \/ ResumeSending \/ FinishBatch
Post == PostManifest \/ PostChunk
Answered == ManifestDone \/ ManifestFailed \/ ChunkDone \/ ChunkFailed

Next == \/ \E b \in Batches : StartCycle(b) \/ BeginResume(b)
        \/ Local
        \/ Post
        \/ Answered
        \/ WorkerCrash

Spec == Init /\ [][Next]_vars

(* The worker runs when it can, its daemon loop starts one cycle after     *)
(* another, and requests raises after its timeout at the latest, so that   *)
(* every post is answered.                                                 *)
Fairness == /\ WF_vars(Local \/ Post \/ Answered)
            /\ WF_vars(\E b \in Batches : StartCycle(b))

FairSpec == Spec /\ Fairness

-----------------------------------------------------------------------------
(* Properties *)

(* Type invariant of the worker and its state files.                       *)
TypeOK == /\ worker \in Workers
          /\ stateFile \in [Batches -> StateFiles]
          /\ exported \subseteq Batches
          /\ confirmed \in [Batches -> SUBSET Chunks]
          /\ resumed \subseteq Batches

(* A batch that was never resumed is recorded as acked only if the worker  *)
(* saw every one of its chunks acknowledged (send_batch counts, it does    *)
(* not look at indices), whatever was resumed before it.                   *)
AckedIsConfirmed ==
  \A b \in Batches \ resumed :
    stateFile[b].status = "acked" => confirmed[b] = Chunks

(* The same of every batch: a resume sends again what was not acknowledged,*)
(* as the docstring of resume_batch (sender.py:80) says.                   *)
ResumedIsConfirmed ==
  \A b \in Batches : stateFile[b].status = "acked" => confirmed[b] = Chunks

(* The received count of a state file never exceeds the number of chunks    *)
(* that really were acknowledged, over cycles, resumes and crashes.         *)
ReceivedIsConfirmed ==
  \A b \in Batches : stateFile[b].received <= Cardinality(confirmed[b])

(* Every cycle comes to an end, whatever is lost: attempts are bounded and *)
(* a timeout ends every wait.                                              *)
CycleEnds == ~At("idle") ~> At("idle")

(* A batch none of whose chunks got through is sent again, as              *)
(* docs/SYNC_V1_DESIGN.md:161 promises.                                    *)
FailedBatchRetried ==
  \A b \in Batches :
    (stateFile[b].status = "failed" /\ confirmed[b] = {})
      ~> (worker.batch = b /\ ~At("idle"))
=============================================================================
