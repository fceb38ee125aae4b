------------------------------ MODULE Receiver ------------------------------
(***************************************************************************)
(* The sync receiver: services/receiver/{api,storage,validator,processor}. *)
(*                                                                         *)
(* One event loop runs the request handlers.  Their only await is the read *)
(* of the body, so two handlers never overlap; but each of them may start  *)
(* a validation thread, and those threads run beside the loop and beside   *)
(* each other.  The in-memory registries die with the process; the chunk   *)
(* files, the batch and manifest JSON files and the SQLite tables survive. *)
(* Files are written in place (open for writing truncates), so a crash or  *)
(* another thread can see them "torn": truncated and not yet rewritten.    *)
(*                                                                         *)
(* A payload is "good" when it is the slice of the exported batch that its *)
(* index promises, and "bad" when it is anything else: the concatenation   *)
(* has the digest of the manifest exactly when every chunk is good.        *)
(***************************************************************************)
EXTENDS Naturals

CONSTANTS Batches,            \* batch identifiers a client uses
          Chunks,             \* chunk indices of a batch, range(total_chunks)
          Threads,            \* model bound: validation threads alive at once
          MaxRows,            \* model bound: market_snapshot rows are counted up to it
          CanCrash,           \* whether the receiver process may die
          DbErrors,           \* whether a transaction may fail on its own
          (* core/database/schema.py:15-29 has neither of these two, although *)
          (* processor.py writes both; the documents plan the second one.     *)
          FundsHasFundLike,   \* table funds has the column is_fund_like
          HasReceivedBatches  \* table received_batches exists

ASSUME ChunksAssumption == Chunks # {}
ASSUME BatchesAssumption == Batches # {}
ASSUME MaxRowsAssumption == MaxRows \in Nat \ {0}
ASSUME FlagsAssumption == /\ CanCrash \in BOOLEAN
                          /\ DbErrors \in BOOLEAN
                          /\ FundsHasFundLike \in BOOLEAN
                          /\ HasReceivedBatches \in BOOLEAN

VARIABLES
  (* memory of the process *)
  registry,      \* _batch_registry: batch -> ReceivedBatch, or Absent
  manifests,     \* _manifest_registry: the batches whose manifest it holds
  handler,       \* the request handler the event loop is running
  thread,        \* the validation threads
  (* files *)
  batchFile,     \* batches/{id}.json
  manifestFile,  \* the batches whose batches/{id}.manifest.json is readable
  chunkFile,     \* chunks/{id}/{n}.bin
  (* database *)
  funds,         \* batches whose snapshots were upserted into funds
  rows,          \* market_snapshot rows inserted for a batch
  history,       \* batches whose snapshots were upserted into history
  processed      \* batches with a received_batches row, processed = 1

memory == <<registry, manifests>>
files == <<batchFile, manifestFile, chunkFile>>
tables == <<funds, rows, history, processed>>
vars == <<registry, manifests, handler, thread, batchFile, manifestFile,
          chunkFile, funds, rows, history, processed>>

-----------------------------------------------------------------------------
(* Data *)

Payloads == {"good", "bad"}
Contents == Payloads \cup {"none", "torn"}    \* of a chunk file or record
ChunkMaps == [Chunks -> Contents]
Statuses == {"absent", "torn", "pending", "failed", "complete"}
BatchRecs == [status : Statuses, chunks : ChunkMaps]

(* A request carries the checksum of its own payload ("own"), as the API   *)
(* asks, or the checksum of the whole batch ("batch"), as SyncChunker does,*)
(* or one that matches no payload ("stale"), as resume_batch does.         *)
Requests == [kind : {"manifest"}, batch : Batches]
            \cup [kind : {"chunk"}, batch : Batches, chunk : Chunks,
                  payload : Payloads, sum : {"own", "batch", "stale"}]

NoChunks == [i \in Chunks |-> "none"]
Rec(s, m) == [status |-> s, chunks |-> m]
Absent == Rec("absent", NoChunks)
Torn == Rec("torn", NoChunks)
Readable(f) == f.status \notin {"absent", "torn"}

(* Operators named X_Fault are faulty variants of X, which no action uses.  *)
IsComplete_OneShort(m) == \E j \in Chunks : \A i \in Chunks \ {j} : m[i] # "none"

IsComplete(m) == \A i \in Chunks : m[i] # "none"
Intact(m) == \A i \in Chunks : m[i] = "good"

(* The digest of the chunk's own payload: that of the whole batch is the   *)
(* same only when the batch has no other chunk.                            *)
SumMatches(r) == \/ r.sum = "own"
                 \/ r.sum = "batch" /\ r.payload = "good" /\ Chunks = {r.chunk}

(* load_batch: None for a missing or unparsable file; the payloads come    *)
(* from the chunk files and no longer match their checksum if those differ.*)
Load(b) ==
  IF Readable(batchFile[b])
  THEN Rec(batchFile[b].status,
           [i \in Chunks |->
              IF batchFile[b].chunks[i] \in {"none", chunkFile[b][i]}
              THEN batchFile[b].chunks[i] ELSE "torn"])
  ELSE Absent

Known(b) == IF registry[b] # Absent THEN registry[b] ELSE Load(b)

(* open(path, "w") has truncated the file; the write puts rec in it.  If   *)
(* another thread wrote it in between, the two texts may overlay.          *)
Open(b) == batchFile' = [batchFile EXCEPT ![b] = Torn]
Write(b, rec) ==
  \/ batchFile' = [batchFile EXCEPT ![b] = rec]
  \/ batchFile[b] \notin {Torn, rec} /\ Open(b)

StoringSteps == {"chunk_file", "chunk_list", "chunk_pending", "chunk_check",
                 "chunk_failed"}
HandlerSteps == {"idle", "manifest_batch", "manifest_file", "reply"}
                \cup StoringSteps
Codes == {"none", "accepted", "duplicate", "rejected", "unknown"}
ThreadSteps == {"idle", "validate", "save", "load", "funds", "snapshot",
                "history", "mark"}

Goto(step) == handler' = [handler EXCEPT !.pc = step]
Reply(r, code) == handler' = [pc |-> "reply", req |-> r, code |-> code]
Begin(r, step) == handler' = [pc |-> step, req |-> r, code |-> "none"]

IdleThread == [pc |-> "idle", batch |-> CHOOSE b \in Batches : TRUE,
               chunks |-> NoChunks]
SomeIdle == \E t \in Threads : thread[t] = IdleThread

StartValidation(b, m) ==
  \E t \in Threads :
    /\ thread[t] = IdleThread
    /\ thread' = [thread EXCEPT ![t] = [pc |-> "validate", batch |-> b,
                                        chunks |-> m]]

AnyRequest == [kind |-> "manifest", batch |-> CHOOSE b \in Batches : TRUE]
IdleHandler == [pc |-> "idle", req |-> AnyRequest, code |-> "none"]

Init ==
  /\ registry = [b \in Batches |-> Absent]
  /\ manifests = {}
  /\ handler = IdleHandler
  /\ thread = [t \in Threads |-> IdleThread]
  /\ batchFile = [b \in Batches |-> Absent]
  /\ manifestFile = {}
  /\ chunkFile = [b \in Batches |-> NoChunks]
  /\ funds = {}
  /\ rows = [b \in Batches |-> 0]
  /\ history = {}
  /\ processed = {}

-----------------------------------------------------------------------------
ReceiveManifest_Unkept(r) ==
  /\ handler.pc = "idle" /\ r.kind = "manifest"
  /\ registry' = [registry EXCEPT ![r.batch] = Rec("pending", NoChunks)]
  /\ manifests' = manifests \ {r.batch}
  /\ Open(r.batch)
  /\ Begin(r, "manifest_batch")
  /\ UNCHANGED <<thread, manifestFile, chunkFile, tables>>

(* POST /sync/manifest.  Registers an empty batch over whatever was known  *)
(* of it; the chunk files stay where they are.                             *)
ReceiveManifest(r) ==
  /\ handler.pc = "idle" /\ r.kind = "manifest"
  /\ registry' = [registry EXCEPT ![r.batch] = Rec("pending", NoChunks)]
  /\ manifests' = manifests \cup {r.batch}
  /\ Open(r.batch)
  /\ Begin(r, "manifest_batch")
  /\ UNCHANGED <<thread, manifestFile, chunkFile, tables>>

SaveNewBatch ==
  /\ handler.pc = "manifest_batch"
  /\ Write(handler.req.batch, Rec("pending", NoChunks))
  /\ manifestFile' = manifestFile \ {handler.req.batch}
  /\ Goto("manifest_file")
  /\ UNCHANGED <<memory, thread, chunkFile, tables>>

SaveManifest ==
  /\ handler.pc = "manifest_file"
  /\ manifestFile' = manifestFile \cup {handler.req.batch}
  /\ Reply(handler.req, "accepted")
  /\ UNCHANGED <<memory, thread, batchFile, chunkFile, tables>>

-----------------------------------------------------------------------------
(* POST /sync/chunk *)

ChunkArrives(r) == /\ handler.pc = "idle" /\ r.kind = "chunk"
                   /\ SomeIdle

(* The chunk file exists already.  A batch that is complete but not yet    *)
(* marked so gets (another) validation thread.                             *)
ReceiveDuplicate(r) ==
  LET b == r.batch
      batch == Known(b)
      validate == /\ batch # Absent
                  /\ IsComplete(batch.chunks)
                  /\ batch.status # "complete"
  IN /\ ChunkArrives(r)
     /\ chunkFile[b][r.chunk] # "none"
     /\ registry' = [registry EXCEPT ![b] = batch]
     /\ manifests' = IF validate THEN manifests \cup ({b} \cap manifestFile)
                                 ELSE manifests
     /\ IF validate /\ b \in manifests'
        THEN StartValidation(b, batch.chunks)
        ELSE UNCHANGED thread
     /\ Reply(r, "duplicate")
     /\ UNCHANGED <<files, tables>>

(* A batch that memory has lost comes back from the disk, with its         *)
(* manifest.                                                               *)
Reload(b) ==
  /\ registry' = [registry EXCEPT ![b] = Known(b)]
  /\ manifests' = IF registry[b] = Absent
                  THEN manifests \cup ({b} \cap manifestFile) ELSE manifests

RefuseUnknown(r) ==
  /\ ChunkArrives(r)
  /\ chunkFile[r.batch][r.chunk] = "none"
  /\ Known(r.batch) = Absent
  /\ Reply(r, "unknown")
  /\ UNCHANGED <<memory, thread, files, tables>>

RejectChecksum(r) ==
  /\ ChunkArrives(r)
  /\ chunkFile[r.batch][r.chunk] = "none"
  /\ Known(r.batch) # Absent
  /\ ~SumMatches(r)
  /\ Reload(r.batch)
  /\ Reply(r, "rejected")
  /\ UNCHANGED <<thread, files, tables>>

AcceptChunk_ListsFirst(r) ==
  /\ ChunkArrives(r)
  /\ chunkFile[r.batch][r.chunk] = "none"
  /\ Known(r.batch) # Absent
  /\ SumMatches(r)
  /\ manifests' = manifests
  /\ registry' = [registry EXCEPT ![r.batch] =
                    Rec("pending", [Known(r.batch).chunks EXCEPT
                                      ![r.chunk] = r.payload])]
  /\ chunkFile' = [chunkFile EXCEPT ![r.batch][r.chunk] = "torn"]
  /\ Begin(r, "chunk_file")
  /\ UNCHANGED <<thread, batchFile, manifestFile, tables>>

AcceptChunk_Rewrites(r) ==
  /\ ChunkArrives(r)
  /\ Known(r.batch) # Absent
  /\ SumMatches(r)
  /\ Reload(r.batch)
  /\ chunkFile' = [chunkFile EXCEPT ![r.batch][r.chunk] = "torn"]
  /\ Begin(r, "chunk_file")
  /\ UNCHANGED <<thread, batchFile, manifestFile, tables>>

AcceptChunk(r) ==
  /\ ChunkArrives(r)
  /\ chunkFile[r.batch][r.chunk] = "none"
  /\ Known(r.batch) # Absent
  /\ SumMatches(r)
  /\ Reload(r.batch)
  /\ chunkFile' = [chunkFile EXCEPT ![r.batch][r.chunk] = "torn"]
  /\ Begin(r, "chunk_file")
  /\ UNCHANGED <<thread, batchFile, manifestFile, tables>>

StoreChunk ==
  /\ handler.pc = "chunk_file"
  /\ chunkFile' = [chunkFile EXCEPT
                     ![handler.req.batch][handler.req.chunk] = handler.req.payload]
  /\ Goto("chunk_list")
  /\ UNCHANGED <<memory, thread, batchFile, manifestFile, tables>>

ListChunk ==
  LET r == handler.req
      listed == [registry[r.batch].chunks EXCEPT ![r.chunk] = r.payload]
  IN /\ handler.pc = "chunk_list"
     /\ registry' = [registry EXCEPT ![r.batch] = Rec("pending", listed)]
     /\ Open(r.batch)
     /\ Goto("chunk_pending")
     /\ UNCHANGED <<manifests, thread, manifestFile, chunkFile, tables>>

SavePending_Validates ==
  LET b == handler.req.batch
  IN /\ handler.pc = "chunk_pending"
     /\ Write(b, Rec("pending", registry[b].chunks))
     /\ IF IsComplete(registry[b].chunks)
        THEN StartValidation(b, registry[b].chunks) ELSE UNCHANGED thread
     /\ Goto("chunk_check")
     /\ UNCHANGED <<memory, manifestFile, chunkFile, tables>>

SavePending ==
  LET b == handler.req.batch
  IN /\ handler.pc = "chunk_pending"
     /\ Write(b, Rec("pending", registry[b].chunks))
     /\ Goto("chunk_check")
     /\ UNCHANGED <<memory, thread, manifestFile, chunkFile, tables>>

CheckComplete_Forgets ==
  /\ handler.pc = "chunk_check"
  /\ IsComplete(registry[handler.req.batch].chunks)
  /\ Reply(handler.req, "accepted")
  /\ UNCHANGED <<memory, thread, files, tables>>

(* The last chunk starts the validation, if the manifest is in memory.     *)
CheckComplete ==
  LET b == handler.req.batch
  IN /\ handler.pc = "chunk_check"
     /\ IsComplete(registry[b].chunks)
     /\ IF b \in manifests THEN StartValidation(b, registry[b].chunks)
                            ELSE UNCHANGED thread
     /\ Reply(handler.req, "accepted")
     /\ UNCHANGED <<memory, files, tables>>

(* Every earlier chunk takes the else branch, which marks the batch failed.*)
MarkFailed ==
  LET b == handler.req.batch
  IN /\ handler.pc = "chunk_check"
     /\ ~IsComplete(registry[b].chunks)
     /\ registry' = [registry EXCEPT ![b].status = "failed"]
     /\ Open(b)
     /\ Goto("chunk_failed")
     /\ UNCHANGED <<manifests, thread, manifestFile, chunkFile, tables>>

SaveFailed ==
  LET b == handler.req.batch
  IN /\ handler.pc = "chunk_failed"
     /\ Write(b, Rec("failed", registry[b].chunks))
     /\ Reply(handler.req, "accepted")
     /\ UNCHANGED <<memory, thread, manifestFile, chunkFile, tables>>

(* The response leaves and the loop takes its next request.                *)
Respond == /\ handler.pc = "reply"
           /\ handler' = IdleHandler
           /\ UNCHANGED <<memory, thread, files, tables>>

-----------------------------------------------------------------------------
(* A validation thread: _run_validation, then process_batch.               *)

At(t, step) == thread[t].pc = step
Advance(t, step) == thread' = [thread EXCEPT ![t].pc = step]
Finish(t) == thread' = [thread EXCEPT ![t] = IdleThread]

ValidateIntact_AnyBytes(t) ==
  LET b == thread[t].batch
  IN /\ At(t, "validate")
     /\ registry' = [registry EXCEPT ![b] = Rec("complete", thread[t].chunks)]
     /\ Open(b)
     /\ Advance(t, "save")
     /\ UNCHANGED <<manifests, handler, manifestFile, chunkFile, tables>>

(* The chunks are those the handler saw when it started the thread.        *)
ValidateIntact(t) ==
  LET b == thread[t].batch
  IN /\ At(t, "validate") /\ Intact(thread[t].chunks)
     /\ registry' = [registry EXCEPT ![b] = Rec("complete", thread[t].chunks)]
     /\ Open(b)
     /\ Advance(t, "save")
     /\ UNCHANGED <<manifests, handler, manifestFile, chunkFile, tables>>

ValidateMismatch(t) ==
  /\ At(t, "validate") /\ ~Intact(thread[t].chunks)
  /\ Finish(t)
  /\ UNCHANGED <<memory, handler, files, tables>>

SaveComplete(t) ==
  /\ At(t, "save")
  /\ Write(thread[t].batch, Rec("complete", thread[t].chunks))
  /\ Advance(t, "load")
  /\ UNCHANGED <<memory, handler, manifestFile, chunkFile, tables>>

(* load_batch, load_all_chunks, reassembly and the final checksum; every   *)
(* failing test ends the processing of the batch.                          *)
LoadedIntact(b) == batchFile[b].status = "complete" /\ Intact(Load(b).chunks)

LoadForProcessing(t) ==
  /\ At(t, "load")
  /\ IF LoadedIntact(thread[t].batch) THEN Advance(t, "funds") ELSE Finish(t)
  /\ UNCHANGED <<memory, handler, files, tables>>

UpsertFunds_ThenHistory(t) ==
  /\ At(t, "funds") /\ FundsHasFundLike
  /\ funds' = funds \cup {thread[t].batch}
  /\ Advance(t, "history")
  /\ UNCHANGED <<memory, handler, files, rows, history, processed>>

UpsertFunds(t) ==
  /\ At(t, "funds") /\ FundsHasFundLike
  /\ funds' = funds \cup {thread[t].batch}
  /\ Advance(t, "snapshot")
  /\ UNCHANGED <<memory, handler, files, rows, history, processed>>

(* A plain INSERT: market_snapshot has no unique key.                      *)
SaveMarketSnapshot(t) ==
  LET b == thread[t].batch
  IN /\ At(t, "snapshot")
     /\ rows' = [rows EXCEPT ![b] = IF @ < MaxRows THEN @ + 1 ELSE @]
     /\ Advance(t, "history")
     /\ UNCHANGED <<memory, handler, files, funds, history, processed>>

SaveHistory(t) ==
  /\ At(t, "history")
  /\ history' = history \cup {thread[t].batch}
  /\ Advance(t, "mark")
  /\ UNCHANGED <<memory, handler, files, funds, rows, processed>>

(* Updates the received_batches row, or inserts it from the batch file.    *)
MarkProcessed(t) ==
  LET b == thread[t].batch
  IN /\ At(t, "mark") /\ HasReceivedBatches
     /\ processed' = IF Readable(batchFile[b]) THEN processed \cup {b}
                                               ELSE processed
     /\ Finish(t)
     /\ UNCHANGED <<memory, handler, files, funds, rows, history>>

(* A transaction raises and rolls back; the earlier ones stay committed.   *)
TransactionFails(t) ==
  /\ \/ thread[t].pc \in {"funds", "snapshot", "history", "mark"} /\ DbErrors
     \/ At(t, "funds") /\ ~FundsHasFundLike
     \/ At(t, "mark") /\ ~HasReceivedBatches
  /\ Finish(t)
  /\ UNCHANGED <<memory, handler, files, tables>>

-----------------------------------------------------------------------------
Crash == /\ CanCrash
         /\ registry' = [b \in Batches |-> Absent]
         /\ manifests' = {}
         /\ handler' = IdleHandler
         /\ thread' = [t \in Threads |-> IdleThread]
         /\ UNCHANGED <<files, tables>>

Receive(r) == \/ ReceiveManifest(r)
              \/ ReceiveDuplicate(r)
              \/ RefuseUnknown(r)
              \/ RejectChecksum(r)
              \/ AcceptChunk(r)

HandlerStep == \/ SaveNewBatch \/ SaveManifest
               \/ StoreChunk \/ ListChunk \/ SavePending
               \/ CheckComplete \/ MarkFailed \/ SaveFailed

ThreadStep(t) == \/ ValidateIntact(t) \/ ValidateMismatch(t)
                 \/ SaveComplete(t) \/ LoadForProcessing(t)
                 \/ UpsertFunds(t) \/ SaveMarketSnapshot(t)
                 \/ SaveHistory(t) \/ MarkProcessed(t)
                 \/ TransactionFails(t)

Next == \/ \E r \in Requests : Receive(r)
        \/ HandlerStep
        \/ Respond
        \/ \E t \in Threads : ThreadStep(t)
        \/ Crash

Spec == Init /\ [][Next]_vars

(* The event loop and the scheduler run what is ready to run; a client     *)
(* never has to send anything, and nothing has to crash.                   *)
Fairness == /\ WF_vars(HandlerStep \/ Respond)
            /\ \A t \in Threads : WF_vars(ThreadStep(t))

FairSpec == Spec /\ Fairness

(* A client that sends each genuine chunk again and again.                 *)
Genuine == {r \in Requests : r.kind = "chunk" /\ r.payload = "good" /\ r.sum = "own"}
PersistentSpec ==
  FairSpec /\ \A r \in Genuine : SF_vars(ReceiveDuplicate(r) \/ AcceptChunk(r))

-----------------------------------------------------------------------------
(* Properties *)

(* Type invariant of the receiver's memory, files and tables.              *)
TypeOK ==
  /\ registry \in [Batches -> BatchRecs]
  /\ manifests \subseteq Batches
  /\ handler \in [pc : HandlerSteps, req : Requests, code : Codes]
  /\ handler.pc \in StoringSteps => handler.req.kind = "chunk"
  /\ thread \in [Threads -> [pc : ThreadSteps, batch : Batches,
                             chunks : ChunkMaps]]
  /\ batchFile \in [Batches -> BatchRecs]
  /\ manifestFile \subseteq Batches
  /\ chunkFile \in [Batches -> ChunkMaps]
  /\ funds \subseteq Batches
  /\ rows \in [Batches -> 0 .. MaxRows]
  /\ history \subseteq Batches
  /\ processed \subseteq Batches

Stored(b, m) == \A i \in Chunks : m[i] \in {"none"} \cup ({chunkFile[b][i]} \cap Payloads)

(* A chunk that the registry or the batch file lists is whole on disk, with *)
(* the payload that was accepted: save_chunk comes before the metadata      *)
(* (api.py), so no crash and no restart can leave metadata ahead of data.   *)
ListedChunksStored == \A b \in Batches : /\ Stored(b, registry[b].chunks)
                                         /\ Stored(b, batchFile[b].chunks)

Running(t) == ~At(t, "idle")

(* The chunks a validation thread closed over are still exactly the chunk   *)
(* files of its batch, however long it runs and whatever manifest or chunk  *)
(* requests the event loop handles meanwhile: what was validated is what    *)
(* process_batch will read.                                                 *)
ThreadSeesDisk == \A t \in Threads : Running(t) =>
                    /\ thread[t].chunks = chunkFile[thread[t].batch]
                    /\ \A i \in Chunks : thread[t].chunks[i] \in Payloads

(* While a handler is storing a new chunk of a batch, no validation thread  *)
(* works on that batch: the two never write its registry entry or its file  *)
(* concurrently.                                                            *)
HandlerOwnsBatch ==
  handler.pc \in StoringSteps =>
    \A t \in Threads : Running(t) => thread[t].batch # handler.req.batch

(* A batch is marked complete, in memory or on disk, only if every one of   *)
(* its chunk files is the genuine slice (validate_complete_batch).          *)
CompleteIsIntact ==
  \A b \in Batches :
    "complete" \in {registry[b].status, batchFile[b].status}
      => Intact(chunkFile[b])

(* A whole chunk file is never rewritten: the duplicate test of             *)
(* receive_chunk makes the store write-once, across restarts too.           *)
ChunksWrittenOnce ==
  [][\A b \in Batches, i \in Chunks :
       chunkFile[b][i] \in Payloads => chunkFile'[b][i] = chunkFile[b][i]]_vars

(* Only a new manifest or the loss of the process takes a batch out of      *)
(* "complete" in the registry; no chunk request ever does.                  *)
CompleteStays ==
  [][\A b \in Batches :
       registry[b].status = "complete" =>
         \/ registry'[b].status = "complete"
         \/ registry'[b] \in {Absent, Rec("pending", NoChunks)}]_vars

(* The receiver implements BatchIntake: stored genuine chunks are what is   *)
(* durable, and the tables written say how far the batch has got.           *)
Stage(b) == IF b \in processed THEN 4
            ELSE IF b \in history THEN 3
            ELSE IF rows[b] > 0 THEN 2
            ELSE IF b \in funds THEN 1 ELSE 0

Intake == INSTANCE BatchIntake WITH
            got <- [b \in Batches |-> {i \in Chunks : chunkFile[b][i] = "good"}],
            stage <- [b \in Batches |-> Stage(b)]

ImplementsIntake == Intake!Spec

(* Once the last genuine chunk is in the registry beside its manifest, the  *)
(* batch becomes complete, unless a new manifest or a crash forgets it.     *)
FullyReceived(b) == b \in manifests /\ Intact(registry[b].chunks)
FullBatchCompletes ==
  \A b \in Batches :
    FullyReceived(b) ~> (registry[b].status = "complete" \/ ~FullyReceived(b))

(* A batch that process_batch has loaded and verified reaches the history   *)
(* table, when transactions do not fail and the process lives on.           *)
LoadedReachesHistory ==
  \A b \in Batches :
    (\E t \in Threads : At(t, "funds") /\ thread[t].batch = b) ~> b \in history

(* docs/RECEIVER_V1_DESIGN.md:37: when all chunks are received, the         *)
(* receiver reassembles the batch (and persists it); here under a client    *)
(* that repeats its chunks for ever and its manifest only so often.         *)
ReceivedReachesHistory ==
  <>[](handler.pc # "manifest_batch") =>
    \A b \in Batches :
      (b \in manifests /\ Intact(chunkFile[b])) ~> b \in history
=============================================================================
