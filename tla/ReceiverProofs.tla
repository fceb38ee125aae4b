--------------------------- MODULE ReceiverProofs ---------------------------
(***************************************************************************)
(* Proofs about the receiver, for any number of batches, chunks and        *)
(* validation threads.                                                     *)
(***************************************************************************)
EXTENDS Receiver, TLAPS

-----------------------------------------------------------------------------
(* Type correctness *)

LEMMA RecordTypes ==
  /\ NoChunks \in ChunkMaps
  /\ Absent \in BatchRecs
  /\ Torn \in BatchRecs
  /\ \A s \in Statuses, m \in ChunkMaps : Rec(s, m) \in BatchRecs
  /\ \A r \in BatchRecs : r.status \in Statuses /\ r.chunks \in ChunkMaps
BY DEF NoChunks, Absent, Torn, Rec, BatchRecs, Statuses, ChunkMaps, Contents,
       Payloads

(* What the program knows of a batch, from memory or from the disk, is a    *)
(* well-formed record.                                                      *)
LEMMA KnownType == ASSUME TypeOK, NEW b \in Batches
                   PROVE  Known(b) \in BatchRecs
<1>1. Absent \in BatchRecs
  BY RecordTypes
<1>2. registry[b] \in BatchRecs /\ batchFile[b] \in BatchRecs
      /\ chunkFile[b] \in ChunkMaps
  BY DEF TypeOK
<1>3. Load(b) \in BatchRecs
  BY <1>1, <1>2 DEF Load, Rec, BatchRecs, ChunkMaps, Contents
<1> QED
  BY <1>2, <1>3 DEF Known

LEMMA IdleTypes ==
  /\ IdleThread \in [pc : ThreadSteps, batch : Batches, chunks : ChunkMaps]
  /\ IdleHandler \in [pc : HandlerSteps, req : Requests, code : Codes]
<1>1. (CHOOSE b \in Batches : TRUE) \in Batches
  BY BatchesAssumption
<1> QED
  BY <1>1, RecordTypes
     DEF IdleThread, IdleHandler, AnyRequest, ThreadSteps, HandlerSteps, StoringSteps, Codes,
         Requests

LEMMA InitType == Init => TypeOK
BY IdleTypes, RecordTypes, MaxRowsAssumption
   DEF Init, TypeOK, IdleHandler, StoringSteps

(* The records that the actions build in passing.                           *)
LEMMA OpenType == ASSUME TypeOK, NEW b \in Batches, Open(b)
                  PROVE  batchFile' \in [Batches -> BatchRecs]
BY RecordTypes DEF TypeOK, Open

LEMMA WriteType == ASSUME TypeOK, NEW b \in Batches, NEW rec \in BatchRecs,
                          Write(b, rec)
                   PROVE  batchFile' \in [Batches -> BatchRecs]
BY OpenType DEF TypeOK, Write

LEMMA StartType == ASSUME TypeOK, NEW b \in Batches, NEW m \in ChunkMaps,
                          StartValidation(b, m)
                   PROVE  thread' \in [Threads -> [pc : ThreadSteps, batch : Batches,
                                                   chunks : ChunkMaps]]
BY DEF TypeOK, StartValidation, ThreadSteps

LEMMA RequestTypes ==
  \A r \in Requests :
    /\ r.batch \in Batches
    /\ r.kind = "chunk" => r.chunk \in Chunks /\ r.payload \in Payloads
BY DEF Requests

(* No step leaves the types: one case per action.                           *)
LEMMA TypeStep == TypeOK /\ [Next]_vars => TypeOK'
<1> SUFFICES ASSUME TypeOK, [Next]_vars PROVE TypeOK'
  OBVIOUS
<1> USE DEF memory, files, tables, Goto, Reply, Begin, HandlerSteps, StoringSteps, Codes
<1>0. \A b \in Batches : Known(b) \in BatchRecs
  BY KnownType
<1>1. ASSUME NEW r \in Requests, ReceiveManifest(r) PROVE TypeOK'
  BY <1>1, OpenType, RequestTypes, RecordTypes
     DEF ReceiveManifest, TypeOK, Statuses
<1>2. CASE SaveNewBatch
  BY <1>2, WriteType, RequestTypes, RecordTypes DEF SaveNewBatch, TypeOK, Statuses
<1>3. CASE SaveManifest
  BY <1>3, RequestTypes DEF SaveManifest, TypeOK
<1>4. ASSUME NEW r \in Requests, ReceiveDuplicate(r) PROVE TypeOK'
  <2>1. r.batch \in Batches /\ Known(r.batch) \in BatchRecs
    BY <1>0, RequestTypes
  <2>2. thread' \in [Threads -> [pc : ThreadSteps, batch : Batches,
                                chunks : ChunkMaps]]
    BY <1>4, <2>1, StartType, RecordTypes DEF ReceiveDuplicate, TypeOK
  <2> QED
    BY <1>4, <2>1, <2>2, RequestTypes DEF ReceiveDuplicate, TypeOK
<1>5. ASSUME NEW r \in Requests, RefuseUnknown(r) PROVE TypeOK'
  BY <1>5, RequestTypes DEF RefuseUnknown, TypeOK
<1>6. ASSUME NEW r \in Requests, RejectChecksum(r) PROVE TypeOK'
  BY <1>6, <1>0, RequestTypes DEF RejectChecksum, Reload, TypeOK
<1>7. ASSUME NEW r \in Requests, AcceptChunk(r) PROVE TypeOK'
  <2>1. r.batch \in Batches /\ r.kind = "chunk" /\ r.chunk \in Chunks
    BY <1>7, RequestTypes DEF AcceptChunk, ChunkArrives
  <2>2. chunkFile' \in [Batches -> ChunkMaps]
    BY <1>7, <2>1 DEF AcceptChunk, TypeOK, ChunkMaps, Contents
  <2> QED
    BY <1>7, <1>0, <2>1, <2>2, RequestTypes DEF AcceptChunk, Reload, TypeOK
<1>8. CASE StoreChunk
  <2>1. /\ handler.req.batch \in Batches
        /\ handler.req.chunk \in Chunks /\ handler.req.payload \in Payloads
    BY <1>8, RequestTypes DEF StoreChunk, TypeOK
  <2>2. chunkFile' \in [Batches -> ChunkMaps]
    BY <1>8, <2>1 DEF StoreChunk, TypeOK, ChunkMaps, Contents
  <2> QED
    BY <1>8, <2>2 DEF StoreChunk, TypeOK
<1>9. CASE ListChunk
  <2> DEFINE r == handler.req
             listed == [registry[r.batch].chunks EXCEPT ![r.chunk] = r.payload]
  <2>1. r.batch \in Batches /\ r.chunk \in Chunks /\ r.payload \in Payloads
    BY <1>9, RequestTypes DEF ListChunk, TypeOK
  <2>2. listed \in ChunkMaps
    BY <2>1, RecordTypes DEF TypeOK, ChunkMaps, Contents
  <2>3. registry' \in [Batches -> BatchRecs]
    BY <1>9, <2>1, <2>2, RecordTypes DEF ListChunk, TypeOK, Statuses
  <2> QED
    BY <1>9, <2>1, <2>3, OpenType DEF ListChunk, TypeOK
<1>10. CASE SavePending
  <2>1. handler.req.batch \in Batches
    BY RequestTypes DEF TypeOK
  <2>2. Rec("pending", registry[handler.req.batch].chunks) \in BatchRecs
    BY <2>1, RecordTypes DEF TypeOK, Statuses
  <2> QED
    BY <1>10, <2>1, <2>2, WriteType DEF SavePending, TypeOK
<1>11. CASE CheckComplete
  <2>1. handler.req.batch \in Batches
    BY RequestTypes DEF TypeOK
  <2>2. registry[handler.req.batch].chunks \in ChunkMaps
    BY <2>1, RecordTypes DEF TypeOK
  <2> QED
    BY <1>11, <2>1, <2>2, StartType DEF CheckComplete, TypeOK
<1>12. CASE MarkFailed
  <2>1. handler.req.batch \in Batches
    BY RequestTypes DEF TypeOK
  <2>2. registry' \in [Batches -> BatchRecs]
    BY <1>12, <2>1 DEF MarkFailed, TypeOK, BatchRecs, Statuses
  <2> QED
    BY <1>12, <2>1, <2>2, OpenType DEF MarkFailed, TypeOK
<1>13. CASE SaveFailed
  <2>1. handler.req.batch \in Batches
    BY RequestTypes DEF TypeOK
  <2>2. Rec("failed", registry[handler.req.batch].chunks) \in BatchRecs
    BY <2>1, RecordTypes DEF TypeOK, Statuses
  <2> QED
    BY <1>13, <2>1, <2>2, WriteType DEF SaveFailed, TypeOK
<1>14. CASE Respond
  BY <1>14, IdleTypes DEF Respond, TypeOK, IdleHandler
<1>15. ASSUME NEW t \in Threads, ThreadStep(t) PROVE TypeOK'
  <2> USE DEF At, Advance, Finish, ThreadSteps
  <2>0. thread[t].batch \in Batches /\ thread[t].chunks \in ChunkMaps
    BY DEF TypeOK
  <2>1. Rec("complete", thread[t].chunks) \in BatchRecs
    BY <2>0, RecordTypes DEF Statuses
  <2>2. CASE ValidateIntact(t)
    BY <2>2, <2>0, <2>1, OpenType DEF ValidateIntact, TypeOK
  <2>3. CASE ValidateMismatch(t)
    BY <2>3, IdleTypes DEF ValidateMismatch, TypeOK
  <2>4. CASE SaveComplete(t)
    BY <2>4, <2>0, <2>1, WriteType DEF SaveComplete, TypeOK
  <2>5. CASE LoadForProcessing(t)
    BY <2>5, IdleTypes DEF LoadForProcessing, TypeOK
  <2>6. CASE UpsertFunds(t)
    BY <2>6, <2>0 DEF UpsertFunds, TypeOK
  <2>7. CASE SaveMarketSnapshot(t)
    BY <2>7, <2>0, MaxRowsAssumption DEF SaveMarketSnapshot, TypeOK
  <2>8. CASE SaveHistory(t)
    BY <2>8, <2>0 DEF SaveHistory, TypeOK
  <2>9. CASE MarkProcessed(t)
    BY <2>9, <2>0, IdleTypes DEF MarkProcessed, TypeOK
  <2>10. CASE TransactionFails(t)
    BY <2>10, IdleTypes DEF TransactionFails, TypeOK
  <2> QED
    BY <1>15, <2>2, <2>3, <2>4, <2>5, <2>6, <2>7, <2>8, <2>9, <2>10
       DEF ThreadStep
<1>16. CASE Crash
  BY <1>16, IdleTypes, RecordTypes DEF Crash, TypeOK, IdleHandler
<1>17. CASE UNCHANGED vars
  BY <1>17 DEF TypeOK, vars
<1> QED
  BY <1>1, <1>2, <1>3, <1>4, <1>5, <1>6, <1>7, <1>8, <1>9, <1>10, <1>11,
     <1>12, <1>13, <1>14, <1>15, <1>16, <1>17
     DEF Next, Receive, HandlerStep

(* The receiver's state always has its type.                                *)
THEOREM TypeCorrect == Spec => []TypeOK
<1> QED
  BY InitType, TypeStep, PTL DEF Spec

-----------------------------------------------------------------------------
(* The safety invariants are inductive together, once two facts about the   *)
(* middle of a request or of a validation are added.                        *)

(* The chunk a handler is storing is torn on disk until it is written, and  *)
(* then has the payload that will be listed; its batch is not complete.     *)
ChunkInHand ==
  LET r == handler.req
  IN /\ handler.pc \in StoringSteps => registry[r.batch].status # "complete"
     /\ handler.pc = "chunk_file" => chunkFile[r.batch][r.chunk] = "torn"
     /\ handler.pc = "chunk_list" => chunkFile[r.batch][r.chunk] = r.payload

(* A thread that is past its validation has found its chunks intact.        *)
ValidatedIntact == \A t \in Threads :
                 Running(t) /\ ~At(t, "validate") => Intact(thread[t].chunks)

Safe == /\ ListedChunksStored
        /\ ThreadSeesDisk
        /\ HandlerOwnsBatch
        /\ CompleteIsIntact
        /\ ChunkInHand
        /\ ValidatedIntact

IInv == TypeOK /\ Safe

LEMMA InitSafe == Init => Safe
<1> SUFFICES ASSUME Init PROVE Safe
  OBVIOUS
<1>1. handler.pc = "idle" /\ \A t \in Threads : thread[t].pc = "idle"
  <2> DEFINE someBatch == CHOOSE b \in Batches : TRUE
  <2>1. IdleThread = [pc |-> "idle", batch |-> someBatch, chunks |-> NoChunks]
    BY DEF IdleThread
  <2> HIDE DEF someBatch
  <2> QED
    BY <2>1 DEF Init, IdleHandler
<1>2. HandlerOwnsBatch /\ ThreadSeesDisk /\ ChunkInHand /\ ValidatedIntact
  BY <1>1 DEF HandlerOwnsBatch, ThreadSeesDisk, ChunkInHand, ValidatedIntact,
              Running, At, StoringSteps
<1>3. ListedChunksStored /\ CompleteIsIntact
  BY DEF Init, ListedChunksStored, CompleteIsIntact, Stored, Absent, Rec,
         NoChunks
<1> QED
  BY <1>2, <1>3 DEF Safe

(* A batch that comes back from the disk lists nothing that is not stored,  *)
(* and is complete only if the chunk files are.                             *)
LEMMA KnownSafe ==
  ASSUME IInv, NEW b \in Batches
  PROVE  /\ Stored(b, Known(b).chunks)
         /\ Known(b).status = "complete" => Intact(chunkFile[b])
<1>1. Stored(b, registry[b].chunks) /\ Stored(b, batchFile[b].chunks)
  BY DEF IInv, Safe, ListedChunksStored
<1>2. \A r \in {registry[b], batchFile[b]} :
         r.status = "complete" => Intact(chunkFile[b])
  BY DEF IInv, Safe, CompleteIsIntact
<1>3. \A i \in Chunks : Load(b).chunks[i] \in {"none", batchFile[b].chunks[i]}
  BY <1>1 DEF Load, Stored, Absent, Rec, NoChunks, Payloads
<1>4. Load(b).status = "complete" => batchFile[b].status = "complete"
  BY DEF Load, Absent, Rec
<1> QED
  BY <1>1, <1>2, <1>3, <1>4 DEF Known, Stored

(* The complete list of a batch is what its chunk files hold.               *)
LEMMA CompleteListIsDisk ==
  ASSUME TypeOK, NEW b \in Batches, NEW m \in ChunkMaps,
         Stored(b, m), IsComplete(m)
  PROVE  m = chunkFile[b] /\ \A i \in Chunks : m[i] \in Payloads
<1>1. \A i \in Chunks : m[i] = chunkFile[b][i] /\ m[i] \in Payloads
  BY DEF Stored, IsComplete
<1>2. chunkFile[b] \in ChunkMaps
  BY DEF TypeOK
<1> QED
  BY <1>1, <1>2 DEF ChunkMaps

(* A step that neither stores nor lists a chunk, completes a batch or       *)
(* starts a thread keeps Safe if what it writes is harmless.                *)
Harmless(b, rec) == /\ Stored(b, rec.chunks)
                    /\ rec.status = "complete" => Intact(chunkFile[b])

LEMMA OpenHarmless == ASSUME IInv, NEW b \in Batches, Open(b)
                      PROVE  \A c \in Batches : Harmless(c, batchFile'[c])
<1>1. \A c \in Batches : Harmless(c, batchFile[c])
  BY DEF IInv, Safe, ListedChunksStored, CompleteIsIntact, Harmless
<1>2. Harmless(b, Torn)
  BY DEF Harmless, Stored, Torn, Rec, NoChunks
<1> QED
  BY <1>1, <1>2 DEF Open, IInv, TypeOK

LEMMA WriteHarmless ==
  ASSUME IInv, NEW b \in Batches, NEW rec \in BatchRecs, Harmless(b, rec),
         Write(b, rec)
  PROVE  \A c \in Batches : Harmless(c, batchFile'[c])
<1>1. \A c \in Batches : Harmless(c, batchFile[c])
  BY DEF IInv, Safe, ListedChunksStored, CompleteIsIntact, Harmless
<1> QED
  BY <1>1, OpenHarmless DEF Write, IInv, TypeOK

(* The part of Safe that is about memory and files follows when both sides  *)
(* are harmless and no chunk file changes.                                  *)
LEMMA HarmlessSafe ==
  ASSUME UNCHANGED chunkFile,
         \A c \in Batches : Harmless(c, registry'[c]),
         \A c \in Batches : Harmless(c, batchFile'[c])
  PROVE  ListedChunksStored' /\ CompleteIsIntact'
BY DEF Harmless, ListedChunksStored, CompleteIsIntact, Stored, Intact

(* No step leaves Safe: one case per action that writes what Safe is about. *)
LEMMA SafeStep == IInv /\ TypeOK' /\ [Next]_vars => Safe'
<1> SUFFICES ASSUME IInv, TypeOK', [Next]_vars PROVE Safe'
  OBVIOUS
<1> USE DEF memory, files, tables, Goto, Reply, Begin, StoringSteps
<1>a. TypeOK /\ Safe
  BY DEF IInv
<1>b. handler.req \in Requests /\ handler.req.batch \in Batches
  BY <1>a, RequestTypes DEF TypeOK
<1>c. \A c \in Batches : Harmless(c, registry[c]) /\ Harmless(c, batchFile[c])
  BY <1>a DEF Safe, ListedChunksStored, CompleteIsIntact, Harmless
<1>d. \A c \in Batches : Harmless(c, Known(c)) /\ Known(c) \in BatchRecs
  BY <1>a, KnownSafe, KnownType DEF Harmless
<1>e. \A c \in Batches, s \in Statuses :
         s # "complete" => Harmless(c, Rec(s, registry[c].chunks))
                           /\ Harmless(c, Rec(s, NoChunks))
  BY <1>c DEF Harmless, Rec, Stored, NoChunks
<1>1. ASSUME NEW r \in Requests, ReceiveManifest(r) PROVE Safe'
  <2>1. r.batch \in Batches
    BY RequestTypes
  <2>2. \A c \in Batches : Harmless(c, registry'[c])
    BY <1>1, <1>a, <1>c, <1>e, <2>1 DEF ReceiveManifest, TypeOK, Statuses
  <2>3. \A c \in Batches : Harmless(c, batchFile'[c])
    BY <1>1, <2>1, OpenHarmless DEF ReceiveManifest
  <2> QED
    BY <1>1, <1>a, <2>2, <2>3, HarmlessSafe
       DEF ReceiveManifest, Safe, ThreadSeesDisk, HandlerOwnsBatch,
           ChunkInHand, ValidatedIntact, Running, At
<1>2. CASE SaveNewBatch
  <2>1. Rec("pending", NoChunks) \in BatchRecs
    BY RecordTypes DEF Statuses
  <2>2. \A c \in Batches : Harmless(c, batchFile'[c])
    BY <1>2, <1>b, <1>e, <2>1, WriteHarmless DEF SaveNewBatch, Statuses
  <2> QED
    BY <1>2, <1>a, <1>c, <2>2, HarmlessSafe
       DEF SaveNewBatch, Safe, ThreadSeesDisk, HandlerOwnsBatch, ChunkInHand,
           ValidatedIntact, Running, At
<1>3. CASE SaveManifest
  BY <1>3, <1>a, <1>c, HarmlessSafe
     DEF SaveManifest, Safe, ThreadSeesDisk, HandlerOwnsBatch, ChunkInHand,
         ValidatedIntact, Running, At
<1>f. ASSUME NEW b \in Batches, NEW m \in ChunkMaps, Stored(b, m),
             IsComplete(m), StartValidation(b, m), UNCHANGED chunkFile
      PROVE  ThreadSeesDisk' /\ ValidatedIntact'
  <2>1. m = chunkFile[b] /\ \A i \in Chunks : m[i] \in Payloads
    BY <1>f, <1>a, CompleteListIsDisk
  <2> QED
    BY <1>f, <1>a, <2>1
       DEF StartValidation, Safe, ThreadSeesDisk, ValidatedIntact, Running, At,
           TypeOK
<1>4. ASSUME NEW r \in Requests, ReceiveDuplicate(r) PROVE Safe'
  <2>1. r.batch \in Batches
    BY RequestTypes
  <2>2. \A c \in Batches : Harmless(c, registry'[c])
    BY <1>4, <1>a, <1>c, <1>d, <2>1 DEF ReceiveDuplicate, TypeOK
  <2>3. /\ Known(r.batch).chunks \in ChunkMaps
        /\ Stored(r.batch, Known(r.batch).chunks)
    BY <1>d, <2>1, RecordTypes DEF Harmless
  <2>4. ThreadSeesDisk' /\ ValidatedIntact'
    <3>1. CASE UNCHANGED thread
      BY <3>1, <1>4, <1>a
         DEF ReceiveDuplicate, Safe, ThreadSeesDisk, ValidatedIntact, Running, At
    <3>2. CASE ~UNCHANGED thread
      BY <3>2, <1>4, <1>f, <2>1, <2>3 DEF ReceiveDuplicate
    <3> QED
      BY <3>1, <3>2
  <2> QED
    BY <1>4, <1>c, <2>2, <2>4, HarmlessSafe
       DEF ReceiveDuplicate, Safe, HandlerOwnsBatch, ChunkInHand
<1>5. ASSUME NEW r \in Requests, RefuseUnknown(r) PROVE Safe'
  BY <1>5, <1>a, <1>c, HarmlessSafe
     DEF RefuseUnknown, Safe, ThreadSeesDisk, HandlerOwnsBatch, ChunkInHand,
         ValidatedIntact, Running, At
<1>6. ASSUME NEW r \in Requests, RejectChecksum(r) PROVE Safe'
  <2>1. \A c \in Batches : Harmless(c, registry'[c])
    BY <1>6, <1>a, <1>c, <1>d, RequestTypes DEF RejectChecksum, Reload, TypeOK
  <2> QED
    BY <1>6, <1>a, <1>c, <2>1, HarmlessSafe
       DEF RejectChecksum, Safe, ThreadSeesDisk, HandlerOwnsBatch,
           ChunkInHand, ValidatedIntact, Running, At
<1>7. ASSUME NEW r \in Requests, AcceptChunk(r) PROVE Safe'
  <2> DEFINE b == r.batch
             i == r.chunk
  <2>1. b \in Batches /\ i \in Chunks
    BY <1>7, RequestTypes DEF AcceptChunk, ChunkArrives
  <2>2. /\ chunkFile[b][i] = "none"
        /\ chunkFile' = [chunkFile EXCEPT ![b][i] = "torn"]
        /\ UNCHANGED <<thread, batchFile>>
        /\ handler' = [pc |-> "chunk_file", req |-> r, code |-> "none"]
    BY <1>7 DEF AcceptChunk
  <2>3. \A c \in Batches, j \in Chunks :
           chunkFile'[c][j] = IF c = b /\ j = i THEN "torn" ELSE chunkFile[c][j]
    BY <2>1, <2>2, <1>a DEF TypeOK, ChunkMaps
  <2>4. \A c \in Batches : Harmless(c, registry'[c])
    BY <1>7, <1>a, <1>c, <1>d, <2>1 DEF AcceptChunk, Reload, TypeOK
  <2>5. \A c \in Batches : /\ Harmless(c, registry[c])'
                           /\ Harmless(c, batchFile[c])'
    BY <1>c, <2>2, <2>3, <2>4 DEF Harmless, Stored, Intact, Payloads
  <2>6. \A t \in Threads : Running(t) => thread[t].batch # b
    BY <1>a, <2>1, <2>2 DEF Safe, ThreadSeesDisk, Payloads
  <2>7. ThreadSeesDisk'
    BY <1>a, <2>1, <2>2, <2>6 DEF Safe, ThreadSeesDisk, Running, At, TypeOK
  <2>8. chunkFile'[b][i] = "torn"
    BY <2>1, <2>3
  <2>9. registry'[b].status # "complete"
    BY <2>1, <2>5, <2>8 DEF Harmless, Intact
  <2> QED
    BY <1>a, <2>2, <2>5, <2>6, <2>7, <2>8, <2>9
       DEF Safe, Harmless, ListedChunksStored, CompleteIsIntact,
           HandlerOwnsBatch, ChunkInHand, ValidatedIntact, Running, At
<1>8. CASE StoreChunk
  <2> DEFINE b == handler.req.batch
             i == handler.req.chunk
             p == handler.req.payload
  <2>1. b \in Batches /\ i \in Chunks /\ p \in Payloads
    BY <1>8, <1>a, RequestTypes DEF StoreChunk, TypeOK
  <2>2. /\ chunkFile[b][i] = "torn"
        /\ chunkFile' = [chunkFile EXCEPT ![b][i] = p]
        /\ UNCHANGED <<registry, thread, batchFile>>
        /\ handler' = [handler EXCEPT !.pc = "chunk_list"]
    BY <1>8, <1>a DEF StoreChunk, Safe, ChunkInHand
  <2>3. \A c \in Batches, j \in Chunks :
           chunkFile'[c][j] = IF c = b /\ j = i THEN p ELSE chunkFile[c][j]
    BY <2>1, <2>2, <1>a DEF TypeOK, ChunkMaps
  <2>4. \A c \in Batches : /\ Harmless(c, registry[c])'
                           /\ Harmless(c, batchFile[c])'
    BY <1>c, <2>1, <2>2, <2>3 DEF Harmless, Stored, Intact, Payloads
  <2>5. \A t \in Threads : Running(t) => thread[t].batch # b
    BY <1>8, <1>a DEF Safe, HandlerOwnsBatch, StoreChunk
  <2>6. ThreadSeesDisk'
    BY <1>a, <2>1, <2>2, <2>5 DEF Safe, ThreadSeesDisk, Running, At, TypeOK
  <2>7. handler'.req = handler.req /\ handler'.pc = "chunk_list"
    BY <2>2, <1>a DEF TypeOK
  <2>8. registry'[b].status # "complete"
    BY <1>8, <1>a, <2>2 DEF StoreChunk, Safe, ChunkInHand
  <2>9. ChunkInHand'
    BY <2>1, <2>3, <2>7, <2>8 DEF ChunkInHand
  <2> QED
    BY <1>a, <2>2, <2>4, <2>5, <2>6, <2>7, <2>9
       DEF Safe, Harmless, ListedChunksStored, CompleteIsIntact,
           HandlerOwnsBatch, ChunkInHand, ValidatedIntact, Running, At
<1>9. CASE ListChunk
  <2> DEFINE r == handler.req
             listed == [registry[r.batch].chunks EXCEPT ![r.chunk] = r.payload]
  <2>1. r.batch \in Batches /\ r.chunk \in Chunks /\ r.payload \in Payloads
    BY <1>9, <1>a, RequestTypes DEF ListChunk, TypeOK
  <2>2. chunkFile[r.batch][r.chunk] = r.payload
    BY <1>9, <1>a DEF ListChunk, Safe, ChunkInHand
  <2>3. registry[r.batch].chunks \in ChunkMaps
    BY <1>a, <2>1, RecordTypes DEF TypeOK
  <2>4. Harmless(r.batch, Rec("pending", listed))
    BY <1>c, <2>1, <2>2, <2>3 DEF Harmless, Stored, Rec, ChunkMaps
  <2>5. \A c \in Batches : Harmless(c, registry'[c])
    BY <1>9, <1>a, <1>c, <2>1, <2>4 DEF ListChunk, TypeOK
  <2>6. \A c \in Batches : Harmless(c, batchFile'[c])
    BY <1>9, <2>1, OpenHarmless DEF ListChunk
  <2>7. registry'[r.batch].status = "pending"
    BY <1>9, <1>a, <2>1 DEF ListChunk, TypeOK, Rec
  <2> QED
    BY <1>9, <1>a, <2>5, <2>6, <2>7, HarmlessSafe
       DEF ListChunk, Safe, ThreadSeesDisk, HandlerOwnsBatch, ChunkInHand,
           ValidatedIntact, Running, At, TypeOK
<1>10. CASE SavePending
  <2>1. Rec("pending", registry[handler.req.batch].chunks) \in BatchRecs
    BY <1>a, <1>b, RecordTypes DEF TypeOK, Statuses
  <2>2. \A c \in Batches : Harmless(c, batchFile'[c])
    BY <1>10, <1>b, <1>e, <2>1, WriteHarmless DEF SavePending, Statuses
  <2> QED
    BY <1>10, <1>a, <1>c, <2>2, HarmlessSafe
       DEF SavePending, Safe, ThreadSeesDisk, HandlerOwnsBatch, ChunkInHand,
           ValidatedIntact, Running, At, TypeOK
<1>11. CASE CheckComplete
  <2> DEFINE b == handler.req.batch
  <2>1. registry[b].chunks \in ChunkMaps /\ Stored(b, registry[b].chunks)
    BY <1>a, <1>b, <1>c, RecordTypes DEF TypeOK, Harmless
  <2>2. ThreadSeesDisk' /\ ValidatedIntact'
    <3>1. CASE UNCHANGED thread
      BY <3>1, <1>11, <1>a
         DEF CheckComplete, Safe, ThreadSeesDisk, ValidatedIntact, Running, At
    <3>2. CASE ~UNCHANGED thread
      BY <3>2, <1>11, <1>b, <1>f, <2>1 DEF CheckComplete
    <3> QED
      BY <3>1, <3>2
  <2> QED
    BY <1>11, <1>c, <2>2, HarmlessSafe
       DEF CheckComplete, Safe, HandlerOwnsBatch, ChunkInHand
<1>12. CASE MarkFailed
  <2> DEFINE b == handler.req.batch
  <2>1. registry' = [registry EXCEPT ![b] = Rec("failed", registry[b].chunks)]
    <3>1. registry[b] = Rec(registry[b].status, registry[b].chunks)
      BY <1>a, <1>b DEF TypeOK, BatchRecs, Rec
    <3>2. [registry[b] EXCEPT !.status = "failed"]
            = Rec("failed", registry[b].chunks)
      BY <3>1 DEF Rec
    <3> QED
      BY <1>12, <3>2 DEF MarkFailed
  <2>2. \A c \in Batches : Harmless(c, registry'[c])
    BY <1>a, <1>b, <1>c, <1>e, <2>1 DEF TypeOK, Statuses
  <2>3. \A c \in Batches : Harmless(c, batchFile'[c])
    BY <1>12, <1>b, OpenHarmless DEF MarkFailed
  <2>4. registry'[b].status = "failed"
    BY <1>a, <1>b, <2>1 DEF TypeOK, Rec
  <2> QED
    BY <1>12, <1>a, <2>2, <2>3, <2>4, HarmlessSafe
       DEF MarkFailed, Safe, ThreadSeesDisk, HandlerOwnsBatch, ChunkInHand,
           ValidatedIntact, Running, At, TypeOK
<1>13. CASE SaveFailed
  <2>1. Rec("failed", registry[handler.req.batch].chunks) \in BatchRecs
    BY <1>a, <1>b, RecordTypes DEF TypeOK, Statuses
  <2>2. \A c \in Batches : Harmless(c, batchFile'[c])
    BY <1>13, <1>b, <1>e, <2>1, WriteHarmless DEF SaveFailed, Statuses
  <2> QED
    BY <1>13, <1>a, <1>c, <2>2, HarmlessSafe
       DEF SaveFailed, Safe, ThreadSeesDisk, HandlerOwnsBatch, ChunkInHand,
           ValidatedIntact, Running, At
<1>14. CASE Respond
  BY <1>14, <1>a, <1>c, HarmlessSafe
     DEF Respond, IdleHandler, Safe, ThreadSeesDisk, HandlerOwnsBatch,
         ChunkInHand, ValidatedIntact, Running, At
<1>15. ASSUME NEW t \in Threads, ThreadStep(t) PROVE Safe'
  <2> DEFINE b == thread[t].batch
  <2>0. b \in Batches /\ thread[t].chunks \in ChunkMaps
    BY <1>a DEF TypeOK
  <2>1. Running(t) /\ UNCHANGED <<chunkFile, handler>>
    BY <1>15
       DEF ThreadStep, ValidateIntact, ValidateMismatch, SaveComplete,
           LoadForProcessing, UpsertFunds, SaveMarketSnapshot, SaveHistory,
           MarkProcessed, TransactionFails, Running, At
  <2>2. \A i \in Chunks : thread[t].chunks = chunkFile[b]
                          /\ thread[t].chunks[i] \in Payloads
    BY <1>a, <2>1 DEF Safe, ThreadSeesDisk
  <2>3. ThreadSeesDisk' /\ HandlerOwnsBatch'
    <3>1. /\ \A u \in Threads : u # t => thread'[u] = thread[u]
          /\ \/ thread'[t] = IdleThread
             \/ thread'[t].batch = b /\ thread'[t].chunks = thread[t].chunks
      BY <1>15, <1>a
         DEF ThreadStep, ValidateIntact, ValidateMismatch, SaveComplete,
             LoadForProcessing, UpsertFunds, SaveMarketSnapshot, SaveHistory,
             MarkProcessed, TransactionFails, Advance, Finish, TypeOK
    <3> QED
      BY <1>a, <2>1, <3>1
         DEF Safe, ThreadSeesDisk, HandlerOwnsBatch, Running, At, IdleThread
  <2>4. ChunkInHand'
    <3>1. handler.pc \in StoringSteps =>
             registry'[handler.req.batch] = registry[handler.req.batch]
      BY <1>15, <1>a, <1>b, <2>0, <2>1
         DEF ThreadStep, ValidateIntact, ValidateMismatch, SaveComplete,
             LoadForProcessing, UpsertFunds, SaveMarketSnapshot, SaveHistory,
             MarkProcessed, TransactionFails, Safe, HandlerOwnsBatch, TypeOK
    <3> QED
      BY <1>a, <2>1, <3>1 DEF Safe, ChunkInHand
  <2>5. CASE ValidateIntact(t)
    <3>1. Harmless(b, Rec("complete", thread[t].chunks))
      BY <2>2, <2>5 DEF Harmless, Rec, Stored, Intact, ValidateIntact
    <3>2. \A c \in Batches : Harmless(c, registry'[c])
      BY <1>a, <1>c, <2>0, <2>5, <3>1 DEF ValidateIntact, TypeOK
    <3>3. \A c \in Batches : Harmless(c, batchFile'[c])
      BY <2>0, <2>5, OpenHarmless DEF ValidateIntact
    <3>4. ValidatedIntact'
      BY <1>a, <2>5
         DEF ValidateIntact, Safe, ValidatedIntact, Running, At, Advance, TypeOK
    <3> QED
      BY <2>1, <2>3, <2>4, <3>2, <3>3, <3>4, HarmlessSafe DEF Safe
  <2>6. CASE SaveComplete(t)
    <3>1. Intact(thread[t].chunks)
      BY <1>a, <2>6 DEF Safe, ValidatedIntact, SaveComplete, Running, At
    <3>2. Harmless(b, Rec("complete", thread[t].chunks))
      BY <2>2, <3>1 DEF Harmless, Rec, Stored, Intact
    <3>3. Rec("complete", thread[t].chunks) \in BatchRecs
      BY <2>0, RecordTypes DEF Statuses
    <3>4. \A c \in Batches : Harmless(c, batchFile'[c])
      BY <2>0, <2>6, <3>2, <3>3, WriteHarmless DEF SaveComplete
    <3>5. ValidatedIntact'
      BY <1>a, <2>6
         DEF SaveComplete, Safe, ValidatedIntact, Running, At, Advance, TypeOK
    <3> QED
      BY <1>c, <2>1, <2>3, <2>4, <2>6, <3>4, <3>5, HarmlessSafe
         DEF Safe, SaveComplete
  <2>7. CASE ~ValidateIntact(t) /\ ~SaveComplete(t)
    <3>1. UNCHANGED <<registry, batchFile>> /\ ValidatedIntact'
      BY <1>15, <1>a, <2>7
         DEF ThreadStep, ValidateMismatch, LoadForProcessing, UpsertFunds,
             SaveMarketSnapshot, SaveHistory, MarkProcessed,
             TransactionFails, Advance, Finish, IdleThread, Safe,
             ValidatedIntact, Running, At, TypeOK
    <3> QED
      BY <1>c, <2>1, <2>3, <2>4, <3>1, HarmlessSafe DEF Safe
  <2> QED
    BY <2>5, <2>6, <2>7
<1>16. CASE Crash
  <2>1. \A c \in Batches : Harmless(c, registry'[c])
    BY <1>16 DEF Crash, Absent, Rec, NoChunks, Harmless, Stored
  <2> QED
    BY <1>16, <1>c, <2>1, HarmlessSafe
       DEF Crash, IdleHandler, IdleThread, Safe, ThreadSeesDisk,
           HandlerOwnsBatch, ChunkInHand, ValidatedIntact, Running, At
<1>17. CASE UNCHANGED vars
  BY <1>17, <1>a
     DEF vars, Safe, ListedChunksStored, ThreadSeesDisk, HandlerOwnsBatch,
         CompleteIsIntact, ChunkInHand, ValidatedIntact, Stored, Running, At,
         Intact
<1> QED
  BY <1>1, <1>2, <1>3, <1>4, <1>5, <1>6, <1>7, <1>8, <1>9, <1>10, <1>11,
     <1>12, <1>13, <1>14, <1>15, <1>16, <1>17
     DEF Next, Receive, HandlerStep

(* IInv is an inductive invariant of the receiver.                          *)
THEOREM Invariance == Spec => []IInv
<1>1. Init => IInv
  BY InitType, InitSafe DEF IInv
<1>2. IInv /\ [Next]_vars => IInv'
  BY TypeStep, SafeStep DEF IInv
<1> QED
  BY <1>1, <1>2, PTL DEF Spec

(* Metadata never runs ahead of the chunk files.                            *)
THEOREM ListedChunksAreStored == Spec => []ListedChunksStored
<1>1. IInv => ListedChunksStored
  BY DEF IInv, Safe
<1> QED
  BY <1>1, Invariance, PTL

(* A validation thread works on exactly what is on disk.                    *)
THEOREM ThreadsSeeDisk == Spec => []ThreadSeesDisk
<1>1. IInv => ThreadSeesDisk
  BY DEF IInv, Safe
<1> QED
  BY <1>1, Invariance, PTL

(* A handler that stores a chunk has the batch to itself.                   *)
THEOREM HandlersOwnBatches == Spec => []HandlerOwnsBatch
<1>1. IInv => HandlerOwnsBatch
  BY DEF IInv, Safe
<1> QED
  BY <1>1, Invariance, PTL

(* Complete means that every chunk file is the genuine slice.               *)
THEOREM CompleteMeansIntact == Spec => []CompleteIsIntact
<1>1. IInv => CompleteIsIntact
  BY DEF IInv, Safe
<1> QED
  BY <1>1, Invariance, PTL

-----------------------------------------------------------------------------
(* What a step may never do *)

(* Only storing a chunk writes a chunk file, and only one that was missing  *)
(* or torn.                                                                 *)
LEMMA ChunkWriters ==
  [Next]_vars => \/ UNCHANGED chunkFile
                 \/ StoreChunk
                 \/ \E r \in Requests : AcceptChunk(r)
BY DEF Next, Receive, HandlerStep, ThreadStep, vars, memory, files, tables,
       ReceiveManifest, SaveNewBatch, SaveManifest, ReceiveDuplicate,
       RefuseUnknown, RejectChecksum, ListChunk, SavePending, CheckComplete,
       MarkFailed, SaveFailed, Respond, ValidateIntact, ValidateMismatch,
       SaveComplete, LoadForProcessing, UpsertFunds, SaveMarketSnapshot,
       SaveHistory, MarkProcessed, TransactionFails, Crash

LEMMA OneChunkWritten ==
  ASSUME IInv, [Next]_vars, ~UNCHANGED chunkFile
  PROVE  \E b \in Batches, i \in Chunks, p \in Contents :
           /\ chunkFile[b][i] \in {"none", "torn"}
           /\ chunkFile' = [chunkFile EXCEPT ![b][i] = p]
           /\ UNCHANGED <<tables>>
<1>1. \/ StoreChunk
      \/ \E r \in Requests : AcceptChunk(r)
  BY ChunkWriters
<1>2. CASE StoreChunk
  BY <1>2, RequestTypes
     DEF StoreChunk, IInv, TypeOK, Safe, ChunkInHand, StoringSteps, Contents
<1>3. ASSUME NEW r \in Requests, AcceptChunk(r)
      PROVE  \E b \in Batches, i \in Chunks, p \in Contents :
               /\ chunkFile[b][i] \in {"none", "torn"}
               /\ chunkFile' = [chunkFile EXCEPT ![b][i] = p]
               /\ UNCHANGED <<tables>>
  BY <1>3, RequestTypes DEF AcceptChunk, ChunkArrives, Contents
<1> QED
  BY <1>1, <1>2, <1>3

(* The chunk store is write-once.                                           *)
THEOREM WriteOnce == Spec => ChunksWrittenOnce
<1> DEFINE Once == \A b \in Batches, i \in Chunks :
                     chunkFile[b][i] \in Payloads => chunkFile'[b][i] = chunkFile[b][i]
<1>1. IInv /\ [Next]_vars => [Once]_vars
  <2> SUFFICES ASSUME IInv, [Next]_vars PROVE Once
    OBVIOUS
  <2>1. CASE UNCHANGED chunkFile
    BY <2>1
  <2>2. CASE ~UNCHANGED chunkFile
    BY <2>2, OneChunkWritten DEF IInv, TypeOK, ChunkMaps, Payloads
  <2> QED
    BY <2>1, <2>2
<1> QED
  BY <1>1, Invariance, PTL DEF Spec, ChunksWrittenOnce

(* No chunk request takes a batch out of "complete".                        *)
THEOREM CompleteIsStable == Spec => CompleteStays
<1> DEFINE Stays == \A b \in Batches :
                      registry[b].status = "complete" =>
                        \/ registry'[b].status = "complete"
                        \/ registry'[b] \in {Absent, Rec("pending", NoChunks)}
<1>1. IInv /\ [Next]_vars => [Stays]_vars
  <2> SUFFICES ASSUME IInv, [Next]_vars PROVE Stays
    OBVIOUS
  <2> USE DEF memory
  <2>1. \A b \in Batches : registry[b].status = "complete" => Known(b) = registry[b]
    BY DEF Known, Absent, Rec
  <2>2. CASE UNCHANGED registry
    BY <2>2
  <2>3. ASSUME NEW r \in Requests, Receive(r) PROVE Stays
    BY <2>1, <2>3, RequestTypes
       DEF Receive, ReceiveManifest, ReceiveDuplicate, RefuseUnknown,
           RejectChecksum, AcceptChunk, Reload, IInv, TypeOK
  <2>4. CASE ListChunk \/ MarkFailed
    BY <2>4 DEF ListChunk, MarkFailed, IInv, TypeOK, Safe, ChunkInHand,
                StoringSteps
  <2>5. ASSUME NEW t \in Threads, ValidateIntact(t) PROVE Stays
    BY <2>5 DEF ValidateIntact, IInv, TypeOK, Rec
  <2>6. CASE Crash
    BY <2>6 DEF Crash
  <2> QED
    BY <2>2, <2>3, <2>4, <2>5, <2>6
       DEF Next, HandlerStep, ThreadStep, vars, files, tables, SaveNewBatch,
           SaveManifest, StoreChunk, SavePending, CheckComplete, SaveFailed,
           Respond, ValidateMismatch, SaveComplete, LoadForProcessing,
           UpsertFunds, SaveMarketSnapshot, SaveHistory, MarkProcessed,
           TransactionFails
<1> QED
  BY <1>1, Invariance, PTL DEF Spec, CompleteStays

-----------------------------------------------------------------------------
(* The receiver implements BatchIntake.                                     *)

(* The tables are written in the order of process_batch.                    *)
InOrder ==
  /\ \A t \in Threads :
       LET b == thread[t].batch
       IN /\ thread[t].pc \in {"snapshot", "history", "mark"} => b \in funds
          /\ thread[t].pc \in {"history", "mark"} => rows[b] > 0
          /\ thread[t].pc = "mark" => b \in history
  /\ \A b \in Batches : /\ b \in processed => b \in history
                        /\ b \in history => rows[b] > 0
                        /\ rows[b] > 0 => b \in funds

(* A step of a validation thread persists the next stage of its batch, or   *)
(* no stage at all.                                                         *)
LEMMA ThreadPersists ==
  ASSUME IInv, InOrder, NEW t \in Threads, ThreadStep(t)
  PROVE  /\ InOrder'
         /\ UNCHANGED chunkFile
         /\ \/ \A b \in Batches : Stage(b)' = Stage(b)
            \/ /\ Intact(chunkFile[thread[t].batch])
               /\ \A b \in Batches :
                    Stage(b)' = IF b = thread[t].batch THEN Stage(b) + 1 ELSE Stage(b)
               /\ Stage(thread[t].batch) < 4
<1> DEFINE b == thread[t].batch
           Pass == \A c \in Batches :
                     Stage(c)' = IF c = b THEN Stage(c) + 1 ELSE Stage(c)
<1> USE DEF files, tables, memory, At, Advance, Finish
<1>1. /\ b \in Batches /\ rows \in [Batches -> 0 .. MaxRows]
      /\ thread \in [Threads -> [pc : ThreadSteps, batch : Batches,
                                 chunks : ChunkMaps]]
  BY DEF IInv, TypeOK
<1>2. Running(t) /\ ~At(t, "validate") => Intact(chunkFile[b])
  BY DEF IInv, Safe, ValidatedIntact, ThreadSeesDisk
<1>3. CASE UNCHANGED tables /\ (Advance(t, "save") \/ Finish(t))
  BY <1>1, <1>3
     DEF InOrder, Stage, IdleThread, ThreadStep, ValidateIntact,
         ValidateMismatch, SaveComplete, LoadForProcessing, UpsertFunds,
         SaveMarketSnapshot, SaveHistory, MarkProcessed, TransactionFails
<1>4. CASE SaveComplete(t) \/ LoadForProcessing(t)
  BY <1>1, <1>4
     DEF InOrder, Stage, IdleThread, SaveComplete, LoadForProcessing
<1>5. CASE UpsertFunds(t)
  <2>1. InOrder' /\ UNCHANGED chunkFile
    BY <1>1, <1>5 DEF UpsertFunds, InOrder
  <2>2. \A c \in Batches : Stage(c)' = IF c = b /\ b \notin funds
                                       THEN Stage(c) + 1 ELSE Stage(c)
    BY <1>1, <1>5 DEF UpsertFunds, InOrder, Stage
  <2>3. b \notin funds => Stage(b) = 0
    BY <1>1 DEF InOrder, Stage
  <2> QED
    BY <1>1, <1>2, <1>5, <2>1, <2>2, <2>3 DEF UpsertFunds, Running
<1>6. CASE SaveMarketSnapshot(t)
  <2>0. b \in funds
    BY <1>6 DEF SaveMarketSnapshot, InOrder
  <2>1. rows'[b] > 0 /\ \A c \in Batches : c # b => rows'[c] = rows[c]
    BY <1>1, <1>6, MaxRowsAssumption DEF SaveMarketSnapshot
  <2>2. InOrder' /\ UNCHANGED chunkFile
    BY <1>1, <1>6, <2>0, <2>1 DEF SaveMarketSnapshot, InOrder
  <2>3. \A c \in Batches : Stage(c)' = IF c = b /\ ~(rows[b] > 0)
                                       THEN Stage(c) + 1 ELSE Stage(c)
    BY <1>1, <1>6, <2>0, <2>1 DEF SaveMarketSnapshot, InOrder, Stage
  <2>4. ~(rows[b] > 0) => Stage(b) = 1
    BY <1>1, <2>0 DEF InOrder, Stage
  <2> QED
    BY <1>1, <1>2, <1>6, <2>2, <2>3, <2>4 DEF SaveMarketSnapshot, Running
<1>7. CASE SaveHistory(t)
  <2>0. b \in funds /\ rows[b] > 0
    BY <1>7 DEF SaveHistory, InOrder
  <2>1. InOrder' /\ UNCHANGED chunkFile
    BY <1>1, <1>7, <2>0 DEF SaveHistory, InOrder
  <2>2. \A c \in Batches : Stage(c)' = IF c = b /\ b \notin history
                                       THEN Stage(c) + 1 ELSE Stage(c)
    BY <1>1, <1>7, <2>0 DEF SaveHistory, InOrder, Stage
  <2>3. b \notin history => Stage(b) = 2
    BY <1>1, <2>0 DEF InOrder, Stage
  <2> QED
    BY <1>1, <1>2, <1>7, <2>1, <2>2, <2>3 DEF SaveHistory, Running
<1>8. CASE MarkProcessed(t)
  <2>0. b \in funds /\ rows[b] > 0 /\ b \in history
    BY <1>8 DEF MarkProcessed, InOrder
  <2>1. InOrder' /\ UNCHANGED chunkFile
    BY <1>1, <1>8, <2>0 DEF MarkProcessed, InOrder, IdleThread
  <2>2. \/ \A c \in Batches : Stage(c)' = Stage(c)
        \/ b \notin processed /\ Pass
    BY <1>1, <1>8, <2>0 DEF MarkProcessed, InOrder, Stage
  <2>3. b \notin processed => Stage(b) = 3
    BY <1>1, <2>0 DEF InOrder, Stage
  <2> QED
    BY <1>1, <1>2, <1>8, <2>1, <2>2, <2>3 DEF MarkProcessed, Running
<1>9. CASE ValidateIntact(t) \/ ValidateMismatch(t) \/ TransactionFails(t)
  BY <1>3, <1>9 DEF ValidateIntact, ValidateMismatch, TransactionFails
<1> QED
  BY <1>4, <1>5, <1>6, <1>7, <1>8, <1>9 DEF ThreadStep

(* Every other step leaves the tables alone and takes no thread past its    *)
(* validation.                                                              *)
LEMMA OthersPersistNothing ==
  ASSUME InOrder, [Next]_vars, ~\E t \in Threads : ThreadStep(t)
  PROVE  InOrder' /\ UNCHANGED tables
<1>1. /\ UNCHANGED tables
      /\ \A t \in Threads : thread'[t] = thread[t] \/ thread'[t].pc \in {"idle", "validate"}
  <2> USE DEF files, memory
  <2>1. ASSUME NEW b, NEW m, StartValidation(b, m)
        PROVE  \A t \in Threads : thread'[t] = thread[t] \/ thread'[t].pc \in {"idle", "validate"}
    BY <2>1 DEF StartValidation
  <2>2. ASSUME NEW r \in Requests, Receive(r)
        PROVE  /\ UNCHANGED tables
               /\ UNCHANGED thread \/ \E b, m : StartValidation(b, m)
    BY <2>2 DEF Receive, ReceiveManifest, ReceiveDuplicate, RefuseUnknown,
                RejectChecksum, AcceptChunk
  <2>3. CASE HandlerStep \/ Respond
    <3>1. UNCHANGED tables /\ (UNCHANGED thread \/ \E b, m : StartValidation(b, m))
      BY <2>3 DEF HandlerStep, SaveNewBatch, SaveManifest, StoreChunk,
                  ListChunk, SavePending, CheckComplete, MarkFailed,
                  SaveFailed, Respond
    <3> QED
      BY <2>1, <3>1
  <2>4. CASE Crash
    BY <2>4 DEF Crash, IdleThread
  <2>5. CASE UNCHANGED vars
    BY <2>5 DEF vars, tables
  <2> QED
    BY <2>1, <2>2, <2>3, <2>4, <2>5 DEF Next
<1> QED
  BY <1>1 DEF InOrder, tables

LEMMA InitInOrder == Init => InOrder
<1> SUFFICES ASSUME Init PROVE InOrder
  OBVIOUS
<1> DEFINE someBatch == CHOOSE b \in Batches : TRUE
<1>1. IdleThread = [pc |-> "idle", batch |-> someBatch, chunks |-> NoChunks]
  BY DEF IdleThread
<1> HIDE DEF someBatch
<1>2. \A t \in Threads : thread[t].pc = "idle"
  BY <1>1 DEF Init
<1> QED
  BY <1>2 DEF Init, InOrder

(* A step that writes no table writes at most one chunk file, which is      *)
(* BatchIntake's Store if the chunk is genuine.                             *)
LEMMA StoreOrStutter ==
  ASSUME IInv, [Next]_vars, UNCHANGED tables
  PROVE  [Intake!Next]_(Intake!vars)
<1> DEFINE Got(b) == {i \in Chunks : chunkFile[b][i] = "good"}
           got == [b \in Batches |-> Got(b)]
<1>1. UNCHANGED [b \in Batches |-> Stage(b)]
  BY DEF Stage, tables
<1>2. CASE UNCHANGED chunkFile
  BY <1>1, <1>2 DEF Intake!vars
<1>3. CASE ~UNCHANGED chunkFile
  <2>1. PICK b \in Batches, i \in Chunks, p \in Contents :
           /\ chunkFile[b][i] \in {"none", "torn"}
           /\ chunkFile' = [chunkFile EXCEPT ![b][i] = p]
    BY <1>3, OneChunkWritten
  <2>2. \A c \in Batches, j \in Chunks :
           chunkFile'[c][j] = IF c = b /\ j = i THEN p ELSE chunkFile[c][j]
    BY <2>1 DEF IInv, TypeOK, ChunkMaps
  <2>3. CASE p = "good"
    <3>1. i \notin Got(b)
      BY <2>1
    <3>2. \A c \in Batches : Got(c)' = IF c = b THEN Got(c) \cup {i} ELSE Got(c)
      BY <2>1, <2>2, <2>3
    <3>3. got' = [got EXCEPT ![b] = @ \cup {i}]
      BY <3>2
    <3>4. Intake!Store(b, i)
      BY <1>1, <3>1, <3>3 DEF Intake!Store
    <3> QED
      BY <3>4 DEF Intake!Next
  <2>4. CASE p # "good"
    <3>1. \A c \in Batches : Got(c)' = Got(c)
      BY <2>1, <2>2, <2>4
    <3>2. got' = got
      BY <3>1
    <3> QED
      BY <1>1, <3>2 DEF Intake!vars
  <2> QED
    BY <2>3, <2>4
<1> QED
  BY <1>2, <1>3

(* Every behaviour of the receiver is one of BatchIntake, seen through the  *)
(* genuine chunk files and the tables.                                      *)
THEOREM Implements == Spec => ImplementsIntake
<1>1. Init => Intake!Init
  BY DEF Init, Intake!Init, NoChunks, Stage
<1>2. IInv /\ InOrder /\ [Next]_vars => InOrder' /\ [Intake!Next]_(Intake!vars)
  <2> SUFFICES ASSUME IInv, InOrder, [Next]_vars
               PROVE  InOrder' /\ [Intake!Next]_(Intake!vars)
    OBVIOUS
  <2>1. CASE ~\E t \in Threads : ThreadStep(t)
    BY <2>1, OthersPersistNothing, StoreOrStutter
  <2>2. ASSUME NEW t \in Threads, ThreadStep(t)
        PROVE  InOrder' /\ [Intake!Next]_(Intake!vars)
    <3> DEFINE b == thread[t].batch
               got == [c \in Batches |-> {i \in Chunks : chunkFile[c][i] = "good"}]
               stage == [c \in Batches |-> Stage(c)]
    <3>1. b \in Batches
      BY DEF IInv, TypeOK
    <3>2. InOrder' /\ got' = got
      BY <2>2, ThreadPersists
    <3>3. CASE \A c \in Batches : Stage(c)' = Stage(c)
      BY <3>2, <3>3 DEF Intake!vars
    <3>4. CASE /\ Intact(chunkFile[b])
               /\ \A c \in Batches :
                    Stage(c)' = IF c = b THEN Stage(c) + 1 ELSE Stage(c)
               /\ Stage(b) < 4
      <4>1. got[b] = Chunks
        BY <3>1, <3>4 DEF Intact
      <4>2. stage' = [stage EXCEPT ![b] = @ + 1]
        BY <3>1, <3>4
      <4>3. stage[b] + 1 \in Intake!Stages
        BY <3>1, <3>4 DEF Intake!Stages, Stage
      <4>4. Intake!Persist(b)
        BY <3>2, <4>1, <4>2, <4>3 DEF Intake!Persist
      <4> QED
        BY <3>1, <3>2, <4>4 DEF Intake!Next
    <3> QED
      BY <2>2, <3>3, <3>4, ThreadPersists
  <2> QED
    BY <2>1, <2>2
<1> QED
  BY <1>1, <1>2, InitInOrder, Invariance, PTL
     DEF Spec, ImplementsIntake, Intake!Spec
=============================================================================
