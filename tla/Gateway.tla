------------------------------ MODULE Gateway ------------------------------
(***************************************************************************)
(* The gateway host before anything is sent: the worker's cycle up to the  *)
(* point where Sender takes over (collect the quotes, export them as one   *)
(* batch, cut it into chunks, put it on disk, note it as pending), and the *)
(* two live scripts, one that writes the market to latest.json and one     *)
(* that writes what changed since previous.json.  Each of the three is a   *)
(* process that may die between two file accesses.                         *)
(*                                                                         *)
(* Only the files of the newest batch are kept: every batch has an id of   *)
(* its own, and nothing reads or deletes the files of the earlier ones.    *)
(***************************************************************************)
EXTENDS Naturals, Sequences, FiniteSets, SequencesExt

CONSTANTS
  Universe,     \* the symbols of the active funds, sorted; one may be there twice
  Quotes,       \* what the provider may answer for a symbol
  Listable,     \* the symbols the exchange may list, for the live scripts
  Prices,       \* the entry of a symbol in the list of all symbols
  ChunkSize,    \* SYNC_CHUNK_SIZE, in units of a payload
  None,         \* no file, or nothing in it
  Torn          \* a file opened for writing and not yet written

Symbols == Range(Universe)

ASSUME GatewayAssumption ==
  /\ ChunkSize \in Nat \ {0}
  /\ Universe \in Seq(Symbols)
  /\ None # Torn

VARIABLES
  cycle,      \* the worker: its step, symbols to ask, snapshots, the batch
  disk,       \* BatchStorage and the state file, for the newest batch
  live,       \* latest.json, previous.json and latest_delta.json
  writer,     \* the script that writes latest.json: what it has collected
  differ,     \* the script that builds the delta: its step and its inputs
  refused,    \* observer: the places in Universe that got no quote in this cycle
  mirrored    \* observer: the last whole content of previous.json

vars == <<cycle, disk, live, writer, differ, refused, mirrored>>

-----------------------------------------------------------------------------
(* From a quote to chunks                                                  *)

Top(side) == IF side = <<>> THEN None ELSE Head(side)

\* A cycle asks for no NAV, so a snapshot never has one.
BuildSnapshot(s, quote) ==
  [symbol |-> s, last_price |-> quote.price, best_bid |-> Top(quote.bids),
   best_ask |-> Top(quote.asks), nav |-> None]

QuoteSnapshots == {BuildSnapshot(s, quote) : s \in Symbols, quote \in Quotes}
Payloads == Seq(QuoteSnapshots)

\* What a list of all symbols may be.
Snapshots == UNION {[listed -> Prices] : listed \in SUBSET Listable}

\* A missing file is no payload and no list, and an empty one is no list.
ASSUME FilesAssumption ==
  None \notin Payloads /\ None \notin Snapshots /\ Torn \notin Snapshots

\* gzip and json lose nothing, and a digest tells any two payloads apart.  A
\* snapshot takes one unit of the payload: a cut between two units stands for
\* a cut anywhere in the bytes.
Serialize(snapshots) == snapshots
Checksum(data) == [sha256 |-> data]

TotalChunks(length) == (length + ChunkSize - 1) \div ChunkSize

Least(a, b) == IF a < b THEN a ELSE b

Slice(data, i) ==
  SubSeq(data, i * ChunkSize + 1, Least(i * ChunkSize + ChunkSize, Len(data)))

Chunks(data) ==
  [i \in 0 .. TotalChunks(Len(data)) - 1 |->
     [index |-> i, total |-> TotalChunks(Len(data)),
      data |-> Slice(data, i), checksum |-> Checksum(data)]]

ExportBatch(snapshots) ==
  LET payload == Serialize(snapshots) IN
  [payload |-> payload, checksum |-> Checksum(payload),
   chunks |-> Chunks(payload), count |-> Len(snapshots)]

\* None stands for the ValueError.
Reassemble(chunks) ==
  IF \/ chunks = {}
     \/ \E c \in chunks : 0 .. c.total - 1 # {d.index : d \in chunks}
     \/ \E c, d \in chunks : c.checksum # d.checksum
  THEN None
  ELSE FlattenSeq([i \in 1 .. Cardinality(chunks) |->
                     (CHOOSE c \in chunks : c.index = i - 1).data])

\* What validate_export calls valid: digest, length and number of snapshots.
ValidExport(rebuilt, checksum, count) ==
  /\ rebuilt # None
  /\ Checksum(rebuilt) = checksum
  /\ Len(rebuilt) = count

-----------------------------------------------------------------------------
(* The worker's cycle                                                      *)

Idle == [at |-> "idle", rest |-> <<>>, snaps |-> <<>>, batch |-> None, next |-> 0]

NoFiles == [payload |-> None, data |-> <<>>, sums |-> <<>>, state |-> None]

StartCycle ==
  /\ cycle.at = "idle"
  /\ cycle' = [Idle EXCEPT !.at = "collect", !.rest = Universe]
  /\ disk' = NoFiles
  /\ refused' = {}
  /\ UNCHANGED <<live, writer, differ, mirrored>>

CollectSymbol ==
  /\ cycle.at = "collect" /\ cycle.rest # <<>>
  /\ \E quote \in Quotes :
       cycle' = [cycle EXCEPT !.rest = Tail(@),
                              !.snaps = Append(@, BuildSnapshot(Head(cycle.rest), quote))]
  /\ UNCHANGED <<disk, live, writer, differ, refused, mirrored>>

\* The place in Universe of the symbol that is asked for next.
Asked == Len(Universe) - Len(cycle.rest) + 1

Refuse_EndsCollection ==
  /\ cycle.at = "collect" /\ cycle.rest # <<>>
  /\ refused' = refused \union {Asked}
  /\ cycle' = [cycle EXCEPT !.rest = <<>>]
  /\ UNCHANGED <<disk, live, writer, differ, mirrored>>

\* The provider raises: no such symbol, no budget left, no connection.
Refuse ==
  /\ cycle.at = "collect" /\ cycle.rest # <<>>
  /\ refused' = refused \union {Asked}
  /\ cycle' = [cycle EXCEPT !.rest = Tail(@)]
  /\ UNCHANGED <<disk, live, writer, differ, mirrored>>

Export ==
  /\ cycle.at = "collect" /\ cycle.rest = <<>>
  /\ cycle' = IF cycle.snaps = <<>> THEN Idle
              ELSE [cycle EXCEPT !.at = "payload",
                                 !.batch = ExportBatch(cycle.snaps)]
  /\ UNCHANGED <<disk, live, writer, differ, refused, mirrored>>

\* A temporary file renamed into place: the payload is there as a whole or not.
SavePayload ==
  /\ cycle.at = "payload"
  /\ disk' = [disk EXCEPT !.payload = cycle.batch.payload]
  /\ cycle' = [cycle EXCEPT !.at = "data"]
  /\ UNCHANGED <<live, writer, differ, refused, mirrored>>

Put(f, i, value) == [j \in DOMAIN f \union {i} |-> IF j = i THEN value ELSE f[j]]

SaveChunkData ==
  /\ cycle.at = "data"
  /\ disk' = [disk EXCEPT !.data = Put(@, cycle.next, cycle.batch.chunks[cycle.next].data)]
  /\ cycle' = [cycle EXCEPT !.at = "sum"]
  /\ UNCHANGED <<live, writer, differ, refused, mirrored>>

SaveChunkChecksum ==
  /\ cycle.at = "sum"
  /\ disk' = [disk EXCEPT !.sums = Put(@, cycle.next, cycle.batch.chunks[cycle.next].checksum)]
  /\ cycle' = IF cycle.next + 1 \in DOMAIN cycle.batch.chunks
              THEN [cycle EXCEPT !.at = "data", !.next = @ + 1]
              ELSE [cycle EXCEPT !.at = "pending"]
  /\ UNCHANGED <<live, writer, differ, refused, mirrored>>

SavePending ==
  /\ cycle.at = "pending"
  /\ disk' = [disk EXCEPT !.state =
                [status |-> "pending", checksum |-> cycle.batch.checksum,
                 total |-> Cardinality(DOMAIN cycle.batch.chunks)]]
  /\ cycle' = [cycle EXCEPT !.at = "send"]
  /\ UNCHANGED <<live, writer, differ, refused, mirrored>>

\* send_batch, which Sender models, and the rest of the cycle.
HandOver ==
  /\ cycle.at = "send"
  /\ cycle' = Idle
  /\ UNCHANGED <<disk, live, writer, differ, refused, mirrored>>

WorkerDies ==
  /\ cycle # Idle
  /\ cycle' = Idle
  /\ UNCHANGED <<disk, live, writer, differ, refused, mirrored>>

\* get_stored_chunks: a chunk without its checksum file is left out.
StoredChunks ==
  {[index |-> i, data |-> disk.data[i], checksum |-> disk.sums[i]] :
     i \in DOMAIN disk.data \intersect DOMAIN disk.sums}

-----------------------------------------------------------------------------
(* The live scripts                                                        *)

\* Any set of symbols may be listed, at any price.  Opening the file for
\* writing empties it before anything is written.
CollectMarket ==
  /\ writer = None
  /\ \E market \in Snapshots : writer' = market
  /\ live' = [live EXCEPT !.latest = Torn]
  /\ UNCHANGED <<cycle, disk, differ, refused, mirrored>>

WriteLatest ==
  /\ writer # None
  /\ live' = [live EXCEPT !.latest = writer]
  /\ writer' = None
  /\ UNCHANGED <<cycle, disk, differ, refused, mirrored>>

WriterDies ==
  /\ writer # None
  /\ writer' = None
  /\ UNCHANGED <<cycle, disk, live, differ, refused, mirrored>>

Whole(file) == file \notin {None, Torn}

AtRest == [at |-> "idle", current |-> None, changed |-> None]

Changed_OnlyNew(current, previous) ==
  [s \in {t \in DOMAIN current : t \notin DOMAIN previous} |-> current[s]]

\* The entries that are not in the old snapshot as they are now.
Changed(current, previous) ==
  [s \in {t \in DOMAIN current : t \notin DOMAIN previous \/ previous[t] # current[t]}
     |-> current[s]]

\* Both files are read at once: only this script writes previous.json.  A
\* file that is missing or torn ends the script with an exception.
ReadSnapshots ==
  /\ differ.at = "idle" /\ Whole(live.latest)
  /\ \/ /\ live.previous = None
        /\ differ' = [at |-> "previous", current |-> live.latest, changed |-> None]
     \/ /\ Whole(live.previous)
        /\ differ' = [at |-> "delta", current |-> live.latest,
                      changed |-> Changed(live.latest, live.previous)]
  /\ UNCHANGED <<cycle, disk, live, writer, refused, mirrored>>

OpenDelta ==
  /\ differ.at = "delta"
  /\ live' = [live EXCEPT !.delta = Torn]
  /\ differ' = [differ EXCEPT !.at = "fill_delta"]
  /\ UNCHANGED <<cycle, disk, writer, refused, mirrored>>

FillDelta ==
  /\ differ.at = "fill_delta"
  /\ live' = [live EXCEPT !.delta = differ.changed]
  /\ differ' = [differ EXCEPT !.at = "previous"]
  /\ UNCHANGED <<cycle, disk, writer, refused, mirrored>>

OpenPrevious ==
  /\ differ.at = "previous"
  /\ live' = [live EXCEPT !.previous = Torn]
  /\ differ' = [differ EXCEPT !.at = "fill_previous"]
  /\ UNCHANGED <<cycle, disk, writer, refused, mirrored>>

FillPrevious ==
  /\ differ.at = "fill_previous"
  /\ live' = [live EXCEPT !.previous = differ.current]
  /\ mirrored' = differ.current
  /\ differ' = AtRest
  /\ UNCHANGED <<cycle, disk, writer, refused>>

DifferDies ==
  /\ differ # AtRest
  /\ differ' = AtRest
  /\ UNCHANGED <<cycle, disk, live, writer, refused, mirrored>>

-----------------------------------------------------------------------------
Init ==
  /\ cycle = Idle
  /\ disk = NoFiles
  /\ live = [latest |-> None, previous |-> None, delta |-> None]
  /\ writer = None
  /\ differ = AtRest
  /\ refused = {}
  /\ mirrored = None

Cycle ==
  \/ StartCycle \/ CollectSymbol \/ Refuse \/ Export \/ SavePayload
  \/ SaveChunkData \/ SaveChunkChecksum \/ SavePending \/ HandOver
  \/ WorkerDies

Live ==
  \/ CollectMarket \/ WriteLatest \/ WriterDies
  \/ ReadSnapshots \/ OpenDelta \/ FillDelta \/ OpenPrevious \/ FillPrevious
  \/ DifferDies

Next == Cycle \/ Live

Spec == Init /\ [][Next]_vars

-----------------------------------------------------------------------------
(* Properties                                                              *)

\* What is on disk can be sent again after any crash.  A chunk that has both
\* its files is a slice of the stored payload.  A batch noted as pending
\* rebuilds, from its stored chunks alone, the payload with the digest the
\* note names, and holds a snapshot for every place in the list of funds that
\* got its quote (run_cycle's order of saves; BatchStorage; chunk and reassemble).
PendingRebuilds ==
  /\ \A c \in StoredChunks : c.data = Slice(disk.payload, c.index)
  /\ disk.state # None =>
       LET chunks == {[index |-> c.index, total |-> disk.state.total,
                       data |-> c.data, checksum |-> c.checksum] : c \in StoredChunks}
           rebuilt == Reassemble(chunks)
           answered == DOMAIN Universe \ refused
       IN /\ rebuilt = disk.payload
          /\ ValidExport(rebuilt, disk.state.checksum, Cardinality(answered))
          /\ {snap.symbol : snap \in Range(rebuilt)} = {Universe[i] : i \in answered}

\* Nothing that changed is lost between two snapshots: when previous.json moves
\* on, the delta file on disk is whole and carries every entry of the new
\* snapshot the last one had not, whatever died in between (build_delta writes
\* the delta before it moves previous.json).
DeltaCoversChange ==
  [][mirrored # None /\ Whole(live'.previous) /\ live'.previous # live.previous =>
       /\ Whole(live'.delta)
       /\ \A s \in DOMAIN live'.previous :
            \/ s \in DOMAIN mirrored /\ mirrored[s] = live'.previous[s]
            \/ s \in DOMAIN live'.delta /\ live'.delta[s] = live'.previous[s]]_vars
=============================================================================
