--------------------------- MODULE GatewayProofs ---------------------------
(***************************************************************************)
(* Proofs about the gateway host: the live scripts, for any symbols, prices *)
(* and deaths of the two scripts, and the files of a batch, for any list of *)
(* funds, answers of the provider, chunk size and deaths of the worker.     *)
(***************************************************************************)
EXTENDS Gateway, Integers, WellFoundedInduction, FiniteSetTheorems, SequenceTheorems, TLAPS

-----------------------------------------------------------------------------
(* The live scripts                                                        *)

LiveTyped ==
  /\ live \in [latest : Snapshots \cup {None, Torn}, previous : Snapshots \cup {None, Torn},
               delta : Snapshots \cup {None, Torn}]
  /\ writer \in Snapshots \cup {None}
  /\ differ \in [at : {"idle", "delta", "fill_delta", "previous", "fill_previous"},
                 current : Snapshots \cup {None}, changed : Snapshots \cup {None}]
  /\ mirrored \in Snapshots \cup {None}

(* The observer: the last whole content of previous.json.                  *)
Mirrors ==
  /\ Whole(live.previous) => mirrored = live.previous
  /\ live.previous = None => mirrored = None

(* What the script has in hand at each step, if there was a snapshot        *)
(* before: what changed since then, on disk as soon as it is written.       *)
InHand ==
  /\ differ.at # "idle" => differ.current \in Snapshots
  /\ differ.at \in {"delta", "fill_delta"} =>
       mirrored # None /\ differ.changed = Changed(differ.current, mirrored)
  /\ differ.at \in {"previous", "fill_previous"} /\ mirrored # None =>
       differ.changed = Changed(differ.current, mirrored) /\ live.delta = differ.changed

LiveInv == LiveTyped /\ Mirrors /\ InHand

(* What changed between two lists is a list.                               *)
LEMMA ChangedIsSnapshot ==
  ASSUME NEW new \in Snapshots, NEW old \in Snapshots
  PROVE  Changed(new, old) \in Snapshots
<1>1. PICK listed \in SUBSET Listable : new \in [listed -> Prices]
  BY DEF Snapshots
<1> DEFINE some == {t \in DOMAIN new : t \notin DOMAIN old \/ old[t] # new[t]}
<1>2. some \in SUBSET Listable /\ Changed(new, old) \in [some -> Prices]
  BY <1>1 DEF Changed
<1> HIDE DEF some
<1> QED
  BY <1>2 DEF Snapshots

LEMMA LiveInit == Init => LiveInv
BY GatewayAssumption DEF Init, LiveInv, LiveTyped, Mirrors, InHand, AtRest, Whole

LEMMA LiveStep == LiveInv /\ [Next]_vars => LiveInv'
<1> SUFFICES ASSUME LiveInv, [Next]_vars PROVE LiveInv'
  OBVIOUS
<1> USE GatewayAssumption, FilesAssumption DEF LiveInv, LiveTyped, Mirrors, InHand, Whole, AtRest
<1>1. CASE CollectMarket
  BY <1>1 DEF CollectMarket
<1>2. CASE WriteLatest
  BY <1>2 DEF WriteLatest
<1>3. CASE WriterDies
  BY <1>3 DEF WriterDies
<1>4. CASE ReadSnapshots
  <2>1. live.latest \in Snapshots
    BY <1>4 DEF ReadSnapshots
  <2>2. CASE live.previous = None
    BY <1>4, <2>1, <2>2 DEF ReadSnapshots
  <2>3. CASE Whole(live.previous)
    <3>1. live.previous \in Snapshots /\ mirrored = live.previous
      BY <2>3
    <3>2. Changed(live.latest, live.previous) \in Snapshots
      BY <2>1, <3>1, ChangedIsSnapshot
    <3> QED
      BY <1>4, <2>1, <2>3, <3>1, <3>2 DEF ReadSnapshots
  <2> QED
    BY <1>4, <2>2, <2>3 DEF ReadSnapshots
<1>5. CASE OpenDelta
  BY <1>5 DEF OpenDelta
<1>6. CASE FillDelta
  <2>1. differ.changed \in Snapshots
    BY <1>6, ChangedIsSnapshot DEF FillDelta
  <2> QED
    BY <1>6, <2>1 DEF FillDelta
<1>7. CASE OpenPrevious
  BY <1>7 DEF OpenPrevious
<1>8. CASE FillPrevious
  BY <1>8 DEF FillPrevious
<1>9. CASE DifferDies
  BY <1>9 DEF DifferDies
<1>10. CASE UNCHANGED <<live, writer, differ, mirrored>>
  BY <1>10
<1>11. Cycle => UNCHANGED <<live, writer, differ, mirrored>>
  BY DEF Cycle, StartCycle, CollectSymbol, Refuse, Export, SavePayload, SaveChunkData,
     SaveChunkChecksum, SavePending, HandOver, WorkerDies
<1> QED
  BY <1>1, <1>2, <1>3, <1>4, <1>5, <1>6, <1>7, <1>8, <1>9, <1>10, <1>11 DEF Next, Live, vars

(* The files of the live scripts, and what a script holds of them.         *)
THEOREM LiveFiles == Spec => []LiveInv
<1> QED
  BY LiveInit, LiveStep, PTL DEF Spec

(* services/sync/live/delta.py: when previous.json moves on, the delta on   *)
(* disk has everything the new snapshot changed, whatever died before.      *)
THEOREM NoChangeLost == Spec => DeltaCoversChange
<1> DEFINE Covers ==
      mirrored # None /\ Whole(live'.previous) /\ live'.previous # live.previous =>
       /\ Whole(live'.delta)
       /\ \A s \in DOMAIN live'.previous :
            \/ s \in DOMAIN mirrored /\ mirrored[s] = live'.previous[s]
            \/ s \in DOMAIN live'.delta /\ live'.delta[s] = live'.previous[s]
<1>1. LiveInv /\ [Next]_vars => [Covers]_vars
  <2> SUFFICES ASSUME LiveInv, Next PROVE Covers
    OBVIOUS
  <2>1. CASE FillPrevious
    <3> SUFFICES ASSUME mirrored # None PROVE Covers
      OBVIOUS
    <3>1. /\ live'.previous = differ.current /\ live'.delta = live.delta
          /\ live.delta = Changed(differ.current, mirrored)
          /\ differ.current \in Snapshots /\ mirrored \in Snapshots
      BY <2>1 DEF FillPrevious, LiveInv, LiveTyped, InHand
    <3>2. Whole(live'.delta)
      BY <3>1, ChangedIsSnapshot, FilesAssumption DEF Whole
    <3> QED
      BY <3>1, <3>2 DEF Changed
  <2>2. CASE OpenPrevious
    BY <2>2 DEF OpenPrevious, LiveInv, LiveTyped, Whole
  <2>3. CASE live'.previous = live.previous
    BY <2>3
  <2>4. FillPrevious \/ OpenPrevious \/ live'.previous = live.previous
    BY DEF Next, Cycle, Live, StartCycle, CollectSymbol, Refuse, Export, SavePayload, SaveChunkData,
       SaveChunkChecksum, SavePending, HandOver, WorkerDies, CollectMarket, WriteLatest, WriterDies,
       ReadSnapshots, OpenDelta, FillDelta, DifferDies, LiveInv, LiveTyped
  <2> QED
    BY <2>1, <2>2, <2>3, <2>4
<1> QED
  BY <1>1, LiveFiles, PTL DEF Spec, DeltaCoversChange

-----------------------------------------------------------------------------
(* From a payload to chunks and back                                       *)

(* A nonempty set of natural numbers has a least one.                      *)
LEMMA NatLeast == ASSUME NEW T, T \subseteq Nat, T # {} PROVE \E n \in T : \A m \in T : n <= m
<1> DEFINE Less == OpToRel(<, Nat)
<1>1. IsWellFoundedOn(Less, Nat)
  BY NatLessThanWellFounded
<1>2. \A x, y \in Nat : x < y => <<x, y>> \in Less
  BY DEF OpToRel
<1> HIDE DEF Less
<1>3. PICK n \in T : \A m \in T : ~(<<m, n>> \in Less)
  BY <1>1, WFMin
<1>4. n \in Nat
  BY <1>3
<1>5. ASSUME NEW m \in T PROVE n <= m
  <2>1. m \in Nat
    OBVIOUS
  <2>2. ~(m < n)
    BY <1>2, <1>3, <1>4, <2>1
  <2> QED
    BY <1>4, <2>1, <2>2
<1> QED
  BY <1>3, <1>5

(* FlattenSeq is what any function of its recursion computes: of the places *)
(* where the two differ there is no first one.                              *)
LEMMA FlattenIs ==
  ASSUME NEW seqs, NEW N \in Nat, N > 0, Len(seqs) = N, NEW g,
         \A i \in 1..N : g[i] = IF i = 1 THEN seqs[i] ELSE g[i - 1] \o seqs[i]
  PROVE  FlattenSeq(seqs) = g[N]
<1> DEFINE Rec(f) == f = [i \in 1..Len(seqs) |-> IF i = 1 THEN seqs[i] ELSE f[i - 1] \o seqs[i]]
           F == CHOOSE f : Rec(f)
           h == [i \in 1..N |-> g[i]]
<1>1. FlattenSeq(seqs) = F[Len(seqs)]
  BY DEF FlattenSeq
<1>2. Rec(h)
  <2>1. ASSUME NEW i \in 1..N PROVE h[i] = IF i = 1 THEN seqs[i] ELSE h[i - 1] \o seqs[i]
    <3>1. i = 1 \/ i - 1 \in 1..N
      OBVIOUS
    <3> QED
      BY <3>1
  <2> QED
    BY <2>1
<1>3. Rec(F)
  <2> HIDE DEF Rec
  <2> QED
    BY <1>2
<1>4. F = [i \in 1..N |-> IF i = 1 THEN seqs[i] ELSE F[i - 1] \o seqs[i]]
  BY <1>3
<1> HIDE DEF F, h, Rec
<1> DEFINE T == {i \in 1..N : F[i] # g[i]}
<1>5. ASSUME T # {} PROVE FALSE
  <2>1. T \subseteq Nat
    OBVIOUS
  <2> HIDE DEF T
  <2>2. PICK n \in T : \A m \in T : n <= m
    BY <1>5, <2>1, NatLeast
  <2>3. n \in 1..N /\ F[n] # g[n]
    BY DEF T
  <2>4. n = 1 \/ (n - 1 \in 1..N /\ n - 1 \notin T)
    BY <2>2, <2>3
  <2>5. n # 1 => F[n - 1] = g[n - 1]
    BY <2>4 DEF T
  <2>6. F[n] = IF n = 1 THEN seqs[n] ELSE F[n - 1] \o seqs[n]
    BY <1>4, <2>3
  <2>7. g[n] = IF n = 1 THEN seqs[n] ELSE g[n - 1] \o seqs[n]
    BY <2>3
  <2> QED
    BY <2>3, <2>5, <2>6, <2>7
<1> QED
  BY <1>1, <1>5

(* sync/live/chunker.py: the chunks are enough for the payload, and one     *)
(* fewer would not be.                                                      *)
LEMMA ChunkCount ==
  ASSUME NEW L \in Nat, L > 0
  PROVE  /\ TotalChunks(L) \in Nat \ {0}
         /\ (TotalChunks(L) - 1) * ChunkSize < L
         /\ L <= TotalChunks(L) * ChunkSize
BY GatewayAssumption DEF TotalChunks

LEMMA TimesMonotone ==
  ASSUME NEW a \in Nat, NEW b \in Nat, NEW c \in Nat, a <= b PROVE a * c <= b * c
OBVIOUS

LEMMA TimesBefore ==
  ASSUME NEW a \in Nat, a > 0, NEW c \in Nat PROVE (a - 1) * c + c = a * c
OBVIOUS

(* A sequence is its beginning and what follows it.                        *)
LEMMA JoinedAt ==
  ASSUME NEW S, NEW s \in Seq(S), NEW a \in Nat, NEW b \in Nat, a <= b, b <= Len(s)
  PROVE  SubSeq(s, 1, b) = SubSeq(s, 1, a) \o SubSeq(s, a + 1, b)
<1>1. /\ SubSeq(s, 1, b) \in Seq(S) /\ Len(SubSeq(s, 1, b)) = b
      /\ \A i \in 1 .. b : SubSeq(s, 1, b)[i] = s[i]
  BY SubSeqProperties
<1>2. /\ SubSeq(s, 1, a) \in Seq(S) /\ Len(SubSeq(s, 1, a)) = a
      /\ \A i \in 1 .. a : SubSeq(s, 1, a)[i] = s[i]
  BY SubSeqProperties
<1>3. /\ SubSeq(s, a + 1, b) \in Seq(S) /\ Len(SubSeq(s, a + 1, b)) = b - a
      /\ \A i \in 1 .. b - a : SubSeq(s, a + 1, b)[i] = s[a + i]
  BY SubSeqProperties
<1> DEFINE l == SubSeq(s, 1, a)
           r == SubSeq(s, a + 1, b)
           w == SubSeq(s, 1, b)
<1> HIDE DEF l, r, w
<1>4. /\ l \o r \in Seq(S) /\ Len(l \o r) = b
      /\ \A i \in 1 .. b : (l \o r)[i] = IF i <= a THEN l[i] ELSE r[i - a]
  BY <1>2, <1>3, ConcatProperties DEF l, r
<1>5. w \in Seq(S) /\ Len(w) = b /\ \A i \in 1 .. b : w[i] = s[i]
  BY <1>1 DEF w
<1>6. ASSUME NEW i \in 1 .. b PROVE w[i] = (l \o r)[i]
  <2>0. i <= a \/ i > a
    OBVIOUS
  <2>1. CASE i <= a
    BY <2>1, <1>4, <1>5, <1>2 DEF l
  <2>2. CASE i > a
    <3>1. i - a \in 1 .. b - a /\ a + (i - a) = i
      BY <2>2
    <3>2. r[i - a] = s[i]
      BY <3>1, <1>3 DEF r
    <3> QED
      BY <3>2, <2>2, <1>4, <1>5
  <2> QED
    BY <2>0, <2>1, <2>2
<1>7. w = l \o r
  BY <1>4, <1>5, <1>6, SeqEqual
<1> QED
  BY <1>7 DEF w, l, r

LEMMA WholeSubSeq ==
  ASSUME NEW S, NEW s \in Seq(S) PROVE SubSeq(s, 1, Len(s)) = s
<1>1. /\ SubSeq(s, 1, Len(s)) \in Seq(S) /\ Len(SubSeq(s, 1, Len(s))) = Len(s)
      /\ \A i \in 1 .. Len(s) : SubSeq(s, 1, Len(s))[i] = s[i]
  BY SubSeqProperties
<1> QED
  BY <1>1, SeqEqual

(* chunk and reassemble: the slices in their order are the payload.        *)
LEMMA SlicesJoin ==
  ASSUME NEW S, NEW data \in Seq(S), data # <<>>, NEW n, n = TotalChunks(Len(data))
  PROVE  FlattenSeq([i \in 1 .. n |-> Slice(data, i - 1)]) = data
<1> DEFINE L == Len(data)
           seqs == [i \in 1 .. n |-> Slice(data, i - 1)]
           g == [i \in 1 .. n |-> SubSeq(data, 1, Least(i * ChunkSize, L))]
<1>1. L \in Nat /\ L > 0
  BY EmptySeq
<1>2. n \in Nat /\ n > 0 /\ (n - 1) * ChunkSize < L /\ L <= n * ChunkSize
  BY <1>1, ChunkCount
<1>3. Len(seqs) = n /\ ChunkSize \in Nat \ {0}
  BY <1>2, GatewayAssumption
<1>4. ASSUME NEW i \in 1 .. n
      PROVE  g[i] = IF i = 1 THEN seqs[i] ELSE g[i - 1] \o seqs[i]
  <2>1. i \in Nat /\ i > 0 /\ i - 1 \in Nat /\ i - 1 <= n - 1 /\ n - 1 \in Nat
    BY <1>2
  <2>2. (i - 1) * ChunkSize <= (n - 1) * ChunkSize
    BY <2>1, <1>3, TimesMonotone
  <2> DEFINE a == (i - 1) * ChunkSize
             b == Least(i * ChunkSize, L)
  <2>3. a \in Nat /\ i * ChunkSize \in Nat /\ a + ChunkSize = i * ChunkSize
    BY <2>1, <1>3, TimesBefore
  <2>4. a < L
    BY <2>2, <2>3, <1>1, <1>2, <1>3
  <2>5. Least(a, L) = a /\ b \in Nat /\ a <= b /\ b <= L
    BY <2>3, <2>4, <1>1, <1>3 DEF Least
  <2>6. seqs[i] = SubSeq(data, a + 1, b)
    BY <2>3 DEF Slice
  <2>7. SubSeq(data, 1, b) = SubSeq(data, 1, a) \o SubSeq(data, a + 1, b)
    BY <2>3, <2>5, JoinedAt
  <2>8. CASE i = 1
    <3>1. a = 0
      BY <2>8, <1>3
    <3> QED
      BY <3>1, <2>6, <2>8
  <2>9. CASE i # 1
    <3>1. i - 1 \in 1 .. n
      BY <2>9, <1>2
    <3>2. g[i - 1] = SubSeq(data, 1, Least(a, L))
      BY <3>1
    <3> QED
      BY <3>2, <2>5, <2>6, <2>7, <2>9
  <2> QED
    BY <2>8, <2>9
<1>5. g[n] = data
  <2>1. Least(n * ChunkSize, L) = L
    BY <1>1, <1>2, <1>3 DEF Least
  <2> QED
    BY <2>1, <1>2, WholeSubSeq
<1> HIDE DEF g, seqs
<1>7. FlattenSeq(seqs) = g[n]
  <2>1. n \in Nat /\ n > 0 /\ Len(seqs) = n
    BY <1>2, <1>3
  <2> QED
    BY <2>1, <1>4, FlattenIs
<1> QED
  BY <1>5, <1>7 DEF seqs

(* The chunks of a payload, as the files they are read from give them.     *)
ChunksIn(data, n, sum) ==
  {[index |-> i, total |-> n, data |-> Slice(data, i), checksum |-> sum] : i \in 0 .. n - 1}

(* reassemble: the chunks of a payload are put together to that payload.    *)
LEMMA RebuildsWhole ==
  ASSUME NEW S, NEW data \in Seq(S), data # <<>>, NEW n, n = TotalChunks(Len(data)), NEW sum
  PROVE  Reassemble(ChunksIn(data, n, sum)) = data
<1> DEFINE chunks == ChunksIn(data, n, sum)
<1>1. Len(data) \in Nat /\ Len(data) > 0
  BY EmptySeq
<1>2. n \in Nat /\ n > 0
  BY <1>1, ChunkCount
<1> DEFINE At(i) == [index |-> i, total |-> n, data |-> Slice(data, i), checksum |-> sum]
<1>3. chunks = {At(i) : i \in 0 .. n - 1}
  BY DEF ChunksIn
<1>4. \A i : /\ At(i).index = i /\ At(i).total = n
             /\ At(i).data = Slice(data, i) /\ At(i).checksum = sum
  OBVIOUS
<1> HIDE DEF At, chunks
<1>5. 0 \in 0 .. n - 1 /\ chunks # {}
  BY <1>2, <1>3
<1>6. {c.index : c \in chunks} = 0 .. n - 1
  BY <1>3, <1>4
<1>7. \A c \in chunks : c.total = n /\ c.checksum = sum
  BY <1>3, <1>4
<1>8. Cardinality(chunks) = n
  <2> DEFINE f == [i \in 0 .. n - 1 |-> At(i)]
  <2>1. f \in Bijection(0 .. n - 1, chunks)
    <3>1. f \in [0 .. n - 1 -> chunks]
      BY <1>3
    <3>2. \A i, j \in 0 .. n - 1 : f[i] = f[j] => i = j
      BY <1>4
    <3>3. \A c \in chunks : \E i \in 0 .. n - 1 : f[i] = c
      BY <1>3
    <3> QED
      BY <3>1, <3>2, <3>3 DEF Bijection, Injection, IsInjective, Surjection
  <2>2. IsFiniteSet(0 .. n - 1) /\ Cardinality(0 .. n - 1) = n
    <3>1. 0 \in Int /\ n - 1 \in Int /\ ~(0 > n - 1) /\ (n - 1) - 0 + 1 = n
      BY <1>2
    <3> QED
      BY <3>1, FS_Interval
  <2> QED
    BY <2>1, <2>2, FS_Bijection DEF ExistsBijection
<1>9. ASSUME NEW i \in 1 .. n
      PROVE  (CHOOSE c \in chunks : c.index = i - 1).data = Slice(data, i - 1)
  <2>0. i - 1 \in 0 .. n - 1
    BY <1>2
  <2>1. At(i - 1) \in chunks
    BY <2>0, <1>3
  <2>2. \A c \in chunks : c.index = i - 1 => c = At(i - 1)
    BY <1>3, <1>4
  <2>3. (CHOOSE c \in chunks : c.index = i - 1) = At(i - 1)
    BY <2>1, <2>2, <1>4
  <2> QED
    BY <2>3, <1>4
<1>10. Reassemble(chunks) =
         FlattenSeq([i \in 1 .. n |-> (CHOOSE c \in chunks : c.index = i - 1).data])
  BY <1>5, <1>6, <1>7, <1>8 DEF Reassemble
<1>11. [i \in 1 .. n |-> (CHOOSE c \in chunks : c.index = i - 1).data] =
         [i \in 1 .. n |-> Slice(data, i - 1)]
  BY <1>9
<1> QED
  BY <1>10, <1>11, SlicesJoin DEF chunks

-----------------------------------------------------------------------------
(* The files of the batch                                                  *)

(* The batch holds a snapshot for each of these places in the list of funds. *)
Got(snaps, places) ==
  /\ Len(snaps) = Cardinality(places)
  /\ {snap.symbol : snap \in Range(snaps)} = {Universe[i] : i \in places}

(* How many funds have been asked for, and how many chunks a batch takes.  *)
Passed == Len(Universe) - Len(cycle.rest)
ChunksOf(snaps) == TotalChunks(Len(snaps))

CycleTyped ==
  /\ cycle \in [at : {"idle", "collect", "payload", "data", "sum", "pending", "send"},
                rest : Seq(Symbols), snaps : Payloads,
                batch : {ExportBatch(p) : p \in Payloads} \cup {None}, next : Nat]
  /\ disk = [payload |-> disk.payload, data |-> disk.data, sums |-> disk.sums,
             state |-> disk.state]

(* What is left to ask is the end of the list, and there is a snapshot for  *)
(* every place before it that was not refused.  Nothing is on disk.         *)
Collecting ==
  cycle.at = "collect" =>
    /\ Len(cycle.rest) <= Len(Universe)
    /\ \A i \in 1 .. Len(cycle.rest) : cycle.rest[i] = Universe[Passed + i]
    /\ refused \subseteq 1 .. Passed
    /\ Got(cycle.snaps, (1 .. Passed) \ refused)
    /\ cycle.next = 0 /\ disk = NoFiles

(* The files are those of the batch in hand, and the chunks on disk those   *)
(* the step has come to.                                                    *)
Saving ==
  cycle.at \notin {"idle", "collect"} =>
    /\ cycle.snaps # <<>> /\ cycle.batch = ExportBatch(cycle.snaps)
    /\ Got(cycle.snaps, DOMAIN Universe \ refused)
    /\ cycle.at = "payload" => cycle.next = 0 /\ disk = NoFiles
    /\ cycle.at # "payload" => disk.payload = cycle.snaps
    /\ cycle.at # "send" => disk.state = None
    /\ cycle.at \in {"data", "sum"} =>
         cycle.next \in 0 .. ChunksOf(cycle.snaps) - 1 /\ DOMAIN disk.sums = 0 .. cycle.next - 1
    /\ cycle.at = "data" => DOMAIN disk.data = 0 .. cycle.next - 1
    /\ cycle.at = "sum" => DOMAIN disk.data = 0 .. cycle.next
    /\ cycle.at = "pending" =>
         /\ DOMAIN disk.data = 0 .. ChunksOf(cycle.snaps) - 1
         /\ DOMAIN disk.sums = 0 .. ChunksOf(cycle.snaps) - 1

(* Whatever the worker does: a stored chunk is a slice of the stored        *)
(* payload, and the files of a batch noted as pending are all there.        *)
Files ==
  /\ \A i \in DOMAIN disk.data : disk.data[i] = Slice(disk.payload, i)
  /\ \A i \in DOMAIN disk.sums : disk.sums[i] = Checksum(disk.payload)
  /\ disk.state # None =>
       /\ disk.payload \in Payloads /\ disk.payload # <<>>
       /\ DOMAIN disk.data = 0 .. ChunksOf(disk.payload) - 1
       /\ DOMAIN disk.sums = 0 .. ChunksOf(disk.payload) - 1
       /\ disk.state.total = ChunksOf(disk.payload)
       /\ disk.state.checksum = Checksum(disk.payload)
       /\ Got(disk.payload, DOMAIN Universe \ refused)

FilesInv == CycleTyped /\ Collecting /\ Saving /\ Files

(* collect_all_funds: one more place that was answered, one more snapshot.  *)
LEMMA GotOneMore ==
  ASSUME NEW snaps \in Payloads, NEW quote \in Quotes, NEW k \in Nat, k < Len(Universe),
         NEW places \in SUBSET (1 .. k), Got(snaps, places)
  PROVE  LET more == Append(snaps, BuildSnapshot(Universe[k + 1], quote)) IN
         more \in Payloads /\ Got(more, places \cup {k + 1})
<1> DEFINE new == BuildSnapshot(Universe[k + 1], quote)
           more == Append(snaps, new)
<1>1. k + 1 \in 1 .. Len(Universe) /\ Universe[k + 1] \in Symbols
  BY GatewayAssumption
<1>2. new \in QuoteSnapshots
  BY <1>1 DEF QuoteSnapshots
<1>3. new.symbol = Universe[k + 1]
  BY DEF BuildSnapshot
<1>4. snaps \in Seq(QuoteSnapshots) /\ Len(snaps) \in Nat /\ DOMAIN snaps = 1 .. Len(snaps)
  BY DEF Payloads
<1> HIDE DEF new
<1>5. /\ more \in Seq(QuoteSnapshots) /\ Len(more) = Len(snaps) + 1
      /\ \A i \in 1 .. Len(snaps) : more[i] = snaps[i]
      /\ more[Len(snaps) + 1] = new
  BY <1>2, <1>4, AppendProperties
<1>6. DOMAIN more = 1 .. Len(snaps) + 1
  BY <1>5
<1> HIDE DEF more
<1>7. Range(more) = Range(snaps) \cup {new}
  BY <1>4, <1>5, <1>6 DEF Range
<1>8. Cardinality(places \cup {k + 1}) = Cardinality(places) + 1
  <2>1. k \in Int /\ 1 \in Int
    OBVIOUS
  <2>2. IsFiniteSet(1 .. k)
    BY <2>1, FS_Interval
  <2>3. IsFiniteSet(places)
    BY <2>2, FS_Subset
  <2>4. k + 1 \notin places
    OBVIOUS
  <2> QED
    BY <2>3, <2>4, FS_AddElement
<1>9. {snap.symbol : snap \in Range(more)} = {Universe[i] : i \in places \cup {k + 1}}
  BY <1>3, <1>7 DEF Got
<1> QED
  BY <1>4, <1>5, <1>8, <1>9 DEF Got, Payloads, more, new

LEMMA GotNothing == Got(<<>>, {})
BY FS_EmptySet DEF Got, Range

(* run_cycle's batch: its chunks are the slices of its payload.            *)
LEMMA BatchOf ==
  ASSUME NEW p \in Payloads, p # <<>>
  PROVE  /\ ExportBatch(p).payload = p /\ ExportBatch(p).checksum = Checksum(p)
         /\ ChunksOf(p) \in Nat \ {0}
         /\ DOMAIN ExportBatch(p).chunks = 0 .. ChunksOf(p) - 1
         /\ Cardinality(0 .. ChunksOf(p) - 1) = ChunksOf(p)
         /\ \A i \in 0 .. ChunksOf(p) - 1 :
              /\ ExportBatch(p).chunks[i].data = Slice(p, i)
              /\ ExportBatch(p).chunks[i].checksum = Checksum(p)
<1>1. Len(p) \in Nat /\ Len(p) > 0
  BY EmptySeq DEF Payloads
<1>2. ChunksOf(p) \in Nat \ {0}
  BY <1>1, ChunkCount DEF ChunksOf
<1>3. Cardinality(0 .. ChunksOf(p) - 1) = ChunksOf(p)
  <2>1. /\ 0 \in Int /\ ChunksOf(p) - 1 \in Int /\ ~(0 > ChunksOf(p) - 1)
        /\ (ChunksOf(p) - 1) - 0 + 1 = ChunksOf(p)
    BY <1>2
  <2> QED
    BY <2>1, FS_Interval
<1>4. /\ ExportBatch(p).payload = p /\ ExportBatch(p).checksum = Checksum(p)
      /\ ExportBatch(p).chunks = Chunks(p)
  BY DEF ExportBatch, Serialize
<1>5. DOMAIN Chunks(p) = 0 .. ChunksOf(p) - 1
  BY DEF Chunks, ChunksOf
<1>6. \A i \in 0 .. ChunksOf(p) - 1 :
        Chunks(p)[i].data = Slice(p, i) /\ Chunks(p)[i].checksum = Checksum(p)
  BY DEF Chunks, ChunksOf
<1> QED
  BY <1>2, <1>3, <1>4, <1>5, <1>6

LEMMA FilesInit == Init => FilesInv
<1> SUFFICES ASSUME Init PROVE FilesInv
  OBVIOUS
<1>1. cycle = Idle /\ disk = NoFiles /\ refused = {}
  BY DEF Init
<1>2. CycleTyped
  BY <1>1 DEF CycleTyped, Idle, NoFiles, Payloads
<1> QED
  BY <1>1, <1>2 DEF FilesInv, Collecting, Saving, Files, Idle, NoFiles

LEMMA FilesStart == FilesInv /\ StartCycle => FilesInv'
<1> SUFFICES ASSUME FilesInv, StartCycle PROVE FilesInv'
  OBVIOUS
<1>1. /\ cycle' = [at |-> "collect", rest |-> Universe, snaps |-> <<>>, batch |-> None, next |-> 0]
      /\ disk' = NoFiles /\ refused' = {}
  BY DEF StartCycle, Idle
<1>2. Universe \in Seq(Symbols) /\ Len(Universe) \in Nat
  BY GatewayAssumption
<1>3. CycleTyped'
  BY <1>1, <1>2 DEF CycleTyped, NoFiles, Payloads
<1>4. Passed' = 0
  BY <1>1, <1>2 DEF Passed
<1>5. Collecting'
  <2>1. (1 .. 0) \ {} = {}
    OBVIOUS
  <2> QED
    BY <1>1, <1>2, <1>4, <2>1, GotNothing DEF Collecting
<1>6. Saving' /\ Files'
  BY <1>1 DEF Saving, Files, NoFiles
<1> QED
  BY <1>3, <1>5, <1>6 DEF FilesInv

(* What is at hand while the funds are asked, and what a step of it keeps.  *)
LEMMA AtCollect ==
  ASSUME FilesInv, cycle.at = "collect"
  PROVE  /\ cycle.rest \in Seq(Symbols) /\ Len(cycle.rest) \in Nat /\ Len(Universe) \in Nat
         /\ Passed \in Nat /\ Passed + Len(cycle.rest) = Len(Universe)
         /\ cycle.snaps \in Payloads /\ cycle.next = 0 /\ disk = NoFiles
         /\ refused \subseteq 1 .. Passed /\ Got(cycle.snaps, (1 .. Passed) \ refused)
         /\ cycle.rest # <<>> =>
              /\ Len(cycle.rest) > 0 /\ Head(cycle.rest) = Universe[Passed + 1]
              /\ Len(Tail(cycle.rest)) = Len(cycle.rest) - 1 /\ Tail(cycle.rest) \in Seq(Symbols)
              /\ \A i \in 1 .. Len(Tail(cycle.rest)) :
                   Tail(cycle.rest)[i] = Universe[Passed + 1 + i]
<1>1. /\ cycle.rest \in Seq(Symbols) /\ Len(cycle.rest) \in Nat /\ Len(Universe) \in Nat
      /\ cycle.snaps \in Payloads
  BY GatewayAssumption DEF FilesInv, CycleTyped
<1>2. /\ Len(cycle.rest) <= Len(Universe) /\ cycle.next = 0 /\ disk = NoFiles
      /\ \A i \in 1 .. Len(cycle.rest) : cycle.rest[i] = Universe[Passed + i]
      /\ refused \subseteq 1 .. Passed /\ Got(cycle.snaps, (1 .. Passed) \ refused)
  BY DEF FilesInv, Collecting
<1>3. Passed \in Nat /\ Passed + Len(cycle.rest) = Len(Universe)
  BY <1>1, <1>2 DEF Passed
<1>4. ASSUME cycle.rest # <<>>
      PROVE  /\ Len(cycle.rest) > 0 /\ Head(cycle.rest) = Universe[Passed + 1]
             /\ Len(Tail(cycle.rest)) = Len(cycle.rest) - 1 /\ Tail(cycle.rest) \in Seq(Symbols)
             /\ \A i \in 1 .. Len(Tail(cycle.rest)) :
                  Tail(cycle.rest)[i] = Universe[Passed + 1 + i]
  <2>1. Len(cycle.rest) > 0
    BY <1>1, <1>4, EmptySeq
  <2>2. /\ Head(cycle.rest) = cycle.rest[1] /\ Tail(cycle.rest) \in Seq(Symbols)
        /\ Len(Tail(cycle.rest)) = Len(cycle.rest) - 1
        /\ \A i \in 1 .. Len(Tail(cycle.rest)) : Tail(cycle.rest)[i] = cycle.rest[i + 1]
    BY <1>1, <1>4, HeadTailProperties
  <2>3. 1 \in 1 .. Len(cycle.rest)
    BY <1>1, <2>1
  <2>4. ASSUME NEW i \in 1 .. Len(Tail(cycle.rest))
        PROVE  Tail(cycle.rest)[i] = Universe[Passed + 1 + i]
    <3>1. i + 1 \in 1 .. Len(cycle.rest) /\ Passed + (i + 1) = Passed + 1 + i
      BY <1>1, <1>3, <2>1, <2>2
    <3>2. cycle.rest[i + 1] = Universe[Passed + (i + 1)]
      BY <3>1, <1>2
    <3> QED
      BY <2>2, <3>1, <3>2
  <2> QED
    BY <1>2, <2>1, <2>2, <2>3, <2>4
<1> QED
  BY <1>1, <1>2, <1>3, <1>4

LEMMA FilesCollect == FilesInv /\ CollectSymbol => FilesInv'
<1> SUFFICES ASSUME FilesInv, CollectSymbol PROVE FilesInv'
  OBVIOUS
<1>1. cycle.at = "collect" /\ cycle.rest # <<>> /\ disk' = disk /\ refused' = refused
  BY DEF CollectSymbol
<1>2. PICK quote \in Quotes :
        cycle' = [cycle EXCEPT !.rest = Tail(@),
                               !.snaps = Append(@, BuildSnapshot(Head(cycle.rest), quote))]
  BY DEF CollectSymbol
<1> DEFINE new == BuildSnapshot(Universe[Passed + 1], quote)
<1>3. PICK k \in Nat : k = Passed
  BY <1>1, AtCollect
<1>4. cycle' = [cycle EXCEPT !.rest = Tail(@), !.snaps = Append(@, new)]
  BY <1>1, <1>2, AtCollect
<1>5. /\ Append(cycle.snaps, new) \in Payloads
      /\ Got(Append(cycle.snaps, new), ((1 .. k) \ refused) \cup {k + 1})
  <2>1. cycle.snaps \in Payloads /\ k < Len(Universe) /\ Got(cycle.snaps, (1 .. k) \ refused)
    BY <1>1, <1>3, AtCollect
  <2>2. (1 .. k) \ refused \in SUBSET (1 .. k)
    OBVIOUS
  <2> QED
    BY <1>3, <2>1, <2>2, GotOneMore
<1> HIDE DEF new
<1>6. /\ cycle'.at = "collect" /\ cycle'.rest = Tail(cycle.rest) /\ cycle'.next = 0
      /\ cycle'.snaps = Append(cycle.snaps, new)
  BY <1>1, <1>4, AtCollect DEF FilesInv, CycleTyped
<1>7. CycleTyped'
  BY <1>1, <1>4, <1>5, AtCollect DEF FilesInv, CycleTyped
<1>8. Passed' = k + 1
  <2>1. Len(cycle'.rest) = Len(cycle.rest) - 1 /\ Len(cycle.rest) \in Nat /\ Len(Universe) \in Nat
    BY <1>1, <1>6, AtCollect
  <2> QED
    BY <1>3, <2>1 DEF Passed
<1>9. Collecting'
  <2>1. (1 .. k + 1) \ refused = ((1 .. k) \ refused) \cup {k + 1}
    BY <1>1, <1>3, AtCollect
  <2>2. Len(cycle'.rest) <= Len(Universe) /\ refused \subseteq 1 .. k + 1
    BY <1>1, <1>3, <1>6, AtCollect
  <2>3. \A i \in 1 .. Len(cycle'.rest) : cycle'.rest[i] = Universe[k + 1 + i]
    BY <1>1, <1>3, <1>6, AtCollect
  <2>4. disk' = NoFiles
    BY <1>1, AtCollect
  <2> QED
    BY <1>1, <1>5, <1>6, <1>8, <2>1, <2>2, <2>3, <2>4 DEF Collecting
<1>10. Saving' /\ Files'
  <2>1. disk' = NoFiles
    BY <1>1, AtCollect
  <2> QED
    BY <1>6, <2>1 DEF Saving, Files, NoFiles
<1> QED
  BY <1>7, <1>9, <1>10 DEF FilesInv

LEMMA FilesRefuse == FilesInv /\ Refuse => FilesInv'
<1> SUFFICES ASSUME FilesInv, Refuse PROVE FilesInv'
  OBVIOUS
<1>1. /\ cycle.at = "collect" /\ cycle.rest # <<>> /\ disk' = disk
      /\ refused' = refused \union {Asked} /\ cycle' = [cycle EXCEPT !.rest = Tail(@)]
  BY DEF Refuse
<1>2. PICK k \in Nat : k = Passed
  BY <1>1, AtCollect
<1>3. Asked = k + 1
  BY <1>2 DEF Asked, Passed
<1>4. /\ cycle'.at = "collect" /\ cycle'.rest = Tail(cycle.rest) /\ cycle'.next = 0
      /\ cycle'.snaps = cycle.snaps
  BY <1>1, AtCollect DEF FilesInv, CycleTyped
<1>5. CycleTyped'
  BY <1>1, AtCollect DEF FilesInv, CycleTyped
<1>6. Passed' = k + 1
  <2>1. Len(cycle'.rest) = Len(cycle.rest) - 1 /\ Len(cycle.rest) \in Nat /\ Len(Universe) \in Nat
    BY <1>1, <1>4, AtCollect
  <2> QED
    BY <1>2, <2>1 DEF Passed
<1>7. disk' = NoFiles
  BY <1>1, AtCollect
<1>8. Collecting'
  <2>1. (1 .. k + 1) \ (refused \cup {k + 1}) = (1 .. k) \ refused
    BY <1>1, <1>2, AtCollect
  <2>2. Len(cycle'.rest) <= Len(Universe) /\ refused \cup {k + 1} \subseteq 1 .. k + 1
    BY <1>1, <1>2, <1>4, AtCollect
  <2>3. \A i \in 1 .. Len(cycle'.rest) : cycle'.rest[i] = Universe[k + 1 + i]
    BY <1>1, <1>2, <1>4, AtCollect
  <2>4. Got(cycle.snaps, (1 .. k) \ refused)
    BY <1>1, <1>2, AtCollect
  <2> QED
    BY <1>1, <1>3, <1>4, <1>6, <1>7, <2>1, <2>2, <2>3, <2>4 DEF Collecting
<1>9. Saving' /\ Files'
  BY <1>4, <1>7 DEF Saving, Files, NoFiles
<1> QED
  BY <1>5, <1>8, <1>9 DEF FilesInv

LEMMA FilesExport == FilesInv /\ Export => FilesInv'
<1> SUFFICES ASSUME FilesInv, Export PROVE FilesInv'
  OBVIOUS
<1>1. cycle.at = "collect" /\ cycle.rest = <<>> /\ disk' = disk /\ refused' = refused
  BY DEF Export
<1>2. disk' = NoFiles
  BY <1>1, AtCollect
<1>3. Files'
  BY <1>2 DEF Files, NoFiles
<1>4. CASE cycle.snaps = <<>>
  <2>1. cycle' = Idle
    BY <1>4 DEF Export
  <2>2. CycleTyped'
    BY <1>2, <2>1 DEF CycleTyped, Idle, NoFiles, Payloads
  <2> QED
    BY <1>3, <2>1, <2>2 DEF FilesInv, Collecting, Saving, Idle
<1>5. CASE cycle.snaps # <<>>
  <2> DEFINE b == ExportBatch(cycle.snaps)
  <2>1. cycle' = [cycle EXCEPT !.at = "payload", !.batch = b]
    BY <1>5 DEF Export
  <2>2. b \in {ExportBatch(p) : p \in Payloads}
    BY <1>1, AtCollect
  <2> HIDE DEF b
  <2>3. cycle'.at = "payload" /\ cycle'.snaps = cycle.snaps /\ cycle'.batch = b /\ cycle'.next = 0
    BY <1>1, <2>1, AtCollect DEF FilesInv, CycleTyped
  <2>4. CycleTyped'
    BY <1>2, <2>1, <2>2 DEF FilesInv, CycleTyped, NoFiles
  <2>5. (1 .. Passed) \ refused = DOMAIN Universe \ refused
    <3>1. Passed = Len(Universe)
      BY <1>1, AtCollect, EmptySeq
    <3>2. DOMAIN Universe = 1 .. Len(Universe)
      BY GatewayAssumption
    <3> QED
      BY <3>1, <3>2
  <2>6. Got(cycle.snaps, DOMAIN Universe \ refused)
    BY <1>1, <2>5, AtCollect
  <2>7. Saving'
    BY <1>1, <1>2, <1>5, <2>3, <2>6 DEF Saving, NoFiles, b
  <2> QED
    BY <1>3, <2>3, <2>4, <2>7 DEF FilesInv, Collecting
<1> QED
  BY <1>4, <1>5

(* The batch in hand while its files are written.                          *)
LEMMA AtSave ==
  ASSUME FilesInv, cycle.at \notin {"idle", "collect"}
  PROVE  /\ cycle.snaps \in Payloads /\ cycle.snaps # <<>>
         /\ cycle.batch.payload = cycle.snaps /\ cycle.batch.checksum = Checksum(cycle.snaps)
         /\ ChunksOf(cycle.snaps) \in Nat \ {0}
         /\ DOMAIN cycle.batch.chunks = 0 .. ChunksOf(cycle.snaps) - 1
         /\ Cardinality(DOMAIN cycle.batch.chunks) = ChunksOf(cycle.snaps)
         /\ \A i \in 0 .. ChunksOf(cycle.snaps) - 1 :
              /\ cycle.batch.chunks[i].data = Slice(cycle.snaps, i)
              /\ cycle.batch.chunks[i].checksum = Checksum(cycle.snaps)
<1>1. cycle.snaps \in Payloads /\ cycle.snaps # <<>> /\ cycle.batch = ExportBatch(cycle.snaps)
  BY DEF FilesInv, CycleTyped, Saving
<1> QED
  BY <1>1, BatchOf

LEMMA FilesSavePayload == FilesInv /\ SavePayload => FilesInv'
<1> SUFFICES ASSUME FilesInv, SavePayload PROVE FilesInv'
  OBVIOUS
<1>1. /\ cycle.at = "payload" /\ refused' = refused
      /\ disk' = [disk EXCEPT !.payload = cycle.snaps]
      /\ cycle' = [cycle EXCEPT !.at = "data"]
  BY AtSave DEF SavePayload
<1>2. disk = NoFiles /\ cycle.next = 0
  BY <1>1 DEF FilesInv, Saving
<1>3. disk' = [payload |-> cycle.snaps, data |-> <<>>, sums |-> <<>>, state |-> None]
  BY <1>1, <1>2 DEF NoFiles
<1>4. /\ cycle'.at = "data" /\ cycle'.snaps = cycle.snaps /\ cycle'.batch = cycle.batch
      /\ cycle'.next = 0
  BY <1>1, <1>2 DEF FilesInv, CycleTyped
<1>5. CycleTyped'
  BY <1>1, <1>3 DEF FilesInv, CycleTyped
<1>6. Saving'
  <2>1. ChunksOf(cycle.snaps) \in Nat \ {0}
    BY <1>1, AtSave
  <2>2. 0 \in 0 .. ChunksOf(cycle.snaps) - 1 /\ 0 .. 0 - 1 = {}
    BY <2>1
  <2> QED
    BY <1>1, <1>3, <1>4, <2>2 DEF FilesInv, Saving
<1>7. Files'
  BY <1>3 DEF Files
<1> QED
  BY <1>4, <1>5, <1>6, <1>7 DEF FilesInv, Collecting

LEMMA FilesSaveData == FilesInv /\ SaveChunkData => FilesInv'
<1> SUFFICES ASSUME FilesInv, SaveChunkData PROVE FilesInv'
  OBVIOUS
<1>1. PICK n \in Nat \ {0} : n = ChunksOf(cycle.snaps)
  BY AtSave DEF SaveChunkData
<1>2. /\ cycle.at = "data" /\ refused' = refused /\ cycle.next \in 0 .. n - 1
      /\ disk.payload = cycle.snaps /\ disk.state = None
      /\ DOMAIN disk.data = 0 .. cycle.next - 1 /\ DOMAIN disk.sums = 0 .. cycle.next - 1
  BY <1>1 DEF SaveChunkData, FilesInv, Saving
<1>3. cycle.batch.chunks[cycle.next].data = Slice(cycle.snaps, cycle.next)
  BY <1>1, <1>2, AtSave
<1> DEFINE new == Put(disk.data, cycle.next, Slice(cycle.snaps, cycle.next))
<1>4. disk' = [disk EXCEPT !.data = new] /\ cycle' = [cycle EXCEPT !.at = "sum"]
  BY <1>3 DEF SaveChunkData
<1>5. /\ DOMAIN new = 0 .. cycle.next
      /\ \A i \in 0 .. cycle.next : new[i] = Slice(cycle.snaps, i)
  <2>1. (0 .. cycle.next - 1) \cup {cycle.next} = 0 .. cycle.next
    BY <1>2
  <2>2. \A i \in 0 .. cycle.next - 1 : disk.data[i] = Slice(cycle.snaps, i)
    BY <1>2 DEF FilesInv, Files
  <2> QED
    BY <1>2, <2>1, <2>2 DEF Put
<1> HIDE DEF new
<1>6. disk' = [payload |-> disk.payload, data |-> new, sums |-> disk.sums, state |-> disk.state]
  BY <1>4 DEF FilesInv, CycleTyped
<1>7. /\ cycle'.at = "sum" /\ cycle'.snaps = cycle.snaps /\ cycle'.batch = cycle.batch
      /\ cycle'.next = cycle.next
  BY <1>4 DEF FilesInv, CycleTyped
<1>8. CycleTyped'
  BY <1>4, <1>6 DEF FilesInv, CycleTyped
<1>9. Saving'
  BY <1>1, <1>2, <1>5, <1>6, <1>7 DEF FilesInv, Saving
<1>10. Files'
  BY <1>2, <1>5, <1>6 DEF FilesInv, Files
<1> QED
  BY <1>7, <1>8, <1>9, <1>10 DEF FilesInv, Collecting

LEMMA FilesSaveChecksum == FilesInv /\ SaveChunkChecksum => FilesInv'
<1> SUFFICES ASSUME FilesInv, SaveChunkChecksum PROVE FilesInv'
  OBVIOUS
<1>1. PICK n \in Nat \ {0} : n = ChunksOf(cycle.snaps)
  BY AtSave DEF SaveChunkChecksum
<1>2. /\ cycle.at = "sum" /\ refused' = refused /\ cycle.next \in 0 .. n - 1
      /\ disk.payload = cycle.snaps /\ disk.state = None
      /\ DOMAIN disk.data = 0 .. cycle.next /\ DOMAIN disk.sums = 0 .. cycle.next - 1
  BY <1>1 DEF SaveChunkChecksum, FilesInv, Saving
<1>3. /\ cycle.batch.chunks[cycle.next].checksum = Checksum(cycle.snaps)
      /\ DOMAIN cycle.batch.chunks = 0 .. n - 1
  BY <1>1, <1>2, AtSave
<1> DEFINE new == Put(disk.sums, cycle.next, Checksum(cycle.snaps))
<1>4. disk' = [disk EXCEPT !.sums = new]
  BY <1>3 DEF SaveChunkChecksum
<1>5. /\ DOMAIN new = 0 .. cycle.next
      /\ \A i \in 0 .. cycle.next : new[i] = Checksum(cycle.snaps)
  <2>1. (0 .. cycle.next - 1) \cup {cycle.next} = 0 .. cycle.next
    BY <1>2
  <2>2. \A i \in 0 .. cycle.next - 1 : disk.sums[i] = Checksum(cycle.snaps)
    BY <1>2 DEF FilesInv, Files
  <2> QED
    BY <1>2, <2>1, <2>2 DEF Put
<1> HIDE DEF new
<1>6. disk' = [payload |-> disk.payload, data |-> disk.data, sums |-> new, state |-> disk.state]
  BY <1>4 DEF FilesInv, CycleTyped
<1>7. Files'
  BY <1>2, <1>5, <1>6 DEF FilesInv, Files
<1>8. CASE cycle.next + 1 \in 0 .. n - 1
  <2>1. cycle' = [cycle EXCEPT !.at = "data", !.next = @ + 1]
    BY <1>3, <1>8 DEF SaveChunkChecksum
  <2>2. /\ cycle'.at = "data" /\ cycle'.snaps = cycle.snaps /\ cycle'.batch = cycle.batch
        /\ cycle'.next = cycle.next + 1
    BY <2>1 DEF FilesInv, CycleTyped
  <2>3. CycleTyped'
    <3>1. cycle.next + 1 \in Nat
      BY <1>2
    <3> QED
      BY <2>1, <1>6, <3>1 DEF FilesInv, CycleTyped
  <2>4. (cycle.next + 1) - 1 = cycle.next
    BY <1>2
  <2>5. Saving'
    BY <1>1, <1>2, <1>5, <1>6, <1>8, <2>2, <2>4 DEF FilesInv, Saving
  <2> QED
    BY <1>7, <2>2, <2>3, <2>5 DEF FilesInv, Collecting
<1>9. CASE cycle.next + 1 \notin 0 .. n - 1
  <2>1. cycle' = [cycle EXCEPT !.at = "pending"]
    BY <1>3, <1>9 DEF SaveChunkChecksum
  <2>2. /\ cycle'.at = "pending" /\ cycle'.snaps = cycle.snaps /\ cycle'.batch = cycle.batch
        /\ cycle'.next = cycle.next
    BY <2>1 DEF FilesInv, CycleTyped
  <2>3. CycleTyped'
    BY <2>1, <1>6 DEF FilesInv, CycleTyped
  <2>4. cycle.next = n - 1
    BY <1>2, <1>9
  <2>5. Saving'
    BY <1>1, <1>2, <1>5, <1>6, <2>2, <2>4 DEF FilesInv, Saving
  <2> QED
    BY <1>7, <2>2, <2>3, <2>5 DEF FilesInv, Collecting
<1> QED
  BY <1>8, <1>9

LEMMA FilesSavePending == FilesInv /\ SavePending => FilesInv'
<1> SUFFICES ASSUME FilesInv, SavePending PROVE FilesInv'
  OBVIOUS
<1>1. PICK n \in Nat \ {0} : n = ChunksOf(cycle.snaps)
  BY AtSave DEF SavePending
<1>2. /\ cycle.at = "pending" /\ refused' = refused /\ disk.payload = cycle.snaps
      /\ DOMAIN disk.data = 0 .. n - 1 /\ DOMAIN disk.sums = 0 .. n - 1
      /\ cycle.snaps # <<>> /\ Got(cycle.snaps, DOMAIN Universe \ refused)
  BY <1>1 DEF SavePending, FilesInv, Saving
<1> DEFINE note == [status |-> "pending", checksum |-> Checksum(cycle.snaps), total |-> n]
<1>3. disk' = [disk EXCEPT !.state = note] /\ cycle' = [cycle EXCEPT !.at = "send"]
  BY <1>1, AtSave DEF SavePending
<1>4. note.checksum = Checksum(cycle.snaps) /\ note.total = n
  OBVIOUS
<1> HIDE DEF note
<1>5. disk' = [payload |-> disk.payload, data |-> disk.data, sums |-> disk.sums, state |-> note]
  BY <1>3 DEF FilesInv, CycleTyped
<1>6. cycle'.at = "send" /\ cycle'.snaps = cycle.snaps /\ cycle'.batch = cycle.batch
  BY <1>3 DEF FilesInv, CycleTyped
<1>7. CycleTyped'
  BY <1>3, <1>5 DEF FilesInv, CycleTyped
<1>8. Saving'
  BY <1>2, <1>5, <1>6 DEF FilesInv, Saving
<1>9. Files'
  <2>1. /\ \A i \in DOMAIN disk.data : disk.data[i] = Slice(cycle.snaps, i)
        /\ \A i \in DOMAIN disk.sums : disk.sums[i] = Checksum(cycle.snaps)
        /\ cycle.snaps \in Payloads
    BY <1>2 DEF FilesInv, Files, CycleTyped
  <2> QED
    BY <1>1, <1>2, <1>4, <1>5, <2>1 DEF Files
<1> QED
  BY <1>6, <1>7, <1>8, <1>9 DEF FilesInv, Collecting

(* The batch was handed over, or the worker died: the files stay.          *)
LEMMA FilesLeft ==
  FilesInv /\ cycle' = Idle /\ UNCHANGED <<disk, refused>> => FilesInv'
<1> SUFFICES ASSUME FilesInv, cycle' = Idle, UNCHANGED <<disk, refused>> PROVE FilesInv'
  OBVIOUS
<1>1. CycleTyped'
  BY DEF FilesInv, CycleTyped, Idle, Payloads
<1>2. Files'
  BY DEF FilesInv, Files
<1> QED
  BY <1>1, <1>2 DEF FilesInv, Collecting, Saving, Idle

LEMMA FilesStep == FilesInv /\ [Next]_vars => FilesInv'
<1>1. FilesInv /\ UNCHANGED <<cycle, disk, refused>> => FilesInv'
  BY DEF FilesInv, CycleTyped, Collecting, Saving, Files, Passed
<1>2. Live => UNCHANGED <<cycle, disk, refused>>
  BY DEF Live, CollectMarket, WriteLatest, WriterDies, ReadSnapshots, OpenDelta, FillDelta,
     OpenPrevious, FillPrevious, DifferDies
<1>3. HandOver \/ WorkerDies => cycle' = Idle /\ UNCHANGED <<disk, refused>>
  BY DEF HandOver, WorkerDies
<1> QED
  BY <1>1, <1>2, <1>3, FilesStart, FilesCollect, FilesRefuse, FilesExport, FilesSavePayload,
     FilesSaveData, FilesSaveChecksum, FilesSavePending, FilesLeft DEF Next, Cycle, vars

LEMMA FilesRebuild == FilesInv => PendingRebuilds
<1> SUFFICES ASSUME FilesInv PROVE PendingRebuilds
  OBVIOUS
<1>1. \A c \in StoredChunks : c.data = Slice(disk.payload, c.index)
  BY DEF FilesInv, Files, StoredChunks
<1>2. ASSUME disk.state # None
      PROVE  LET chunks == {[index |-> c.index, total |-> disk.state.total,
                             data |-> c.data, checksum |-> c.checksum] : c \in StoredChunks}
                 rebuilt == Reassemble(chunks)
                 answered == DOMAIN Universe \ refused
             IN /\ rebuilt = disk.payload
                /\ ValidExport(rebuilt, disk.state.checksum, Cardinality(answered))
                /\ {snap.symbol : snap \in Range(rebuilt)} = {Universe[i] : i \in answered}
  <2> DEFINE chunks == {[index |-> c.index, total |-> disk.state.total,
                         data |-> c.data, checksum |-> c.checksum] : c \in StoredChunks}
             n == ChunksOf(disk.payload)
             sum == Checksum(disk.payload)
  <2>1. /\ disk.payload \in Payloads /\ disk.payload # <<>>
        /\ DOMAIN disk.data = 0 .. n - 1 /\ DOMAIN disk.sums = 0 .. n - 1
        /\ disk.state.total = n /\ disk.state.checksum = sum
        /\ \A i \in 0 .. n - 1 : disk.data[i] = Slice(disk.payload, i) /\ disk.sums[i] = sum
        /\ Got(disk.payload, DOMAIN Universe \ refused)
    BY <1>2 DEF FilesInv, Files
  <2> HIDE DEF n, sum
  <2>2. StoredChunks =
          {[index |-> i, data |-> Slice(disk.payload, i), checksum |-> sum] : i \in 0 .. n - 1}
    BY <2>1 DEF StoredChunks
  <2>3. chunks = ChunksIn(disk.payload, n, sum)
    <3> DEFINE Of(c) == [index |-> c.index, total |-> n, data |-> c.data, checksum |-> c.checksum]
               Stored(i) == [index |-> i, data |-> Slice(disk.payload, i), checksum |-> sum]
               Sent(i) == [index |-> i, total |-> n, data |-> Slice(disk.payload, i),
                           checksum |-> sum]
    <3>1. \A i : Of(Stored(i)) = Sent(i)
      OBVIOUS
    <3>2. chunks = {Of(c) : c \in StoredChunks}
      BY <2>1
    <3>3. StoredChunks = {Stored(i) : i \in 0 .. n - 1}
      BY <2>2
    <3> HIDE DEF Of, Stored, chunks
    <3>4. chunks = {Sent(i) : i \in 0 .. n - 1}
      <4> HIDE DEF Sent
      <4> QED
        BY <3>1, <3>2, <3>3
    <3> QED
      BY <3>4 DEF ChunksIn
  <2> HIDE DEF chunks
  <2>4. Reassemble(chunks) = disk.payload
    <3>1. disk.payload \in Seq(QuoteSnapshots) /\ n = TotalChunks(Len(disk.payload))
      BY <2>1 DEF n, ChunksOf, Payloads
    <3> QED
      BY <2>1, <2>3, <3>1, RebuildsWhole
  <2>5. disk.payload # None
    BY <2>1, FilesAssumption
  <2> QED
    BY <2>1, <2>4, <2>5 DEF ValidExport, Got, chunks, sum
<1> QED
  BY <1>1, <1>2 DEF PendingRebuilds

(* services/sync/live: worker.py, collector.py, exporter.py, chunker.py and *)
(* storage.py, for any list of funds, answers, chunk size and deaths of the *)
(* worker: a stored chunk is a slice of the stored payload, and a batch     *)
(* noted as pending is rebuilt from its stored chunks into a payload with   *)
(* a snapshot for each fund that got its quote.                             *)
THEOREM PendingIsWhole == Spec => []PendingRebuilds
<1> QED
  BY FilesInit, FilesStep, FilesRebuild, PTL DEF Spec
=============================================================================
