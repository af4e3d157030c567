------------------------ MODULE RecordingWorkerProofs ------------------------
(***************************************************************************)
(* RecordingWorker is type correct, loses no flushed block and none that   *)
(* was accepted before an orderly stop, and plays the take as it is, for   *)
(* every size of the rings, every interval of flushes and every take.      *)
(***************************************************************************)
EXTENDS RecordingWorker, Integers, FiniteSetTheorems, SequenceTheorems, TLAPS

Working == {"loop", "append", "flush", "lastFlush"}

\* A file of n whole blocks, perhaps with a torn one behind them.
Shape(file, n) ==
    /\ n \in Nat
    /\ \A i \in 1 .. n : file[i] = i
    /\ Len(file) = n \/ (Len(file) = n + 1 /\ file[n + 1] = Torn)

\* The ring holds the newest blocks; the worker has taken those before them
\* and, while it works, written all but the one in its hands.
RingOK ==
    /\ Len(ring) <= pushed
    /\ caller = "admitted" => pushed < MaxBlocks
    /\ \A i \in 1 .. Len(ring) : ring[i] = pushed - Len(ring) + i
    /\ control # "dead" /\ ~workerFailed =>
         IF worker.step = "append"
         THEN Len(written) + 1 = pushed - Len(ring) /\ worker.block = Len(written) + 1
         ELSE Len(written) = pushed - Len(ring)

\* The steps of the worker and of the control thread that occur together, and
\* what a worker that leaves its loop has written.
StopOK ==
    /\ control = "dead" => worker.step = "none"
    /\ control = "created" => worker.step = "none"
    /\ control = "running" => worker.step # "none"
    /\ control = "closed" => worker.step \in {"none", "ended"}
    /\ workerFailed => worker.step \in {"none", "ended"}
    /\ control # "dead" => (stopRequested <=> control \in {"joining", "closed"})
    /\ worker.step = "none" /\ control # "dead" =>
         owed = 0 /\ ~workerFailed /\ written = <<>> /\ flushed = 0 /\ worker.since = 0
    /\ owed <= pushed
    /\ worker.step \in Working => flushed + worker.since = Len(written)
    /\ worker.step \in {"lastFlush", "ended"} /\ ~workerFailed =>
         stopRequested /\ owed <= Len(written)
    /\ worker.step = "ended" /\ ~workerFailed => flushed = Len(written)

\* What was flushed is whole in the file the writer made and in the one that
\* can be read; only a scan that holds tells where to cut.
FilesOK ==
    /\ Shape(written, Whole(written)) /\ flushed <= Whole(written)
    /\ worker.step \in Working => Whole(written) = Len(written)
    /\ ~AtRest => ~rotten /\ Whole(disk) <= Whole(written)
    /\ ~rotten => Shape(disk, Whole(disk)) /\ flushed <= Whole(disk)
    /\ ~rotten /\ scan.done /\ scan.invalidTail => scan.size = 2 * scan.blocks + 1

\* The blocks the player's scan had found are still there.
PlayerOK ==
    /\ player.heard \o player.ahead = [i \in 1 .. (player.next - 1) |-> i]
    /\ ~rotten =>
         /\ player.step \in {"scanned", "reading"} => player.scanned <= Whole(disk)
         /\ player.step = "reading" => 2 * player.scanned <= player.limit
         /\ player.step = "ended" => player.scanned < player.next

IInv == TypeOK /\ RingOK /\ StopOK /\ FilesOK /\ PlayerOK

-----------------------------------------------------------------------------
(* Files.                                                                  *)

LEMMA WholeIsNat == ASSUME NEW f, Len(f) \in Nat PROVE Whole(f) \in Nat
  <1> DEFINE S == {n \in 1 .. Len(f) : \A i \in 1 .. n : f[i] = i}
  <1>1. IsFiniteSet(1 .. Len(f))
    BY FS_Interval
  <1>2. IsFiniteSet(S)
    BY <1>1, FS_Subset
  <1> QED BY <1>2, FS_CardinalityType DEF Whole

\* What a shape says of a file is what a scan finds in it.
LEMMA ShapeIsWhole ==
  ASSUME NEW f \in Seq(Entry), NEW n, Shape(f, n)
  PROVE  /\ Whole(f) = n /\ Shape(f, Whole(f))
         /\ n <= Len(f) /\ Len(f) <= n + 1
         /\ SizeOf(f) = n + Len(f)
  <1>0. Len(f) \in Nat /\ n \in Nat /\ n <= Len(f) /\ Len(f) <= n + 1
    BY DEF Shape
  <1>t. Torn \notin Nat
    BY RecordingAssumption
  <1> DEFINE S == {k \in 1 .. Len(f) : \A i \in 1 .. k : f[i] = i}
  <1>1. S = 1 .. n
    <2>1. ASSUME NEW k \in 1 .. Len(f), \A i \in 1 .. k : f[i] = i PROVE k <= n
      <3> SUFFICES ASSUME k > n PROVE FALSE
        BY <1>0
      <3>1. Len(f) = n + 1 /\ f[n + 1] = Torn /\ f[n + 1] = n + 1
        BY <1>0, <2>1 DEF Shape
      <3> QED BY <3>1, <1>0, <1>t
    <2>2. ASSUME NEW k \in 1 .. n PROVE k \in S
      BY <1>0, <2>2 DEF Shape
    <2> QED BY <2>1, <2>2, <1>0
  <1>2. Cardinality(1 .. n) = n
    BY <1>0, FS_Interval
  <1>3. Whole(f) = n
    BY <1>1, <1>2 DEF Whole
  <1>4. SizeOf(f) = n + Len(f)
    <2>1. CASE Len(f) = n
      <3>1. f # <<>> => f[Len(f)] # Torn
        BY <2>1, <1>0, <1>t DEF Shape
      <3> QED BY <3>1, <2>1, <1>0 DEF SizeOf, Last
    <2>2. CASE Len(f) = n + 1 /\ f[n + 1] = Torn
      <3>1. f # <<>> /\ f[Len(f)] = Torn
        BY <2>2, <1>0
      <3> QED BY <3>1, <2>2, <1>0 DEF SizeOf, Last
    <2> QED BY <2>1, <2>2 DEF Shape
  <1> QED BY <1>0, <1>3, <1>4

\* What has left the buffer of a file in good shape is in good shape.
LEMMA ReadableHasShape ==
  ASSUME NEW f \in Seq(Entry), Shape(f, Whole(f)), NEW n \in 0 .. Len(f),
         NEW d \in Readable(f, n)
  PROVE  /\ d \in Seq(Entry) /\ Shape(d, Whole(d))
         /\ n <= Len(d) /\ Len(d) <= Whole(d) + 1
         /\ Whole(d) = (IF n <= Whole(f) THEN n ELSE Whole(f))
  <1> DEFINE w == Whole(f)  s == SubSeq(f, 1, n)
  <1>0. Len(f) \in Nat /\ w \in Nat /\ w <= Len(f) /\ Len(f) <= w + 1 /\ n \in Nat
    BY DEF Shape
  <1>1. /\ s \in Seq(Entry) /\ Len(s) = n
        /\ \A i \in 1 .. n : s[i] = f[i]
    <2>1. \A i \in 1 .. n : f[i] \in Entry
      BY <1>0
    <2>2. /\ s \in Seq(Entry)
          /\ Len(s) = IF 1 <= n THEN n - 1 + 1 ELSE 0
          /\ \A i \in 1 .. (n - 1 + 1) : s[i] = f[1 + i - 1]
      BY <2>1, <1>0, SubSeqProperties
    <2> QED BY <2>2, <1>0
  <1>2. CASE d = s /\ n <= w
    <2>1. Shape(d, n)
      BY <1>0, <1>1, <1>2 DEF Shape
    <2>2. d \in Seq(Entry) /\ Len(d) = n
      BY <1>1, <1>2
    <2>3. Whole(d) = n /\ Shape(d, Whole(d))
      BY <2>1, <2>2, ShapeIsWhole
    <2> QED BY <2>2, <2>3, <1>0, <1>2
  <1>3. CASE d = s /\ n > w
    <2>1. Shape(d, w)
      BY <1>0, <1>1, <1>3 DEF Shape
    <2>2. d \in Seq(Entry) /\ Len(d) = n
      BY <1>1, <1>3
    <2>3. Whole(d) = w /\ Shape(d, Whole(d))
      BY <2>1, <2>2, ShapeIsWhole
    <2> QED BY <2>2, <2>3, <1>0, <1>3
  <1>4. CASE d = Append(s, Torn) /\ n < Len(f)
    <2>1. /\ d \in Seq(Entry) /\ Len(d) = n + 1 /\ d[n + 1] = Torn
          /\ \A i \in 1 .. n : d[i] = f[i]
      BY <1>1, <1>4, AppendProperties DEF Entry
    <2>2. Shape(d, n)
      BY <2>1, <1>0, <1>4 DEF Shape
    <2>3. Whole(d) = n /\ Shape(d, Whole(d))
      BY <2>1, <2>2, ShapeIsWhole
    <2> QED BY <2>1, <2>3, <1>0, <1>4
  <1>5. d = s \/ (d = Append(s, Torn) /\ n < Len(f))
    BY DEF Readable
  <1> QED BY <1>2, <1>3, <1>4, <1>5, <1>0

LEMMA EmptyFile == <<>> \in Seq(Entry) /\ Shape(<<>>, 0) /\ Whole(<<>>) = 0
  <1>1. <<>> \in Seq(Entry) /\ Shape(<<>>, 0)
    BY DEF Shape
  <1> QED BY <1>1, ShapeIsWhole

-----------------------------------------------------------------------------
(* The inductive invariant.                                                *)

LEMMA InitInv == Init => IInv
  <1> SUFFICES ASSUME Init PROVE IInv
    OBVIOUS
  <1> USE RecordingAssumption DEF Init
  <1>0. ring \in Seq(Blocks) /\ Len(ring) = 0 /\ Len(written) = 0
    OBVIOUS
  <1>1. ThreadsTypeOK
    <2>1. accepting \in BOOLEAN /\ stopRequested \in BOOLEAN /\ workerFailed \in BOOLEAN
      OBVIOUS
    <2> QED BY <1>0, <2>1 DEF ThreadsTypeOK
  <1>2. FilesTypeOK
    BY EmptyFile DEF FilesTypeOK, NoScan
  <1>3. PlayerTypeOK
    BY DEF PlayerTypeOK, NoPlayer
  <1>4. RingOK
    <2>1. worker.step = "none" /\ pushed = 0 /\ caller = "idle"
      OBVIOUS
    <2> HIDE DEF Init
    <2> QED BY <1>0, <2>1 DEF RingOK
  <1>5. StopOK
    BY DEF StopOK, Working
  <1>6. FilesOK
    BY EmptyFile DEF FilesOK, AtRest, Working, NoScan
  <1>7. PlayerOK
    <2>1. player.heard \o player.ahead = <<>> /\ player.step = "none" /\ player.next = 1
      BY DEF NoPlayer
    <2> QED BY <2>1 DEF PlayerOK
  <1> QED BY <1>1, <1>2, <1>3, <1>4, <1>5, <1>6, <1>7 DEF IInv, TypeOK

\* Steps that leave the file and the player alone keep what is said of them.
LEMMA FileAndPlayerStay ==
  ASSUME IInv, UNCHANGED <<written, flushed, disk, scan, rotten, player>>,
         worker'.step \in Working => worker.step \in Working \/ written = <<>>,
         AtRest => AtRest'
  PROVE  FilesTypeOK' /\ PlayerTypeOK' /\ FilesOK' /\ PlayerOK'
  <1>1. FilesOK'
    <2>1. worker'.step \in Working => Whole(written) = Len(written)
      BY EmptyFile DEF IInv, FilesOK
    <2> QED BY <2>1 DEF IInv, FilesOK
  <1>2. PlayerOK'
    BY DEF IInv, PlayerOK
  <1>3. FilesTypeOK'
    BY DEF IInv, TypeOK, FilesTypeOK
  <1>4. PlayerTypeOK'
    BY DEF IInv, TypeOK, PlayerTypeOK
  <1> QED BY <1>1, <1>2, <1>3, <1>4

LEMMA AdmitInv == ASSUME IInv, Admit PROVE IInv'
  <1> USE DEF Admit
  <1>1. ThreadsTypeOK'
    BY DEF IInv, TypeOK, ThreadsTypeOK
  <1>2. RingOK' /\ StopOK'
    BY DEF IInv, RingOK, StopOK
  <1>3. FilesTypeOK' /\ PlayerTypeOK' /\ FilesOK' /\ PlayerOK'
    BY FileAndPlayerStay DEF AtRest
  <1> QED BY <1>1, <1>2, <1>3 DEF IInv, TypeOK

LEMMA PushInv == ASSUME IInv, Push PROVE IInv'
  <1> USE RecordingAssumption DEF Push
  <1>0. /\ ring \in Seq(Blocks) /\ pushed \in Nat /\ Len(ring) \in Nat
        /\ Len(ring) <= pushed /\ pushed < MaxBlocks
    BY DEF IInv, TypeOK, ThreadsTypeOK, RingOK
  <1>3. FilesTypeOK' /\ PlayerTypeOK' /\ FilesOK' /\ PlayerOK'
    BY FileAndPlayerStay DEF AtRest
  <1>4. CASE UNCHANGED <<pushed, ring>>
    <2>1. ThreadsTypeOK'
      BY <1>4 DEF IInv, TypeOK, ThreadsTypeOK
    <2>2. RingOK' /\ StopOK'
      BY <1>4 DEF IInv, RingOK, StopOK
    <2> QED BY <2>1, <2>2, <1>3 DEF IInv, TypeOK
  <1>5. CASE pushed' = pushed + 1 /\ ring' = Append(ring, pushed + 1) /\ Len(ring) < RingBlocks
    <2>0. pushed + 1 \in Blocks
      BY <1>0 DEF Blocks
    <2>1. /\ ring' \in Seq(Blocks) /\ Len(ring') = Len(ring) + 1
          /\ \A i \in 1 .. Len(ring) : ring'[i] = ring[i]
          /\ ring'[Len(ring) + 1] = pushed + 1
      BY <1>5, <1>0, <2>0, AppendProperties
    <2>2. ThreadsTypeOK'
      BY <1>5, <1>0, <2>0, <2>1 DEF IInv, TypeOK, ThreadsTypeOK, Blocks
    <2>3. RingOK'
      BY <1>5, <1>0, <2>1 DEF IInv, RingOK
    <2>4. owed \in Nat
      BY DEF IInv, TypeOK, ThreadsTypeOK
    <2>5. StopOK'
      BY <1>5, <1>0, <2>4 DEF IInv, StopOK
    <2> QED BY <2>2, <2>3, <2>5, <1>3 DEF IInv, TypeOK
  <1> QED BY <1>4, <1>5

LEMMA StartInv == ASSUME IInv, Start PROVE IInv'
  <1> USE DEF Start
  <1>0. worker \in [step : {"none", "loop", "append", "flush", "lastFlush", "ended"},
                    block : 0 .. MaxBlocks, since : Nat]
    BY DEF IInv, TypeOK, ThreadsTypeOK
  <1>1. ThreadsTypeOK'
    BY <1>0 DEF IInv, TypeOK, ThreadsTypeOK
  <1>2. worker.step = "none" /\ worker'.step = "loop"
    BY <1>0 DEF IInv, StopOK
  <1>3. RingOK'
    BY <1>2 DEF IInv, RingOK
  <1>4. flushed = 0 /\ worker.since = 0 /\ worker'.since = 0 /\ written = <<>>
    BY <1>0, <1>2 DEF IInv, StopOK
  <1>5. StopOK'
    BY <1>2, <1>4 DEF IInv, StopOK
  <1>6. FilesTypeOK' /\ PlayerTypeOK' /\ FilesOK' /\ PlayerOK'
    BY <1>4, FileAndPlayerStay DEF AtRest
  <1> QED BY <1>1, <1>3, <1>5, <1>6 DEF IInv, TypeOK

LEMMA RefuseMoreInv == ASSUME IInv, RefuseMore PROVE IInv'
  <1> USE DEF RefuseMore
  <1>1. ThreadsTypeOK'
    BY DEF IInv, TypeOK, ThreadsTypeOK
  <1>2. RingOK' /\ StopOK'
    BY DEF IInv, RingOK, StopOK
  <1>3. FilesTypeOK' /\ PlayerTypeOK' /\ FilesOK' /\ PlayerOK'
    BY FileAndPlayerStay DEF AtRest
  <1> QED BY <1>1, <1>2, <1>3 DEF IInv, TypeOK

LEMMA RequestStopInv == ASSUME IInv, RequestStop PROVE IInv'
  <1> USE DEF RequestStop
  <1>0. pushed \in Nat
    BY RecordingAssumption DEF IInv, TypeOK, ThreadsTypeOK
  <1>1. ThreadsTypeOK'
    BY <1>0 DEF IInv, TypeOK, ThreadsTypeOK
  <1>2. RingOK' /\ StopOK'
    BY <1>0 DEF IInv, RingOK, StopOK
  <1>3. FilesTypeOK' /\ PlayerTypeOK' /\ FilesOK' /\ PlayerOK'
    BY FileAndPlayerStay DEF AtRest
  <1> QED BY <1>1, <1>2, <1>3 DEF IInv, TypeOK

\* The file becomes one that the writer has left behind it: what was flushed
\* is in it, and it holds all that the old one held.
LEMMA FileGrows ==
  ASSUME IInv, ~AtRest, disk' \in Seq(Entry), Shape(disk', Whole(disk')),
         Whole(disk) <= Whole(disk'), Whole(disk') <= Whole(written),
         flushed <= Whole(disk'), UNCHANGED <<written, flushed, scan, rotten, player>>,
         worker'.step \in Working => worker.step \in Working
  PROVE  FilesTypeOK' /\ PlayerTypeOK' /\ FilesOK' /\ PlayerOK'
  <1>1. FilesOK'
    BY DEF IInv, FilesOK
  <1>2. Whole(disk) \in Nat /\ Whole(disk') \in Nat /\ player.scanned \in Nat
    BY WholeIsNat DEF IInv, TypeOK, FilesTypeOK, PlayerTypeOK
  <1>3. PlayerOK'
    <2>1. player' = player /\ rotten' = rotten
      OBVIOUS
    <2>2. player.scanned <= Whole(disk) => player.scanned <= Whole(disk')
      BY <1>2
    <2>3. PlayerOK
      BY DEF IInv
    <2> QED BY <2>1, <2>2, <2>3 DEF PlayerOK
  <1>4. FilesTypeOK' /\ PlayerTypeOK'
    BY DEF IInv, TypeOK, FilesTypeOK, PlayerTypeOK
  <1> QED BY <1>1, <1>3, <1>4

\* While the take is made, both files are in good shape.
LEMMA WritersFiles ==
  ASSUME IInv, ~AtRest
  PROVE  /\ written \in Seq(Entry) /\ Len(written) \in Nat /\ flushed \in Nat
         /\ Shape(written, Whole(written)) /\ Whole(written) \in Nat
         /\ Whole(written) <= Len(written) /\ Len(written) <= Whole(written) + 1
         /\ disk \in Seq(Entry) /\ Len(disk) \in Nat /\ Whole(disk) \in Nat
         /\ Whole(disk) <= Len(disk) /\ Whole(disk) <= Whole(written)
         /\ flushed <= Whole(written) /\ flushed <= Whole(disk) /\ ~rotten
  <1>1. /\ written \in Seq(Entry) /\ disk \in Seq(Entry) /\ flushed \in Nat
    BY DEF IInv, TypeOK, FilesTypeOK
  <1>2. /\ Shape(written, Whole(written)) /\ Shape(disk, Whole(disk)) /\ ~rotten
        /\ flushed <= Whole(written) /\ flushed <= Whole(disk) /\ Whole(disk) <= Whole(written)
    BY DEF IInv, FilesOK
  <1>3. Len(written) \in Nat /\ Len(disk) \in Nat
    BY <1>1
  <1>4. /\ Whole(written) <= Len(written) /\ Len(written) <= Whole(written) + 1
        /\ Whole(disk) <= Len(disk)
    BY <1>1, <1>2, ShapeIsWhole
  <1> QED BY <1>1, <1>2, <1>3, <1>4, WholeIsNat

LEMMA JoinInv == ASSUME IInv, Join PROVE IInv'
  <1> USE DEF Join
  <1>0. ~AtRest
    BY DEF AtRest
  <1>1. disk' \in Seq(Entry) /\ Shape(disk', Whole(disk'))
        /\ Whole(disk) <= Whole(disk') /\ Whole(disk') <= Whole(written)
        /\ flushed <= Whole(disk')
    <2>1. CASE disk' = written
      BY <1>0, <2>1, WritersFiles
    <2>2. CASE \E n \in flushed .. Len(written) :
                   Len(disk) <= n /\ disk' = SubSeq(written, 1, n)
      <3>1. PICK n \in flushed .. Len(written) :
                   Len(disk) <= n /\ disk' = SubSeq(written, 1, n)
        BY <2>2
      <3>2. disk' \in Readable(written, n) /\ n \in 0 .. Len(written)
        BY <3>1, <1>0, WritersFiles DEF Readable
      <3>3. /\ disk' \in Seq(Entry) /\ Shape(disk', Whole(disk'))
            /\ Whole(disk') = (IF n <= Whole(written) THEN n ELSE Whole(written))
        BY <3>2, <1>0, WritersFiles, ReadableHasShape
      <3> QED BY <3>1, <3>3, <1>0, WritersFiles
    <2> QED BY <2>1, <2>2
  <1>2. ThreadsTypeOK'
    BY DEF IInv, TypeOK, ThreadsTypeOK
  <1>3. RingOK' /\ StopOK'
    BY DEF IInv, RingOK, StopOK
  <1>4. UNCHANGED <<written, flushed, scan, rotten, player, worker>>
    OBVIOUS
  <1>5. FilesTypeOK' /\ PlayerTypeOK' /\ FilesOK' /\ PlayerOK'
    BY <1>0, <1>1, <1>4, FileGrows
  <1> QED BY <1>2, <1>3, <1>5 DEF IInv, TypeOK

-----------------------------------------------------------------------------
(* The worker.                                                             *)

\* What is known of a worker that works.
LEMMA AtWork ==
  ASSUME IInv, worker.step \in Working
  PROVE  /\ ~AtRest /\ control # "dead" /\ ~workerFailed
         /\ ring \in Seq(Blocks) /\ Len(ring) \in Nat /\ Len(ring) <= pushed
         /\ pushed \in 0 .. MaxBlocks /\ owed \in Nat /\ owed <= pushed
         /\ Whole(written) = Len(written) /\ flushed + worker.since = Len(written)
         /\ worker \in [step : {"none", "loop", "append", "flush", "lastFlush", "ended"},
                        block : 0 .. MaxBlocks, since : Nat]
         /\ IF worker.step = "append"
            THEN Len(written) + 1 = pushed - Len(ring) /\ worker.block = Len(written) + 1
            ELSE Len(written) = pushed - Len(ring)
  <1>1. /\ ring \in Seq(Blocks) /\ pushed \in 0 .. MaxBlocks /\ owed \in Nat
        /\ worker \in [step : {"none", "loop", "append", "flush", "lastFlush", "ended"},
                        block : 0 .. MaxBlocks, since : Nat]
    BY DEF IInv, TypeOK, ThreadsTypeOK
  <1>2. control # "dead" /\ control # "closed" /\ ~workerFailed
    BY <1>1 DEF IInv, StopOK, Working
  <1>3. flushed + worker.since = Len(written) /\ owed <= pushed
    BY DEF IInv, StopOK
  <1>4. Whole(written) = Len(written)
    BY DEF IInv, FilesOK
  <1> QED BY <1>1, <1>2, <1>3, <1>4 DEF IInv, RingOK, AtRest

LEMMA PopInv == ASSUME IInv, Pop PROVE IInv'
  <1> USE DEF Pop, WorkerOnly
  <1>0. worker.step \in Working
    BY DEF Working
  <1> DEFINE len == Len(ring)
  <1>1. /\ Head(ring) \in Blocks /\ ring' \in Seq(Blocks) /\ Len(ring') = len - 1 /\ len > 0
        /\ \A i \in 1 .. (len - 1) : ring'[i] = ring[i + 1]
        /\ Head(ring) = ring[1]
    BY <1>0, AtWork, HeadTailProperties
  <1>2. worker'.step = "append" /\ worker'.block = Head(ring) /\ worker'.since = worker.since
    BY <1>0, AtWork
  <1>3. Head(ring) \in 0 .. MaxBlocks
    BY <1>1 DEF Blocks
  <1>4. ThreadsTypeOK'
    <2>1. worker' \in [step : {"none", "loop", "append", "flush", "lastFlush", "ended"},
                       block : 0 .. MaxBlocks, since : Nat]
      BY <1>0, <1>3, AtWork
    <2>2. len <= RingBlocks /\ RingBlocks \in Nat /\ len \in Nat
      BY RecordingAssumption DEF IInv, TypeOK, ThreadsTypeOK
    <2>3. Len(ring') <= RingBlocks
      BY <1>1, <2>2
    <2> QED BY <2>1, <2>3, <1>1 DEF IInv, TypeOK, ThreadsTypeOK
  <1>5. RingOK'
    <2>0. /\ len \in Nat /\ pushed \in Nat /\ Len(written) \in Nat /\ len <= pushed
          /\ Len(written) = pushed - len
      BY <1>0, AtWork, RecordingAssumption DEF IInv, TypeOK, FilesTypeOK
    <2>1. \A i \in 1 .. len : ring[i] = pushed - len + i
      BY DEF IInv, RingOK
    <2>2. \A i \in 1 .. Len(ring') : ring'[i] = pushed - Len(ring') + i
      <3> SUFFICES ASSUME NEW i \in 1 .. Len(ring') PROVE ring'[i] = pushed - Len(ring') + i
        OBVIOUS
      <3>1. ring'[i] = ring[i + 1] /\ i + 1 \in 1 .. len
        BY <1>1, <2>0
      <3>2. ring[i + 1] = pushed - len + (i + 1)
        BY <2>1, <3>1
      <3> HIDE DEF Pop
      <3> QED BY <3>1, <3>2, <2>0, <1>1
    <2>3. Head(ring) = Len(written) + 1 /\ Len(written) + 1 = pushed - Len(ring')
      BY <2>0, <2>1, <1>1
    <2>4. Len(ring') <= pushed /\ (caller = "admitted" => pushed < MaxBlocks)
      BY <2>0, <1>1 DEF IInv, RingOK
    <2> QED BY <2>2, <2>3, <2>4, <1>2 DEF RingOK
  <1>6. StopOK'
    BY <1>2 DEF IInv, StopOK, Working
  <1>7. FilesTypeOK' /\ PlayerTypeOK' /\ FilesOK' /\ PlayerOK'
    BY <1>0, FileAndPlayerStay DEF AtRest
  <1> QED BY <1>4, <1>5, <1>6, <1>7 DEF IInv, TypeOK

\* A worker that leaves its loop has written all that was pushed.
LEMMA LeaveInv == ASSUME IInv, Leave PROVE IInv'
  <1> USE DEF Leave, WorkerOnly, MayLeave
  <1>0. worker.step \in Working /\ worker.step = "loop" /\ stopRequested /\ Len(ring) = 0
    BY DEF Working
  <1>1. /\ worker'.since = worker.since /\ worker'.block = worker.block
        /\ worker'.step = IF worker.since > 0 THEN "lastFlush" ELSE "ended"
    BY <1>0, AtWork
  <1>2. ThreadsTypeOK'
    <2>1. worker' \in [step : {"none", "loop", "append", "flush", "lastFlush", "ended"},
                       block : 0 .. MaxBlocks, since : Nat]
      BY <1>0, AtWork
    <2> QED BY <2>1 DEF IInv, TypeOK, ThreadsTypeOK
  <1>3. RingOK'
    BY <1>0, <1>1, AtWork DEF IInv, RingOK
  <1>4. owed <= Len(written)
    BY <1>0, AtWork
  <1>5. flushed \in Nat /\ Len(written) \in Nat /\ worker.since \in Nat
    BY <1>0, AtWork DEF IInv, TypeOK, FilesTypeOK
  <1>6. worker.since = 0 => flushed = Len(written)
    BY <1>0, <1>5, AtWork
  <1>7. control \notin {"dead", "created"} /\ ~workerFailed
    BY <1>0, AtWork DEF IInv, StopOK, Working
  <1>8. StopOK'
    BY <1>0, <1>1, <1>4, <1>5, <1>6, <1>7 DEF IInv, StopOK, Working
  <1>9. FilesTypeOK' /\ PlayerTypeOK' /\ FilesOK' /\ PlayerOK'
    BY <1>0, FileAndPlayerStay DEF AtRest
  <1> QED BY <1>2, <1>3, <1>8, <1>9 DEF IInv, TypeOK

\* The file the writer makes, whatever became of the take.
LEMMA WrittenFile ==
  ASSUME IInv
  PROVE  /\ written \in Seq(Entry) /\ Len(written) \in Nat /\ flushed \in Nat
         /\ Shape(written, Whole(written)) /\ Whole(written) \in Nat
         /\ Whole(written) <= Len(written) /\ Len(written) <= Whole(written) + 1
         /\ flushed <= Whole(written)
  <1>1. written \in Seq(Entry) /\ flushed \in Nat /\ Len(written) \in Nat
    BY DEF IInv, TypeOK, FilesTypeOK
  <1>2. Shape(written, Whole(written)) /\ flushed <= Whole(written)
    BY DEF IInv, FilesOK
  <1> QED BY <1>1, <1>2, ShapeIsWhole, WholeIsNat

LEMMA WriteBlockInv == ASSUME IInv, WriteBlock PROVE IInv'
  <1> USE DEF WriteBlock, WorkerOnly
  <1>0. worker.step \in Working /\ worker.step = "append"
    BY DEF Working
  <1> DEFINE len == Len(written)
  <1>1. /\ len \in Nat /\ worker.block = len + 1 /\ len + 1 = pushed - Len(ring)
        /\ len + 1 \in Blocks /\ Whole(written) = len
    BY <1>0, AtWork, WrittenFile, RecordingAssumption DEF Blocks
  <1>2. /\ written' \in Seq(Entry) /\ Len(written') = len + 1
        /\ \A i \in 1 .. len : written'[i] = written[i]
        /\ written'[len + 1] = len + 1
    BY <1>1, WrittenFile, AppendProperties DEF Entry
  <1>3. Shape(written', len + 1)
    BY <1>1, <1>2, WrittenFile DEF Shape
  <1>4. Whole(written') = len + 1 /\ Shape(written', Whole(written'))
    BY <1>2, <1>3, ShapeIsWhole
  <1>5. /\ worker'.step \in {"flush", "loop"} /\ worker'.since = worker.since + 1
        /\ worker.since \in Nat
        /\ worker' \in [step : {"none", "loop", "append", "flush", "lastFlush", "ended"},
                        block : 0 .. MaxBlocks, since : Nat]
    <2>1. worker \in [step : {"none", "loop", "append", "flush", "lastFlush", "ended"},
                      block : 0 .. MaxBlocks, since : Nat]
      BY <1>0, AtWork
    <2>2. worker.since \in Nat /\ worker.since + 1 \in Nat
      BY <2>1
    <2> QED BY <2>1, <2>2
  <1>6. ThreadsTypeOK'
    BY <1>5 DEF IInv, TypeOK, ThreadsTypeOK
  <1>7. FilesTypeOK' /\ PlayerTypeOK'
    BY <1>2 DEF IInv, TypeOK, FilesTypeOK, PlayerTypeOK
  <1>8. RingOK'
    <2>1. RingOK
      BY DEF IInv
    <2> QED BY <2>1, <1>1, <1>2, <1>5 DEF RingOK
  <1>9. StopOK'
    <2>0. flushed \in Nat /\ flushed + worker.since = len
      BY <1>0, AtWork, WrittenFile
    <2>1. flushed + worker'.since = Len(written')
      <3> HIDE DEF WriteBlock
      <3> QED BY <2>0, <1>1, <1>2, <1>5
    <2>2. ~workerFailed /\ control # "dead" /\ control # "closed" /\ control # "created"
      BY <1>0, AtWork DEF IInv, StopOK, AtRest
    <2> QED BY <2>1, <2>2, <1>5 DEF IInv, StopOK
  <1>10. FilesOK'
    <2>1. ~AtRest /\ ~AtRest'
      BY <1>0, AtWork DEF AtRest
    <2>2. Whole(disk) <= len + 1 /\ flushed <= len + 1
      BY <2>1, <1>1, WritersFiles
    <2> QED BY <2>1, <2>2, <1>2, <1>4 DEF IInv, FilesOK
  <1>11. PlayerOK'
    BY DEF IInv, PlayerOK
  <1> QED BY <1>6, <1>7, <1>8, <1>9, <1>10, <1>11 DEF IInv, TypeOK

LEMMA FailToWriteInv == ASSUME IInv, FailToWrite PROVE IInv'
  <1> USE DEF FailToWrite, WorkerOnly, Fail
  <1>0. worker.step \in Working
    BY DEF Working
  <1> DEFINE len == Len(written)
  <1>1. len \in Nat /\ Whole(written) = len
    BY <1>0, AtWork, WrittenFile
  <1>2. /\ written' \in Seq(Entry) /\ len <= Len(written')
        /\ Whole(written') = len /\ Shape(written', Whole(written'))
    <2>1. CASE written' = written
      BY <2>1, <1>1, WrittenFile
    <2>2. CASE written' = Append(written, Torn)
      <3>1. /\ written' \in Seq(Entry) /\ Len(written') = len + 1
            /\ \A i \in 1 .. len : written'[i] = written[i]
            /\ written'[len + 1] = Torn
        BY <2>2, WrittenFile, AppendProperties DEF Entry
      <3>2. Shape(written', len)
        BY <1>1, <3>1, WrittenFile DEF Shape
      <3> QED BY <3>1, <3>2, <1>1, ShapeIsWhole
    <2> QED BY <2>1, <2>2
  <1>3. /\ worker'.step = "ended"
        /\ worker' \in [step : {"none", "loop", "append", "flush", "lastFlush", "ended"},
                        block : 0 .. MaxBlocks, since : Nat]
    BY <1>0, AtWork
  <1>4. ThreadsTypeOK'
    BY <1>3 DEF IInv, TypeOK, ThreadsTypeOK
  <1>5. FilesTypeOK' /\ PlayerTypeOK'
    BY <1>2 DEF IInv, TypeOK, FilesTypeOK, PlayerTypeOK
  <1>6. RingOK'
    BY DEF IInv, RingOK
  <1>7. StopOK'
    <2>1. control # "dead" /\ control # "created" /\ workerFailed'
      BY <1>0, AtWork DEF IInv, StopOK, Working
    <2> QED BY <2>1, <1>3 DEF IInv, StopOK, Working
  <1>8. FilesOK'
    <2>1. ~AtRest /\ ~AtRest'
      BY <1>0, AtWork DEF AtRest
    <2>2. Whole(disk) <= len /\ flushed <= len
      BY <2>1, <1>1, WritersFiles
    <2> QED BY <2>1, <2>2, <1>2, <1>3 DEF IInv, FilesOK, Working
  <1>9. PlayerOK'
    BY DEF IInv, PlayerOK
  <1> QED BY <1>4, <1>5, <1>6, <1>7, <1>8, <1>9 DEF IInv, TypeOK

LEMMA FlushInv == ASSUME IInv, Flush PROVE IInv'
  <1> USE DEF Flush, WorkerOnly
  <1>0. worker.step \in Working /\ worker.step # "append"
    BY DEF Working
  <1>1. /\ worker'.step = (IF worker.step = "flush" THEN "loop" ELSE "ended") /\ worker'.since = 0
        /\ worker' \in [step : {"none", "loop", "append", "flush", "lastFlush", "ended"},
                        block : 0 .. MaxBlocks, since : Nat]
    BY <1>0, AtWork
  <1>2. ThreadsTypeOK'
    BY <1>1 DEF IInv, TypeOK, ThreadsTypeOK
  <1>3. FilesTypeOK' /\ PlayerTypeOK'
    BY WrittenFile DEF IInv, TypeOK, FilesTypeOK, PlayerTypeOK
  <1>4. RingOK'
    BY <1>0, <1>1 DEF IInv, RingOK
  <1>5. StopOK'
    <2>1. control # "dead" /\ control # "created" /\ ~workerFailed /\ Len(written) \in Nat
      BY <1>0, AtWork, WrittenFile DEF IInv, StopOK, Working
    <2>2. worker'.step \in Working => flushed' + worker'.since = Len(written)
      BY <2>1, <1>1
    <2> QED BY <2>1, <2>2, <1>1 DEF IInv, StopOK, Working
  <1>6. Whole(written) = Len(written) /\ ~AtRest /\ ~AtRest'
    BY <1>0, AtWork DEF AtRest
  <1>7. FilesOK'
    BY <1>6, WrittenFile DEF IInv, FilesOK
  <1>8. PlayerOK'
    <2>1. player' = player /\ rotten' = rotten
      OBVIOUS
    <2>2. Whole(disk) <= Whole(disk') /\ Whole(disk) \in Nat /\ Whole(disk') \in Nat
      BY <1>6, WritersFiles
    <2>3. player.scanned <= Whole(disk) => player.scanned <= Whole(disk')
      BY <2>2 DEF IInv, TypeOK, PlayerTypeOK
    <2>4. PlayerOK
      BY DEF IInv
    <2> QED BY <2>1, <2>3, <2>4 DEF PlayerOK
  <1> QED BY <1>2, <1>3, <1>4, <1>5, <1>7, <1>8 DEF IInv, TypeOK

LEMMA FailToFlushInv == ASSUME IInv, FailToFlush PROVE IInv'
  <1> USE DEF FailToFlush, WorkerOnly, Fail
  <1>0. worker.step \in Working
    BY DEF Working
  <1>1. /\ worker'.step = "ended"
        /\ worker' \in [step : {"none", "loop", "append", "flush", "lastFlush", "ended"},
                        block : 0 .. MaxBlocks, since : Nat]
    BY <1>0, AtWork
  <1>2. ThreadsTypeOK'
    BY <1>1 DEF IInv, TypeOK, ThreadsTypeOK
  <1>3. RingOK'
    BY DEF IInv, RingOK
  <1>4. StopOK'
    <2>1. control # "dead" /\ control # "created" /\ workerFailed'
      BY <1>0, AtWork DEF IInv, StopOK, Working
    <2> QED BY <2>1, <1>1 DEF IInv, StopOK, Working
  <1>5. FilesTypeOK' /\ PlayerTypeOK' /\ FilesOK' /\ PlayerOK'
    BY <1>0, FileAndPlayerStay DEF AtRest
  <1> QED BY <1>2, <1>3, <1>4, <1>5 DEF IInv, TypeOK

-----------------------------------------------------------------------------
(* The file: written back, cut by a crash, damaged, scanned, repaired.     *)

LEMMA SpillInv == ASSUME IInv, Spill PROVE IInv'
  <1> USE DEF Spill, recording
  <1>0. ~AtRest
    BY DEF AtRest
  <1>1. PICK n \in flushed .. Len(written) :
               \E d \in Readable(written, n) : Len(d) > Len(disk) /\ disk' = d
    OBVIOUS
  <1>2. disk' \in Readable(written, n) /\ Len(disk') > Len(disk) /\ n \in 0 .. Len(written)
    BY <1>0, <1>1, WritersFiles
  <1>3. /\ disk' \in Seq(Entry) /\ Shape(disk', Whole(disk'))
        /\ Len(disk') <= Whole(disk') + 1
        /\ Whole(disk') = (IF n <= Whole(written) THEN n ELSE Whole(written))
    BY <1>2, <1>0, WritersFiles, ReadableHasShape
  <1>4. Len(disk') \in Nat /\ Whole(disk') \in Nat
    BY <1>3, WholeIsNat
  <1>5. Whole(disk) <= Whole(disk') /\ Whole(disk') <= Whole(written) /\ flushed <= Whole(disk')
    <2>1. /\ Whole(disk) \in Nat /\ Len(disk) \in Nat /\ Whole(disk) <= Len(disk)
          /\ Whole(written) \in Nat /\ flushed \in Nat /\ flushed <= Whole(written)
      BY <1>0, WritersFiles
    <2> HIDE DEF Spill
    <2> QED BY <2>1, <1>1, <1>2, <1>3, <1>4
  <1>6. UNCHANGED <<written, flushed, scan, rotten, player, worker>>
    OBVIOUS
  <1>7. FilesTypeOK' /\ PlayerTypeOK' /\ FilesOK' /\ PlayerOK'
    BY <1>0, <1>3, <1>5, <1>6, FileGrows
  <1>8. ThreadsTypeOK' /\ RingOK' /\ StopOK'
    BY DEF IInv, TypeOK, ThreadsTypeOK, RingOK, StopOK
  <1> QED BY <1>7, <1>8 DEF IInv, TypeOK

\* What was flushed is in whatever part of the file a crash leaves.
LEMMA CrashInv == ASSUME IInv, Crash PROVE IInv'
  <1> USE RecordingAssumption DEF Crash
  <1>1. PICK n \in flushed .. Len(written) : disk' \in Readable(written, n)
    OBVIOUS
  <1>2. n \in 0 .. Len(written)
    BY <1>1, WrittenFile
  <1>3. /\ disk' \in Seq(Entry) /\ Shape(disk', Whole(disk'))
        /\ Whole(disk') = (IF n <= Whole(written) THEN n ELSE Whole(written))
    BY <1>1, <1>2, WrittenFile, ReadableHasShape
  <1>4. flushed <= Whole(disk')
    BY <1>1, <1>3, WrittenFile
  <1>5. worker' \in [step : {"none", "loop", "append", "flush", "lastFlush", "ended"},
                     block : 0 .. MaxBlocks, since : Nat]
        /\ worker'.step = "none"
    BY DEF IInv, TypeOK, ThreadsTypeOK
  <1>6. ring' \in Seq(Blocks) /\ Len(ring') = 0
    OBVIOUS
  <1>7. ThreadsTypeOK'
    <2>1. Len(ring') <= RingBlocks
      BY <1>6
    <2> QED BY <1>5, <1>6, <2>1 DEF IInv, TypeOK, ThreadsTypeOK
  <1>8. FilesTypeOK'
    BY <1>3 DEF IInv, TypeOK, FilesTypeOK
  <1>9. PlayerTypeOK'
    BY DEF PlayerTypeOK, NoPlayer
  <1>10. RingOK'
    <2>1. pushed' \in Nat /\ control' = "dead" /\ caller' = "idle"
      BY DEF IInv, TypeOK, ThreadsTypeOK
    <2> QED BY <2>1, <1>6 DEF RingOK
  <1>11. StopOK'
    BY <1>5 DEF IInv, StopOK, Working
  <1>12. FilesOK'
    <2>1. AtRest'
      BY DEF AtRest
    <2> QED BY <2>1, <1>3, <1>4, <1>5 DEF IInv, FilesOK, Working
  <1>13. PlayerOK'
    <2>1. player'.heard \o player'.ahead = <<>> /\ player'.step = "none" /\ player'.next = 1
      BY DEF NoPlayer
    <2> QED BY <2>1 DEF PlayerOK
  <1> QED BY <1>7, <1>8, <1>9, <1>10, <1>11, <1>12, <1>13 DEF IInv, TypeOK

\* Steps at the file and at the player leave the take's threads alone.
LEMMA ThreadsStay ==
  ASSUME IInv, UNCHANGED recording
  PROVE  ThreadsTypeOK' /\ RingOK' /\ StopOK'
  <1>1. ThreadsTypeOK'
    BY DEF IInv, TypeOK, ThreadsTypeOK, recording
  <1>2. RingOK' /\ StopOK'
    BY DEF IInv, RingOK, StopOK, recording
  <1> QED BY <1>1, <1>2

LEMMA RotInv == ASSUME IInv, Rot PROVE IInv'
  <1> USE DEF Rot
  <1>1. disk' \in Seq(Entry)
    <2>1. PICK i \in DOMAIN disk : disk' = [disk EXCEPT ![i] = Rotten]
      OBVIOUS
    <2>2. disk \in Seq(Entry) /\ Rotten \in Entry
      BY DEF IInv, TypeOK, FilesTypeOK, Entry
    <2> QED BY <2>1, <2>2
  <1>2. FilesTypeOK' /\ PlayerTypeOK'
    BY <1>1 DEF IInv, TypeOK, FilesTypeOK, PlayerTypeOK, recording
  <1>3. FilesOK'
    BY DEF IInv, FilesOK, recording, AtRest
  <1>4. PlayerOK'
    BY DEF IInv, PlayerOK
  <1> QED BY <1>2, <1>3, <1>4, ThreadsStay DEF IInv, TypeOK

LEMMA SizeIsNat == ASSUME NEW f \in Seq(Entry) PROVE SizeOf(f) \in Nat
  <1>1. Len(f) \in Nat /\ (f # <<>> => Len(f) > 0)
    OBVIOUS
  <1> QED BY <1>1 DEF SizeOf

LEMMA ScanInv == ASSUME IInv, Scan PROVE IInv'
  <1> USE DEF Scan
  <1>1. disk \in Seq(Entry) /\ Len(disk) \in Nat
    BY DEF IInv, TypeOK, FilesTypeOK
  <1>2. Whole(disk) \in Nat /\ SizeOf(disk) \in Nat
    BY <1>1, WholeIsNat, SizeIsNat
  <1>3. FilesTypeOK' /\ PlayerTypeOK'
    BY <1>2 DEF IInv, TypeOK, FilesTypeOK, PlayerTypeOK, recording
  <1>4. ~rotten /\ Whole(disk) < Len(disk) => SizeOf(disk) = 2 * Whole(disk) + 1
    <2>1. ~rotten => Shape(disk, Whole(disk))
      BY DEF IInv, FilesOK
    <2>2. ~rotten => Len(disk) <= Whole(disk) + 1 /\ SizeOf(disk) = Whole(disk) + Len(disk)
      BY <2>1, <1>1, ShapeIsWhole
    <2> QED BY <2>2, <1>1, <1>2
  <1>5. FilesOK'
    BY <1>4 DEF IInv, FilesOK, recording, AtRest
  <1>6. PlayerOK'
    BY DEF IInv, PlayerOK
  <1> QED BY <1>3, <1>5, <1>6, ThreadsStay DEF IInv, TypeOK

\* A file of the size that was scanned has as many whole blocks as the scan
\* found: the repair cuts off its torn entry and nothing else.
LEMMA RepairInv == ASSUME IInv, Repair PROVE IInv'
  <1> USE DEF Repair
  <1> DEFINE b == scan.blocks
  <1>1. disk \in Seq(Entry) /\ Len(disk) \in Nat /\ b \in Nat /\ scan.size \in Nat
    BY DEF IInv, TypeOK, FilesTypeOK
  <1>2. Whole(disk) \in Nat
    BY <1>1, WholeIsNat
  <1>3. /\ disk' \in Seq(Entry) /\ Len(disk') = b
        /\ \A i \in 1 .. b : i \in 1 .. Len(disk) => disk'[i] = disk[i]
    <2>1. Torn \in Entry
      BY DEF Entry
    <2> QED BY <2>1, <1>1
  <1>4. ASSUME ~rotten
        PROVE  Whole(disk) = b /\ Shape(disk', Whole(disk')) /\ Whole(disk') = b
    <2>1. Shape(disk, Whole(disk))
      BY <1>4 DEF IInv, FilesOK
    <2>2. /\ Whole(disk) <= Len(disk) /\ Len(disk) <= Whole(disk) + 1
          /\ SizeOf(disk) = Whole(disk) + Len(disk)
      BY <2>1, <1>1, ShapeIsWhole
    <2>3. SizeOf(disk) = 2 * b + 1
      BY <1>4 DEF IInv, FilesOK, ScanHolds
    <2>4. Whole(disk) = b
      <3> HIDE DEF Repair, b
      <3> QED BY <2>2, <2>3, <1>1, <1>2
    <2>5. \A i \in 1 .. b : disk'[i] = i
      BY <2>1, <2>2, <2>4, <1>1, <1>3 DEF Shape
    <2>6. Shape(disk', b)
      BY <2>5, <1>1, <1>3 DEF Shape
    <2> QED BY <2>4, <2>6, <1>3, ShapeIsWhole
  <1>5. FilesTypeOK' /\ PlayerTypeOK'
    BY <1>3 DEF IInv, TypeOK, FilesTypeOK, PlayerTypeOK, recording
  <1>6. FilesOK'
    BY <1>4 DEF IInv, FilesOK, recording, AtRest
  <1>7. PlayerOK'
    <2>1. player' = player /\ rotten' = rotten /\ PlayerOK
      BY DEF IInv
    <2>2. ~rotten => Whole(disk') = Whole(disk)
      BY <1>4
    <2> QED BY <2>1, <2>2 DEF PlayerOK
  <1> QED BY <1>5, <1>6, <1>7, ThreadsStay DEF IInv, TypeOK

-----------------------------------------------------------------------------
(* Sequences: what is published goes behind, what is played comes before.  *)

UpTo(n) == [i \in 1 .. n |-> i]

LEMMA UpToProperties ==
  ASSUME NEW n \in Nat
  PROVE  UpTo(n) \in Seq(Nat) /\ Len(UpTo(n)) = n /\ \A i \in 1 .. n : UpTo(n)[i] = i
  BY DEF UpTo

LEMMA AppendNext ==
  ASSUME NEW h \in Seq(Nat), NEW a \in Seq(Nat), NEW k \in Nat \ {0},
         h \o a = UpTo(k - 1)
  PROVE  h \o Append(a, k) = UpTo(k)
  <1>1. Len(h) \in Nat /\ Len(a) \in Nat
    OBVIOUS
  <1>2. /\ Append(a, k) \in Seq(Nat) /\ Len(Append(a, k)) = Len(a) + 1
        /\ Append(a, k)[Len(a) + 1] = k
        /\ \A i \in 1 .. Len(a) : Append(a, k)[i] = a[i]
    BY AppendProperties
  <1>3. /\ h \o a \in Seq(Nat) /\ Len(h \o a) = Len(h) + Len(a)
        /\ \A i \in 1 .. Len(h) + Len(a) :
                (h \o a)[i] = IF i <= Len(h) THEN h[i] ELSE a[i - Len(h)]
    BY ConcatProperties
  <1>4. /\ h \o Append(a, k) \in Seq(Nat)
        /\ Len(h \o Append(a, k)) = Len(h) + (Len(a) + 1)
        /\ \A i \in 1 .. Len(h) + (Len(a) + 1) :
                (h \o Append(a, k))[i] = IF i <= Len(h) THEN h[i] ELSE Append(a, k)[i - Len(h)]
    BY <1>2, ConcatProperties
  <1>5. k = Len(h) + Len(a) + 1 /\ \A i \in 1 .. Len(h) + Len(a) : (h \o a)[i] = i
    <2>1. k - 1 \in Nat
      OBVIOUS
    <2>2. Len(h \o a) = k - 1 /\ \A i \in 1 .. k - 1 : (h \o a)[i] = i
      BY <2>1, UpToProperties
    <2>3. Len(h) + Len(a) = k - 1
      BY ONLY <2>2, <1>3
    <2>4. k = Len(h) + Len(a) + 1
      BY ONLY <2>3, <1>1, k \in Nat
    <2> QED BY ONLY <2>2, <2>3, <2>4
  <1>6. ASSUME NEW i \in 1 .. Len(h) + (Len(a) + 1) PROVE (h \o Append(a, k))[i] = i
    <2>0. i \in Nat /\ i > 0
      BY ONLY <1>6, <1>1
    <2>1. CASE i <= Len(h)
      <3>1. i \in 1 .. Len(h) + Len(a)
        BY ONLY <2>0, <2>1, <1>1
      <3> QED BY ONLY <3>1, <2>1, <1>6, <1>3, <1>4, <1>5
    <2>2. CASE i > Len(h) /\ i <= Len(h) + Len(a)
      <3>1. /\ i \in 1 .. Len(h) + Len(a) /\ i - Len(h) \in 1 .. Len(a)
            /\ ~(i <= Len(h))
        BY ONLY <2>0, <2>2, <1>1
      <3>2. (h \o Append(a, k))[i] = Append(a, k)[i - Len(h)]
        BY ONLY <3>1, <1>6, <1>4
      <3>3. Append(a, k)[i - Len(h)] = a[i - Len(h)]
        BY ONLY <3>1, <1>2
      <3>4. (h \o a)[i] = a[i - Len(h)] /\ (h \o a)[i] = i
        BY ONLY <3>1, <1>3, <1>5
      <3> QED BY ONLY <3>2, <3>3, <3>4
    <2>3. CASE i = Len(h) + Len(a) + 1
      <3>1. i - Len(h) = Len(a) + 1 /\ ~(i <= Len(h)) /\ i = k
        BY ONLY <2>3, <1>1, <1>5
      <3>2. (h \o Append(a, k))[i] = Append(a, k)[Len(a) + 1]
        BY ONLY <3>1, <1>6, <1>4
      <3> QED BY ONLY <3>1, <3>2, <1>2
    <2> QED BY ONLY <1>6, <2>0, <2>1, <2>2, <2>3, <1>1
  <1>7. UpTo(k) \in Seq(Nat) /\ Len(UpTo(k)) = k /\ \A i \in 1 .. k : UpTo(k)[i] = i
    BY UpToProperties
  <1>8. Len(h) + (Len(a) + 1) = k
    BY ONLY <1>1, <1>5
  <1>9. Len(h \o Append(a, k)) = k /\ \A i \in 1 .. k : (h \o Append(a, k))[i] = UpTo(k)[i]
    BY ONLY <1>4, <1>6, <1>7, <1>8
  <1> QED BY ONLY <1>4, <1>7, <1>9, SeqEqual

LEMMA MoveHead ==
  ASSUME NEW h \in Seq(Nat), NEW a \in Seq(Nat), a # <<>>
  PROVE  /\ Append(h, Head(a)) \in Seq(Nat) /\ Tail(a) \in Seq(Nat)
         /\ Append(h, Head(a)) \o Tail(a) = h \o a
  <1> DEFINE g == Append(h, Head(a))  b == Tail(a)
  <1>1. Len(h) \in Nat /\ Len(a) \in Nat \ {0}
    OBVIOUS
  <1>2. /\ Head(a) \in Nat /\ Head(a) = a[1]
        /\ b \in Seq(Nat) /\ Len(b) = Len(a) - 1
        /\ \A i \in 1 .. Len(a) - 1 : b[i] = a[i + 1]
    BY HeadTailProperties
  <1>3. /\ g \in Seq(Nat) /\ Len(g) = Len(h) + 1 /\ g[Len(g)] = a[1]
        /\ \A i \in 1 .. Len(h) : g[i] = h[i]
    BY <1>2, AppendProperties
  <1>4. /\ h \o a \in Seq(Nat) /\ Len(h \o a) = Len(h) + Len(a)
        /\ \A i \in 1 .. Len(h) + Len(a) :
                (h \o a)[i] = IF i <= Len(h) THEN h[i] ELSE a[i - Len(h)]
    BY ConcatProperties
  <1> HIDE DEF g, b
  <1>5. /\ g \o b \in Seq(Nat) /\ Len(g \o b) = Len(g) + Len(b)
        /\ \A i \in 1 .. Len(g) + Len(b) :
                (g \o b)[i] = IF i <= Len(g) THEN g[i] ELSE b[i - Len(g)]
    BY ONLY <1>2, <1>3, ConcatProperties
  <1>6. \A i \in 1 .. Len(b) : b[i] = a[i + 1]
    BY <1>2
  <1>7. /\ Len(g) + Len(b) = Len(h) + Len(a)
        /\ \A i \in 1 .. Len(h) + Len(a) : (g \o b)[i] = (h \o a)[i]
    <2>1. Len(g) + Len(b) = Len(h) + Len(a)
      BY ONLY <1>1, <1>2, <1>3
    <2>2. ASSUME NEW i \in 1 .. Len(h) + Len(a) PROVE (g \o b)[i] = (h \o a)[i]
      <3>1. i \in 1 .. Len(g) + Len(b) /\ i \in Nat /\ i > 0
        BY ONLY <2>1, <2>2, <1>1
      <3>2. CASE i <= Len(h)
        <4>1. i \in 1 .. Len(h) /\ i <= Len(g)
          BY ONLY <3>1, <3>2, <1>1, <1>3
        <4> QED BY ONLY <4>1, <3>1, <3>2, <2>2, <1>3, <1>4, <1>5
      <3>3. CASE i = Len(g)
        <4>1. i - Len(h) = 1 /\ ~(i <= Len(h)) /\ i <= Len(g)
          BY ONLY <3>1, <3>3, <1>1, <1>3
        <4>2. (g \o b)[i] = g[Len(g)]
          BY ONLY <4>1, <3>1, <3>3, <1>5
        <4>3. (h \o a)[i] = a[1]
          BY ONLY <4>1, <2>2, <1>4
        <4> QED BY ONLY <4>2, <4>3, <1>3
      <3>4. CASE i > Len(g)
        <4>1. /\ i - Len(g) \in 1 .. Len(b) /\ (i - Len(g)) + 1 = i - Len(h)
              /\ ~(i <= Len(h)) /\ ~(i <= Len(g))
          BY ONLY <3>1, <3>4, <1>1, <1>2, <1>3
        <4>2. (g \o b)[i] = b[i - Len(g)]
          BY ONLY <4>1, <3>1, <1>5
        <4>3. (h \o a)[i] = a[i - Len(h)]
          BY ONLY <4>1, <2>2, <1>4
        <4>4. b[i - Len(g)] = a[(i - Len(g)) + 1]
          BY ONLY <4>1, <1>6
        <4> QED BY ONLY <4>1, <4>2, <4>3, <4>4
      <3> QED BY ONLY <3>1, <3>2, <3>3, <3>4, <1>1, <1>3
    <2> QED BY ONLY <2>1, <2>2
  <1>8. Len(g \o b) = Len(h \o a)
    BY ONLY <1>4, <1>5, <1>7
  <1>9. \A i \in 1 .. Len(g \o b) : (g \o b)[i] = (h \o a)[i]
    BY ONLY <1>4, <1>7, <1>8
  <1>10. g \o b = h \o a
    BY ONLY <1>4, <1>5, <1>8, <1>9, SeqEqual
  <1> QED BY <1>2, <1>3, <1>10 DEF g, b

-----------------------------------------------------------------------------
(* The player.                                                             *)

\* Steps of the player need only keep what is said of it.
LEMMA FilesStay ==
  ASSUME IInv, PlayerOnly
  PROVE  ThreadsTypeOK' /\ RingOK' /\ StopOK' /\ FilesTypeOK' /\ FilesOK'
  <1> USE DEF PlayerOnly
  <1>1. FilesTypeOK' /\ FilesOK'
    BY DEF IInv, TypeOK, FilesTypeOK, FilesOK, recording, AtRest
  <1> QED BY <1>1, ThreadsStay

LEMMA PlayerIsTyped ==
  ASSUME IInv
  PROVE  /\ player \in [step : {"none", "scanned", "reading", "ended", "failed", "stopped"},
                        scanned : Nat, limit : Nat, next : Nat \ {0},
                        ahead : Seq(Nat), heard : Seq(Nat)]
         /\ Whole(disk) \in Nat /\ disk \in Seq(Entry)
         /\ ~rotten => Shape(disk, Whole(disk)) /\ SizeOf(disk) >= 2 * Whole(disk)
  <1>1. disk \in Seq(Entry) /\ Len(disk) \in Nat
    BY DEF IInv, TypeOK, FilesTypeOK
  <1>2. Whole(disk) \in Nat
    BY <1>1, WholeIsNat
  <1>3. ~rotten => Shape(disk, Whole(disk))
    BY DEF IInv, FilesOK
  <1>4. ~rotten => Whole(disk) <= Len(disk) /\ SizeOf(disk) = Whole(disk) + Len(disk)
    BY <1>1, <1>3, ShapeIsWhole
  <1>5. ~rotten => SizeOf(disk) >= 2 * Whole(disk)
    BY <1>1, <1>2, <1>4
  <1> QED BY <1>1, <1>2, <1>3, <1>5 DEF IInv, TypeOK, PlayerTypeOK

LEMMA ScanForPlayerInv == ASSUME IInv, ScanForPlayer PROVE IInv'
  <1> USE DEF ScanForPlayer, NoPlayer
  <1>1. PlayerTypeOK'
    <2>1. player' = [step |-> "scanned", scanned |-> Whole(disk), limit |-> 0, next |-> 1,
                     ahead |-> <<>>, heard |-> <<>>]
      OBVIOUS
    <2>2. Whole(disk) \in Nat /\ <<>> \in Seq(Nat)
      BY PlayerIsTyped
    <2> HIDE DEF ScanForPlayer
    <2> QED BY <2>1, <2>2 DEF PlayerTypeOK
  <1>2. PlayerOK'
    <2>1. /\ player'.heard \o player'.ahead = <<>> /\ player'.next = 1
          /\ player'.step = "scanned" /\ player'.scanned = Whole(disk)
      OBVIOUS
    <2>2. disk' = disk /\ Whole(disk) \in Nat
      BY PlayerIsTyped DEF PlayerOnly
    <2> QED BY <2>1, <2>2 DEF PlayerOK
  <1> QED BY <1>1, <1>2, FilesStay DEF IInv, TypeOK

LEMMA OpenReaderInv == ASSUME IInv, OpenReader PROVE IInv'
  <1> USE DEF OpenReader
  <1>1. /\ player'.step = "reading" /\ player'.limit = SizeOf(disk)
        /\ player'.scanned = player.scanned /\ player'.next = player.next
        /\ player'.ahead = player.ahead /\ player'.heard = player.heard
    BY PlayerIsTyped
  <1>2. PlayerTypeOK'
    BY PlayerIsTyped, SizeIsNat DEF PlayerTypeOK
  <1>3. PlayerOK'
    <2>1. disk' = disk /\ rotten' = rotten
      BY DEF PlayerOnly
    <2>2. ~rotten => player.scanned <= Whole(disk)
      BY DEF IInv, PlayerOK
    <2>3. ~rotten => 2 * player.scanned <= SizeOf(disk)
      BY <2>2, PlayerIsTyped, SizeIsNat
    <2>4. player.heard \o player.ahead = [i \in 1 .. (player.next - 1) |-> i]
      BY DEF IInv, PlayerOK
    <2> HIDE DEF OpenReader
    <2> QED BY <2>1, <2>2, <2>3, <2>4, <1>1 DEF PlayerOK
  <1> QED BY <1>2, <1>3, FilesStay DEF IInv, TypeOK

\* The block that is read is the one that follows those read before.
LEMMA ReadBlockInv == ASSUME IInv, ReadBlock PROVE IInv'
  <1> USE DEF ReadBlock, AfterBlock
  <1> DEFINE k == player.next  a == player.ahead  h == player.heard
  <1>0. k \in Nat \ {0} /\ a \in Seq(Nat) /\ h \in Seq(Nat)
    BY PlayerIsTyped
  <1>1. /\ player'.step = player.step /\ player'.scanned = player.scanned
        /\ player'.limit = player.limit /\ player'.next = k + 1
        /\ player'.ahead = Append(a, k) /\ player'.heard = h
    BY PlayerIsTyped
  <1>2. PlayerTypeOK'
    <2>1. Append(a, k) \in Seq(Nat) /\ k + 1 \in Nat \ {0}
      BY <1>0, AppendProperties
    <2>2. player' = [player EXCEPT !.ahead = Append(a, k), !.next = k + 1]
      OBVIOUS
    <2> HIDE DEF ReadBlock, AfterBlock
    <2> QED BY <2>1, <2>2, PlayerIsTyped DEF PlayerTypeOK
  <1>3. h \o Append(a, k) = UpTo(k)
    <2>1. h \o a = UpTo(k - 1)
      BY DEF IInv, PlayerOK, UpTo
    <2> HIDE DEF k, a, h, ReadBlock, AfterBlock
    <2> QED BY <2>1, <1>0, AppendNext
  <1>4. PlayerOK'
    <2>1. disk' = disk /\ rotten' = rotten
      BY DEF PlayerOnly
    <2>2. PlayerOK /\ player.step = "reading"
      BY DEF IInv
    <2>3. player'.heard \o player'.ahead = [i \in 1 .. (player'.next - 1) |-> i]
      <3>1. player'.next - 1 = k
        BY <1>0, <1>1
      <3> QED BY <3>1, <1>1, <1>3 DEF UpTo
    <2> HIDE DEF ReadBlock
    <2> QED BY <2>1, <2>2, <2>3, <1>1 DEF PlayerOK
  <1> QED BY <1>2, <1>4, FilesStay DEF IInv, TypeOK

\* A player that hands out what it had and reads nothing.
LEMMA PlayerStays ==
  ASSUME IInv, PlayerOnly, PlayerTypeOK',
         player'.heard \o player'.ahead = player.heard \o player.ahead,
         player'.next = player.next, player'.scanned = player.scanned,
         player'.limit = player.limit,
         \/ player'.step = player.step
         \/ player'.step \in {"failed", "stopped"}
         \/ player'.step = "ended" /\ (~rotten => player.scanned < player.next)
  PROVE  IInv'
  <1>1. disk' = disk /\ rotten' = rotten /\ PlayerOK
    BY DEF IInv, PlayerOnly
  <1>2. PlayerOK'
    BY <1>1 DEF PlayerOK
  <1> QED BY <1>2, FilesStay DEF IInv, TypeOK

\* What a player ends at is no block of those its scan had found.
LEMMA ReachEndInv == ASSUME IInv, ReachEnd PROVE IInv'
  <1> USE DEF ReachEnd
  <1>1. PlayerTypeOK'
    BY PlayerIsTyped DEF PlayerTypeOK
  <1>2. /\ player'.step = "ended" /\ player'.next = player.next
        /\ player'.scanned = player.scanned /\ player'.limit = player.limit
        /\ player'.ahead = player.ahead /\ player'.heard = player.heard
    BY PlayerIsTyped
  <1>3. ASSUME ~rotten PROVE player.scanned < player.next
    <2>1. /\ player.scanned <= Whole(disk) /\ 2 * player.scanned <= player.limit
      BY <1>3 DEF IInv, PlayerOK
    <2>2. /\ player.scanned \in Nat /\ player.next \in Nat \ {0} /\ player.limit \in Nat
          /\ Whole(disk) \in Nat /\ Len(disk) \in Nat /\ DOMAIN disk = 1 .. Len(disk)
      BY PlayerIsTyped
    <2>3. Whole(disk) <= Len(disk) /\ \A i \in 1 .. Whole(disk) : disk[i] = i
      BY <1>3, <2>2, PlayerIsTyped, ShapeIsWhole DEF Shape
    <2>4. SUFFICES ASSUME player.next <= player.scanned PROVE NextIsWhole
      BY <2>2
    <2>5. player.next \in 1 .. Whole(disk) /\ player.next \in DOMAIN disk
      BY <2>1, <2>2, <2>3, <2>4
    <2>6. 2 * player.next <= player.limit
      BY <2>1, <2>2, <2>4
    <2> QED BY <2>3, <2>5, <2>6 DEF NextIsWhole
  <1> QED BY <1>1, <1>2, <1>3, PlayerStays

LEMMA FailToReadInv == ASSUME IInv, FailToRead PROVE IInv'
  <1> USE DEF FailToRead
  <1>1. PlayerTypeOK'
    BY PlayerIsTyped DEF PlayerTypeOK
  <1>2. /\ player'.step = "failed" /\ player'.next = player.next
        /\ player'.scanned = player.scanned /\ player'.limit = player.limit
        /\ player'.ahead = player.ahead /\ player'.heard = player.heard
    BY PlayerIsTyped
  <1> QED BY <1>1, <1>2, PlayerStays

LEMMA StopPlayerInv == ASSUME IInv, StopPlayer PROVE IInv'
  <1> USE DEF StopPlayer
  <1>1. PlayerTypeOK'
    BY PlayerIsTyped DEF PlayerTypeOK
  <1>2. /\ player'.step = "stopped" /\ player'.next = player.next
        /\ player'.scanned = player.scanned /\ player'.limit = player.limit
        /\ player'.ahead = player.ahead /\ player'.heard = player.heard
    BY PlayerIsTyped
  <1> QED BY <1>1, <1>2, PlayerStays

LEMMA DequeueInv == ASSUME IInv, Dequeue PROVE IInv'
  <1> USE DEF Dequeue
  <1> DEFINE a == player.ahead  h == player.heard
  <1>0. a \in Seq(Nat) /\ h \in Seq(Nat) /\ a # <<>>
    BY PlayerIsTyped
  <1>1. /\ Tail(a) \in Seq(Nat) /\ Append(h, Head(a)) \in Seq(Nat)
        /\ Append(h, Head(a)) \o Tail(a) = h \o a
    BY <1>0, MoveHead
  <1>2. /\ player'.step = player.step /\ player'.next = player.next
        /\ player'.scanned = player.scanned /\ player'.limit = player.limit
        /\ player'.ahead = Tail(a) /\ player'.heard = Append(h, Head(a))
    BY PlayerIsTyped
  <1>3. PlayerTypeOK'
    <2>1. player' = [player EXCEPT !.ahead = Tail(a), !.heard = Append(h, Head(a))]
      OBVIOUS
    <2> HIDE DEF Dequeue
    <2> QED BY <2>1, <1>1, PlayerIsTyped DEF PlayerTypeOK
  <1> QED BY <1>1, <1>2, <1>3, PlayerStays

-----------------------------------------------------------------------------
(* Every step.                                                             *)

LEMMA NextInv == ASSUME IInv, [Next]_vars PROVE IInv'
  <1>1. CASE Admit \/ Push
    BY <1>1, AdmitInv, PushInv
  <1>2. CASE Start \/ RefuseMore \/ RequestStop \/ Join
    BY <1>2, StartInv, RefuseMoreInv, RequestStopInv, JoinInv
  <1>3. CASE WorkerStep
    BY <1>3, PopInv, LeaveInv, WriteBlockInv, FailToWriteInv, FlushInv, FailToFlushInv
       DEF WorkerStep
  <1>4. CASE Spill \/ Crash \/ Rot
    BY <1>4, SpillInv, CrashInv, RotInv
  <1>5. CASE Scan \/ Repair
    BY <1>5, ScanInv, RepairInv
  <1>6. CASE ScanForPlayer \/ OpenReader \/ PlayerStep \/ Dequeue \/ StopPlayer
    BY <1>6, ScanForPlayerInv, OpenReaderInv, ReadBlockInv, ReachEndInv, FailToReadInv,
       DequeueInv, StopPlayerInv DEF PlayerStep
  <1>7. CASE UNCHANGED vars
    <2>1. UNCHANGED recording /\ PlayerOnly
      BY <1>7 DEF vars, PlayerOnly
    <2>2. player' = player
      BY <1>7 DEF vars
    <2>3. PlayerTypeOK' /\ PlayerOK'
      BY <2>1, <2>2 DEF IInv, TypeOK, PlayerTypeOK, PlayerOK, PlayerOnly
    <2> QED BY <2>1, <2>3, FilesStay DEF IInv, TypeOK
  <1> QED BY <1>1, <1>2, <1>3, <1>4, <1>5, <1>6, <1>7 DEF Next

LEMMA Invariant == Spec => []IInv
  <1>1. Init => IInv
    BY InitInv
  <1>2. IInv /\ [Next]_vars => IInv'
    BY NextInv
  <1> QED BY <1>1, <1>2, PTL DEF Spec

\* The variables of the recorder, its file and its player keep their types.
THEOREM TypeCorrect == Spec => []TypeOK
  <1>1. IInv => TypeOK
    BY DEF IInv
  <1> QED BY <1>1, Invariant, PTL

\* What a successful flush was told survives every crash, failed write, stop
\* and repair, for every interval of flushes: it can be read, in order and
\* without a gap, unless the medium itself was damaged.
THEOREM FlushedBlocksSurvive == Spec => []FlushedSurvives
  <1>1. IInv => FlushedSurvives
    <2> SUFFICES ASSUME IInv, ~rotten PROVE Whole(disk) >= flushed
      BY DEF FlushedSurvives
    <2>1. flushed <= Whole(disk)
      BY DEF IInv, FilesOK
    <2>2. flushed \in Nat /\ Whole(disk) \in Nat
      BY WrittenFile, PlayerIsTyped
    <2> QED BY <2>1, <2>2
  <1> QED BY <1>1, Invariant, PTL

\* When stop() of a started recorder returns and no failure is reported, every
\* block that tryEnqueue had accepted before the stop has been flushed.
THEOREM StopWritesAll == Spec => []StopWritesAccepted
  <1>1. IInv => StopWritesAccepted
    <2> SUFFICES ASSUME IInv, control = "closed", ~workerFailed PROVE owed <= flushed
      BY DEF StopWritesAccepted
    <2>1. CASE worker.step = "none"
      <3>1. owed = 0
        BY <2>1 DEF IInv, StopOK
      <3> QED BY <3>1, WrittenFile
    <2>2. CASE worker.step = "ended"
      BY <2>2 DEF IInv, StopOK
    <2> QED BY <2>1, <2>2 DEF IInv, StopOK
  <1> QED BY <1>1, Invariant, PTL

\* A player hands out the take from its beginning, each block once and in
\* order, and ends at no block its scan had found, while the take grows, is
\* cut by a crash or is repaired under it.
THEOREM PlaybackFaithful == Spec => []PlaybackIsFaithful
  <1>1. IInv => PlaybackIsFaithful
    BY DEF IInv, PlayerOK, PlaybackIsFaithful
  <1> QED BY <1>1, Invariant, PTL
=============================================================================
