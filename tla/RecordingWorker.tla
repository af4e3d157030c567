-------------------------- MODULE RecordingWorker --------------------------
(***************************************************************************)
(* One take: the audio callback hands blocks to RecordingDiskWorker, whose *)
(* thread appends them to a recoverable file; the control thread starts    *)
(* and stops it; the process may die at any step.  The file is scanned and *)
(* repaired, and RecordingReadAhead plays it, also while it still grows.   *)
(*                                                                         *)
(* A block is known by its place in the take.  The writer's file is what   *)
(* it has appended; the part beyond the stdio buffer is on the disk, and   *)
(* the part that was flushed stays there.  Rings are sequences, on the     *)
(* strength of SpscRing.                                                   *)
(***************************************************************************)
EXTENDS Naturals, FiniteSets, Sequences, SequencesExt

CONSTANTS
    RingBlocks,    \* queueBlockCapacity, of either ring
    FlushEvery,    \* durableFlushEveryBlocks
    Wide,          \* blocks with more frames than the player's slots hold
    Torn,          \* an entry of which a part was written
    Rotten,        \* an entry that does not match its checksum
    MaxBlocks      \* bound: blocks of a take

ASSUME RecordingAssumption ==
    /\ RingBlocks \in Nat \ {0} /\ FlushEvery \in Nat \ {0}
    /\ MaxBlocks \in Nat /\ Wide \subseteq 1 .. MaxBlocks
    /\ Torn \notin Nat /\ Rotten \notin Nat /\ Torn # Rotten

VARIABLES
    ring,        \* blocks on their way to the disk
    pushed,      \* blocks pushed so far: the number of the newest one
    caller,      \* tryEnqueue: idle, or admitted before its push
    accepting, stopRequested, workerFailed,
    control,     \* created, running, stopping, joining, closed; dead
    worker,      \* the worker's step, its block, blocks since the last flush
    written,     \* the file as the writer appended it
    disk,        \* the file as it can be read
    flushed,     \* blocks of a flush that returned success
    owed,        \* history: blocks pushed when stop was requested
    scan,        \* a scan's result, kept for a later repair
    rotten,      \* a block was damaged at rest
    player       \* RecordingReadAhead

recording == <<ring, pushed, caller, accepting, stopRequested, workerFailed,
               control, worker, written, flushed, owed>>
vars == <<recording, disk, scan, rotten, player>>

Blocks == 1 .. MaxBlocks

NoScan == [done |-> FALSE, blocks |-> 0, size |-> 0, invalidTail |-> FALSE]
NoPlayer == [step |-> "none", scanned |-> 0, limit |-> 0, next |-> 1,
             ahead |-> <<>>, heard |-> <<>>]

Init ==
    /\ ring = <<>> /\ pushed = 0 /\ caller = "idle"
    /\ accepting = TRUE /\ stopRequested = FALSE /\ workerFailed = FALSE
    /\ control = "created"
    /\ worker = [step |-> "none", block |-> 0, since |-> 0]
    /\ written = <<>> /\ disk = <<>> /\ flushed = 0 /\ owed = 0
    /\ scan = NoScan /\ rotten = FALSE
    /\ player = NoPlayer

Alive == control # "dead"

-----------------------------------------------------------------------------
(* The audio callback: tryEnqueue.                                         *)

\* It looks at accepting before it pushes: stop may come in between.
Admit ==
    /\ Alive /\ caller = "idle" /\ accepting /\ pushed < MaxBlocks
    /\ caller' = "admitted"
    /\ UNCHANGED <<ring, pushed, accepting, stopRequested, workerFailed, control,
                   worker, written, flushed, owed, disk, scan, rotten, player>>

\* A full ring rejects the block; the callback goes on with its next one.
Push ==
    /\ Alive /\ caller = "admitted"
    /\ caller' = "idle"
    /\ IF Len(ring) < RingBlocks
       THEN pushed' = pushed + 1 /\ ring' = Append(ring, pushed + 1)
       ELSE UNCHANGED <<pushed, ring>>
    /\ UNCHANGED <<accepting, stopRequested, workerFailed, control, worker,
                   written, flushed, owed, disk, scan, rotten, player>>

-----------------------------------------------------------------------------
(* The control thread.                                                     *)

\* The thread may fail to start, which changes nothing.
Start ==
    /\ control = "created" /\ control' = "running"
    /\ worker' = [worker EXCEPT !.step = "loop"]
    /\ UNCHANGED <<ring, pushed, caller, accepting, stopRequested, workerFailed,
                   written, flushed, owed, disk, scan, rotten, player>>

\* accepting is cleared before the request is set.
RefuseMore ==
    /\ control \in {"created", "running"} /\ control' = "stopping"
    /\ accepting' = FALSE
    /\ UNCHANGED <<ring, pushed, caller, stopRequested, workerFailed,
                   worker, written, flushed, owed, disk, scan, rotten, player>>

\* Mutant of RequestStop: the thread is joined, but not told.
RequestStopSilently ==
    /\ control = "stopping" /\ control' = "joining"
    /\ owed' = IF worker.step = "none" THEN 0 ELSE pushed
    /\ UNCHANGED <<ring, pushed, caller, accepting, stopRequested, workerFailed,
                   worker, written, flushed, disk, scan, rotten, player>>

\* A worker that was never started owes nothing.
RequestStop ==
    /\ control = "stopping" /\ control' = "joining"
    /\ stopRequested' = TRUE
    /\ owed' = IF worker.step = "none" THEN 0 ELSE pushed
    /\ UNCHANGED <<ring, pushed, caller, accepting, workerFailed, worker,
                   written, flushed, disk, scan, rotten, player>>

\* fclose writes what stdio still holds; if that fails, nobody hears of it.
Join ==
    /\ control = "joining" /\ worker.step \in {"none", "ended"}
    /\ control' = "closed"
    /\ \/ disk' = written
       \/ /\ flushed < Len(written)
          /\ \E n \in flushed .. Len(written) :
                 Len(disk) <= n /\ disk' = SubSeq(written, 1, n)
    /\ UNCHANGED <<ring, pushed, caller, accepting, stopRequested, workerFailed,
                   worker, written, flushed, owed, scan, rotten, player>>

-----------------------------------------------------------------------------
(* The worker thread: RecordingDiskWorker::Impl::run.                      *)

WorkerOnly == UNCHANGED <<pushed, caller, stopRequested, control, owed, scan,
                          rotten, player>>

\* Mutant of MayLeave: blocks left in the ring are forgotten.
MayLeaveAtOnce == stopRequested

\* The condition of the loop.
MayLeave == stopRequested /\ ring = <<>>

Pop ==
    /\ worker.step = "loop" /\ ring # <<>> /\ ~MayLeave
    /\ worker' = [worker EXCEPT !.step = "append", !.block = Head(ring)]
    /\ ring' = Tail(ring)
    /\ UNCHANGED <<accepting, workerFailed, written, flushed, disk>> /\ WorkerOnly

Leave ==
    /\ worker.step = "loop" /\ MayLeave
    /\ worker' = [worker EXCEPT !.step = IF worker.since > 0 THEN "lastFlush"
                                         ELSE "ended"]
    /\ UNCHANGED <<ring, accepting, workerFailed, written, flushed, disk>> /\ WorkerOnly

WriteBlock ==
    /\ worker.step = "append"
    /\ written' = Append(written, worker.block)
    /\ worker' = [worker EXCEPT
           !.step = IF worker.since + 1 >= FlushEvery THEN "flush" ELSE "loop",
           !.since = @ + 1]
    /\ UNCHANGED <<ring, accepting, workerFailed, flushed, disk>> /\ WorkerOnly

\* A worker that fails takes no more blocks and ends.
Fail ==
    /\ workerFailed' = TRUE /\ accepting' = FALSE
    /\ worker' = [worker EXCEPT !.step = "ended"]

\* The write of header or payload fails, perhaps half-way.
FailToWrite ==
    /\ worker.step = "append"
    /\ written' \in {written, Append(written, Torn)}
    /\ Fail
    /\ UNCHANGED <<ring, flushed, disk>> /\ WorkerOnly

Flush ==
    /\ worker.step \in {"flush", "lastFlush"}
    /\ flushed' = Len(written) /\ disk' = written
    /\ worker' = [worker EXCEPT
           !.step = IF worker.step = "flush" THEN "loop" ELSE "ended",
           !.since = 0]
    /\ UNCHANGED <<ring, accepting, workerFailed, written>> /\ WorkerOnly

\* The last flush leaves accepting alone: stop has cleared it.
FailToFlush ==
    /\ worker.step \in {"flush", "lastFlush"}
    /\ Fail
    /\ UNCHANGED <<ring, written, flushed, disk>> /\ WorkerOnly

WorkerStep == Pop \/ Leave \/ WriteBlock \/ FailToWrite \/ Flush \/ FailToFlush

-----------------------------------------------------------------------------
(* The file.                                                               *)

\* What can be read of a file whose first n entries have left the buffer;
\* of the next one, some bytes may have too.
Readable(file, n) ==
    {SubSeq(file, 1, n)}
        \cup (IF n < Len(file) THEN {Append(SubSeq(file, 1, n), Torn)} ELSE {})

\* stdio's buffer is full, or the system writes back.
Spill ==
    /\ control \in {"running", "stopping", "joining"}
    /\ \E n \in flushed .. Len(written) :
           \E d \in Readable(written, n) : Len(d) > Len(disk) /\ disk' = d
    /\ UNCHANGED <<recording, scan, rotten, player>>

\* The process is killed, or the power fails.
Crash ==
    /\ Alive /\ control' = "dead"
    /\ \E n \in flushed .. Len(written) : disk' \in Readable(written, n)
    /\ ring' = <<>> /\ caller' = "idle" /\ player' = NoPlayer
    /\ worker' = [worker EXCEPT !.step = "none"]
    /\ UNCHANGED <<pushed, accepting, stopRequested, workerFailed, written,
                   flushed, owed, scan, rotten>>

AtRest == control \in {"closed", "dead"}

\* One block of a finished take is damaged.
Rot ==
    /\ AtRest /\ ~rotten /\ rotten' = TRUE
    /\ \E i \in DOMAIN disk : disk' = [disk EXCEPT ![i] = Rotten]
    /\ UNCHANGED <<recording, scan, player>>

\* scanRecording accepts whole blocks as long as each carries its number.
Whole(file) == Cardinality({n \in 1 .. Len(file) : \A i \in 1 .. n : file[i] = i})

\* Sizes count half blocks; a torn one has any size between.
SizeOf(file) ==
    IF file # <<>> /\ Last(file) = Torn THEN 2 * Len(file) - 1 ELSE 2 * Len(file)

Scan ==
    /\ scan' = [done |-> TRUE, blocks |-> Whole(disk), size |-> SizeOf(disk),
                invalidTail |-> Whole(disk) < Len(disk)]
    /\ UNCHANGED <<recording, disk, rotten, player>>

\* Mutant of ScanHolds: the file is cut where an old scan says.
ScanHoldsAlways == scan.invalidTail

\* repairRecordingTail refuses a file that has another size than was scanned.
ScanHolds == SizeOf(disk) = scan.size /\ scan.invalidTail

\* Callers repair finished takes.  A resize beyond the end would fill up.
Repair ==
    /\ AtRest /\ scan.done /\ ScanHolds
    /\ disk' = [i \in 1 .. scan.blocks |-> IF i \in DOMAIN disk THEN disk[i] ELSE Torn]
    /\ UNCHANGED <<recording, scan, rotten, player>>

-----------------------------------------------------------------------------
(* RecordingReadAhead.                                                     *)

PlayerOnly == UNCHANGED <<recording, disk, scan, rotten>>

\* create() scans, and refuses blocks that are too large for its slots ...
ScanForPlayer ==
    /\ player.step = "none"
    /\ 1 .. Whole(disk) \cap Wide = {}
    /\ player' = [NoPlayer EXCEPT !.step = "scanned", !.scanned = Whole(disk)]
    /\ PlayerOnly

\* ... and then opens the file once more, which may have grown meanwhile:
\* the reader keeps to the size that it finds.  The thread is started.
OpenReader ==
    /\ player.step = "scanned"
    /\ player' = [player EXCEPT !.step = "reading", !.limit = SizeOf(disk)]
    /\ PlayerOnly

NextIsWhole ==
    /\ 2 * player.next <= player.limit
    /\ player.next \in DOMAIN disk /\ disk[player.next] = player.next

HasRoom == Len(player.ahead) < RingBlocks

\* Mutant of AfterBlock: the reader's position stays.
AfterBlockAgain(b) == [player EXCEPT !.ahead = Append(@, b)]

\* The player when block b was read and published.
AfterBlock(b) == [player EXCEPT !.ahead = Append(@, b), !.next = b + 1]

ReadBlock ==
    /\ player.step = "reading" /\ HasRoom /\ NextIsWhole
    /\ player.next \notin Wide
    /\ player' = AfterBlock(player.next)
    /\ PlayerOnly

\* A clean end and an invalid tail are the same to the player.
ReachEnd ==
    /\ player.step = "reading" /\ HasRoom /\ ~NextIsWhole
    /\ player' = [player EXCEPT !.step = "ended"]
    /\ PlayerOnly

\* A block too large for the buffer, which the scan has not seen, or an
\* error of the medium.
FailToRead ==
    /\ player.step = "reading" /\ HasRoom
    /\ player' = [player EXCEPT !.step = "failed"]
    /\ PlayerOnly

\* tryDequeue with an empty ring gives silence and changes nothing here.
Dequeue ==
    /\ player.ahead # <<>>
    /\ player' = [player EXCEPT !.ahead = Tail(@), !.heard = Append(@, Head(player.ahead))]
    /\ PlayerOnly

StopPlayer ==
    /\ player.step = "reading"
    /\ player' = [player EXCEPT !.step = "stopped"]
    /\ PlayerOnly

PlayerStep == ReadBlock \/ ReachEnd \/ FailToRead

-----------------------------------------------------------------------------
Next ==
    \/ Admit \/ Push
    \/ Start \/ RefuseMore \/ RequestStop \/ Join
    \/ WorkerStep
    \/ Spill \/ Crash \/ Rot
    \/ Scan \/ Repair
    \/ ScanForPlayer \/ OpenReader \/ PlayerStep \/ Dequeue \/ StopPlayer

\* Threads run, and a stop that was begun goes on; nobody need start, stop,
\* record or play.
Fairness == WF_vars(WorkerStep) /\ WF_vars(RequestStop) /\ WF_vars(Join)

Spec == Init /\ [][Next]_vars /\ Fairness

-----------------------------------------------------------------------------
(* Properties.                                                             *)

Entry == Blocks \cup {Torn, Rotten}

ThreadsTypeOK ==
    /\ ring \in Seq(Blocks) /\ Len(ring) <= RingBlocks
    /\ pushed \in 0 .. MaxBlocks /\ owed \in Nat
    /\ caller \in {"idle", "admitted"}
    /\ accepting \in BOOLEAN /\ stopRequested \in BOOLEAN /\ workerFailed \in BOOLEAN
    /\ control \in {"created", "running", "stopping", "joining", "closed", "dead"}
    /\ worker \in [step : {"none", "loop", "append", "flush", "lastFlush", "ended"},
                   block : 0 .. MaxBlocks, since : Nat]

FilesTypeOK ==
    /\ written \in Seq(Entry) /\ disk \in Seq(Entry)
    /\ flushed \in Nat /\ rotten \in BOOLEAN
    /\ scan \in [done : BOOLEAN, blocks : Nat, size : Nat, invalidTail : BOOLEAN]

PlayerTypeOK ==
    player \in [step : {"none", "scanned", "reading", "ended", "failed", "stopped"},
                scanned : Nat, limit : Nat, next : Nat \ {0},
                ahead : Seq(Nat), heard : Seq(Nat)]

\* Every variable has its type.
TypeOK == ThreadsTypeOK /\ FilesTypeOK /\ PlayerTypeOK

\* What a successful flush was told survives: it can be read, in order and
\* without a gap, after any crash, failed write, stop or repair, however old
\* the scan was that the repair goes by.
FlushedSurvives == rotten \/ Whole(disk) >= flushed

\* When stop() of a started worker returns and no failure is reported, every
\* block that tryEnqueue had accepted before the stop is in the file.
StopWritesAccepted ==
    control = "closed" /\ ~workerFailed => owed <= flushed

\* A player hands out the take from its beginning, each block once and in
\* order, and does not end before the blocks its scan had found, though the
\* take grows or is repaired under it.
PlaybackIsFaithful ==
    /\ player.heard \o player.ahead = [i \in 1 .. (player.next - 1) |-> i]
    /\ player.step = "ended" /\ ~rotten => player.scanned < player.next

\* stop() returns: the worker drains what is in the ring and no more.
RecordingStops == control = "joining" ~> control # "joining"
=============================================================================
