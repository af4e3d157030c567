# Iramix: verification project

TLA+ models of the Iramix engine, the TLC configurations that check them on
small instances, and TLAPS proofs of the invariants that hold for every
instance. Paths below are relative to the repository's root, which appears as
`src/` in `PROJECT.json`.

Contents: [the system](#1-the-system), [the modules](#2-the-modules),
[the runs](#3-the-runs), [disagreements](#4-disagreements-between-documents-and-code),
[the proofs](#5-the-proofs), [what is not modelled](#6-what-is-not-modelled),
[the plan](#7-the-plan).

## 1. The system

Iramix is an audio workstation: an engine in C++20 and a desktop UI in Java
that talks to it over standard input and output. `src/apps/engine-probe` is the
engine process, `src/apps/audio-probe` drives the audio part against a device,
`src/apps/plugin-host` and `src/apps/plugin-scan` are processes that foreign
plug-in code runs in.

### 1.1 Project and persistence

| component | state it keeps | operations | hard behaviour | what makes it correct |
|---|---|---|---|---|
| SessionController (`src/session`) | the document: revision, tempo, tracks, clips, plug-ins, all with stable IDs | setTempo, addTrack, addTrackWithStableId, renameTrack, removeTrack | inverses recorded at one revision are applied at another | an edit is refused or leaves a valid document; the inverse restores the content |
| JournaledSession | live session, undo and redo stacks, `requiresReopen_`, revision of the last checkpoint | open (with all fallbacks), execute, undo, redo, checkpoint | crash at every step of append, save and compaction; failed appends of unknown outcome | an acknowledged edit survives; undo and redo are exact after any recovery |
| CommandJournal (`src/persistence/Persistence.cpp`) | a file of checksummed, numbered records | append, recover, truncate the tail, rewrite atomically | partial writes, partial damage | the longest valid prefix, gapless |
| ProjectStore | project file and its staging sibling | save (write, flush, rename, flush directory), load with promotion of the staging file | crash between any two of these | the file is one whole snapshot, never an older one |
| ProjectBackupStore | one backup per saved revision | back up, prune, list, restore | half-written backups, backups older than the journal | the newest usable one is found; a good project file is not overwritten |
| SessionDocument | – | serialise, parse, validate, migrate | limits | what validates here can be journalled |
| SessionSaveCoordinator | requested, durable, failed and in-flight revision, a pending snapshot, the latest completion | requestSave, pump, query | completions that arrive after newer requests | durable means in the file |
| SessionPersistenceService | dirty snapshot, autosave deadline, worker thread, stop flag | markDirty, requestSave, query, requestStop, stop | lost notifications, worker asleep with work left, shutdown with a save in flight | every edit becomes durable; stop returns |
| AutosaveClock | time; for the manual clock an observer | now, advance, setObserver | the observer is called outside the mutex | a deadline is noticed |
| AsyncSessionSaver, AsyncProjectSaver | pipeline of saves, save thread | trySubmit, tryPopCompletion, stop | three indices, two threads | each accepted save gets one completion, in order |
| RecoverableRecording | a file of checksummed audio blocks | append, flush, scan, repair, recover | crash in a block | a flushed block survives |
| RecordingDiskWorker, RecordingReadAhead | block ring, worker thread, counters | tryEnqueue, tryDequeue, start, stop | stop racing with a push, worker failure | an accepted block is written or the failure is reported |
| DeviceResolver, MediaResolver | – | match a remembered device or file with what is present | – | never a silent wrong match |

The client's edits go to JournaledSession, which appends the record before the
live document changes. Each acknowledged edit gives an immutable snapshot to
SessionPersistenceService; its worker thread hands the newest one to the
coordinator when the deadline passes, and the coordinator to the save thread,
which replaces the project file and adds a backup. The engine's control loop
polls for durable revisions and then lets JournaledSession compact the journal
up to them. So three threads and a file system share the project.

### 1.2 Audio

| component | state it keeps | operations | hard behaviour | what makes it correct |
|---|---|---|---|---|
| SpscQueue, SpscBlockRing | slots, read and write position | push, peek, pop, clear, size | no lock, whole structures copied | a bounded queue; no copy of a slot overlaps another's |
| RenderPlanExecutor | live plan, retired plans, acknowledged generation, rings of commands, parameters, completions, telemetry | prepareAndPublish, reclaim, enqueue, pop, render, renderTo, releaseAll | plans replaced and destroyed while the callback runs | no use after free, no wrong block size, no old block |
| Graph, RenderPlan | – (a compiler) | build, compile | delay compensation, reuse of buffers | each node hears its inputs, aligned |
| MidiEventBuffer | bounded sorted events | addEvent, mergeFrom, clear | capacity | sorted, stable, complete or counted as dropped |
| Nodes, DeviceBufferConversion | sample state | process | – | arithmetic |
| audio-probe | device stream, control loop | start, stop, poll | – | is the caller RenderPlanExecutor assumes |

The control thread compiles plans and publishes them by one atomic store. The
callback loads the pointer, drains commands, routes parameter events, renders,
acknowledges the plan's generation, and copies the block to the device.

### 1.3 Plug-ins, processes and UI

| component | state it keeps | operations | hard behaviour | what makes it correct |
|---|---|---|---|---|
| PluginBridge, plugin-host | shared memory: audio, parameters, MIDI, state blob, sequence numbers; child process | start, processBlock, setParameterById, enqueueMidiEvent, captureState, restoreState, stop | the child hangs, dies, or answers after its deadline | a late answer is never taken for another request's; no event early, late or lost; no wake-up lost |
| PluginStateAutosave | – | copy live plug-in state into a document | capture fails | the old state stays and is reported |
| PluginScanner, plugin-scan | child process, report file | scanCandidate, runScanChild | the child crashes or hangs | a verdict for each plug-in, in bounded time |
| Vst3Host | instance of foreign code | open, process, load and save state | – | foreign interfaces |
| IPC protocol, EngineSession (Java) | sequence number, exchange lock, process | exchange, saveSession, close | timeouts, interrupted waits, process death | a response belongs to its request |
| Desktop UI | scene, GPU context | draw | loss of the context | scene survives |
| Realtime audit, Platform | counters; – | – | – | diagnostics |

The status of each component, and the hazards with their lines and the
properties that cover them, are in `PROJECT.json`.

## 2. The modules

| module | models | lines |
|---|---|---|
| `SessionEdits` | the document, the four edits, their guards and inverses | `SessionController.cpp`, `SessionDocument.cpp`, inverses in `JournaledSession.cpp` |
| `CommandHistory` | stacks, records, compact form of a history, replay of one record | `JournaledSession.cpp` |
| `JournaledSession` | the session on a disk that crashes: edits, saves, checkpoints, opening, damage | `JournaledSession.cpp`, `Persistence.cpp`, `ProjectBackupStore.cpp` |
| `UndoableDocument` | abstract: a document with exact undo and redo that survives crashes | – |
| `SessionPersistence` | control thread, worker, coordinator, save thread, clock | `SessionPersistenceService.cpp`, `SessionSaveCoordinator.cpp`, `AsyncSessionSaver.cpp`, `AutosaveClock.cpp`, engine-probe's loop |
| `SpscRing` | the ring under arbitrary interleaving | `ParameterEvents.hpp`, `DiskAudioWorkers.cpp` |
| `BoundedFifo` | abstract: a bounded queue | – |
| `PlanExecutor` | plans, commands, events and the callback | `RenderPlanExecutor.cpp`, `Nodes.cpp` |
| `PluginBridge` | the host's two threads, the child and the memory they share | `PluginBridge.cpp` |
| `RecordingWorker` | audio callback, disk worker, recording file, crash, scan, repair, player | `DiskAudioWorkers.cpp`, recordings in `Persistence.cpp` |
| `EngineExchange` | threads of the UI, reading tasks, two pipes, the engine's control session | `EngineSession.java`, `IpcProtocol.java`, `Protocol.cpp`, `runIpcSession` of engine-probe |
| `RenderPlanCompiler` | graph edits, the compiler, and what its plan makes each node hear | `Graph.cpp`, `RenderPlan.cpp` |
| `MidiEventBuffer` | bounded sorted buffers that are merged | `MidiEventBuffer.cpp` |
| `MediaResolver` | search for lost media in a file system that changes | `MediaResolver.cpp` |
| `PluginScan` | scanner, child process and report file | `PluginScanner.cpp`, plugin-scan |
| `Algorithms` | the last four, side by side | – |
| `…Proofs` | the proofs about the module of that name | – |
| `MC…` | the instance TLC checks, where a configuration alone cannot give it | – |

`JournaledSession` EXTENDS `CommandHistory`, which EXTENDS `SessionEdits`.
`JournaledSession` and `SessionPersistence` meet in the project file: the first
takes any order of saves the second can produce (it submits a snapshot of the
live document at any time, completes or fails it at any time) and models each
step of a save on the disk; the second knows a save by its revision and outcome
and models who starts it, and when. `PlanExecutor` uses queues as values;
`SpscRing` is the reason why it may, as may `RecordingWorker` and `PluginBridge`.
`EngineExchange` is the client of the other two: it knows the session by the
sequence of edits the engine applied, and the disk by a revision it has reached.
`Algorithms` INSTANCEs the four modules of parts that share nothing with others: a behaviour of it is one of one of them.

### 2.1 SessionEdits and CommandHistory

A document is a record of revision, tempo, the sequence of tracks and the set
`others` of everything else that has an ID (clips, plug-ins), with the track it
refers to. Names, tempos and IDs are members of small sets. The code has three
different limits for names; they are the constants `Names` (the document
format), `RecordNames` (a journal record) and `EditNames` (what an edit
accepts). `Accepts` and `Edited` are an edit's guard and effect, `InverseOf` is
the inverse that `execute` records before the edit.

A session is a document with two stacks of entries (a command and its inverse).
`AfterEdit`, `AfterUndo`, `AfterRedo` are the three operations, `Replayable` and
`AfterReplay` what recovery does with one record, with all its checks.
`CompactJournal(s, r)` is checkpoint's rewriting: a baseline record, one edit
record per entry of the timeline, then an undo record for each undone one,
numbered so that the last number is `r`.

### 2.2 JournaledSession

State: the journal's valid prefix and whether there are bytes behind it, the
project file, its staging sibling and the backups; the process's mode; the
session being rebuilt or live; the save in progress. The history variables
`ledger` (the session at each revision the journal holds) and `acked` record
what was promised; no action's guard reads `acked`, and `ledger` is only read
where the code would read the same value from the journal.

Each action is one step whose effect on the disk is atomic: `AppendRecord` has
three outcomes (acknowledged; failed with the record whole, after which the
session demands to be reopened; failed with a torn or no record), a save is
`Submit`, `WriteStaging`, `FlushStaging`, `ReplaceTarget`, `FinishSave`, each of
which may fail or be cut off by `Terminate`; opening is a choice of the starting
snapshot, one `ReplayRecord` per record and a fallback through the backups.
`Damage` destroys one file at rest, once, if the instance allows it.
`Checkpoint` has the guards of the code and of its driver: nothing is
compacted while an edit is newer than the durable revision.

### 2.3 SessionPersistence

A document is its revision. Calls that hold the service's mutex are one step.
The worker's loop is several, from `WorkerChecks` (the stop flag) over
`WorkerRequests` and `WorkerWaits` to the flush after stop, because the save
thread and the clock do not take the mutex. `asleep` with a set of `alarms`
stands for the three waits of the code: without a timeout, for the poll
interval, until the deadline. A notification is lost when the worker is not
asleep. `co` is the coordinator together with the pipeline slot it fills.
`due` says that the clock has passed the deadline. `clock` is which of the two
clocks the service was given, chosen in `Init`: with the steady clock, time
passes in `Tick`; the manual clock is moved by `Advance` and is then
`"advancing"` until `Observe` calls the observer, as the code does outside the
clock's mutex.

### 2.4 SpscRing

A push is three steps (load of the other side's position with the full test,
copy into the slot, publication), a peek or pop also; between first and last
step the slot of the copy is known. The position a side loads may be any that
was ever stored since its last load. A copy that overlaps another one of the
same slot yields `Torn`. `Clear` is only taken with both sides idle, as all
callers do.

### 2.5 PlanExecutor

A generation is a plan's index in `plans`. `callback.step` walks through the
callback: load of the live plan (any plan stored since the previous load),
commands one by one, parameter events, rendering, acknowledgement, and the
second load of the live pointer in `renderTo`, by which the code decides
whether there is anything to copy. `output` says what the output storage holds:
silence, this callback's block, or an earlier one. `retired` holds replaced
plans with the generation whose acknowledgement frees them.

### 2.6 PluginBridge

Three actors: the host's audio thread (`audio`), its control thread (`control`)
and the child (`child`), each with a program counter. `block` and `state` are the
two areas of the shared region with their sequence numbers, `queue` the two event
rings, `signals` the semaphore. A block is known by the number of its call, a
blob by a value. `processBlock` is seven steps from the copy of the input to the
copy of the output, `restoreState` and `captureState` are six and five; the
child's loop is one step per load or store that another actor could come
between.

Each host call waits until its deadline, which may pass whenever the answer is
not there (`MissDeadline`, `GiveUp`). The child goes on with what was given up
while the host begins the next call in the same memory. So every copy into the
region that can overlap another one has a beginning and an end: the beginning
leaves `Torn` in the area, and what is there after the end is `Landed`: the value
copied, if nobody wrote meanwhile, and any outcome of the race otherwise. A copy
out of the region (`Read`) is torn if the region changed while it lasted.

The foreign code in the child may not return (`Hang`) or end the process
(`Crash`) wherever it is called, and may refuse to open, load or save. The host
dies at any step (`HostDies`), after which only `Watchdog` ends the child; a
plug-in that hangs while it is opened hangs before the watchdog is started
(`"stuck"`). `Reap` is the end of stop(): the child has ended or is killed. What
the plug-in makes of a block is one value, whether it processes it, is bypassed,
or fails and is replaced by silence. Calls refused before they touch the region
(not started, invalid block, blob too large) change nothing and are left out,
and so are restores of an empty blob.

Memory is sequentially consistent in this module. The code publishes with
release stores and reads with acquire loads at every sequence number and ring
position; its relaxed accesses lie between such a pair, except those of a call
that was given up, which the model reorders no further than its steps do. Rings
are sequences, on the strength of `SpscRing`: the bridge's rings have the same
order of full test, copy and store.

### 2.7 RecordingWorker

A block is known by its place in the take. `ring` is the queue between the
callback and the worker; `tryEnqueue` is two steps, `Admit` (the look at
`accepting`) and `Push`, because stop() may come in between. stop() is three:
`RefuseMore`, `RequestStop`, `Join`. The worker pops, writes, flushes after
`FlushEvery` blocks and once more before it ends; every write may fail half-way and
every flush may fail, after which it takes no more blocks.

The file is three values: `written`, what the writer has appended; `flushed`, how
much of it a successful flush covered; and `disk`, what can be read, which is never
less than the latter. `Spill` is stdio's buffer reaching the file at any time,
`Crash` leaves any prefix from `flushed` on, with a part of the next block or
without. `scan` is a result kept from any earlier moment, and `Repair` goes by it.
The player (`RecordingReadAhead`) scans, opens the file again and reads ahead into
a ring of its own, while all of this goes on. `Rot` damages one block of a take at rest.

### 2.8 EngineExchange

Each thread of the interface is a record in `calls`: idle, about to take the lock
(`calling`), waiting for its answer, between two polls of a save, or closing. `Send`
takes the lock, writes the request and submits a task that reads the answer; the
exchange ends in `Receive`, `TimeOut` (which kills the engine) or `Interrupt`
(which does not). A task reads a message in two parts, since the stream's lock
covers one field and not the message: after an interrupt the task left behind and
the task of the next request read the same pipe and may each get a part of either
answer (`AfterField`, `Scrap`). The magic value is what tells the first part.

The engine is `runIpcSession`: one request at a time, one answer for each. `ledger`
holds the edits it applied, by author and number; `durable` and `failed` are the
newest saved revision and the newest one whose save failed. It ends by SHUTDOWN, by
the end of its input, by an answer that cannot be written, or by a crash. An answer to a closed pipe
can only be reported (`FailToAnswer`) where the write returns an error; on POSIX the process, which
does not ignore SIGPIPE, is ended by it, and this is the model's `Crash`. `RetryEdit`
is a caller that heard of a failure and sends its edit again. `LoseInterface` is the
death of the UI's process; what it had written stays in the pipe.

### 2.9 The algorithms

`RenderPlanCompiler`: the graph changes by its edits; `CompileRenderPlan` is a function
of it, with the steps of the code: the order of nodes, arrival times, the last reader of
each signal, buffers acquired and released, operations emitted. `Played` is the
reference: it performs the operations on buffers that hold the list of signals mixed
into them, each with its delay, and starts with a foreign signal in every buffer. The loops of the
compiler are functions on an initial segment of the numbers, one step each (`TakeNext`, `Arrive`, `Gather`,
`PrepareChannel`, `EmitNode`), which is the form the proof needs; what the code keeps in ordered sets is
`Sorted` by what it is, not by how it gets there. `HasPlan` states independently of the order when a graph
is to have a plan: its ports exist, and no set of its nodes feeds itself.

`MidiEventBuffer`: `WithEvent` is the insertion with both limits; `offered` remembers what
came in, in its order. `MediaResolver`: a place is a folder and a name, a file's
content what the hash sees of it; the order of a folder's listing is any, and the
number of entries looked at is bounded. `LongPaths` are the paths no document can hold: a source
found there keeps its path (`BoundAnew`). A report remembers the document and the files it was made
of, which no step reads. `PluginScan`: the report's file name is the same for every scan of a
module, so it may be there from an earlier process; each of the three removals may fail
(`RemoveReport(removable)`), as the code ignores their errors, and the child may be unable to open
the file (`FailToReport`). `leftover` and `reported` remember, for the property alone, whether a file
stayed that the scan meant to remove before it began, and whether its child wrote one.

## 3. The runs

| run | module | what it shows |
|---|---|---|
| `session_promise` | MCJournaledSession | every behaviour of the session on its disk is one of `UndoableDocument`; recorded commands and inverses apply on documents with tracks and references |
| `session` | MCJournaledSession | journal, snapshots, baseline and replay fit together across checkpoints, saves, crashes and one damaged file: recovery finds what there is, mixes nothing, overwrites nothing good |
| `session_lockout` | MCJournaledSession | a way in which the code breaks its ADR's claim |
| `saving` | SessionPersistence | durable revisions, tracking of edits, timed waits, orderly stop, with either clock; edits become durable, stop returns |
| `saving_poll` | SessionPersistence | a committed revision reported as failed |
| `ring` | SpscRing | the ring is a bounded queue, two sides never share a slot |
| `plans` | MCPlanExecutor | memory safety, block sizes, completions, events and reclamation |
| `recording` | RecordingWorker | flushed blocks survive, stop writes what was accepted, playback is the take, stop returns |
| `bridge` | PluginBridge | a heard block is this call's, events are on time, state answers are true, a slow child is heard again |
| `bridge_restore` | PluginBridge | a restore answered ok that did not reach the plug-in |
| `exchange` | EngineExchange | an accepted answer is one's own, a retried edit is applied once, an engine that ends has saved, every call returns |
| `algorithms` | MCAlgorithms | plans are faithful, MIDI keeps its order, media is never bound to another take, a scan's verdict is its own unless a file could not be removed |

Each property is stated, with the code it is about, in a comment above its
definition, and each has a mutant in `PROJECT.json`: a change of one definition, of
the kind a bug in that code would be, under which the same run refutes it.

### 3.1 Bounds and why they are enough

*Session.* `MaxRevision` bounds the edits, undos and redos of a run, `MaxStableId`
the IDs. Four revisions hold an edit, its undo, a new branch after it, and a
checkpoint between any two of them. Each refinement step compares whole timelines,
so `session_promise` has no damage; it has two tempos (two contents that differ
and can recur), five IDs, and may start from a project with tracks and a clip and no
journal. `session` has one tempo, one name and no free ID, so that a revision has only one
document: of `SnapshotsAreHistory` it checks that a file's revision was acknowledged, and that its
content is that revision's rests on the theorem `SnapshotsStayTrue`; two undos in a row with a
compaction, or several before a checkpoint, likewise rest on `GaplessJournal`, `CompactionFits` and
`RecoveryExact`, which have no bound. `session` allows one fault, to the file, a backup or the journal: two would
leave nothing to recover from. Crashes are not bounded.

*Saving.* Three revisions and one failed save: a save in flight, a
waiting snapshot behind it, an edit newer than both, and a failure of any of
them. A second failure meets a coordinator that remembers only the newest one.

*Ring.* Three slots and seven positions: the ring wraps twice. Two values tell
an old one from a new one.

*Plans.* Three plans: one in use, one retired, one live; and a third
generation after `releaseAll`. Two block sizes, two commands, three events over
three sample times, rings of one or two places, so that each can be full. The
instance keeps the three loads apart (`OneLoad` in `MCPlanExecutor`): a run
either has three plans, or two plans and commands, or one plan and parameter
events, until a clear. Commands and events have rings of their own, and the
callback drains the first before it looks at the second, so no property relates
them. The proofs cover `Spec`, without this restriction.

*Bridge.* Two calls in any mixture of blocks, restores and captures: one that is
given up and one that meets its remains, which is what each hazard here needs; a
block beside a state call on the other thread is two calls as well. Two block
lengths and sample times 0 and 1 put an event in the first block, in the second,
or in either, depending on the first one's length. Two events meet a MIDI ring of
one place, which can be full. One signal is kept, as by the auto-reset event; a
semaphore that counts keeps more and loses none.

*Recording.* Four blocks through rings of two, flushed every second one: a flush
with a block behind it, a full ring, blocks left at the stop. One of the blocks is
too large for the player. A scan may be of any age; one block is damaged at most.

*Exchange.* Two threads and four requests, the HELLO among them: an exchange that is
given up, the one that meets its remains, and an edit between them. One interrupt; a
second would leave a second task behind, for which there is no request left.

*Algorithms.* Graphs of up to three nodes and four connections over two audio
channels and MIDI, with five layouts of ports and latencies: four connections make
a diamond with a mix at the end or a mix of three with a feed, the graphs in which a
buffer is free and taken again. MIDI buffers of three events and five bytes: either
limit can be met first. Two media sources, three folders, two names, two takes of one
length and an unreadable file, two entries of search budget, one change of the file
system; one path is too long for the document. Three scans of one module: a leftover, the scan
that meets it, and the next.

`CHECK_DEADLOCK` is off for `exchange` and `algorithms`: a session that is
closed, lost or out of requests stops, and so do scans. It is on everywhere else: a closed
session may be opened again, a stopped service stutters in `Finished`, and so does a
bridge that was stopped or whose host is dead, and a take can always be scanned.

### 3.2 Fairness

`saving`, `plans`, `recording`, `bridge` and `exchange` check liveness. `SessionPersistence!Fairness`:
threads run (weak fairness of the worker's steps and of the save, which takes
finite time), the steady clock moves (`Tick`), who moves the manual clock calls
the observer (`Observe`), and a joined thread lets the join return (`Joined`).
Tracking a recovered session and checkpointing, once begun, need the mutex; the
worker frees it in each wait but takes it again, so they are strongly fair.
Nothing is assumed of the client: it need not edit, save, poll or stop.

`PlanExecutor!Fairness`: the device keeps calling and callbacks return
(`Callback`), the control loop keeps collecting completions and retired plans
(`PopCompletion`, `Reclaim`; `GraphWorkload.hpp` and `WasapiProbe.cpp` do so in
each round), and a store to `live_` is visible in finite time: of the loads that
may return an old pointer, the one that returns the newest is strongly fair.

`PluginBridge!Fairness`: a call that was begun goes on while the host lives
(`AudioStep`, `ControlStep`; the deadline passes if the answer does not come),
the child goes on (`Serving`) unless it hangs or ends, and the watchdog's thread
runs. No call need ever be begun, and no answer need come before a deadline.

`RecordingWorker!Fairness`: the worker's thread runs, and a stop that was begun goes
on. Nobody need start, stop, record or play, and the player owes nothing.

`EngineExchange!Spec`: each thread's own steps (`Progress`), which include its
timeouts. Nothing is assumed of the engine, which may hang, nor of the reading
tasks. The lock needs no fairness beyond that in this instance: a thread that waits
for it competes with a bounded number of other calls.

## 4. Disagreements between documents and code

The three violation runs each check one sentence of a document; the findings in
`PROJECT.json` quote it.

- `session_lockout`: after a crash during the very first save, the torn
  staging file counts as a snapshot, the restore path finds no backup, and the
  project cannot be opened, though the journal holds every edit.
- `saving_poll`: a poll for a committed revision is answered with an
  empty, failed completion when a later save has failed.
- `bridge_restore`: a capture that timed out goes on in the child and writes over
  the blob of a following restore, which is then answered ok.

Further observations, which follow from the same guards and have no run of
their own:

*Documents and disk.* A record with a name longer than 1024 bytes is written and never read back
(`JournaledSession.cpp:131`), while documents hold names up to 4096 bytes
(`SessionDocument.cpp:31`): the undoable rename of such a track is acknowledged and makes the
project unreadable at its next opening; an orderly stop flushes through `requestSave`, which does not submit a
revision whose save has failed, so that revision stays in the journal alone;
`addTrackWithStableId` never checks the limit on tracks, so the edit
beyond it is acknowledged and makes every later save fail; a track with an empty
name, which validates, cannot be renamed undoably; `advance` of the manual clock
notifies without the mutex, so the worker may sleep through it; the manual
clock's observer may be called after it was removed.

*Audio and plug-ins.* `maximumBlockSize_` is
read by `renderTo` without synchronisation; a command or event for a node that
only the newest plan has may be handled by a callback that still holds the
older one, which rejects or drops it; a child that is late with a block may load
that block's length and the next block's start, and give an event of the next
block to a rendering that nobody hears; a plug-in that hangs in `open` does so
before the watchdog is started and outlives its host; the counter `exitedBlocks`
is shown by plugin-host and never incremented.

*Recording.* A block pushed after the worker saw the stop request and an empty ring is counted as
accepted and never written; so is everything pushed to a worker that is stopped before it was
started; a failure of the last `fclose` is not reported.

*Client and engine.* A task left behind by an interrupted wait goes on reading, and the
exchanges after it may fail until the session is closed (`EngineSession.java:392`). A revision whose
save failed is not tried again at shutdown, and SHUTDOWN is acknowledged all the same.
`IPC_PROTOCOL.md:202` says that unknown required message types terminate the connection cleanly; the
engine answers them with a rejection (`unsupported_message`) and goes on. An answer to HELLO
that does not parse leaves `launch` by an exception that its clean-up does not catch, and the
process runs on.

*Scans and media.* The scanner ignores the errors of removing a report (`PluginScanner.cpp:379`,
`427`, `466`). One that cannot be removed - another user's in a shared directory for temporary
files, or one that another process holds open - is read as this scan's verdict when the child dies
or cannot open it for writing, though the comment at `PluginScanner.cpp:477` takes a process that
died before it could say anything for one without a report. `VerdictIsEarned` names this as its one exception. The
scanner does not look at the child's exit code, either: a module that crashes the
process after its report counts as scanned. A report cut short behind its status, on a full
disk, counts as scanned with empty fields. Two files that agree in their beginning and
length are one to `hashMediaFile`.

## 5. The proofs

All theorems are about `Spec` with arbitrary constants that satisfy the named
assumptions of the modules: `ValuesAssumption` and `LimitsAssumption` of
`SessionEdits`, `DiskAssumption` of `JournaledSession`, `PersistenceAssumption`,
`RingAssumption`, `ExecutorAssumption`, `RecordingAssumption`, `BridgeAssumption`, `CompilerAssumption`, `MidiAssumption` and
`MediaAssumption`. They ask for positive bounds, for distinct special values, that a seeded project is a valid document, that
sizes, offsets and limits are numbers and folders finite, and that nodes and channels are numbered (`addConnection`
refuses negative channels) and a node's metadata integers: negative ones are in, and the compiler refuses them.

| theorem | says | inductive invariant |
|---|---|---|
| `JournaledSessionProofs!TypeCorrect`, `GaplessJournal`, `CompactionFits` | types; the journal is one gapless run behind one baseline; the compact history always fits | `TypeOK`, `BackupNames`, `JournalOK`, `ReplayOK`, `LiveOK` |
| `JournaledSessionProofs!RecoveryExact`, `SnapshotsStayTrue`, `BaselineCovered`, `OpenFindsSnapshot`, `RestoreSpares` | recovery ends with the acknowledged session and its stacks; files are of the history; a compaction strands no snapshot; open gives up, or overwrites the project, only when there is nothing better | `IInv`, `HInv` |
| `JournaledSessionProofs!RecoveredReal` | a journal that lost its end, or all of itself, still recovers a session that once was: never a mixture | `IInv`, `HInv` or `LossInv` |
| `JournaledSessionProofs!PromiseKept`, `HistoryRetraced` | the session implements `UndoableDocument`; the recorded commands apply when they are needed | `IInv`, `HInv`, `LInv` |
| `SessionPersistenceProofs!TypeCorrect`, `DurableOnDisk`, `EditsTracked`, `WorkerPolls` | types; durable is in the file; no edit is untracked; no sleep on unfinished business | `IInv` |
| `SessionPersistenceProofs!StopSavesEdits`, `WindowKept` | an orderly stop leaves the newest revision in the file; edits do not postpone the autosave | `IInv`, `StopInv` |
| `SpscRingProofs!TypeCorrect`, `SlotsAreExclusive`, `Refinement` | types (no torn value is ever delivered); slots are exclusive; the ring implements `BoundedFifo` | `IInv` |
| `PlanExecutorProofs!NothingUsedIsDestroyed`, `PlansFit`, `OldBlocksStayUnheard` | no use after free; block sizes agree; no old block is played | `IInv` |
| `PlanExecutorProofs!CommandsCompleteOnce`, `DueEventsAreRouted` | each command is completed once, in order, with its verdict; no event that is due stays in the queue | `CommandInv`, `ParameterInv` |
| `RecordingWorkerProofs!TypeCorrect`, `FlushedBlocksSurvive`, `StopWritesAll`, `PlaybackFaithful` | types; a flushed block survives crash, failure, stop and repair; stop writes what was accepted; playback is the take | `IInv` |
| `AlgorithmsProofs!VerdictsAreEarned` | a verdict is that of this scan's child, or of a file that could not be removed before it if the child did not report; no child outlives its scan | `ScanInv` |
| `AlgorithmsProofs!MidiStaysInOrder` | MIDI events lie by sample and in the order offered, each in its own bytes; who is missing found the buffer full | `MidiInv` |
| `AlgorithmsProofs!SourcesStayBound` | what a report calls verified or relocated held what is remembered; a source bound anew names that file, and is verified again exactly as long as it still does; the others are left alone | `MediaInv` |
| `AlgorithmsProofs!PlansAreFaithful` | a graph has a plan unless it has a cycle or names a missing port; by its plan each node hears the signals connected to it and no other, aligned, and the MIDI connected to it | `GraphInv` |
| `EngineExchangeProofs!EditsAreAppliedOnce` | an edit that is sent again is applied at most once | `IInv` |
| `EngineExchangeProofs!AnswersBelongToTheirCalls`, `EndsAreOrderly` | a call returns the truth about its own request; who ends has saved | `XInv` |
| `PluginBridgeProofs!TypeCorrect`, `BlocksAreHeardWhole`, `EventsReachTheirBlock`, `AnswersAreTrue` | types; a block is heard whole and for its own input, with the events due in it; what is reported of the plug-in's state is so | `IInv` |

*JournaledSession.* A gapless journal is not inductive by itself: a checkpoint
renumbers the records from the live session's revision downwards, so there must
be enough numbers. `LiveOK` therefore says that the compact form of the live
stacks fits below the live revision, and that the revision is the journal's last
number. That bound must in turn hold when recovery has finished, so `ReplayOK`
bounds the stacks of a session being rebuilt by the records replayed so far.
The first half of the module holds the lemmas about `CommandHistory`: each operation raises the revision by
one and `CompactSize` by at most one, replay does no more, and the compact journal
is a gapless sequence of typed records.

*JournaledSession: recovery.* What a replay computes is not proved by an induction over the journal but
by an invariant of the steps that replay it. `ledger` is the reference: the session at each revision. `Recorded`
says how the journal stands to it: the compact history of the session at the baseline, followed by one record for
each revision since, each of which leads from one session of the ledger to the next (`Advances`). A replay
(`CandidateOK`) starts at a snapshot in the middle of this. Up to the snapshot's revision it rebuilds stacks only:
inside the compact part they are `Retold`, a beginning of the timeline and then the part of it that was undone;
behind it they are those of the ledger. From the snapshot on it applies the records, and its document is the ledger's as well
(`ReplayGoesOn`, `ReplayEndsExact`). For the replay to find a snapshot to start from, and to start from a true one,
`FilesOK` keeps every readable file in the history, and `SavingOK` and `OpenOK` order the revisions of saves, files
and session; `FallenBackOK` follows the fallback through the backups. `HInv` is the conjunction. The four lemmas about checkpoint's rewriting (its compact history is that of the session at the new
baseline, and replays to it) are what ties `CompactJournal` to `AfterReplay`.

*JournaledSession: a damaged journal.* Damage at rest leaves a beginning of the journal, of any length. `HInv` then fails,
and `LossInv` takes its place until the project can be opened again. It tells four cases apart: what is left is the history up
to an earlier revision (`Cut`; `Recorded` and `Retracing` hold of it as of a whole journal, which is why
neither mentions the journal's real end); or less than the compact part of it, and then the record numbers end before the
baseline and `StartReplay`'s candidates are all rejected at the first record (`Locked`); or nothing (`Lost`), and then the first candidate
gets a new baseline (`Restarted`) and a session without stacks. The step that resumes a session re-establishes
`HInv` (`LossEnds`), for the shorter history: from there on the journal and the ledger agree again. What does not
come back is that the staging file and the backups belong to the history, as they may be ahead of the session that was resumed; but
`open` looks at them only when the project file is unreadable, and the project file it was resumed from stays
(`Trusted`). The theorem holds in both invariants: a replay that ends has the ledger's last session or a fresh one of a
document of the ledger.

These six theorems have two hypotheses about projects that exist without a journal. `SeedsDecode`: the names of their
tracks are at most 1024 bytes, for a journal with longer ones is not read back (section 4). `SeedsStay`:
none of them is lost between its making and its first journal, when nothing but its file says what it was; `open` then
starts a new default session, as it must. Sessions that begin with `open` itself need neither.

*JournaledSession: the refinement.* The abstract document has contents before and after its own; the session has
commands that are claimed to lead there, and applies a command to whatever document it then has. So it must be shown that
undo finds the document the inverse was recorded for. `LInv` says that every session of the
ledger has a *line*: documents (`Way`) that the inverses of its undo stack lead back through and the forward commands of its
redo stack lead on through, each command in both directions (`Leads`). An edit begins
a new line where it departs from the old one (`EditLeads`: a client command and its recorded inverse lead there and
back; for an added track this needs an ID that is free, for a renamed one distinct IDs); an undo moves one document from the
past to the future (`LineUndo`). `Trail`, with which the model computes the abstract past and future, is
a recursive function; `TrailWalks` shows by the least counterexample that it yields the contents of the line's
documents. Given the line, each action is a step of `UndoableDocument` (`AppendKeeps`, `GoLiveKeeps`, `TerminateKeeps`) or
leaves what is promised alone (`CheckpointKeeps`, `QuietKeeps`); that the recovered session is the acknowledged or the
interrupted one is `RecoveryExact`'s argument again.

These two theorems suppose `JournalStays`, no damage at rest to the journal (other files may be damaged), and for seeded
projects `SeedsRenameable` in the place of `SeedsDecode`: track names of 1 to 1024 bytes. A project file may hold others,
and after renaming such a track its undo is refused, as no edit may give that name. `HistoryRetraced` speaks of sessions
within the limit on tracks: beyond it nothing is accepted at all (section 4).

*SessionPersistence.* `IInv` relates the coordinator's revisions to the slot of
the pipeline and to the file: what is in flight is in the slot, a completed slot
is either failed or in the file, a pending snapshot is newer than the one in
flight, and a dirty snapshot is the newest revision. Without the part about the
slot, a completion that is applied could be of anything. For the stop, `StopInv` adds that a
requested revision is in the file, in the save that runs, or in the snapshot that waits for it, as long as no save
failed; that once the worker drains, the newest revision is so covered; and that a stopped worker leaves neither a save nor a snapshot behind. `WindowKept` needs only the steps that disarm the deadline.

*SpscRing.* `IInv` bounds the positions each side has loaded by the true ones, and
says what every slot between the positions holds. The refinement theorem maps
the abstract queue to the values between the positions; the publication and
the release are its push and pop, and all other steps stutter.

*PlanExecutor.* A plan in use is not destroyed because a plan is retired with
the generation of its successor and destroyed when that was acknowledged. The
invariant says how the generations are ordered: retired plans are older than
the live one (`RetiredAreOlder`), the live one is neither destroyed nor behind
the acknowledgement (`LiveIsKept`), the loads can see nothing newer (`PublishedUpToLive`) and nothing older than what
was acknowledged (`PastAcknowledged`), and destroyed plans lie behind it
(`DestroyedAreBehind`). `WorksWithAPlan`, `FormatIsKept` and `OutputIsKept` carry the
properties of block sizes and of the output through a callback. `CommandInv` says of the queues what
`CommandsAreCompletedOnce` says, for sequences whose concatenation and shift are lemmas, and that the
live plan's generation is what a completion records. `ParameterInv` keeps the queue of events
in the order of their samples; so what is due is an initial segment of the queue, whose length is the
size of the set of due positions (`InitialSegment`), an argument without induction.

*RecordingWorker.* A file is in `Shape` when it is n whole blocks, perhaps with a torn
entry behind them; `FilesOK` keeps both the writer's file and the readable one in it, and says that
only a scan whose size is odd in half blocks asks for a cut: a file of that size then has as many whole
blocks as the scan saw, so a repair, however old its scan, cuts off the torn entry and nothing
else. `RingOK` counts: what was pushed is what is written, the block in the worker's hands and
what waits in the ring, in this order. `StopOK` follows the worker out of its loop, where the
ring is empty and the count gives `owed <= Len(written)`, through the last flush.
`PlayerOK` keeps the scanned blocks below the reader's limit; `AppendNext` and `MoveHead` are its
lemmas about sequences.

*PluginScan.* `ReportIsOwn` says of a report that is there during a scan: if this scan's child has
written one, it is that, with what the child had found; if not, it is a file that could not be removed
before the scan began. That removing may fail at any time costs nothing beyond this, since it never makes a
report (`RemoveReportKeeps`); that the child has written is remembered until the scan is over, and
no child outlives its scan (`Phases`), so nobody writes into the next one's file.

*MidiEventBuffer.* `MidiKeepsOrder` relates a buffer to what it was offered by the events' numbers; the buffer itself
knows only its insertion order. `HoldsFirst` relates the two: it says of a buffer that it `Holds` the events offered to it.
The order numbers are below the next one and increase with the places of the events among those offered, entries lie by
sample and order number, and each entry's bytes begin where an earlier entry's ended, below what is in use. The
place of an insertion exists because entries that stay behind the new one are a beginning of the buffer
(`PlaceIs`), and `WithEventIs` says what one offer does to all of this. A merge is as many offers as the source
has entries, and `MergeFromInv` goes through them one by one.

*MediaResolver.* The budget left for a source depends on all sources before it, and the order in which a folder is listed is
any; neither matters for what is bound. `ResolutionIs` says that what a report holds of a source is `ResolveSource` for
some budget; `ResolvedIs` that this is *verified* exactly if the file it names is there with a hash the document
remembers, and *relocated* only to a file with that hash, which is not the one that stands for *not known*; and
`BoundIs` that a source that is bound anew, once rewritten, leads to the place that was found, in the project or outside
of it. `MediaInv` keeps the report true of the files it was made of (`FoundIsTrue`), and the document what the report made of
it, through every later change of the file system; `MediaInvBinds` puts these together with what the next report says.

*RenderPlanCompiler.* The plan is a function of the graph, so the inductive invariant says little: the connections are
finitely many and between nodes (`GraphInv`). The work is in `CompiledFaithfully`, for one graph of any size, and follows
the compiler's loops, each by an invariant of its steps:

- *The order.* In `Takings`, what is ordered comes behind its producers, the degree of a node counts the producers still to
  come, and the ready nodes are those that wait for none. At the end the nodes that are left feed each other: so
  everything is ordered exactly if no set of nodes feeds itself (`OrderedUnlessCyclic`). No path or cycle is ever named.
- *The arrivals.* When a node is reached its producers have their times, which do not change any more (`ArrivalsAre`).
- *The playing.* Emission and playing are two loops, the second over the result of the first. They are run
  together: `Plays(B, ops, m)` says that the operations emitted so far, played from leftovers, lead to the machine `m`, and
  `PlaysMore` lets both go on by what is emitted next. `B` bounds the buffers of the *finished* plan, while the emission has
  handed out only some of them. One lemma for each operation says what it does to the machine.
- *The buffers.* The states `Placed` hold what the allocation is about: each live signal has a buffer of its own (`Apart`), none
  of these is free (`Held`), and it holds that signal alone, undelayed (`Fits`). A channel
  takes a buffer that is nobody's, a mix adds one source after the other to it, with a scratch buffer that
  is nobody's either, and leaves all others as they were (`Goes`); processing overwrites
  the node's own channels only. `SettleDoes` returns what nobody will read: a signal is dropped at the
  last node of the order that reads it, so a source of a later node is still live (`InputsAreLive`, `LiveNext`).
- *What was heard.* `Past` collects what the placed nodes have heard, and `RightOnChannel` and `LatestIsNotDelayed` read off
  it what `PlanIsFaithful` asks for: nothing twice, nothing missing, all delayed to one moment, and no more than the latest
  input needs.

*Recursive functions.* A merge, a search and the compiler's loops are recursive functions on an initial segment of the numbers. That such a function exists
and satisfies its equation is an induction, and the library's theorems about it take an operator as parameter. The module has
forms of its own that take sets and functions instead: `Least`, `Greatest`, `NatInd` (a set of numbers with 0 that is closed under
successor), `Reached` (a function whose steps keep within a set ends in it) and `Recursion` (the equation
holds).

*EngineExchange.* The engine applies an edit only as the revision it names, so two applications of one
edit would be two copies of it that name different revisions. `OneRevision` says that there are no
such copies, wherever they are: in the ledger, in the pipe, in the hands of the caller, or in
what it remembers of a call that failed. A new edit keeps to it because its number is new, which
is `SentIsCounted`: no edit that was sent or applied has a number above its author's count. The proof
needs nothing of answers, tasks and locks, and so holds however answers get lost or mixed up.
That an accepted answer is the call's own does need them, and has an invariant of its own, `XInv`:
a sequence number is used once, and every number in a pipe or in the result of a finished task is
below the next one (`NumbersAreOld`), so whatever carries the number of the call that holds the lock - in a pipe, or
in the result of a reading task that someone else started - was made for it (`AwaitedOK`). Nothing is
asked after SHUTDOWN (`ShutdownIsLast`), which leaves an engine that was told to end with nothing
to do.

*PluginBridge.* The two memory areas are protected by nothing but sequence numbers. `RequestsInOrder` and
`CallsInOrder` say that the child never serves a number ahead of the host's and never one that is
complete. Hence, when the newest block is complete, the child is not rendering; and while the child renders
the newest block (`Rendering`), the audio thread leaves the area alone, so what the child read and writes
is that block's. For a block that was given up none of this holds, and nothing is claimed: its
completion carries an older number. `EventInv` follows one block's events: the rings are ordered in time, the
block in the region ends where the host's position stands, and a ring that was drained for it holds
nothing that was sent before it and is due. For state calls, `ServedInv` follows the call from its
publication to its answer; with no call outstanding when it began (`control.clean`) the call being
served can only be this one, otherwise only a capture's answer is certain. What a dying host
or child leaves behind enters as frames: `BlockFrame`, `EventFrame` and `CallFrame` say which steps of
the others each part survives.

The type invariants, `HistoryFits` of `JournaledSession` and `SleeperPolls` of
`SessionPersistence` are not among the runs' properties any more: the theorems state them for
every instance.

Every invariant and every action property of the passing runs, and both refinements, are so proved. Only
model-checked: liveness (`EditsBecomeDurable`, `StopReturns`, `CommandsAreAnswered`, `ReplacedPlansAreReclaimed`,
`RecordingStops`, `SlowChildCatchesUp`, `CallsReturn`), which needs fairness, for which TLAPS is not used; and
the disagreements of section 4, which are about single behaviours.

## 6. What is not modelled

Components without a module are listed in `PROJECT.json` with status
`not_modelled` or `partly` and the reason. In short: sample arithmetic, drawing,
foreign plug-in and device interfaces have no states worth interleaving, or
their behaviour is not in this repository; `AsyncProjectSaver` is only used by its test;
`DeviceResolver`, `PluginStateAutosave` and the parser of `SessionDocument` are single
passes over their input, which a model would repeat line by line.

Inside the modelled components: byte layouts of files are abstracted to whole
or torn; a flush that reports success is believed; allocation failures that
leave the state unchanged are left out; the compare of wall-clock times is
reduced to *reached or not*. An append whose flush failed leaves the record
visible to a reopening process but not on the medium; the model treats it as
whole, partial or absent at the crash and does not let it vanish later (see section 7).
A recording is repaired at rest only, as its callers do; the take's header and format are
left out. The MIDI and media parts know bytes and paths by number and place. That a child which is killed
(`TerminateProcess`) is gone within the two seconds the scanner waits for it on Windows is taken for
granted. In
`EngineExchange` a malformed message can only come from two readers of one stream, not from a
foreign peer; undo and redo are edits that name their revision, as SET_TEMPO does.

## 7. The plan

*Done*: project and persistence core, ring, plan executor, plug-in bridge,
recording, client and engine, the algorithms. What would add most next:

1. `SavePipeline`: the three indices of AsyncSessionSaver as a refinement of the one-slot
   pipeline that `SessionPersistence` uses.

Hazards that no property covers:

- a project file may hold track names that no edit may give; the undo of their renaming is refused
  (`SessionController.cpp:226`);
- an edit that exceeds the limit on tracks is acknowledged and makes later saves fail
  (`SessionController.cpp:156`);
- a record whose fsync failed stays readable in the page cache, is replayed and saved, and vanishes
  with the power (`Persistence.cpp:640`): the disk of the model has no cache of its own;
- a journal whose end is damaged at rest makes open() reject a readable, newer project file and
  restore an older backup over it (`JournaledSession.cpp:472`); `RestoreSparesProject` is stated
  for an intact journal;
- the manual clock notifies without the mutex (`SessionPersistenceService.cpp:79`): the model has
  the lost notification, and only the tests use this clock;
- `maximumBlockSize_` is a plain integer that two threads use (`RenderPlanExecutor.cpp:501`): a race in
  which the model has only the values that were stored;
- a child that hangs in open() outlives its host (`PluginBridge.cpp:1438`): nothing is promised;
- a document saved with plug-in states of different moments (`PluginStateAutosave.cpp:34`).
