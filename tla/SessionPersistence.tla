-------------------------- MODULE SessionPersistence --------------------------
(***************************************************************************)
(* How edits reach the project file: the engine's control thread           *)
(* (engine-probe main.cpp), the autosave worker of                         *)
(* SessionPersistenceService with its clock, the SessionSaveCoordinator    *)
(* both use under the service's mutex, and the save thread behind it.      *)
(*                                                                         *)
(* Documents are known by their revision.  A call of the service holds the *)
(* mutex and is one step; the worker holds it from the moment it looks at  *)
(* the stop flag until it waits, in several steps, because the save thread *)
(* and the clock do not take it.  The pipeline to the save thread has      *)
(* capacity one and is the record co.slot.  Time is whether the armed      *)
(* deadline has been reached.                                              *)
(***************************************************************************)
EXTENDS Integers

CONSTANTS
    MaxRevision,  \* bound on the edits of a run
    MaxFailures   \* bound on the saves that fail

ASSUME PersistenceAssumption ==
    /\ MaxRevision \in Nat \ {0}
    /\ MaxFailures \in Nat

VARIABLES
    revision,      \* the live session's revision
    control,       \* what the control thread is doing
    reply,         \* the poll response it is writing, or NoReply
    checkpointed,  \* revision the journal was last compacted at
    dirty,         \* dirtySnapshot_'s revision, 0 for none
    armed,         \* deadlineArmed_
    due,           \* the clock has reached autosaveDeadline_
    clock,         \* "steady": SteadyAutosaveClock; else ManualAutosaveClock,
                   \* "advancing" when it has moved and not told its observer
    worker,        \* what the autosave worker is doing
    alarms,        \* what ends its wait besides a notification
    co,            \* the coordinator and the pipeline's slot
    file,          \* revision in the project file, 0 for none
    failures       \* saves that have failed

engine == <<revision, control, reply, checkpointed>>
autosave == <<dirty, armed, due>>
vars == <<engine, autosave, clock, worker, alarms, co, file, failures>>

Revision == 1..MaxRevision
Completion == [status : {"committed", "failed"}, revision : 0..MaxRevision]
NoCompletion == [status |-> "failed", revision |-> 0]
NoReply == [asked |-> 0, status |-> "none", completion |-> NoCompletion]
FreeSlot == [phase |-> "free", status |-> "failed", revision |-> 0]

StopRequested == control \in {"joining", "closing", "closed"}
MutexFree == worker \in {"checking", "asleep", "stopped"}

-----------------------------------------------------------------------------
(* The coordinator, as functions of its state c.                           *)

\* Mutant of Applied: a failed completion also counts as durable.
AppliedUnchecked(c, s) ==
    [c EXCEPT !.latest = [status |-> s.status, revision |-> s.revision],
              !.inFlight = 0,
              !.durable = IF s.revision > @ THEN s.revision ELSE @,
              !.failed = IF s.status = "committed" THEN 0 ELSE s.revision]

\* applyCompletion.
Applied(c, s) ==
    [c EXCEPT !.latest = [status |-> s.status, revision |-> s.revision],
              !.inFlight = 0,
              !.durable = IF s.status = "committed" /\ s.revision > @
                          THEN s.revision ELSE @,
              !.failed = IF s.status = "committed" THEN 0 ELSE s.revision]

\* tryPopCompletion, until nothing is left.
Popped(c) ==
    IF c.slot.phase = "done"
    THEN Applied([c EXCEPT !.slot = FreeSlot], c.slot)
    ELSE c

\* submitPending with trySubmit, which refuses a full pipeline and a
\* revision that is not newer than the last.
Submitted(c) ==
    IF /\ c.pending # 0 /\ c.inFlight = 0
       /\ c.slot.phase = "free" /\ c.pending > c.submitted
    THEN [c EXCEPT !.slot = [phase |-> "accepted", status |-> "failed",
                             revision |-> c.pending],
                   !.submitted = c.pending,
                   !.inFlight = c.pending,
                   !.pending = 0]
    ELSE c

Pumped(c) == Submitted(Popped(c))

\* requestSave of revision r: refused, already requested, or made the one
\* pending snapshot in place of an older one.
RequestStands(c, r) == r >= Pumped(c).requested /\ r >= Pumped(c).durable

Requested(c, r) ==
    IF RequestStands(c, r) /\ r # Pumped(c).requested
    THEN Submitted([Pumped(c) EXCEPT !.pending = r, !.requested = r])
    ELSE Pumped(c)

\* query of revision r, after its pump.
QueryStatus(c, r) ==
    IF r = 0 \/ r > c.requested THEN "unknown"
    ELSE IF c.durable >= r THEN "committed"
    ELSE IF c.failed = r THEN "failed"
    ELSE "pending"

QueryCompletion(c, r) ==
    IF \/ QueryStatus(c, r) = "failed"
       \/ /\ QueryStatus(c, r) = "committed"
          /\ c.latest = [status |-> "committed", revision |-> c.durable]
    THEN c.latest
    ELSE NoCompletion

-----------------------------------------------------------------------------
(* The service.                                                            *)

\* reconcileDurableState, for the coordinator's next state.
IsReconciled == dirty # 0 /\ co'.durable >= dirty

Reconcile ==
    /\ dirty' = IF IsReconciled THEN 0 ELSE dirty
    /\ armed' = IF IsReconciled THEN FALSE ELSE armed

\* notify_one: the worker, if it waits, will look again.
Notify == worker' = IF worker = "asleep" THEN "checking" ELSE worker

\* Mutant of MarkDirty: every dirty revision starts a new window.
MarkDirtyPostpones(r) ==
    /\ co' = Pumped(co)
    /\ dirty' = r /\ armed' = TRUE /\ due' = FALSE
    /\ Notify

\* Mutant of MarkDirty: the snapshot already tracked is not replaced.
MarkDirtyOnce(r) ==
    /\ co' = Pumped(co)
    /\ dirty' = (IF IsReconciled \/ dirty = 0 THEN r ELSE dirty)
    /\ armed' = TRUE
    /\ due' = (due /\ armed /\ ~IsReconciled)
    /\ Notify

\* markDirty.  The first dirty revision arms the deadline, a newer one
\* replaces the snapshot and leaves the deadline alone.
MarkDirty(r) ==
    /\ co' = Pumped(co)
    /\ IF r <= co'.durable \/ (~IsReconciled /\ dirty >= r)
       THEN Reconcile /\ UNCHANGED <<due, worker>>
       ELSE /\ dirty' = r
            /\ armed' = TRUE
            /\ due' = (due /\ armed /\ ~IsReconciled)
            /\ Notify

\* requestSave.
RequestSave(r) ==
    /\ co' = Requested(co, r)
    /\ UNCHANGED dirty
    /\ IF RequestStands(co, r)
       THEN /\ armed' = (armed \/ dirty # 0)
            /\ due' = (due /\ dirty = 0)
            /\ Notify
       ELSE UNCHANGED <<armed, due, worker>>

-----------------------------------------------------------------------------
(* The control thread: one request at a time, checkpointDurable after it.  *)

Init ==
    /\ file \in {0} \cup Revision
    /\ revision \in {r \in Revision : r = file \/ r = file + 1}
    /\ control = IF revision > file THEN "recovering" ELSE "serving"
    /\ reply = NoReply
    /\ checkpointed = file
    /\ dirty = 0 /\ armed = FALSE /\ due = FALSE
    /\ clock \in {"steady", "manual"}
    /\ worker = "checking" /\ alarms = {}
    /\ co = [requested |-> 0, durable |-> file, failed |-> 0, inFlight |-> 0,
             pending |-> 0, submitted |-> 0, latest |-> NoCompletion,
             slot |-> FreeSlot]
    /\ failures = 0

\* A journal ahead of the project file enters autosave tracking.
TrackRecovered ==
    /\ control = "recovering" /\ MutexFree
    /\ MarkDirty(revision)
    /\ control' = "serving"
    /\ UNCHANGED <<revision, reply, checkpointed, clock, alarms, file, failures>>

\* An acknowledged edit, undo or redo is handed to the autosave.
Edit ==
    /\ control = "serving" /\ MutexFree
    /\ revision < MaxRevision
    /\ revision' = revision + 1
    /\ MarkDirty(revision + 1)
    /\ control' = "replied"
    /\ UNCHANGED <<reply, checkpointed, clock, alarms, file, failures>>

\* SAVE_SESSION, accepted for the current revision only.
SaveSession ==
    /\ control = "serving" /\ MutexFree
    /\ RequestSave(revision)
    /\ control' = "replied"
    /\ UNCHANGED <<revision, reply, checkpointed, clock, alarms, file, failures>>

\* POLL_SAVE_COMPLETION of any revision.
Poll ==
    /\ control = "serving" /\ MutexFree
    /\ co' = Pumped(co)
    /\ Reconcile
    /\ \E r \in Revision :
           reply' = [asked |-> r, status |-> QueryStatus(co', r),
                     completion |-> QueryCompletion(co', r)]
    /\ control' = "replied"
    /\ UNCHANGED <<revision, checkpointed, due, clock, worker, alarms, file,
                   failures>>

\* checkpointDurable, which compacts the journal when the newest revision is
\* durable.  A compaction that fails is put off; a client that is gone
\* (a failed read or write) skips it.
Checkpoint ==
    /\ control \in {"replied", "closing"} /\ MutexFree
    /\ \/ checkpointed' = checkpointed
       \/ co.durable = revision /\ checkpointed' = co.durable
    /\ reply' = NoReply
    /\ control' = IF control = "replied" THEN "serving" ELSE "closed"
    /\ UNCHANGED <<revision, autosave, clock, worker, alarms, co, file, failures>>

\* Mutant of RequestStop: the worker is not woken.
RequestStopSilently ==
    /\ control = "serving" /\ MutexFree
    /\ control' = "joining"
    /\ UNCHANGED <<revision, reply, checkpointed, autosave, clock, worker,
                   alarms, co, file, failures>>

\* Shutdown, end of the input or a failed read: stop() raises the flag and
\* wakes the worker, which does not take new requests any more.
RequestStop ==
    /\ control = "serving" /\ MutexFree
    /\ control' = "joining"
    /\ Notify
    /\ UNCHANGED <<revision, reply, checkpointed, autosave, clock, alarms, co,
                   file, failures>>

\* join() returns; the clock forgets the observer.
Joined ==
    /\ control = "joining" /\ worker = "stopped"
    /\ control' = "closing"
    /\ UNCHANGED <<revision, reply, checkpointed, autosave, clock, worker,
                   alarms, co, file, failures>>

-----------------------------------------------------------------------------
(* The autosave worker: run().                                             *)

\* One turn of the loop up to the clock: pump, reconcile, compare.
WorkerChecks ==
    /\ worker = "checking" /\ ~StopRequested
    /\ co' = Pumped(co)
    /\ Reconcile
    /\ worker' = IF dirty' # 0 /\ armed' /\ due THEN "requesting" ELSE "deciding"
    /\ UNCHANGED <<engine, due, clock, alarms, file, failures>>

\* The deadline has passed: save the dirty snapshot, start a new window.
WorkerRequests ==
    /\ worker = "requesting"
    /\ co' = Requested(co, dirty)
    /\ due' = FALSE
    /\ worker' = "deciding"
    /\ UNCHANGED <<engine, dirty, armed, clock, alarms, file, failures>>

\* It releases the mutex and waits: for a notification, for the deadline if
\* the clock moves by itself, for a millisecond if a save is on its way.
WorkerWaits ==
    /\ worker = "deciding"
    /\ alarms' = {a \in {"deadline"} : armed /\ clock = "steady"}
                 \cup {a \in {"poll"} : co.inFlight # 0 \/ co.pending # 0}
    /\ worker' = "asleep"
    /\ UNCHANGED <<engine, autosave, clock, co, file, failures>>

\* One of the timeouts, or (condition variables may) nothing at all.
TimedWake ==
    /\ worker = "asleep"
    /\ "poll" \in alarms \/ ("deadline" \in alarms /\ due)
    /\ worker' = "checking"
    /\ UNCHANGED <<engine, autosave, clock, alarms, co, file, failures>>

SpuriousWake ==
    /\ worker = "asleep"
    /\ worker' = "checking"
    /\ UNCHANGED <<engine, autosave, clock, alarms, co, file, failures>>

\* The flag is up: pump and reconcile once more.
WorkerLeaves ==
    /\ worker = "checking" /\ StopRequested
    /\ co' = Pumped(co)
    /\ Reconcile
    /\ worker' = "flushing"
    /\ UNCHANGED <<engine, due, clock, alarms, file, failures>>

\* Mutant of WorkerFlushes: only what is past its deadline.
WorkerFlushesDue ==
    /\ worker = "flushing"
    /\ co' = IF dirty > co.durable /\ due THEN Requested(co, dirty) ELSE co
    /\ worker' = "draining"
    /\ UNCHANGED <<engine, autosave, clock, alarms, file, failures>>

\* The dirty snapshot is requested whether or not its deadline passed.
WorkerFlushes ==
    /\ worker = "flushing"
    /\ co' = IF dirty > co.durable THEN Requested(co, dirty) ELSE co
    /\ worker' = "draining"
    /\ UNCHANGED <<engine, autosave, clock, alarms, file, failures>>

\* SessionSaveCoordinator::stop, first part: pump until nothing waits behind
\* the save in flight, then hand over what is left.
WorkerDrains ==
    /\ worker = "draining"
    /\ co' = Pumped(co)
    /\ worker' = IF co'.pending # 0 /\ co'.inFlight # 0
                 THEN "draining" ELSE "finishing"
    /\ UNCHANGED <<engine, autosave, clock, alarms, file, failures>>

\* Second part: the pipeline is joined when its save is done, and the last
\* completion is applied.
WorkerFinishes ==
    /\ worker = "finishing"
    /\ co.slot.phase # "accepted"
    /\ co' = Popped(co)
    /\ Reconcile
    /\ worker' = "stopped"
    /\ UNCHANGED <<engine, due, clock, alarms, file, failures>>

-----------------------------------------------------------------------------
(* The save thread (AsyncSessionSaver::run) and the clock.                 *)

\* The snapshot is in the project file.
SaveCommits ==
    /\ co.slot.phase = "accepted"
    /\ file' = co.slot.revision
    /\ co' = [co EXCEPT !.slot = [phase |-> "done", status |-> "committed",
                                  revision |-> co.slot.revision]]
    /\ UNCHANGED <<engine, autosave, clock, worker, alarms, failures>>

\* Serialising or writing fails, before or after the file was replaced.
SaveFails ==
    /\ co.slot.phase = "accepted"
    /\ failures < MaxFailures
    /\ failures' = failures + 1
    /\ file' \in {file, co.slot.revision}
    /\ co' = [co EXCEPT !.slot = [phase |-> "done", status |-> "failed",
                                  revision |-> co.slot.revision]]
    /\ UNCHANGED <<engine, autosave, clock, worker, alarms>>

\* The steady clock reaches the deadline.
Tick ==
    /\ clock = "steady"
    /\ armed /\ ~due
    /\ due' = TRUE
    /\ UNCHANGED <<engine, dirty, armed, clock, worker, alarms, co, file, failures>>

\* ManualAutosaveClock::advance: the time moves under the clock's own mutex
\* and the observer is copied; it is called after the unlock.
Advance ==
    /\ clock = "manual"
    /\ armed /\ ~due
    /\ due' = TRUE
    /\ clock' = IF control \in {"closing", "closed"} THEN "manual" ELSE "advancing"
    /\ UNCHANGED <<engine, dirty, armed, worker, alarms, co, file, failures>>

Observe ==
    /\ clock = "advancing"
    /\ clock' = "manual"
    /\ Notify
    /\ UNCHANGED <<engine, autosave, alarms, co, file, failures>>

Control == \/ TrackRecovered \/ Edit \/ SaveSession \/ Poll
           \/ Checkpoint \/ RequestStop \/ Joined
WorkerRuns == \/ WorkerChecks \/ WorkerRequests \/ WorkerWaits \/ TimedWake
              \/ WorkerLeaves \/ WorkerFlushes \/ WorkerDrains \/ WorkerFinishes
Saves == SaveCommits \/ SaveFails
ClockMoves == Tick \/ Advance \/ Observe
Finished == control = "closed" /\ UNCHANGED vars

Next == Control \/ WorkerRuns \/ SpuriousWake \/ Saves \/ ClockMoves \/ Finished

\* The threads run; a save takes finite time; the steady clock moves, and
\* whoever moves the manual one finishes the call.  Nothing is assumed of the
\* client, but a request that is begun is finished: the mutex is free whenever
\* the worker waits, so the thread that wants it gets it in the end.
Fairness ==
    /\ WF_vars(WorkerRuns)
    /\ WF_vars(Saves)
    /\ WF_vars(Tick) /\ WF_vars(Observe)
    /\ WF_vars(Joined)
    /\ SF_vars(TrackRecovered) /\ SF_vars(Checkpoint)

Spec == Init /\ [][Next]_vars
FairSpec == Spec /\ Fairness

-----------------------------------------------------------------------------
(* Properties.                                                             *)

Slots ==
    {FreeSlot} \cup
    [phase : {"accepted", "done"}, status : {"committed", "failed"}, revision : Revision]

Coordinator ==
    [requested : 0..MaxRevision, durable : 0..MaxRevision, failed : 0..MaxRevision,
     inFlight : 0..MaxRevision, pending : 0..MaxRevision, submitted : 0..MaxRevision,
     latest : Completion, slot : Slots]

Replies ==
    {NoReply} \cup
    [asked : Revision, status : {"unknown", "pending", "committed", "failed"},
     completion : Completion]

\* Type invariant; nothing but a real revision is ever in the pipeline.
TypeOK ==
    /\ revision \in Revision
    /\ control \in {"recovering", "serving", "replied", "joining", "closing", "closed"}
    /\ reply \in Replies
    /\ checkpointed \in 0..MaxRevision
    /\ dirty \in 0..MaxRevision
    /\ armed \in BOOLEAN /\ due \in BOOLEAN
    /\ clock \in {"steady", "manual", "advancing"}
    /\ worker \in {"checking", "requesting", "deciding", "asleep",
                   "flushing", "draining", "finishing", "stopped"}
    /\ alarms \subseteq {"poll", "deadline"}
    /\ co \in Coordinator
    /\ file \in 0..MaxRevision
    /\ failures \in 0..MaxFailures

\* What the coordinator calls durable is in the project file, and so is
\* everything the journal was compacted away for: a save that failed, or one
\* overtaken by a newer edit, never lets checkpoint() drop records.
DurableIsInFile == co.durable <= file /\ checkpointed <= co.durable

\* No acknowledged edit falls out of autosave tracking, whatever order
\* completions, replacements and requests come in: what is not durable is
\* the dirty snapshot, with a deadline.
EditsAreTracked ==
    /\ control # "recovering" /\ dirty = 0 => revision <= co.durable
    /\ dirty # 0 => dirty = revision /\ armed

\* The worker never sleeps on unfinished business: while a save is in flight
\* its wait is timed, and a waiting snapshot always has a save before it
\* whose completion will submit it.
SleeperPolls ==
    /\ co.pending # 0 => co.inFlight # 0
    /\ worker = "asleep" /\ co.inFlight # 0 => "poll" \in alarms

\* An orderly stop leaves the newest revision in the project file, unless a
\* save failed.
StopCoversEdits == control = "closed" /\ failures = 0 => file = revision

\* Continuous edits do not postpone the autosave: a deadline that has passed
\* goes away only with a request that covers the newest revision, or because
\* that revision is durable.
WindowIsFixed ==
    [][due /\ armed /\ ~due' => co'.requested = revision' \/ revision = co'.durable]_vars

\* With the clock the program uses every acknowledged edit reaches the project
\* file, or a save that contained it is reported as failed, though the client
\* neither saves nor stops.
EditsBecomeDurable ==
    \A r \in Revision :
        revision = r /\ clock = "steady" ~> file >= r \/ co.failed >= r

\* stop() returns, failing saves or not.
StopReturns == (control = "joining") ~> (control = "closed")

\* A poll that finds its revision durable says that it was committed.
CommittedIsReported ==
    reply.status = "committed" => reply.completion.status = "committed"
=============================================================================
