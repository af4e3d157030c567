--------------------------- MODULE EngineExchange ---------------------------
(***************************************************************************)
(* The control session between the Java user interface (EngineSession) and *)
(* the engine process (runIpcSession of engine-probe), over a pair of      *)
(* pipes.  Any thread of the interface may call; exchangeLock lets one     *)
(* request and its answer through at a time.  The answer is read by a task *)
(* of its own, on a stream that locks each field it reads and not the      *)
(* message: a task left behind by an interrupted wait goes on reading and  *)
(* competes with the task of the next request.                             *)
(*                                                                         *)
(* "edit" stands for SET_TEMPO, UNDO and REDO, which all name the revision *)
(* they expect, "state" for SESSION_STATE and PING.  The engine may answer *)
(* late, never, or crash.  What its commands do to the project is the matter *)
(* of JournaledSession and SessionPersistence: here the session is the     *)
(* sequence of edits it applied, the disk a revision it has reached.       *)
(***************************************************************************)
EXTENDS Naturals, Sequences, FiniteSets, Functions

CONSTANTS
    Threads,       \* the threads of the interface
    MaxRequests,   \* bound: requests of a session, the HELLO included
    MaxInterrupts  \* bound: interrupted waits

ASSUME ExchangeAssumption ==
    IsFiniteSet(Threads) /\ MaxRequests \in Nat \ {0} /\ MaxInterrupts \in Nat

VARIABLES
    engine,    \* run, welcomed, the ledger of applied edits, the durable revision and the
               \* newest one whose save failed
    requests,  \* the pipe to the engine
    answers,   \* the pipe from the engine, as the fields of its messages
    holder,    \* the task blocked in a read, which holds the stream's lock; 0 if none
    tasks,     \* the reading tasks, by the sequence number they were submitted for
    lock,      \* the thread that owns exchangeLock, or {}
    session,   \* phase, next sequence number
    calls,     \* what each thread is doing, and what its last call returned
    interrupts

engineSide == <<engine, requests, answers>>
readerSide == <<holder, tasks>>
callerSide == <<lock, session, calls, interrupts>>
vars == <<engineSide, readerSide, callerSide>>

Parts == <<"magic", "rest">>
Nothing == [type |-> "none", value |-> 0]
Revision == Len(engine.ledger) + 1
Alive == engine.run \notin {"gone", "ended"}

\* What a thread asks: an edit carries its author's count of edits (its identity) and a revision.
Ask(type, arg, intent) == [type |-> type, arg |-> arg, intent |-> intent]
NoAsk == Ask("none", 0, 0)
Outcome(ask, ok, value) == [ask |-> ask, ok |-> ok, value |-> value]

Init ==
    /\ engine = [run |-> "ready", welcomed |-> FALSE, ledger |-> <<>>, durable |-> 1, failed |-> 0]
    /\ requests = <<>> /\ answers = <<>> /\ holder = 0
    /\ tasks = [k \in {} |-> Nothing]
    /\ lock = {} /\ session = [phase |-> "launching", next |-> 1] /\ interrupts = 0
    /\ calls = [t \in Threads |->
                  [at |-> "idle", ask |-> NoAsk, seq |-> 0, known |-> 1, intents |-> 0,
                   result |-> Outcome(NoAsk, FALSE, 0)]]

-----------------------------------------------------------------------------
(* The engine: one request at a time, one answer for each, in their order. *)

Answered(answer) ==
    LET seq == Head(requests).seq IN
    /\ answers' = answers \o [i \in 1..2 |-> [part |-> Parts[i], seq |-> seq, answer |-> answer]]
    /\ requests' = Tail(requests)

Ack(value) == Answered([type |-> "ack", value |-> value])
Reject(value) == Answered([type |-> "reject", value |-> value])

Takes(type) ==
    /\ engine.run = "ready" /\ requests # <<>> /\ Head(requests).ask.type = type
    /\ engine.welcomed = (type # "hello")
    /\ UNCHANGED <<readerSide, callerSide>>

Greet ==
    /\ Takes("hello")
    /\ engine' = [engine EXCEPT !.welcomed = TRUE]
    /\ Answered([type |-> "welcome", value |-> 0])

TellState == Takes("state") /\ Ack(Revision) /\ UNCHANGED engine

\* Mistaken Edit: the engine applies an edit whatever revision it expects.
EditAnyRevision ==
    /\ Takes("edit")
    /\ engine' = [engine EXCEPT !.ledger =
                    Append(@, <<Head(requests).by, Head(requests).ask.intent>>)]
    /\ Ack(Revision + 1)

\* An edit applies only to the revision it names; the rejection tells the current one.
Edit ==
    /\ Takes("edit")
    /\ LET ask == Head(requests).ask IN
       IF ask.arg = Revision
       THEN /\ engine' = [engine EXCEPT !.ledger = Append(@, <<Head(requests).by, ask.intent>>)]
            /\ Ack(Revision + 1)
       ELSE Reject(Revision) /\ UNCHANGED engine

RequestSave ==
    /\ Takes("save")
    /\ IF Head(requests).ask.arg = Revision THEN Ack(Revision) ELSE Reject(Revision)
    /\ UNCHANGED engine

\* 0 is "none", also for a revision never asked for; a failed save is an acknowledgement
\* the caller turns into the same exception as a rejection, and it may hide a committed one.
PollSave ==
    /\ Takes("poll") /\ UNCHANGED engine
    /\ \/ Ack(IF engine.durable >= Head(requests).ask.arg THEN engine.durable ELSE 0)
       \/ engine.failed # 0 /\ Reject(0)

\* The service saves what was asked for, or what autosave tracks, on a thread of its own.  A
\* save may fail; it is not tried again for the same revision.
SaveInBackground ==
    /\ engine.run \in {"ready", "stopping"} /\ engine.durable < Revision
    /\ \E r \in (engine.durable + 1)..Revision :
          \/ engine' = [engine EXCEPT !.durable = r, !.failed = 0]
          \/ r > engine.failed /\ engine' = [engine EXCEPT !.failed = r]
    /\ UNCHANGED <<requests, answers, readerSide, callerSide>>

\* SHUTDOWN: the service is stopped, which saves what is dirty, before anything is answered.
BeginShutdown ==
    /\ Takes("shutdown")
    /\ engine' = [engine EXCEPT !.run = "stopping"]
    /\ UNCHANGED <<requests, answers>>

\* The interface is gone and the requests it had written are served: the same without an answer.
SeeEndOfInput ==
    /\ engine.run = "ready" /\ session.phase = "lost" /\ requests = <<>>
    /\ engine' = [engine EXCEPT !.run = "stopping"]
    /\ UNCHANGED <<requests, answers, readerSide, callerSide>>

\* An answer nobody reads any more cannot be written; the service stops with its owner.  (Where
\* the write ends the process, by SIGPIPE, it is a Crash.)
FailToAnswer ==
    /\ engine.run = "ready" /\ session.phase = "lost" /\ answers # <<>>
    /\ engine' = [engine EXCEPT !.run = "stopping"]
    /\ requests' = <<>> /\ UNCHANGED <<answers, readerSide, callerSide>>

\* Mistaken FinishShutdown: SHUTDOWN is acknowledged before the service has stopped.
FinishShutdownAtOnce ==
    /\ engine.run = "stopping"
    /\ engine' = [engine EXCEPT !.run = "exiting"]
    /\ IF requests = <<>> THEN UNCHANGED <<requests, answers>> ELSE Ack(0)
    /\ UNCHANGED <<readerSide, callerSide>>

\* The session as it is has been saved, or its save has failed.
Settled == Revision \in {engine.durable, engine.failed}

FinishShutdown ==
    /\ engine.run = "stopping" /\ Settled
    /\ engine' = [engine EXCEPT !.run = "exiting"]
    /\ IF requests = <<>> THEN UNCHANGED <<requests, answers>> ELSE Ack(0)
    /\ UNCHANGED <<readerSide, callerSide>>

Exit ==
    /\ engine.run = "exiting"
    /\ engine' = [engine EXCEPT !.run = "ended"]
    /\ UNCHANGED <<requests, answers, readerSide, callerSide>>

\* The process dies at any moment.  That it hangs needs no action: nothing makes it go on.
Crash ==
    /\ Alive /\ engine' = [engine EXCEPT !.run = "gone"]
    /\ requests' = <<>> /\ UNCHANGED <<answers, readerSide, callerSide>>

Serve ==
    \/ Greet \/ TellState \/ Edit \/ RequestSave \/ PollSave
    \/ SaveInBackground \/ BeginShutdown \/ SeeEndOfInput \/ FailToAnswer
    \/ FinishShutdown \/ Exit

\* Process.destroyForcibly, by the thread that has the lock: no later exchange looks at the pipe.
Kill ==
    /\ engine' = [engine EXCEPT !.run = "gone"]
    /\ requests' = <<>> /\ answers' = <<>>

-----------------------------------------------------------------------------
(* The tasks that read the engine's pipe.  A field is read under the        *)
(* stream's lock; a task that finds the pipe empty blocks holding it.       *)

Awaited(k) == \E t \in Threads : calls[t].at \in {"waiting", "closing"} /\ calls[t].seq = k
Without(k) == [j \in DOMAIN tasks \ {k} |-> tasks[j]]

\* A task that ends is remembered only if a thread waits for it.
TaskBecomes(k, task) ==
    tasks' = IF task.at \in {"done", "failed"} /\ ~Awaited(k)
             THEN Without(k)
             ELSE [tasks EXCEPT ![k] = task]

StartReading(k) ==
    /\ tasks[k].at = "queued"
    /\ tasks' = [tasks EXCEPT ![k].at = "magic"]
    /\ UNCHANGED <<engineSide, holder, callerSide>>

Reading(k) == tasks[k].at \in Range(Parts) /\ holder \in {0, k}

BlockInRead(k) ==
    /\ Reading(k) /\ holder = 0 /\ answers = <<>> /\ Alive
    /\ holder' = k
    /\ UNCHANGED <<engineSide, tasks, callerSide>>

\* A task that takes another field for the magic fails, and leaves a scrap of the message.  One
\* that finds a scrap, or the next message, where the rest of its own should be refuses it, or
\* takes it for part of a longer payload and reads on.
AfterField(task, unit) ==
    LET failed == [task EXCEPT !.at = "failed"] IN
    CASE task.at = "magic" ->
           {IF unit.part = "magic" THEN [task EXCEPT !.at = "rest"] ELSE failed}
      [] task.at # "magic" /\ unit.part = "rest" ->
           {[at |-> "done", seq |-> unit.seq, answer |-> unit.answer]}
      [] OTHER -> {failed, task}

Scrap(task, unit) ==
    IF task.at = "magic" /\ unit.part = "rest" THEN <<[unit EXCEPT !.part = "scrap"]>> ELSE <<>>

ReadField(k) ==
    /\ Reading(k) /\ answers # <<>>
    /\ \E task \in AfterField(tasks[k], Head(answers)) : TaskBecomes(k, task)
    /\ answers' = Scrap(tasks[k], Head(answers)) \o Tail(answers)
    /\ holder' = 0
    /\ UNCHANGED <<engine, requests, callerSide>>

\* The pipe of a dead process ends.
ReadEnd(k) ==
    /\ Reading(k) /\ ~Alive /\ answers = <<>>
    /\ TaskBecomes(k, [tasks[k] EXCEPT !.at = "failed"])
    /\ holder' = 0
    /\ UNCHANGED <<engineSide, callerSide>>

ReaderStep(k) == StartReading(k) \/ BlockInRead(k) \/ ReadField(k) \/ ReadEnd(k)

\* Future.cancel: a task that has not started never runs; one that reads cannot be interrupted.
Cancelled(k) == tasks' = IF tasks[k].at \in {"queued", "done", "failed"} THEN Without(k) ELSE tasks

-----------------------------------------------------------------------------
(* The callers.                                                             *)

\* No more calls than the bound has requests for.
Budget == session.next - 1 + Cardinality({t \in Threads : calls[t].at = "calling"}) < MaxRequests

\* Remembered until the next call: what edits, saves and closes returned.  The author of an
\* edit that failed may try again.
Returns(t, ok, value) ==
    LET ask == calls[t].ask IN
    calls' = [calls EXCEPT ![t] =
      [@ EXCEPT !.at = "idle", !.ask = NoAsk, !.seq = 0,
                !.result = IF (ok /\ ask.type \in {"save", "poll", "shutdown"}) \/ ask.type = "edit"
                           THEN Outcome(ask, ok, value) ELSE Outcome(NoAsk, FALSE, 0),
                !.known = IF ok /\ ask.type \in {"state", "edit"} THEN value ELSE calls[t].known]]

Calls(t, ask) ==
    /\ calls[t].at = "idle" /\ Budget
    /\ calls' = [calls EXCEPT ![t] =
         [@ EXCEPT !.at = "calling", !.ask = ask, !.result = Outcome(NoAsk, FALSE, 0)]]
    /\ UNCHANGED <<engineSide, readerSide, lock, session, interrupts>>

Launch(t) == session.phase = "launching" /\ session.next = 1
             /\ (\A u \in Threads : calls[u].at = "idle") /\ Calls(t, Ask("hello", 0, 0))

Usable == session.phase \in {"open", "closed"}

AskState(t) == Usable /\ Calls(t, Ask("state", 0, 0))
SetTempo(t) == Usable /\ Calls(t, Ask("edit", calls[t].known, calls[t].intents + 1))
SaveSession(t) == Usable /\ Calls(t, Ask("save", calls[t].known, 0))
Close(t) == Usable /\ Calls(t, Ask("shutdown", 0, 0))

\* The caller heard of a failure, does not know whether its edit was applied, and tries again.
RetryEdit(t) ==
    /\ Usable /\ calls[t].result.ask.type = "edit" /\ ~calls[t].result.ok
    /\ Calls(t, calls[t].result.ask)

\* The request in flight: a save is asked for first and then polled for.
Submit(t, seq, at) ==
    /\ requests' = Append(requests, [seq |-> seq, ask |-> calls[t].ask, by |-> t])
    /\ tasks' = [k \in DOMAIN tasks \cup {seq} |->
                   IF k = seq THEN [at |-> "queued", seq |-> 0, answer |-> Nothing] ELSE tasks[k]]
    /\ calls' = [calls EXCEPT ![t] =
         [@ EXCEPT !.at = at, !.seq = seq,
                   !.intents = IF calls[t].ask.type = "edit" THEN calls[t].ask.intent
                                 ELSE calls[t].intents]]
    /\ lock' = {t}

\* exchangeNew, and launch for its HELLO: the request is written while the process is alive.
Send(t) ==
    /\ calls[t].at = "calling" /\ calls[t].ask.type # "shutdown" /\ lock = {}
    /\ IF session.phase # "closed" /\ Alive
       THEN /\ session' = [session EXCEPT !.next = @ + 1]
            /\ Submit(t, session.next, "waiting")
            /\ UNCHANGED <<engine, answers, holder, interrupts>>
       ELSE /\ Returns(t, FALSE, 0)
            /\ session' = IF calls[t].ask.type = "hello"
                          THEN [session EXCEPT !.phase = "failed"] ELSE session
            /\ UNCHANGED <<engineSide, readerSide, lock, interrupts>>

\* close: the first one sends SHUTDOWN; a pipe without a reader fails and the rest is cleaned up.
SendShutdown(t) ==
    /\ calls[t].at = "calling" /\ calls[t].ask.type = "shutdown" /\ lock = {}
    /\ IF session.phase = "closed"
       THEN Returns(t, TRUE, 1) /\ UNCHANGED <<engineSide, readerSide, lock, session, interrupts>>
       ELSE /\ session' = [phase |-> "closed", next |-> session.next + 1]
            /\ IF Alive
               THEN Submit(t, session.next, "closing") /\ UNCHANGED <<engine, answers, holder, interrupts>>
               ELSE /\ Returns(t, FALSE, 0)
                    /\ UNCHANGED <<engineSide, readerSide, lock, interrupts>>

\* Mistaken Fails: an exchange that fails forgets to release the lock.
FailsKeepingLock(t, kill) ==
    /\ Returns(t, FALSE, 0)
    /\ UNCHANGED lock
    /\ session' = IF calls[t].ask.type = "hello" THEN [session EXCEPT !.phase = "failed"] ELSE session
    /\ IF kill \/ calls[t].ask.type \in {"hello", "shutdown"}
       THEN Kill
       ELSE UNCHANGED engineSide

\* The call fails; what a failed launch or close leaves behind is killed.
Fails(t, kill) ==
    /\ Returns(t, FALSE, 0)
    /\ lock' = {}
    /\ session' = IF calls[t].ask.type = "hello" THEN [session EXCEPT !.phase = "failed"] ELSE session
    /\ IF kill \/ calls[t].ask.type \in {"hello", "shutdown"}
       THEN Kill
       ELSE UNCHANGED engineSide

\* Mistaken Accepts: the sequence number of the answer is not compared.
AcceptsAnySequence(t, task) ==
    /\ task.at = "done"
    /\ task.answer.type = (IF calls[t].ask.type = "hello" THEN "welcome" ELSE "ack")

\* What the answer must be for the call to go on: of the request's sequence, and no rejection.
Accepts(t, task) ==
    /\ task.at = "done" /\ task.seq = calls[t].seq
    /\ task.answer.type = (IF calls[t].ask.type = "hello" THEN "welcome" ELSE "ack")

\* A call that got its answer: the exchange ends and the lock is released.
Continue(t, value) ==
    LET ask == calls[t].ask IN
    /\ lock' = {} /\ UNCHANGED engineSide
    /\ CASE ask.type = "hello" ->
              session' = [session EXCEPT !.phase = "open"] /\ Returns(t, TRUE, value)
         [] ask.type \in {"save", "poll"} /\ (ask.type = "poll" => value = 0) ->
              UNCHANGED session /\ calls' = [calls EXCEPT ![t].at = "between"]
         [] OTHER -> UNCHANGED session /\ Returns(t, value >= ask.arg, value)

Receive(t) ==
    LET k == calls[t].seq  task == tasks[k] IN
    /\ calls[t].at = "waiting" /\ task.at \in {"done", "failed"}
    /\ IF Accepts(t, task) THEN Continue(t, task.answer.value) ELSE Fails(t, FALSE)
    /\ tasks' = Without(k)
    /\ UNCHANGED <<holder, interrupts>>

\* close keeps the lock: it still has to wait for the process.
ReceiveWhileClosing(t) ==
    LET k == calls[t].seq  task == tasks[k] IN
    /\ calls[t].at = "closing" /\ task.at \in {"done", "failed"}
    /\ IF Accepts(t, task)
       THEN calls' = [calls EXCEPT ![t].at = "exiting"] /\ UNCHANGED <<engineSide, lock, session>>
       ELSE Fails(t, TRUE)
    /\ tasks' = Without(k)
    /\ UNCHANGED <<holder, interrupts>>

SeeExit(t) ==
    /\ calls[t].at = "exiting" /\ ~Alive
    /\ Returns(t, TRUE, 0) /\ lock' = {}
    /\ UNCHANGED <<engineSide, readerSide, session, interrupts>>

\* Five seconds without an answer, or without the process's end: the engine is killed.
TimeOut(t) ==
    /\ calls[t].at \in {"waiting", "closing"}
    /\ tasks[calls[t].seq].at \notin {"done", "failed"}
    /\ Cancelled(calls[t].seq) /\ Fails(t, TRUE)
    /\ UNCHANGED <<holder, interrupts>>

ExitTimesOut(t) ==
    /\ calls[t].at = "exiting" /\ Alive /\ Fails(t, TRUE)
    /\ UNCHANGED <<readerSide, interrupts>>

\* The waiting thread is interrupted: the session stays open and the process alive.
Interrupt(t) ==
    /\ interrupts < MaxInterrupts
    /\ calls[t].at \in {"waiting", "closing"}
    /\ tasks[calls[t].seq].at \notin {"done", "failed"}
    /\ Cancelled(calls[t].seq) /\ Fails(t, FALSE)
    /\ interrupts' = interrupts + 1 /\ UNCHANGED holder

\* awaitSessionSave, between two polls: the lock is free, others exchange.
PollAgain(t) ==
    /\ calls[t].at = "between" /\ Budget
    /\ calls' = [calls EXCEPT ![t].at = "calling", ![t].ask.type = "poll"]
    /\ UNCHANGED <<engineSide, readerSide, lock, session, interrupts>>

GiveUpPolling(t) ==
    /\ calls[t].at = "between"
    /\ Returns(t, FALSE, 0)
    /\ UNCHANGED <<engineSide, readerSide, lock, session, interrupts>>

\* The interface dies with all its threads; what it wrote stays in the pipe.
LoseInterface ==
    /\ session.phase \in {"open", "closed"} /\ Alive
    /\ session' = [session EXCEPT !.phase = "lost"]
    /\ calls' = [t \in Threads |->
                   [calls[t] EXCEPT !.at = "idle", !.ask = NoAsk, !.seq = 0,
                                    !.result = Outcome(NoAsk, FALSE, 0)]]
    /\ lock' = {} /\ holder' = 0 /\ tasks' = [k \in {} |-> Nothing]
    /\ UNCHANGED <<engineSide, interrupts>>

Progress(t) ==
    \/ Send(t) \/ SendShutdown(t) \/ Receive(t) \/ ReceiveWhileClosing(t)
    \/ SeeExit(t) \/ TimeOut(t) \/ ExitTimesOut(t) \/ GiveUpPolling(t)

Use(t) ==
    \/ Launch(t) \/ AskState(t) \/ SetTempo(t) \/ SaveSession(t) \/ Close(t) \/ RetryEdit(t)
    \/ PollAgain(t) \/ Interrupt(t)

Next ==
    \/ Serve \/ Crash \/ LoseInterface
    \/ \E k \in DOMAIN tasks : ReaderStep(k)
    \/ \E t \in Threads : Use(t) \/ Progress(t)

\* The threads of the interface run and their timeouts end; nothing is assumed of the engine,
\* which may be slow for ever.
Spec == Init /\ [][Next]_vars /\ \A t \in Threads : WF_vars(Progress(t))

-----------------------------------------------------------------------------
(* What the session promises its callers.                                   *)

\* A call that returns normally returns the truth about its own request, although answers to
\* requests that were given up may still be in the pipe and tasks that nobody awaits may still
\* read it: the edit of this very call is the one that made the revision it was told, and a
\* revision reported as saved has reached the disk (exchangeNew and awaitSessionSave).
AnswersBelong ==
    \A t \in Threads :
      LET r == calls[t].result IN
      r.ok => /\ r.ask.type = "edit" =>
                   /\ r.value = r.ask.arg + 1
                   /\ Revision >= r.value /\ engine.ledger[r.value - 1] = <<t, r.ask.intent>>
              /\ r.ask.type \in {"save", "poll"} => engine.durable >= r.ask.arg

\* An edit that failed because its answer was lost, late or somebody else's, and that its
\* author sends again, is applied at most once: the revision it names protects it.
EditsApplyOnce == IsInjective(engine.ledger)

\* An engine that ended by itself - told to, or because the interface went away, in the middle of
\* a request or not - had saved every edit it applied, unless that very save failed; and a close
\* that returns without an exception, and was the one to close, left such an engine, with no
\* request pending.
EndIsOrderly ==
    /\ engine.run = "ended" => Settled
    /\ \A t \in Threads :
         LET r == calls[t].result IN
         r.ok /\ r.ask.type = "shutdown" /\ r.value = 0 =>
           ~Alive /\ Settled /\ requests = <<>>

\* Whatever the engine does - hang, crash, answer late - and whoever is interrupted, every call
\* returns, also those that wait for the lock.
CallsReturn == \A t \in Threads : calls[t].at # "idle" ~> calls[t].at = "idle"

=============================================================================
