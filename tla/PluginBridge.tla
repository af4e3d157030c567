----------------------------- MODULE PluginBridge -----------------------------
(***************************************************************************)
(* A plug-in in a process of its own (PluginBridge.cpp): the host's audio  *)
(* thread, its control thread, and the child's loop, which share a region  *)
(* of memory and one semaphore (an auto-reset event on Windows).           *)
(*                                                                         *)
(* The audio thread hands over a block and spins until a deadline; the     *)
(* control thread hands over state blobs and waits until a longer one, and *)
(* fills two event rings.  A deadline may pass at any time, and the child  *)
(* then finishes the work of a call that has been given up while the next  *)
(* call writes the same memory: copies of blocks and blobs have a          *)
(* beginning and an end, with Torn in between.  Blocks are known by the    *)
(* number of their call.  Memory is sequentially consistent here; the      *)
(* sequence numbers are stored with release and loaded with acquire.       *)
(***************************************************************************)
EXTENDS Integers, Sequences

CONSTANTS
    FrameCounts,        \* lengths of the blocks the device asks for
    ParameterCapacity,  \* places of the parameter ring
    MidiCapacity,       \* places of the MIDI ring
    Blobs,              \* states the host may restore
    Fresh,              \* the state of a new plug-in
    Empty, Torn,        \* a blob without bytes, a half-written block or blob
    SignalLimit,        \* signals that are kept: 1 for an auto-reset event
    MaxCalls,           \* bound on the blocks, restores and captures of a run
    MaxEvents,          \* bound on accepted events
    MaxTime             \* bound on their sample times

ASSUME BridgeAssumption ==
    /\ FrameCounts \subseteq Nat \ {0}
    /\ ParameterCapacity \in Nat /\ MidiCapacity \in Nat
    /\ SignalLimit \in Nat \ {0}
    /\ MaxCalls \in Nat
    /\ MaxEvents \in Nat /\ MaxTime \in Nat
    /\ Torn \notin Blobs \cup {Fresh, Empty} \cup Int

VARIABLES
    host,      \* "up" or "dead"
    audio,     \* the audio thread: where it is, its block's length
    position,  \* samplePosition
    heard,     \* what the last processBlock returned
    block,     \* the shared audio area and its sequence numbers
    control,   \* the control thread: where it is, its state call
    state,     \* the shared state area and its sequence numbers
    reply,     \* what the last state call returned
    queue,     \* the two rings
    sent,      \* last sample time accepted for each ring, and what counts
               \* towards the bounds: calls begun, events accepted
    shutdown,  \* the shutdown flag
    signals,   \* the request semaphore
    child,     \* the child process
    plugin     \* the blob the plug-in's state comes from

audioVars == <<audio, position, heard>>
controlVars == <<control, reply>>
hostVars == <<host, audioVars, controlVars, sent>>
vars == <<hostVars, block, state, queue, shutdown, signals, child, plugin>>

\* What the steps of one actor leave alone, for the most part.
notAudio == <<host, controlVars, state, queue, shutdown, child, plugin>>
notControl == <<host, audioVars, block, queue, shutdown, child, plugin>>
notChild == <<hostVars, shutdown>>

Rings == {"parameters", "midi"}
Capacity(r) == IF r = "parameters" THEN ParameterCapacity ELSE MidiCapacity

Unheard == [status |-> "none", block |-> 0]
NoReply == [kind |-> "none", status |-> "none", blob |-> Empty]
NoCall == [pc |-> "idle", kind |-> "none", blob |-> Empty, clean |-> TRUE, before |-> Fresh]
NoBlock == [pc |-> "idle", frames |-> 0]
\* The child at step pc of its loop, having served these requests.
ChildAt(pc, request, sequence) ==
    [pc |-> pc, request |-> request, sequence |-> sequence, copy |-> Empty,
     frames |-> 0, ring |-> "parameters", taken |-> 0, latest |-> -1]

Init ==
    /\ host = "up"
    /\ audio = NoBlock
    /\ position = 0
    /\ heard = Unheard
    /\ block = [input |-> 0, frames |-> 0, start |-> 0,
                request |-> 0, completion |-> 0, output |-> 0]
    /\ control = NoCall
    /\ state = [blob |-> Empty, filled |-> FALSE, kind |-> "none", result |-> "ok",
                sequence |-> 0, completion |-> 0]
    /\ reply = NoReply
    /\ queue = [r \in Rings |-> <<>>]
    /\ sent = [calls |-> 0, events |-> 0, last |-> [r \in Rings |-> 0]]
    /\ shutdown = FALSE
    /\ signals = 0
    /\ child = ChildAt("opening", 0, 0)
    /\ plugin = Fresh

-----------------------------------------------------------------------------
(* What the actors share.                                                  *)

\* signalRequest.
Signal == signals' = IF signals < SignalLimit THEN signals + 1 ELSE signals

\* What the region may hold when a copy that left Torn at its beginning ends:
\* the other side may have begun and ended one of its own meanwhile.
Landed(now, copied) == IF now = Torn THEN {copied} ELSE {now, copied, Torn}

\* What a copy out of the region has read, given the region at its beginning
\* and its end.
Read(before, now) == IF before = now THEN now ELSE Torn

-----------------------------------------------------------------------------
(* processBlock, on the audio thread.  It is called until stop().          *)

BeginBlock ==
    /\ audio.pc = "idle"
    /\ control.pc \notin {"stopping", "reaping", "stopped"}
    /\ sent.calls < MaxCalls /\ sent' = [sent EXCEPT !.calls = @ + 1]
    /\ \E f \in FrameCounts : audio' = [pc |-> "storing", frames |-> f]
    /\ block' = [block EXCEPT !.input = Torn]
    /\ heard' = Unheard
    /\ UNCHANGED <<notAudio, position, signals>>

\* The input is stored, then its length.
StoreBlock ==
    /\ audio.pc = "storing"
    /\ audio' = [audio EXCEPT !.pc = "stored"]
    /\ block' = [block EXCEPT !.input = block.request + 1, !.frames = audio.frames]
    /\ UNCHANGED <<notAudio, sent, position, heard, signals>>

\* The block's place in time; the position moves on whatever comes of it.
StampBlock ==
    /\ audio.pc = "stored"
    /\ audio' = [audio EXCEPT !.pc = "stamped"]
    /\ block' = [block EXCEPT !.start = position]
    /\ position' = position + audio.frames
    /\ UNCHANGED <<notAudio, sent, heard, signals>>

PublishBlock ==
    /\ audio.pc = "stamped"
    /\ audio' = [audio EXCEPT !.pc = "published"]
    /\ block' = [block EXCEPT !.request = @ + 1]
    /\ UNCHANGED <<notAudio, sent, position, heard, signals>>

SignalBlock ==
    /\ audio.pc = "published"
    /\ audio' = [audio EXCEPT !.pc = "waiting"]
    /\ Signal
    /\ UNCHANGED <<notAudio, sent, position, heard, block>>

SeeCompletion ==
    /\ audio.pc = "waiting"
    /\ block.completion = block.request
    /\ audio' = [audio EXCEPT !.pc = "copying"]
    /\ UNCHANGED <<notAudio, sent, position, heard, block, signals>>

CopyOutput ==
    /\ audio.pc = "copying"
    /\ audio' = [audio EXCEPT !.pc = "idle"]
    /\ heard' = [status |-> "processed", block |-> block.output]
    /\ UNCHANGED <<notAudio, sent, position, block, signals>>

\* The deadline passes: silence, reported as deadlineMissed or processExited.
MissDeadline ==
    /\ audio.pc = "waiting"
    /\ block.completion # block.request
    /\ audio' = [audio EXCEPT !.pc = "idle"]
    /\ heard' = [status |-> "missed", block |-> 0]
    /\ UNCHANGED <<notAudio, sent, position, block, signals>>

AudioStep == \/ StoreBlock \/ StampBlock \/ PublishBlock \/ SignalBlock
             \/ SeeCompletion \/ CopyOutput \/ MissDeadline
Audio == BeginBlock \/ AudioStep

-----------------------------------------------------------------------------
(* The control thread: restoreState and captureState.                      *)

BeginCall(kind, blob, pc) ==
    /\ control.pc = "idle"
    /\ sent.calls < MaxCalls /\ sent' = [sent EXCEPT !.calls = @ + 1]
    /\ control' = [pc |-> pc, kind |-> kind, blob |-> blob,
                   clean |-> state.completion = state.sequence, before |-> plugin]
    /\ reply' = NoReply
    /\ UNCHANGED <<notControl, signals>>

\* The blob is copied into the region,
BeginRestore ==
    \E b \in Blobs :
        /\ BeginCall("restore", b, "copying")
        /\ state' = [state EXCEPT !.blob = Torn]

\* then the size and the kind of the call are stored.
DescribeRestore ==
    /\ control.pc = "copying"
    /\ control' = [control EXCEPT !.pc = "described"]
    /\ \E b \in Landed(state.blob, control.blob) :
           state' = [state EXCEPT !.blob = b, !.filled = TRUE, !.kind = "restore"]
    /\ UNCHANGED <<notControl, reply, sent, signals>>

BeginCapture ==
    /\ BeginCall("capture", Empty, "described")
    /\ state' = [state EXCEPT !.filled = FALSE, !.kind = "capture"]

PublishCall ==
    /\ control.pc = "described"
    /\ control' = [control EXCEPT !.pc = "published"]
    /\ state' = [state EXCEPT !.sequence = @ + 1]
    /\ UNCHANGED <<notControl, reply, sent, signals>>

SignalCall ==
    /\ control.pc = "published"
    /\ control' = [control EXCEPT !.pc = "waiting"]
    /\ Signal
    /\ UNCHANGED <<notControl, reply, sent, state>>

\* awaitState, until the answer is there
SeeAnswer ==
    /\ control.pc = "waiting"
    /\ state.completion = state.sequence
    /\ control' = [control EXCEPT !.pc = "answered"]
    /\ UNCHANGED <<notControl, reply, sent, state, signals>>

\* or stateDeadline passes.
GiveUp ==
    /\ control.pc = "waiting"
    /\ state.completion # state.sequence
    /\ control' = [control EXCEPT !.pc = "idle"]
    /\ reply' = [kind |-> control.kind, status |-> "timedOut", blob |-> Empty]
    /\ UNCHANGED <<notControl, sent, state, signals>>

\* The result, and after a capture the blob, are read.
TakeAnswer ==
    /\ control.pc = "answered"
    /\ control' = [control EXCEPT !.pc = "idle"]
    /\ reply' = [kind |-> control.kind, status |-> state.result,
                 blob |-> IF control.kind = "capture" /\ state.filled
                          THEN state.blob ELSE Empty]
    /\ UNCHANGED <<notControl, sent, state, signals>>

-----------------------------------------------------------------------------
(* The control thread: events, and stop().                                 *)

\* Mutant of InOrder: sample times may go backwards.
InOrderNever(r, t) == TRUE

\* outOfOrder otherwise.
InOrder(r, t) == t >= sent.last[r]

\* queueFull otherwise.
HasRoom(r) == Len(queue[r]) < Capacity(r)

\* setParameterById and enqueueMidiEvent, accepted; a refused event leaves
\* no trace.  With the event goes the number of blocks asked for before it.
Enqueue ==
    /\ control.pc = "idle"
    /\ sent.events < MaxEvents
    /\ \E r \in Rings, t \in 0..MaxTime :
           /\ InOrder(r, t) /\ HasRoom(r)
           /\ queue' = [queue EXCEPT ![r] = Append(@, [time |-> t, asked |-> block.request])]
           /\ sent' = [sent EXCEPT !.events = @ + 1, !.last[r] = t]
    /\ UNCHANGED <<host, audioVars, control, reply, block, state, shutdown, signals,
                   child, plugin>>

\* stop() is for its caller to keep apart from processBlock.
BeginStop ==
    /\ control.pc = "idle" /\ audio.pc = "idle"
    /\ control' = [control EXCEPT !.pc = "stopping"]
    /\ shutdown' = TRUE
    /\ UNCHANGED <<host, audioVars, reply, sent, block, state, queue, signals, child,
                   plugin>>

SignalStop ==
    /\ control.pc = "stopping"
    /\ control' = [control EXCEPT !.pc = "reaping"]
    /\ Signal
    /\ UNCHANGED <<notControl, reply, sent, state>>

\* The child stops for good: nothing is left of its own memory but, for
\* EventsAreOnTime, what it gave to the plug-in last.
Ended(pc) == [ChildAt(pc, 0, 0) EXCEPT !.latest = child.latest]

\* The child has ended within two seconds, or is killed.
Reap ==
    /\ control.pc = "reaping"
    /\ control' = [control EXCEPT !.pc = "stopped"]
    /\ child' = Ended("gone")
    /\ UNCHANGED <<host, audioVars, reply, sent, block, state, queue, shutdown, signals,
                   plugin>>

ControlStep == \/ DescribeRestore \/ PublishCall \/ SignalCall \/ SeeAnswer \/ GiveUp
               \/ TakeAnswer \/ SignalStop \/ Reap
Control == BeginRestore \/ BeginCapture \/ Enqueue \/ BeginStop \/ ControlStep

-----------------------------------------------------------------------------
(* The child: runChild.                                                    *)

At(pc) == child.pc = pc
GoTo(pc) == child' = [child EXCEPT !.pc = pc]
End(pc) == child' = Ended(pc)

\* The plug-in is opened, which may fail; then the watchdog is started.
Open ==
    /\ At("opening")
    /\ GoTo("looping") \/ End("gone")
    /\ UNCHANGED <<notChild, block, state, queue, signals, plugin>>

Loop ==
    /\ At("looping")
    /\ IF shutdown THEN End("gone") ELSE GoTo("blocked")
    /\ UNCHANGED <<notChild, block, state, queue, signals, plugin>>

Wake ==
    /\ At("blocked") /\ signals > 0
    /\ signals' = signals - 1
    /\ GoTo("woken")
    /\ UNCHANGED <<notChild, block, state, queue, plugin>>

\* The flag is read once more.  A state call is served before a block.
LoadCall ==
    /\ At("woken")
    /\ IF shutdown THEN End("gone")
       ELSE child' = [child EXCEPT
                !.pc = IF state.sequence # child.sequence THEN "calling" ELSE "asking",
                !.sequence = state.sequence]
    /\ UNCHANGED <<notChild, block, state, queue, signals, plugin>>

LoadKind ==
    /\ At("calling")
    /\ GoTo(IF state.kind = "restore" THEN "restoring" ELSE "capturing")
    /\ UNCHANGED <<notChild, block, state, queue, signals, plugin>>

\* Mutant of ReadBlob: the answer is given when the blob has been fetched.
ReadBlobAndAnswer ==
    /\ At("restoring")
    /\ child' = [child EXCEPT !.pc = "loading",
                              !.copy = IF state.filled THEN state.blob ELSE Empty]
    /\ state' = [state EXCEPT !.completion = child.sequence]
    /\ UNCHANGED <<notChild, block, queue, signals, plugin>>

\* The size is read and the blob copied out of the region,
ReadBlob ==
    /\ At("restoring")
    /\ child' = [child EXCEPT !.pc = "loading",
                              !.copy = IF state.filled THEN state.blob ELSE Empty]
    /\ UNCHANGED <<notChild, block, state, queue, signals, plugin>>

\* and the plug-in accepts it or keeps the state it has.
LoadState ==
    /\ At("loading")
    /\ \/ /\ plugin' = IF child.copy = Empty THEN Empty ELSE Read(child.copy, state.blob)
          /\ state' = [state EXCEPT !.result = "ok"]
       \/ /\ UNCHANGED plugin
          /\ state' = [state EXCEPT !.result = "rejected"]
    /\ child' = [child EXCEPT !.pc = "answering", !.copy = Empty]
    /\ UNCHANGED <<notChild, block, queue, signals>>

\* The plug-in produces its state, which is copied into the region, or does
\* not.
SaveState ==
    /\ At("capturing")
    /\ \/ /\ child' = [child EXCEPT !.pc = "saving", !.copy = plugin]
          /\ state' = [state EXCEPT !.blob = Torn]
       \/ /\ GoTo("answering")
          /\ state' = [state EXCEPT !.result = "rejected"]
    /\ UNCHANGED <<notChild, block, queue, signals, plugin>>

StoreBlob ==
    /\ At("saving")
    /\ \E b \in Landed(state.blob, child.copy) :
           state' = [state EXCEPT !.blob = b, !.filled = TRUE, !.result = "ok"]
    /\ child' = [child EXCEPT !.pc = "answering", !.copy = Empty]
    /\ UNCHANGED <<notChild, block, queue, signals, plugin>>

\* Mutant of Answer: back to waiting, a block can wait for its own signal.
AnswerAndLoop ==
    /\ At("answering")
    /\ state' = [state EXCEPT !.completion = child.sequence]
    /\ GoTo("looping")
    /\ UNCHANGED <<notChild, block, queue, signals, plugin>>

\* The call is answered, and the block looked for in the same turn.
Answer ==
    /\ At("answering")
    /\ state' = [state EXCEPT !.completion = child.sequence]
    /\ GoTo("asking")
    /\ UNCHANGED <<notChild, block, queue, signals, plugin>>

LoadRequest ==
    /\ At("asking")
    /\ child' = [child EXCEPT
           !.pc = IF block.request # child.request THEN "measuring" ELSE "looping",
           !.request = block.request]
    /\ UNCHANGED <<notChild, block, state, queue, signals, plugin>>

LoadFrames ==
    /\ At("measuring")
    /\ child' = [child EXCEPT !.pc = "draining", !.frames = block.frames,
                              !.latest = -1]
    /\ UNCHANGED <<notChild, block, state, queue, signals, plugin>>

\* The events of ring q before time end, up to the first that is later.
DueCount(q, end) ==
    CHOOSE n \in 0..Len(q) :
        /\ \A i \in 1..n : q[i].time < end
        /\ n < Len(q) => q[n + 1].time >= end

\* The ring's events up to the end of the block are given to the plug-in.
Drain ==
    /\ At("draining")
    /\ LET q == queue[child.ring]
           n == DueCount(q, block.start + child.frames)
       IN child' = [child EXCEPT !.pc = "releasing", !.taken = n,
              !.latest = CHOOSE t \in {@} \cup {q[i].time : i \in 1..n} :
                             t >= @ /\ \A i \in 1..n : t >= q[i].time]
    /\ UNCHANGED <<notChild, block, state, queue, signals, plugin>>

\* Their places are released; the MIDI ring comes second.
Release ==
    /\ At("releasing")
    /\ queue' = [queue EXCEPT ![child.ring] = SubSeq(@, child.taken + 1, Len(@))]
    /\ child' = IF child.ring = "parameters"
                THEN [child EXCEPT !.pc = "draining", !.ring = "midi", !.taken = 0]
                ELSE [child EXCEPT !.pc = "rendering", !.ring = "parameters",
                                   !.taken = 0, !.frames = 0]
    /\ UNCHANGED <<notChild, block, state, signals, plugin>>

\* The plug-in reads the input while it writes the output.
Render ==
    /\ At("rendering")
    /\ child' = [child EXCEPT !.pc = "rendered", !.copy = block.input]
    /\ block' = [block EXCEPT !.output = Torn]
    /\ UNCHANGED <<notChild, state, queue, signals, plugin>>

EndRender ==
    /\ At("rendered")
    /\ block' = [block EXCEPT !.output = Read(child.copy, block.input)]
    /\ child' = [child EXCEPT !.pc = "completing", !.copy = Empty]
    /\ UNCHANGED <<notChild, state, queue, signals, plugin>>

\* Mutant of Complete: the newest request is completed, not the one served.
CompleteNewest ==
    /\ At("completing")
    /\ block' = [block EXCEPT !.completion = block.request]
    /\ GoTo("looping")
    /\ UNCHANGED <<notChild, state, queue, signals, plugin>>

Complete ==
    /\ At("completing")
    /\ block' = [block EXCEPT !.completion = child.request]
    /\ GoTo("looping")
    /\ UNCHANGED <<notChild, state, queue, signals, plugin>>

Serving == \/ Open \/ Loop \/ Wake \/ LoadCall \/ LoadKind \/ ReadBlob
           \/ LoadState \/ SaveState \/ StoreBlob \/ Answer \/ LoadRequest \/ LoadFrames
           \/ Drain \/ Release \/ Render \/ EndRender \/ Complete

-----------------------------------------------------------------------------
(* What goes wrong.                                                        *)

Watched == child.pc \notin {"opening", "stuck", "gone"}

\* The plug-in's code does not return: before the watchdog runs, or after.
Hang ==
    /\ child.pc \in {"opening", "loading", "capturing", "draining", "rendering"}
    /\ End(IF At("opening") THEN "stuck" ELSE "hung")
    /\ UNCHANGED <<notChild, block, state, queue, signals, plugin>>

Crash ==
    /\ ~At("gone")
    /\ End("gone")
    /\ UNCHANGED <<notChild, block, state, queue, signals, plugin>>

\* The host dies at any step, and its own memory with it.
HostDies ==
    /\ host = "up" /\ control.pc # "stopped"
    /\ host' = "dead"
    /\ audio' = NoBlock /\ heard' = Unheard
    /\ control' = NoCall /\ reply' = NoReply
    /\ UNCHANGED <<position, sent, block, state, queue, shutdown, signals, child,
                   plugin>>

\* The child's watchdog asks every second who its parent is.
Watchdog ==
    /\ host = "dead" /\ Watched
    /\ End("gone")
    /\ UNCHANGED <<notChild, block, state, queue, signals, plugin>>

Finished ==
    /\ host = "dead" \/ control.pc = "stopped"
    /\ UNCHANGED vars

Next == \/ host = "up" /\ (Audio \/ Control)
        \/ Serving \/ Hang \/ Crash \/ HostDies \/ Watchdog \/ Finished

\* The host's threads and the child's run while they live; the plug-in's code
\* returns unless it hangs.  Nothing is assumed of calls that are not begun.
Fairness ==
    /\ WF_vars(host = "up" /\ AudioStep)
    /\ WF_vars(host = "up" /\ ControlStep)
    /\ WF_vars(Serving)
    /\ WF_vars(Watchdog)

Spec == Init /\ [][Next]_vars
FairSpec == Spec /\ Fairness

-----------------------------------------------------------------------------
(* Properties.                                                             *)

\* A block that is heard is the whole answer to this call's input, however
\* late the child still is with the blocks given up before it.
OwnBlockIsHeard == heard.status = "processed" => heard.block = block.request

\* When a block is about to be heard, every event sent before it was asked for
\* and due before its end has reached the plug-in, and its own rendering took
\* no event of a later block.
EventsAreOnTime ==
    audio.pc = "copying" =>
        /\ child.latest < position
        /\ \A r \in Rings : \A i \in DOMAIN queue[r] :
               queue[r][i].asked < block.request => queue[r][i].time >= position

\* A capture that succeeds returns the state the plug-in has, whole, whatever
\* calls were given up before it.  A restore that succeeds has reached the
\* plug-in and one that is refused has changed nothing, provided no call was
\* outstanding when it began.
StateAnswersAreTrue ==
    /\ reply.kind = "capture" /\ reply.status = "ok" => reply.blob = plugin
    /\ reply.kind = "restore" /\ control.clean =>
           /\ reply.status = "ok" => plugin = control.blob
           /\ reply.status = "rejected" => plugin = control.before

\* A plug-in that was slow is heard again: once the host waits for a block the
\* child catches up with the newest one, unless it hangs or ends.
SlowChildCatchesUp ==
    audio.pc = "waiting" ~>
        \/ block.completion = block.request
        \/ child.pc \in {"hung", "stuck", "gone"}

\* A restore answered with ok has reached the plug-in.
RestoredIsLoaded ==
    reply.kind = "restore" /\ reply.status = "ok" => plugin = control.blob
=============================================================================
