------------------------- MODULE PluginBridgeProofs -------------------------
(***************************************************************************)
(* What the host hears from a plug-in's process, for blocks of any length, *)
(* rings of any size and any number of calls, events and signals: the      *)
(* answer to this call and no other, with every event that was due in it,  *)
(* and of the plug-in's state the truth.                                   *)
(*                                                                         *)
(* It rests on the sequence numbers: the child never runs ahead of the     *)
(* host's, serves each once, and while it serves the newest the host's     *)
(* thread leaves the region alone.  Work it does for a call that was given *)
(* up carries an older number, whatever it reads and writes.               *)
(***************************************************************************)
EXTENDS PluginBridge, FiniteSetTheorems, SequenceTheorems, TLAPS

-----------------------------------------------------------------------------
(* The inductive invariant.                                                *)

RenderSteps == {"measuring", "draining", "releasing", "rendering", "rendered", "completing"}
CallSteps == {"calling", "restoring", "loading", "capturing", "saving", "answering"}
Ends == {"hung", "stuck", "gone"}
ChildSteps ==
    {"opening", "looping", "blocked", "woken", "asking"} \cup RenderSteps \cup CallSteps \cup Ends

\* The audio thread has published its block, and begun no other.
Quiet == {"idle", "published", "waiting", "copying"}
AudioSteps == {"storing", "stored", "stamped"} \cup Quiet
NoCallSteps == {"idle", "stopping", "reaping", "stopped"}
ControlSteps == {"copying", "described", "published", "waiting", "answered"} \cup NoCallSteps

Kinds == {"none", "restore", "capture"}
Event == [time : Nat, asked : Nat]

AudioTypes ==
    /\ audio \in [pc : AudioSteps, frames : Nat] /\ position \in Nat
    /\ heard \in [status : {"none", "processed", "missed"}, block : {heard.block}]
BlockType ==
    block \in [input : {block.input}, frames : Nat, start : Nat,
               request : Nat, completion : Nat, output : {block.output}]
ControlTypes ==
    /\ control \in [pc : ControlSteps, kind : Kinds, blob : {control.blob}, clean : BOOLEAN,
                    before : {control.before}]
    /\ reply \in [kind : Kinds, status : {"none", "ok", "rejected", "timedOut"},
                  blob : {reply.blob}]
StateType ==
    state \in [blob : {state.blob}, filled : BOOLEAN, kind : Kinds, result : {"ok", "rejected"},
               sequence : Nat, completion : Nat]
QueueTypes ==
    /\ queue \in [Rings -> Seq(Event)]
    /\ sent \in [calls : Nat, events : Nat, last : [Rings -> Nat]]
ChildType ==
    child \in [pc : ChildSteps, request : Nat, sequence : Nat, copy : {child.copy},
               frames : Nat, ring : Rings, taken : Nat, latest : Int]

TypeOK ==
    AudioTypes /\ BlockType /\ ControlTypes /\ StateType /\ QueueTypes /\ ChildType

\* The child renders the block that the audio thread asked for last.
Rendering ==
    /\ host = "up" /\ audio.pc \in Quiet
    /\ child.pc \in RenderSteps /\ child.request = block.request

\* That block is complete.
BlockIsDone == host = "up" /\ audio.pc \in Quiet /\ block.completion = block.request

\* The child serves what was asked for last, once.
RequestsInOrder ==
    /\ block.completion <= block.request
    /\ child.pc \notin Ends => child.request <= block.request
    /\ child.pc \in RenderSteps => block.completion < child.request
    /\ child.pc \notin RenderSteps \cup Ends => block.completion = child.request

\* While it does, the region holds this block and no other.
BlockInv ==
    /\ RequestsInOrder
    /\ heard.status = "processed" =>
         host = "up" /\ audio.pc = "idle" /\ heard.block = block.request
    /\ host = "up" /\ audio.pc \in {"stored", "stamped"} => block.input = block.request + 1
    /\ host = "up" /\ audio.pc \in Quiet => block.input = block.request
    /\ Rendering /\ child.pc = "rendered" => child.copy = block.request
    /\ Rendering /\ child.pc = "completing" => block.output = block.request
    /\ BlockIsDone => block.output = block.request
    /\ audio.pc = "copying" => BlockIsDone

\* No event of ring r that was sent in time is still due.
Passed(r) ==
    \A i \in DOMAIN queue[r] : queue[r][i].asked < block.request => queue[r][i].time >= position

RingsAreOrdered ==
    \A r \in Rings :
        /\ \A i \in DOMAIN queue[r], j \in DOMAIN queue[r] :
              i <= j => queue[r][i].time <= queue[r][j].time
        /\ \A i \in DOMAIN queue[r] : queue[r][i].time <= sent.last[r]

\* The end of the block in the region is where the host's time stands.
BlockEndsNow ==
    /\ host = "up" /\ audio.pc = "stored" => block.frames = audio.frames
    /\ host = "up" /\ audio.pc # "stored" => block.start + block.frames = position

ChildHasPlace ==
    /\ child.pc \notin {"draining", "releasing"} => child.ring = "parameters"
    /\ child.pc = "releasing" => child.taken <= Len(queue[child.ring])

DrainInv ==
    Rendering =>
      /\ child.pc \in {"draining", "releasing"} => child.frames = block.frames
      /\ child.pc # "measuring" => child.latest < position
      /\ child.pc = "releasing" =>
           \A i \in DOMAIN queue[child.ring] :
              i > child.taken /\ queue[child.ring][i].asked < block.request =>
                 queue[child.ring][i].time >= position
      /\ child.ring = "midi" => Passed("parameters")
      /\ child.pc \in {"rendering", "rendered", "completing"} => \A r \in Rings : Passed(r)

EventInv ==
    /\ RingsAreOrdered /\ BlockEndsNow /\ ChildHasPlace /\ DrainInv
    /\ BlockIsDone => child.latest < position /\ \A r \in Rings : Passed(r)

CallsInOrder ==
    /\ state.completion <= state.sequence
    /\ child.pc \notin Ends => child.sequence <= state.sequence
    /\ child.pc \in CallSteps => state.completion < child.sequence
    /\ child.pc \notin CallSteps \cup Ends => state.completion = child.sequence

\* The answer in the region says what is so.
AnswerHolds ==
    /\ control.kind = "capture" /\ state.result = "ok" => state.filled /\ state.blob = plugin
    /\ control.kind = "restore" /\ control.clean =>
         /\ state.result = "ok" => plugin = control.blob
         /\ state.result = "rejected" => plugin = control.before

\* A reply is that of the last call, which is over.
ReplyInv ==
    reply.status \in {"ok", "rejected"} =>
      /\ host = "up" /\ control.pc \in NoCallSteps /\ state.completion = state.sequence
      /\ reply.kind = "capture" /\ reply.status = "ok" => reply.blob = plugin
      /\ reply.kind = "restore" /\ control.clean =>
           /\ reply.status = "ok" => plugin = control.blob
           /\ reply.status = "rejected" => plugin = control.before

\* Until a call is published, one that began with none outstanding has the
\* region to itself.
PreparedInv ==
    /\ control.pc = "copying" => control.kind = "restore"
    /\ control.pc \in {"copying", "described"} /\ control.clean =>
         state.completion = state.sequence /\ plugin = control.before
    /\ control.pc = "copying" /\ control.clean => state.blob = Torn
    /\ control.pc \in {"described", "published", "waiting", "answered"} =>
         /\ state.kind = control.kind /\ control.kind # "none"
         /\ control.kind = "restore" /\ control.clean =>
              state.filled /\ state.blob = control.blob

\* Then the child serves it, and nothing but it.
ServedInv ==
    control.pc \in {"published", "waiting", "answered"} =>
      /\ control.clean => state.sequence <= state.completion + 1
      /\ state.completion = state.sequence => AnswerHolds
      /\ child.pc \in CallSteps /\ child.sequence = state.sequence =>
           /\ child.pc = "answering" => AnswerHolds
           /\ control.kind = "restore" => child.pc \notin {"capturing", "saving"}
           /\ control.kind = "capture" => child.pc \notin {"restoring", "loading"}
           /\ child.pc = "saving" => child.copy = plugin /\ state.blob = Torn
           /\ child.pc = "loading" /\ control.clean => child.copy = control.blob
      /\ control.clean /\ state.completion < state.sequence
           /\ child.pc \notin {"answering"} \cup Ends => plugin = control.before
      /\ control.pc = "answered" => state.completion = state.sequence

CallInv == CallsInOrder /\ ReplyInv /\ (host = "up" => PreparedInv /\ ServedInv)

IInv == TypeOK /\ BlockInv /\ EventInv /\ CallInv

-----------------------------------------------------------------------------
(* Who leaves what alone.                                                   *)

LEMMA CallFrame ==
  ASSUME CallInv, UNCHANGED <<host, control, reply, state, plugin>>,
         \/ child' = child
         \/ /\ child.pc \notin CallSteps \cup Ends /\ child'.pc \notin CallSteps \cup Ends
            /\ child'.sequence = child.sequence
         \/ child'.pc \in Ends
  PROVE  CallInv'
  <1>1. CallsInOrder'
    BY DEF CallInv, CallsInOrder, CallSteps, Ends
  <1>2. ReplyInv'
    BY DEF CallInv, ReplyInv
  <1>3. host = "up" => PreparedInv'
    BY DEF CallInv, PreparedInv
  <1>4. host = "up" => ServedInv'
    <2> SUFFICES ASSUME host = "up", control.pc \in {"published", "waiting", "answered"}
                 PROVE  ServedInv'
      BY DEF ServedInv
    <2>1. AnswerHolds' <=> AnswerHolds
      BY DEF AnswerHolds
    <2> QED BY <2>1 DEF CallInv, ServedInv, CallSteps, Ends
  <1> QED BY <1>1, <1>2, <1>3, <1>4 DEF CallInv

LEMMA BlockFrame ==
  ASSUME BlockInv, UNCHANGED <<host, audio, heard, block>>,
         \/ child' = child
         \/ /\ child.pc \notin RenderSteps \cup Ends /\ child'.pc \notin RenderSteps \cup Ends
            /\ child'.request = child.request
         \/ child'.pc \in Ends
  PROVE  BlockInv'
  <1>1. RequestsInOrder'
    BY DEF BlockInv, RequestsInOrder, RenderSteps, Ends
  <1>2. BlockIsDone' <=> BlockIsDone
    BY DEF BlockIsDone
  <1>3. Rendering' => Rendering /\ child' = child
    BY DEF Rendering, RenderSteps, Ends
  <1> QED BY <1>1, <1>2, <1>3 DEF BlockInv

LEMMA EventFrame ==
  ASSUME EventInv, UNCHANGED <<host, audio, position, block, queue>>, sent'.last = sent.last,
         \/ child' = child
         \/ /\ child.pc \notin RenderSteps \cup Ends /\ child'.pc \notin RenderSteps \cup Ends
            /\ child'.ring = child.ring /\ child'.latest = child.latest
         \/ child'.pc \in Ends /\ child'.ring = "parameters" /\ child'.latest = child.latest
  PROVE  EventInv'
  <1>1. RingsAreOrdered' /\ BlockEndsNow'
    BY DEF EventInv, RingsAreOrdered, BlockEndsNow
  <1>2. ChildHasPlace'
    BY DEF EventInv, ChildHasPlace, RenderSteps, Ends
  <1>3. /\ BlockIsDone' <=> BlockIsDone
        /\ Rendering' => Rendering /\ child' = child
        /\ \A r : Passed(r)' <=> Passed(r)
    BY DEF BlockIsDone, Rendering, Passed, RenderSteps, Ends
  <1>4. DrainInv'
    BY <1>3 DEF EventInv, DrainInv
  <1>5. child'.latest = child.latest
    OBVIOUS
  <1> QED BY <1>1, <1>2, <1>3, <1>4, <1>5 DEF EventInv

-----------------------------------------------------------------------------
(* Types.                                                                  *)

LEMMA InitTypes == Init => TypeOK
  BY DEF Init, TypeOK, AudioTypes, BlockType, ControlTypes, StateType, QueueTypes, ChildType,
         NoBlock, Unheard, NoCall, NoReply, ChildAt, AudioSteps, Quiet, ControlSteps, NoCallSteps,
         Kinds, Rings, ChildSteps, RenderSteps, CallSteps, Ends, Event

\* The audio thread.

LEMMA AudioTypesKept ==
  ASSUME TypeOK, Audio
  PROVE  TypeOK'
  <1>1. UNCHANGED notAudio
    BY DEF Audio, AudioStep, BeginBlock, StoreBlock, StampBlock, PublishBlock, SignalBlock,
           SeeCompletion, CopyOutput, MissDeadline
  <1>2. ControlTypes' /\ StateType' /\ ChildType'
    BY <1>1 DEF notAudio, controlVars, TypeOK, ControlTypes, StateType, ChildType
  <1>3. QueueTypes'
    <2>1. UNCHANGED queue
      BY <1>1 DEF notAudio
    <2>2. sent' = sent \/ sent' = [sent EXCEPT !.calls = @ + 1]
      BY DEF Audio, AudioStep, BeginBlock, StoreBlock, StampBlock, PublishBlock, SignalBlock,
             SeeCompletion, CopyOutput, MissDeadline
    <2> QED BY <2>1, <2>2 DEF TypeOK, QueueTypes
  <1>4. AudioTypes'
    <2> USE BridgeAssumption DEF TypeOK, AudioTypes, AudioSteps, Quiet
    <2>1. CASE BeginBlock
      BY <2>1 DEF BeginBlock, Unheard
    <2>2. CASE StoreBlock \/ PublishBlock \/ SignalBlock \/ SeeCompletion
      BY <2>2 DEF StoreBlock, PublishBlock, SignalBlock, SeeCompletion
    <2>3. CASE StampBlock
      BY <2>3 DEF StampBlock
    <2>4. CASE CopyOutput
      BY <2>4 DEF CopyOutput
    <2>5. CASE MissDeadline
      BY <2>5 DEF MissDeadline
    <2> QED BY <2>1, <2>2, <2>3, <2>4, <2>5 DEF Audio, AudioStep
  <1>5. BlockType'
    <2> USE DEF TypeOK, AudioTypes, BlockType
    <2>1. CASE BeginBlock
      BY <2>1 DEF BeginBlock
    <2>2. CASE StoreBlock
      BY <2>2 DEF StoreBlock
    <2>3. CASE StampBlock
      BY <2>3 DEF StampBlock
    <2>4. CASE PublishBlock
      BY <2>4 DEF PublishBlock
    <2>5. CASE SignalBlock \/ SeeCompletion \/ CopyOutput \/ MissDeadline
      BY <2>5 DEF SignalBlock, SeeCompletion, CopyOutput, MissDeadline
    <2> QED BY <2>1, <2>2, <2>3, <2>4, <2>5 DEF Audio, AudioStep
  <1> QED BY <1>2, <1>3, <1>4, <1>5 DEF TypeOK

LEMMA AudioBlock ==
  ASSUME TypeOK, BlockInv, Audio, host = "up"
  PROVE  BlockInv'
  <1>1. UNCHANGED <<host, child>>
    BY DEF notAudio, Audio, AudioStep, BeginBlock, StoreBlock, StampBlock, PublishBlock,
           SignalBlock, SeeCompletion, CopyOutput, MissDeadline
  <1> USE <1>1 DEF TypeOK, AudioTypes, BlockType, ChildType, BlockInv, BlockIsDone, Rendering,
                   Quiet
  <1>2. CASE BeginBlock
    BY <1>2 DEF BeginBlock, Unheard, RequestsInOrder
  <1>3. CASE StoreBlock
    BY <1>3 DEF StoreBlock, RequestsInOrder
  <1>4. CASE StampBlock
    BY <1>4 DEF StampBlock, RequestsInOrder
  <1>5. CASE PublishBlock
    <2>1. RequestsInOrder'
      BY <1>5 DEF PublishBlock, RequestsInOrder
    <2>2. ~Rendering' /\ ~BlockIsDone'
      BY <1>5 DEF PublishBlock, RequestsInOrder, RenderSteps, Ends
    <2> QED BY <1>5, <2>1, <2>2 DEF PublishBlock
  <1>6. CASE SignalBlock
    BY <1>6 DEF SignalBlock, RequestsInOrder
  <1>7. CASE SeeCompletion
    BY <1>7 DEF SeeCompletion, RequestsInOrder
  <1>8. CASE CopyOutput
    BY <1>8 DEF CopyOutput, RequestsInOrder
  <1>9. CASE MissDeadline
    BY <1>9 DEF MissDeadline, RequestsInOrder
  <1> QED BY <1>2, <1>3, <1>4, <1>5, <1>6, <1>7, <1>8, <1>9 DEF Audio, AudioStep

LEMMA AudioEvents ==
  ASSUME TypeOK, RequestsInOrder, EventInv, Audio, host = "up"
  PROVE  EventInv'
  <1>1. UNCHANGED <<host, child, queue>> /\ sent'.last = sent.last
    BY DEF TypeOK, QueueTypes, notAudio, Audio, AudioStep, BeginBlock, StoreBlock, StampBlock,
           PublishBlock, SignalBlock, SeeCompletion, CopyOutput, MissDeadline
  <1>2. RingsAreOrdered'
    BY <1>1 DEF EventInv, RingsAreOrdered
  <1>3. ChildHasPlace'
    BY <1>1 DEF EventInv, ChildHasPlace
  <1>4. CASE BeginBlock \/ StoreBlock \/ StampBlock \/ PublishBlock
    <2>1. BlockEndsNow'
      <3> USE <1>1 DEF TypeOK, AudioTypes, BlockType, EventInv, BlockEndsNow
      <3>1. CASE BeginBlock
        BY <3>1 DEF BeginBlock
      <3>2. CASE StoreBlock
        BY <3>2 DEF StoreBlock
      <3>3. CASE StampBlock
        BY <3>3 DEF StampBlock
      <3>4. CASE PublishBlock
        BY <3>4 DEF PublishBlock
      <3> QED BY <1>4, <3>1, <3>2, <3>3, <3>4
    <2>2. ~Rendering' /\ ~BlockIsDone'
      BY <1>1, <1>4 DEF BeginBlock, StoreBlock, StampBlock, PublishBlock, Rendering, BlockIsDone,
         Quiet, RequestsInOrder, RenderSteps, Ends, TypeOK, AudioTypes, BlockType, ChildType
    <2> QED BY <1>2, <1>3, <2>1, <2>2 DEF EventInv, DrainInv
  <1>5. CASE SignalBlock \/ SeeCompletion \/ CopyOutput \/ MissDeadline
    <2>1. /\ UNCHANGED <<block, position>> /\ audio'.frames = audio.frames
          /\ audio.pc \in Quiet /\ audio'.pc \in Quiet
      BY <1>5 DEF SignalBlock, SeeCompletion, CopyOutput, MissDeadline, TypeOK, AudioTypes, Quiet
    <2>2. BlockEndsNow'
      BY <1>1, <2>1 DEF EventInv, BlockEndsNow, Quiet
    <2>3. /\ Rendering' <=> Rendering
          /\ BlockIsDone' <=> BlockIsDone
          /\ \A r : Passed(r)' <=> Passed(r)
      BY <1>1, <2>1 DEF Rendering, BlockIsDone, Passed
    <2>4. DrainInv'
      BY <1>1, <2>1, <2>3 DEF EventInv, DrainInv
    <2> QED BY <1>1, <1>2, <1>3, <2>1, <2>2, <2>3, <2>4 DEF EventInv
  <1> QED BY <1>4, <1>5 DEF Audio, AudioStep

LEMMA AudioCalls ==
  ASSUME CallInv, Audio
  PROVE  CallInv'
  <1>1. UNCHANGED notAudio
    BY DEF Audio, AudioStep, BeginBlock, StoreBlock, StampBlock, PublishBlock, SignalBlock,
           SeeCompletion, CopyOutput, MissDeadline
  <1> QED BY <1>1, CallFrame DEF notAudio, controlVars

-----------------------------------------------------------------------------
\* The control thread.

LEMMA ControlLeavesAlone ==
  ASSUME Control
  PROVE  UNCHANGED <<host, audioVars, block, plugin>>
  BY DEF Control, ControlStep, BeginRestore, BeginCapture, BeginCall, DescribeRestore,
         PublishCall, SignalCall, SeeAnswer, GiveUp, TakeAnswer, Enqueue, BeginStop, SignalStop,
         Reap, notControl, audioVars

LEMMA ControlTypesKept ==
  ASSUME TypeOK, Control
  PROVE  TypeOK'
  <1>1. AudioTypes' /\ BlockType'
    BY ControlLeavesAlone DEF audioVars, TypeOK, AudioTypes, BlockType
  <1>2. QueueTypes'
    <2> USE DEF TypeOK, QueueTypes, Rings
    <2>1. CASE Enqueue
      <3>1. PICK r \in Rings, t \in 0..MaxTime :
              /\ queue' = [queue EXCEPT ![r] = Append(@, [time |-> t, asked |-> block.request])]
              /\ sent' = [sent EXCEPT !.events = @ + 1, !.last[r] = t]
        BY <2>1 DEF Enqueue
      <3>2. [time |-> t, asked |-> block.request] \in Event
        BY BridgeAssumption DEF Event, BlockType
      <3>q. queue[r] \in Seq(Event) /\ queue \in [Rings -> Seq(Event)] /\ r \in Rings
        OBVIOUS
      <3> HIDE DEF Rings, TypeOK, QueueTypes
      <3>3. queue' \in [Rings -> Seq(Event)]
        <4> DEFINE e == [time |-> t, asked |-> block.request]
        <4>1. Append(queue[r], e) \in Seq(Event)
          BY <3>q, <3>2, AppendProperties
        <4>2. queue' = [queue EXCEPT ![r] = Append(queue[r], e)]
          BY <3>1
        <4> HIDE DEF e
        <4> QED BY ONLY <4>1, <4>2, <3>q
      <3>4. sent' \in [calls : Nat, events : Nat, last : [Rings -> Nat]]
        <4>1. t \in Nat
          BY BridgeAssumption
        <4>2. sent \in [calls : Nat, events : Nat, last : [Rings -> Nat]]
          BY DEF TypeOK, QueueTypes
        <4>3. [sent.last EXCEPT ![r] = t] \in [Rings -> Nat]
          BY <4>1, <4>2
        <4>4. sent' = [calls |-> sent.calls, events |-> sent.events + 1,
                       last |-> [sent.last EXCEPT ![r] = t]]
          BY <3>1, <4>2
        <4> QED BY <4>2, <4>3, <4>4
      <3> QED BY <3>3, <3>4 DEF QueueTypes
    <2>2. CASE ~Enqueue
      <3>1. UNCHANGED queue /\ (sent' = sent \/ sent' = [sent EXCEPT !.calls = @ + 1])
        BY <2>2 DEF Control, ControlStep, BeginRestore, BeginCapture, BeginCall,
           DescribeRestore, PublishCall, SignalCall, SeeAnswer, GiveUp, TakeAnswer, BeginStop,
           SignalStop, Reap, notControl
      <3> QED BY <3>1
    <2> QED BY <2>1, <2>2
  <1>3. ChildType'
    <2>1. child' = child \/ child' = Ended("gone")
      BY DEF Control, ControlStep, BeginRestore, BeginCapture, BeginCall, DescribeRestore,
         PublishCall, SignalCall, SeeAnswer, GiveUp, TakeAnswer, Enqueue, BeginStop, SignalStop,
         Reap, notControl
    <2> QED BY <2>1 DEF TypeOK, ChildType, Ended, ChildAt, ChildSteps, Ends, Rings
  <1>4. StateType'
    <2> USE DEF TypeOK, StateType, ControlTypes, Kinds
    <2>1. CASE BeginRestore
      BY <2>1 DEF BeginRestore, BeginCall
    <2>2. CASE BeginCapture
      BY <2>2 DEF BeginCapture, BeginCall
    <2>3. CASE DescribeRestore
      BY <2>3 DEF DescribeRestore
    <2>4. CASE PublishCall
      BY <2>4 DEF PublishCall
    <2>5. CASE SignalCall \/ SeeAnswer \/ GiveUp \/ TakeAnswer \/ Enqueue \/ BeginStop
               \/ SignalStop \/ Reap
      BY <2>5 DEF SignalCall, SeeAnswer, GiveUp, TakeAnswer, Enqueue, BeginStop, SignalStop, Reap
    <2> QED BY <2>1, <2>2, <2>3, <2>4, <2>5 DEF Control, ControlStep
  <1>5. ControlTypes'
    <2> USE DEF TypeOK, StateType, ControlTypes, Kinds, ControlSteps, NoCallSteps
    <2>1. CASE BeginRestore
      BY <2>1 DEF BeginRestore, BeginCall, NoReply
    <2>2. CASE BeginCapture
      BY <2>2 DEF BeginCapture, BeginCall, NoReply
    <2>3. CASE DescribeRestore \/ PublishCall \/ SignalCall \/ SeeAnswer
      BY <2>3 DEF DescribeRestore, PublishCall, SignalCall, SeeAnswer
    <2>4. CASE GiveUp
      BY <2>4 DEF GiveUp
    <2>5. CASE TakeAnswer
      BY <2>5 DEF TakeAnswer
    <2>6. CASE Enqueue \/ BeginStop \/ SignalStop \/ Reap
      BY <2>6 DEF Enqueue, BeginStop, SignalStop, Reap
    <2> QED BY <2>1, <2>2, <2>3, <2>4, <2>5, <2>6 DEF Control, ControlStep
  <1> QED BY <1>1, <1>2, <1>3, <1>4, <1>5 DEF TypeOK

LEMMA ControlBlock ==
  ASSUME BlockInv, Control
  PROVE  BlockInv'
  <1>1. child' = child \/ child'.pc \in Ends
    BY DEF Control, ControlStep, BeginRestore, BeginCapture, BeginCall, DescribeRestore,
       PublishCall, SignalCall, SeeAnswer, GiveUp, TakeAnswer, Enqueue, BeginStop, SignalStop,
       Reap, notControl, Ended, ChildAt, Ends
  <1> QED BY <1>1, ControlLeavesAlone, BlockFrame DEF audioVars

\* An accepted event goes to the end of its ring, and was sent in time for
\* blocks to come only.
LEMMA EnqueueEvents ==
  ASSUME TypeOK, EventInv, Enqueue
  PROVE  EventInv'
  <1>1. PICK r \in Rings, t \in 0..MaxTime :
           /\ InOrder(r, t)
           /\ queue' = [queue EXCEPT ![r] = Append(@, [time |-> t, asked |-> block.request])]
           /\ sent' = [sent EXCEPT !.events = @ + 1, !.last[r] = t]
    BY DEF Enqueue
  <1> DEFINE e == [time |-> t, asked |-> block.request]
  <1>2. /\ queue \in [Rings -> Seq(Event)] /\ queue[r] \in Seq(Event)
        /\ sent \in [calls : Nat, events : Nat, last : [Rings -> Nat]]
        /\ e \in Event /\ t \in Nat
    BY BridgeAssumption DEF TypeOK, QueueTypes, BlockType, Event
  <1>3. UNCHANGED <<host, audio, position, block, child>>
    BY DEF Enqueue, audioVars
  <1>4. /\ Len(Append(queue[r], e)) = Len(queue[r]) + 1
        /\ \A i \in 1..Len(queue[r]) : Append(queue[r], e)[i] = queue[r][i]
        /\ Append(queue[r], e)[Len(queue[r]) + 1] = e
        /\ Append(queue[r], e) \in Seq(Event)
    BY <1>2, AppendProperties
  <1>5. /\ queue'[r] = Append(queue[r], e) /\ \A s \in Rings \ {r} : queue'[s] = queue[s]
        /\ sent'.last[r] = t /\ \A s \in Rings \ {r} : sent'.last[s] = sent.last[s]
    BY <1>1, <1>2
  <1> DEFINE q == queue[r]
             p == queue'[r]
  <1>6. /\ DOMAIN q = 1..Len(q) /\ DOMAIN p = 1..Len(p) /\ Len(q) \in Nat
        /\ Len(p) = Len(q) + 1 /\ p[Len(q) + 1] = e
        /\ \A i \in 1..Len(q) : p[i] = q[i] /\ q[i].time \in Nat /\ q[i].asked \in Nat
    <2>1. Len(q) \in Nat /\ DOMAIN q = 1..Len(q) /\ \A i \in 1..Len(q) : q[i] \in Event
      BY <1>2, LenProperties, ElementOfSeq
    <2>2. Len(p) \in Nat /\ DOMAIN p = 1..Len(p)
      BY <1>4, <1>5, LenProperties
    <2>3. /\ Len(p) = Len(q) + 1 /\ p[Len(q) + 1] = e
          /\ \A i \in 1..Len(q) : p[i] = q[i]
      BY <1>4, <1>5
    <2> HIDE DEF p, q
    <2> QED BY <2>1, <2>2, <2>3 DEF Event
  <1>7. e.time = t /\ e.asked = block.request
    OBVIOUS
  <1> HIDE DEF q, p, e
  <1>8. RingsAreOrdered'
    <2>1. /\ \A i \in DOMAIN q, j \in DOMAIN q : i <= j => q[i].time <= q[j].time
          /\ \A i \in DOMAIN q : q[i].time <= sent.last[r]
          /\ sent.last[r] \in Nat /\ sent.last[r] <= t
      BY <1>1, <1>2 DEF EventInv, RingsAreOrdered, InOrder, q
    <2>2. /\ \A i \in DOMAIN p, j \in DOMAIN p : i <= j => p[i].time <= p[j].time
          /\ \A i \in DOMAIN p : p[i].time <= t
      <3>1. \A i \in DOMAIN p : i \in 1..Len(q) \/ i = Len(q) + 1
        BY <1>6
      <3>2. \A i \in DOMAIN p : p[i].time <= t
        BY <1>2, <1>6, <1>7, <2>1, <3>1
      <3>3. ASSUME NEW i \in DOMAIN p, NEW j \in DOMAIN p, i <= j
            PROVE  p[i].time <= p[j].time
        <4>1. CASE j = Len(q) + 1
          BY <1>6, <1>7, <3>2, <4>1
        <4>2. CASE j \in 1..Len(q)
          <5>1. i \in 1..Len(q)
            BY <1>6, <3>3, <4>2
          <5> QED BY <1>6, <2>1, <3>3, <4>2, <5>1
        <4> QED BY <3>1, <4>1, <4>2
      <3> QED BY <3>2, <3>3
    <2> QED BY <1>5, <2>2 DEF EventInv, RingsAreOrdered, p
  <1>9. \A s \in Rings : Passed(s) => Passed(s)'
    <2> SUFFICES ASSUME NEW s \in Rings, Passed(s) PROVE Passed(s)'
      OBVIOUS
    <2>1. CASE s = r
      <3>1. \A i \in DOMAIN p : i \in 1..Len(q) \/ p[i] = e
        BY <1>6
      <3>2. \A i \in DOMAIN q : q[i].asked < block.request => q[i].time >= position
        BY <2>1 DEF Passed, q
      <3>3. \A i \in DOMAIN p : p[i].asked < block.request => p[i].time >= position
        BY <1>6, <1>7, <3>1, <3>2 DEF TypeOK, BlockType
      <3> QED BY <1>3, <2>1, <3>3 DEF Passed, p
    <2> QED BY <1>3, <1>5, <2>1 DEF Passed
  <1>10. ChildHasPlace' /\ BlockEndsNow'
    <2>1. \A s \in Rings : Len(queue[s]) \in Nat /\ Len(queue'[s]) >= Len(queue[s])
      <3>1. \A s \in Rings \ {r} : Len(queue[s]) \in Nat
        BY <1>2, LenProperties
      <3> QED BY <1>5, <1>6, <3>1 DEF p, q
    <2> QED BY <1>3, <2>1 DEF EventInv, ChildHasPlace, BlockEndsNow, TypeOK, ChildType
  <1>11. DrainInv'
    <2> SUFFICES ASSUME Rendering' PROVE DrainInv'
      BY DEF DrainInv
    <2>1. Rendering
      BY <1>3 DEF Rendering
    <2>2. child.pc = "releasing" =>
            \A i \in DOMAIN queue'[child.ring] :
              i > child.taken /\ queue'[child.ring][i].asked < block.request =>
                 queue'[child.ring][i].time >= position
      <3>1. CASE child.ring = r
        <4>1. \A i \in DOMAIN p : i \in 1..Len(q) \/ p[i] = e
          BY <1>6
        <4>2. child.pc = "releasing" =>
                \A i \in DOMAIN q :
                  i > child.taken /\ q[i].asked < block.request => q[i].time >= position
          BY <2>1, <3>1 DEF EventInv, DrainInv, q
        <4>3. child.pc = "releasing" =>
                \A i \in DOMAIN p :
                  i > child.taken /\ p[i].asked < block.request => p[i].time >= position
          BY <1>6, <1>7, <4>1, <4>2 DEF TypeOK, BlockType
        <4> QED BY <3>1, <4>3 DEF p
      <3>2. CASE child.ring # r
        BY <1>5, <2>1, <3>2 DEF EventInv, DrainInv, TypeOK, ChildType
      <3> QED BY <3>1, <3>2
    <2>3. child.ring = "midi" => Passed("parameters")'
      BY <1>9, <2>1 DEF EventInv, DrainInv, Rings
    <2> QED BY <1>3, <1>9, <2>1, <2>2, <2>3 DEF EventInv, DrainInv
  <1>12. BlockIsDone' <=> BlockIsDone
    BY <1>3 DEF BlockIsDone
  <1> QED BY <1>3, <1>8, <1>9, <1>10, <1>11, <1>12 DEF EventInv

LEMMA ControlEvents ==
  ASSUME TypeOK, EventInv, Control
  PROVE  EventInv'
  <1>1. CASE ~Enqueue
    <2>1. /\ UNCHANGED queue /\ sent'.last = sent.last
          /\ \/ child' = child
             \/ child'.pc \in Ends /\ child'.ring = "parameters" /\ child'.latest = child.latest
      BY <1>1 DEF Control, ControlStep, BeginRestore, BeginCapture, BeginCall, DescribeRestore,
         PublishCall, SignalCall, SeeAnswer, GiveUp, TakeAnswer, BeginStop, SignalStop, Reap,
         notControl, Ended, ChildAt, Ends, TypeOK, QueueTypes
    <2> QED BY <2>1, ControlLeavesAlone, EventFrame DEF audioVars
  <1>2. CASE Enqueue
    BY <1>2, EnqueueEvents
  <1> QED BY <1>1, <1>2

LEMMA ControlCalls ==
  ASSUME TypeOK, CallInv, Control, host = "up"
  PROVE  CallInv'
  <1>1. UNCHANGED <<host, plugin>>
    BY ControlLeavesAlone
  <1>2. child' = child \/ child'.pc \in Ends
    BY DEF Control, ControlStep, BeginRestore, BeginCapture, BeginCall, DescribeRestore,
       PublishCall, SignalCall, SeeAnswer, GiveUp, TakeAnswer, Enqueue, BeginStop, SignalStop,
       Reap, notControl, Ended, ChildAt, Ends
  <1>3. CASE BeginRestore \/ BeginCapture
    <2>1. PICK b \in Blobs \cup {Empty}, pc \in {"copying", "described"}, kind \in Kinds :
            /\ control' = [pc |-> pc, kind |-> kind, blob |-> b,
                           clean |-> state.completion = state.sequence, before |-> plugin]
            /\ \/ pc = "copying" /\ kind = "restore" /\ state' = [state EXCEPT !.blob = Torn]
               \/ /\ pc = "described" /\ kind = "capture"
                  /\ state' = [state EXCEPT !.filled = FALSE, !.kind = "capture"]
            /\ reply' = NoReply /\ child' = child
      BY <1>3 DEF BeginRestore, BeginCapture, BeginCall, Kinds, notControl
    <2> USE <1>1, <2>1 DEF TypeOK, ControlTypes, StateType, Kinds, NoCallSteps
    <2>2. CallsInOrder'
      BY DEF CallInv, CallsInOrder
    <2>3. ReplyInv'
      BY DEF ReplyInv, NoReply
    <2>4. PreparedInv'
      BY DEF PreparedInv
    <2>5. ServedInv'
      BY DEF ServedInv
    <2> QED BY <2>2, <2>3, <2>4, <2>5 DEF CallInv
  <1>4. CASE DescribeRestore
    <2> USE <1>1, <1>4 DEF TypeOK, ControlTypes, StateType, NoCallSteps, CallInv, DescribeRestore,
                           notControl
    <2>2. CallsInOrder'
      BY DEF CallsInOrder
    <2>3. ReplyInv'
      BY DEF ReplyInv
    <2>4. PreparedInv'
      BY DEF PreparedInv, Landed
    <2>5. ServedInv'
      BY DEF ServedInv
    <2> QED BY <2>2, <2>3, <2>4, <2>5
  <1>5. CASE PublishCall
    <2> USE <1>1, <1>5 DEF TypeOK, ControlTypes, StateType, NoCallSteps, CallInv, PublishCall,
                           notControl
    <2>2. CallsInOrder'
      BY DEF CallsInOrder, ChildType
    <2>3. ReplyInv'
      BY DEF ReplyInv
    <2>4. PreparedInv'
      BY DEF PreparedInv
    <2>5. ServedInv'
      BY DEF ServedInv, CallsInOrder, PreparedInv, ChildType, CallSteps, Ends
    <2> QED BY <2>2, <2>3, <2>4, <2>5
  <1>6. CASE SignalCall \/ SeeAnswer
    <2> USE <1>1, <1>6 DEF TypeOK, ControlTypes, StateType, NoCallSteps, CallInv, SignalCall,
                           SeeAnswer, notControl
    <2>2. CallsInOrder'
      BY DEF CallsInOrder
    <2>3. ReplyInv'
      BY DEF ReplyInv
    <2>4. PreparedInv'
      BY DEF PreparedInv
    <2>5. AnswerHolds' <=> AnswerHolds
      BY DEF AnswerHolds
    <2>6. ServedInv'
      BY <2>5 DEF ServedInv
    <2> QED BY <2>2, <2>3, <2>4, <2>6
  <1>7. CASE GiveUp \/ TakeAnswer
    <2> USE <1>1, <1>7 DEF TypeOK, ControlTypes, StateType, NoCallSteps, CallInv, GiveUp,
                           TakeAnswer, notControl
    <2>2. CallsInOrder'
      BY DEF CallsInOrder
    <2>3. ReplyInv'
      BY DEF ReplyInv, ServedInv, AnswerHolds
    <2>4. PreparedInv'
      BY DEF PreparedInv
    <2>5. ServedInv'
      BY DEF ServedInv
    <2> QED BY <2>2, <2>3, <2>4, <2>5
  <1>8. CASE Enqueue \/ BeginStop \/ SignalStop \/ Reap
    <2>1. /\ UNCHANGED <<reply, state>> /\ control.pc \in NoCallSteps
          /\ control' = control \/ \E pc \in NoCallSteps : control' = [control EXCEPT !.pc = pc]
      BY <1>8 DEF Enqueue, BeginStop, SignalStop, Reap, notControl, NoCallSteps
    <2> USE <1>1, <1>2, <2>1 DEF TypeOK, ControlTypes, StateType, NoCallSteps, CallInv
    <2>2. CallsInOrder'
      BY DEF CallsInOrder, CallSteps, Ends
    <2>3. ReplyInv'
      BY DEF ReplyInv
    <2>4. PreparedInv'
      BY DEF PreparedInv
    <2>5. ServedInv'
      BY DEF ServedInv
    <2> QED BY <2>2, <2>3, <2>4, <2>5
  <1> QED BY <1>3, <1>4, <1>5, <1>6, <1>7, <1>8 DEF Control, ControlStep

-----------------------------------------------------------------------------
\* The child: what it takes from a ring.

\* A set of numbers that leaves no gap ends where its size says.
LEMMA InitialSegment ==
  ASSUME NEW n \in Nat, NEW D \in SUBSET (1..n), \A i \in D : 1..i \subseteq D
  PROVE  /\ Cardinality(D) \in 0..n
         /\ \A i \in 1..n : i \in D <=> i <= Cardinality(D)
  <1>1. IsFiniteSet(D) /\ Cardinality(D) \in Nat /\ Cardinality(D) <= n
    <2>1. IsFiniteSet(1..n) /\ Cardinality(1..n) = n
      BY FS_Interval
    <2>2. IsFiniteSet(D) /\ Cardinality(D) <= Cardinality(1..n)
      BY <2>1, FS_Subset
    <2> QED BY <2>1, <2>2, FS_CardinalityType
  <1>2. ASSUME NEW i \in D PROVE i <= Cardinality(D)
    <2>1. IsFiniteSet(1..i) /\ Cardinality(1..i) = i
      BY FS_Interval
    <2> QED BY <1>1, <2>1, FS_Subset
  <1>3. ASSUME NEW i \in (1..n) \ D PROVE Cardinality(D) < i
    <2>1. IsFiniteSet(1..i - 1) /\ Cardinality(1..i - 1) = i - 1
      BY FS_Interval
    <2>2. D \subseteq 1..i - 1
      <3>1. ASSUME NEW j \in D, j >= i PROVE FALSE
        <4>1. i \in 1..j
          BY <3>1
        <4> QED BY <1>3, <4>1
      <3> QED BY <3>1
    <2>3. Cardinality(D) <= Cardinality(1..i - 1)
      BY <2>1, <2>2, FS_Subset
    <2> QED BY <1>1, <2>1, <2>3
  <1> QED BY <1>1, <1>2, <1>3

LEMMA RingTypes ==
  ASSUME NEW q \in Seq(Event)
  PROVE  /\ Len(q) \in Nat /\ DOMAIN q = 1..Len(q)
         /\ \A i \in 1..Len(q) : q[i] \in Event /\ q[i].time \in Nat /\ q[i].asked \in Nat
  <1>1. Len(q) \in Nat /\ DOMAIN q = 1..Len(q) /\ \A i \in 1..Len(q) : q[i] \in Event
    BY LenProperties, ElementOfSeq
  <1> QED BY <1>1 DEF Event

\* In an ordered ring the events before a time are an initial segment.
LEMMA DueEvents ==
  ASSUME NEW q \in Seq(Event), NEW end \in Nat,
         \A i \in DOMAIN q, j \in DOMAIN q : i <= j => q[i].time <= q[j].time
  PROVE  /\ DueCount(q, end) \in 0..Len(q)
         /\ \A i \in 1..DueCount(q, end) : q[i].time < end
         /\ \A i \in DOMAIN q : i > DueCount(q, end) => q[i].time >= end
  <1> DEFINE D == {i \in 1..Len(q) : q[i].time < end}
             OK(n) == /\ \A i \in 1..n : q[i].time < end
                      /\ n < Len(q) => q[n + 1].time >= end
  <1>1. Len(q) \in Nat /\ DOMAIN q = 1..Len(q) /\ \A i \in 1..Len(q) : q[i].time \in Nat
    BY RingTypes
  <1>2. \A i \in D : 1..i \subseteq D
    BY <1>1
  <1>3. /\ Cardinality(D) \in 0..Len(q)
        /\ \A i \in 1..Len(q) : i \in D <=> i <= Cardinality(D)
    BY <1>1, <1>2, InitialSegment
  <1>4. OK(Cardinality(D))
    <2> DEFINE c == Cardinality(D)
    <2>1. c \in 0..Len(q) /\ \A i \in 1..Len(q) : i \in D <=> i <= c
      BY <1>3
    <2> HIDE DEF c
    <2>2. \A i \in 1..c : q[i].time < end
      BY <1>1, <2>1
    <2>3. c < Len(q) => q[c + 1].time >= end
      BY <1>1, <2>1
    <2> QED BY <2>2, <2>3 DEF c
  <1>5. DueCount(q, end) \in 0..Len(q) /\ OK(DueCount(q, end))
    <2> HIDE DEF D
    <2>1. DueCount(q, end) = CHOOSE n \in 0..Len(q) : OK(n)
      BY DEF DueCount
    <2> QED BY <1>3, <1>4, <2>1
  <1>6. ASSUME NEW i \in DOMAIN q, i > DueCount(q, end) PROVE q[i].time >= end
    <2>1. DueCount(q, end) + 1 \in DOMAIN q /\ DueCount(q, end) + 1 <= i
      BY <1>1, <1>5, <1>6
    <2>2. q[DueCount(q, end) + 1].time <= q[i].time
      BY <2>1
    <2> QED BY <1>1, <1>5, <2>1, <2>2
  <1> QED BY <1>5, <1>6

LEMMA DrainTakesDue ==
  ASSUME TypeOK, EventInv, Drain
  PROVE  /\ child' = [child EXCEPT !.pc = "releasing", !.taken = child'.taken,
                                   !.latest = child'.latest]
         /\ child'.taken \in 0..Len(queue[child.ring]) /\ child'.latest \in Int
         /\ \A i \in DOMAIN queue[child.ring] :
               i > child'.taken => queue[child.ring][i].time >= block.start + child.frames
         /\ child.latest < block.start + child.frames =>
               child'.latest < block.start + child.frames
  <1> DEFINE q == queue[child.ring]
             end == block.start + child.frames
             n == DueCount(q, end)
             Latest(t) == t >= child.latest /\ \A i \in 1..n : t >= q[i].time
             times == {child.latest} \cup {q[i].time : i \in 1..n}
  <1>1. /\ q \in Seq(Event) /\ end \in Nat /\ child.latest \in Int
        /\ child \in [pc : ChildSteps, request : Nat, sequence : Nat, copy : {child.copy},
                      frames : Nat, ring : Rings, taken : Nat, latest : Int]
    BY DEF TypeOK, QueueTypes, BlockType, ChildType
  <1>2. \A i \in DOMAIN q, j \in DOMAIN q : i <= j => q[i].time <= q[j].time
    BY DEF EventInv, RingsAreOrdered, TypeOK, ChildType
  <1>3. child' = [child EXCEPT !.pc = "releasing", !.taken = n,
                     !.latest = CHOOSE t \in times : Latest(t)]
    BY DEF Drain
  <1>4. Len(q) \in Nat /\ DOMAIN q = 1..Len(q) /\ \A i \in 1..Len(q) : q[i].time \in Nat
    BY <1>1, RingTypes
  <1> HIDE DEF q, end
  <1>5. /\ n \in 0..Len(q) /\ \A i \in 1..n : q[i].time < end
        /\ \A i \in DOMAIN q : i > n => q[i].time >= end
    BY <1>1, <1>2, DueEvents
  <1> HIDE DEF n
  <1>6. \E t \in times : Latest(t)
    <2>1. CASE n = 0 \/ (n > 0 /\ q[n].time <= child.latest)
      <3>1. Latest(child.latest)
        BY <1>1, <1>2, <1>4, <1>5, <2>1
      <3> QED BY <3>1
    <2>2. CASE n > 0 /\ q[n].time > child.latest
      <3>1. n \in 1..n /\ Latest(q[n].time)
        BY <1>1, <1>2, <1>4, <1>5, <2>2
      <3> QED BY <3>1
    <2> QED BY <1>1, <1>4, <1>5, <2>1, <2>2
  <1>7. (CHOOSE t \in times : Latest(t)) \in times
    BY <1>6
  <1>8. \A t \in times : t \in Int /\ (child.latest < end => t < end)
    BY <1>1, <1>4, <1>5
  <1>9. child'.taken = n /\ child'.latest \in times
    BY <1>1, <1>3, <1>7
  <1> QED BY <1>1, <1>3, <1>5, <1>8, <1>9 DEF q, end

LEMMA ReleaseShifts ==
  ASSUME TypeOK, EventInv, Release
  PROVE  /\ queue' \in [Rings -> Seq(Event)]
         /\ \A r \in Rings \ {child.ring} : queue'[r] = queue[r]
         /\ \A i \in DOMAIN queue'[child.ring] :
              /\ i + child.taken \in DOMAIN queue[child.ring]
              /\ queue'[child.ring][i] = queue[child.ring][i + child.taken]
  <1> DEFINE q == queue[child.ring]
             k == child.taken
             p == SubSeq(q, k + 1, Len(q))
  <1>1. /\ queue \in [Rings -> Seq(Event)] /\ q \in Seq(Event) /\ k \in Nat
        /\ child.ring \in Rings
    BY DEF TypeOK, QueueTypes, ChildType
  <1>2. queue' = [queue EXCEPT ![child.ring] = p]
    BY DEF Release
  <1>3. Len(q) \in Nat /\ DOMAIN q = 1..Len(q) /\ \A i \in 1..Len(q) : q[i] \in Event
    BY <1>1, LenProperties, ElementOfSeq
  <1>4. k <= Len(q)
    BY DEF EventInv, ChildHasPlace, Release, At
  <1> HIDE DEF q, k
  <1>5. \A i \in k + 1..Len(q) : q[i] \in Event
    BY <1>1, <1>3
  <1>6. /\ p \in Seq(Event) /\ Len(p) = Len(q) - k
        /\ \A i \in 1..Len(q) - k : p[i] = q[i + k]
    <2> DEFINE n == Len(q)
               m == k + 1
    <2>1. m \in Int /\ n \in Int /\ \A i \in m..n : q[i] \in Event
      BY <1>1, <1>3, <1>5
    <2> HIDE DEF n, m
    <2>2. /\ SubSeq(q, m, n) \in Seq(Event)
          /\ Len(SubSeq(q, m, n)) = IF m <= n THEN n - m + 1 ELSE 0
          /\ \A i \in 1..n - m + 1 : SubSeq(q, m, n)[i] = q[m + i - 1]
      BY ONLY <2>1, SubSeqProperties
    <2>3. /\ n - m + 1 = Len(q) - k /\ (~(m <= n) => Len(q) - k = 0)
          /\ \A i \in 1..Len(q) - k : m + i - 1 = i + k
      <3>1. n \in Nat /\ k \in Nat /\ k <= n /\ m = k + 1
        BY <1>1, <1>3, <1>4 DEF n, m
      <3>2. n - m + 1 = n - k /\ (~(m <= n) => n - k = 0)
        BY ONLY <3>1
      <3>3. \A i \in 1..n - k : m + i - 1 = i + k
        BY ONLY <3>1
      <3>4. n = Len(q)
        BY DEF n
      <3> QED BY ONLY <3>2, <3>3, <3>4, Zenon
    <2>4. p = SubSeq(q, m, n)
      BY DEF n, m
    <2> HIDE DEF p
    <2>5. Len(p) = Len(q) - k
      BY ONLY <2>2, <2>3, <2>4
    <2>6. ASSUME NEW i \in 1..Len(q) - k PROVE p[i] = q[i + k]
      <3>1. i \in 1..n - m + 1 /\ m + i - 1 = i + k
        BY <2>3
      <3>2. SubSeq(q, m, n)[i] = q[m + i - 1]
        BY <2>2, <3>1
      <3> QED BY ONLY <2>4, <3>1, <3>2, Zenon
    <2> QED BY <2>2, <2>4, <2>5, <2>6
  <1> HIDE DEF p
  <1>7. DOMAIN p = 1..Len(q) - k
    BY <1>6, LenProperties
  <1>8. \A i \in DOMAIN p : i + k \in DOMAIN q /\ p[i] = q[i + k]
    BY <1>1, <1>3, <1>4, <1>6, <1>7
  <1>9. queue' \in [Rings -> Seq(Event)] /\ queue'[child.ring] = p
    BY <1>1, <1>2, <1>6
  <1> QED BY <1>1, <1>2, <1>8, <1>9 DEF q, k

-----------------------------------------------------------------------------
\* The child: what its steps do.

LEMMA ServingLeavesAlone ==
  ASSUME Serving
  PROVE  UNCHANGED <<host, audio, position, heard, control, reply, sent>>
  BY DEF Serving, Open, Loop, Wake, LoadCall, LoadKind, ReadBlob, LoadState, SaveState, StoreBlob,
         Answer, LoadRequest, LoadFrames, Drain, Release, Render, EndRender, Complete, notChild,
         hostVars, audioVars, controlVars

LEMMA ChildTypeKept ==
  ASSUME TypeOK, EventInv, Serving
  PROVE  ChildType'
  <1> USE DEF ChildType, ChildSteps, RenderSteps, CallSteps, Ends, Rings, GoTo, At
  <1>0. /\ child \in [pc : ChildSteps, request : Nat, sequence : Nat, copy : {child.copy},
                      frames : Nat, ring : Rings, taken : Nat, latest : Int]
        /\ state.sequence \in Nat /\ block.request \in Nat /\ block.frames \in Nat
    BY DEF TypeOK, StateType, BlockType
  <1>1. CASE Open \/ Loop
    BY <1>0, <1>1 DEF Open, Loop, End, Ended, ChildAt
  <1>2. CASE Wake \/ LoadKind \/ Answer \/ Complete
    BY <1>0, <1>2 DEF Wake, LoadKind, Answer, Complete
  <1>3. CASE LoadCall
    <2>1. CASE shutdown
      BY <1>0, <1>3, <2>1 DEF LoadCall, End, Ended, ChildAt
    <2>2. CASE ~shutdown
      <3>1. \E pc \in {"calling", "asking"} :
              child' = [child EXCEPT !.pc = pc, !.sequence = state.sequence]
        BY <1>3, <2>2 DEF LoadCall
      <3> QED BY <1>0, <3>1
    <2> QED BY <2>1, <2>2
  <1>4. CASE ReadBlob
    BY <1>0, <1>4 DEF ReadBlob
  <1>5. CASE LoadState \/ StoreBlob
    BY <1>0, <1>5 DEF LoadState, StoreBlob
  <1>6. CASE SaveState
    BY <1>0, <1>6 DEF SaveState
  <1>7. CASE LoadRequest
    BY <1>0, <1>7 DEF LoadRequest
  <1>8. CASE LoadFrames
    <2>1. /\ child' = [child EXCEPT !.pc = "draining", !.frames = block.frames, !.latest = -1]
          /\ -1 \in Int
      BY <1>8 DEF LoadFrames
    <2> QED BY <1>0, <2>1
  <1>9. CASE Drain
    <2>1. /\ child' = [child EXCEPT !.pc = "releasing", !.taken = child'.taken,
                                    !.latest = child'.latest]
          /\ child'.taken \in Nat /\ child'.latest \in Int
      BY <1>9, DrainTakesDue
    <2> QED BY <1>0, <2>1
  <1>10. CASE Release
    BY <1>0, <1>10 DEF Release
  <1>11. CASE Render
    BY <1>0, <1>11 DEF Render
  <1>12. CASE EndRender
    BY <1>0, <1>12 DEF EndRender
  <1> QED BY <1>1, <1>2, <1>3, <1>4, <1>5, <1>6, <1>7, <1>8, <1>9, <1>10, <1>11, <1>12
          DEF Serving

LEMMA ServingTypesKept ==
  ASSUME TypeOK, EventInv, Serving
  PROVE  TypeOK'
  <1>1. AudioTypes' /\ ControlTypes'
    BY ServingLeavesAlone DEF TypeOK, AudioTypes, ControlTypes
  <1>2. QueueTypes'
    <2>1. CASE Release
      BY <2>1, ReleaseShifts, ServingLeavesAlone DEF TypeOK, QueueTypes
    <2>2. CASE ~Release
      BY <2>2, ServingLeavesAlone DEF TypeOK, QueueTypes, Serving, Open, Loop, Wake, LoadCall,
         LoadKind, ReadBlob, LoadState, SaveState, StoreBlob, Answer, LoadRequest, LoadFrames,
         Drain, Render, EndRender, Complete
    <2> QED BY <2>1, <2>2
  <1>3. BlockType'
    <2> USE DEF TypeOK, BlockType, ChildType
    <2>1. CASE Render
      BY <2>1 DEF Render
    <2>2. CASE EndRender
      BY <2>2 DEF EndRender
    <2>3. CASE Complete
      BY <2>3 DEF Complete
    <2>4. CASE UNCHANGED block
      BY <2>4
    <2> QED BY <2>1, <2>2, <2>3, <2>4 DEF Serving, Open, Loop, Wake, LoadCall,
         LoadKind, ReadBlob, LoadState, SaveState, StoreBlob, Answer, LoadRequest, LoadFrames,
         Drain, Release
  <1>4. StateType'
    <2> USE DEF TypeOK, StateType, ChildType
    <2>1. CASE LoadState
      BY <2>1 DEF LoadState
    <2>2. CASE SaveState
      BY <2>2 DEF SaveState
    <2>3. CASE StoreBlob
      BY <2>3 DEF StoreBlob
    <2>4. CASE Answer
      BY <2>4 DEF Answer
    <2>5. CASE UNCHANGED state
      BY <2>5
    <2> QED BY <2>1, <2>2, <2>3, <2>4, <2>5 DEF Serving, Open, Loop, Wake, LoadCall,
         LoadKind, ReadBlob, LoadRequest, LoadFrames, Drain, Release, Render, EndRender, Complete
  <1> QED BY <1>1, <1>2, <1>3, <1>4, ChildTypeKept DEF TypeOK

CallWork ==
    Open \/ Loop \/ Wake \/ LoadCall \/ LoadKind \/ ReadBlob \/ LoadState \/ SaveState
    \/ StoreBlob \/ Answer

\* The steps outside rendering, or the end.
LEMMA CallWorkSteps ==
  ASSUME TypeOK, CallWork
  PROVE  /\ UNCHANGED <<block, queue>>
         /\ \/ /\ child.pc \notin RenderSteps \cup Ends /\ child'.pc \notin RenderSteps \cup Ends
               /\ child'.request = child.request /\ child'.ring = child.ring
               /\ child'.latest = child.latest
            \/ child'.pc \in Ends /\ child'.ring = "parameters" /\ child'.latest = child.latest
  <1> USE DEF TypeOK, ChildType, RenderSteps, Ends, At, GoTo, End, Ended, ChildAt
  <1>1. CASE Open \/ Loop \/ Wake
    BY <1>1 DEF Open, Loop, Wake
  <1>2. CASE LoadCall
    BY <1>2 DEF LoadCall
  <1>3. CASE LoadKind \/ ReadBlob \/ LoadState
    BY <1>3 DEF LoadKind, ReadBlob, LoadState
  <1>4. CASE SaveState \/ StoreBlob \/ Answer
    BY <1>4 DEF SaveState, StoreBlob, Answer
  <1> QED BY <1>1, <1>2, <1>3, <1>4 DEF CallWork

LEMMA ServingBlock ==
  ASSUME TypeOK, BlockInv, Serving
  PROVE  BlockInv'
  <1>1. UNCHANGED <<host, audio, heard>>
    BY ServingLeavesAlone
  <1>2. CASE CallWork
    BY <1>1, <1>2, CallWorkSteps, BlockFrame
  <1> USE DEF At, GoTo
  <1>3. CASE LoadRequest
    <2> USE <1>1, <1>3 DEF TypeOK, ChildType, BlockType, LoadRequest, RenderSteps, Ends, BlockInv,
                           RequestsInOrder, Rendering, BlockIsDone
    <2>1. RequestsInOrder'
      OBVIOUS
    <2> QED BY <2>1
  <1>4. CASE LoadFrames \/ Drain \/ Release
    <2>1. /\ UNCHANGED block /\ child.pc \in RenderSteps
          /\ child'.pc \in {"draining", "releasing", "rendering"}
          /\ child'.request = child.request
      BY <1>4 DEF LoadFrames, Drain, Release, RenderSteps, TypeOK, ChildType
    <2>2. Rendering' <=> Rendering
      BY <1>1, <2>1 DEF Rendering, RenderSteps
    <2>3. RequestsInOrder'
      BY <2>1 DEF BlockInv, RequestsInOrder, RenderSteps, Ends
    <2> QED BY <1>1, <2>1, <2>2, <2>3 DEF BlockInv, BlockIsDone
  <1>5. CASE Render \/ EndRender
    <2>1. /\ child.pc \in RenderSteps /\ child'.pc \in RenderSteps
          /\ child'.request = child.request
          /\ block'.request = block.request /\ block'.input = block.input
          /\ block'.completion = block.completion
      BY <1>5 DEF Render, EndRender, TypeOK, ChildType, BlockType, RenderSteps
    <2>2. RequestsInOrder'
      BY <2>1 DEF BlockInv, RequestsInOrder, RenderSteps, Ends
    <2>3. ~BlockIsDone /\ ~BlockIsDone'
      BY <1>1, <2>1 DEF TypeOK, ChildType, BlockType, BlockInv, RequestsInOrder, BlockIsDone,
         RenderSteps, Ends
    <2>4. Rendering' => Rendering /\ block.input = block.request
      BY <1>1, <2>1 DEF Rendering, BlockInv
    <2>5. Rendering' /\ child'.pc = "rendered" => child'.copy = block'.request
      BY <1>5, <2>1, <2>4 DEF Render, EndRender, TypeOK, ChildType
    <2>6. Rendering' /\ child'.pc = "completing" => block'.output = block'.request
      BY <1>5, <2>1, <2>4 DEF Render, EndRender, TypeOK, ChildType, BlockType, BlockInv, Read
    <2> QED BY <1>1, <2>1, <2>2, <2>3, <2>5, <2>6 DEF BlockInv
  <1>6. CASE Complete
    <2> USE <1>1, <1>6 DEF TypeOK, ChildType, BlockType, Complete, RenderSteps, Ends,
                           BlockInv, RequestsInOrder, Rendering, BlockIsDone
    <2>1. RequestsInOrder' /\ ~BlockIsDone
      OBVIOUS
    <2>2. BlockIsDone' => block'.output = block'.request
      OBVIOUS
    <2> QED BY <2>1, <2>2
  <1> QED BY <1>2, <1>3, <1>4, <1>5, <1>6 DEF Serving, CallWork

LEMMA ServingEvents ==
  ASSUME TypeOK, RequestsInOrder, EventInv, Serving
  PROVE  EventInv'
  <1>1. UNCHANGED <<host, audio, position, sent>>
    BY ServingLeavesAlone
  <1>2. CASE CallWork
    BY <1>1, <1>2, CallWorkSteps, EventFrame
  <1> USE DEF At, GoTo
  <1>3. /\ child \in [pc : ChildSteps, request : Nat, sequence : Nat, copy : {child.copy},
                      frames : Nat, ring : Rings, taken : Nat, latest : Int]
        /\ block \in [input : {block.input}, frames : Nat, start : Nat,
                      request : Nat, completion : Nat, output : {block.output}]
        /\ position \in Nat
    BY DEF TypeOK, ChildType, BlockType, AudioTypes
  <1>4. child.pc \in RenderSteps => ~BlockIsDone
    BY <1>3 DEF RequestsInOrder, BlockIsDone, RenderSteps, Ends
  <1>5. CASE LoadRequest \/ LoadFrames \/ Drain
    <2>1. UNCHANGED <<block, queue>>
      BY <1>5 DEF LoadRequest, LoadFrames, Drain
    <2>2. RingsAreOrdered' /\ BlockEndsNow'
      BY <1>1, <2>1 DEF EventInv, RingsAreOrdered, BlockEndsNow
    <2>3. /\ BlockIsDone' <=> BlockIsDone
          /\ \A r : Passed(r)' <=> Passed(r)
      BY <1>1, <2>1 DEF BlockIsDone, Passed
    <2>4. CASE LoadRequest
      <3> USE <1>1, <1>3, <2>1, <2>4 DEF LoadRequest
      <3>1. ChildHasPlace'
        BY DEF EventInv, ChildHasPlace
      <3>2. DrainInv'
        BY DEF EventInv, DrainInv, ChildHasPlace, Rendering, RenderSteps
      <3> QED BY <2>2, <2>3, <3>1, <3>2 DEF EventInv
    <2>5. CASE LoadFrames
      <3>1. child.pc = "measuring"
            /\ child' = [child EXCEPT !.pc = "draining", !.frames = block.frames, !.latest = -1]
        BY <2>5 DEF LoadFrames
      <3> USE <1>1, <1>3, <2>1, <3>1
      <3>2. ChildHasPlace'
        BY DEF EventInv, ChildHasPlace
      <3>3. DrainInv'
        BY DEF EventInv, DrainInv, ChildHasPlace
      <3>4. ~BlockIsDone'
        BY <1>4, <2>3 DEF RenderSteps
      <3> QED BY <2>2, <3>2, <3>3, <3>4 DEF EventInv
    <2>6. CASE Drain
      <3>1. child.pc = "draining"
        BY <2>6 DEF Drain
      <3>2. /\ child' = [child EXCEPT !.pc = "releasing", !.taken = child'.taken,
                                      !.latest = child'.latest]
            /\ child'.taken \in 0..Len(queue[child.ring]) /\ child'.latest \in Int
            /\ \A i \in DOMAIN queue[child.ring] :
                  i > child'.taken => queue[child.ring][i].time >= block.start + child.frames
            /\ child.latest < block.start + child.frames =>
                  child'.latest < block.start + child.frames
        BY <2>6, DrainTakesDue
      <3>3. /\ child'.pc = "releasing" /\ child'.ring = child.ring
            /\ child'.frames = child.frames /\ child'.request = child.request
        BY <1>3, <3>2
      <3>4. ChildHasPlace'
        <4>1. Len(queue[child.ring]) \in Nat
          BY <1>3, RingTypes DEF TypeOK, QueueTypes
        <4> QED BY <2>1, <3>2, <3>3, <4>1 DEF ChildHasPlace
      <3>5. DrainInv'
        <4> SUFFICES ASSUME Rendering' PROVE DrainInv'
          BY DEF DrainInv
        <4>1. Rendering
          BY <1>1, <2>1, <3>1, <3>3 DEF Rendering, RenderSteps
        <4>2. block.start + child.frames = position
          BY <3>1, <4>1 DEF EventInv, DrainInv, BlockEndsNow, Rendering, Quiet
        <4>3. child'.frames = block.frames /\ child'.latest < position
          BY <3>1, <3>2, <3>3, <4>1, <4>2 DEF EventInv, DrainInv
        <4>4. child.ring = "midi" => Passed("parameters")
          BY <4>1 DEF EventInv, DrainInv
        <4>5. \A i \in DOMAIN queue[child.ring] :
                 i > child'.taken => queue[child.ring][i].time >= position
          BY <3>2, <4>2
        <4> QED BY <1>1, <2>1, <2>3, <3>3, <4>3, <4>4, <4>5 DEF DrainInv
      <3>6. ~BlockIsDone'
        BY <1>4, <2>3, <3>1 DEF RenderSteps
      <3> QED BY <2>2, <3>4, <3>5, <3>6 DEF EventInv
    <2> QED BY <1>5, <2>4, <2>5, <2>6
  <1>6. CASE Release
    <2>1. UNCHANGED block /\ child.pc = "releasing"
      BY <1>6 DEF Release
    <2>2. /\ queue' \in [Rings -> Seq(Event)]
          /\ \A r \in Rings \ {child.ring} : queue'[r] = queue[r]
          /\ \A i \in DOMAIN queue'[child.ring] :
               /\ i + child.taken \in DOMAIN queue[child.ring]
               /\ queue'[child.ring][i] = queue[child.ring][i + child.taken]
          /\ \A r \in Rings : DOMAIN queue'[r] = 1..Len(queue'[r])
      <3>1. queue' \in [Rings -> Seq(Event)]
        BY <1>6, ReleaseShifts
      <3> QED BY <1>6, <3>1, ReleaseShifts, RingTypes
    <2>3. \/ /\ child.ring = "parameters" /\ child'.pc = "draining" /\ child'.ring = "midi"
             /\ child'.frames = child.frames
          \/ child.ring = "midi" /\ child'.pc = "rendering" /\ child'.ring = "parameters"
      BY <1>3, <1>6 DEF Release, Rings
    <2>4. child'.request = child.request /\ child'.latest = child.latest
      BY <1>3, <1>6 DEF Release
    <2>5. RingsAreOrdered'
      <3> SUFFICES ASSUME NEW r \in Rings
                   PROVE  /\ \A i \in DOMAIN queue'[r], j \in DOMAIN queue'[r] :
                               i <= j => queue'[r][i].time <= queue'[r][j].time
                          /\ \A i \in DOMAIN queue'[r] : queue'[r][i].time <= sent.last[r]
        BY <1>1 DEF RingsAreOrdered
      <3>1. /\ \A i \in DOMAIN queue[r], j \in DOMAIN queue[r] :
                 i <= j => queue[r][i].time <= queue[r][j].time
            /\ \A i \in DOMAIN queue[r] : queue[r][i].time <= sent.last[r]
        BY DEF EventInv, RingsAreOrdered
      <3>2. CASE r = child.ring
        <4>1. \A i \in DOMAIN queue'[r], j \in DOMAIN queue'[r] :
                 i <= j => i + child.taken <= j + child.taken
          BY <1>3, <2>2
        <4> QED BY <2>2, <3>1, <3>2, <4>1
      <3> QED BY <2>2, <3>1, <3>2
    <2>6. ChildHasPlace' /\ BlockEndsNow'
      BY <1>1, <2>1, <2>3 DEF EventInv, ChildHasPlace, BlockEndsNow
    <2>7. \A r \in Rings \ {child.ring} : Passed(r) => Passed(r)'
      BY <1>1, <2>1, <2>2 DEF Passed
    <2>8. Rendering' => Rendering
      BY <1>1, <2>1, <2>4 DEF Rendering, RenderSteps
    <2>9. PICK k \in Rings : k = child.ring
      BY <1>3
    <2>10. Rendering => Passed(k)'
      <3> SUFFICES ASSUME Rendering, NEW i \in DOMAIN queue'[k], queue'[k][i].asked < block.request
                   PROVE  queue'[k][i].time >= position
        BY <1>1, <2>1 DEF Passed
      <3>1. i + child.taken > child.taken
        BY <1>3, <2>2, <2>9
      <3> QED BY <2>1, <2>2, <2>9, <3>1 DEF EventInv, DrainInv
    <2>11. DrainInv'
      <3> SUFFICES ASSUME Rendering' PROVE DrainInv'
        BY DEF DrainInv
      <3>1. Rendering /\ Passed(k)'
        BY <2>8, <2>10
      <3>2. child'.latest < position /\ child.frames = block.frames
        BY <2>1, <2>4, <3>1 DEF EventInv, DrainInv
      <3>3. CASE k = "parameters"
        BY <1>1, <2>1, <2>3, <2>9, <3>1, <3>2, <3>3 DEF DrainInv
      <3>4. CASE k = "midi"
        <4>1. Passed("parameters")'
          BY <2>7, <2>9, <3>1, <3>4 DEF EventInv, DrainInv, Rings
        <4> QED BY <1>1, <2>1, <2>3, <2>9, <3>1, <3>2, <3>4, <4>1 DEF DrainInv, Rings
      <3> QED BY <2>3, <2>9, <3>3, <3>4
    <2>12. ~BlockIsDone'
      BY <1>1, <1>4, <2>1 DEF RenderSteps, BlockIsDone
    <2> QED BY <2>5, <2>6, <2>11, <2>12 DEF EventInv
  <1>7. CASE Render \/ EndRender \/ Complete
    <2>1. /\ child.pc \in {"rendering", "rendered", "completing"}
          /\ child'.pc \in {"rendered", "completing", "looping"}
          /\ child'.request = child.request /\ child'.ring = child.ring
          /\ child'.latest = child.latest
      BY <1>3, <1>7 DEF Render, EndRender, Complete
    <2>2. /\ queue' = queue /\ block'.request = block.request /\ block'.frames = block.frames
          /\ block'.start = block.start
          /\ \/ block'.completion = block.completion
             \/ block'.completion = child.request /\ child.pc = "completing"
      BY <1>3, <1>7 DEF Render, EndRender, Complete
    <2>3. RingsAreOrdered' /\ BlockEndsNow' /\ ChildHasPlace'
      BY <1>1, <2>1, <2>2 DEF EventInv, RingsAreOrdered, BlockEndsNow, ChildHasPlace
    <2>4. \A r : Passed(r)' <=> Passed(r)
      BY <1>1, <2>2 DEF Passed
    <2>5. (Rendering' => Rendering) /\ (BlockIsDone' => Rendering)
      BY <1>1, <1>4, <2>1, <2>2 DEF Rendering, BlockIsDone, RenderSteps
    <2>6. Rendering => child'.latest < position /\ \A r \in Rings : Passed(r)'
      BY <2>1, <2>4 DEF EventInv, DrainInv
    <2>7. child'.ring = "parameters"
      BY <2>1 DEF EventInv, ChildHasPlace
    <2>8. DrainInv'
      BY <1>1, <2>1, <2>5, <2>6, <2>7 DEF DrainInv
    <2> QED BY <1>1, <2>3, <2>5, <2>6, <2>8 DEF EventInv
  <1> QED BY <1>2, <1>5, <1>6, <1>7 DEF Serving, CallWork

\* While the child serves a call none is answered, and one that began with
\* none outstanding is the one it serves.
LEMMA OneCallServed ==
  ASSUME TypeOK, CallInv, child.pc \in CallSteps
  PROVE  /\ state.completion < child.sequence /\ child.sequence <= state.sequence
         /\ reply.status \notin {"ok", "rejected"}
         /\ host = "up" /\ control.pc \in {"copying", "described"} => ~control.clean
         /\ host = "up" /\ control.pc \in {"published", "waiting", "answered"} =>
              /\ control.clean => child.sequence = state.sequence
              /\ control.pc # "answered"
  <1>1. /\ state.completion \in Nat /\ state.sequence \in Nat /\ child.sequence \in Nat
        /\ child.pc \notin Ends
    BY DEF TypeOK, StateType, ChildType, CallSteps, Ends
  <1>2. state.completion < child.sequence /\ child.sequence <= state.sequence
    BY <1>1 DEF CallInv, CallsInOrder
  <1> QED BY <1>1, <1>2 DEF CallInv, ReplyInv, PreparedInv, ServedInv

LEMMA ServingCalls ==
  ASSUME TypeOK, CallInv, Serving
  PROVE  CallInv'
  <1>1. UNCHANGED <<host, control, reply>>
    BY ServingLeavesAlone
  <1> USE DEF At, GoTo
  <1>2. /\ child \in [pc : ChildSteps, request : Nat, sequence : Nat, copy : {child.copy},
                      frames : Nat, ring : Rings, taken : Nat, latest : Int]
        /\ state \in [blob : {state.blob}, filled : BOOLEAN, kind : Kinds,
                      result : {"ok", "rejected"}, sequence : Nat, completion : Nat]
    BY DEF TypeOK, ChildType, StateType
  <1>3. CASE \/ Open \/ Loop \/ Wake \/ LoadRequest \/ LoadFrames \/ Drain \/ Release \/ Render
             \/ EndRender \/ Complete
    <2>1. UNCHANGED <<state, plugin>>
      BY <1>3 DEF Open, Loop, Wake, LoadRequest, LoadFrames, Drain, Release, Render, EndRender,
         Complete
    <2>2. \/ /\ child.pc \notin CallSteps \cup Ends /\ child'.pc \notin CallSteps \cup Ends
             /\ child'.sequence = child.sequence
          \/ child'.pc \in Ends
      <3> USE <1>2 DEF CallSteps, Ends
      <3>1. CASE Open
        BY <3>1 DEF Open, End, Ended, ChildAt
      <3>2. CASE Loop
        BY <3>2 DEF Loop, End, Ended, ChildAt
      <3>3. CASE Wake
        BY <3>3 DEF Wake, End, Ended, ChildAt
      <3>4. CASE LoadRequest
        BY <3>4 DEF LoadRequest
      <3>5. CASE LoadFrames
        BY <3>5 DEF LoadFrames
      <3>6. CASE Drain
        BY <3>6 DEF Drain
      <3>7. CASE Release
        BY <3>7 DEF Release
      <3>8. CASE Render
        BY <3>8 DEF Render
      <3>9. CASE EndRender \/ Complete
        BY <3>9 DEF EndRender, Complete
      <3> QED BY <1>3, <3>1, <3>2, <3>3, <3>4, <3>5, <3>6, <3>7, <3>8, <3>9
    <2> QED BY <1>1, <2>1, <2>2, CallFrame
  <1>4. CASE LoadCall
    <2>1. UNCHANGED <<state, plugin>> /\ child.pc = "woken"
      BY <1>4 DEF LoadCall
    <2>2. CASE shutdown
      BY <1>1, <1>4, <2>1, <2>2, CallFrame DEF LoadCall, End, Ended, ChildAt, Ends
    <2>3. CASE ~shutdown
      <3>1. /\ child'.sequence = state.sequence
            /\ child'.pc = IF state.sequence # child.sequence THEN "calling" ELSE "asking"
        BY <1>2, <1>4, <2>3 DEF LoadCall
      <3>2. CallsInOrder'
        BY <1>2, <2>1, <3>1 DEF CallInv, CallsInOrder, CallSteps, Ends
      <3>3. ReplyInv'
        BY <1>1, <2>1 DEF CallInv, ReplyInv
      <3>4. host = "up" => PreparedInv'
        BY <1>1, <2>1 DEF CallInv, PreparedInv
      <3>5. AnswerHolds' <=> AnswerHolds
        BY <1>1, <2>1 DEF AnswerHolds
      <3>6. host = "up" => ServedInv'
        BY <1>1, <2>1, <3>1, <3>5 DEF CallInv, ServedInv, CallSteps, Ends
      <3> QED BY <1>1, <3>2, <3>3, <3>4, <3>6 DEF CallInv
    <2> QED BY <2>2, <2>3
  <1>5. CASE LoadKind \/ ReadBlob \/ LoadState \/ SaveState \/ StoreBlob \/ Answer
    <2>1. /\ child.pc \in CallSteps /\ child'.sequence = child.sequence
          /\ state'.sequence = state.sequence /\ state'.kind = state.kind
          /\ \/ child'.pc \in CallSteps /\ state'.completion = state.completion
             \/ child'.pc = "asking" /\ state'.completion = child.sequence
      BY <1>2, <1>5 DEF LoadKind, ReadBlob, LoadState, SaveState, StoreBlob, Answer, CallSteps
    <2>2. /\ state.completion < child.sequence /\ child.sequence <= state.sequence
          /\ reply.status \notin {"ok", "rejected"}
          /\ host = "up" /\ control.pc \in {"copying", "described"} => ~control.clean
          /\ host = "up" /\ control.pc \in {"published", "waiting", "answered"} =>
               /\ control.clean => child.sequence = state.sequence
               /\ control.pc # "answered"
      BY <2>1, OneCallServed
    <2>3. CallsInOrder'
      BY <1>2, <2>1, <2>2 DEF CallInv, CallsInOrder, CallSteps, Ends
    <2>4. ReplyInv'
      BY <1>1, <2>2 DEF ReplyInv
    <2>5. host = "up" => PreparedInv'
      <3>1. control.kind = "restore" /\ control.clean /\ host = "up"
              /\ control.pc \in {"published", "waiting"} =>
                UNCHANGED <<state.filled, state.blob>>
        BY <1>5, <2>2 DEF LoadKind, ReadBlob, LoadState, SaveState, StoreBlob, Answer, CallInv,
           ServedInv, CallSteps, StateType, TypeOK
      <3> QED BY <1>1, <2>1, <2>2, <3>1 DEF CallInv, PreparedInv
    <2>6. ASSUME host = "up", control.pc \in {"published", "waiting"},
                 child.sequence = state.sequence
          PROVE  ServedInv'
      <3>1. /\ child.pc = "answering" => AnswerHolds
            /\ control.kind = "restore" => child.pc \notin {"capturing", "saving"}
            /\ control.kind = "capture" => child.pc \notin {"restoring", "loading"}
            /\ child.pc = "saving" => child.copy = plugin /\ state.blob = Torn
            /\ child.pc = "loading" /\ control.clean => child.copy = control.blob
            /\ control.clean /\ child.pc # "answering" => plugin = control.before
            /\ control.clean => state.sequence <= state.completion + 1
            /\ state.kind = control.kind /\ control.kind \in {"restore", "capture"}
            /\ control.kind = "restore" /\ control.clean =>
                 state.filled /\ state.blob = control.blob
        BY <2>1, <2>2, <2>6 DEF CallInv, ServedInv, PreparedInv, CallSteps, Ends, TypeOK,
           ControlTypes, Kinds
      <3>2. CASE LoadKind
        BY <1>1, <1>2, <2>1, <2>2, <2>6, <3>1, <3>2 DEF LoadKind, ServedInv
      <3>3. CASE ReadBlob
        BY <1>1, <1>2, <2>1, <2>2, <2>6, <3>1, <3>3 DEF ReadBlob, ServedInv
      <3>4. CASE LoadState
        <4>1. child'.pc = "answering" /\ child.pc = "loading"
          BY <1>2, <3>4 DEF LoadState
        <4>2. AnswerHolds'
          BY <1>1, <1>2, <3>1, <3>4, <4>1 DEF LoadState, AnswerHolds, Read
        <4> QED BY <1>1, <1>2, <2>1, <2>2, <2>6, <3>1, <4>1, <4>2 DEF ServedInv
      <3>5. CASE SaveState
        <4>1. \/ /\ child'.pc = "saving" /\ child'.copy = plugin /\ UNCHANGED plugin
                 /\ state'.blob = Torn
              \/ child'.pc = "answering" /\ state'.result = "rejected" /\ UNCHANGED plugin
          BY <1>2, <3>5 DEF SaveState
        <4>2. control.kind = "capture" /\ child.pc = "capturing"
          BY <3>1, <3>5 DEF SaveState
        <4>3. child'.pc = "answering" => AnswerHolds'
          BY <1>1, <4>1, <4>2 DEF AnswerHolds
        <4> QED BY <1>1, <1>2, <2>1, <2>2, <2>6, <3>1, <4>1, <4>2, <4>3 DEF ServedInv
      <3>6. CASE StoreBlob
        <4>1. /\ child'.pc = "answering" /\ child.pc = "saving" /\ UNCHANGED plugin
              /\ state'.blob \in Landed(state.blob, child.copy) /\ state'.filled = TRUE
          BY <1>2, <3>6 DEF StoreBlob
        <4>2. control.kind = "capture" /\ state'.blob = plugin
          BY <3>1, <4>1 DEF Landed
        <4>3. AnswerHolds'
          BY <1>1, <4>1, <4>2 DEF AnswerHolds
        <4> QED BY <1>1, <1>2, <2>1, <2>2, <2>6, <3>1, <4>1, <4>2, <4>3 DEF ServedInv
      <3>7. CASE Answer
        <4>1. /\ child'.pc = "asking" /\ child.pc = "answering" /\ UNCHANGED plugin
              /\ state'.completion = child.sequence
              /\ UNCHANGED <<state.filled, state.blob, state.result>>
          BY <1>2, <3>7 DEF Answer
        <4>2. AnswerHolds'
          BY <1>1, <3>1, <4>1 DEF AnswerHolds
        <4> QED BY <1>1, <1>2, <2>1, <2>2, <2>6, <3>1, <4>1, <4>2 DEF ServedInv, CallSteps
      <3> QED BY <1>5, <3>2, <3>3, <3>4, <3>5, <3>6, <3>7
    <2>7. ASSUME host = "up", control.pc \in {"published", "waiting"},
                 child.sequence # state.sequence
          PROVE  ServedInv'
      <3>1. ~control.clean /\ state'.completion # state'.sequence
        BY <1>2, <2>1, <2>2, <2>7
      <3> QED BY <1>1, <2>1, <2>2, <2>7, <3>1 DEF ServedInv
    <2>8. host = "up" /\ control.pc \notin {"published", "waiting"} => ServedInv'
      BY <1>1, <2>2 DEF ServedInv
    <2> QED BY <1>1, <2>3, <2>4, <2>5, <2>6, <2>7, <2>8 DEF CallInv
  <1> QED BY <1>3, <1>4, <1>5 DEF Serving

-----------------------------------------------------------------------------
\* What goes wrong, and the whole.

\* An end of the child's is one for all the others.
LEMMA ChildEnds ==
  ASSUME IInv, Hang \/ Crash \/ Watchdog
  PROVE  IInv'
  <1>1. /\ UNCHANGED <<host, audio, position, heard, control, reply, sent, block, state, queue,
                       plugin>>
        /\ child'.pc \in Ends /\ child'.ring = "parameters" /\ child'.latest = child.latest
        /\ \E pc \in Ends : child' = Ended(pc)
    BY DEF Hang, Crash, Watchdog, End, Ended, ChildAt, Ends, notChild, hostVars, audioVars,
       controlVars
  <1>2. TypeOK'
    <2>1. ChildType'
      BY <1>1 DEF IInv, TypeOK, ChildType, Ended, ChildAt, ChildSteps, Ends, Rings
    <2>2. AudioTypes' /\ BlockType' /\ ControlTypes' /\ StateType' /\ QueueTypes'
      BY <1>1 DEF IInv, TypeOK, AudioTypes, BlockType, ControlTypes, StateType, QueueTypes
    <2> QED BY <2>1, <2>2 DEF TypeOK
  <1> QED BY <1>1, <1>2, BlockFrame, EventFrame, CallFrame DEF IInv

LEMMA HostDeath ==
  ASSUME IInv, HostDies
  PROVE  IInv'
  <1>1. /\ UNCHANGED <<position, sent, block, state, queue, child, plugin>>
        /\ host' = "dead" /\ audio' = NoBlock /\ heard' = Unheard
        /\ control' = NoCall /\ reply' = NoReply
    BY DEF HostDies
  <1>2. TypeOK'
    BY <1>1 DEF IInv, TypeOK, AudioTypes, BlockType, ControlTypes, StateType, QueueTypes, ChildType,
       NoBlock, Unheard, NoCall, NoReply, AudioSteps, Quiet, ControlSteps, NoCallSteps, Kinds
  <1>3. BlockInv'
    BY <1>1 DEF IInv, BlockInv, RequestsInOrder, Rendering, BlockIsDone, NoBlock, Unheard
  <1>4. EventInv'
    BY <1>1 DEF IInv, EventInv, RingsAreOrdered, BlockEndsNow, ChildHasPlace, DrainInv, Rendering,
       BlockIsDone
  <1>5. CallInv'
    BY <1>1 DEF IInv, CallInv, CallsInOrder, ReplyInv, NoReply
  <1> QED BY <1>2, <1>3, <1>4, <1>5 DEF IInv

LEMMA Stuttering ==
  ASSUME IInv, UNCHANGED vars
  PROVE  IInv'
  <1>1. UNCHANGED <<host, audio, position, heard, control, reply, sent, block, state, queue, child,
                    plugin>>
    BY DEF vars, hostVars, audioVars, controlVars
  <1>2. TypeOK'
    BY <1>1 DEF IInv, TypeOK, AudioTypes, BlockType, ControlTypes, StateType, QueueTypes, ChildType
  <1> QED BY <1>1, <1>2, BlockFrame, EventFrame, CallFrame DEF IInv

LEMMA Initially == Init => IInv
  <1> SUFFICES ASSUME Init PROVE IInv
    OBVIOUS
  <1>1. BlockInv
    BY DEF Init, BlockInv, RequestsInOrder, Rendering, BlockIsDone, ChildAt, NoBlock, Unheard,
       RenderSteps, Ends, Quiet
  <1>2. EventInv
    BY DEF Init, EventInv, RingsAreOrdered, BlockEndsNow, ChildHasPlace, DrainInv, Rendering,
       BlockIsDone, Passed, ChildAt, NoBlock, RenderSteps
  <1>3. CallInv
    BY DEF Init, CallInv, CallsInOrder, ReplyInv, PreparedInv, ServedInv, ChildAt, NoCall, NoReply,
       CallSteps, Ends
  <1> QED BY <1>1, <1>2, <1>3, InitTypes DEF IInv

LEMMA NextKeeps == IInv /\ [Next]_vars => IInv'
  <1> SUFFICES ASSUME IInv, [Next]_vars PROVE IInv'
    OBVIOUS
  <1> USE DEF IInv
  <1>0. RequestsInOrder
    BY DEF BlockInv
  <1>1. CASE host = "up" /\ Audio
    BY <1>0, <1>1, AudioTypesKept, AudioBlock, AudioEvents, AudioCalls
  <1>2. CASE host = "up" /\ Control
    BY <1>2, ControlTypesKept, ControlBlock, ControlEvents, ControlCalls
  <1>3. CASE Serving
    BY <1>0, <1>3, ServingTypesKept, ServingBlock, ServingEvents, ServingCalls
  <1>4. CASE Hang \/ Crash \/ Watchdog
    BY <1>4, ChildEnds
  <1>5. CASE HostDies
    BY <1>5, HostDeath
  <1>6. CASE Finished \/ UNCHANGED vars
    BY <1>6, Stuttering DEF Finished
  <1> QED BY <1>1, <1>2, <1>3, <1>4, <1>5, <1>6 DEF Next

-----------------------------------------------------------------------------
(* The theorems.                                                           *)

\* The invariant holds.
THEOREM BridgeInvariant == Spec => []IInv
  <1> QED BY Initially, NextKeeps, PTL DEF Spec

\* Every value stays within what the code's types allow it.
THEOREM TypeCorrect == Spec => []TypeOK
  <1>1. IInv => TypeOK
    BY DEF IInv
  <1> QED BY <1>1, BridgeInvariant, PTL

\* processBlock returns, as processed, the answer to its own input: never that
\* of a block it had given up, and never one the child is still writing.
THEOREM BlocksAreHeardWhole == Spec => []OwnBlockIsHeard
  <1>1. IInv => OwnBlockIsHeard
    BY DEF IInv, BlockInv, OwnBlockIsHeard
  <1> QED BY <1>1, BridgeInvariant, PTL

\* A block that is heard had every event that was sent before it was asked for
\* and is due in it, and no event of a later block.
THEOREM EventsReachTheirBlock == Spec => []EventsAreOnTime
  <1>1. IInv => EventsAreOnTime
    <2> SUFFICES ASSUME IInv, audio.pc = "copying" PROVE EventsAreOnTime
      BY DEF EventsAreOnTime
    <2>1. BlockIsDone
      BY DEF IInv, BlockInv
    <2> QED BY <2>1 DEF IInv, EventInv, EventsAreOnTime, Passed
  <1> QED BY <1>1, BridgeInvariant, PTL

\* captureState and restoreState tell the truth of the plug-in's state, however
\* many calls were given up before.
THEOREM AnswersAreTrue == Spec => []StateAnswersAreTrue
  <1>1. IInv => StateAnswersAreTrue
    BY DEF IInv, CallInv, ReplyInv, StateAnswersAreTrue
  <1> QED BY <1>1, BridgeInvariant, PTL
=============================================================================
