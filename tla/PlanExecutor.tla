---------------------------- MODULE PlanExecutor ----------------------------
(***************************************************************************)
(* RenderPlanExecutor: the control thread compiles and publishes render    *)
(* plans, schedules parameter events and sends realtime commands; the      *)
(* audio callback renders a block with the plan it finds, and never waits. *)
(* A plan that was replaced may be destroyed only when the callback can no *)
(* longer use it, which the control thread learns from one atomic          *)
(* generation number.                                                      *)
(*                                                                         *)
(* A plan is known by its generation.  The callback's load of live_ may    *)
(* return an old pointer, but none older than it has seen.  The queues     *)
(* between the threads are the rings of SpscRing, here in the one-step     *)
(* form of BoundedFifo.                                                    *)
(***************************************************************************)
EXTENDS Naturals, FiniteSets, Sequences, SequencesExt

CONSTANTS
    Nodes,               \* node IDs that parameters and commands name
    OutputNode,          \* PrepareInfo::outputNode
    PlanShapes,          \* plans the compiler delivers: see Shape
    FrameCounts,         \* values of PrepareInfo::maximumBlockSize
    DeviceFrames,        \* frames the device asks for in every callback
    CommandCapacity,     \* kRealtimeCommandCapacity, 1024 in the code
    CompletionCapacity,  \* kCommandCompletionCapacity, 1024 in the code
    TelemetryCapacity,   \* kTelemetryCapacity, 2048 in the code
    CommandsPerBlock,    \* kMaximumCommandsPerBlock, 64 in the code
    ParameterCapacity,   \* kParameterQueueCapacity, 4096 in the code
    EventsPerNode,       \* PrepareInfo::maximumParameterEventsPerNode
    AllNodes,            \* target of resetAllNodes
    MaxGeneration,       \* bound: plans published
    MaxSequence,         \* bound: command sequence numbers
    MaxEvents,           \* bound: parameter events offered between two clears
    MaxPosition          \* bound: transport position in samples

\* The nodes with a process operation, and those the resolver knew.
Shape == [routes : SUBSET Nodes, resolved : SUBSET Nodes]

ASSUME ExecutorAssumption ==
    /\ OutputNode \in Nodes /\ AllNodes \notin Nodes
    /\ PlanShapes \subseteq Shape
    /\ FrameCounts \subseteq Nat \ {0} /\ DeviceFrames \in Nat \ {0}
    /\ {CommandCapacity, CompletionCapacity, TelemetryCapacity,
        CommandsPerBlock, ParameterCapacity, EventsPerNode} \subseteq Nat \ {0}
    /\ {MaxGeneration, MaxSequence, MaxEvents, MaxPosition} \subseteq Nat

VARIABLES
    plans,         \* generation -> its shape and block size; all that were published
    live,          \* live_ and livePlan_: a generation, 0 for none
    published,     \* what live_ has held since the stream was started
    retired,       \* retiredPlans_: plan and safeAfterGeneration
    destroyed,     \* plans whose memory is gone
    publishing,    \* prepareAndPublish has stored live_ and not reclaimed yet
    format,        \* maximumBlockSize_ (0 before the first prepare)
    output,        \* outputStorage_: zeros, this callback's block, or an older one
    callback,      \* the audio thread: step, plan last loaded, commands drained
    acknowledged,  \* acknowledgedGeneration_
    position,      \* TransportSnapshot::samplePosition of the next callback
    commands,      \* realtimeCommands_
    lastSequence,  \* lastRealtimeCommandSequence_
    completions,   \* commandCompletions_
    telemetry,     \* telemetry_: records waiting
    parameters,    \* parameterEvents_
    lastSample,    \* lastEnqueuedParameterSample_ + 1
    nextEvent,     \* nextParameterSequence_
    routed,        \* the live plan's parameterBuffers: node -> events, of this block
    accepted,      \* history: commands enqueued since the last clear...
    answered       \* ...and completions the control thread has popped

planVars == <<plans, live, published, retired, destroyed, publishing, format>>
commandVars == <<commands, lastSequence, completions, accepted, answered>>
parameterVars == <<parameters, lastSample, nextEvent, routed>>
audioVars == <<output, callback, acknowledged, position, telemetry>>
vars == <<planVars, commandVars, parameterVars, audioVars>>

Generations == 1..MaxGeneration

Init ==
    /\ plans = <<>>
    /\ live = 0 /\ published = {0} /\ retired = {} /\ destroyed = {}
    /\ publishing = FALSE
    /\ format = 0
    /\ output = "silence"
    /\ callback = [step |-> "stopped", plan |-> 0, drained |-> 0]
    /\ acknowledged = 0
    /\ position = 0
    /\ commands = <<>> /\ lastSequence = 0 /\ completions = <<>> /\ telemetry = 0
    /\ parameters = <<>> /\ lastSample = 0 /\ nextEvent = 1
    /\ routed = [n \in Nodes |-> <<>>]
    /\ accepted = <<>> /\ answered = <<>>

-----------------------------------------------------------------------------
(* The control thread.                                                     *)

\* Mutant of FormatFits: a new block size is taken under a live plan.
FormatFitsAlways(frames) == frames \in FrameCounts

\* With a live plan the device format may not change.
FormatFits(frames) == live = 0 \/ frames = format

\* Mutant of FirstFormat: the output storage is resized but keeps its samples.
FirstFormatResized(frames) ==
    /\ format' = IF live = 0 THEN frames ELSE format
    /\ UNCHANGED output

\* Without a live plan the executor takes the format and zeroes its output.
FirstFormat(frames) ==
    /\ format' = IF live = 0 THEN frames ELSE format
    /\ output' = IF live = 0 THEN "silence" ELSE output

\* prepareAndPublish fails after that: an operation is invalid, or the plan
\* has no output node.  (Failures before it change nothing.)
PrepareFails(frames) ==
    /\ ~publishing
    /\ FormatFits(frames)
    /\ FirstFormat(frames)
    /\ UNCHANGED <<plans, live, published, retired, destroyed, publishing,
                   commandVars, parameterVars,
                   callback, acknowledged, position, telemetry>>

\* Mutant of Retirement: safe once the retired plan itself was acknowledged.
RetirementAtOnce(plan, successor) == [plan |-> plan, safeAfter |-> plan]

\* The plan that is replaced waits until its successor is acknowledged.
Retirement(plan, successor) == [plan |-> plan, safeAfter |-> successor]

\* prepareAndPublish up to the store of live_.
Publish(shape, frames) ==
    LET generation == Len(plans) + 1 IN
    /\ ~publishing
    /\ generation \in Generations
    /\ OutputNode \in shape.routes
    /\ FormatFits(frames)
    /\ FirstFormat(frames)
    /\ plans' = Append(plans, [shape |-> shape, frames |-> frames])
    /\ retired' = IF live = 0 THEN retired
                  ELSE retired \cup {Retirement(live, generation)}
    /\ live' = generation
    /\ published' = published \cup {generation}
    /\ publishing' = TRUE
    /\ UNCHANGED <<destroyed, commandVars, parameterVars,
                   callback, acknowledged, position, telemetry>>

\* Mutant of Reclaimable: the successor has to be superseded, too.
ReclaimableLate == {r \in retired : r.safeAfter < acknowledged}

Reclaimable == {r \in retired : r.safeAfter <= acknowledged}

\* reclaimRetiredPlans, called by prepareAndPublish or by the control loop.
Reclaim ==
    /\ publishing \/ Reclaimable # {}
    /\ retired' = retired \ Reclaimable
    /\ destroyed' = destroyed \cup {r.plan : r \in Reclaimable}
    /\ publishing' = FALSE
    /\ UNCHANGED <<plans, live, published, format, commandVars, parameterVars, audioVars>>

\* enqueueRealtimeCommand: the sequence must grow and the ring have room.
EnqueueCommand(sequence, target) ==
    /\ ~publishing
    /\ sequence > lastSequence
    /\ Len(commands) < CommandCapacity
    /\ commands' = Append(commands, [sequence |-> sequence, target |-> target])
    /\ accepted' = Append(accepted, [sequence |-> sequence, target |-> target])
    /\ lastSequence' = sequence
    /\ UNCHANGED <<planVars, completions, answered, parameterVars, audioVars>>

PopCompletion ==
    /\ ~publishing
    /\ completions # <<>>
    /\ answered' = Append(answered, Head(completions))
    /\ completions' = Tail(completions)
    /\ UNCHANGED <<planVars, commands, lastSequence, accepted, parameterVars, audioVars>>

PopTelemetry ==
    /\ ~publishing
    /\ telemetry > 0
    /\ telemetry' = telemetry - 1
    /\ UNCHANGED <<planVars, commandVars, parameterVars,
                   output, callback, acknowledged, position>>

\* Mutant of InOrder: events may be scheduled in any order.
InOrderNever(sample) == sample \in 0..MaxPosition

\* Events come in the order of their positions.
InOrder(sample) == sample + 1 >= lastSample

\* enqueueParameterChange of a valid event: a full ring refuses it, but its
\* sequence number is spent.
EnqueueParameter(sample, node) ==
    /\ ~publishing
    /\ nextEvent <= MaxEvents
    /\ InOrder(sample)
    /\ nextEvent' = nextEvent + 1
    /\ IF Len(parameters) < ParameterCapacity
       THEN /\ parameters' = Append(parameters,
                   [sample |-> sample, node |-> node, sequence |-> nextEvent])
            /\ lastSample' = sample + 1
       ELSE UNCHANGED <<parameters, lastSample>>
    /\ UNCHANGED <<planVars, commandVars, routed, audioVars>>

-----------------------------------------------------------------------------
(* What the control thread does while the stream is stopped.               *)

Stopped == callback.step = "stopped" /\ ~publishing

\* The device is started: from now on its thread calls renderTo.  Starting a
\* thread makes everything before it visible.
Start ==
    /\ Stopped
    /\ callback' = [step |-> "waiting", plan |-> live, drained |-> 0]
    /\ published' = {live}
    /\ UNCHANGED <<plans, live, retired, destroyed, publishing, format, commandVars,
                   parameterVars, output, acknowledged, position, telemetry>>

\* The device is stopped between two callbacks.
Stop ==
    /\ callback.step = "waiting" /\ ~publishing
    /\ callback' = [callback EXCEPT !.step = "stopped"]
    /\ UNCHANGED <<planVars, commandVars, parameterVars,
                   output, acknowledged, position, telemetry>>

\* clearParameterEvents and a new position: a seek.
Seek ==
    /\ Stopped
    /\ parameters' = <<>> /\ lastSample' = 0 /\ nextEvent' = 1
    /\ position' = 0
    /\ UNCHANGED <<planVars, commandVars, routed,
                   output, callback, acknowledged, telemetry>>

ClearRealtimeControl ==
    /\ Stopped
    /\ commands' = <<>> /\ completions' = <<>> /\ lastSequence' = 0 /\ telemetry' = 0
    /\ accepted' = <<>> /\ answered' = <<>>
    /\ UNCHANGED <<planVars, parameterVars,
                   output, callback, acknowledged, position>>

\* reset: the samples of the live plan and of the output become zero.
Reset ==
    /\ Stopped
    /\ live # 0
    /\ output' = "silence"
    /\ UNCHANGED <<planVars, commandVars, parameterVars,
                   callback, acknowledged, position, telemetry>>

FlushRetiredPlans ==
    /\ Stopped
    /\ retired # {}
    /\ retired' = {}
    /\ destroyed' = destroyed \cup {r.plan : r \in retired}
    /\ UNCHANGED <<plans, live, published, publishing, format,
                   commandVars, parameterVars, audioVars>>

\* The generations go on; so does what the callback acknowledged.
GenerationsAfterRelease == plans

\* releaseAll destroys every plan and empties every queue.
ReleaseAll ==
    /\ Stopped
    /\ live' = 0 /\ retired' = {}
    /\ plans' = GenerationsAfterRelease
    /\ destroyed' = 1..Len(plans')
    /\ format' = 0
    /\ parameters' = <<>> /\ lastSample' = 0 /\ nextEvent' = 1
    /\ commands' = <<>> /\ completions' = <<>> /\ lastSequence' = 0 /\ telemetry' = 0
    /\ accepted' = <<>> /\ answered' = <<>>
    /\ UNCHANGED <<published, publishing, routed,
                   output, callback, acknowledged, position>>

-----------------------------------------------------------------------------
(* The audio callback: renderTo.                                           *)

Plan == plans[callback.plan]

\* process loads live_; without a plan it returns.
LoadPlan ==
    /\ callback.step = "waiting"
    /\ \E generation \in published :
          /\ generation >= callback.plan
          /\ callback' = [step |-> IF generation = 0 THEN "returning" ELSE "draining",
                          plan |-> generation, drained |-> 0]
    /\ output' = IF output = "fresh" THEN "stale" ELSE output
    /\ UNCHANGED <<planVars, commandVars, parameterVars,
                   acknowledged, position, telemetry>>

\* Mutant of MayDrain: the completion ring is not looked at.
MayDrainRegardless ==
    /\ callback.drained < CommandsPerBlock
    /\ commands # <<>>

\* Mutant of MayDrain: one place of the completion ring is kept free.
MayDrainOneLess ==
    /\ callback.drained < CommandsPerBlock
    /\ Len(completions) + 1 < CompletionCapacity
    /\ commands # <<>>

\* A command is taken only if its completion has a place.
MayDrain ==
    /\ callback.drained < CommandsPerBlock
    /\ Len(completions) < CompletionCapacity
    /\ commands # <<>>

\* One turn of drainRealtimeCommands: resetAllNodes always applies,
\* resetNode if the plan has a resolved node of that ID.
DrainCommand ==
    /\ callback.step = "draining"
    /\ MayDrain
    /\ LET command == Head(commands)
           applies == command.target \in {AllNodes} \cup Plan.shape.resolved IN
       completions' =
          IF Len(completions) < CompletionCapacity
          THEN Append(completions,
                  [sequence |-> command.sequence,
                   status |-> IF applies THEN "applied" ELSE "rejected",
                   generation |-> callback.plan])
          ELSE completions
    /\ commands' = Tail(commands)
    /\ callback' = [callback EXCEPT !.drained = @ + 1]
    /\ UNCHANGED <<planVars, lastSequence, accepted, answered, parameterVars,
                   output, acknowledged, position, telemetry>>

EndDrain ==
    /\ callback.step = "draining"
    /\ ~MayDrain
    /\ callback' = [callback EXCEPT !.step = "routing"]
    /\ UNCHANGED <<planVars, commandVars, parameterVars,
                   output, acknowledged, position, telemetry>>

\* A block larger than the plan was prepared for is cut.
BlockEnd == position + (IF DeviceFrames > Plan.frames THEN Plan.frames ELSE DeviceFrames)

\* The events in front of the first that is not due.
Due == SubSeq(parameters, 1,
          Cardinality({i \in 1..Len(parameters) :
             \A j \in 1..i : parameters[j].sample < BlockEnd}))

\* Those for one node at their offsets (a late event at the start), as many
\* as its buffer holds.  The buffer sorts by offset and sequence, which is
\* the order of the queue.
Buffered(node) ==
    LET mine == SelectSeq(Due, LAMBDA e : e.node = node)
        size == IF Len(mine) > EventsPerNode THEN EventsPerNode ELSE Len(mine) IN
    [i \in 1..size |->
        [sequence |-> mine[i].sequence,
         offset |-> IF mine[i].sample < position THEN 0 ELSE mine[i].sample - position]]

\* routeParameterEvents: events for nodes without a route are dropped.
RouteParameters ==
    /\ callback.step = "routing"
    /\ routed' = [n \in Nodes |-> IF n \in Plan.shape.routes THEN Buffered(n) ELSE <<>>]
    /\ parameters' = SubSeq(parameters, Len(Due) + 1, Len(parameters))
    /\ callback' = [callback EXCEPT !.step = "rendering"]
    /\ UNCHANGED <<planVars, commandVars, lastSample, nextEvent,
                   output, acknowledged, position, telemetry>>

\* The operations; the output node's samples are captured, a telemetry
\* record is queued or dropped.  Nothing reads the events after this.
Render ==
    /\ callback.step = "rendering"
    /\ output' = "fresh"
    /\ routed' = [n \in Nodes |-> <<>>]
    /\ telemetry' = IF telemetry < TelemetryCapacity THEN telemetry + 1 ELSE telemetry
    /\ callback' = [callback EXCEPT !.step = "rendered"]
    /\ UNCHANGED <<planVars, commandVars, parameters, lastSample, nextEvent,
                   acknowledged, position>>

\* The release store that lets older plans go; it reads the plan's generation.
Acknowledge ==
    /\ callback.step = "rendered"
    /\ acknowledged' = callback.plan
    /\ callback' = [callback EXCEPT !.step = "returning"]
    /\ UNCHANGED <<planVars, commandVars, parameterVars,
                   output, position, telemetry>>

\* What the device's buffer holds after the copy out.
Heard(generation) == IF generation = 0 THEN "silence" ELSE output

\* renderTo looks at live_ again and copies the output or clears the
\* device's buffer.  The transport moves on, or stands still.
Return ==
    /\ callback.step = "returning"
    /\ \E generation \in published :
          /\ generation >= callback.plan
          /\ callback' = [callback EXCEPT !.step = "waiting", !.plan = generation,
                                          !.drained = 0]
    /\ position' \in {position} \cup ({position + DeviceFrames} \cap 0..MaxPosition)
    /\ UNCHANGED <<planVars, commandVars, parameterVars, output, acknowledged, telemetry>>

-----------------------------------------------------------------------------
Callback ==
    LoadPlan \/ DrainCommand \/ EndDrain \/ RouteParameters \/ Render \/ Acknowledge
    \/ Return

WhileStopped ==
    Start \/ Seek \/ ClearRealtimeControl \/ Reset \/ FlushRetiredPlans \/ ReleaseAll

Control ==
    \/ \E frames \in FrameCounts : PrepareFails(frames)
    \/ \E shape \in PlanShapes, frames \in FrameCounts : Publish(shape, frames)
    \/ Reclaim
    \/ \E sequence \in 1..MaxSequence, target \in Nodes \cup {AllNodes} :
          EnqueueCommand(sequence, target)
    \/ PopCompletion
    \/ PopTelemetry
    \/ \E sample \in 0..MaxPosition, node \in Nodes : EnqueueParameter(sample, node)
    \/ Stop

Next == Callback \/ WhileStopped \/ Control

Spec == Init /\ [][Next]_vars

LoadLatestPlan == LoadPlan /\ callback'.plan = live

\* A started device keeps calling, and every callback returns; a store to
\* live_ becomes visible to its loads in finite time; the control loop keeps
\* collecting completions and retired plans.
Fairness ==
    /\ WF_vars(Callback)
    /\ SF_vars(LoadLatestPlan)
    /\ WF_vars(Reclaim)
    /\ WF_vars(PopCompletion)

FairSpec == Spec /\ Fairness

-----------------------------------------------------------------------------
(* Properties.                                                             *)

\* The callback works with a plan from its load to the acknowledgement.
InUse == callback.step \in {"draining", "routing", "rendering", "rendered"}

\* The callback never touches a plan that the control thread has destroyed,
\* however often plans are replaced, and the stream stopped and the executor
\* released, around an old pointer.
NoUseAfterFree == InUse => callback.plan \notin destroyed

\* A plan is only run while the executor's output has the format the plan
\* was prepared for: it writes its block there without a further check.
PlanFitsOutput == InUse => Plan.frames = format

\* The device never plays a block that an earlier callback rendered: whatever
\* plan the copy out finds, it is the block of this callback, or silence.
NoOldBlockIsHeard ==
    callback.step = "returning" =>
        \A generation \in published :
            generation >= callback.plan => Heard(generation) # "stale"

\* Every accepted command is completed exactly once and in order, with the
\* verdict of the plan it names, also when completions pile up; what is not
\* completed still waits.
CommandsAreCompletedOnce ==
    LET done == answered \o completions IN
    /\ Len(accepted) = Len(done) + Len(commands)
    /\ \A i \in DOMAIN done :
          /\ done[i].sequence = accepted[i].sequence
          /\ done[i].status = "applied"
                <=> accepted[i].target
                      \in {AllNodes} \cup plans[done[i].generation].shape.resolved
    /\ \A i \in DOMAIN commands : commands[i] = accepted[Len(done) + i]

\* When the events of a block are routed, none that is due stays in the queue
\* behind one that is not.
NothingDueIsLeft ==
    [][callback.step = "routing" /\ callback'.step = "rendering"
         => \A i \in DOMAIN parameters' : parameters'[i].sample >= BlockEnd]_vars

\* While the stream runs with a plan, an accepted command is completed and
\* the completion collected.
CommandsAreAnswered ==
    \A s \in 1..MaxSequence :
        (\E i \in DOMAIN commands : commands[i].sequence = s) /\ live # 0
        ~> \/ \E i \in DOMAIN answered : answered[i].sequence = s
           \/ callback.step = "stopped"

\* While the stream runs, every replaced plan is reclaimed.
ReplacedPlansAreReclaimed ==
    \A g \in Generations :
        (\E r \in retired : r.plan = g) ~> (g \in destroyed \/ callback.step = "stopped")
=============================================================================
