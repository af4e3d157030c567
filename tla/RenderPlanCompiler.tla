------------------------- MODULE RenderPlanCompiler -------------------------
(***************************************************************************)
(* The audio graph (GraphDescription) and the compiler that turns it into  *)
(* a plan of buffer operations (compileRenderPlan).  The graph changes by  *)
(* its edits; the plan is a function of it.  A plan is judged by playing   *)
(* it: a buffer holds the list of the signals mixed into it, each with the *)
(* samples it was delayed by, and what a node finds in its buffers when it *)
(* is processed is what it hears.                                          *)
(***************************************************************************)
EXTENDS Integers, Sequences, FiniteSetsExt

CONSTANTS
    NodeIds,        \* a set of positive integers
    Layouts,        \* the NodeInfoMaps: functions from ids to [ins, outs, latency]
    Channels,       \* the channels a connection may name
    MaxConnections  \* bound: connections of the graph

VARIABLES nodes, connections, info

vars == <<nodes, connections, info>>

MidiLane == -1

Connections ==
    [from : NodeIds, out : Channels \cup {MidiLane}, to : NodeIds, in : Channels \cup {MidiLane}]

IsMidi(c) == c.out = MidiLane /\ c.in = MidiLane
HasMixedLaneTypes(c) == (c.out = MidiLane) # (c.in = MidiLane)

Init == nodes = {} /\ connections = {} /\ info \in Layouts

AddNode(id) ==
    /\ id \notin nodes
    /\ nodes' = nodes \cup {id} /\ UNCHANGED <<connections, info>>

RemoveNode(id) ==
    /\ id \in nodes
    /\ nodes' = nodes \ {id}
    /\ connections' = {c \in connections : id \notin {c.from, c.to}}
    /\ UNCHANGED info

AddConnection(c) ==
    /\ c.from # c.to /\ ~HasMixedLaneTypes(c) /\ {c.from, c.to} \subseteq nodes
    /\ c \notin connections /\ Cardinality(connections) < MaxConnections
    /\ connections' = connections \cup {c} /\ UNCHANGED <<nodes, info>>

RemoveConnection(c) ==
    connections' = connections \ {c} /\ UNCHANGED <<nodes, info>>

Clear == nodes' = {} /\ connections' = {} /\ UNCHANGED info

Next ==
    \/ Clear
    \/ \E id \in NodeIds : AddNode(id) \/ RemoveNode(id)
    \/ \E c \in Connections : AddConnection(c)
    \/ \E c \in connections : RemoveConnection(c)

Spec == Init /\ [][Next]_vars

-----------------------------------------------------------------------------
(* What the compiler works with.                                            *)

\* The elements of a set of numbers, or of signals, in their order.
Sorted(S) ==
    CHOOSE s \in [1..Cardinality(S) -> S] : \A i, j \in DOMAIN s : i < j => s[i] < s[j]

SignalBefore(p, q) == p[1] < q[1] \/ (p[1] = q[1] /\ p[2] < q[2])
SortedSignals(S) ==
    CHOOSE s \in [1..Cardinality(S) -> S] : \A i, j \in DOMAIN s : i < j => SignalBefore(s[i], s[j])

AudioConnections == {c \in connections : ~IsMidi(c)}
AudioInputs(id, channel) ==
    {<<c.from, c.out>> : c \in {a \in AudioConnections : a.to = id /\ a.in = channel}}
MidiInputs(id) == Sorted({c.from : c \in {m \in connections : IsMidi(m) /\ m.to = id}})

PortsFit ==
    /\ nodes \subseteq DOMAIN info
    /\ \A n \in nodes : info[n].ins >= 0 /\ info[n].outs >= 0 /\ info[n].latency >= 0
    /\ \A c \in AudioConnections : c.out < info[c.from].outs /\ c.in < info[c.to].ins

Producers(id) == {c.from : c \in {d \in connections : d.to = id}}
Successors(id) == {c.to : c \in {d \in connections : d.from = id}}

\* The first of the nodes that are ready is ordered; those it was the last producer of are ready.
TakeNext(s) ==
    IF s.ready = <<>> THEN s
    ELSE LET id == Head(s.ready) IN
         [order |-> Append(s.order, id),
          degree |-> [n \in nodes |-> IF n \in Successors(id) THEN s.degree[n] - 1 ELSE s.degree[n]],
          ready |-> Tail(s.ready) \o Sorted({n \in Successors(id) : s.degree[n] = 1})]

\* Nodes whose producers are all ordered, first come first served, lowest number first of those
\* that become ready together.
Order ==
    LET degree == [n \in nodes |-> Cardinality(Producers(n))]
        start == [order |-> <<>>, degree |-> degree, ready |-> Sorted({n \in nodes : degree[n] = 0})]
        taken[i \in 0..Cardinality(nodes)] == IF i = 0 THEN start ELSE TakeNext(taken[i - 1])
    IN taken[Cardinality(nodes)].order

\* When the latest input of each node arrives, in samples.
Arrive(at, id) ==
    [at EXCEPT ![id] =
       Max({0} \cup {at[c.from] + info[c.from].latency : c \in {a \in AudioConnections : a.to = id}})]
Arrivals(order) ==
    LET arrived[i \in 0..Len(order)] ==
            IF i = 0 THEN [n \in nodes |-> 0] ELSE Arrive(arrived[i - 1], order[i])
    IN arrived[Len(order)]

\* The position of the last node that reads a signal, -1 if none does.
LastConsumer(order, signal) ==
    Max({-1} \cup {i \in DOMAIN order :
                     \E c \in AudioConnections : c.to = order[i] /\ <<c.from, c.out>> = signal})

-----------------------------------------------------------------------------
(* The emission.  "s" carries the free buffers, how many there are, the      *)
(* buffer of each live signal and the operations so far.                     *)

\* The lowest free buffer, or a new one.
Acquired(s) == IF s.free = {} THEN s.high ELSE Min(s.free)
Acquire(s) ==
    IF s.free = {} THEN [s EXCEPT !.high = @ + 1] ELSE [s EXCEPT !.free = @ \ {Acquired(s)}]
Release(s, buffers) == [s EXCEPT !.free = @ \cup buffers]
Emit(s, ops) == [s EXCEPT !.ops = @ \o ops]

Copy(from, to) == [op |-> "copy", from |-> from, to |-> to]
Add(from, to) == [op |-> "add", from |-> from, to |-> to]
Delay(buffer, samples) == [op |-> "delay", to |-> buffer, samples |-> samples]

\* One more source in the destination's mix, delayed to arrive with the node's latest input.
\* The first is copied and delayed in place; a later one that needs a delay gets a scratch buffer.
Mix(s, destination, source, compensation, isFirst) ==
    IF isFirst
    THEN Emit(s, IF compensation > 0
                 THEN <<Copy(source, destination), Delay(destination, compensation)>>
                 ELSE <<Copy(source, destination)>>)
    ELSE IF compensation = 0
    THEN Emit(s, <<Add(source, destination)>>)
    ELSE LET scratch == Acquired(s) IN
         Release(Emit(Acquire(s), <<Copy(source, scratch), Delay(scratch, compensation),
                                    Add(scratch, destination)>>), {scratch})

\* One of a channel's inputs, mixed into its buffer with the delay that aligns it.
Gather(s, arrivals, id, destination, source, isFirst) ==
    Mix(s, destination, s.signals[source],
        arrivals[id] - (arrivals[source[1]] + info[source[1]].latency), isFirst)

PrepareChannel(s, arrivals, id, channel) ==
    LET destination == Acquired(s)
        sources == SortedSignals({p \in AudioInputs(id, channel) : p \in DOMAIN s.signals})
        gathered[i \in 0..Len(sources)] ==
            IF i = 0 THEN Acquire(s)
            ELSE Gather(gathered[i - 1], arrivals, id, destination, sources[i], i = 1)
        ready == IF sources = <<>>
                 THEN Emit(Acquire(s), <<[op |-> "clear", to |-> destination]>>)
                 ELSE gathered[Len(sources)]
    IN [ready EXCEPT !.channels = Append(@, destination)]

\* Mistaken IsConsumed: the buffer of a signal goes back one node before its last reader.
IsConsumedEarly(order, signal, step) == LastConsumer(order, signal) \in {step, step + 1}

IsConsumed(order, signal, step) == LastConsumer(order, signal) = step

\* After a node: its outputs become live signals, buffers nobody will read are free again.
Settle(s, order, step) ==
    LET id == order[step]
        outputs == {<<id, k>> : k \in 0..(info[id].outs - 1)}
        kept == {p \in outputs : LastConsumer(order, p) # -1}
        live == [p \in DOMAIN s.signals \cup kept |->
                   IF p \in kept THEN s.channels[p[2] + 1] ELSE s.signals[p]]
        unread == {s.channels[k] : k \in {j \in DOMAIN s.channels : <<id, j - 1>> \notin kept}}
        consumed == {p \in DOMAIN live : IsConsumed(order, p, step)}
    IN [free |-> s.free \cup unread \cup {live[p] : p \in consumed}, high |-> s.high,
        signals |-> [p \in DOMAIN live \ consumed |-> live[p]], channels |-> <<>>, ops |-> s.ops]

\* Before a node: its channels, one after the other, then its MIDI.
PrepareChannels(s, arrivals, id) ==
    LET count == Max({info[id].ins, info[id].outs})
        prepared[k \in 0..count] ==
            IF k = 0 THEN s ELSE PrepareChannel(prepared[k - 1], arrivals, id, k - 1)
    IN prepared[count]
MidiOperations(id) ==
    <<[op |-> "midiClear", to |-> id]>>
    \o [i \in DOMAIN MidiInputs(id) |-> [op |-> "midiMerge", from |-> MidiInputs(id)[i], to |-> id]]

EmitNode(s, arrivals, order, step) ==
    LET id == order[step]
        prepared == PrepareChannels(s, arrivals, id)
        process == [op |-> "process", node |-> id, channels |-> prepared.channels]
    IN Settle(Emit(prepared, Append(MidiOperations(id), process)), order, step)

Rejected == [valid |-> FALSE, ops |-> <<>>, buffers |-> 0, latency |-> <<>>]

\* The plan of the graph; the MIDI buffer of a node bears the node's number.
CompileRenderPlan ==
    LET order == Order  arrivals == Arrivals(order)
        start == [free |-> {}, high |-> 0, signals |-> [p \in {} |-> 0], channels |-> <<>>, ops |-> <<>>]
        placed[step \in 0..Len(order)] ==
            IF step = 0 THEN start ELSE EmitNode(placed[step - 1], arrivals, order, step)
        done == placed[Len(order)]
    IN IF ~PortsFit \/ Len(order) # Cardinality(nodes) THEN Rejected
       ELSE [valid |-> TRUE, ops |-> done.ops, buffers |-> done.high,
             latency |-> [n \in nodes |-> arrivals[n] + info[n].latency]]

-----------------------------------------------------------------------------
(* What a plan does when it is played.  Every buffer still holds what an     *)
(* earlier block left in it.                                                *)

Stale == <<[signal |-> <<0, 0>>, delay |-> 0]>>

Delayed(mix, samples) ==
    [i \in DOMAIN mix |-> [signal |-> mix[i].signal, delay |-> mix[i].delay + samples]]

Perform(m, op) ==
    CASE op.op = "clear" -> [m EXCEPT !.audio[op.to] = <<>>]
      [] op.op = "copy" -> [m EXCEPT !.audio[op.to] = m.audio[op.from]]
      [] op.op = "add" -> [m EXCEPT !.audio[op.to] = @ \o m.audio[op.from]]
      [] op.op = "delay" -> [m EXCEPT !.audio[op.to] = Delayed(m.audio[op.to], op.samples)]
      [] op.op = "midiClear" -> [m EXCEPT !.midi[op.to] = <<>>]
      [] op.op = "midiMerge" -> [m EXCEPT !.midi[op.to] = @ \o m.midi[op.from]]
      [] op.op = "process" ->
           [m EXCEPT !.heard[op.node] = [i \in DOMAIN op.channels |-> m.audio[op.channels[i]]],
                     !.heardMidi[op.node] = m.midi[op.node],
                     !.midi[op.node] = <<op.node>>,
                     !.audio = [b \in DOMAIN @ |->
                       IF \E i \in DOMAIN op.channels : op.channels[i] = b
                       THEN LET i == CHOOSE j \in DOMAIN op.channels : op.channels[j] = b IN
                            IF i <= info[op.node].outs
                            THEN <<[signal |-> <<op.node, i - 1>>, delay |-> 0]>> ELSE Stale
                       ELSE @[b]]]

Played(plan) ==
    LET start == [audio |-> [b \in 0..(plan.buffers - 1) |-> Stale],
                  midi |-> [n \in nodes |-> <<n, n>>],
                  heard |-> [n \in nodes |-> <<>>], heardMidi |-> [n \in nodes |-> <<>>]]
        played[i \in 0..Len(plan.ops)] ==
            IF i = 0 THEN start ELSE Perform(played[i - 1], plan.ops[i])
    IN played[Len(plan.ops)]

\* A graph that has a plan: every port exists and no set of nodes feeds itself.
HasPlan ==
    /\ PortsFit
    /\ \A S \in SUBSET nodes :
         S # {} => \E n \in S : \A c \in connections : c.to = n => c.from \notin S

\* In the plan of a graph every node hears, on each of its channels, the signals connected to it
\* and no other - once each, nothing of an earlier block, no buffer given away while somebody
\* still has to read it - all delayed to the same moment and by no more than the latest input
\* needs, and finds the MIDI of the nodes connected to it; a graph has a plan unless it has a
\* cycle or names a port that is not there (compileRenderPlan).
PlanIsFaithful ==
    LET plan == CompileRenderPlan  run == Played(plan) IN
    /\ plan.valid = HasPlan
    /\ plan.valid => \A n \in nodes :
         LET arrival == plan.latency[n] - info[n].latency
             heard == run.heard[n]
             into(k) == AudioInputs(n, k)
             delays == UNION {{heard[k][i].delay : i \in DOMAIN heard[k]} : k \in DOMAIN heard}
         IN /\ DOMAIN heard = 1..Max({info[n].ins, info[n].outs})
            /\ \A k \in DOMAIN heard :
                 /\ Len(heard[k]) = Cardinality(into(k - 1))
                 /\ {heard[k][i].signal : i \in DOMAIN heard[k]} = into(k - 1)
                 /\ \A i \in DOMAIN heard[k] :
                      plan.latency[heard[k][i].signal[1]] + heard[k][i].delay = arrival
            /\ IF delays = {} THEN arrival = 0 ELSE 0 \in delays
            /\ run.heardMidi[n] = MidiInputs(n)
=============================================================================
