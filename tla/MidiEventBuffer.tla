--------------------------- MODULE MidiEventBuffer ---------------------------
(***************************************************************************)
(* The MIDI buffers of a render plan (MidiEventBuffer): bounded storage    *)
(* reserved before rendering, events kept in the order of their sample     *)
(* offsets, and in the order they came in at the same sample.  An event is *)
(* known by its number; what it says is bytes of the storage, of which     *)
(* only the place and the number matter.                                   *)
(***************************************************************************)
EXTENDS Naturals, Sequences

CONSTANTS
    Buffers,    \* the buffers of the plan
    MaxEvents,  \* reserve: entries of a buffer
    MaxBytes,   \* reserve: bytes of a buffer
    Offsets,    \* the sample offsets of a block
    Sizes,      \* the sizes of events, in bytes
    MaxMade,    \* bound: events produced
    MaxDropped  \* bound: dropped events after which a buffer is offered no more

VARIABLES
    buffers,  \* entries in their order, bytes in use, the next insertion order, events dropped
    offered,  \* what each buffer was offered since its last clear, accepted or not
    made      \* events produced so far

vars == <<buffers, offered, made>>

Empty == [entries |-> <<>>, used |-> 0, next |-> 0, dropped |-> 0]

Init ==
    /\ buffers = [b \in Buffers |-> Empty]
    /\ offered = [b \in Buffers |-> <<>>]
    /\ made = 0

Fits(buffer, event) ==
    Len(buffer.entries) < MaxEvents /\ buffer.used + event.size <= MaxBytes

\* Mistaken StaysBehind: an event goes before those of its own sample.
StaysBehindEarlier(entry, event, order) == entry.at < event.at

\* Whether an entry stays before an event that is inserted.
StaysBehind(entry, event, order) ==
    entry.at < event.at \/ (entry.at = event.at /\ entry.order < order)

\* The entries that must move over, from the end, up to one that stays behind.
Place(entries, event, order) ==
    CHOOSE i \in 0..Len(entries) :
      /\ i = 0 \/ StaysBehind(entries[i], event, order)
      /\ \A j \in (i + 1)..Len(entries) : ~StaysBehind(entries[j], event, order)

\* The buffer after an event was offered to it.
WithEvent(buffer, event) ==
    IF ~Fits(buffer, event) THEN [buffer EXCEPT !.dropped = @ + 1]
    ELSE LET i == Place(buffer.entries, event, buffer.next)
             entry == [at |-> event.at, order |-> buffer.next, from |-> buffer.used,
                       size |-> event.size, id |-> event.id]
         IN [entries |-> SubSeq(buffer.entries, 1, i) \o <<entry>>
                           \o SubSeq(buffer.entries, i + 1, Len(buffer.entries)),
             used |-> buffer.used + event.size, next |-> buffer.next + 1,
             dropped |-> buffer.dropped]

AddEvent(b, at, size) ==
    LET event == [at |-> at, size |-> size, id |-> made + 1] IN
    /\ made < MaxMade /\ buffers[b].dropped < MaxDropped
    /\ made' = made + 1
    /\ buffers' = [buffers EXCEPT ![b] = WithEvent(@, event)]
    /\ offered' = [offered EXCEPT ![b] = Append(@, event)]

\* A node merges the events of its predecessors' buffers into its own, each in its order and
\* once in a block.
MergeFrom(b, source) ==
    LET events == [i \in DOMAIN buffers[source].entries |->
                     [at |-> buffers[source].entries[i].at, size |-> buffers[source].entries[i].size,
                      id |-> buffers[source].entries[i].id]]
        merged[i \in 0..Len(events)] ==
          IF i = 0 THEN buffers[b] ELSE WithEvent(merged[i - 1], events[i])
    IN /\ b # source /\ buffers[b].dropped < MaxDropped
       /\ \A i \in DOMAIN events, k \in DOMAIN offered[b] : events[i].id # offered[b][k].id
       /\ buffers' = [buffers EXCEPT ![b] = merged[Len(events)]]
       /\ offered' = [offered EXCEPT ![b] = @ \o events]
       /\ UNCHANGED made

\* A new block: the events go, the count of dropped ones stays.
Clear(b) ==
    /\ buffers' = [buffers EXCEPT ![b] = [Empty EXCEPT !.dropped = buffers[b].dropped]]
    /\ offered' = [offered EXCEPT ![b] = <<>>]
    /\ UNCHANGED made

ResetDroppedEventCount(b) ==
    buffers' = [buffers EXCEPT ![b].dropped = 0] /\ UNCHANGED <<offered, made>>

Next ==
    \E b \in Buffers :
      \/ \E at \in Offsets, size \in Sizes : AddEvent(b, at, size)
      \/ \E source \in Buffers : MergeFrom(b, source)
      \/ Clear(b) \/ ResetDroppedEventCount(b)

Spec == Init /\ [][Next]_vars

-----------------------------------------------------------------------------

\* A buffer plays its events by sample and, at one sample, in the order they were offered - a
\* note off before the note on that followed it, also after merges from several buffers that had
\* to sort events of their own - each with its own bytes, that no other event overwrote; and an
\* event missing from it was offered when it was full of others (addEvent, mergeFrom).
MidiKeepsOrder ==
    \A b \in Buffers :
      LET entries == buffers[b].entries
          before(e, f) == e.at < f.at \/ (e.at = f.at /\
              \E i, j \in DOMAIN offered[b] :
                i < j /\ offered[b][i].id = e.id /\ offered[b][j].id = f.id)
      IN /\ \A i, j \in DOMAIN entries :
              i < j => /\ before(entries[i], entries[j])
                       /\ \/ entries[i].from + entries[i].size <= entries[j].from
                          \/ entries[j].from + entries[j].size <= entries[i].from
         /\ \A i \in DOMAIN entries :
              \E k \in DOMAIN offered[b] : /\ offered[b][k].id = entries[i].id
                                           /\ offered[b][k].at = entries[i].at
                                           /\ offered[b][k].size = entries[i].size
         /\ \A k \in DOMAIN offered[b] :
              (\A i \in DOMAIN entries : entries[i].id # offered[b][k].id)
                => ~Fits(buffers[b], offered[b][k])
=============================================================================
