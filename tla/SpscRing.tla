------------------------------ MODULE SpscRing ------------------------------
(***************************************************************************)
(* The wait-free ring between one producer and one consumer thread:        *)
(* SpscQueue (parameter events, realtime commands, completions, telemetry) *)
(* and SpscBlockRing (audio blocks to and from the disk) are this          *)
(* algorithm with different payloads.                                      *)
(*                                                                         *)
(* Each thread owns one position and reads the other's with an acquire     *)
(* load, which may return an old value but, by coherence, never one older  *)
(* than it returned before: producerSees and consumerSees.  Copying a      *)
(* value in or out takes time: a slot that is being written is Torn.       *)
(***************************************************************************)
EXTENDS Naturals, Sequences

CONSTANTS
    Capacity,      \* slots of the ring
    Values,        \* payloads
    NoValue,       \* nothing has been read yet
    Torn,          \* a payload caught in the middle of a copy
    MaxPosition    \* bound: positions counted (uint64 in the code)

ASSUME RingAssumption ==
    /\ Capacity \in Nat \ {0}
    /\ MaxPosition \in Nat
    /\ NoValue \notin Values /\ Torn \notin Values /\ NoValue # Torn

VARIABLES
    storage,        \* slot -> payload
    readPosition,   \* values taken so far: the consumer's
    writePosition,  \* values stored so far: the producer's
    producerSees,   \* readPosition as the producer loaded it last
    consumerSees,   \* writePosition as the consumer loaded it last
    producer,       \* tryPush: idle, storing or stored, and its value
    consumer,       \* tryPop or tryPeek: idle, copying or copied, and its value
    delivered       \* the value the last successful tryPop or tryPeek returned

vars == <<storage, readPosition, writePosition, producerSees, consumerSees,
          producer, consumer, delivered>>

producerVars == <<writePosition, producerSees, producer>>
consumerVars == <<readPosition, consumerSees, consumer, delivered>>

Slots == 0..(Capacity - 1)
Slot(position) == position % Capacity

Init ==
    /\ storage = [s \in Slots |-> NoValue]
    /\ readPosition = 0 /\ writePosition = 0
    /\ producerSees = 0 /\ consumerSees = 0
    /\ producer = [step |-> "idle", value |-> NoValue]
    /\ consumer = [step |-> "idle", pops |-> FALSE, value |-> NoValue]
    /\ delivered = NoValue

-----------------------------------------------------------------------------
(* The producer.                                                           *)

\* Mutant of HasRoom: one value too many.
HasRoomTwice(seen) == writePosition - seen <= Capacity

HasRoom(seen) == writePosition - seen < Capacity

\* tryPush finds room, as far as it sees, and starts to overwrite the slot.
BeginPush(v) ==
    /\ producer.step = "idle"
    /\ writePosition < MaxPosition
    /\ \E seen \in producerSees..readPosition :
          /\ HasRoom(seen)
          /\ producerSees' = seen
    /\ storage' = [storage EXCEPT ![Slot(writePosition)] = Torn]
    /\ producer' = [step |-> "storing", value |-> v]
    /\ UNCHANGED <<writePosition, consumerVars>>

\* It finds none and returns false; the load still counts.
RefusePush ==
    /\ producer.step = "idle"
    /\ \E seen \in producerSees..readPosition :
          /\ ~HasRoom(seen)
          /\ producerSees' = seen
    /\ UNCHANGED <<storage, writePosition, producer, consumerVars>>

FinishStore ==
    /\ producer.step = "storing"
    /\ storage' = [storage EXCEPT ![Slot(writePosition)] = producer.value]
    /\ producer' = [producer EXCEPT !.step = "stored"]
    /\ UNCHANGED <<writePosition, producerSees, consumerVars>>

\* Mutant of Publish: the position is stored before the slot is complete.
PublishEarly ==
    /\ producer.step \in {"storing", "stored"}
    /\ writePosition' = writePosition + 1
    /\ producer' = [producer EXCEPT !.step = "idle"]
    /\ UNCHANGED <<storage, producerSees, consumerVars>>

\* The release store that makes the slot the consumer's.
Publish ==
    /\ producer.step = "stored"
    /\ writePosition' = writePosition + 1
    /\ producer' = [producer EXCEPT !.step = "idle"]
    /\ UNCHANGED <<storage, producerSees, consumerVars>>

-----------------------------------------------------------------------------
(* The consumer.                                                           *)

\* tryPop (pops) or tryPeek finds a value and starts to copy it.
BeginTake(pops) ==
    /\ consumer.step = "idle"
    /\ \E seen \in consumerSees..writePosition :
          /\ readPosition # seen
          /\ consumerSees' = seen
    /\ consumer' = [consumer EXCEPT !.step = "copying", !.pops = pops]
    /\ UNCHANGED <<storage, readPosition, delivered, producerVars>>

\* It sees an empty ring and returns false.
FindEmpty ==
    /\ consumer.step = "idle"
    /\ readPosition \in consumerSees..writePosition
    /\ consumerSees' = readPosition
    /\ UNCHANGED <<storage, readPosition, consumer, delivered, producerVars>>

FinishCopy ==
    /\ consumer.step = "copying"
    /\ consumer' = [consumer EXCEPT !.step = "copied",
                                    !.value = storage[Slot(readPosition)]]
    /\ UNCHANGED <<storage, readPosition, consumerSees, delivered, producerVars>>

\* The call returns its copy; tryPop gives the slot back to the producer.
Release ==
    /\ consumer.step = "copied"
    /\ delivered' = consumer.value
    /\ readPosition' = IF consumer.pops THEN readPosition + 1 ELSE readPosition
    /\ consumer' = [consumer EXCEPT !.step = "idle"]
    /\ UNCHANGED <<storage, consumerSees, producerVars>>

-----------------------------------------------------------------------------
\* clear(), with both threads stopped: what they loaded before is forgotten.
Clear ==
    /\ producer.step = "idle" /\ consumer.step = "idle"
    /\ readPosition' = 0 /\ writePosition' = 0
    /\ producerSees' = 0 /\ consumerSees' = 0
    /\ UNCHANGED <<storage, producer, consumer, delivered>>

Next ==
    \/ \E v \in Values : BeginPush(v)
    \/ RefusePush
    \/ FinishStore
    \/ Publish
    \/ \E pops \in BOOLEAN : BeginTake(pops)
    \/ FindEmpty
    \/ FinishCopy
    \/ Release
    \/ Clear

Spec == Init /\ [][Next]_vars

-----------------------------------------------------------------------------
(* Properties.                                                             *)

TypeOK ==
    /\ storage \in [Slots -> Values \cup {NoValue, Torn}]
    /\ readPosition \in 0..MaxPosition
    /\ writePosition \in 0..MaxPosition
    /\ producerSees \in 0..MaxPosition
    /\ consumerSees \in 0..MaxPosition
    /\ producer \in [step : {"idle", "storing", "stored"},
                     value : Values \cup {NoValue}]
    /\ consumer \in [step : {"idle", "copying", "copied"}, pops : BOOLEAN,
                     value : Values \cup {NoValue}]
    /\ delivered \in Values \cup {NoValue}

\* The two threads never work on the same slot: while one overwrites and the
\* other copies, they are at different slots, however old the positions are
\* that they go by.
NoSlotIsShared ==
    producer.step # "idle" /\ consumer.step # "idle"
        => Slot(writePosition) # Slot(readPosition)

\* The values between the two positions.
Waiting ==
    [i \in 1..(writePosition - readPosition) |->
        storage[Slot(readPosition + i - 1)]]

Fifo == INSTANCE BoundedFifo WITH queue <- Waiting

\* The ring is a bounded queue: every accepted value is handed out once, whole
\* and in the order of the calls, however late one thread sees the other.
IsFifo == Fifo!Spec
=============================================================================
