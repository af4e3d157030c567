--------------------------- MODULE SpscRingProofs ---------------------------
(***************************************************************************)
(* SpscRing is type correct, never lets both threads into one slot, and    *)
(* implements BoundedFifo, for every capacity and every set of values.     *)
(***************************************************************************)
EXTENDS SpscRing, Integers, TLAPS

\* The positions stay within one ring of each other, in the order in which
\* the threads believe them to be.
PositionsOK ==
    /\ producerSees <= readPosition
    /\ readPosition <= consumerSees
    /\ consumerSees <= writePosition
    /\ writePosition - readPosition <= Capacity

\* While the producer writes, there is room; what it has stored is there.
ProducerOK ==
    /\ producer.step # "idle" =>
          /\ writePosition - readPosition < Capacity
          /\ writePosition < MaxPosition
          /\ producer.value \in Values
    /\ producer.step = "stored" => storage[Slot(writePosition)] = producer.value

\* While the consumer copies, there is a value; its copy is that value.
ConsumerOK ==
    /\ consumer.step # "idle" => readPosition < consumerSees
    /\ consumer.step = "copied" => consumer.value = storage[Slot(readPosition)]

\* The slots between the positions are complete.
WaitingOK ==
    \A p \in Nat : readPosition <= p /\ p < writePosition => storage[Slot(p)] \in Values

IInv == TypeOK /\ PositionsOK /\ ProducerOK /\ ConsumerOK /\ WaitingOK

-----------------------------------------------------------------------------
(* Slots.                                                                  *)

LEMMA SlotInRange == ASSUME NEW p \in Nat PROVE Slot(p) \in Slots
  BY RingAssumption DEF Slot, Slots

LEMMA NoMultiple ==
  ASSUME NEW k \in Int, NEW C \in Nat \ {0}, C * k > 0, C * k < C PROVE FALSE
  <1>1. CASE k <= 0
    BY <1>1, SMT
  <1>2. CASE k >= 1
    BY <1>2, SMT
  <1> QED BY <1>1, <1>2

\* Positions less than a ring apart have different slots.
LEMMA SlotsDiffer ==
  ASSUME NEW p \in Nat, NEW q \in Nat, p < q, q < p + Capacity
  PROVE  Slot(p) # Slot(q)
  <1> SUFFICES ASSUME p % Capacity = q % Capacity PROVE FALSE
    BY DEF Slot
  <1> DEFINE k == (q \div Capacity) - (p \div Capacity)
  <1>1. p = Capacity * (p \div Capacity) + (p % Capacity) /\ p \div Capacity \in Nat
    BY RingAssumption
  <1>2. q = Capacity * (q \div Capacity) + (q % Capacity) /\ q \div Capacity \in Nat
    BY RingAssumption
  <1>3. k \in Int
    BY <1>1, <1>2
  <1>4. q - p = Capacity * k
    BY <1>1, <1>2, RingAssumption
  <1> HIDE DEF k
  <1> QED BY <1>3, <1>4, NoMultiple, RingAssumption

-----------------------------------------------------------------------------
(* The inductive invariant.                                                *)

LEMMA InitInv == Init => IInv
  BY RingAssumption, SlotInRange DEF Init, IInv, TypeOK, PositionsOK, ProducerOK,
     ConsumerOK, WaitingOK, Slots

LEMMA BeginPushInv ==
  ASSUME IInv, NEW v \in Values, BeginPush(v) PROVE IInv'
  <1> USE DEF IInv, TypeOK
  <1>t. readPosition \in Nat /\ writePosition \in Nat /\ producerSees \in Nat
        /\ consumerSees \in Nat /\ Capacity \in Nat \ {0} /\ MaxPosition \in Nat
    BY RingAssumption
  <1>1. /\ storage' = [storage EXCEPT ![Slot(writePosition)] = Torn]
        /\ producer' = [step |-> "storing", value |-> v]
        /\ UNCHANGED <<readPosition, writePosition, consumerSees, consumer, delivered>>
        /\ writePosition < MaxPosition
    BY DEF BeginPush, consumerVars
  <1>2. PICK seen \in producerSees..readPosition :
          writePosition - seen < Capacity /\ producerSees' = seen
    BY DEF BeginPush, HasRoom
  <1>3. writePosition - readPosition < Capacity
    BY <1>2, <1>t
  <1>4. TypeOK'
    BY <1>1, <1>2, <1>t, SlotInRange
  <1>5. PositionsOK'
    BY <1>1, <1>2, <1>t DEF PositionsOK
  <1>6. ProducerOK'
    BY <1>1, <1>3 DEF ProducerOK
  <1>7. ASSUME NEW p \in Nat, readPosition <= p, p < writePosition
        PROVE  storage'[Slot(p)] = storage[Slot(p)]
    <2>1. Slot(p) # Slot(writePosition)
      BY <1>3, <1>7, <1>t, SlotsDiffer
    <2> QED BY <2>1, <1>1, <1>t, SlotInRange
  <1>8. ConsumerOK'
    <2>1. consumer.step # "idle" => readPosition < writePosition
      BY <1>t DEF ConsumerOK, PositionsOK
    <2> QED BY <2>1, <1>1, <1>7, <1>t DEF ConsumerOK
  <1>9. WaitingOK'
    BY <1>1, <1>7 DEF WaitingOK
  <1> QED BY <1>4, <1>5, <1>6, <1>8, <1>9

LEMMA RefusePushInv == ASSUME IInv, RefusePush PROVE IInv'
  <1> USE DEF IInv, TypeOK
  <1>t. readPosition \in Nat /\ producerSees \in Nat /\ MaxPosition \in Nat
    BY RingAssumption
  <1>1. PICK seen \in producerSees..readPosition : producerSees' = seen
    BY DEF RefusePush
  <1>2. UNCHANGED <<storage, readPosition, writePosition, consumerSees, producer,
                    consumer, delivered>>
    BY DEF RefusePush, consumerVars
  <1>3. producerSees' \in 0..MaxPosition
    BY <1>t, <1>1
  <1>4. TypeOK'
    BY <1>2, <1>3
  <1>5. PositionsOK'
    BY <1>t, <1>1, <1>2 DEF PositionsOK
  <1>6. ProducerOK' /\ ConsumerOK' /\ WaitingOK'
    BY <1>2 DEF ProducerOK, ConsumerOK, WaitingOK
  <1> QED BY <1>4, <1>5, <1>6

LEMMA FinishStoreInv == ASSUME IInv, FinishStore PROVE IInv'
  <1> USE DEF IInv, TypeOK
  <1>t. readPosition \in Nat /\ writePosition \in Nat /\ consumerSees \in Nat
        /\ Capacity \in Nat \ {0}
    BY RingAssumption
  <1>1. /\ storage' = [storage EXCEPT ![Slot(writePosition)] = producer.value]
        /\ producer' = [producer EXCEPT !.step = "stored"]
        /\ UNCHANGED <<readPosition, writePosition, producerSees, consumerSees,
                       consumer, delivered>>
        /\ producer.step = "storing"
    BY DEF FinishStore, consumerVars
  <1>2. writePosition - readPosition < Capacity /\ producer.value \in Values
    BY <1>1 DEF ProducerOK
  <1>3. TypeOK'
    BY <1>1, <1>2, <1>t, SlotInRange
  <1>4. PositionsOK'
    BY <1>1 DEF PositionsOK
  <1>5. ProducerOK'
    BY <1>1, <1>2, <1>t, SlotInRange DEF ProducerOK
  <1>6. ASSUME NEW p \in Nat, readPosition <= p, p < writePosition
        PROVE  storage'[Slot(p)] = storage[Slot(p)]
    <2>1. Slot(p) # Slot(writePosition)
      BY <1>2, <1>6, <1>t, SlotsDiffer
    <2> QED BY <2>1, <1>1, <1>t, SlotInRange
  <1>7. ConsumerOK'
    <2>1. consumer.step # "idle" => readPosition < writePosition
      BY <1>t DEF ConsumerOK, PositionsOK
    <2> QED BY <2>1, <1>1, <1>6, <1>t DEF ConsumerOK
  <1>8. WaitingOK'
    BY <1>1, <1>6 DEF WaitingOK
  <1> QED BY <1>3, <1>4, <1>5, <1>7, <1>8

LEMMA PublishInv == ASSUME IInv, Publish PROVE IInv'
  <1> USE DEF IInv, TypeOK
  <1>t. readPosition \in Nat /\ writePosition \in Nat /\ consumerSees \in Nat
        /\ Capacity \in Nat \ {0} /\ MaxPosition \in Nat
    BY RingAssumption
  <1>1. /\ writePosition' = writePosition + 1
        /\ producer' = [producer EXCEPT !.step = "idle"]
        /\ UNCHANGED <<storage, readPosition, producerSees, consumerSees, consumer,
                       delivered>>
        /\ producer.step = "stored"
    BY DEF Publish, consumerVars
  <1>2. /\ writePosition - readPosition < Capacity /\ writePosition < MaxPosition
        /\ storage[Slot(writePosition)] \in Values
    BY <1>1 DEF ProducerOK
  <1>3. TypeOK'
    BY <1>1, <1>2, <1>t
  <1>4. PositionsOK'
    BY <1>1, <1>2, <1>t DEF PositionsOK
  <1>5. ProducerOK'
    BY <1>1 DEF ProducerOK
  <1>6. ConsumerOK'
    BY <1>1 DEF ConsumerOK
  <1>7. WaitingOK'
    <2> SUFFICES ASSUME NEW p \in Nat, readPosition <= p, p < writePosition + 1
                 PROVE  storage[Slot(p)] \in Values
      BY <1>1 DEF WaitingOK
    <2>1. CASE p = writePosition
      BY <2>1, <1>2
    <2>2. CASE p < writePosition
      BY <2>2 DEF WaitingOK
    <2> QED BY <2>1, <2>2, <1>t
  <1> QED BY <1>3, <1>4, <1>5, <1>6, <1>7

LEMMA BeginTakeInv ==
  ASSUME IInv, NEW pops \in BOOLEAN, BeginTake(pops) PROVE IInv'
  <1> USE DEF IInv, TypeOK
  <1>t. readPosition \in Nat /\ writePosition \in Nat /\ consumerSees \in Nat
        /\ MaxPosition \in Nat
    BY RingAssumption
  <1>1. PICK seen \in consumerSees..writePosition :
          readPosition # seen /\ consumerSees' = seen
    BY DEF BeginTake
  <1>2. /\ consumer' = [consumer EXCEPT !.step = "copying", !.pops = pops]
        /\ UNCHANGED <<storage, readPosition, writePosition, producerSees, producer,
                       delivered>>
    BY DEF BeginTake, producerVars
  <1>3. consumerSees' \in 0..MaxPosition
    BY <1>t, <1>1
  <1>4. TypeOK'
    BY <1>2, <1>3
  <1>5. PositionsOK'
    BY <1>t, <1>1, <1>2 DEF PositionsOK
  <1>6. ConsumerOK'
    BY <1>t, <1>1, <1>2 DEF ConsumerOK, PositionsOK
  <1>7. ProducerOK' /\ WaitingOK'
    BY <1>2 DEF ProducerOK, WaitingOK
  <1> QED BY <1>4, <1>5, <1>6, <1>7

LEMMA FindEmptyInv == ASSUME IInv, FindEmpty PROVE IInv'
  <1> USE DEF IInv, TypeOK
  <1>1. /\ consumer.step = "idle"
        /\ readPosition \in consumerSees..writePosition
        /\ consumerSees' = readPosition
        /\ UNCHANGED <<storage, readPosition, writePosition, producerSees, producer,
                       consumer, delivered>>
    BY DEF FindEmpty, producerVars
  <1> QED BY <1>1 DEF PositionsOK, ProducerOK, ConsumerOK, WaitingOK

LEMMA FinishCopyInv == ASSUME IInv, FinishCopy PROVE IInv'
  <1> USE DEF IInv, TypeOK
  <1>t. readPosition \in Nat /\ writePosition \in Nat /\ consumerSees \in Nat
    OBVIOUS
  <1>1. /\ consumer.step = "copying"
        /\ consumer' = [consumer EXCEPT !.step = "copied",
                                        !.value = storage[Slot(readPosition)]]
        /\ UNCHANGED <<storage, readPosition, writePosition, producerSees,
                       consumerSees, producer, delivered>>
    BY DEF FinishCopy, producerVars
  <1>2. storage[Slot(readPosition)] \in Values
    BY <1>t, <1>1 DEF ConsumerOK, PositionsOK, WaitingOK
  <1>3. TypeOK' /\ PositionsOK'
    BY <1>1, <1>2 DEF PositionsOK
  <1>4. ConsumerOK'
    BY <1>1 DEF ConsumerOK
  <1>5. ProducerOK' /\ WaitingOK'
    BY <1>1 DEF ProducerOK, WaitingOK
  <1> QED BY <1>3, <1>4, <1>5

LEMMA ReleaseInv == ASSUME IInv, Release PROVE IInv'
  <1> USE DEF IInv, TypeOK
  <1>t. readPosition \in Nat /\ writePosition \in Nat /\ consumerSees \in Nat
        /\ producerSees \in Nat /\ Capacity \in Nat \ {0} /\ MaxPosition \in Nat
        /\ readPosition < consumerSees
    BY RingAssumption DEF ConsumerOK, Release
  <1>1. /\ delivered' = consumer.value
        /\ readPosition' = readPosition \/ readPosition' = readPosition + 1
        /\ consumer' = [consumer EXCEPT !.step = "idle"]
        /\ UNCHANGED <<storage, writePosition, producerSees, consumerSees, producer>>
        /\ consumer.step = "copied"
    BY DEF Release, producerVars
  <1>2. readPosition' \in 0..MaxPosition
    BY <1>t, <1>1 DEF PositionsOK
  <1>3. TypeOK'
    BY <1>1, <1>2
  <1>4. PositionsOK'
    BY <1>t, <1>1 DEF PositionsOK
  <1>5. ProducerOK'
    BY <1>t, <1>1 DEF ProducerOK
  <1>6. ConsumerOK'
    BY <1>1 DEF ConsumerOK
  <1>7. WaitingOK'
    BY <1>t, <1>1 DEF WaitingOK
  <1> QED BY <1>3, <1>4, <1>5, <1>6, <1>7

LEMMA ClearInv == ASSUME IInv, Clear PROVE IInv'
  <1> QED BY RingAssumption DEF IInv, TypeOK, PositionsOK, ProducerOK, ConsumerOK,
        WaitingOK, Clear

LEMMA NextInv == IInv /\ [Next]_vars => IInv'
  <1> SUFFICES ASSUME IInv, [Next]_vars PROVE IInv'
    OBVIOUS
  <1>1. CASE UNCHANGED vars
    BY <1>1 DEF IInv, TypeOK, PositionsOK, ProducerOK, ConsumerOK, WaitingOK, vars
  <1> QED BY <1>1, BeginPushInv, RefusePushInv, FinishStoreInv, PublishInv,
        BeginTakeInv, FindEmptyInv, FinishCopyInv, ReleaseInv, ClearInv DEF Next

THEOREM Invariance == Spec => []IInv
  BY InitInv, NextInv, PTL DEF Spec

\* Type correctness.
THEOREM TypeCorrect == Spec => []TypeOK
  <1>1. IInv => TypeOK
    BY DEF IInv
  <1> QED BY <1>1, Invariance, PTL

\* Neither thread enters the slot the other one works on: the race that the
\* positions and their memory order are there to prevent.
THEOREM SlotsAreExclusive == Spec => []NoSlotIsShared
  <1>1. IInv => NoSlotIsShared
    <2> SUFFICES ASSUME IInv, producer.step # "idle", consumer.step # "idle"
                 PROVE  Slot(writePosition) # Slot(readPosition)
      BY DEF NoSlotIsShared
    <2>1. readPosition \in Nat /\ writePosition \in Nat /\ consumerSees \in Nat
          /\ Capacity \in Nat \ {0}
      BY RingAssumption DEF IInv, TypeOK
    <2>2. readPosition < writePosition /\ writePosition < readPosition + Capacity
      BY <2>1 DEF IInv, PositionsOK, ProducerOK, ConsumerOK
    <2> QED BY <2>1, <2>2, SlotsDiffer
  <1> QED BY <1>1, Invariance, PTL

-----------------------------------------------------------------------------
(* The refinement.  Only the two release stores and clear() change the     *)
(* queue that the ring stands for.                                         *)

\* The queue is as long as the positions are apart, and element i is the slot
\* of the i-th position.
QueueShape ==
    /\ Waiting \in Seq(Values)
    /\ Len(Waiting) = writePosition - readPosition
    /\ \A i \in 1..Len(Waiting) : Waiting[i] = storage[Slot(readPosition + i - 1)]

LEMMA WaitingIsQueue == IInv => QueueShape
  <1> SUFFICES ASSUME IInv PROVE QueueShape
    OBVIOUS
  <1> DEFINE n == writePosition - readPosition
  <1>1. readPosition \in Nat /\ writePosition \in Nat /\ n \in Nat
    BY DEF IInv, TypeOK, PositionsOK
  <1>2. ASSUME NEW i \in 1..n PROVE storage[Slot(readPosition + i - 1)] \in Values
    BY <1>1 DEF IInv, WaitingOK
  <1> HIDE DEF n
  <1>3. Waiting = [i \in 1..n |-> storage[Slot(readPosition + i - 1)]]
    BY DEF Waiting, n
  <1>4. Waiting \in [1..n -> Values]
    BY <1>2, <1>3
  <1>5. Waiting \in Seq(Values) /\ Len(Waiting) = n
    BY <1>1, <1>4
  <1> QED BY <1>3, <1>5 DEF n, QueueShape

\* A step that moves no position and touches no waiting slot changes nothing.
LEMMA SameQueue ==
  ASSUME IInv, UNCHANGED <<readPosition, writePosition>>,
         \A p \in Nat : readPosition <= p /\ p < writePosition
                           => storage'[Slot(p)] = storage[Slot(p)]
  PROVE  Waiting' = Waiting
  <1>1. readPosition \in Nat /\ writePosition \in Nat
    BY DEF IInv, TypeOK
  <1>2. ASSUME NEW i \in 1..(writePosition - readPosition)
        PROVE  storage'[Slot(readPosition + i - 1)] = storage[Slot(readPosition + i - 1)]
    BY <1>1
  <1> QED BY <1>2 DEF Waiting

\* The slot the producer writes is not one of those waiting.
LEMMA WritingElsewhere ==
  ASSUME IInv, writePosition - readPosition < Capacity, NEW x,
         storage' = [storage EXCEPT ![Slot(writePosition)] = x]
  PROVE  \A p \in Nat : readPosition <= p /\ p < writePosition
                           => storage'[Slot(p)] = storage[Slot(p)]
  <1>1. readPosition \in Nat /\ writePosition \in Nat /\ Capacity \in Nat \ {0}
    BY RingAssumption DEF IInv, TypeOK
  <1> SUFFICES ASSUME NEW p \in Nat, readPosition <= p, p < writePosition
               PROVE  storage'[Slot(p)] = storage[Slot(p)]
    OBVIOUS
  <1>2. Slot(p) # Slot(writePosition)
    BY <1>1, SlotsDiffer
  <1> QED BY <1>1, <1>2, SlotInRange DEF IInv, TypeOK

LEMMA PublishPushes == ASSUME IInv, Publish PROVE Fifo!Push(producer.value)
  <1>t. readPosition \in Nat /\ writePosition \in Nat /\ Capacity \in Nat \ {0}
        /\ readPosition <= writePosition
    BY RingAssumption DEF IInv, TypeOK, PositionsOK
  <1>1. /\ writePosition' = writePosition + 1
        /\ UNCHANGED <<storage, readPosition, delivered>>
        /\ writePosition - readPosition < Capacity
        /\ storage[Slot(writePosition)] = producer.value
        /\ producer.value \in Values
    BY DEF Publish, consumerVars, IInv, ProducerOK
  <1>2. IInv'
    BY PublishInv
  <1>3. /\ Waiting' \in Seq(Values)
        /\ Len(Waiting') = Len(Waiting) + 1
        /\ \A i \in 1..Len(Waiting') : Waiting'[i] = storage[Slot(readPosition + i - 1)]
    <2>1. QueueShape'
      BY <1>2, WaitingIsQueue, PTL
    <2> QED BY <2>1, <1>1, <1>t, WaitingIsQueue DEF QueueShape
  <1>4. /\ Waiting \in Seq(Values)
        /\ Len(Waiting) = writePosition - readPosition
        /\ \A i \in 1..Len(Waiting) : Waiting[i] = storage[Slot(readPosition + i - 1)]
    BY WaitingIsQueue DEF QueueShape
  <1>5. Waiting' = Append(Waiting, producer.value)
    <2> DEFINE q == Append(Waiting, producer.value)
    <2>1. q \in Seq(Values) /\ Len(q) = Len(Waiting) + 1
          /\ (\A i \in 1..Len(Waiting) : q[i] = Waiting[i])
          /\ q[Len(Waiting) + 1] = producer.value
      BY <1>1, <1>4
    <2>2. Waiting'[Len(Waiting) + 1] = producer.value
      <3>1. Len(Waiting) + 1 \in 1..Len(Waiting')
        BY <1>3, <1>4, <1>t
      <3>2. readPosition + (Len(Waiting) + 1) - 1 = writePosition
        BY <1>4, <1>t
      <3> QED BY <3>1, <3>2, <1>3, <1>1
    <2> HIDE DEF q
    <2>3. ASSUME NEW i \in 1..Len(q) PROVE Waiting'[i] = q[i]
      <3>1. CASE i = Len(Waiting) + 1
        BY <3>1, <2>1, <2>2
      <3>2. CASE i # Len(Waiting) + 1
        <4>1. i \in 1..Len(Waiting) /\ i \in 1..Len(Waiting')
          BY <3>2, <2>1, <1>3, <1>4, <1>t
        <4> QED BY <4>1, <1>3, <1>4, <2>1
      <3> QED BY <3>1, <3>2
    <2>4. Waiting' = q
      BY <2>1, <2>3, <1>3
    <2> QED BY <2>4 DEF q
  <1> QED BY <1>1, <1>4, <1>5 DEF Fifo!Push

LEMMA ReleaseHandsOut ==
  ASSUME IInv, Release PROVE Fifo!Peek \/ Fifo!Pop
  <1>t. readPosition \in Nat /\ writePosition \in Nat /\ consumerSees \in Nat
        /\ readPosition < writePosition
    BY DEF IInv, TypeOK, PositionsOK, ConsumerOK, Release
  <1>1. /\ delivered' = storage[Slot(readPosition)]
        /\ UNCHANGED <<storage, writePosition>>
    BY DEF Release, producerVars, IInv, ConsumerOK
  <1>2. /\ Waiting \in Seq(Values)
        /\ Len(Waiting) = writePosition - readPosition
        /\ \A i \in 1..Len(Waiting) : Waiting[i] = storage[Slot(readPosition + i - 1)]
    BY WaitingIsQueue DEF QueueShape
  <1>3. Waiting # <<>> /\ delivered' = Head(Waiting)
    <2>1. Len(Waiting) >= 1
      BY <1>t, <1>2
    <2>2. Waiting[1] = storage[Slot(readPosition + 1 - 1)]
      BY <2>1, <1>2
    <2>3. readPosition + 1 - 1 = readPosition
      BY <1>t
    <2>4. Head(Waiting) = Waiting[1] /\ Waiting # <<>>
      BY <2>1, <1>2
    <2> QED BY <2>2, <2>3, <2>4, <1>1
  <1>4. CASE readPosition' = readPosition
    <2>1. Waiting' = Waiting
      BY <1>1, <1>4 DEF Waiting
    <2> QED BY <2>1, <1>3 DEF Fifo!Peek
  <1>5. CASE readPosition' = readPosition + 1
    <2>1. IInv'
      BY ReleaseInv
    <2>2. /\ Waiting' \in Seq(Values)
          /\ Len(Waiting') = writePosition' - readPosition'
          /\ \A i \in 1..Len(Waiting') :
                Waiting'[i] = storage'[Slot(readPosition' + i - 1)]
      <3>1. QueueShape'
        BY <2>1, WaitingIsQueue, PTL
      <3> QED BY <3>1 DEF QueueShape
    <2>3. Tail(Waiting) \in Seq(Values) /\ Len(Tail(Waiting)) = Len(Waiting) - 1
          /\ \A i \in 1..Len(Tail(Waiting)) : Tail(Waiting)[i] = Waiting[i + 1]
      BY <1>2, <1>3
    <2>4. Len(Waiting') = Len(Tail(Waiting))
      BY <2>2, <2>3, <1>1, <1>2, <1>5, <1>t
    <2>5. ASSUME NEW i \in 1..Len(Waiting') PROVE Waiting'[i] = Tail(Waiting)[i]
      <3>1. readPosition' + i - 1 = readPosition + (i + 1) - 1
        BY <1>5, <1>t
      <3>2. i + 1 \in 1..Len(Waiting)
        BY <2>3, <2>4, <1>2, <1>t
      <3>3. Waiting'[i] = storage[Slot(readPosition + (i + 1) - 1)]
        BY <3>1, <2>2, <1>1
      <3>4. Waiting[i + 1] = storage[Slot(readPosition + (i + 1) - 1)]
        BY <3>2, <1>2
      <3> QED BY <3>3, <3>4, <2>3, <2>4
    <2>6. Waiting' = Tail(Waiting)
      <3> DEFINE q == Tail(Waiting)
      <3>1. q \in Seq(Values) /\ Len(q) = Len(Waiting')
            /\ \A i \in 1..Len(Waiting') : Waiting'[i] = q[i]
        BY <2>3, <2>4, <2>5
      <3> HIDE DEF q
      <3>2. Waiting' = q
        BY <3>1, <2>2
      <3> QED BY <3>2 DEF q
    <2> QED BY <2>6, <1>3 DEF Fifo!Pop
  <1> QED BY <1>4, <1>5 DEF Release

LEMMA StepIsFifoStep ==
  ASSUME IInv, [Next]_vars PROVE [Fifo!Next]_<<Waiting, delivered>>
  <1>1. ASSUME NEW v \in Values, BeginPush(v)
        PROVE  UNCHANGED <<Waiting, delivered>>
    <2>1. /\ storage' = [storage EXCEPT ![Slot(writePosition)] = Torn]
          /\ UNCHANGED <<readPosition, writePosition, delivered>>
      BY <1>1 DEF BeginPush, consumerVars
    <2>2. writePosition - readPosition < Capacity
      <3>1. PICK seen \in producerSees..readPosition : writePosition - seen < Capacity
        BY <1>1 DEF BeginPush, HasRoom
      <3>2. readPosition \in Nat /\ writePosition \in Nat /\ producerSees \in Nat
            /\ Capacity \in Nat
        BY RingAssumption DEF IInv, TypeOK
      <3> QED BY <3>1, <3>2
    <2>3. Waiting' = Waiting
      BY <2>1, <2>2, WritingElsewhere, SameQueue
    <2> QED BY <2>1, <2>3
  <1>2. CASE FinishStore
    <2>1. /\ storage' = [storage EXCEPT ![Slot(writePosition)] = producer.value]
          /\ UNCHANGED <<readPosition, writePosition, delivered>>
          /\ writePosition - readPosition < Capacity
      BY <1>2 DEF FinishStore, consumerVars, IInv, ProducerOK
    <2>2. Waiting' = Waiting
      BY <2>1, WritingElsewhere, SameQueue
    <2> QED BY <2>1, <2>2
  <1>3. CASE Publish
    <2>1. producer.value \in Values
      BY <1>3 DEF Publish, IInv, ProducerOK
    <2> QED BY <1>3, <2>1, PublishPushes DEF Fifo!Next
  <1>4. CASE Release
    BY <1>4, ReleaseHandsOut DEF Fifo!Next
  <1>5. CASE Clear
    <2>1. Waiting' = <<>> /\ UNCHANGED delivered
      BY <1>5 DEF Clear, Waiting
    <2> QED BY <2>1 DEF Fifo!Next, Fifo!Clear
  <1>6. ASSUME RefusePush \/ (\E pops \in BOOLEAN : BeginTake(pops)) \/ FindEmpty
               \/ FinishCopy \/ UNCHANGED vars
        PROVE  UNCHANGED <<Waiting, delivered>>
    BY <1>6 DEF RefusePush, BeginTake, FindEmpty, FinishCopy, vars, producerVars,
       consumerVars, Waiting
  <1> QED BY <1>1, <1>2, <1>3, <1>4, <1>5, <1>6 DEF Next

\* The rings are bounded first-in first-out queues: whatever the interleaving
\* of the copies and however old the positions the threads go by, every
\* accepted value is handed out once, whole and in order.
THEOREM Refinement == Spec => IsFifo
  <1>1. Init => Fifo!Init
    BY DEF Init, Fifo!Init, Waiting
  <1>2. Spec => [][Fifo!Next]_<<Waiting, delivered>>
    BY StepIsFifoStep, Invariance, PTL DEF Spec
  <1> QED BY <1>1, <1>2, PTL DEF Spec, IsFifo, Fifo!Spec
=============================================================================
