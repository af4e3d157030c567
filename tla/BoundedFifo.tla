---------------------------- MODULE BoundedFifo ----------------------------
(***************************************************************************)
(* What the wait-free rings between two threads promise: a first-in        *)
(* first-out queue that holds at most Capacity values, each handed out     *)
(* once, in one indivisible step, and never in part.                       *)
(***************************************************************************)
EXTENDS Naturals, Sequences

CONSTANTS
    Capacity,   \* values the queue holds at most
    Values,     \* what can be queued
    NoValue     \* nothing has been handed out yet

VARIABLES
    queue,      \* the values waiting, oldest first
    delivered   \* the value handed out last

Init ==
    /\ queue = <<>>
    /\ delivered = NoValue

\* A value is queued when there is room for it; otherwise it is refused and
\* nothing changes.
Push(v) ==
    /\ Len(queue) < Capacity
    /\ queue' = Append(queue, v)
    /\ UNCHANGED delivered

\* The oldest value is handed out, and stays for the next call...
Peek ==
    /\ queue # <<>>
    /\ delivered' = Head(queue)
    /\ UNCHANGED queue

\* ...or leaves the queue.
Pop ==
    /\ queue # <<>>
    /\ delivered' = Head(queue)
    /\ queue' = Tail(queue)

\* With both threads stopped the queue can be emptied.
Clear ==
    /\ queue' = <<>>
    /\ UNCHANGED delivered

Next == (\E v \in Values : Push(v)) \/ Peek \/ Pop \/ Clear

Spec == Init /\ [][Next]_<<queue, delivered>>
=============================================================================
