-------------------------- MODULE UndoableDocument --------------------------
(***************************************************************************)
(* What a project-backed session promises, without journal, snapshot or    *)
(* command: a document with its past and its future that survives          *)
(* crashes.  Every acknowledged step is one revision; undo brings back     *)
(* exactly the content before the step it takes back, redo exactly the     *)
(* content that was undone; a crash loses nothing acknowledged, and an     *)
(* interrupted step afterwards has happened entirely or not at all.        *)
(***************************************************************************)
EXTENDS Naturals, Sequences, SequencesExt

VARIABLES
    up,        \* the session takes edits
    revision,  \* the last acknowledged revision
    past,      \* contents that undo leads back to, the nearest one last
    present,   \* the content at the last acknowledged revision
    future,    \* contents that redo leads forward to, the nearest one last
    doubt      \* the outcome of an interrupted step, if it may have happened

state == <<revision, past, present, future>>
State == [revision |-> revision, past |-> past, present |-> present,
          future |-> future]

EditOf(s, t) ==
    /\ t.revision = s.revision + 1
    /\ t.past = Append(s.past, s.present)
    /\ t.future = <<>>

UndoOf(s, t) ==
    /\ t.revision = s.revision + 1
    /\ s.past # <<>>
    /\ t.past = Front(s.past)
    /\ t.present = Last(s.past)
    /\ t.future = Append(s.future, s.present)

RedoOf(s, t) ==
    /\ t.revision = s.revision + 1
    /\ s.future # <<>>
    /\ t.past = Append(s.past, s.present)
    /\ t.present = Last(s.future)
    /\ t.future = Front(s.future)

StepOf(s, t) == EditOf(s, t) \/ UndoOf(s, t) \/ RedoOf(s, t)

Init ==
    /\ ~up
    /\ past = <<>> /\ future = <<>>
    /\ doubt = {}

Step ==
    /\ up /\ up'
    /\ revision' = revision + 1
    /\ StepOf(State, State')
    /\ UNCHANGED doubt

\* The outcome of a step is unknown, and nothing more is taken until the
\* session is recovered.
Interrupt ==
    /\ up /\ ~up'
    /\ \A t \in doubt' : StepOf(State, t) /\ doubt' = {t}
    /\ UNCHANGED state

Crash == up /\ ~up' /\ UNCHANGED <<state, doubt>>

Recover ==
    /\ ~up /\ up'
    /\ State' \in {State} \cup doubt
    /\ doubt' = {}

Next == Step \/ Interrupt \/ Crash \/ Recover

observed == <<up, state, doubt>>

Spec == Init /\ [][Next]_observed
=============================================================================
