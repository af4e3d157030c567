------------------------- MODULE MCJournaledSession -------------------------
(***************************************************************************)
(* Instances of JournaledSession for TLC.                                  *)
(***************************************************************************)
EXTENDS JournaledSession, TLC

CONSTANTS nA, tA, tB

\* A project saved before journals existed: revision 2, two tracks and a
\* clip on the second one.
OldProject ==
    [revision |-> 2, tempo |-> tA,
     tracks |-> <<[id |-> 1, name |-> nA], [id |-> 3, name |-> nA]>>,
     others |-> {[id |-> 2, track |-> 3]}]
Seeds == {OldProject}
=============================================================================
