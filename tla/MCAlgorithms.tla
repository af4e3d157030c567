---------------------------- MODULE MCAlgorithms ----------------------------
(***************************************************************************)
(* A small instance of Algorithms.                                         *)
(***************************************************************************)
EXTENDS Algorithms

\* Three nodes of two inputs and an output, one of them with a second output, with and without
\* latencies; once without the metadata of the third.
Port(outs, latency) == [ins |-> 2, outs |-> outs, latency |-> latency]
SomeLayouts ==
    {<<Port(2, 0), Port(1, 0), Port(1, 0)>>, <<Port(2, 1), Port(1, 0), Port(1, 0)>>,
     <<Port(1, 0), Port(1, 1), Port(2, 0)>>, <<Port(1, 0), Port(2, 2), Port(1, 1)>>,
     <<Port(1, 0), Port(1, 0)>>}

\* Two takes of the same length and a file that cannot be read.
Take(start) == [start |-> start, length |-> 1, readable |-> TRUE]
SomeContents == {Take(1), Take(2), [Take(1) EXCEPT !.readable = FALSE]}

\* Two sources, the first of a known content and named 1; the second may be the same file.
Path(relative, name) ==
    [relative |-> relative, folder |-> IF relative THEN "home" ELSE "library", name |-> name]
SomeDocuments ==
    {<<[path |-> Path(r, 1), hash |-> <<1, 1>>], [path |-> Path(q, n), hash |-> h]>> :
       r \in BOOLEAN, q \in BOOLEAN, n \in {1, 2}, h \in {<<0, 0>>, <<1, 1>>, <<2, 1>>}}

\* A path outside of the project that no document can hold.
SomeLongPaths == {[relative |-> FALSE, folder |-> "moved", name |-> 2]}

SomeFolders == <<"library", "moved">>
=============================================================================
