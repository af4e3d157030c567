--------------------------- MODULE MCPlanExecutor ---------------------------
(***************************************************************************)
(* Instance of PlanExecutor: an output node and one other, in plans that   *)
(* have both or only the first.                                            *)
(***************************************************************************)
EXTENDS PlanExecutor

CONSTANTS nOut, nGain

TwoNodes == {nOut, nGain}

BothResolved == [routes |-> TwoNodes, resolved |-> TwoNodes]
OutputOnly == [routes |-> {nOut}, resolved |-> {nOut}]

TwoShapes == {BothResolved, OutputOnly}

NoCommands == accepted' = <<>>
NoParameters == nextEvent' = 1 /\ position' = 0

\* Commands and parameter events do not interact (they have rings of their
\* own and the callback handles one after the other): between two clears the
\* instance has neither, and three plans, or commands with two plans, or
\* parameter events with the one plan that routes them.  A command for the
\* output node, which every plan resolves, is like one for all nodes.
OneLoad ==
    \/ NoCommands /\ NoParameters
    \/ NoParameters /\ Len(plans') < MaxGeneration /\ format' # 1
       /\ \A i \in DOMAIN accepted' : accepted'[i].target # nOut
    \/ NoCommands /\ Len(plans') + 1 < MaxGeneration

MCNext == Next /\ OneLoad

MCSpec == Init /\ [][MCNext]_vars

MCFairSpec == MCSpec /\ Fairness
=============================================================================
