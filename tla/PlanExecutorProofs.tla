------------------------- MODULE PlanExecutorProofs -------------------------
(***************************************************************************)
(* Proofs about PlanExecutor: the callback never works with a plan that    *)
(* was destroyed, a plan always fits the executor's output, no old block   *)
(* is copied out, every command is completed once, and no event that is    *)
(* due stays behind, for every number of plans and every capacity.         *)
(***************************************************************************)
EXTENDS PlanExecutor, Integers, FiniteSetTheorems, SequenceTheorems, TLAPS

Running == callback.step # "stopped"

Steps == {"stopped", "waiting", "draining", "routing", "rendering", "rendered",
          "returning"}

PlansTyped ==
    /\ plans \in Seq([shape : PlanShapes, frames : FrameCounts])
    /\ live \in 0..Len(plans)
    /\ published \subseteq 0..Len(plans)
    /\ retired \subseteq [plan : Nat \ {0}, safeAfter : Nat]
    /\ destroyed \subseteq 1..Len(plans)
    /\ callback \in [step : Steps, plan : 0..Len(plans), drained : Nat]
    /\ acknowledged \in 0..Len(plans)

\* What waits to be destroyed is older than its successor and than the live plan.
RetiredAreOlder ==
    \A r \in retired : r.plan < r.safeAfter /\ r.plan < live

LiveIsKept ==
    /\ live \notin destroyed
    /\ live # 0 => acknowledged <= live

\* What the callback can load.
PublishedUpToLive ==
    Running => /\ callback.plan \in published
               /\ \A g \in published : g <= live

\* The callback is past what it acknowledged, or has not seen a plan yet and
\* will only see later ones.
PastAcknowledged ==
    Running => IF callback.plan = 0
               THEN \A g \in published : g = 0 \/ g > acknowledged
               ELSE acknowledged <= callback.plan

\* A destroyed plan that live_ held since the start is behind the callback.
DestroyedAreBehind ==
    Running => \A d \in destroyed : d \in published => d < acknowledged

WorksWithAPlan == InUse => callback.plan # 0

FormatIsKept ==
    /\ live # 0 => plans[live].frames = format
    /\ Running => \A g \in published : g # 0 => plans[g].frames = format

OutputIsKept ==
    /\ Running /\ callback.plan = 0 /\ live # 0 => output = "silence"
    /\ callback.step = "rendered" => output = "fresh"
    /\ callback.step = "returning" /\ callback.plan # 0 => output = "fresh"

IInv ==
    /\ PlansTyped /\ RetiredAreOlder /\ LiveIsKept /\ PublishedUpToLive
    /\ PastAcknowledged /\ DestroyedAreBehind /\ WorksWithAPlan
    /\ FormatIsKept /\ OutputIsKept

LEMMA InitIInv == Init => IInv
<1> SUFFICES ASSUME Init PROVE IInv
  OBVIOUS
<1> plans \in Seq([shape : PlanShapes, frames : FrameCounts]) /\ Len(plans) = 0
  BY DEF Init
<1>1. PlansTyped
  BY DEF Init, PlansTyped, Steps
<1>2. RetiredAreOlder /\ LiveIsKept /\ PublishedUpToLive /\ PastAcknowledged
  BY DEF Init, RetiredAreOlder, LiveIsKept, PublishedUpToLive, PastAcknowledged, Running
<1>3. DestroyedAreBehind /\ WorksWithAPlan /\ FormatIsKept /\ OutputIsKept
  BY DEF Init, DestroyedAreBehind, WorksWithAPlan, FormatIsKept, OutputIsKept, Running, InUse
<1> QED
  BY <1>1, <1>2, <1>3 DEF IInv

\* What the invariant depends on.
lifeVars == <<plans, live, published, retired, destroyed, format, output,
              callback, acknowledged>>

LEMMA QuietKeepsIInv == IInv /\ UNCHANGED lifeVars => IInv'
BY DEF lifeVars, IInv, PlansTyped, RetiredAreOlder, LiveIsKept, PublishedUpToLive,
       PastAcknowledged, DestroyedAreBehind, WorksWithAPlan, FormatIsKept, OutputIsKept,
       Running, InUse

LEMMA PrepareFailsKeepsIInv ==
    ASSUME IInv, NEW frames \in FrameCounts, PrepareFails(frames) PROVE IInv'
<1> USE DEF IInv, PrepareFails, FirstFormat
<1>1. PlansTyped' /\ RetiredAreOlder' /\ LiveIsKept' /\ PublishedUpToLive'
  BY DEF PlansTyped, RetiredAreOlder, LiveIsKept, PublishedUpToLive, Running
<1>2. PastAcknowledged' /\ DestroyedAreBehind' /\ WorksWithAPlan'
  BY DEF PastAcknowledged, DestroyedAreBehind, WorksWithAPlan, Running, InUse
<1>3. CASE live = 0
  <2>1. Running => \A g \in published : g = 0
    BY <1>3 DEF PublishedUpToLive, PlansTyped
  <2>2. FormatIsKept'
    BY <1>3, <2>1 DEF FormatIsKept, Running
  <2>3. Running => callback.plan = 0
    BY <2>1 DEF PublishedUpToLive
  <2>4. callback.step # "rendered"
    BY <2>3 DEF WorksWithAPlan, InUse, Running
  <2>5. OutputIsKept'
    BY <1>3, <2>3, <2>4 DEF OutputIsKept, Running
  <2> QED
    BY <1>1, <1>2, <2>2, <2>5
<1>4. CASE live # 0
  BY <1>1, <1>2, <1>4 DEF FormatIsKept, OutputIsKept, Running
<1> QED
  BY <1>3, <1>4

LEMMA PublishKeepsIInv ==
    ASSUME IInv, NEW shape \in PlanShapes, NEW frames \in FrameCounts,
           Publish(shape, frames)
    PROVE  IInv'
<1> DEFINE generation == Len(plans) + 1
           plan == [shape |-> shape, frames |-> frames]
<1>0. plan \in [shape : PlanShapes, frames : FrameCounts]
  OBVIOUS
<1>1. /\ plans' = Append(plans, plan)
      /\ live' = generation
      /\ published' = published \cup {generation}
      /\ destroyed' = destroyed /\ callback' = callback /\ acknowledged' = acknowledged
      /\ live = 0 \/ frames = format
      /\ format' = IF live = 0 THEN frames ELSE format
      /\ output' = IF live = 0 THEN "silence" ELSE output
  BY DEF Publish, FormatFits, FirstFormat
<1>2. retired' = IF live = 0 THEN retired
                 ELSE retired \cup {[plan |-> live, safeAfter |-> generation]}
  BY DEF Publish, Retirement
<1>3. /\ plans' \in Seq([shape : PlanShapes, frames : FrameCounts])
      /\ Len(plans') = generation
      /\ \A i \in 1..Len(plans) : plans'[i] = plans[i]
      /\ plans'[generation] = plan
  BY <1>0, <1>1 DEF IInv, PlansTyped
<1>4. Len(plans) \in Nat /\ live \in 0..Len(plans) /\ callback.plan \in 0..Len(plans)
      /\ published \subseteq 0..Len(plans)
  BY DEF IInv, PlansTyped
<1> HIDE DEF plan
<1>5. PlansTyped'
  <2>1. retired' \subseteq [plan : Nat \ {0}, safeAfter : Nat]
    BY <1>2, <1>4 DEF IInv, PlansTyped
  <2>2. live' \in 0..Len(plans') /\ published' \subseteq 0..Len(plans')
    <3>1. 0..Len(plans) \subseteq 0..Len(plans')
      BY <1>3, <1>4
    <3>2. Len(plans') \in 0..Len(plans')
      BY <1>3, <1>4
    <3> QED
      BY <1>1, <1>3, <1>4, <3>1, <3>2
  <2>3. destroyed' \subseteq 1..Len(plans') /\ acknowledged' \in 0..Len(plans')
    BY <1>1, <1>3, <1>4 DEF IInv, PlansTyped
  <2>4. callback' \in [step : Steps, plan : 0..Len(plans'), drained : Nat]
    <3>1. callback \in [step : Steps, plan : 0..Len(plans), drained : Nat]
      BY DEF IInv, PlansTyped
    <3>2. 0..Len(plans) \subseteq 0..Len(plans')
      BY <1>3, <1>4
    <3> QED
      BY <1>1, <3>1, <3>2
  <2> QED
    BY <1>3, <2>1, <2>2, <2>3, <2>4 DEF PlansTyped
<1>6. RetiredAreOlder'
  <2> SUFFICES ASSUME NEW r \in retired' PROVE r.plan < r.safeAfter /\ r.plan < live'
    BY DEF RetiredAreOlder
  <2>1. CASE r \in retired
    <3>1. r.plan \in Nat /\ r.plan < r.safeAfter /\ r.plan < live
      BY <2>1 DEF IInv, PlansTyped, RetiredAreOlder
    <3> QED
      BY <1>1, <1>4, <3>1
  <2>2. CASE r = [plan |-> live, safeAfter |-> generation]
    BY <1>1, <1>4, <2>2
  <2> QED
    BY <1>2, <2>1, <2>2
<1>7. LiveIsKept'
  BY <1>1, <1>4 DEF IInv, PlansTyped, LiveIsKept
<1>8. PublishedUpToLive'
  BY <1>1, <1>4 DEF IInv, PublishedUpToLive, Running
<1>9. PastAcknowledged'
  BY <1>1, <1>4 DEF IInv, PlansTyped, PastAcknowledged, Running
<1>10. DestroyedAreBehind'
  BY <1>1, <1>4 DEF IInv, PlansTyped, DestroyedAreBehind, Running
<1>11. WorksWithAPlan'
  BY <1>1 DEF IInv, WorksWithAPlan, InUse
<1>12. Running /\ live = 0 => published = {0} /\ callback.plan = 0
  <2> SUFFICES ASSUME Running, live = 0 PROVE published = {0} /\ callback.plan = 0
    OBVIOUS
  <2>1. \A g \in published : g = 0
    BY <1>4 DEF IInv, PublishedUpToLive
  <2>2. callback.plan \in published
    BY DEF IInv, PublishedUpToLive
  <2> QED
    BY <2>1, <2>2
<1>13. FormatIsKept'
  <2>1. plans'[generation].frames = format'
    BY <1>1, <1>3 DEF plan
  <2>2. Running /\ live # 0 => \A g \in published : g # 0 => plans'[g].frames = format'
    BY <1>1, <1>3, <1>4 DEF IInv, FormatIsKept
  <2> QED
    BY <1>1, <1>12, <2>1, <2>2 DEF FormatIsKept, Running
<1>14. OutputIsKept'
  <2>1. CASE live = 0
    BY <2>1, <1>1, <1>12 DEF IInv, OutputIsKept, WorksWithAPlan, InUse, Running
  <2>2. CASE live # 0
    BY <2>2, <1>1 DEF IInv, OutputIsKept, Running
  <2> QED
    BY <2>1, <2>2
<1> QED
  BY <1>5, <1>6, <1>7, <1>8, <1>9, <1>10, <1>11, <1>13, <1>14 DEF IInv

LEMMA ReclaimKeepsIInv == ASSUME IInv, Reclaim PROVE IInv'
<1>1. /\ retired' \subseteq retired
      /\ destroyed' = destroyed \cup {r.plan : r \in Reclaimable}
      /\ UNCHANGED <<plans, live, published, format, output, callback, acknowledged>>
  BY DEF Reclaim, audioVars
<1>2. \A r \in Reclaimable : /\ r \in retired /\ r.plan \in Nat /\ r.safeAfter \in Nat
                             /\ r.plan < live /\ r.plan < acknowledged
  BY DEF IInv, PlansTyped, RetiredAreOlder, Reclaimable
<1>3. \A r \in Reclaimable : r.plan \in 1..Len(plans)
  BY <1>2 DEF IInv, PlansTyped, Reclaimable
<1>4. PlansTyped' /\ RetiredAreOlder'
  BY <1>1, <1>3 DEF IInv, PlansTyped, RetiredAreOlder
<1>5. LiveIsKept' /\ DestroyedAreBehind'
  BY <1>1, <1>2 DEF IInv, PlansTyped, LiveIsKept, DestroyedAreBehind, Running
<1>6. PublishedUpToLive' /\ PastAcknowledged' /\ WorksWithAPlan'
  BY <1>1 DEF IInv, PublishedUpToLive, PastAcknowledged, WorksWithAPlan, Running, InUse
<1>7. FormatIsKept' /\ OutputIsKept'
  BY <1>1 DEF IInv, FormatIsKept, OutputIsKept, Running
<1> QED
  BY <1>4, <1>5, <1>6, <1>7 DEF IInv

LEMMA StartKeepsIInv == ASSUME IInv, Start PROVE IInv'
<1>1. /\ ~Running
      /\ callback' = [step |-> "waiting", plan |-> live, drained |-> 0]
      /\ published' = {live}
      /\ UNCHANGED <<plans, live, retired, destroyed, format, output, acknowledged>>
  BY DEF Start, Stopped, Running
<1>2. Len(plans) \in Nat /\ live \in 0..Len(plans)
  BY DEF IInv, PlansTyped
<1>3. PlansTyped' /\ RetiredAreOlder' /\ LiveIsKept'
  BY <1>1, <1>2 DEF IInv, PlansTyped, RetiredAreOlder, LiveIsKept, Steps
<1>4. PublishedUpToLive' /\ PastAcknowledged'
  BY <1>1, <1>2 DEF IInv, LiveIsKept, PublishedUpToLive, PastAcknowledged
<1>5. DestroyedAreBehind' /\ WorksWithAPlan'
  BY <1>1 DEF IInv, LiveIsKept, DestroyedAreBehind, WorksWithAPlan, InUse
<1>6. FormatIsKept' /\ OutputIsKept'
  BY <1>1 DEF IInv, FormatIsKept, OutputIsKept
<1> QED
  BY <1>3, <1>4, <1>5, <1>6 DEF IInv

LEMMA StopKeepsIInv == ASSUME IInv, Stop PROVE IInv'
<1>1. /\ callback' = [callback EXCEPT !.step = "stopped"]
      /\ UNCHANGED <<plans, live, published, retired, destroyed, format, output,
                     acknowledged>>
  BY DEF Stop, planVars
<1>2. callback'.step = "stopped" /\ callback' \in [step : Steps, plan : 0..Len(plans), drained : Nat]
  BY <1>1 DEF IInv, PlansTyped, Steps
<1>3. ~Running' /\ ~InUse'
  BY <1>2 DEF Running, InUse
<1>4. PlansTyped' /\ RetiredAreOlder' /\ LiveIsKept'
  BY <1>1, <1>2 DEF IInv, PlansTyped, RetiredAreOlder, LiveIsKept
<1>5. PublishedUpToLive' /\ PastAcknowledged' /\ DestroyedAreBehind' /\ WorksWithAPlan'
  BY <1>3 DEF PublishedUpToLive, PastAcknowledged, DestroyedAreBehind, WorksWithAPlan
<1>6. FormatIsKept' /\ OutputIsKept'
  BY <1>1, <1>2, <1>3 DEF IInv, FormatIsKept, OutputIsKept
<1> QED
  BY <1>4, <1>5, <1>6 DEF IInv

LEMMA ResetKeepsIInv == ASSUME IInv, Reset PROVE IInv'
<1>1. /\ ~Running /\ callback.step = "stopped"
      /\ UNCHANGED <<plans, live, published, retired, destroyed, format, callback,
                     acknowledged>>
  BY DEF Reset, Stopped, Running, planVars
<1>2. PlansTyped' /\ RetiredAreOlder' /\ LiveIsKept'
  BY <1>1 DEF IInv, PlansTyped, RetiredAreOlder, LiveIsKept
<1>3. ~Running' /\ ~InUse'
  BY <1>1 DEF Running, InUse
<1>4. PublishedUpToLive' /\ PastAcknowledged' /\ DestroyedAreBehind' /\ WorksWithAPlan'
  BY <1>3 DEF PublishedUpToLive, PastAcknowledged, DestroyedAreBehind, WorksWithAPlan
<1>5. FormatIsKept' /\ OutputIsKept'
  BY <1>1, <1>3 DEF IInv, FormatIsKept, OutputIsKept
<1> QED
  BY <1>2, <1>4, <1>5 DEF IInv

\* Both ways of emptying retiredPlans_ while the stream is stopped.
LEMMA StoppedKeepsIInv ==
    ASSUME PlansTyped', RetiredAreOlder', LiveIsKept', callback'.step = "stopped",
           live' # 0 => plans'[live'].frames = format'
    PROVE  IInv'
<1>1. ~Running' /\ ~InUse'
  BY DEF Running, InUse
<1>2. PublishedUpToLive' /\ PastAcknowledged' /\ DestroyedAreBehind' /\ WorksWithAPlan'
  BY <1>1 DEF PublishedUpToLive, PastAcknowledged, DestroyedAreBehind, WorksWithAPlan
<1>3. FormatIsKept' /\ OutputIsKept'
  BY <1>1 DEF FormatIsKept, OutputIsKept
<1> QED
  BY <1>2, <1>3 DEF IInv

LEMMA FlushKeepsIInv == ASSUME IInv, FlushRetiredPlans PROVE IInv'
<1>1. /\ callback.step = "stopped"
      /\ retired' = {} /\ destroyed' = destroyed \cup {r.plan : r \in retired}
      /\ UNCHANGED <<plans, live, published, format, output, callback, acknowledged>>
  BY DEF FlushRetiredPlans, Stopped, audioVars
<1>2. \A r \in retired : r.plan \in 1..Len(plans) /\ r.plan # live
  BY DEF IInv, PlansTyped, RetiredAreOlder
<1>3. PlansTyped' /\ RetiredAreOlder' /\ LiveIsKept'
  BY <1>1, <1>2 DEF IInv, PlansTyped, RetiredAreOlder, LiveIsKept
<1>4. live' # 0 => plans'[live'].frames = format'
  BY <1>1 DEF IInv, FormatIsKept
<1> QED
  BY <1>1, <1>3, <1>4, StoppedKeepsIInv

LEMMA ReleaseAllKeepsIInv == ASSUME IInv, ReleaseAll PROVE IInv'
<1>1. /\ callback.step = "stopped" /\ plans' = plans
      /\ live' = 0 /\ retired' = {} /\ destroyed' = 1..Len(plans)
      /\ UNCHANGED <<published, output, callback, acknowledged>>
  BY DEF ReleaseAll, Stopped, GenerationsAfterRelease
<1>2. Len(plans) \in Nat
  BY DEF IInv, PlansTyped
<1>3. PlansTyped' /\ RetiredAreOlder' /\ LiveIsKept'
  BY <1>1, <1>2 DEF IInv, PlansTyped, RetiredAreOlder, LiveIsKept
<1> QED
  BY <1>1, <1>3, StoppedKeepsIInv

LEMMA LoadPlanKeepsIInv == ASSUME IInv, LoadPlan PROVE IInv'
<1>1. PICK generation \in published :
         /\ generation >= callback.plan
         /\ callback' = [step |-> IF generation = 0 THEN "returning" ELSE "draining",
                         plan |-> generation, drained |-> 0]
  BY DEF LoadPlan
<1>2. /\ Running
      /\ output' = IF output = "fresh" THEN "stale" ELSE output
      /\ UNCHANGED <<plans, live, published, retired, destroyed, format, acknowledged>>
  BY DEF LoadPlan, Running, planVars
<1>3. /\ callback'.plan = generation
      /\ callback'.step = IF generation = 0 THEN "returning" ELSE "draining"
      /\ generation \in 0..Len(plans) /\ callback.plan \in 0..Len(plans)
      /\ acknowledged \in 0..Len(plans) /\ Len(plans) \in Nat
      /\ callback' \in [step : Steps, plan : 0..Len(plans), drained : Nat]
  BY <1>1 DEF IInv, PlansTyped, Steps
<1>4. PlansTyped' /\ RetiredAreOlder' /\ LiveIsKept'
  BY <1>2, <1>3 DEF IInv, PlansTyped, RetiredAreOlder, LiveIsKept
<1>5. PublishedUpToLive' /\ DestroyedAreBehind'
  BY <1>2, <1>3 DEF IInv, PublishedUpToLive, DestroyedAreBehind, Running
<1>6. PastAcknowledged'
  BY <1>1, <1>2, <1>3 DEF IInv, PlansTyped, PastAcknowledged, Running
<1>7. WorksWithAPlan' /\ FormatIsKept'
  BY <1>2, <1>3 DEF IInv, WorksWithAPlan, FormatIsKept, Running, InUse
<1>8. OutputIsKept'
  BY <1>1, <1>2, <1>3 DEF IInv, OutputIsKept, Running
<1> QED
  BY <1>4, <1>5, <1>6, <1>7, <1>8 DEF IInv

\* A step of the callback that keeps its plan.
LEMMA CallbackStepKeepsIInv ==
    ASSUME IInv, callback' \in [step : Steps, plan : 0..Len(plans), drained : Nat],
           callback'.plan = callback.plan, callback'.step # "stopped", InUse,
           callback'.step \in {"rendered", "returning"} => output' = "fresh",
           acknowledged' = acknowledged \/ acknowledged' = callback.plan,
           UNCHANGED <<plans, live, published, retired, destroyed, format>>
    PROVE  IInv'
<1>1. /\ Running /\ Running' /\ callback.plan # 0
      /\ callback.plan \in 0..Len(plans) /\ acknowledged \in 0..Len(plans)
      /\ Len(plans) \in Nat /\ live \in 0..Len(plans)
  BY DEF IInv, PlansTyped, WorksWithAPlan, InUse, Running
<1>2. callback.plan \in published /\ callback.plan <= live
  BY <1>1 DEF IInv, PublishedUpToLive
<1>3. acknowledged <= callback.plan
  BY <1>1 DEF IInv, PastAcknowledged
<1>4. PlansTyped' /\ RetiredAreOlder' /\ LiveIsKept'
  BY <1>1, <1>2 DEF IInv, PlansTyped, RetiredAreOlder, LiveIsKept
<1>5. PublishedUpToLive' /\ PastAcknowledged' /\ WorksWithAPlan'
  BY <1>1, <1>3 DEF IInv, PublishedUpToLive, PastAcknowledged, WorksWithAPlan
<1>6. DestroyedAreBehind'
  <2>1. acknowledged' >= acknowledged /\ acknowledged' \in Nat
    BY <1>1, <1>3
  <2>2. \A d \in destroyed : d \in published => d < acknowledged
    BY <1>1 DEF IInv, DestroyedAreBehind
  <2>3. \A d \in destroyed : d \in Nat
    BY <1>1 DEF IInv, PlansTyped
  <2> QED
    BY <1>1, <2>1, <2>2, <2>3 DEF DestroyedAreBehind
<1>7. FormatIsKept' /\ OutputIsKept'
  BY <1>1 DEF IInv, FormatIsKept, OutputIsKept
<1> QED
  BY <1>4, <1>5, <1>6, <1>7 DEF IInv

LEMMA DrainCommandKeepsIInv == ASSUME IInv, DrainCommand PROVE IInv'
<1>1. /\ callback.step = "draining" /\ callback' = [callback EXCEPT !.drained = @ + 1]
      /\ UNCHANGED <<plans, live, published, retired, destroyed, format, acknowledged>>
  BY DEF DrainCommand, planVars
<1>2. callback \in [step : Steps, plan : 0..Len(plans), drained : Nat]
  BY DEF IInv, PlansTyped
<1>3. /\ callback' \in [step : Steps, plan : 0..Len(plans), drained : Nat]
      /\ callback'.plan = callback.plan /\ callback'.step = "draining" /\ InUse
  BY <1>1, <1>2 DEF InUse
<1> QED
  BY <1>1, <1>3, CallbackStepKeepsIInv

LEMMA EndDrainKeepsIInv == ASSUME IInv, EndDrain PROVE IInv'
<1>1. /\ callback.step = "draining" /\ callback' = [callback EXCEPT !.step = "routing"]
      /\ UNCHANGED <<plans, live, published, retired, destroyed, format, acknowledged>>
  BY DEF EndDrain, planVars
<1>2. callback \in [step : Steps, plan : 0..Len(plans), drained : Nat]
  BY DEF IInv, PlansTyped
<1>3. /\ callback' \in [step : Steps, plan : 0..Len(plans), drained : Nat]
      /\ callback'.plan = callback.plan /\ callback'.step = "routing" /\ InUse
  BY <1>1, <1>2 DEF InUse, Steps
<1> QED
  BY <1>1, <1>3, CallbackStepKeepsIInv

LEMMA RouteParametersKeepsIInv == ASSUME IInv, RouteParameters PROVE IInv'
<1>1. /\ callback.step = "routing" /\ callback' = [callback EXCEPT !.step = "rendering"]
      /\ UNCHANGED <<plans, live, published, retired, destroyed, format, acknowledged>>
  BY DEF RouteParameters, planVars
<1>2. callback \in [step : Steps, plan : 0..Len(plans), drained : Nat]
  BY DEF IInv, PlansTyped
<1>3. /\ callback' \in [step : Steps, plan : 0..Len(plans), drained : Nat]
      /\ callback'.plan = callback.plan /\ callback'.step = "rendering" /\ InUse
  BY <1>1, <1>2 DEF InUse, Steps
<1> QED
  BY <1>1, <1>3, CallbackStepKeepsIInv

LEMMA RenderKeepsIInv == ASSUME IInv, Render PROVE IInv'
<1>1. /\ callback.step = "rendering" /\ callback' = [callback EXCEPT !.step = "rendered"]
      /\ output' = "fresh"
      /\ UNCHANGED <<plans, live, published, retired, destroyed, format, acknowledged>>
  BY DEF Render, planVars
<1>2. callback \in [step : Steps, plan : 0..Len(plans), drained : Nat]
  BY DEF IInv, PlansTyped
<1>3. /\ callback' \in [step : Steps, plan : 0..Len(plans), drained : Nat]
      /\ callback'.plan = callback.plan /\ callback'.step = "rendered" /\ InUse
  BY <1>1, <1>2 DEF InUse, Steps
<1> QED
  BY <1>1, <1>3, CallbackStepKeepsIInv

LEMMA AcknowledgeKeepsIInv == ASSUME IInv, Acknowledge PROVE IInv'
<1>1. /\ callback.step = "rendered" /\ callback' = [callback EXCEPT !.step = "returning"]
      /\ acknowledged' = callback.plan /\ output' = output
      /\ UNCHANGED <<plans, live, published, retired, destroyed, format>>
  BY DEF Acknowledge, planVars
<1>2. callback \in [step : Steps, plan : 0..Len(plans), drained : Nat]
  BY DEF IInv, PlansTyped
<1>3. /\ callback' \in [step : Steps, plan : 0..Len(plans), drained : Nat]
      /\ callback'.plan = callback.plan /\ callback'.step = "returning" /\ InUse
  BY <1>1, <1>2 DEF InUse, Steps
<1>4. output' = "fresh"
  BY <1>1 DEF IInv, OutputIsKept
<1> QED
  BY <1>1, <1>3, <1>4, CallbackStepKeepsIInv

LEMMA ReturnKeepsIInv == ASSUME IInv, Return PROVE IInv'
<1>1. PICK generation \in published :
         /\ generation >= callback.plan
         /\ callback' = [callback EXCEPT !.step = "waiting", !.plan = generation,
                                         !.drained = 0]
  BY DEF Return
<1>2. /\ callback.step = "returning"
      /\ UNCHANGED <<plans, live, published, retired, destroyed, format, output,
                     acknowledged>>
  BY DEF Return, planVars
<1>3. /\ callback.plan \in 0..Len(plans) /\ generation \in 0..Len(plans)
      /\ acknowledged \in 0..Len(plans) /\ Len(plans) \in Nat
      /\ callback \in [step : Steps, plan : 0..Len(plans), drained : Nat]
  BY DEF IInv, PlansTyped
<1>4. /\ callback'.plan = generation /\ callback'.step = "waiting"
      /\ callback' \in [step : Steps, plan : 0..Len(plans), drained : Nat]
  BY <1>1, <1>3 DEF Steps
<1>5. Running /\ Running'
  BY <1>2, <1>4 DEF Running
<1>6. PlansTyped' /\ RetiredAreOlder' /\ LiveIsKept'
  BY <1>2, <1>4 DEF IInv, PlansTyped, RetiredAreOlder, LiveIsKept
<1>7. PublishedUpToLive' /\ DestroyedAreBehind'
  BY <1>2, <1>4, <1>5 DEF IInv, PublishedUpToLive, DestroyedAreBehind
<1>8. PastAcknowledged'
  BY <1>1, <1>2, <1>3, <1>4, <1>5 DEF IInv, PastAcknowledged
<1>9. WorksWithAPlan' /\ FormatIsKept'
  BY <1>2, <1>4, <1>5 DEF IInv, WorksWithAPlan, FormatIsKept, InUse
<1>10. OutputIsKept'
  BY <1>1, <1>2, <1>3, <1>4, <1>5 DEF IInv, OutputIsKept
<1> QED
  BY <1>6, <1>7, <1>8, <1>9, <1>10 DEF IInv

LEMMA NextKeepsIInv == IInv /\ [Next]_vars => IInv'
<1> SUFFICES ASSUME IInv, [Next]_vars PROVE IInv'
  OBVIOUS
<1>1. CASE UNCHANGED vars
  BY <1>1, QuietKeepsIInv DEF vars, planVars, audioVars, lifeVars
<1>2. CASE Callback
  BY <1>2, LoadPlanKeepsIInv, DrainCommandKeepsIInv, EndDrainKeepsIInv,
     RouteParametersKeepsIInv, RenderKeepsIInv, AcknowledgeKeepsIInv, ReturnKeepsIInv
  DEF Callback
<1>3. CASE WhileStopped
  <2>1. CASE Start
    BY <2>1, StartKeepsIInv
  <2>2. CASE Seek
    BY <2>2, QuietKeepsIInv DEF Seek, planVars, lifeVars
  <2>3. CASE ClearRealtimeControl
    BY <2>3, QuietKeepsIInv DEF ClearRealtimeControl, planVars, lifeVars
  <2>4. CASE Reset
    BY <2>4, ResetKeepsIInv
  <2>5. CASE FlushRetiredPlans
    BY <2>5, FlushKeepsIInv
  <2>6. CASE ReleaseAll
    BY <2>6, ReleaseAllKeepsIInv
  <2> QED
    BY <1>3, <2>1, <2>2, <2>3, <2>4, <2>5, <2>6 DEF WhileStopped
<1>4. CASE Control
  <2>1. ASSUME NEW frames \in FrameCounts, PrepareFails(frames) PROVE IInv'
    BY <2>1, PrepareFailsKeepsIInv
  <2>2. ASSUME NEW shape \in PlanShapes, NEW frames \in FrameCounts, Publish(shape, frames)
        PROVE  IInv'
    BY <2>2, PublishKeepsIInv
  <2>3. CASE Reclaim
    BY <2>3, ReclaimKeepsIInv
  <2>4. ASSUME NEW sequence, NEW target, EnqueueCommand(sequence, target) PROVE IInv'
    BY <2>4, QuietKeepsIInv DEF EnqueueCommand, planVars, audioVars, lifeVars
  <2>5. CASE PopCompletion
    BY <2>5, QuietKeepsIInv DEF PopCompletion, planVars, audioVars, lifeVars
  <2>6. CASE PopTelemetry
    BY <2>6, QuietKeepsIInv DEF PopTelemetry, planVars, lifeVars
  <2>7. ASSUME NEW sample, NEW node, EnqueueParameter(sample, node) PROVE IInv'
    BY <2>7, QuietKeepsIInv DEF EnqueueParameter, planVars, audioVars, lifeVars
  <2>8. CASE Stop
    BY <2>8, StopKeepsIInv
  <2> QED
    BY <1>4, <2>1, <2>2, <2>3, <2>4, <2>5, <2>6, <2>7, <2>8 DEF Control
<1> QED
  BY <1>1, <1>2, <1>3, <1>4 DEF Next

THEOREM Invariance == Spec => []IInv
BY InitIInv, NextKeepsIInv, PTL DEF Spec

\* The audio callback never works with a plan whose memory the control thread
\* has freed: the one generation number it publishes is enough.
THEOREM NothingUsedIsDestroyed == Spec => []NoUseAfterFree
<1>1. IInv => NoUseAfterFree
  <2> SUFFICES ASSUME IInv, InUse, callback.plan \in destroyed PROVE FALSE
    BY DEF NoUseAfterFree
  <2>1. Running /\ callback.plan # 0
    BY DEF IInv, WorksWithAPlan, InUse, Running
  <2>2. callback.plan \in published /\ acknowledged <= callback.plan
    BY <2>1 DEF IInv, PublishedUpToLive, PastAcknowledged
  <2>3. callback.plan < acknowledged
    BY <2>1, <2>2 DEF IInv, DestroyedAreBehind
  <2> QED
    BY <2>2, <2>3 DEF IInv, PlansTyped
<1> QED
  BY <1>1, Invariance, PTL

\* Whichever plan the callback renders with, the executor's output has the
\* block size that plan was prepared for.
THEOREM PlansFit == Spec => []PlanFitsOutput
<1>1. IInv => PlanFitsOutput
  <2> SUFFICES ASSUME IInv, InUse PROVE plans[callback.plan].frames = format
    BY DEF PlanFitsOutput, Plan
  <2>1. Running /\ callback.plan # 0
    BY DEF IInv, WorksWithAPlan, InUse, Running
  <2> QED
    BY <2>1 DEF IInv, PublishedUpToLive, FormatIsKept
<1> QED
  BY <1>1, Invariance, PTL

\* The device is given the block of this callback, or silence, and never the
\* samples of an earlier one.
THEOREM OldBlocksStayUnheard == Spec => []NoOldBlockIsHeard
<1>1. IInv => NoOldBlockIsHeard
  <2> SUFFICES ASSUME IInv, callback.step = "returning", NEW generation \in published,
                      generation # 0
               PROVE  output # "stale"
    BY DEF NoOldBlockIsHeard, Heard
  <2>1. Running
    BY DEF Running
  <2>2. live # 0
    BY <2>1 DEF IInv, PlansTyped, PublishedUpToLive
  <2> QED
    BY <2>1, <2>2 DEF IInv, OutputIsKept
<1> QED
  BY <1>1, Invariance, PTL
-----------------------------------------------------------------------------
(* Commands and their completions.                                          *)

Command == [sequence : Nat, target : Nodes \cup {AllNodes}]
Completed == [sequence : Nat, status : {"applied", "rejected"}, generation : Nat]

CommandsTyped ==
    /\ commands \in Seq(Command) /\ accepted \in Seq(Command)
    /\ completions \in Seq(Completed) /\ answered \in Seq(Completed)

\* The completions since the last clear, collected or not.
Done == answered \o completions

\* Completion c is the verdict on command a of a plan that was published, which keeps
\* its shape for ever.
IsVerdict(c, a) ==
    /\ c.sequence = a.sequence
    /\ c.generation \in 1..Len(plans)
    /\ c.status = "applied"
          <=> a.target \in {AllNodes} \cup plans[c.generation].shape.resolved

\* The accepted commands are those completed and those that wait, in this order.
CommandInv ==
    /\ CommandsTyped
    /\ Len(accepted) = Len(Done) + Len(commands)
    /\ \A i \in 1..Len(Done) : IsVerdict(Done[i], accepted[i])
    /\ \A i \in 1..Len(commands) : commands[i] = accepted[Len(Done) + i]

\* What an appended completion adds, and that collecting one changes nothing.
LEMMA AppendToDone ==
    ASSUME NEW S, NEW h \in Seq(S), NEW a \in Seq(S), NEW x \in S
    PROVE  /\ h \o Append(a, x) \in Seq(S)
           /\ Len(h \o Append(a, x)) = Len(h \o a) + 1
           /\ \A i \in 1..Len(h \o a) : (h \o Append(a, x))[i] = (h \o a)[i]
           /\ (h \o Append(a, x))[Len(h \o a) + 1] = x
<1>1. Append(a, x) \in Seq(S) /\ Len(Append(a, x)) = Len(a) + 1
      /\ Append(a, x)[Len(a) + 1] = x /\ \A i \in 1..Len(a) : Append(a, x)[i] = a[i]
  OBVIOUS
<1>2. Len(h) \in Nat /\ Len(a) \in Nat
  OBVIOUS
<1> DEFINE b == Append(a, x)
<1> HIDE DEF b
<1>3. /\ h \o b \in Seq(S) /\ Len(h \o b) = Len(h) + Len(b)
      /\ \A i \in 1..Len(h) + Len(b) :
            (h \o b)[i] = IF i <= Len(h) THEN h[i] ELSE b[i - Len(h)]
  BY <1>1 DEF b
<1>4. /\ Len(h \o a) = Len(h) + Len(a)
      /\ \A i \in 1..Len(h) + Len(a) :
            (h \o a)[i] = IF i <= Len(h) THEN h[i] ELSE a[i - Len(h)]
  OBVIOUS
<1>5. ASSUME NEW i \in 1..Len(h \o a) PROVE (h \o b)[i] = (h \o a)[i]
  BY <1>1, <1>2, <1>3, <1>4 DEF b
<1>6. (h \o b)[Len(h \o a) + 1] = x
  BY <1>1, <1>2, <1>3, <1>4 DEF b
<1> QED
  BY <1>1, <1>2, <1>3, <1>4, <1>5, <1>6 DEF b

LEMMA MoveHead ==
    ASSUME NEW S, NEW h \in Seq(S), NEW a \in Seq(S), a # <<>>
    PROVE  /\ Append(h, Head(a)) \in Seq(S) /\ Tail(a) \in Seq(S)
           /\ Append(h, Head(a)) \o Tail(a) = h \o a
<1> DEFINE g == Append(h, Head(a))  b == Tail(a)
<1>1. Len(h) \in Nat /\ Len(a) \in Nat \ {0}
  OBVIOUS
<1>2. /\ Head(a) \in S /\ Head(a) = a[1]
      /\ b \in Seq(S) /\ Len(b) = Len(a) - 1
      /\ \A i \in 1..Len(a) - 1 : b[i] = a[i + 1]
  OBVIOUS
<1>3. /\ g \in Seq(S) /\ Len(g) = Len(h) + 1 /\ g[Len(h) + 1] = a[1]
      /\ \A i \in 1..Len(h) : g[i] = h[i]
  BY <1>2
<1>4. /\ h \o a \in Seq(S) /\ Len(h \o a) = Len(h) + Len(a)
      /\ \A i \in 1..Len(h) + Len(a) :
            (h \o a)[i] = IF i <= Len(h) THEN h[i] ELSE a[i - Len(h)]
  OBVIOUS
<1> HIDE DEF g, b
<1>5. /\ g \o b \in Seq(S) /\ Len(g \o b) = Len(g) + Len(b)
      /\ \A i \in 1..Len(g) + Len(b) :
            (g \o b)[i] = IF i <= Len(g) THEN g[i] ELSE b[i - Len(g)]
  BY ONLY <1>2, <1>3, ConcatProperties
<1>6. /\ Len(g) + Len(b) = Len(h) + Len(a)
      /\ \A i \in 1..Len(b) : b[i] = a[i + 1]
  BY ONLY <1>1, <1>2, <1>3
<1>7. ASSUME NEW i \in 1..Len(h) + Len(a) PROVE (g \o b)[i] = (h \o a)[i]
  <2>1. i \in 1..Len(g) + Len(b) /\ i \in Nat /\ i > 0
    BY ONLY <1>1, <1>6, <1>7
  <2>2. CASE i <= Len(h)
    <3>1. i \in 1..Len(h) /\ i <= Len(g)
      BY ONLY <1>1, <1>3, <2>1, <2>2
    <3> QED
      BY ONLY <1>3, <1>4, <1>5, <1>7, <2>1, <2>2, <3>1
  <2>3. CASE i = Len(g)
    <3>1. i - Len(h) = 1 /\ ~(i <= Len(h)) /\ i <= Len(g)
      BY ONLY <1>1, <1>3, <2>1, <2>3
    <3>2. (g \o b)[i] = g[Len(h) + 1]
      BY ONLY <1>3, <1>5, <2>1, <2>3, <3>1
    <3>3. (h \o a)[i] = a[1]
      BY ONLY <1>4, <1>7, <3>1
    <3> QED
      BY ONLY <1>3, <3>2, <3>3
  <2>4. CASE i > Len(g)
    <3>1. /\ i - Len(g) \in 1..Len(b) /\ (i - Len(g)) + 1 = i - Len(h)
          /\ ~(i <= Len(h)) /\ ~(i <= Len(g))
      BY ONLY <1>1, <1>2, <1>3, <2>1, <2>4
    <3>2. (g \o b)[i] = b[i - Len(g)]
      BY ONLY <1>5, <2>1, <3>1
    <3>3. (h \o a)[i] = a[i - Len(h)]
      BY ONLY <1>4, <1>7, <3>1
    <3>4. b[i - Len(g)] = a[(i - Len(g)) + 1]
      BY ONLY <1>6, <3>1
    <3> QED
      BY ONLY <3>1, <3>2, <3>3, <3>4
  <2> QED
    BY ONLY <1>1, <1>3, <2>1, <2>2, <2>3, <2>4
<1>8. /\ Len(g \o b) = Len(h \o a)
      /\ \A i \in 1..Len(g \o b) : (g \o b)[i] = (h \o a)[i]
  BY ONLY <1>4, <1>5, <1>6, <1>7
<1>9. g \o b = h \o a
  BY ONLY <1>4, <1>5, <1>8, SeqEqual
<1> QED
  BY <1>2, <1>3, <1>9 DEF g, b

LEMMA DoneTyped ==
    ASSUME CommandsTyped
    PROVE  /\ Done \in Seq(Completed) /\ Len(Done) \in Nat
           /\ Len(commands) \in Nat /\ Len(accepted) \in Nat
BY DEF CommandsTyped, Done

\* Steps that leave the commands alone and only add plans.
LEMMA QuietKeepsCommandInv ==
    ASSUME CommandInv, UNCHANGED <<commands, accepted, completions, answered>>,
           Len(plans) \in Nat, Len(plans') \in Nat, Len(plans) <= Len(plans'),
           \A g \in 1..Len(plans) : plans'[g] = plans[g]
    PROVE  CommandInv'
<1>1. Done' = Done /\ CommandsTyped'
  BY DEF Done, CommandInv, CommandsTyped
<1>2. ASSUME NEW i \in 1..Len(Done) PROVE IsVerdict(Done[i], accepted[i])'
  BY <1>1 DEF CommandInv, IsVerdict
<1> QED
  BY <1>1, <1>2 DEF CommandInv

\* Clearing empties all four.
LEMMA ClearKeepsCommandInv ==
    ASSUME commands' = <<>>, accepted' = <<>>, completions' = <<>>, answered' = <<>>
    PROVE  CommandInv'
<1>1. CommandsTyped'
  BY DEF CommandsTyped
<1>2. answered' \o completions' = <<>>
  OBVIOUS
<1> QED
  BY <1>1, <1>2 DEF CommandInv, Done

LEMMA EnqueueKeepsCommandInv ==
    ASSUME CommandInv, NEW sequence \in 1..MaxSequence, NEW target \in Nodes \cup {AllNodes},
           EnqueueCommand(sequence, target)
    PROVE  CommandInv'
<1> DEFINE new == [sequence |-> sequence, target |-> target]
<1>1. /\ new \in Command
      /\ commands' = Append(commands, new) /\ accepted' = Append(accepted, new)
      /\ UNCHANGED <<plans, completions, answered>>
  BY ExecutorAssumption DEF EnqueueCommand, planVars, Command
<1> HIDE DEF new
<1>2. Done' = Done /\ CommandsTyped' /\ CommandsTyped
  BY <1>1 DEF Done, CommandInv, CommandsTyped
<1>3. /\ Done \in Seq(Completed) /\ Len(Done) \in Nat
      /\ Len(commands) \in Nat /\ Len(accepted) \in Nat
      /\ Len(accepted) = Len(Done) + Len(commands)
  BY <1>2, DoneTyped DEF CommandInv
<1>4. /\ Len(commands') = Len(commands) + 1 /\ Len(accepted') = Len(accepted) + 1
      /\ commands'[Len(commands) + 1] = new /\ accepted'[Len(accepted) + 1] = new
      /\ \A i \in 1..Len(commands) : commands'[i] = commands[i]
      /\ \A i \in 1..Len(accepted) : accepted'[i] = accepted[i]
  BY <1>1, <1>2 DEF CommandsTyped
<1>5. ASSUME NEW i \in 1..Len(Done) PROVE IsVerdict(Done[i], accepted[i])'
  <2>1. accepted'[i] = accepted[i]
    BY <1>3, <1>4
  <2> QED
    BY <1>1, <1>2, <2>1 DEF CommandInv, IsVerdict
<1>6. ASSUME NEW i \in 1..Len(commands') PROVE commands'[i] = accepted'[Len(Done) + i]
  <2>1. CASE i = Len(commands) + 1
    BY <1>3, <1>4, <2>1
  <2>2. CASE i \in 1..Len(commands)
    BY <1>3, <1>4, <2>2 DEF CommandInv
  <2> QED
    BY <1>3, <1>4, <2>1, <2>2
<1> QED
  BY <1>2, <1>3, <1>4, <1>5, <1>6 DEF CommandInv

LEMMA PopKeepsCommandInv == ASSUME CommandInv, PopCompletion PROVE CommandInv'
<1>1. /\ completions # <<>> /\ answered' = Append(answered, Head(completions))
      /\ completions' = Tail(completions) /\ UNCHANGED <<plans, commands, accepted>>
  BY DEF PopCompletion, planVars
<1>2. answered' \in Seq(Completed) /\ completions' \in Seq(Completed) /\ Done' = Done
  <2>1. answered \in Seq(Completed) /\ completions \in Seq(Completed)
    BY DEF CommandInv, CommandsTyped
  <2>2. answered' \in Seq(Completed) /\ completions' \in Seq(Completed)
    BY <1>1, <2>1
  <2>3. answered' \o completions' = answered \o completions
    BY ONLY <1>1, <2>1, MoveHead
  <2> QED
    BY <2>2, <2>3 DEF Done
<1>3. CommandsTyped'
  BY <1>1, <1>2 DEF CommandInv, CommandsTyped
<1> QED
  BY <1>1, <1>2, <1>3 DEF CommandInv, IsVerdict

\* The oldest command that waits gets its verdict from the plan in use; there is a
\* place for it, because MayDrain has looked.
LEMMA DrainKeepsCommandInv ==
    ASSUME IInv, CommandInv, DrainCommand PROVE CommandInv'
<1> DEFINE command == Head(commands)
           applies == command.target \in {AllNodes} \cup Plan.shape.resolved
           new == [sequence |-> command.sequence,
                   status |-> IF applies THEN "applied" ELSE "rejected",
                   generation |-> callback.plan]
<1>1. /\ commands # <<>> /\ commands' = Tail(commands)
      /\ completions' = Append(completions, new)
      /\ UNCHANGED <<plans, accepted, answered>>
  BY DEF DrainCommand, MayDrain, planVars
<1>2. callback.plan \in 1..Len(plans) /\ Len(plans) \in Nat
  BY DEF DrainCommand, IInv, WorksWithAPlan, InUse, PlansTyped
<1>3. CommandsTyped /\ CommandsTyped'
  <2>1. command \in Command
    BY <1>1 DEF CommandInv, CommandsTyped
  <2>2. new \in Completed
    BY <1>2, <2>1 DEF Completed, Command
  <2> QED
    BY <1>1, <2>2 DEF CommandInv, CommandsTyped
<1>4. new \in Completed
  <2>1. command \in Command
    BY <1>1 DEF CommandInv, CommandsTyped
  <2> QED
    BY <1>2, <2>1 DEF Completed, Command
<1>5. /\ Done \in Seq(Completed) /\ Len(Done) \in Nat
      /\ Len(commands) \in Nat \ {0} /\ Len(accepted) \in Nat
      /\ Len(accepted) = Len(Done) + Len(commands)
  BY <1>1, <1>3, DoneTyped DEF CommandInv, CommandsTyped
<1>6. IsVerdict(new, command)
  BY <1>2 DEF IsVerdict, Plan
<1>7. command = commands[1] /\ commands[1] = accepted[Len(Done) + 1]
  BY <1>1, <1>3, <1>5 DEF CommandInv, CommandsTyped
<1> HIDE DEF new, command, applies
<1>8. /\ Len(Done') = Len(Done) + 1 /\ Done'[Len(Done) + 1] = new
      /\ \A i \in 1..Len(Done) : Done'[i] = Done[i]
  BY <1>1, <1>3, <1>4, AppendToDone DEF Done, CommandsTyped
<1>9. /\ Len(commands') = Len(commands) - 1
      /\ \A i \in 1..Len(commands) - 1 : commands'[i] = commands[i + 1]
  BY <1>1, <1>3 DEF CommandsTyped
<1>10. ASSUME NEW i \in 1..Len(Done') PROVE IsVerdict(Done[i], accepted[i])'
  <2>1. CASE i \in 1..Len(Done)
    BY <1>1, <1>8, <2>1 DEF CommandInv, IsVerdict
  <2>2. CASE i = Len(Done) + 1
    BY <1>1, <1>6, <1>7, <1>8, <2>2 DEF IsVerdict
  <2> QED
    BY <1>5, <1>8, <2>1, <2>2
<1>11. ASSUME NEW i \in 1..Len(commands') PROVE commands'[i] = accepted'[Len(Done') + i]
  <2>1. i + 1 \in 1..Len(commands) /\ Len(Done') + i = Len(Done) + (i + 1)
    BY <1>5, <1>8, <1>9
  <2>2. commands'[i] = commands[i + 1]
    BY <1>5, <1>9
  <2> QED
    BY <1>1, <2>1, <2>2 DEF CommandInv
<1>12. Len(accepted') = Len(Done') + Len(commands')
  BY <1>1, <1>5, <1>8, <1>9
<1> QED
  BY <1>3, <1>10, <1>11, <1>12 DEF CommandInv

LEMMA NextKeepsCommandInv == IInv /\ CommandInv /\ [Next]_vars => CommandInv'
<1> SUFFICES ASSUME IInv, CommandInv, [Next]_vars PROVE CommandInv'
  OBVIOUS
<1>0. Len(plans) \in Nat /\ plans \in Seq([shape : PlanShapes, frames : FrameCounts])
  BY DEF IInv, PlansTyped
<1>1. ASSUME UNCHANGED <<commands, accepted, completions, answered, plans>>
      PROVE  CommandInv'
  BY <1>0, <1>1, QuietKeepsCommandInv
<1>2. CASE UNCHANGED vars
  BY <1>1, <1>2 DEF vars, planVars, commandVars
<1>3. CASE Callback
  <2>1. CASE DrainCommand
    BY <2>1, DrainKeepsCommandInv
  <2> QED
    BY <1>1, <1>3, <2>1 DEF Callback, LoadPlan, EndDrain, RouteParameters, Render,
       Acknowledge, Return, planVars, commandVars
<1>4. CASE WhileStopped
  <2>1. CASE ClearRealtimeControl \/ ReleaseAll
    BY <2>1, ClearKeepsCommandInv DEF ClearRealtimeControl, ReleaseAll
  <2> QED
    BY <1>1, <1>4, <2>1 DEF WhileStopped, Start, Seek, Reset, FlushRetiredPlans,
       planVars, commandVars
<1>5. CASE Control
  <2>1. ASSUME NEW shape \in PlanShapes, NEW frames \in FrameCounts, Publish(shape, frames)
        PROVE  CommandInv'
    <3>1. /\ plans' = Append(plans, [shape |-> shape, frames |-> frames])
          /\ UNCHANGED <<commands, accepted, completions, answered>>
      BY <2>1 DEF Publish, commandVars
    <3> QED
      BY <1>0, <3>1, QuietKeepsCommandInv
  <2>2. ASSUME NEW sequence \in 1..MaxSequence, NEW target \in Nodes \cup {AllNodes},
               EnqueueCommand(sequence, target)
        PROVE  CommandInv'
    BY <2>2, EnqueueKeepsCommandInv
  <2>3. CASE PopCompletion
    BY <2>3, PopKeepsCommandInv
  <2> QED
    BY <1>1, <1>5, <2>1, <2>2, <2>3 DEF Control, PrepareFails, Reclaim, PopTelemetry,
       EnqueueParameter, Stop, planVars, commandVars
<1> QED
  BY <1>2, <1>3, <1>4, <1>5 DEF Next

\* Every accepted command is completed once, in order and with the verdict of the
\* plan its completion names, however many wait, however often the completion ring
\* is full, and although plans are replaced and destroyed in between.
THEOREM CommandsCompleteOnce == Spec => []CommandsAreCompletedOnce
<1>1. Init => CommandInv
  <2> SUFFICES ASSUME Init PROVE CommandInv
    OBVIOUS
  <2>1. CommandsTyped
    BY DEF Init, CommandsTyped
  <2>2. Done = <<>> /\ commands = <<>> /\ accepted = <<>>
    BY DEF Init, Done
  <2> QED
    BY <2>1, <2>2 DEF CommandInv
<1>2. CommandInv => CommandsAreCompletedOnce
  <2> SUFFICES ASSUME CommandInv PROVE CommandsAreCompletedOnce
    OBVIOUS
  <2>1. DOMAIN Done = 1..Len(Done) /\ DOMAIN commands = 1..Len(commands)
    BY DoneTyped DEF CommandInv, CommandsTyped
  <2> QED
    BY <2>1 DEF CommandInv, CommandsAreCompletedOnce, Done, IsVerdict
<1> QED
  BY <1>1, <1>2, NextKeepsCommandInv, Invariance, PTL DEF Spec
-----------------------------------------------------------------------------
(* Parameter events.                                                        *)

ParameterEvent == [sample : Nat, node : Nodes, sequence : Nat]

\* The queue is ordered by position, also across drops and refusals: lastSample is never
\* behind its newest event.
ParameterInv ==
    /\ parameters \in Seq(ParameterEvent)
    /\ lastSample \in Nat /\ nextEvent \in Nat /\ position \in Nat
    /\ \A i, j \in 1..Len(parameters) : i <= j => parameters[i].sample <= parameters[j].sample
    /\ \A i \in 1..Len(parameters) : parameters[i].sample < lastSample

\* An initial segment of 1..n is known by its size.
LEMMA InitialSegment ==
    ASSUME NEW n \in Nat, NEW D \in SUBSET (1..n), \A i \in D : 1..i \subseteq D
    PROVE  /\ Cardinality(D) \in 0..n
           /\ \A i \in 1..n : i \in D <=> i <= Cardinality(D)
<1>1. IsFiniteSet(1..n) /\ Cardinality(1..n) = n
  BY FS_Interval
<1>2. IsFiniteSet(D) /\ Cardinality(D) \in Nat /\ Cardinality(D) <= n
  <2>1. IsFiniteSet(D) /\ Cardinality(D) <= Cardinality(1..n)
    BY <1>1, FS_Subset
  <2>2. Cardinality(D) \in Nat
    BY <2>1, FS_CardinalityType
  <2> QED
    BY <1>1, <2>1, <2>2
<1>3. ASSUME NEW i \in 1..n, i \in D PROVE i <= Cardinality(D)
  <2>1. IsFiniteSet(1..i) /\ Cardinality(1..i) = i
    BY FS_Interval
  <2>2. 1..i \subseteq D
    BY <1>3
  <2> QED
    BY <1>2, <2>1, <2>2, FS_Subset
<1>4. ASSUME NEW i \in 1..n, i \notin D PROVE Cardinality(D) < i
  <2>1. IsFiniteSet(1..i - 1) /\ Cardinality(1..i - 1) = i - 1
    BY FS_Interval
  <2>2. D \subseteq 1..i - 1
    <3> SUFFICES ASSUME NEW j \in D, j >= i PROVE FALSE
      OBVIOUS
    <3>1. i \in 1..j
      OBVIOUS
    <3> QED
      BY <1>4, <3>1
  <2>3. Cardinality(D) <= Cardinality(1..i - 1)
    BY <2>1, <2>2, FS_Subset
  <2> QED
    BY <1>2, <2>1, <2>3
<1> QED
  BY <1>2, <1>3, <1>4

\* The events behind the due ones are not due.
LEMMA RouteLeavesNothing ==
    ASSUME IInv, ParameterInv, RouteParameters
    PROVE  /\ parameters' \in Seq(ParameterEvent)
           /\ \E k \in 0..Len(parameters) :
                 /\ Len(parameters') = Len(parameters) - k
                 /\ \A i \in 1..Len(parameters') : parameters'[i] = parameters[i + k]
           /\ \A i \in 1..Len(parameters') : parameters'[i].sample >= BlockEnd
<1> DEFINE n == Len(parameters)
           end == BlockEnd
           D == {i \in 1..n : \A j \in 1..i : parameters[j].sample < end}
           k == Cardinality(D)
<1>1. parameters \in Seq(ParameterEvent) /\ n \in Nat
      /\ \A i \in 1..n : parameters[i] \in ParameterEvent /\ parameters[i].sample \in Nat
  <2>1. parameters \in Seq(ParameterEvent)
    BY DEF ParameterInv
  <2>2. n \in Nat /\ \A i \in 1..n : parameters[i] \in ParameterEvent
    BY <2>1
  <2> QED
    BY <2>1, <2>2 DEF ParameterEvent
<1>2. end \in Nat
  <2>1. Plan.frames \in Nat
    <3>1. callback.plan \in 1..Len(plans)
      BY DEF RouteParameters, IInv, WorksWithAPlan, InUse, PlansTyped
    <3>2. plans[callback.plan] \in [shape : PlanShapes, frames : FrameCounts]
      <4>1. plans \in Seq([shape : PlanShapes, frames : FrameCounts])
        BY DEF IInv, PlansTyped
      <4> QED
        BY <3>1, <4>1, ElementOfSeq
    <3>3. plans[callback.plan].frames \in FrameCounts
      BY <3>2
    <3> QED
      BY <3>3, ExecutorAssumption DEF Plan
  <2> QED
    <3>1. DeviceFrames \in Nat
      BY ExecutorAssumption
    <3>2. position \in Nat
      BY DEF ParameterInv
    <3> QED
      BY <2>1, <3>1, <3>2 DEF BlockEnd
<1>3. Due = SubSeq(parameters, 1, k)
  BY DEF Due
<1> HIDE DEF end
<1>4. k \in 0..n /\ \A i \in 1..n : i \in D <=> i <= k
  <2>1. \A i \in D : 1..i \subseteq D
    BY <1>1
  <2>2. D \in SUBSET (1..n)
    OBVIOUS
  <2> HIDE DEF D
  <2> QED
    BY <1>1, <2>1, <2>2, InitialSegment
<1> HIDE DEF k
<1>5. Len(Due) = k
  <2>1. \A i \in 1..k : parameters[i] \in ParameterEvent
    BY <1>1, <1>4
  <2> QED
    BY <1>3, <1>4, <2>1, SubSeqProperties
<1>6. parameters' = SubSeq(parameters, k + 1, n)
  BY <1>5 DEF RouteParameters
<1>7. /\ parameters' \in Seq(ParameterEvent) /\ Len(parameters') = n - k
      /\ \A i \in 1..n - k : parameters'[i] = parameters[i + k]
  BY <1>1, <1>4, <1>6, SubSeqProperties
<1>8. ASSUME NEW i \in 1..n - k PROVE parameters[i + k].sample >= end
  <2>1. k + 1 \in 1..n /\ i + k \in 1..n /\ k + 1 <= i + k
    BY <1>1, <1>4
  <2>2. PICK j \in 1..k + 1 : parameters[j].sample >= end
    <3>1. k + 1 \notin D
      BY <1>4, <2>1
    <3> QED
      BY <1>1, <1>2, <1>4, <2>1, <3>1
  <2>3. parameters[j].sample <= parameters[i + k].sample
    <3>1. \A a \in 1..n, b \in 1..n : a <= b => parameters[a].sample <= parameters[b].sample
      BY DEF ParameterInv
    <3>2. j \in 1..n /\ j <= i + k
      BY <1>1, <1>4, <2>1
    <3> QED
      BY ONLY <2>1, <3>1, <3>2
  <2>4. parameters[j].sample \in Nat /\ parameters[i + k].sample \in Nat
    BY <1>1, <1>4, <2>1
  <2> QED
    BY ONLY <1>2, <2>2, <2>3, <2>4
<1> QED
  BY <1>1, <1>4, <1>7, <1>8 DEF end

LEMMA NextKeepsParameterInv == IInv /\ ParameterInv /\ [Next]_vars => ParameterInv'
<1> SUFFICES ASSUME IInv, ParameterInv, [Next]_vars PROVE ParameterInv'
  OBVIOUS
<1>1. ASSUME UNCHANGED <<parameters, lastSample, nextEvent>>, position' \in Nat
      PROVE  ParameterInv'
  BY <1>1 DEF ParameterInv
<1>p. position \in Nat
  BY DEF ParameterInv
<1>2. CASE UNCHANGED vars
  BY <1>1, <1>2, <1>p DEF vars, parameterVars, audioVars
<1>3. CASE Callback
  <2>1. CASE RouteParameters
    <3>1. UNCHANGED <<lastSample, nextEvent, position>>
      BY <2>1 DEF RouteParameters
    <3>2. PICK k \in 0..Len(parameters) :
             /\ Len(parameters') = Len(parameters) - k
             /\ \A i \in 1..Len(parameters') : parameters'[i] = parameters[i + k]
      BY <2>1, RouteLeavesNothing
    <3>3. parameters' \in Seq(ParameterEvent) /\ Len(parameters) \in Nat
      BY <2>1, RouteLeavesNothing DEF ParameterInv
    <3>4. \A i \in 1..Len(parameters') : i + k \in 1..Len(parameters)
      BY <3>2, <3>3
    <3>5. \A i, j \in 1..Len(parameters') :
             i <= j => parameters'[i].sample <= parameters'[j].sample
      <4> SUFFICES ASSUME NEW i \in 1..Len(parameters'), NEW j \in 1..Len(parameters'), i <= j
                   PROVE  parameters[i + k].sample <= parameters[j + k].sample
        BY <3>2
      <4> QED
        BY <3>2, <3>3, <3>4 DEF ParameterInv
    <3>6. \A i \in 1..Len(parameters') : parameters'[i].sample < lastSample
      BY <3>2, <3>4 DEF ParameterInv
    <3> QED
      BY <3>1, <3>3, <3>5, <3>6 DEF ParameterInv
  <2>2. CASE Return
    <3>1. position' \in {position} \cup ({position + DeviceFrames} \cap 0..MaxPosition)
      BY <2>2 DEF Return
    <3> QED
      BY <1>1, <1>p, <2>2, <3>1, ExecutorAssumption DEF Return, parameterVars
  <2> QED
    BY <1>1, <1>3, <1>p, <2>1, <2>2 DEF Callback, LoadPlan, DrainCommand, EndDrain, Render,
       Acknowledge, parameterVars
<1>4. CASE WhileStopped
  <2>1. CASE Seek \/ ReleaseAll
    <3>1. parameters' = <<>> /\ lastSample' = 0 /\ nextEvent' = 1 /\ position' \in Nat
      BY <1>p, <2>1 DEF Seek, ReleaseAll
    <3> QED
      BY <3>1 DEF ParameterInv
  <2> QED
    BY <1>1, <1>4, <1>p, <2>1 DEF WhileStopped, Start, ClearRealtimeControl, Reset,
       FlushRetiredPlans, parameterVars, audioVars
<1>5. CASE Control
  <2>1. ASSUME NEW sample \in 0..MaxPosition, NEW node \in Nodes,
               EnqueueParameter(sample, node)
        PROVE  ParameterInv'
    <3> DEFINE new == [sample |-> sample, node |-> node, sequence |-> nextEvent]
    <3>1. nextEvent' \in Nat /\ position' \in Nat /\ sample \in Nat /\ sample + 1 >= lastSample
      BY <1>p, <2>1, ExecutorAssumption DEF EnqueueParameter, audioVars, InOrder, ParameterInv
    <3>2. CASE parameters' = parameters /\ lastSample' = lastSample
      BY <3>1, <3>2 DEF ParameterInv
    <3>3. CASE parameters' = Append(parameters, new) /\ lastSample' = sample + 1
      <4>1. new \in ParameterEvent /\ new.sample = sample
        BY <3>1 DEF ParameterEvent, ParameterInv
      <4> HIDE DEF new
      <4>2. /\ parameters' \in Seq(ParameterEvent) /\ Len(parameters') = Len(parameters) + 1
            /\ Len(parameters) \in Nat /\ parameters'[Len(parameters) + 1] = new
            /\ \A i \in 1..Len(parameters) : parameters'[i] = parameters[i]
        BY <3>3, <4>1, AppendProperties DEF ParameterInv
      <4>3. \A i \in 1..Len(parameters) :
               parameters[i].sample < lastSample /\ parameters[i].sample \in Nat
        <5>1. \A i \in 1..Len(parameters) : parameters[i] \in ParameterEvent
          BY DEF ParameterInv
        <5> QED
          BY <5>1 DEF ParameterInv, ParameterEvent
      <4>4. \A i \in 1..Len(parameters') : parameters'[i].sample <= sample
        BY <3>1, <4>1, <4>2, <4>3 DEF ParameterInv
      <4>5. ASSUME NEW i \in 1..Len(parameters'), NEW j \in 1..Len(parameters'), i <= j
            PROVE  parameters'[i].sample <= parameters'[j].sample
        <5>1. CASE j = Len(parameters) + 1
          BY <4>1, <4>2, <4>4, <5>1
        <5>2. CASE j <= Len(parameters)
          BY <4>2, <4>5, <5>2 DEF ParameterInv
        <5> QED
          BY <4>2, <5>1, <5>2
      <4>6. \A i \in 1..Len(parameters') : parameters'[i].sample < lastSample'
        BY <3>1, <3>3, <4>1, <4>2, <4>3 DEF ParameterInv
      <4> QED
        BY <3>1, <3>3, <4>2, <4>5, <4>6 DEF ParameterInv
    <3> QED
      BY <2>1, <3>2, <3>3 DEF EnqueueParameter
  <2> QED
    BY <1>1, <1>5, <1>p, <2>1 DEF Control, PrepareFails, Publish, Reclaim, EnqueueCommand,
       PopCompletion, PopTelemetry, Stop, parameterVars, audioVars
<1> QED
  BY <1>2, <1>3, <1>4, <1>5 DEF Next

\* When the events of a block are routed, none that is due stays in the queue: one
\* that is not due is never in front of it, in whatever order events are offered,
\* refused and dropped (enqueueParameterChange, routeParameterEvents).
THEOREM DueEventsAreRouted == Spec => NothingDueIsLeft
<1>1. Init => ParameterInv
  BY DEF Init, ParameterInv
<1>2. IInv /\ ParameterInv /\ [Next]_vars =>
        [callback.step = "routing" /\ callback'.step = "rendering"
           => \A i \in DOMAIN parameters' : parameters'[i].sample >= BlockEnd]_vars
  <2> SUFFICES ASSUME IInv, ParameterInv, Next, callback.step = "routing",
                      callback'.step = "rendering"
               PROVE  \A i \in DOMAIN parameters' : parameters'[i].sample >= BlockEnd
    OBVIOUS
  <2>1. callback \in [step : Steps, plan : 0..Len(plans), drained : Nat]
    BY DEF IInv, PlansTyped
  <2>2. RouteParameters
    BY <2>1 DEF Next, Callback, WhileStopped, Control, LoadPlan, DrainCommand, EndDrain, Render,
       Acknowledge, Return, Start, Seek, ClearRealtimeControl, Reset, FlushRetiredPlans,
       ReleaseAll, Stopped, PrepareFails, Publish, Reclaim, EnqueueCommand, PopCompletion,
       PopTelemetry, EnqueueParameter, Stop, audioVars
  <2>3. parameters' \in Seq(ParameterEvent)
    BY <2>2, RouteLeavesNothing
  <2> QED
    BY <2>2, <2>3, RouteLeavesNothing
<1> QED
  BY <1>1, <1>2, NextKeepsParameterInv, Invariance, PTL DEF Spec, NothingDueIsLeft
=============================================================================
