----------------------- MODULE SessionPersistenceProofs -----------------------
(***************************************************************************)
(* For any number of edits and failing saves, and for both clocks: the     *)
(* state is well typed, what is called durable is in the project file, no  *)
(* acknowledged edit falls out of autosave tracking or waits for ever      *)
(* longer, and an orderly stop saves the newest one.                       *)
(***************************************************************************)
EXTENDS SessionPersistence, TLAPS

\* The pipeline and the coordinator agree about the save in flight; a
\* requested revision is submitted or pending.
Piped(c) ==
    /\ c.slot.phase = "free" <=> c.inFlight = 0
    /\ c.inFlight # 0 => c.slot.revision = c.inFlight /\ c.submitted = c.inFlight
    /\ c.submitted <= c.requested
    /\ c.pending # 0 => c.pending = c.requested /\ c.submitted < c.pending

\* A waiting snapshot waits for something.
Flowing(c) == c.pending # 0 => c.inFlight # 0

\* The file, against what is known of it: f is at least everything reported
\* committed, and older than what is still to be written.
OnDisk(c, f) ==
    /\ c.durable <= f
    /\ c.slot.phase = "done" /\ c.slot.status = "committed" => c.slot.revision <= f
    /\ c.slot.phase = "accepted" => f <= c.slot.revision
    /\ c.pending # 0 => f <= c.pending

CoordinatorOK(c, f) == c \in Coordinator /\ Piped(c) /\ OnDisk(c, f)

IInv ==
    /\ TypeOK
    /\ CoordinatorOK(co, file) /\ Flowing(co)
    /\ file <= revision /\ co.requested <= revision
    /\ checkpointed <= co.durable
    /\ EditsAreTracked
    /\ worker = "requesting" => dirty # 0
    /\ worker = "finishing" => co.pending = 0
    /\ SleeperPolls

-----------------------------------------------------------------------------

\* Taking a completion out of the pipeline keeps the coordinator consistent
\* and never lowers the durable revision (applyCompletion).
LEMMA Popping ==
    ASSUME NEW c, NEW f \in 0..MaxRevision, CoordinatorOK(c, f)
    PROVE  /\ CoordinatorOK(Popped(c), f)
           /\ Popped(c).durable >= c.durable
           /\ Popped(c).requested = c.requested
           /\ Popped(c).slot.phase # "done" /\ Popped(c).pending = c.pending
           /\ Popped(c).inFlight # 0 => c.inFlight # 0
<1> USE PersistenceAssumption
<1>1. CASE c.slot.phase # "done"
  BY <1>1 DEF Popped, CoordinatorOK, Coordinator
<1>2. CASE c.slot.phase = "done"
  <2> DEFINE s == c.slot
             d == IF s.status = "committed" /\ s.revision > c.durable
                  THEN s.revision ELSE c.durable
             e == IF s.status = "committed" THEN 0 ELSE s.revision
             l == [status |-> s.status, revision |-> s.revision]
  <2>1. s \in [phase : {"accepted", "done"}, status : {"committed", "failed"},
               revision : Revision]
    BY <1>2 DEF CoordinatorOK, Coordinator, Slots, FreeSlot
  <2>2. d \in 0..MaxRevision /\ e \in 0..MaxRevision /\ l \in Completion
    BY <2>1 DEF Completion, Revision, CoordinatorOK, Coordinator
  <2>3. Popped(c) = [requested |-> c.requested, durable |-> d, failed |-> e,
                     inFlight |-> 0, pending |-> c.pending,
                     submitted |-> c.submitted, latest |-> l, slot |-> FreeSlot]
    BY <1>2 DEF Popped, Applied, CoordinatorOK, Coordinator
  <2>4. Popped(c) \in Coordinator
    BY <2>2, <2>3 DEF CoordinatorOK, Coordinator, Slots
  <2>5. Piped(Popped(c))
    BY <2>3 DEF Piped, CoordinatorOK, FreeSlot
  <2>6. c.durable \in 0..MaxRevision /\ d <= f /\ d >= c.durable
    BY <1>2, <2>1 DEF CoordinatorOK, OnDisk, Coordinator, Revision
  <2>7. OnDisk(Popped(c), f)
    BY <2>3, <2>6 DEF OnDisk, CoordinatorOK, FreeSlot
  <2> QED  BY <2>3, <2>4, <2>5, <2>6, <2>7 DEF CoordinatorOK, FreeSlot
<1> QED  BY <1>1, <1>2

\* Handing the pending snapshot over keeps the coordinator consistent, and
\* leaves nothing waiting for nothing (submitPending, trySubmit).
LEMMA Submitting ==
    ASSUME NEW c, NEW f \in 0..MaxRevision, CoordinatorOK(c, f)
    PROVE  /\ CoordinatorOK(Submitted(c), f) /\ Flowing(Submitted(c))
           /\ Submitted(c).durable = c.durable
           /\ Submitted(c).requested = c.requested
           /\ Submitted(c).inFlight # 0 => c.inFlight # 0 \/ c.pending # 0
<1> USE PersistenceAssumption
<1> DEFINE goes == /\ c.pending # 0 /\ c.inFlight = 0
                   /\ c.slot.phase = "free" /\ c.pending > c.submitted
<1>1. CASE ~goes
  BY <1>1 DEF Submitted, CoordinatorOK, Coordinator, Piped, Flowing
<1>2. CASE goes
  <2> DEFINE s == [phase |-> "accepted", status |-> "failed", revision |-> c.pending]
  <2>1. s \in Slots
    BY <1>2 DEF Slots, CoordinatorOK, Coordinator, Revision
  <2>2. Submitted(c) = [requested |-> c.requested, durable |-> c.durable,
                        failed |-> c.failed, inFlight |-> c.pending, pending |-> 0,
                        submitted |-> c.pending, latest |-> c.latest, slot |-> s]
    BY <1>2 DEF Submitted, CoordinatorOK, Coordinator
  <2>3. Submitted(c) \in Coordinator
    BY <2>1, <2>2, PersistenceAssumption DEF CoordinatorOK, Coordinator
  <2>4. Piped(Submitted(c)) /\ Flowing(Submitted(c))
    BY <1>2, <2>2 DEF Piped, Flowing, CoordinatorOK, Coordinator
  <2>5. OnDisk(Submitted(c), f)
    BY <1>2, <2>2 DEF OnDisk, CoordinatorOK
  <2> QED  BY <2>2, <2>3, <2>4, <2>5 DEF CoordinatorOK
<1> QED  BY <1>1, <1>2

\* pump.
LEMMA Pumping ==
    ASSUME NEW c, NEW f \in 0..MaxRevision, CoordinatorOK(c, f)
    PROVE  /\ CoordinatorOK(Pumped(c), f) /\ Flowing(Pumped(c))
           /\ Pumped(c).durable >= c.durable
           /\ Pumped(c).requested = c.requested
           /\ Flowing(c) /\ Pumped(c).inFlight # 0 => c.inFlight # 0
BY Popping, Submitting DEF Pumped, Flowing

\* A request for a revision at least as new as the file and as anything
\* requested before (requestSave).
LEMMA Requesting ==
    ASSUME NEW c, NEW f \in 0..MaxRevision, NEW r \in Revision, CoordinatorOK(c, f),
           f <= r, c.requested <= r
    PROVE  /\ CoordinatorOK(Requested(c, r), f) /\ Flowing(Requested(c, r))
           /\ Requested(c, r).durable >= c.durable
           /\ Requested(c, r).requested <= r
<1> USE PersistenceAssumption
<1> DEFINE p == Pumped(c)
           q == [p EXCEPT !.pending = r, !.requested = r]
<1>1. /\ CoordinatorOK(p, f) /\ Flowing(p)
      /\ p.durable >= c.durable /\ p.requested = c.requested
  BY Pumping
<1>q. q = [p EXCEPT !.pending = r, !.requested = r]
  OBVIOUS
<1> HIDE DEF p, q
<1>2. CASE RequestStands(c, r) /\ r # p.requested
  <2>1. q = [requested |-> r, durable |-> p.durable, failed |-> p.failed,
             inFlight |-> p.inFlight, pending |-> r, submitted |-> p.submitted,
             latest |-> p.latest, slot |-> p.slot]
    BY <1>1, <1>q DEF CoordinatorOK, Coordinator
  <2>2. q \in Coordinator
    BY <1>1, <2>1 DEF CoordinatorOK, Coordinator, Revision
  <2>3. p.submitted <= p.requested /\ p.requested < r /\ p.submitted \in Nat
        /\ p.requested \in Nat /\ r \in Nat
    BY <1>1, <1>2 DEF Piped, CoordinatorOK, Coordinator, Revision
  <2>4. Piped(q)
    BY <1>1, <2>1, <2>3 DEF Piped, CoordinatorOK
  <2>5. OnDisk(q, f)
    BY <1>1, <2>1 DEF OnDisk, CoordinatorOK
  <2>6. CoordinatorOK(q, f)
    BY <2>2, <2>4, <2>5 DEF CoordinatorOK
  <2>7. CoordinatorOK(Submitted(q), f) /\ Flowing(Submitted(q))
        /\ Submitted(q).durable = q.durable /\ Submitted(q).requested = q.requested
    BY <2>6, Submitting
  <2>8. Requested(c, r) = Submitted(q)
    BY <1>2 DEF Requested, p, q
  <2>9. q.requested = r /\ q.durable = p.durable
    BY <2>1
  <2> QED  BY <1>1, <2>7, <2>8, <2>9 DEF Revision
<1>3. CASE ~(RequestStands(c, r) /\ r # p.requested)
  <2>1. Requested(c, r) = p
    BY <1>3 DEF Requested, p
  <2> QED  BY <1>1, <2>1
<1> QED  BY <1>2, <1>3

-----------------------------------------------------------------------------

\* The facts about the present state that most steps need.
LEMMA Typing ==
    ASSUME IInv
    PROVE  /\ MaxRevision \in Nat /\ file \in 0..MaxRevision /\ revision \in 1..MaxRevision
           /\ dirty \in 0..MaxRevision /\ checkpointed \in 0..MaxRevision
           /\ co \in Coordinator /\ CoordinatorOK(co, file)
           /\ co.durable \in 0..MaxRevision /\ co.requested \in 0..MaxRevision
           /\ armed \in BOOLEAN /\ due \in BOOLEAN
           /\ clock \in {"steady", "manual", "advancing"}
BY PersistenceAssumption DEF IInv, TypeOK, CoordinatorOK, Coordinator, Revision

\* reconcileDurableState drops the dirty snapshot only when it is durable.
LEMMA Reconciling ==
    ASSUME IInv, Reconcile, co'.durable \in 0..MaxRevision, co'.durable >= co.durable,
           UNCHANGED revision, control = "recovering" => control' = "recovering"
    PROVE  /\ EditsAreTracked' /\ dirty' \in 0..MaxRevision /\ armed' \in BOOLEAN
           /\ dirty' # 0 => dirty' = dirty
<1>1. CASE IsReconciled
  <2>2. dirty' = 0 /\ armed' = FALSE
    BY <1>1 DEF Reconcile
  <2>3. revision' <= co'.durable
    BY <1>1, Typing DEF IsReconciled, IInv, EditsAreTracked
  <2>4. EditsAreTracked'
    BY <2>2, <2>3 DEF EditsAreTracked
  <2>5. dirty' \in 0..MaxRevision
    BY <2>2, Typing
  <2> QED  BY <2>2, <2>4, <2>5
<1>2. CASE ~IsReconciled
  <2>1. dirty' = dirty /\ armed' = armed
    BY <1>2 DEF Reconcile
  <2>2. dirty = 0 /\ control # "recovering" => revision' <= co'.durable
    BY Typing DEF IInv, EditsAreTracked
  <2>3. dirty # 0 => dirty' = revision' /\ armed'
    BY <2>1 DEF IInv, EditsAreTracked
  <2> QED  BY <2>1, <2>2, <2>3, Typing DEF EditsAreTracked
<1> QED  BY <1>1, <1>2

\* After a step that only works on the coordinator, or marks the newest
\* revision dirty, the bookkeeping about the file holds again.
LEMMA CoordinatorSteps ==
    ASSUME IInv, UNCHANGED <<file, checkpointed>>, revision' >= revision,
           revision' \in Revision, CoordinatorOK(co', file), Flowing(co'),
           co'.durable >= co.durable, co'.requested <= revision'
    PROVE  /\ CoordinatorOK(co, file)' /\ Flowing(co)'
           /\ file' <= revision' /\ co'.requested <= revision'
           /\ checkpointed' <= co'.durable
           /\ co'.durable \in 0..MaxRevision /\ co' \in Coordinator
<1>1. CoordinatorOK(co, file)' /\ Flowing(co)'
  BY DEF CoordinatorOK, Flowing, Piped, OnDisk
<1>2. co' \in Coordinator /\ co'.durable \in 0..MaxRevision
  BY DEF CoordinatorOK, Coordinator
<1>3. file <= revision /\ checkpointed <= co.durable
  BY DEF IInv
<1> QED  BY <1>1, <1>2, <1>3, Typing DEF Revision

\* Who leaves a sleeping worker asleep puts nothing into the empty pipeline.
LEMMA Sleeping ==
    ASSUME IInv, Flowing(co'),
           worker' = "asleep" => /\ worker = "asleep" /\ UNCHANGED alarms
                                 /\ co'.inFlight # 0 => co.inFlight # 0
    PROVE  SleeperPolls'
BY DEF IInv, SleeperPolls, Flowing

\* markDirty of the newest revision tracks it.
LEMMA Marking ==
    ASSUME IInv, NEW r \in Revision, MarkDirty(r), revision' = r, r >= revision,
           UNCHANGED <<file, checkpointed>>
    PROVE  /\ CoordinatorOK(co, file)' /\ Flowing(co)'
           /\ file' <= revision' /\ co'.requested <= revision'
           /\ checkpointed' <= co'.durable /\ co' \in Coordinator
           /\ EditsAreTracked'
           /\ dirty' \in 0..MaxRevision /\ armed' \in BOOLEAN /\ due' \in BOOLEAN
           /\ worker' = worker \/ worker' = "checking"
           /\ co'.inFlight # 0 => co.inFlight # 0
<1> USE PersistenceAssumption
<1>1. /\ co' = Pumped(co)
      /\ CoordinatorOK(co', file) /\ Flowing(co')
      /\ co'.durable >= co.durable /\ co'.requested = co.requested
      /\ co'.inFlight # 0 => co.inFlight # 0
  BY Typing, Pumping DEF MarkDirty, IInv
<1>2. co'.requested <= revision' /\ revision' >= revision /\ revision' \in Revision
  BY <1>1, Typing DEF IInv, Revision
<1>3. /\ CoordinatorOK(co, file)' /\ Flowing(co)'
      /\ file' <= revision' /\ co'.requested <= revision'
      /\ checkpointed' <= co'.durable /\ co' \in Coordinator
      /\ co'.durable \in 0..MaxRevision
  BY <1>1, <1>2, CoordinatorSteps
<1>4. CASE r <= co'.durable \/ (~IsReconciled /\ dirty >= r)
  <2>1. Reconcile /\ UNCHANGED <<due, worker>>
    BY <1>4 DEF MarkDirty
  <2>2. CASE r <= co'.durable
    <3>1. dirty' = 0 \/ dirty = 0
      BY <1>3, <2>1, <2>2, Typing DEF Reconcile, IsReconciled, IInv, EditsAreTracked, Revision
    <3>2. dirty' = 0
      BY <2>1, <3>1 DEF Reconcile, IsReconciled
    <3>3. armed' \in BOOLEAN
      BY <2>1, Typing DEF Reconcile
    <3>4. EditsAreTracked'
      BY <2>2, <3>2 DEF EditsAreTracked
    <3>5. dirty' \in 0..MaxRevision /\ due' \in BOOLEAN
      BY <2>1, <3>2, Typing
    <3> QED  BY <1>1, <1>3, <2>1, <3>3, <3>4, <3>5
  <2>3. CASE ~IsReconciled /\ dirty >= r
    <3>1. dirty' = dirty /\ armed' = armed
      BY <2>1, <2>3 DEF Reconcile
    <3>2. dirty = r /\ dirty # 0 /\ armed
      BY <2>3, Typing DEF IInv, EditsAreTracked, Revision
    <3> QED  BY <1>1, <1>3, <2>1, <3>1, <3>2, Typing DEF EditsAreTracked
  <2> QED  BY <1>4, <2>2, <2>3
<1>5. CASE ~(r <= co'.durable \/ (~IsReconciled /\ dirty >= r))
  <2>1. dirty' = r /\ armed' = TRUE /\ due' = (due /\ armed /\ ~IsReconciled) /\ Notify
    BY <1>5 DEF MarkDirty
  <2>2. due' \in BOOLEAN
    BY <2>1
  <2>3. r # 0 /\ r \in 0..MaxRevision
    BY DEF Revision
  <2>4. EditsAreTracked'
    BY <2>1, <2>3 DEF EditsAreTracked
  <2> QED  BY <1>1, <1>3, <2>1, <2>2, <2>3, <2>4 DEF Notify
<1> QED  BY <1>4, <1>5

\* The initial state satisfies the invariant: what is not in the project
\* file is the recovered journal's, tracked before anything else.
LEMMA Initially == Init => IInv
<1> USE PersistenceAssumption
<1> SUFFICES ASSUME Init PROVE IInv
  OBVIOUS
<1>1. /\ revision \in Revision /\ file \in 0..MaxRevision
      /\ revision = file \/ revision = file + 1
      /\ MaxRevision \in Nat
  BY DEF Init, Revision
<1>2. co = [requested |-> 0, durable |-> file, failed |-> 0, inFlight |-> 0,
            pending |-> 0, submitted |-> 0, latest |-> NoCompletion,
            slot |-> FreeSlot]
  BY DEF Init
<1>3. co \in Coordinator
  BY <1>1, <1>2 DEF Coordinator, Completion, NoCompletion, Slots
<1>4. Piped(co) /\ OnDisk(co, file) /\ Flowing(co)
  BY <1>1, <1>2 DEF Piped, OnDisk, Flowing, FreeSlot
<1>5. control = (IF revision > file THEN "recovering" ELSE "serving")
  BY DEF Init
<1>6. TypeOK
  <2>1. armed \in BOOLEAN /\ due \in BOOLEAN
        /\ clock \in {"steady", "manual", "advancing"}
    BY DEF Init
  <2>2. /\ control \in {"recovering", "serving"} /\ reply \in Replies
        /\ checkpointed \in 0..MaxRevision /\ dirty \in 0..MaxRevision
        /\ worker = "checking" /\ alarms = {} /\ failures \in 0..MaxFailures
    BY <1>1, <1>5 DEF Init, Replies
  <2> QED  BY <1>1, <1>3, <2>1, <2>2 DEF TypeOK
<1>7. EditsAreTracked
  BY <1>1, <1>2, <1>5 DEF Init, EditsAreTracked
<1>8. SleeperPolls
  BY <1>2 DEF Init, SleeperPolls
<1> QED
  BY <1>1, <1>2, <1>3, <1>4, <1>6, <1>7, <1>8 DEF Init, IInv, CoordinatorOK, Revision

\* What a query answers is well typed.
LEMMA Querying ==
    ASSUME NEW c \in Coordinator, NEW r \in Revision
    PROVE  [asked |-> r, status |-> QueryStatus(c, r),
            completion |-> QueryCompletion(c, r)] \in Replies
<1>1. QueryStatus(c, r) \in {"unknown", "pending", "committed", "failed"}
  BY DEF QueryStatus
<1>2. NoCompletion \in Completion
  BY PersistenceAssumption DEF NoCompletion, Completion
<1>3. QueryCompletion(c, r) \in Completion
  BY <1>2 DEF QueryCompletion, Coordinator
<1> QED  BY <1>1, <1>3 DEF Replies

\* Steps of the control thread.
LEMMA ControlSteps == IInv /\ Control => IInv'
<1> SUFFICES ASSUME IInv, Control PROVE IInv'
  OBVIOUS
<1> USE PersistenceAssumption
<1>1. CASE TrackRecovered
  <2>1. /\ CoordinatorOK(co, file)' /\ Flowing(co)'
        /\ file' <= revision' /\ co'.requested <= revision'
        /\ checkpointed' <= co'.durable /\ co' \in Coordinator
        /\ EditsAreTracked'
        /\ dirty' \in 0..MaxRevision /\ armed' \in BOOLEAN /\ due' \in BOOLEAN
        /\ worker' = worker \/ worker' = "checking"
        /\ co'.inFlight # 0 => co.inFlight # 0
    BY <1>1, Typing, Marking DEF TrackRecovered, Revision
  <2>2. TypeOK'
    BY <1>1, <2>1 DEF TrackRecovered, TypeOK, IInv
  <2>3. worker' \notin {"requesting", "finishing"}
    BY <1>1, <2>1 DEF TrackRecovered, MutexFree
  <2>4. SleeperPolls'
    BY <1>1, <2>1, Sleeping DEF TrackRecovered, Flowing
  <2> QED  BY <2>1, <2>2, <2>3, <2>4 DEF IInv
<1>2. CASE Edit
  <2>1. revision + 1 \in Revision /\ revision + 1 >= revision
    BY <1>2, Typing DEF Edit, Revision
  <2>2. /\ CoordinatorOK(co, file)' /\ Flowing(co)'
        /\ file' <= revision' /\ co'.requested <= revision'
        /\ checkpointed' <= co'.durable /\ co' \in Coordinator
        /\ EditsAreTracked'
        /\ dirty' \in 0..MaxRevision /\ armed' \in BOOLEAN /\ due' \in BOOLEAN
        /\ worker' = worker \/ worker' = "checking"
        /\ co'.inFlight # 0 => co.inFlight # 0
    BY <1>2, <2>1, Marking DEF Edit
  <2>3. TypeOK'
    BY <1>2, <2>1, <2>2 DEF Edit, TypeOK, IInv
  <2>4. worker' \notin {"requesting", "finishing"}
    BY <1>2, <2>2 DEF Edit, MutexFree
  <2>5. SleeperPolls'
    BY <1>2, <2>2, Sleeping DEF Edit, Flowing
  <2> QED  BY <2>2, <2>3, <2>4, <2>5 DEF IInv
<1>3. CASE SaveSession
  <2>1. co' = Requested(co, revision) /\ dirty' = dirty
    BY <1>3 DEF SaveSession, RequestSave
  <2>2. /\ CoordinatorOK(co', file) /\ Flowing(co')
        /\ co'.durable >= co.durable /\ co'.requested <= revision
    BY <2>1, Typing, Requesting DEF IInv, Revision
  <2>3. UNCHANGED <<file, checkpointed, revision>> /\ revision \in Revision
    BY <1>3, Typing DEF SaveSession, Revision
  <2>4. /\ CoordinatorOK(co, file)' /\ Flowing(co)'
        /\ file' <= revision' /\ co'.requested <= revision'
        /\ checkpointed' <= co'.durable
        /\ co'.durable \in 0..MaxRevision /\ co' \in Coordinator
    BY <2>2, <2>3, CoordinatorSteps, Typing
  <2>5. /\ armed' \in BOOLEAN /\ due' \in BOOLEAN
        /\ worker' = worker \/ worker' = "checking"
        /\ dirty # 0 /\ armed => armed'
    BY <1>3, Typing DEF SaveSession, RequestSave, Notify
  <2>6. EditsAreTracked'
    <3>1. control # "recovering"
      BY <1>3 DEF SaveSession
    <3>2. dirty = 0 => revision <= co.durable
      BY <3>1 DEF IInv, EditsAreTracked
    <3>3. dirty' = 0 => revision' <= co'.durable
      BY <2>1, <2>2, <2>3, <2>4, <3>2, Typing
    <3>4. dirty' # 0 => dirty' = revision' /\ armed'
      BY <2>1, <2>3, <2>5 DEF IInv, EditsAreTracked
    <3> QED  BY <3>3, <3>4 DEF EditsAreTracked
  <2>7. TypeOK'
    BY <1>3, <2>1, <2>4, <2>5 DEF SaveSession, TypeOK, IInv
  <2>8. worker' \notin {"requesting", "finishing"}
    BY <1>3, <2>5 DEF SaveSession, MutexFree
  <2>9. SleeperPolls'
    <3>1. worker' = "asleep" => worker = "asleep" /\ ~RequestStands(co, revision)
      BY <1>3 DEF SaveSession, RequestSave, Notify
    <3>2. ~RequestStands(co, revision) => co' = Pumped(co)
      BY <2>1 DEF Requested
    <3>3. ~RequestStands(co, revision) /\ co'.inFlight # 0 => co.inFlight # 0
      BY <3>2, Typing, Pumping DEF IInv
    <3> QED  BY <1>3, <2>2, <3>1, <3>3, Sleeping DEF SaveSession
  <2> QED  BY <2>4, <2>6, <2>7, <2>8, <2>9 DEF IInv
<1>4. CASE Poll
  <2>1. co' = Pumped(co) /\ Reconcile
    BY <1>4 DEF Poll
  <2>2. /\ CoordinatorOK(co', file) /\ Flowing(co')
        /\ co'.durable >= co.durable /\ co'.requested = co.requested
    BY <2>1, Typing, Pumping
  <2>3. UNCHANGED <<file, checkpointed, revision>> /\ revision \in Revision
        /\ co.requested <= revision
    BY <1>4, Typing DEF Poll, Revision, IInv
  <2>4. /\ CoordinatorOK(co, file)' /\ Flowing(co)'
        /\ file' <= revision' /\ co'.requested <= revision'
        /\ checkpointed' <= co'.durable
        /\ co'.durable \in 0..MaxRevision /\ co' \in Coordinator
    BY <2>2, <2>3, CoordinatorSteps, Typing
  <2>5. /\ EditsAreTracked' /\ dirty' \in 0..MaxRevision /\ armed' \in BOOLEAN
        /\ dirty' # 0 => dirty' = dirty
    BY <1>4, <2>1, <2>2, <2>4, Reconciling DEF Poll
  <2>6. reply' \in Replies
    BY <1>4, <2>4, Querying DEF Poll
  <2>7. TypeOK'
    BY <1>4, <2>4, <2>5, <2>6 DEF Poll, TypeOK, IInv
  <2>8. worker' \notin {"requesting", "finishing"}
    BY <1>4 DEF Poll, MutexFree
  <2>9. SleeperPolls'
    <3>1. co'.inFlight # 0 => co.inFlight # 0
      BY <2>1, Typing, Pumping DEF IInv
    <3> QED  BY <1>4, <2>2, <3>1, Sleeping DEF Poll
  <2> QED  BY <2>4, <2>5, <2>7, <2>8, <2>9 DEF IInv
<1>5. CASE Checkpoint
  <2>1. checkpointed' \in 0..MaxRevision /\ checkpointed' <= co.durable
    BY <1>5, Typing DEF Checkpoint, IInv
  <2> QED  BY <1>5, <2>1 DEF Checkpoint, autosave, IInv, TypeOK, Replies, EditsAreTracked,
              SleeperPolls, CoordinatorOK, Piped, Flowing, OnDisk
<1>6. CASE RequestStop
  BY <1>6 DEF RequestStop, Notify, autosave, IInv, TypeOK, EditsAreTracked,
              SleeperPolls, CoordinatorOK, Piped, Flowing, OnDisk
<1>7. CASE Joined
  BY <1>7 DEF Joined, autosave, IInv, TypeOK, EditsAreTracked,
              SleeperPolls, CoordinatorOK, Piped, Flowing, OnDisk
<1> QED  BY <1>1, <1>2, <1>3, <1>4, <1>5, <1>6, <1>7 DEF Control

\* Steps of the autosave worker.
LEMMA WorkerSteps == IInv /\ WorkerRuns => IInv'
<1> SUFFICES ASSUME IInv, WorkerRuns PROVE IInv'
  OBVIOUS
<1> USE PersistenceAssumption
<1>0. /\ co.requested <= revision /\ file <= revision /\ revision \in Revision
      /\ dirty # 0 => dirty = revision
  BY Typing DEF IInv, EditsAreTracked, Revision
<1>1. CASE WorkerChecks \/ WorkerLeaves
  <2>1. co' = Pumped(co) /\ Reconcile
    BY <1>1 DEF WorkerChecks, WorkerLeaves
  <2>2. UNCHANGED <<file, failures, revision, control, reply, checkpointed, due,
                    clock, alarms>>
    BY <1>1 DEF WorkerChecks, WorkerLeaves, engine
  <2>3. /\ CoordinatorOK(co', file) /\ Flowing(co')
        /\ co'.durable >= co.durable /\ co'.requested = co.requested
    BY <2>1, Typing, Pumping
  <2>4. /\ CoordinatorOK(co, file)' /\ Flowing(co)'
        /\ file' <= revision' /\ co'.requested <= revision'
        /\ checkpointed' <= co'.durable
        /\ co'.durable \in 0..MaxRevision /\ co' \in Coordinator
    BY <1>0, <2>2, <2>3, CoordinatorSteps, Typing
  <2>5. /\ EditsAreTracked' /\ dirty' \in 0..MaxRevision /\ armed' \in BOOLEAN
        /\ dirty' # 0 => dirty' = dirty
    BY <2>1, <2>2, <2>3, <2>4, Reconciling
  <2>6. worker' \in {"requesting", "deciding", "flushing"}
        /\ (worker' = "requesting" => dirty' # 0)
    BY <1>1 DEF WorkerChecks, WorkerLeaves
  <2>7. TypeOK'
    BY <2>2, <2>4, <2>5, <2>6 DEF TypeOK, IInv
  <2>8. SleeperPolls'
    BY <2>3, <2>6, Sleeping
  <2> QED  BY <2>4, <2>5, <2>6, <2>7, <2>8 DEF IInv
<1>2. CASE WorkerRequests \/ WorkerFlushes
  <2>1. /\ UNCHANGED <<file, failures, revision, control, reply, checkpointed,
                       dirty, armed, clock, alarms>>
        /\ due' \in BOOLEAN /\ worker' \in {"deciding", "draining"}
    BY <1>2, Typing DEF WorkerRequests, WorkerFlushes, engine, autosave
  <2>2. co' = Requested(co, revision) \/ co' = co
    BY <1>0, <1>2, Typing DEF WorkerRequests, WorkerFlushes, IInv
  <2>3. /\ CoordinatorOK(co', file) /\ Flowing(co')
        /\ co'.durable >= co.durable /\ co'.requested <= revision
    BY <1>0, <2>2, Typing, Requesting DEF IInv
  <2>4. /\ CoordinatorOK(co, file)' /\ Flowing(co)'
        /\ file' <= revision' /\ co'.requested <= revision'
        /\ checkpointed' <= co'.durable
        /\ co'.durable \in 0..MaxRevision /\ co' \in Coordinator
    BY <1>0, <2>1, <2>3, CoordinatorSteps, Typing
  <2>5. EditsAreTracked'
    <3>1. control # "recovering" /\ dirty = 0 => revision <= co'.durable
      BY <2>3, <2>4, Typing DEF IInv, EditsAreTracked
    <3> QED  BY <2>1, <3>1 DEF EditsAreTracked, IInv
  <2>6. TypeOK'
    BY <2>1, <2>4 DEF TypeOK, IInv
  <2>7. SleeperPolls'
    BY <2>1, <2>3, Sleeping
  <2> QED  BY <2>1, <2>4, <2>5, <2>6, <2>7 DEF IInv
<1>3. CASE WorkerWaits \/ TimedWake
  <2>1. /\ UNCHANGED <<co, file, failures, revision, control, reply, checkpointed,
                       dirty, armed, due, clock>>
        /\ worker' \in {"asleep", "checking"}
        /\ alarms' \subseteq {"poll", "deadline"}
    BY <1>3 DEF WorkerWaits, TimedWake, engine, autosave, IInv, TypeOK
  <2>2. SleeperPolls'
    BY <1>3, <2>1 DEF WorkerWaits, TimedWake, SleeperPolls, IInv
  <2> QED  BY <2>1, <2>2 DEF IInv, TypeOK, EditsAreTracked, CoordinatorOK, Piped, Flowing, OnDisk
<1>4. CASE WorkerDrains
  <2>1. /\ UNCHANGED <<file, failures, revision, control, reply, checkpointed,
                       dirty, armed, due, clock, alarms>>
        /\ worker' \in {"draining", "finishing"} /\ co' = Pumped(co)
    BY <1>4 DEF WorkerDrains, engine, autosave
  <2>2. /\ CoordinatorOK(co', file) /\ Flowing(co')
        /\ co'.durable >= co.durable /\ co'.requested = co.requested
    BY <2>1, Typing, Pumping
  <2>3. /\ CoordinatorOK(co, file)' /\ Flowing(co)'
        /\ file' <= revision' /\ co'.requested <= revision'
        /\ checkpointed' <= co'.durable
        /\ co'.durable \in 0..MaxRevision /\ co' \in Coordinator
    BY <1>0, <2>1, <2>2, CoordinatorSteps, Typing
  <2>4. EditsAreTracked'
    <3>1. control # "recovering" /\ dirty = 0 => revision <= co'.durable
      BY <2>2, <2>3, Typing DEF IInv, EditsAreTracked
    <3> QED  BY <2>1, <3>1 DEF EditsAreTracked, IInv
  <2>5. TypeOK'
    BY <2>1, <2>3 DEF TypeOK, IInv
  <2>6. worker' = "finishing" => co'.pending = 0
    BY <1>4, <2>2 DEF WorkerDrains, Flowing
  <2>7. SleeperPolls'
    BY <2>1, <2>2, Sleeping
  <2> QED  BY <2>1, <2>3, <2>4, <2>5, <2>6, <2>7 DEF IInv
<1>5. CASE WorkerFinishes
  <2>1. co' = Popped(co) /\ Reconcile /\ co.pending = 0
    BY <1>5 DEF WorkerFinishes, IInv
  <2>2. /\ UNCHANGED <<file, failures, revision, control, reply, checkpointed, due,
                       clock, alarms>>
        /\ worker' = "stopped"
    BY <1>5 DEF WorkerFinishes, engine
  <2>3. /\ CoordinatorOK(co', file) /\ Flowing(co')
        /\ co'.durable >= co.durable /\ co'.requested = co.requested
    BY <2>1, Typing, Popping DEF Flowing
  <2>4. /\ CoordinatorOK(co, file)' /\ Flowing(co)'
        /\ file' <= revision' /\ co'.requested <= revision'
        /\ checkpointed' <= co'.durable
        /\ co'.durable \in 0..MaxRevision /\ co' \in Coordinator
    BY <1>0, <2>2, <2>3, CoordinatorSteps, Typing
  <2>5. /\ EditsAreTracked' /\ dirty' \in 0..MaxRevision /\ armed' \in BOOLEAN
        /\ dirty' # 0 => dirty' = dirty
    BY <2>1, <2>2, <2>3, <2>4, Reconciling
  <2>6. TypeOK'
    BY <2>2, <2>4, <2>5 DEF TypeOK, IInv
  <2>7. SleeperPolls'
    BY <2>2, <2>3, Sleeping
  <2> QED  BY <2>2, <2>4, <2>5, <2>6, <2>7 DEF IInv
<1> QED  BY <1>1, <1>2, <1>3, <1>4, <1>5 DEF WorkerRuns

\* Steps of the save thread: what it is about to write is newer than the file.
LEMMA SaveSteps == IInv /\ Saves => IInv'
<1> SUFFICES ASSUME IInv, Saves PROVE IInv'
  OBVIOUS
<1> USE PersistenceAssumption
<1> DEFINE s == co.slot
<1>1. PICK st \in {"committed", "failed"} :
         /\ s.phase = "accepted"
         /\ co' = [co EXCEPT !.slot = [phase |-> "done", status |-> st,
                                      revision |-> s.revision]]
         /\ file' \in {file, s.revision} /\ (st = "committed" => file' = s.revision)
         /\ failures' \in 0..MaxFailures
  BY DEF Saves, SaveCommits, SaveFails, IInv, TypeOK
<1>2. UNCHANGED <<revision, control, reply, checkpointed, dirty, armed, due,
                  clock, worker, alarms>>
  BY DEF Saves, SaveCommits, SaveFails, engine, autosave
<1>3. s.revision \in Revision
  BY <1>1, Typing DEF Coordinator, Slots, FreeSlot
<1>4. [phase |-> "done", status |-> st, revision |-> s.revision] \in Slots
  BY <1>3 DEF Slots
<1>5. /\ co' \in Coordinator
      /\ co'.slot = [phase |-> "done", status |-> st, revision |-> s.revision]
      /\ co'.requested = co.requested /\ co'.durable = co.durable
      /\ co'.inFlight = co.inFlight /\ co'.pending = co.pending
      /\ co'.submitted = co.submitted
  BY <1>1, <1>4, Typing DEF Coordinator
<1>6. /\ file <= s.revision /\ s.revision = co.submitted /\ co.submitted <= co.requested
      /\ co.inFlight # 0 /\ co.requested <= revision /\ co.durable <= file
      /\ (co.pending # 0 => s.revision < co.pending /\ co.pending = co.requested)
      /\ co.inFlight = s.revision
  BY <1>1 DEF IInv, CoordinatorOK, Piped, OnDisk
<1>7. /\ file' \in 0..MaxRevision /\ file <= file' /\ file' <= s.revision
      /\ file' <= revision
  BY <1>1, <1>3, <1>6, Typing DEF Revision, Coordinator
<1>8. Piped(co') /\ Flowing(co')
  BY <1>5, <1>6 DEF Piped, Flowing
<1>9. OnDisk(co', file')
  BY <1>1, <1>3, <1>5, <1>6, <1>7, Typing DEF OnDisk, Revision, Coordinator
<1>10. CoordinatorOK(co, file)' /\ Flowing(co)'
  BY <1>5, <1>8, <1>9 DEF CoordinatorOK, Piped, Flowing, OnDisk
<1>11. TypeOK'
  BY <1>1, <1>2, <1>5, <1>7 DEF TypeOK, IInv
<1>12. EditsAreTracked'
  BY <1>2, <1>5 DEF EditsAreTracked, IInv
<1>13. SleeperPolls'
  BY <1>2, <1>5, <1>8, Sleeping
<1> QED  BY <1>2, <1>5, <1>7, <1>10, <1>11, <1>12, <1>13 DEF IInv

\* Steps of the clock, and waking up for nothing, touch no revision.
LEMMA OtherSteps ==
    IInv /\ (ClockMoves \/ SpuriousWake \/ Finished \/ UNCHANGED vars) => IInv'
<1> SUFFICES ASSUME IInv, ClockMoves \/ SpuriousWake \/ Finished \/ UNCHANGED vars
             PROVE  IInv'
  OBVIOUS
<1>1. /\ UNCHANGED <<co, file, failures, revision, control, reply, checkpointed,
                     dirty, armed, alarms>>
      /\ due' \in BOOLEAN
      /\ clock' \in {"steady", "manual", "advancing"}
      /\ worker' = worker \/ worker' = "checking"
  BY Typing DEF ClockMoves, Tick, Advance, Observe, Notify, SpuriousWake, Finished,
                vars, engine, autosave
<1> QED  BY <1>1 DEF IInv, TypeOK, EditsAreTracked, SleeperPolls,
                     CoordinatorOK, Piped, Flowing, OnDisk

\* Together: IInv is an invariant of the specification.
LEMMA Invariance == Spec => []IInv
<1>1. IInv /\ [Next]_vars => IInv'
  BY ControlSteps, WorkerSteps, SaveSteps, OtherSteps DEF Next
<1> QED  BY <1>1, Initially, PTL DEF Spec

\* The service's, the coordinator's and the save thread's state is well typed
\* in every behaviour, and only real revisions enter the pipeline.
THEOREM TypeCorrect == Spec => []TypeOK
<1>1. IInv => TypeOK
  BY DEF IInv
<1> QED  BY <1>1, Invariance, PTL

\* durableRevision() and the revision the journal was compacted at are never
\* ahead of the project file (applyCompletion, checkpointDurable).
THEOREM DurableOnDisk == Spec => []DurableIsInFile
<1>1. IInv => DurableIsInFile
  BY DEF IInv, CoordinatorOK, OnDisk, DurableIsInFile
<1> QED  BY <1>1, Invariance, PTL

\* Whatever the order of edits, requests, completions and failures, an edit
\* that is not durable is tracked with a deadline (markDirty,
\* reconcileDurableState).
THEOREM EditsTracked == Spec => []EditsAreTracked
<1>1. IInv => EditsAreTracked
  BY DEF IInv
<1> QED  BY <1>1, Invariance, PTL

\* The worker never waits without a timeout while a save is in flight, and a
\* waiting snapshot always has a save before it (run, submitPending).
THEOREM WorkerPolls == Spec => []SleeperPolls
<1>1. IInv => SleeperPolls
  BY DEF IInv
<1> QED  BY <1>1, Invariance, PTL
-----------------------------------------------------------------------------
(* What a stop leaves behind, when no save has failed.                      *)

\* Revision r is in the file, being written, or waiting to be.
Covered(c, f, r) ==
    r <= f \/ (c.slot.phase = "accepted" /\ c.slot.revision = r) \/ c.pending = r

\* Everything requested is covered; once the worker has flushed, the newest
\* revision is, and it stays the newest because the control thread waits for
\* the worker; a stopped worker leaves nothing in the pipeline.
StopInv ==
    /\ failures = 0 => Covered(co, file, co.requested)
    /\ worker \in {"flushing", "draining", "finishing", "stopped"} => StopRequested
    /\ control \in {"closing", "closed"} => worker = "stopped"
    /\ worker \in {"draining", "finishing", "stopped"} /\ failures = 0 =>
           Covered(co, file, revision)
    /\ worker = "stopped" => co.pending = 0 /\ co.slot.phase = "free"

\* Completions, and handing over what waits, uncover nothing.
LEMMA PopCovers ==
    ASSUME NEW c, NEW f \in 0..MaxRevision, NEW r \in Nat, CoordinatorOK(c, f),
           Covered(c, f, r)
    PROVE  Covered(Popped(c), f, r)
<1>1. CASE c.slot.phase # "done"
  BY <1>1 DEF Popped
<1>2. CASE c.slot.phase = "done"
  <2>1. Popped(c).pending = c.pending
    BY Popping
  <2> QED  BY <1>2, <2>1 DEF Covered
<1> QED  BY <1>1, <1>2

LEMMA SubmitCovers ==
    ASSUME NEW c, NEW f \in 0..MaxRevision, NEW r \in Nat, CoordinatorOK(c, f),
           Covered(c, f, r)
    PROVE  Covered(Submitted(c), f, r)
<1> DEFINE goes == /\ c.pending # 0 /\ c.inFlight = 0
                   /\ c.slot.phase = "free" /\ c.pending > c.submitted
<1>1. CASE ~goes
  BY <1>1 DEF Submitted
<1>2. CASE goes
  <2>1. /\ Submitted(c).slot.phase = "accepted"
        /\ Submitted(c).slot.revision = c.pending
    BY <1>2 DEF Submitted, CoordinatorOK, Coordinator
  <2> QED  BY <1>2, <2>1 DEF Covered
<1> QED  BY <1>1, <1>2

LEMMA PumpCovers ==
    ASSUME NEW c, NEW f \in 0..MaxRevision, NEW r \in Nat, CoordinatorOK(c, f),
           Covered(c, f, r)
    PROVE  Covered(Pumped(c), f, r)
BY Popping, PopCovers, SubmitCovers DEF Pumped

\* A request for the newest revision stands, and covers it.
LEMMA RequestCovers ==
    ASSUME NEW c, NEW f \in 0..MaxRevision, NEW r \in Revision, CoordinatorOK(c, f),
           f <= r, c.requested <= r
    PROVE  /\ Requested(c, r).requested = r
           /\ Covered(c, f, c.requested) => Covered(Requested(c, r), f, r)
<1> USE PersistenceAssumption
<1> DEFINE p == Pumped(c)
           q == [p EXCEPT !.pending = r, !.requested = r]
<1>1. /\ CoordinatorOK(p, f) /\ p.requested = c.requested
  BY Pumping
<1>2. p.durable <= f /\ p.durable \in Nat /\ p \in Coordinator
  BY <1>1 DEF CoordinatorOK, OnDisk, Coordinator
<1>3. r \in Nat /\ f \in Nat /\ c.requested \in Nat
  BY DEF Revision, CoordinatorOK, Coordinator
<1>4. RequestStands(c, r)
  BY <1>1, <1>2, <1>3 DEF RequestStands
<1>q. q = [p EXCEPT !.pending = r, !.requested = r]
  OBVIOUS
<1>p. p = Pumped(c)
  OBVIOUS
<1> HIDE DEF p, q
<1>5. CASE r = p.requested
  <2>1. Requested(c, r) = p
    BY <1>5, <1>p DEF Requested
  <2>2. Covered(c, f, c.requested) => Covered(p, f, r)
    BY <1>1, <1>3, <1>5, <1>p, PumpCovers
  <2> QED  BY <1>5, <2>1, <2>2
<1>6. CASE r # p.requested
  <2>1. Requested(c, r) = Submitted(q)
    BY <1>4, <1>6, <1>p, <1>q DEF Requested
  <2>2. /\ q.pending = r /\ q.requested = r
        /\ q.slot = p.slot /\ q.inFlight = p.inFlight /\ q.submitted = p.submitted
        /\ q = [q EXCEPT !.pending = q.pending]
    BY <1>2, <1>q DEF Coordinator
  <2>3. Submitted(q).requested = r
    BY <1>2, <1>q DEF Submitted, Coordinator
  <2>4. Covered(Submitted(q), f, r)
    <3>1. CASE Submitted(q) = q
      BY <2>2, <3>1 DEF Covered
    <3>2. CASE Submitted(q) # q
      <4>1. Submitted(q) = [q EXCEPT !.slot = [phase |-> "accepted", status |-> "failed",
                                             revision |-> q.pending],
                                   !.submitted = q.pending, !.inFlight = q.pending,
                                   !.pending = 0]
        BY <3>2 DEF Submitted
      <4>2. Submitted(q).slot = [phase |-> "accepted", status |-> "failed",
                                 revision |-> q.pending]
        BY <4>1, <1>2, <1>q DEF Coordinator
      <4> QED  BY <2>2, <4>2 DEF Covered
    <3> QED  BY <3>1, <3>2
  <2> QED  BY <2>1, <2>3, <2>4
<1> QED  BY <1>5, <1>6

\* A covered revision stays covered when the file grows by a commit.
LEMMA CommitCovers ==
    ASSUME IInv, SaveCommits, NEW r \in Nat, Covered(co, file, r)
    PROVE  Covered(co', file', r)
<1>1. /\ co.slot.phase = "accepted" /\ file' = co.slot.revision
      /\ co'.pending = co.pending
  BY Typing DEF SaveCommits, Coordinator
<1>2. file <= file' /\ file \in Nat /\ file' \in Nat
  BY <1>1, Typing DEF IInv, CoordinatorOK, OnDisk, Coordinator, Slots, FreeSlot, Revision
<1> QED  BY <1>1, <1>2 DEF Covered

LEMMA StopInitially == Init => StopInv
BY PersistenceAssumption DEF Init, StopInv, Covered, Revision, FreeSlot, StopRequested

\* Steps that leave file and worker alone, and at most pump or request.
LEMMA StopControl == ASSUME IInv, StopInv, Control PROVE StopInv'
<1> USE PersistenceAssumption
<1>t. /\ co.requested \in Nat /\ file \in 0..MaxRevision /\ revision \in Revision
      /\ CoordinatorOK(co, file) /\ file <= revision /\ co.requested <= revision
      /\ file' = file /\ failures' = failures
  BY Typing DEF IInv, Revision, Control, TrackRecovered, Edit, SaveSession, Poll, Checkpoint,
                RequestStop, Joined
<1>1. CASE TrackRecovered \/ Edit \/ Poll
  <2>1. /\ co' = Pumped(co) /\ ~StopRequested
        /\ worker' = worker \/ worker' = "checking"
        /\ control' \notin {"closing", "closed"}
    BY <1>1 DEF TrackRecovered, Edit, Poll, MarkDirty, Notify, StopRequested
  <2>2. co'.requested = co.requested
    BY <1>t, <2>1, Pumping
  <2>3. failures = 0 => Covered(co', file, co.requested)
    BY <1>t, <2>1, PumpCovers DEF StopInv
  <2>4. worker' \notin {"flushing", "draining", "finishing", "stopped"}
    BY <2>1 DEF StopInv
  <2> QED  BY <1>t, <2>1, <2>2, <2>3, <2>4 DEF StopInv
<1>2. CASE SaveSession
  <2>1. /\ co' = Requested(co, revision) /\ ~StopRequested
        /\ worker' = worker \/ worker' = "checking"
        /\ control' \notin {"closing", "closed"}
    BY <1>2 DEF SaveSession, RequestSave, Notify, StopRequested
  <2>2. /\ co'.requested = revision
        /\ failures = 0 => Covered(co', file, revision)
    BY <1>t, <2>1, RequestCovers DEF StopInv
  <2>3. worker' \notin {"flushing", "draining", "finishing", "stopped"}
    BY <2>1 DEF StopInv
  <2> QED  BY <1>t, <2>1, <2>2, <2>3 DEF StopInv
<1>3. CASE Checkpoint
  BY <1>3 DEF Checkpoint, StopInv, StopRequested, autosave, Covered
<1>4. CASE RequestStop
  BY <1>4 DEF RequestStop, Notify, StopInv, StopRequested, autosave, Covered
<1>5. CASE Joined
  BY <1>5 DEF Joined, StopInv, StopRequested, autosave, Covered
<1> QED  BY <1>1, <1>2, <1>3, <1>4, <1>5 DEF Control

LEMMA StopWorker == ASSUME IInv, StopInv, WorkerRuns PROVE StopInv'
<1> USE PersistenceAssumption
<1>t. /\ co.requested \in Nat /\ file \in 0..MaxRevision /\ revision \in Revision
      /\ revision \in Nat
      /\ CoordinatorOK(co, file) /\ file <= revision /\ co.requested <= revision
      /\ dirty # 0 => dirty = revision
      /\ UNCHANGED <<file, failures, revision, control>>
      /\ worker # "stopped" /\ control \notin {"closing", "closed"}
  <2>1. /\ UNCHANGED <<file, failures, revision, control>> /\ worker # "stopped"
    BY DEF WorkerRuns, WorkerChecks, WorkerRequests, WorkerWaits, TimedWake,
           WorkerLeaves, WorkerFlushes, WorkerDrains, WorkerFinishes, engine
  <2> QED  BY <2>1, Typing DEF IInv, Revision, EditsAreTracked, StopInv
<1>1. CASE WorkerChecks \/ WorkerLeaves
  <2>1. co' = Pumped(co) /\ worker' \in {"requesting", "deciding", "flushing"}
        /\ (worker' = "flushing" => StopRequested)
    BY <1>1 DEF WorkerChecks, WorkerLeaves
  <2>2. co'.requested = co.requested /\ (failures = 0 => Covered(co', file, co.requested))
    BY <1>t, <2>1, Pumping, PumpCovers DEF StopInv
  <2> QED  BY <1>t, <2>1, <2>2 DEF StopInv, StopRequested
<1>2. CASE WorkerRequests \/ (WorkerFlushes /\ dirty > co.durable)
  <2>1. dirty # 0
    BY <1>2, Typing DEF WorkerRequests, IInv
  <2>2. co' = Requested(co, revision) /\ worker' \in {"deciding", "draining"}
        /\ (worker' = "draining" => worker = "flushing")
    BY <1>2, <1>t, <2>1 DEF WorkerRequests, WorkerFlushes
  <2>3. /\ co'.requested = revision
        /\ failures = 0 => Covered(co', file, revision)
    BY <1>t, <2>2, RequestCovers DEF StopInv
  <2> QED  BY <1>t, <2>2, <2>3 DEF StopInv, StopRequested
<1>3. CASE WorkerFlushes /\ ~(dirty > co.durable)
  <2>1. co' = co /\ worker' = "draining" /\ worker = "flushing" /\ control # "recovering"
    BY <1>3 DEF WorkerFlushes, StopInv, StopRequested
  <2>2. revision <= co.durable /\ co.durable <= file
    BY <1>3, <1>t, <2>1, Typing DEF IInv, EditsAreTracked, CoordinatorOK, OnDisk
  <2>3. Covered(co, file, revision)
    BY <1>t, <2>2, Typing DEF Covered
  <2> QED  BY <1>t, <2>1, <2>3 DEF StopInv, StopRequested
<1>4. CASE WorkerWaits \/ TimedWake
  BY <1>4 DEF WorkerWaits, TimedWake, StopInv, StopRequested, engine, autosave, Covered
<1>5. CASE WorkerDrains
  <2>1. co' = Pumped(co) /\ worker' \in {"draining", "finishing"} /\ worker = "draining"
    BY <1>5 DEF WorkerDrains
  <2>2. co'.requested = co.requested /\ (failures = 0 => Covered(co', file, co.requested))
        /\ (failures = 0 => Covered(co', file, revision))
    BY <1>t, <2>1, Pumping, PumpCovers DEF StopInv
  <2> QED  BY <1>t, <2>1, <2>2 DEF StopInv, StopRequested
<1>6. CASE WorkerFinishes
  <2>1. co' = Popped(co) /\ worker' = "stopped" /\ worker = "finishing"
        /\ co.slot.phase # "accepted" /\ co.pending = 0
    BY <1>6 DEF WorkerFinishes, IInv
  <2>2. co'.requested = co.requested /\ co'.pending = 0
        /\ (failures = 0 => Covered(co', file, co.requested))
        /\ (failures = 0 => Covered(co', file, revision))
    BY <1>t, <2>1, Popping, PopCovers DEF StopInv
  <2>3. co'.slot.phase = "free"
    <3>1. co.slot.phase \in {"free", "done"}
      BY <2>1, Typing DEF Coordinator, Slots, FreeSlot
    <3> QED  BY <2>1, <3>1, Typing DEF Popped, Applied, FreeSlot, Coordinator
  <2> QED  BY <1>t, <2>1, <2>2, <2>3 DEF StopInv, StopRequested
<1> QED  BY <1>1, <1>2, <1>3, <1>4, <1>5, <1>6 DEF WorkerRuns

LEMMA StopSaves == ASSUME IInv, StopInv, Saves PROVE StopInv'
<1>t. /\ co.requested \in Nat /\ revision \in Nat /\ failures \in Nat
      /\ co.slot.phase = "accepted" /\ worker # "stopped"
      /\ UNCHANGED <<revision, control, worker>>
      /\ co'.requested = co.requested
  BY Typing, PersistenceAssumption
     DEF Saves, SaveCommits, SaveFails, StopInv, Coordinator, engine, IInv, TypeOK, Revision
<1>1. CASE SaveCommits
  <2>1. failures = 0 => Covered(co', file', co.requested)
    BY <1>1, <1>t, CommitCovers DEF StopInv
  <2>2. Covered(co, file, revision) => Covered(co', file', revision)
    BY <1>1, <1>t, CommitCovers
  <2>3. failures' = failures
    BY <1>1 DEF SaveCommits
  <2> QED  BY <1>t, <2>1, <2>2, <2>3 DEF StopInv, StopRequested
<1>2. CASE SaveFails
  <2>1. failures' # 0
    BY <1>2, <1>t DEF SaveFails
  <2> QED  BY <1>t, <2>1 DEF StopInv, StopRequested
<1> QED  BY <1>1, <1>2 DEF Saves

\* Together: StopInv holds in every behaviour.
LEMMA StopInvariance == Spec => []StopInv
<1>1. IInv /\ StopInv /\ [Next]_vars => StopInv'
  <2> SUFFICES ASSUME IInv, StopInv, [Next]_vars PROVE StopInv'
    OBVIOUS
  <2>1. CASE ClockMoves \/ SpuriousWake \/ Finished \/ UNCHANGED vars
    <3>1. /\ UNCHANGED <<co, file, failures, revision, control>>
          /\ worker' = worker \/ (worker = "asleep" /\ worker' = "checking")
      BY <2>1 DEF ClockMoves, Tick, Advance, Observe, Notify, SpuriousWake, Finished,
                  vars, engine, autosave
    <3> QED  BY <3>1 DEF StopInv, StopRequested, Covered
  <2> QED  BY <2>1, StopControl, StopWorker, StopSaves DEF Next
<1> QED  BY <1>1, StopInitially, Invariance, PTL DEF Spec

\* An orderly stop leaves the newest revision in the project file unless a
\* save failed: whatever was requested, in flight or tracked when the flag was
\* raised, the worker requests and drains it before it ends (run, stop).
THEOREM StopSavesEdits == Spec => []StopCoversEdits
<1>1. IInv /\ StopInv => StopCoversEdits
  <2> SUFFICES ASSUME IInv, StopInv, control = "closed", failures = 0 PROVE file = revision
    BY DEF StopCoversEdits
  <2>1. worker = "stopped" /\ co.pending = 0 /\ co.slot.phase = "free"
        /\ Covered(co, file, revision)
    BY DEF StopInv
  <2>2. file <= revision /\ file \in Nat /\ revision \in Nat /\ revision # 0
    BY Typing DEF IInv
  <2> QED  BY <2>1, <2>2 DEF Covered
<1> QED  BY <1>1, Invariance, StopInvariance, PTL

\* A deadline that has passed goes away only with a request that covers the
\* newest revision or because that revision is durable, so that edits without
\* pause do not postpone the autosave (markDirty, requestSave, run).
THEOREM WindowKept == Spec => WindowIsFixed
<1>1. IInv /\ [Next]_vars =>
        [due /\ armed /\ ~due' => co'.requested = revision' \/ revision = co'.durable]_vars
  <2> USE PersistenceAssumption
  <2> SUFFICES ASSUME IInv, Next, due, armed, ~due'
               PROVE  co'.requested = revision' \/ revision = co'.durable
    OBVIOUS
  <2>t. /\ co.requested \in Nat /\ file \in 0..MaxRevision /\ revision \in Revision
        /\ CoordinatorOK(co, file) /\ file <= revision /\ co.requested <= revision
        /\ dirty # 0 => dirty = revision
    BY Typing DEF IInv, Revision, EditsAreTracked
  <2>1. CASE TrackRecovered \/ Edit
    <3>1. co' = Pumped(co) /\ IsReconciled
      BY <2>1 DEF TrackRecovered, Edit, MarkDirty
    <3>2. CoordinatorOK(co', file)
      BY <2>t, <3>1, Pumping
    <3>3. co'.durable <= file /\ co'.durable >= revision /\ co'.durable \in Nat
      BY <2>t, <3>1, <3>2 DEF IsReconciled, CoordinatorOK, OnDisk, Coordinator
    <3> QED  BY <2>t, <3>3, Typing
  <2>2. CASE SaveSession \/ WorkerRequests
    <3>1. /\ co' = Requested(co, revision) /\ UNCHANGED revision
      BY <2>2, <2>t DEF SaveSession, RequestSave, WorkerRequests, IInv, engine
    <3> QED  BY <2>t, <3>1, RequestCovers
  <2>3. ~(TrackRecovered \/ Edit \/ SaveSession \/ WorkerRequests) => due' = due
    BY DEF Next, Control, WorkerRuns, Saves, ClockMoves, SpuriousWake, Finished, Poll, Checkpoint,
           RequestStop, Joined, WorkerChecks, WorkerWaits, TimedWake, WorkerLeaves,
           WorkerFlushes, WorkerDrains, WorkerFinishes, SaveCommits, SaveFails, Tick, Advance,
           Observe, autosave, vars
  <2> QED  BY <2>1, <2>2, <2>3
<1> QED  BY <1>1, Invariance, PTL DEF Spec, WindowIsFixed
=============================================================================
