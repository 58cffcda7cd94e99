---------------------------- MODULE StoreProofs ----------------------------
(***************************************************************************)
(* Proofs about Store, for any pods, slots, names, devices and bounds: what *)
(* is finished is scheduled, finished on evidence, and lives the life that  *)
(* ContainerLifecycle allows.                                               *)
(***************************************************************************)
EXTENDS Store, TLAPS

\* What a pod's object says of terminations is true: it says so only of containers
\* that the kubelet has reported terminated.
StatusTrue ==
    \A u \in Pods, s \in Slots :
        LET status == pod[u].status[s] IN
        /\ status.term # 0 => <<u, status.cur>> \in dead
        /\ status.prevTerm # 0 => <<u, status.prev>> \in dead

\* purge uses a time that has been.
SweepInPast == sweep.now <= now

IInv == TypeOK /\ StatusTrue /\ SweepInPast /\ ScheduledOnce /\ FinishedOnEvidence

-----------------------------------------------------------------------------
(* The helpers on containers keep their types.                              *)

LEMMA LabelsType ==
    ASSUME NEW c \in Containers
    PROVE  /\ LabelsOf(c) \in Labels
           /\ Labelled(c) \in [Devices -> Labels \cup {NotSeen}]
           /\ \A d \in Devices : Labelled(c)[d] = NotSeen <=> c.devices[d] = NotSeen
  BY StoreAssumption DEF Containers, Labels, LabelsOf, Labelled

LEMMA ObservedType ==
    ASSUME NEW p \in Objects, NEW s \in Slots, NEW id \in Ids
    PROVE  ObservedFinishedAt(p, s, id) \in Nat
  BY DEF Objects, Statuses, Times, ObservedFinishedAt

LEMMA FinishedAtType ==
    ASSUME PodsTypeOK, NEW p \in Objects, NEW s \in Slots, NEW id \in Ids
    PROVE  FinishedAtFor(p, s, id) \in Nat
<1> now \in Nat /\ p.del \in Nat
  BY DEF PodsTypeOK, Times, Objects
<1> QED
  BY ObservedType DEF FinishedAtFor

LEMMA FinishedContainerType ==
    ASSUME NEW c \in Containers, NEW at \in Nat
    PROVE  /\ FinishedContainer(c, at) \in Containers
           /\ FinishedContainer(c, at).finishedAt = IF at = 0 THEN c.finishedAt ELSE at
<1> Labelled(c) \in [Devices -> Labels \cup {NotSeen}]
  BY LabelsType
<1> QED
  BY DEF Containers, FinishedContainer

LEMMA NewContainerType ==
    ASSUME NEW p \in Objects, NEW s \in Slots, NEW id \in Ids
    PROVE  /\ NewContainer(p, s, id) \in Containers
           /\ NewContainer(p, s, id).finishedAt = ObservedFinishedAt(p, s, id)
<1> ObservedFinishedAt(p, s, id) \in Nat
  BY ObservedType
<1> AllocOf(p, s) \in Allocs
  BY DEF AllocOf, Allocs
<1> p.name \in Names
  BY DEF Objects
<1> QED
  BY DEF NewContainer, Containers

LEMMA UpdatedType ==
    ASSUME NEW c \in Containers, NEW p \in Objects, NEW s \in Slots
    PROVE  /\ Updated(c, p, s) \in Containers
           /\ Updated(c, p, s).finishedAt = c.finishedAt
           /\ Updated(c, p, s).slot = c.slot
<1> AllocOf(p, s) \in Allocs
  BY DEF AllocOf, Allocs
<1> p.name \in Names
  BY DEF Objects
<1> QED
  BY DEF Updated, Containers

\* What reconcilePod may do to the finish time: nothing once it is set, and before that
\* nothing or what the object gives evidence for.
LEMMA ReconciledContainer ==
    ASSUME PodsTypeOK, NEW c \in Containers \cup {NoContainer}, NEW p \in Objects, NEW id \in Ids
    PROVE  LET r == Reconciled(c, p, id) IN
           /\ r \in Containers \cup {NoContainer}
           /\ c # NoContainer => r # NoContainer
           /\ c # NoContainer /\ c.finishedAt # 0 => r.finishedAt = c.finishedAt
           /\ r # NoContainer /\ r.finishedAt # 0 =>
                 \/ c # NoContainer /\ c.finishedAt # 0
                 \/ \E s \in Slots : ObservedFinishedAt(p, s, id) # 0
                 \/ p.del # 0 \/ p.ended
<1> DEFINE slots == DesiredSlots(p, id)
           slot == CHOOSE s \in slots : TRUE
<1> USE ContainerAssumption
<1>0. slots # {} => slot \in Slots
  BY DEF DesiredSlots
<1>1. CASE slots # {} /\ c = NoContainer
  <2> Reconciled(c, p, id) = NewContainer(p, slot, id)
    BY <1>1 DEF Reconciled
  <2> QED
    BY <1>0, <1>1, NewContainerType
<1>2. CASE slots # {} /\ c # NoContainer
  <2> DEFINE update == Updated(c, p, slot)
  <2> Reconciled(c, p, id) = IF c.finishedAt # 0 THEN update
                             ELSE FinishedContainer(update, ObservedFinishedAt(p, slot, id))
    BY <1>2 DEF Reconciled
  <2>1. update \in Containers /\ update.finishedAt = c.finishedAt
    BY <1>0, <1>2, UpdatedType
  <2>2. ObservedFinishedAt(p, slot, id) \in Nat
    BY <1>0, <1>2, ObservedType
  <2> HIDE DEF slot, update
  <2> QED
    BY <1>0, <1>2, <2>1, <2>2, FinishedContainerType
<1>3. CASE slots = {} /\ c # NoContainer
  <2> Reconciled(c, p, id) = IF c.finishedAt # 0 THEN c
                             ELSE FinishedContainer(c, FinishedAtFor(p, c.slot, id))
    BY <1>3 DEF Reconciled
  <2>1. c \in Containers /\ c.slot \in Slots
    BY <1>3 DEF Containers
  <2>2. FinishedAtFor(p, c.slot, id) \in Nat
    BY <2>1, FinishedAtType
  <2>3. FinishedAtFor(p, c.slot, id) # 0 =>
           ObservedFinishedAt(p, c.slot, id) # 0 \/ p.del # 0 \/ p.ended
    BY DEF FinishedAtFor
  <2> QED
    BY <1>3, <2>1, <2>2, <2>3, FinishedContainerType
<1>4. CASE slots = {} /\ c = NoContainer
  BY <1>4 DEF Reconciled
<1> QED
  BY <1>1, <1>2, <1>3, <1>4

LEMMA DeletedContainerType ==
    ASSUME PodsTypeOK, NEW c \in Containers, NEW p \in Objects, NEW id \in Ids
    PROVE  DeletedContainer(c, p, id) \in Containers /\ DeletedContainer(c, p, id).finishedAt # 0
<1> c.slot \in Slots /\ now \in Nat \ {0}
  BY DEF Containers, PodsTypeOK, Times
<1> DEFINE at == FinishedAtFor(p, c.slot, id)
<1> at \in Nat
  BY FinishedAtType
<1> HIDE DEF at
<1> QED
  BY FinishedContainerType DEF DeletedContainer, at

-----------------------------------------------------------------------------
(* The pods: what the environment's steps preserve.                         *)

Evidence(u, id) ==
    \/ <<u, id>> \in dead
    \/ pod[u].del # 0 \/ pod[u].ended \/ pod[u].exists = "gone"

LEMMA TimesNat == Times \subseteq Nat /\ MaxTime \in Nat /\ Horizon + Grace <= MaxTime
  BY PodsAssumption DEF Times, MaxTime

\* A change of one pod's object to another that takes no evidence away.
LEMMA ChangeKeeps ==
    ASSUME PodsTypeOK, StatusTrue,
           NEW u \in Pods, NEW o \in Objects, Change(u, o),
           dead \subseteq dead', dead' \subseteq Pods \X Ids,
           pod[u].exists # "gone",
           pod[u].del # 0 => o.del # 0,
           pod[u].ended => o.ended,
           \A s \in Slots : /\ o.status[s].term # 0 => <<u, o.status[s].cur>> \in dead'
                            /\ o.status[s].prevTerm # 0 => <<u, o.status[s].prev>> \in dead'
    PROVE  /\ PodsTypeOK' /\ StatusTrue' /\ now' = now
           /\ \A v \in Pods, id \in Ids : Evidence(v, id) => Evidence(v, id)'
<1>1. PodsTypeOK'
  BY DEF PodsTypeOK, Change
<1>2. StatusTrue'
  BY DEF PodsTypeOK, StatusTrue, Change
<1>3. ASSUME NEW v \in Pods, NEW id \in Ids, Evidence(v, id) PROVE Evidence(v, id)'
  BY <1>3 DEF PodsTypeOK, Evidence, Change
<1> QED
  BY <1>1, <1>2, <1>3 DEF Change

LEMMA PodStepKeeps ==
    ASSUME PodsTypeOK, StatusTrue, NEW u \in Pods, PodStep(u)
    PROVE  /\ PodsTypeOK' /\ StatusTrue' /\ now' = now
           /\ \A v \in Pods, id \in Ids : Evidence(v, id) => Evidence(v, id)'
<1> DEFINE p == pod[u]
<1>0. /\ p \in Objects /\ p.exists # "gone" /\ now \in Nat \ {0} /\ now <= Horizon
      /\ now <= MaxTime /\ now + Grace \in Times
  BY PodsAssumption DEF PodStep, PodsTypeOK, Times, MaxTime
<1>s. \A s \in Slots : /\ p.status[s] \in Statuses
                       /\ p.status[s].term # 0 => <<u, p.status[s].cur>> \in dead
                       /\ p.status[s].prevTerm # 0 => <<u, p.status[s].prev>> \in dead
  BY <1>0 DEF StatusTrue, Objects
<1>1. CASE PodCreated(u) /\ UNCHANGED dead
  <2> PICK r \in ResourceSets, a \in KaiSlots \cup {NoSlot} :
        Change(u, [p EXCEPT !.exists = "yes", !.resource = r, !.kai = a])
    BY <1>1 DEF PodCreated
  <2> DEFINE o == [p EXCEPT !.exists = "yes", !.resource = r, !.kai = a]
  <2> o \in Objects /\ o.del = p.del /\ o.ended = p.ended /\ o.status = p.status
    BY <1>0, PodsAssumption DEF Objects
  <2> Change(u, o)
    OBVIOUS
  <2> HIDE DEF o
  <2> QED
    BY <1>0, <1>1, <1>s, ChangeKeeps DEF PodsTypeOK
<1>2. ASSUME NEW s \in Slots, ContainerTerminates(u, s)
      PROVE  /\ PodsTypeOK' /\ StatusTrue' /\ now' = now
             /\ \A v \in Pods, id \in Ids : Evidence(v, id) => Evidence(v, id)'
  <2> PICK at \in 1 .. now : Change(u, [p EXCEPT !.status[s].term = at])
    BY <1>2 DEF ContainerTerminates
  <2> DEFINE o == [p EXCEPT !.status[s].term = at]
  <2>1. at \in Times
    BY <1>0, TimesNat DEF Times
  <2>2. /\ p.status[s].cur \in Ids
        /\ dead' = dead \cup {<<u, p.status[s].cur>>}
    BY <1>2, <1>s DEF ContainerTerminates, Statuses
  <2>3. [p.status[s] EXCEPT !.term = at] \in Statuses
    BY <2>1, <1>s DEF Statuses
  <2>4. /\ o \in Objects /\ o.del = p.del /\ o.ended = p.ended
        /\ o.status = [p.status EXCEPT ![s] = [p.status[s] EXCEPT !.term = at]]
    BY <1>0, <2>3 DEF Objects
  <2>5. \A x \in Slots : /\ o.status[x].term # 0 => <<u, o.status[x].cur>> \in dead'
                         /\ o.status[x].prevTerm # 0 => <<u, o.status[x].prev>> \in dead'
    <3> TAKE x \in Slots
    <3>1. CASE x = s
      <4> o.status[s] = [p.status[s] EXCEPT !.term = at]
        BY <2>4, <1>0 DEF Objects
      <4> o.status[s].cur = p.status[s].cur /\ o.status[s].prev = p.status[s].prev
            /\ o.status[s].prevTerm = p.status[s].prevTerm
        BY <1>s DEF Statuses
      <4> QED
        BY <3>1, <2>2, <1>s
    <3>2. CASE x # s
      <4> o.status[x] = p.status[x]
        BY <3>2, <2>4, <1>0 DEF Objects
      <4> QED
        BY <2>2, <1>s
    <3> QED
      BY <3>1, <3>2
  <2>6. dead \subseteq dead' /\ dead' \subseteq Pods \X Ids
    BY <2>2 DEF PodsTypeOK
  <2> HIDE DEF o
  <2> QED
    BY <1>0, <2>4, <2>5, <2>6, ChangeKeeps DEF o
<1>3. ASSUME NEW s \in Slots, ContainerStarts(u, s), UNCHANGED dead
      PROVE  /\ PodsTypeOK' /\ StatusTrue' /\ now' = now
             /\ \A v \in Pods, id \in Ids : Evidence(v, id) => Evidence(v, id)'
  <2> DEFINE old == p.status[s]
             new == [cur |-> p.started + 1, term |-> 0, prev |-> old.cur, prevTerm |-> old.term]
             o == [p EXCEPT !.started = p.started + 1, !.status[s] = new]
  <2>1. Change(u, o)
    BY <1>3 DEF ContainerStarts
  <2>2. p.started + 1 \in Ids /\ p.started + 1 \in 0 .. MaxIds
    BY <1>0, <1>3, PodsAssumption DEF ContainerStarts, Objects, Ids
  <2>3. new \in Statuses
    <3> 0 \in Times
      BY TimesNat DEF Times
    <3> old.cur \in Ids \cup {NoId} /\ old.term \in Times
      BY <1>s DEF Statuses
    <3> QED
      BY <2>2 DEF Statuses
  <2>4. /\ o \in Objects /\ o.del = p.del /\ o.ended = p.ended
        /\ o.status = [p.status EXCEPT ![s] = new]
    BY <1>0, <2>2, <2>3 DEF Objects
  <2>5. \A x \in Slots : /\ o.status[x].term # 0 => <<u, o.status[x].cur>> \in dead'
                         /\ o.status[x].prevTerm # 0 => <<u, o.status[x].prev>> \in dead'
    <3> TAKE x \in Slots
    <3>1. CASE x = s
      <4>1. o.status[s] = new
        BY <2>4, <1>0 DEF Objects
      <4>2. new.term = 0 /\ new.prev = old.cur /\ new.prevTerm = old.term
        OBVIOUS
      <4>3. old.term # 0 => <<u, old.cur>> \in dead
        BY <1>s
      <4> HIDE DEF o, new, old
      <4> QED
        BY <3>1, <1>3, <4>1, <4>2, <4>3
    <3>2. CASE x # s
      <4> o.status[x] = p.status[x]
        BY <3>2, <2>4, <1>0 DEF Objects
      <4> QED
        BY <1>3, <1>s
    <3> QED
      BY <3>1, <3>2
  <2> HIDE DEF o
  <2> QED
    BY <1>0, <1>3, <2>1, <2>4, <2>5, ChangeKeeps DEF PodsTypeOK
<1>4. ASSUME NEW o \in Objects, Change(u, o), UNCHANGED dead,
             p.del # 0 => o.del # 0, p.ended => o.ended,
             o.status = p.status \/ o.status = [s \in Slots |-> NoStatus]
      PROVE  /\ PodsTypeOK' /\ StatusTrue' /\ now' = now
             /\ \A v \in Pods, id \in Ids : Evidence(v, id) => Evidence(v, id)'
  <2> \A s \in Slots : /\ o.status[s].term # 0 => <<u, o.status[s].cur>> \in dead'
                       /\ o.status[s].prevTerm # 0 => <<u, o.status[s].prev>> \in dead'
    BY <1>4, <1>s DEF NoStatus
  <2> QED
    BY <1>0, <1>4, ChangeKeeps DEF PodsTypeOK
<1>5. CASE StatusCleared(u) /\ UNCHANGED dead
  <2> NoStatus \in Statuses
    BY TimesNat DEF NoStatus, Statuses, Times
  <2> DEFINE o == [p EXCEPT !.status = [s \in Slots |-> NoStatus]]
  <2> o \in Objects /\ o.del = p.del /\ o.ended = p.ended /\ o.status = [s \in Slots |-> NoStatus]
    BY <1>0 DEF Objects
  <2> Change(u, o)
    BY <1>5 DEF StatusCleared
  <2> HIDE DEF o
  <2> QED
    BY <1>4, <1>5
<1>6. CASE PodEnds(u) /\ UNCHANGED dead
  <2> DEFINE o == [p EXCEPT !.ended = TRUE]
  <2> o \in Objects /\ o.del = p.del /\ o.ended /\ o.status = p.status
    BY <1>0 DEF Objects
  <2> Change(u, o)
    BY <1>6 DEF PodEnds
  <2> HIDE DEF o
  <2> QED
    BY <1>4, <1>6
<1>7. CASE DeletionRequested(u) /\ UNCHANGED dead
  <2> DEFINE o == [p EXCEPT !.del = now + Grace]
  <2> o \in Objects /\ o.del = now + Grace /\ o.ended = p.ended /\ o.status = p.status
    BY <1>0 DEF Objects
  <2> Change(u, o) /\ now + Grace # 0
    BY <1>0, <1>7, PodsAssumption DEF DeletionRequested
  <2> HIDE DEF o
  <2> QED
    BY <1>4, <1>7
<1>8. CASE Edited(u) /\ UNCHANGED dead
  <2>0. p.edits + 1 \in 0 .. MaxEdits
    <3> p.edits \in 0 .. MaxEdits /\ p.edits < MaxEdits /\ MaxEdits \in Nat
      BY <1>0, <1>8, PodsAssumption DEF Edited, Objects
    <3> QED
      OBVIOUS
  <2>1. ASSUME NEW a \in KaiSlots \cup {NoSlot}, Change(u, [p EXCEPT !.kai = a, !.edits = @ + 1])
        PROVE  \E o \in Objects : /\ Change(u, o) /\ o.del = p.del /\ o.ended = p.ended
                                  /\ o.status = p.status
    <3> DEFINE o == [p EXCEPT !.kai = a, !.edits = @ + 1]
    <3> o \in Objects /\ o.del = p.del /\ o.ended = p.ended /\ o.status = p.status
      BY <1>0, <2>0 DEF Objects
    <3> QED
      BY <2>1
  <2>2. ASSUME NEW n \in Names, Change(u, [p EXCEPT !.name = n, !.edits = @ + 1])
        PROVE  \E o \in Objects : /\ Change(u, o) /\ o.del = p.del /\ o.ended = p.ended
                                  /\ o.status = p.status
    <3> DEFINE o == [p EXCEPT !.name = n, !.edits = @ + 1]
    <3> o \in Objects /\ o.del = p.del /\ o.ended = p.ended /\ o.status = p.status
      BY <1>0, <2>0 DEF Objects
    <3> QED
      BY <2>2
  <2> PICK o \in Objects : Change(u, o) /\ o.del = p.del /\ o.ended = p.ended /\ o.status = p.status
    BY <1>8, <2>1, <2>2 DEF Edited
  <2> QED
    BY <1>4, <1>8
<1>9. CASE PodRemoved(u) /\ UNCHANGED dead
  <2> DEFINE o == [p EXCEPT !.exists = "gone"]
  <2> o \in Objects /\ o.del = p.del /\ o.ended = p.ended /\ o.status = p.status
    BY <1>0 DEF Objects
  <2> Change(u, o)
    BY <1>9 DEF PodRemoved
  <2> HIDE DEF o
  <2> QED
    BY <1>4, <1>9
<1> HIDE DEF p
<1> QED
  BY <1>1, <1>2, <1>3, <1>5, <1>6, <1>7, <1>8, <1>9 DEF PodStep

LEMMA TickKeeps ==
    ASSUME PodsTypeOK, StatusTrue, Tick
    PROVE  /\ PodsTypeOK' /\ StatusTrue' /\ now' = now + 1
           /\ \A v \in Pods, id \in Ids : Evidence(v, id) => Evidence(v, id)'
<1>1. now + 1 \in Times \ {0}
  <2> now \in Nat /\ now < MaxTime
    BY TimesNat DEF PodsTypeOK, Tick
  <2> QED
    BY TimesNat DEF Times
<1>2. now' = now + 1 /\ pod' = pod /\ copy' = copy /\ dead' = dead
  BY DEF Tick
<1> QED
  BY <1>1, <1>2 DEF PodsTypeOK, StatusTrue, Evidence

\* What is deleted and supplanted changes nothing but the informer's copy.
LEMMA SupplantsKeeps ==
    ASSUME NEW u \in Pods, Supplants(u), PodsTypeOK, StatusTrue
    PROVE  /\ PodsTypeOK' /\ StatusTrue' /\ now' = now
           /\ \A v \in Pods, id \in Ids : Evidence(v, id) => Evidence(v, id)'
<1>1. /\ pod' = pod /\ dead' = dead /\ now' = now
      /\ copy' = [copy EXCEPT ![u] = [pod[u] EXCEPT !.exists = "no"]]
  BY DEF Supplants
<1>2. [pod[u] EXCEPT !.exists = "no"] \in Objects
  BY DEF PodsTypeOK, Objects
<1>3. PodsTypeOK'
  BY <1>1, <1>2 DEF PodsTypeOK
<1> QED
  BY <1>1, <1>3 DEF StatusTrue, Evidence

\* An event of the informer changes its copy only.
LEMMA DeliveryKeeps ==
    ASSUME PodsTypeOK, StatusTrue, NEW u \in Pods,
           copy' = [copy EXCEPT ![u] = pod[u]], UNCHANGED <<now, pod, dead>>
    PROVE  /\ PodsTypeOK' /\ StatusTrue' /\ now' = now
           /\ \A v \in Pods, id \in Ids : Evidence(v, id) => Evidence(v, id)'
BY DEF PodsTypeOK, StatusTrue, Evidence

\* A time that the status reports for a container is evidence that it terminated.
LEMMA ObservedIsEvidence ==
    ASSUME StatusTrue, NEW u \in Pods, NEW s \in Slots, NEW id \in Ids,
           ObservedFinishedAt(pod[u], s, id) # 0
    PROVE  <<u, id>> \in dead
BY DEF StatusTrue, ObservedFinishedAt

-----------------------------------------------------------------------------
(* What a step may do to the store and to the cleanup queue.                *)

StoreType ==
    /\ gpuContainers \in [Keys -> Containers \cup {NoContainer}]
    /\ queue \in [Keys -> Nat]

\* A step that finishes containers stages each of them once.
LEMMA Staged ==
    ASSUME StoreType, ScheduledOnce, StageForCleanup,
           gpuContainers' \in [Keys -> Containers \cup {NoContainer}],
           \A k \in Keys : IsFinished(k) =>
               /\ gpuContainers'[k] # NoContainer
               /\ gpuContainers'[k].finishedAt = gpuContainers[k].finishedAt
    PROVE  StoreType' /\ ScheduledOnce'
<1>1. ASSUME NEW k \in Keys
      PROVE  /\ queue'[k] \in Nat
             /\ queue'[k] = IF IsFinished(k)' THEN gpuContainers'[k].finishedAt + TTL ELSE 0
  <2>1. gpuContainers'[k] # NoContainer => gpuContainers'[k].finishedAt \in Nat
    BY DEF Containers
  <2>2. queue'[k] = IF /\ gpuContainers'[k] # NoContainer
                       /\ gpuContainers'[k].finishedAt # 0
                       /\ ~IsFinished(k)
                       /\ queue[k] = 0
                    THEN gpuContainers'[k].finishedAt + TTL
                    ELSE queue[k]
    BY DEF StageForCleanup
  <2>3. queue[k] = IF IsFinished(k) THEN gpuContainers[k].finishedAt + TTL ELSE 0
    BY DEF ScheduledOnce
  <2>4. IsFinished(k)' <=> gpuContainers'[k] # NoContainer /\ gpuContainers'[k].finishedAt # 0
    BY DEF IsFinished, Stored
  <2>5. CASE IsFinished(k)
    <3> gpuContainers[k].finishedAt # 0
      BY <2>5 DEF IsFinished
    <3> QED
      BY <2>1, <2>2, <2>3, <2>4, <2>5, PodsAssumption
  <2>6. CASE ~IsFinished(k)
    BY <2>1, <2>2, <2>3, <2>4, <2>6, PodsAssumption
  <2> QED
    BY <2>5, <2>6
<1>2. \E f : queue' = [k \in Keys |-> f[k]]
  <2> DEFINE f == [k \in Keys |-> queue'[k]]
  <2> queue' = [k \in Keys |-> f[k]]
    BY DEF StageForCleanup
  <2> QED
    OBVIOUS
<1> QED
  BY <1>1, <1>2 DEF StoreType, ScheduledOnce

\* What one step may do to the container k: keep it, with its finish time if it has one,
\* or forget it TTL after it finished.
LifeStep(k) ==
    \/ /\ Stored(k) => Stored(k)'
       /\ IsFinished(k) => gpuContainers'[k].finishedAt = gpuContainers[k].finishedAt
    \/ IsFinished(k) /\ ~Stored(k)' /\ gpuContainers[k].finishedAt + TTL <= now

SweepType ==
    sweep \in [step       : {"idle", "purge", "unmap", "delete"},
               now        : Times,
               containers : SUBSET ContainerSeries,
               devices    : SUBSET DeviceSeries]

\* What every step gives.
StepGood ==
    /\ IInv'
    /\ now' \in {now, now + 1}
    /\ \A k \in Keys : LifeStep(k)

\* What is left to show of a step, once its effect on each part is known.
LEMMA Assemble ==
    ASSUME IInv,
           PodsTypeOK', StatusTrue', now' \in {now, now + 1},
           \A v \in Pods, id \in Ids : Evidence(v, id) => Evidence(v, id)',
           StoreType', SweepType', SweepInPast', ScheduledOnce',
           \A k \in Keys : LifeStep(k),
           \A k \in Keys : IsFinished(k)' => IsFinished(k) \/ Evidence(k[1], k[2])'
    PROVE  StepGood
<1>1. TypeOK'
  BY DEF TypeOK, StoreType, SweepType
<1>0. \A k \in Keys : k[1] \in Pods /\ k[2] \in Ids /\ k = <<k[1], k[2]>>
  BY DEF Keys
<1>2. \A k \in Keys : IsFinished(k) => Evidence(k[1], k[2])
  BY <1>0 DEF IInv, FinishedOnEvidence, Evidence
<1>3. FinishedOnEvidence'
  <2> SUFFICES ASSUME NEW k \in Keys, IsFinished(k)' PROVE Evidence(k[1], k[2])' /\ k = <<k[1], k[2]>>
    BY DEF FinishedOnEvidence, Evidence
  <2> QED
    BY <1>0, <1>2
<1> QED
  BY <1>1, <1>3 DEF StepGood, IInv

LEMMA Parts ==
    ASSUME IInv
    PROVE  /\ PodsTypeOK /\ StatusTrue /\ StoreType /\ SweepType /\ SweepInPast /\ ScheduledOnce
           /\ now \in Nat /\ sweep.now \in Nat /\ TTL \in Nat
           /\ \A k \in Keys : IsFinished(k) =>
                 gpuContainers[k] \in Containers /\ gpuContainers[k].finishedAt \in Nat
<1>1. /\ PodsTypeOK /\ StatusTrue /\ StoreType /\ SweepType /\ SweepInPast /\ ScheduledOnce
  BY DEF IInv, TypeOK, StoreType, SweepType
<1>2. now \in Nat /\ sweep.now \in Nat /\ TTL \in Nat
  BY <1>1, TimesNat, PodsAssumption DEF PodsTypeOK, SweepType
<1>3. \A k \in Keys : IsFinished(k) =>
         gpuContainers[k] \in Containers /\ gpuContainers[k].finishedAt \in Nat
  BY <1>1 DEF StoreType, IsFinished, Stored, Containers
<1> QED
  BY <1>1, <1>2, <1>3

\* A step that changes neither the store nor the sweeper: the pods' and the stutter.
LEMMA StoreUntouched ==
    ASSUME IInv, UNCHANGED storeVars,
           PodsTypeOK', StatusTrue', now' \in {now, now + 1},
           \A v \in Pods, id \in Ids : Evidence(v, id) => Evidence(v, id)'
    PROVE  StepGood
<1>0. gpuContainers' = gpuContainers /\ queue' = queue /\ sweep' = sweep
  BY DEF storeVars
<1>1. StoreType' /\ SweepType' /\ ScheduledOnce'
  BY <1>0, Parts DEF StoreType, SweepType, ScheduledOnce, IsFinished, Stored
<1>2. SweepInPast'
  BY <1>0, Parts DEF SweepInPast
<1>3. \A k \in Keys : LifeStep(k) /\ (IsFinished(k)' => IsFinished(k))
  BY <1>0 DEF LifeStep, IsFinished, Stored
<1> QED
  BY <1>1, <1>2, <1>3, Assemble

LEMMA EnvironmentGood ==
    ASSUME IInv, EnvironmentStep
    PROVE  StepGood
<1>1. CASE Tick
  BY <1>1, Parts, TickKeeps, StoreUntouched DEF EnvironmentStep
<1>2. ASSUME NEW u \in Pods, PodStep(u) PROVE StepGood
  BY <1>2, Parts, PodStepKeeps, StoreUntouched DEF EnvironmentStep
<1>3. ASSUME NEW u \in Pods, Supplants(u) PROVE StepGood
  BY <1>3, Parts, SupplantsKeeps, StoreUntouched DEF EnvironmentStep
<1> QED
  BY <1>1, <1>2, <1>3 DEF EnvironmentStep

LEMMA StutterGood ==
    ASSUME IInv, UNCHANGED vars
    PROVE  StepGood
<1>1. UNCHANGED storeVars /\ UNCHANGED <<now, pod, copy, dead>>
  BY DEF vars, podVars
<1>2. PodsTypeOK' /\ StatusTrue' /\ now' = now
  BY <1>1, Parts DEF PodsTypeOK, StatusTrue
<1>3. \A v \in Pods, id \in Ids : Evidence(v, id) => Evidence(v, id)'
  BY <1>1 DEF Evidence
<1> QED
  BY <1>1, <1>2, <1>3, StoreUntouched

LEMMA ReconcileGood ==
    ASSUME IInv, NEW u \in Pods, ReconcilePod(u)
    PROVE  StepGood
<1>1. /\ PodsTypeOK' /\ StatusTrue' /\ now' = now
      /\ \A v \in Pods, id \in Ids : Evidence(v, id) => Evidence(v, id)'
  BY Parts, DeliveryKeeps DEF ReconcilePod, Delivers
<1>2. pod[u] \in Objects /\ pod' = pod /\ dead' = dead
  BY Parts DEF PodsTypeOK, ReconcilePod, Delivers
<1>3. ASSUME NEW k \in Keys
      PROVE  LET c == gpuContainers[k]  r == gpuContainers'[k] IN
             /\ r \in Containers \cup {NoContainer}
             /\ c # NoContainer => r # NoContainer
             /\ c # NoContainer /\ c.finishedAt # 0 => r.finishedAt = c.finishedAt
             /\ r # NoContainer /\ r.finishedAt # 0 =>
                   \/ c # NoContainer /\ c.finishedAt # 0
                   \/ Evidence(k[1], k[2])
  <2>0. gpuContainers[k] \in Containers \cup {NoContainer}
    BY Parts DEF StoreType
  <2>1. CASE k[1] = u
    <3>1. gpuContainers'[k] = Reconciled(gpuContainers[k], pod[u], k[2])
      BY <2>1 DEF ReconcilePod
    <3>2. k[2] \in Ids
      BY DEF Keys
    <3>3. \/ \E s \in Slots : ObservedFinishedAt(pod[u], s, k[2]) # 0
          \/ pod[u].del # 0 \/ pod[u].ended
          => Evidence(k[1], k[2])
      BY <2>1, <3>2, Parts, ObservedIsEvidence DEF Evidence
    <3> QED
      BY <1>2, <2>0, <3>1, <3>2, <3>3, Parts, ReconciledContainer
  <2>2. CASE k[1] # u
    <3> gpuContainers'[k] = gpuContainers[k]
      BY <2>2 DEF ReconcilePod
    <3> QED
      BY <2>0
  <2> QED
    BY <2>1, <2>2
<1>4. gpuContainers' \in [Keys -> Containers \cup {NoContainer}]
  BY <1>3 DEF ReconcilePod
<1>5. StoreType' /\ ScheduledOnce'
  BY <1>3, <1>4, Parts, Staged DEF ReconcilePod, IsFinished, Stored
<1>6. \A k \in Keys : /\ LifeStep(k)
                      /\ IsFinished(k)' => IsFinished(k) \/ Evidence(k[1], k[2])'
  <2> SUFFICES ASSUME NEW k \in Keys
               PROVE  LifeStep(k) /\ (IsFinished(k)' => IsFinished(k) \/ Evidence(k[1], k[2])')
    OBVIOUS
  <2> k[1] \in Pods /\ k[2] \in Ids
    BY DEF Keys
  <2> QED
    BY <1>1, <1>3 DEF LifeStep, IsFinished, Stored
<1>7. SweepType' /\ SweepInPast'
  BY <1>1, Parts DEF ReconcilePod, SweepType, SweepInPast
<1> QED
  BY <1>1, <1>5, <1>6, <1>7, Assemble

LEMMA FinishDeletedGood ==
    ASSUME IInv, NEW u \in Pods, FinishDeletedPod(u)
    PROVE  StepGood
<1> PICK p \in {pod[u], copy[u]} :
      /\ DeliversDeletion(u, p)
      /\ gpuContainers' = [k \in Keys |->
            IF k[1] = u /\ Stored(k) /\ ~IsFinished(k)
            THEN DeletedContainer(gpuContainers[k], p, k[2])
            ELSE gpuContainers[k]]
      /\ StageForCleanup
      /\ UNCHANGED sweep
  BY DEF FinishDeletedPod
<1>1. /\ PodsTypeOK' /\ StatusTrue' /\ now' = now
      /\ \A v \in Pods, id \in Ids : Evidence(v, id) => Evidence(v, id)'
  BY Parts, DeliveryKeeps DEF DeliversDeletion
<1>2. p \in Objects /\ pod' = pod /\ pod[u].exists = "gone"
  BY Parts DEF PodsTypeOK, DeliversDeletion
<1>3. ASSUME NEW k \in Keys
      PROVE  LET c == gpuContainers[k]  r == gpuContainers'[k] IN
             /\ r \in Containers \cup {NoContainer}
             /\ c # NoContainer => r # NoContainer
             /\ c = NoContainer => r = NoContainer
             /\ c # NoContainer /\ c.finishedAt # 0 => r.finishedAt = c.finishedAt
             /\ k[1] # u => r = c
  <2>0. gpuContainers[k] \in Containers \cup {NoContainer} /\ k[2] \in Ids
    BY Parts DEF StoreType, Keys
  <2>1. CASE k[1] = u /\ Stored(k) /\ ~IsFinished(k)
    <3>1. gpuContainers'[k] = DeletedContainer(gpuContainers[k], p, k[2])
      BY <2>1
    <3>2. gpuContainers[k] \in Containers /\ ~(gpuContainers[k].finishedAt # 0)
      BY <2>0, <2>1 DEF Stored, IsFinished
    <3> QED
      BY <1>2, <2>0, <2>1, <3>1, <3>2, Parts, DeletedContainerType, ContainerAssumption
  <2>2. CASE ~(k[1] = u /\ Stored(k) /\ ~IsFinished(k))
    <3> gpuContainers'[k] = gpuContainers[k]
      BY <2>2
    <3> QED
      BY <2>0
  <2> QED
    BY <2>1, <2>2
<1>4. gpuContainers' \in [Keys -> Containers \cup {NoContainer}]
  BY <1>3
<1>5. StoreType' /\ ScheduledOnce'
  BY <1>3, <1>4, Parts, Staged DEF IsFinished, Stored
<1>6. \A k \in Keys : /\ LifeStep(k)
                      /\ IsFinished(k)' => IsFinished(k) \/ Evidence(k[1], k[2])'
  <2> SUFFICES ASSUME NEW k \in Keys
               PROVE  LifeStep(k) /\ (IsFinished(k)' => IsFinished(k) \/ Evidence(k[1], k[2])')
    OBVIOUS
  <2> k[1] = u => Evidence(k[1], k[2])'
    BY <1>2 DEF Evidence
  <2> QED
    BY <1>3 DEF LifeStep, IsFinished, Stored
<1>7. SweepType' /\ SweepInPast'
  BY <1>1, Parts DEF SweepType, SweepInPast
<1> QED
  BY <1>1, <1>5, <1>6, <1>7, Assemble

\* The pods as a step of the collector or of the sweeper leaves them.
LEMMA PodsUntouched ==
    ASSUME PodsTypeOK, StatusTrue, UNCHANGED podVars
    PROVE  /\ PodsTypeOK' /\ StatusTrue' /\ now' = now
           /\ \A v \in Pods, id \in Ids : Evidence(v, id) => Evidence(v, id)'
BY DEF podVars, PodsTypeOK, StatusTrue, Evidence

LEMMA GetMetricLabelsGood ==
    ASSUME IInv, NEW k \in Keys, NEW d \in Devices, GetMetricLabels(k, d)
    PROVE  StepGood
<1>1. /\ PodsTypeOK' /\ StatusTrue' /\ now' = now
      /\ \A v \in Pods, id \in Ids : Evidence(v, id) => Evidence(v, id)'
  BY Parts, PodsUntouched DEF GetMetricLabels
<1>2. queue' = queue /\ sweep' = sweep
  BY DEF GetMetricLabels
<1> DEFINE c == gpuContainers[k]
           seen == IF c.devices[d] \in {NotSeen, Unset} THEN LabelsOf(c) ELSE c.devices[d]
           r == [c EXCEPT !.devices[d] = seen]
<1>3. c \in Containers /\ c # NoContainer
  BY Parts DEF StoreType, GetMetricLabels, Stored
<1>4. gpuContainers' = [gpuContainers EXCEPT ![k] = r]
  BY DEF GetMetricLabels
<1>5. r \in Containers /\ r.finishedAt = c.finishedAt /\ r # NoContainer
  <2> LabelsOf(c) \in Labels
    BY <1>3, LabelsType
  <2> seen \in Labels \cup {NotSeen, Unset}
    BY <1>3 DEF Containers
  <2> HIDE DEF seen
  <2> QED
    BY <1>3, ContainerAssumption DEF Containers
<1> HIDE DEF c, r
<1>6. StoreType'
  BY <1>2, <1>4, <1>5, Parts DEF StoreType
<1>7. \A x \in Keys : /\ gpuContainers'[x] # NoContainer <=> gpuContainers[x] # NoContainer
                      /\ gpuContainers'[x].finishedAt = gpuContainers[x].finishedAt
  BY <1>3, <1>4, <1>5, Parts DEF StoreType, c
<1>8. ScheduledOnce'
  BY <1>2, <1>7, Parts DEF ScheduledOnce, IsFinished, Stored
<1>9. \A x \in Keys : LifeStep(x) /\ (IsFinished(x)' => IsFinished(x))
  BY <1>7 DEF LifeStep, IsFinished, Stored
<1>10. SweepType' /\ SweepInPast'
  BY <1>1, <1>2, Parts DEF SweepType, SweepInPast
<1> QED
  BY <1>1, <1>6, <1>8, <1>9, <1>10, Assemble

\* What purge notes of the containers it forgets.
LEMMA ExpiredType ==
    ASSUME StoreType, NEW expired \in SUBSET {k \in Keys : Stored(k)}
    PROVE  /\ {[key |-> k, labels |-> LabelsOf(gpuContainers[k])] : k \in expired}
                 \subseteq ContainerSeries
           /\ {[key |-> x[1], device |-> x[2], labels |-> Labelled(gpuContainers[x[1]])[x[2]]] :
                  x \in {y \in expired \X Devices :
                            gpuContainers[y[1]].devices[y[2]] # NotSeen}}
                 \subseteq DeviceSeries
<1>1. \A k \in expired : k \in Keys /\ gpuContainers[k] \in Containers
  BY DEF StoreType, Stored
<1>2. ASSUME NEW k \in expired PROVE LabelsOf(gpuContainers[k]) \in Labels
  BY <1>1, LabelsType
<1>3. ASSUME NEW k \in expired, NEW d \in Devices, gpuContainers[k].devices[d] # NotSeen
      PROVE  Labelled(gpuContainers[k])[d] \in Labels
  BY <1>1, <1>3, LabelsType
<1> QED
  BY <1>1, <1>2, <1>3 DEF ContainerSeries, DeviceSeries

LEMMA PurgeGood ==
    ASSUME IInv, PurgeExpired
    PROVE  StepGood
<1>1. /\ PodsTypeOK' /\ StatusTrue' /\ now' = now
      /\ \A v \in Pods, id \in Ids : Evidence(v, id) => Evidence(v, id)'
  BY Parts, PodsUntouched DEF PurgeExpired
<1> DEFINE due == Due(sweep.now)
           expired == {k \in due : Stored(k)}
<1>2. /\ queue' = [k \in Keys |-> IF k \in due THEN 0 ELSE queue[k]]
      /\ gpuContainers' = [k \in Keys |-> IF k \in expired THEN NoContainer ELSE gpuContainers[k]]
  BY DEF PurgeExpired
<1>3. SweepType' /\ SweepInPast'
  <2> expired \in SUBSET {k \in Keys : Stored(k)}
    BY DEF Due
  <2>1. sweep'.step = "unmap" /\ sweep'.now = 0 /\ 0 \in Times
    BY TimesNat DEF PurgeExpired, Times
  <2>2. SweepType'
    BY <2>1, Parts, ExpiredType DEF PurgeExpired, SweepType
  <2> QED
    BY <1>1, <2>1, <2>2, Parts DEF SweepInPast
<1>4. \A k \in due : /\ k \in Keys /\ IsFinished(k)
                     /\ gpuContainers[k].finishedAt + TTL <= now
  <2> SUFFICES ASSUME NEW k \in due
               PROVE  /\ k \in Keys /\ IsFinished(k)
                      /\ gpuContainers[k].finishedAt + TTL <= now
    OBVIOUS
  <2>1. k \in Keys /\ queue[k] # 0 /\ queue[k] <= sweep.now
    BY DEF Due
  <2>2. IsFinished(k) /\ queue[k] = gpuContainers[k].finishedAt + TTL
    BY <2>1, Parts DEF ScheduledOnce
  <2> QED
    BY <2>1, <2>2, Parts DEF SweepInPast
<1>5. expired = due
  BY <1>4 DEF IsFinished
<1> HIDE DEF due, expired
<1>6. StoreType'
  BY <1>2, Parts DEF StoreType
<1>7. ASSUME NEW k \in Keys
      PROVE  /\ k \in due => ~Stored(k)' /\ ~IsFinished(k)'
             /\ k \notin due => gpuContainers'[k] = gpuContainers[k] /\ queue'[k] = queue[k]
  BY <1>2, <1>5 DEF Stored, IsFinished
<1>8. ScheduledOnce'
  BY <1>2, <1>7, Parts DEF ScheduledOnce, IsFinished, Stored
<1>9. \A k \in Keys : LifeStep(k) /\ (IsFinished(k)' => IsFinished(k))
  BY <1>4, <1>7 DEF LifeStep, IsFinished, Stored
<1> QED
  BY <1>1, <1>3, <1>6, <1>8, <1>9, Assemble

LEMMA SweeperGood ==
    ASSUME IInv, SweeperStep
    PROVE  StepGood
<1>1. ASSUME UNCHANGED <<podVars, gpuContainers, queue>>, SweepType', SweepInPast'
      PROVE  StepGood
  <2>1. /\ PodsTypeOK' /\ StatusTrue' /\ now' = now
        /\ \A v \in Pods, id \in Ids : Evidence(v, id) => Evidence(v, id)'
    BY <1>1, Parts, PodsUntouched
  <2>2. StoreType' /\ ScheduledOnce'
    BY <1>1, Parts DEF StoreType, ScheduledOnce, IsFinished, Stored
  <2>3. \A k \in Keys : LifeStep(k) /\ (IsFinished(k)' => IsFinished(k))
    BY <1>1 DEF LifeStep, IsFinished, Stored
  <2> QED
    BY <1>1, <2>1, <2>2, <2>3, Assemble
<1>2. CASE SweepStarts
  <2>1. now \in Times /\ now \in Nat /\ now' = now
    BY <1>2, Parts DEF PodsTypeOK, SweepStarts, podVars
  <2>2. sweep' = [sweep EXCEPT !.step = "purge", !.now = now]
    BY <1>2 DEF SweepStarts
  <2>3. SweepType' /\ sweep'.now = now
    BY <2>1, <2>2, Parts DEF SweepType
  <2> SweepInPast'
    BY <2>1, <2>3 DEF SweepInPast
  <2> QED
    BY <1>1, <1>2, <2>3 DEF SweepStarts
<1>3. CASE UnmapExpired
  <2> SweepType' /\ SweepInPast'
    BY <1>3, Parts DEF UnmapExpired, SweepType, SweepInPast, podVars
  <2> QED
    BY <1>1, <1>3 DEF UnmapExpired
<1>4. CASE SweepEnds
  <2> 0 \in Times
    BY TimesNat DEF Times
  <2> SweepType' /\ SweepInPast'
    BY <1>4, Parts DEF SweepEnds, NoSweep, SweepType, SweepInPast, podVars
  <2> QED
    BY <1>1, <1>4 DEF SweepEnds
<1> QED
  BY <1>2, <1>3, <1>4, PurgeGood DEF SweeperStep

-----------------------------------------------------------------------------
(* The theorems.                                                            *)

LEMMA InitGood == Init => IInv
<1> SUFFICES ASSUME Init PROVE IInv
  OBVIOUS
<1>0. 0 \in Times /\ now = 1 /\ now \in Times
  <2> 1 <= MaxTime
    BY PodsAssumption DEF MaxTime
  <2> QED
    BY TimesNat DEF Times, Init, PodsInit
<1>1. ASSUME NEW n \in Names PROVE Unborn(n) \in Objects
  <2> NoStatus \in Statuses /\ 0 \in 0 .. MaxIds /\ 0 \in 0 .. MaxEdits
    BY <1>0, PodsAssumption DEF NoStatus, Statuses
  <2> QED
    BY <1>0 DEF Unborn, Objects
<1>2. PICK n \in Names : pod = [u \in Pods |-> Unborn(n)]
  BY DEF Init, PodsInit
<1>3. PodsTypeOK
  BY <1>0, <1>1, <1>2 DEF Init, PodsInit, PodsTypeOK
<1>4. StatusTrue
  BY <1>2 DEF StatusTrue, Unborn, NoStatus
<1>5. TypeOK
  BY <1>0, <1>3 DEF TypeOK, Init, NoSweep
<1>6. SweepInPast /\ ScheduledOnce /\ FinishedOnEvidence
  BY <1>0 DEF Init, NoSweep, SweepInPast, ScheduledOnce, FinishedOnEvidence, IsFinished, Stored
<1> QED
  BY <1>4, <1>5, <1>6 DEF IInv

LEMMA StepIsGood == IInv /\ [Next]_vars => StepGood
<1> SUFFICES ASSUME IInv, [Next]_vars PROVE StepGood
  OBVIOUS
<1>1. CASE EnvironmentStep
  BY <1>1, EnvironmentGood
<1>2. ASSUME NEW u \in Pods, ReconcilePod(u) PROVE StepGood
  BY <1>2, ReconcileGood
<1>3. ASSUME NEW u \in Pods, FinishDeletedPod(u) PROVE StepGood
  BY <1>3, FinishDeletedGood
<1>4. ASSUME NEW k \in Keys, NEW d \in Devices, GetMetricLabels(k, d) PROVE StepGood
  BY <1>4, GetMetricLabelsGood
<1>5. CASE SweeperStep
  BY <1>5, SweeperGood
<1>6. CASE UNCHANGED vars
  BY <1>6, StutterGood
<1> QED
  BY <1>1, <1>2, <1>3, <1>4, <1>5, <1>6 DEF Next

\* Whatever pods, informer, collector and sweeper do, IInv holds: besides what the other
\* theorems state, the terminations that a pod's object reports are real (StatusTrue) and
\* purge works with a time that has been (SweepInPast).
THEOREM StoreInvariant == Spec => []IInv
<1>1. IInv /\ [Next]_vars => IInv'
  BY StepIsGood DEF StepGood
<1> QED
  BY InitGood, <1>1, PTL DEF Spec

\* The store, the cleanup queue and the sweeper stay well typed.
THEOREM StoreTypeCorrect == Spec => []TypeOK
<1>1. IInv => TypeOK
  BY DEF IInv
<1> QED
  BY StoreInvariant, <1>1, PTL

\* store.go's gpuContainers and heap.go's queue agree, whatever the order of callbacks and
\* sweeps: every finished container that is stored has one entry in the cleanup queue, TTL
\* after it finished, and nothing else has one.
THEOREM AlwaysScheduledOnce == Spec => []ScheduledOnce
<1>1. IInv => ScheduledOnce
  BY DEF IInv
<1> QED
  BY StoreInvariant, <1>1, PTL

\* reconcilePod and finishDeletedPod finish a container on evidence only, however late,
\* repeated or outdated the objects are that the informer delivers.
THEOREM AlwaysFinishedOnEvidence == Spec => []FinishedOnEvidence
<1>1. IInv => FinishedOnEvidence
  BY DEF IInv
<1> QED
  BY StoreInvariant, <1>1, PTL

-----------------------------------------------------------------------------
(* The names among the labels cached per device.                            *)

\* Every label set that a record has cached for a device has the record's name.
NamesCurrent(c) ==
    \A d \in Devices : c.devices[d] \in {NotSeen, Unset} \/ c.devices[d].name = c.name

LEMMA FinishedNames ==
    ASSUME NEW c \in Containers, NamesCurrent(c), NEW at \in Nat
    PROVE  NamesCurrent(FinishedContainer(c, at))
<1>1. \A d \in Devices : Labelled(c)[d] = NotSeen \/ Labelled(c)[d].name = c.name
  BY DEF Labelled, LabelsOf, NamesCurrent
<1> DEFINE r == [c EXCEPT !.finishedAt = at, !.devices = Labelled(c)]
<1>2. r.name = c.name /\ r.devices = Labelled(c)
  BY DEF Containers
<1> HIDE DEF r
<1>3. NamesCurrent(r)
  BY <1>1, <1>2 DEF NamesCurrent
<1> QED
  BY <1>3 DEF FinishedContainer, r

LEMMA UpdatedNames ==
    ASSUME NEW c \in Containers, NamesCurrent(c), NEW p \in Objects, NEW s \in Slots
    PROVE  NamesCurrent(Updated(c, p, s))
<1> DEFINE u == Updated(c, p, s)
           reset == [d \in Devices |-> IF c.devices[d] = NotSeen THEN NotSeen ELSE Unset]
<1>1. u.name = p.name /\ u.devices = IF c.name # p.name THEN reset ELSE c.devices
  BY DEF Updated, Containers
<1> HIDE DEF u
<1>2. \A d \in Devices : reset[d] \in {NotSeen, Unset}
  OBVIOUS
<1> HIDE DEF reset
<1>3. NamesCurrent(u)
  BY <1>1, <1>2 DEF NamesCurrent
<1> QED
  BY <1>3 DEF u

\* A record that reconcilePod makes, updates or finishes caches its own name only.
LEMMA ReconciledNames ==
    ASSUME PodsTypeOK, NEW c \in Containers \cup {NoContainer}, NEW p \in Objects, NEW id \in Ids,
           c # NoContainer => NamesCurrent(c), Reconciled(c, p, id) # NoContainer
    PROVE  NamesCurrent(Reconciled(c, p, id))
<1> DEFINE slots == DesiredSlots(p, id)
           slot == CHOOSE s \in slots : TRUE
           r == Reconciled(c, p, id)
<1>0. slots # {} => slot \in Slots
  BY DEF DesiredSlots
<1>1. CASE slots # {} /\ c = NoContainer
  <2> r = NewContainer(p, slot, id)
    BY <1>1 DEF Reconciled
  <2> QED
    BY DEF NewContainer, NamesCurrent
<1>2. CASE slots # {} /\ c # NoContainer
  <2> DEFINE update == Updated(c, p, slot)
             at == ObservedFinishedAt(p, slot, id)
  <2>1. r = IF c.finishedAt # 0 THEN update ELSE FinishedContainer(update, at)
    BY <1>2 DEF Reconciled
  <2>2. update \in Containers /\ NamesCurrent(update) /\ at \in Nat
    BY <1>0, <1>2, UpdatedType, UpdatedNames, ObservedType
  <2> HIDE DEF update, at
  <2> QED
    BY <2>1, <2>2, FinishedNames
<1>3. CASE slots = {} /\ c # NoContainer
  <2> DEFINE at == FinishedAtFor(p, c.slot, id)
  <2>1. r = IF c.finishedAt # 0 THEN c ELSE FinishedContainer(c, at)
    BY <1>3 DEF Reconciled
  <2>2. c \in Containers /\ c.slot \in Slots
    BY <1>3 DEF Containers
  <2>3. at \in Nat
    BY <2>2, FinishedAtType
  <2> HIDE DEF at
  <2> QED
    BY <1>3, <2>1, <2>2, <2>3, FinishedNames
<1>4. CASE slots = {} /\ c = NoContainer
  BY <1>4 DEF Reconciled
<1> QED
  BY <1>1, <1>2, <1>3, <1>4

\* A step of Store, or of anything that leaves the records alone.
LEMMA NamesStep ==
    ASSUME IInv, DeviceNamesCurrent, [Next]_vars \/ UNCHANGED gpuContainers
    PROVE  DeviceNamesCurrent'
<1> USE DEF Stored
<1>0. /\ gpuContainers \in [Keys -> Containers \cup {NoContainer}] /\ PodsTypeOK
      /\ \A k \in Keys : gpuContainers[k] # NoContainer => NamesCurrent(gpuContainers[k])
  BY Parts DEF StoreType, DeviceNamesCurrent, NamesCurrent
<1> SUFFICES ASSUME NEW k \in Keys, gpuContainers'[k] # NoContainer
             PROVE  NamesCurrent(gpuContainers'[k])
  BY DEF DeviceNamesCurrent, NamesCurrent
<1>1. ASSUME gpuContainers'[k] = gpuContainers[k]
      PROVE  NamesCurrent(gpuContainers'[k])
  BY <1>0, <1>1
<1>2. ASSUME NEW u \in Pods, ReconcilePod(u)
      PROVE  NamesCurrent(gpuContainers'[k])
  <2>1. CASE k[1] = u
    <3>1. gpuContainers'[k] = Reconciled(gpuContainers[k], pod[u], k[2])
      BY <1>2, <2>1 DEF ReconcilePod
    <3>2. k[2] \in Ids /\ pod[u] \in Objects
      BY <1>0 DEF Keys, PodsTypeOK
    <3> QED
      BY <1>0, <3>1, <3>2, ReconciledNames
  <2>2. CASE k[1] # u
    BY <1>1, <1>2, <2>2 DEF ReconcilePod
  <2> QED
    BY <2>1, <2>2
<1>3. ASSUME NEW u \in Pods, FinishDeletedPod(u)
      PROVE  NamesCurrent(gpuContainers'[k])
  <2>1. PICK p \in {pod[u], copy[u]} :
          gpuContainers' = [y \in Keys |->
            IF y[1] = u /\ Stored(y) /\ ~IsFinished(y)
            THEN DeletedContainer(gpuContainers[y], p, y[2])
            ELSE gpuContainers[y]]
    BY <1>3 DEF FinishDeletedPod
  <2>2. CASE k[1] = u /\ Stored(k) /\ ~IsFinished(k)
    <3> DEFINE c == gpuContainers[k]
               at == FinishedAtFor(p, c.slot, k[2])
    <3>1. gpuContainers'[k] = FinishedContainer(c, IF at = 0 THEN now ELSE at)
      BY <2>1, <2>2 DEF DeletedContainer
    <3>2. c \in Containers /\ c.slot \in Slots /\ k[2] \in Ids /\ p \in Objects /\ now \in Nat
      BY <1>0, <2>2, Parts DEF Containers, Keys, PodsTypeOK
    <3>3. at \in Nat /\ NamesCurrent(c)
      BY <1>0, <2>2, <3>2, FinishedAtType
    <3> HIDE DEF c, at
    <3> QED
      BY <3>1, <3>2, <3>3, FinishedNames
  <2>3. CASE ~ (k[1] = u /\ Stored(k) /\ ~IsFinished(k))
    BY <1>1, <2>1, <2>3
  <2> QED
    BY <2>2, <2>3
<1>4. ASSUME NEW x \in Keys, NEW d \in Devices, GetMetricLabels(x, d)
      PROVE  NamesCurrent(gpuContainers'[k])
  <2>1. CASE k = x
    <3> DEFINE c == gpuContainers[k]
               seen == IF c.devices[d] \in {NotSeen, Unset} THEN LabelsOf(c) ELSE c.devices[d]
               r == [c EXCEPT !.devices[d] = seen]
    <3>1. gpuContainers'[k] = r /\ c \in Containers /\ NamesCurrent(c)
      BY <1>0, <1>4, <2>1 DEF GetMetricLabels
    <3>2. seen \in {NotSeen, Unset} \/ seen.name = c.name
      BY <3>1 DEF LabelsOf, NamesCurrent
    <3> HIDE DEF seen
    <3>3. r.name = c.name /\ r.devices = [c.devices EXCEPT ![d] = seen]
      BY <3>1 DEF Containers
    <3>4. \A e \in Devices : r.devices[e] = IF e = d THEN seen ELSE c.devices[e]
      BY <3>1, <3>3 DEF Containers
    <3> HIDE DEF c, r
    <3> QED
      BY <3>1, <3>2, <3>3, <3>4 DEF NamesCurrent
  <2>2. CASE k # x
    BY <1>0, <1>1, <1>4, <2>2 DEF GetMetricLabels
  <2> QED
    BY <2>1, <2>2
<1>5. CASE PurgeExpired
  BY <1>1, <1>5 DEF PurgeExpired
<1>6. CASE UNCHANGED gpuContainers
  BY <1>1, <1>6
<1>7. CASE EnvironmentStep \/ SweepStarts \/ UnmapExpired \/ SweepEnds \/ UNCHANGED vars
  BY <1>6, <1>7 DEF EnvironmentStep, SweepStarts, UnmapExpired, SweepEnds, vars, storeVars
<1> QED
  BY <1>2, <1>3, <1>4, <1>5, <1>6, <1>7 DEF Next, SweeperStep

\* updateGpuContainer resets the per-device label cache whenever a name in it is out of
\* date: of the cached labels only the allocation type may be (store.go:520).
THEOREM NamesAlwaysCurrent == Spec => []DeviceNamesCurrent
<1>1. Init => DeviceNamesCurrent
  BY DEF Init, DeviceNamesCurrent, Stored
<1>2. IInv /\ DeviceNamesCurrent /\ [Next]_vars => DeviceNamesCurrent'
  BY NamesStep
<1> QED
  BY <1>1, <1>2, StoreInvariant, PTL DEF Spec

-----------------------------------------------------------------------------
(* The refinement.                                                          *)

\* What ContainerLifecycle sees of a container.
LifeOf(k) ==
    IF ~Stored(k) THEN [status |-> "absent", at |-> 0]
    ELSE IF gpuContainers[k].finishedAt = 0 THEN [status |-> "running", at |-> 0]
    ELSE [status |-> "finished", at |-> gpuContainers[k].finishedAt]

LEMMA LifecycleInitial == Init => Lifecycle!LifecycleInit
BY DEF Init, PodsInit, Stored, Lifecycle!LifecycleInit, Lifecycle!Absent

LEMMA LifecycleStep == StepGood => Lifecycle!LifecycleNext
<1> SUFFICES ASSUME StepGood PROVE Lifecycle!LifecycleNext
  OBVIOUS
<1>1. ASSUME NEW k \in Keys, LifeStep(k)
      PROVE  Lifecycle!MayBecome(LifeOf(k), LifeOf(k)', now)
  <2>1. CASE ~Stored(k)
    BY <2>1 DEF LifeOf, Lifecycle!MayBecome, Lifecycle!Absent, Lifecycle!Running
  <2>2. CASE Stored(k) /\ gpuContainers[k].finishedAt = 0
    <3> Stored(k)'
      BY <1>1, <2>2 DEF LifeStep, IsFinished
    <3> QED
      BY <2>2 DEF LifeOf, Lifecycle!MayBecome, Lifecycle!Absent, Lifecycle!Running
  <2>3. CASE Stored(k) /\ gpuContainers[k].finishedAt # 0
    BY <1>1, <2>3 DEF LifeOf, LifeStep, IsFinished, Lifecycle!MayBecome, Lifecycle!Absent
  <2> QED
    BY <2>1, <2>2, <2>3
<1>2. \A k \in Keys : Lifecycle!MayBecome(LifeOf(k), LifeOf(k)', now)
  BY <1>1 DEF StepGood
<1> QED
  BY <1>2 DEF StepGood, LifeOf, Lifecycle!LifecycleNext

\* The store implements ContainerLifecycle: a container finishes once, at a time that stays,
\* is kept until TTL after it, and is not forgotten while it runs.
THEOREM StoreImplementsLifecycle == Spec => ImplementsLifecycle
<1>1. IInv /\ [Next]_vars => [Lifecycle!LifecycleNext]_<<now, [k \in Keys |-> LifeOf(k)]>>
  BY StepIsGood, LifecycleStep
<1> USE DEF LifeOf
<1> QED
  BY <1>1, LifecycleInitial, StoreInvariant, PTL
  DEF Spec, ImplementsLifecycle, Lifecycle!LifecycleSpec
=============================================================================
