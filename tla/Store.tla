-------------------------------- MODULE Store --------------------------------
(***************************************************************************)
(* pkg/kube/store.go and pkg/kube/heap.go, with the container record of     *)
(* pkg/model/container.go: the containers the exporter tracks, the informer *)
(* callbacks that track and finish them, the cleanup queue and the sweeper. *)
(* Every section under gpuContainersMu is one step.                         *)
(*                                                                          *)
(* The cleanup heap and its index `queued' always hold the same items, and  *)
(* an item leaves them in the same section as its container leaves the      *)
(* store, so both are one function: queue[k] is the item's expiresAt, 0     *)
(* when k is not queued.                                                    *)
(***************************************************************************)
EXTENDS Pods

CONSTANTS
    Devices,      \* GPU UUIDs
    NoContainer,  \* the store has no such container
    NotSeen,      \* the device is not in the container's DeviceLabels
    Unset         \* it is, and its labels were reset

Keys == Pods \X Ids
Allocs == {"K8sResource", "KaiScheduler"}

\* The labels of a container that may change; those of its key never do.
Labels == [name : Names, alloc : Allocs]

ASSUME StoreAssumption ==
    /\ NotSeen \notin Labels /\ Unset \notin Labels /\ NotSeen # Unset

Containers ==
    [slot       : Slots,
     name       : Names,
     alloc      : Allocs,
     finishedAt : Nat,
     devices    : [Devices -> Labels \cup {NotSeen, Unset}]]

ASSUME ContainerAssumption == NoContainer \notin Containers

VARIABLES
    gpuContainers,  \* gpuContainers[<<u, id>>]
    queue,          \* the cleanup heap
    sweep           \* the sweeper: its step, purge's `now', and what has expired

storeVars == <<gpuContainers, queue, sweep>>
vars == <<podVars, storeVars>>

ContainerSeries == [key : Keys, labels : Labels]
DeviceSeries == [key : Keys, device : Devices, labels : Labels]

NoSweep == [step |-> "idle", now |-> 0, containers |-> {}, devices |-> {}]

TypeOK ==
    /\ PodsTypeOK
    /\ gpuContainers \in [Keys -> Containers \cup {NoContainer}]
    /\ queue \in [Keys -> Nat]
    /\ sweep \in [step       : {"idle", "purge", "unmap", "delete"},
                  now        : Times,
                  containers : SUBSET ContainerSeries,
                  devices    : SUBSET DeviceSeries]

Init ==
    /\ PodsInit
    /\ gpuContainers = [k \in Keys |-> NoContainer]
    /\ queue = [k \in Keys |-> 0]
    /\ sweep = NoSweep

Stored(k) == gpuContainers[k] # NoContainer
IsFinished(k) == Stored(k) /\ gpuContainers[k].finishedAt # 0

LabelsOf(c) == [name |-> c.name, alloc |-> c.alloc]

-----------------------------------------------------------------------------
(* Reading a pod object.                                                    *)

\* desiredGpuContainersForPod: the slots whose container id asks for a GPU.
DesiredSlots(p, id) ==
    {s \in Slots : p.status[s].cur = id /\ (s \in p.resource \/ s = p.kai)}

\* Mutant: the allocation type is set by addKaiContainers alone.
AllocOfAnnotated(p, s) == IF s = p.kai THEN "KaiScheduler" ELSE ""

\* addKaiContainers runs last and overwrites what addK8sResourceContainers added.
AllocOf(p, s) == IF s = p.kai THEN "KaiScheduler" ELSE "K8sResource"

\* Mutant: any termination of the slot, whichever container it was of.
ObservedFinishedAtOfSlot(p, s, id) ==
    IF p.status[s].term # 0 THEN p.status[s].term ELSE p.status[s].prevTerm

\* observedFinishedAtForContainer
ObservedFinishedAt(p, s, id) ==
    LET status == p.status[s] IN
    IF status.cur = id /\ status.term # 0 THEN status.term
    ELSE IF status.prev = id THEN status.prevTerm
    ELSE 0

\* finishedAtForContainer
FinishedAtFor(p, s, id) ==
    IF ObservedFinishedAt(p, s, id) # 0 THEN ObservedFinishedAt(p, s, id)
    ELSE IF p.del # 0 THEN p.del
    ELSE IF p.ended THEN now
    ELSE 0

-----------------------------------------------------------------------------
(* Changing a container, under gpuContainersMu.                             *)

\* newGpuContainer, as reconcilePod inserts it.
NewContainer(p, s, id) ==
    [slot |-> s, name |-> p.name, alloc |-> AllocOf(p, s),
     finishedAt |-> ObservedFinishedAt(p, s, id),
     devices |-> [d \in Devices |-> NotSeen]]

\* Mutant: the per-device label cache is not reset.
UpdatedWithoutReset(c, p, s) == [c EXCEPT !.name = p.name, !.alloc = AllocOf(p, s)]

\* updateGpuContainer: the allocation type is not among the labels it compares.
Updated(c, p, s) ==
    LET labelsChanged == c.name # p.name IN
    [c EXCEPT
        !.name = p.name,
        !.alloc = AllocOf(p, s),
        !.devices = IF labelsChanged
                    THEN [d \in Devices |-> IF c.devices[d] = NotSeen THEN NotSeen ELSE Unset]
                    ELSE c.devices]

\* ensureAllPerDeviceLabelFingerprints: labels for every device of the container.
Labelled(c) ==
    [d \in Devices |-> IF c.devices[d] = Unset THEN LabelsOf(c) ELSE c.devices[d]]

\* finishContainerAt: nothing when there is no time to finish it at.
FinishedContainer(c, at) ==
    IF at = 0 THEN c ELSE [c EXCEPT !.finishedAt = at, !.devices = Labelled(c)]

\* Mutant: no fallback to the present time.
DeletedContainerAsReported(c, p, id) == FinishedContainer(c, FinishedAtFor(p, c.slot, id))

\* What finishDeletedPod makes of an unfinished container of the deleted pod object p:
\* it finishes now at the latest.
DeletedContainer(c, p, id) ==
    LET at == FinishedAtFor(p, c.slot, id) IN FinishedContainer(c, IF at = 0 THEN now ELSE at)

\* Mutant: the time to live counts from now.
StageForCleanupFromNow ==
    queue' = [k \in Keys |->
        IF gpuContainers'[k] # NoContainer /\ ~IsFinished(k) /\ queue[k] = 0
              /\ gpuContainers'[k].finishedAt # 0
        THEN now + TTL
        ELSE queue[k]]

\* Mutant: a container that is inserted already finished is not staged.
StageForCleanupWhenStored ==
    queue' = [k \in Keys |->
        IF Stored(k) /\ gpuContainers'[k].finishedAt # 0 /\ ~IsFinished(k)
        THEN gpuContainers'[k].finishedAt + TTL
        ELSE queue[k]]

\* stageForCleanup / enqueue, for the containers that this step finishes.
StageForCleanup ==
    queue' = [k \in Keys |->
        IF /\ gpuContainers'[k] # NoContainer
           /\ gpuContainers'[k].finishedAt # 0
           /\ ~IsFinished(k)
           /\ queue[k] = 0
        THEN gpuContainers'[k].finishedAt + TTL
        ELSE queue[k]]

-----------------------------------------------------------------------------
(* The informer's callbacks.                                                *)

\* Mutant: a finished container may finish again.
ReconciledAnew(c, p, id) ==
    LET slots == DesiredSlots(p, id)
        slot == CHOOSE s \in slots : TRUE IN
    CASE slots # {} /\ c = NoContainer -> NewContainer(p, slot, id)
      [] slots # {} /\ c # NoContainer ->
             FinishedContainer(Updated(c, p, slot), ObservedFinishedAt(p, slot, id))
      [] slots = {} /\ c # NoContainer -> FinishedContainer(c, FinishedAtFor(p, c.slot, id))
      [] OTHER -> NoContainer

\* What reconcilePod makes of the container id of pod object p.
Reconciled(c, p, id) ==
    LET slots == DesiredSlots(p, id)
        slot == CHOOSE s \in slots : TRUE
        update == Updated(c, p, slot)
    IN  CASE slots # {} /\ c = NoContainer -> NewContainer(p, slot, id)
          [] slots # {} /\ c # NoContainer ->
                 IF c.finishedAt # 0 THEN update
                 ELSE FinishedContainer(update, ObservedFinishedAt(p, slot, id))
          [] slots = {} /\ c # NoContainer ->
                 IF c.finishedAt # 0 THEN c
                 ELSE FinishedContainer(c, FinishedAtFor(p, c.slot, id))
          [] OTHER -> NoContainer

ReconcilePod(u) ==
    /\ Delivers(u)
    /\ gpuContainers' = [k \in Keys |->
          IF k[1] = u THEN Reconciled(gpuContainers[k], pod[u], k[2]) ELSE gpuContainers[k]]
    /\ StageForCleanup
    /\ UNCHANGED sweep

FinishDeletedPod(u) ==
    \E p \in {pod[u], copy[u]} :
        /\ DeliversDeletion(u, p)
        /\ gpuContainers' = [k \in Keys |->
              IF k[1] = u /\ Stored(k) /\ ~IsFinished(k)
              THEN DeletedContainer(gpuContainers[k], p, k[2])
              ELSE gpuContainers[k]]
        /\ StageForCleanup
        /\ UNCHANGED sweep

-----------------------------------------------------------------------------
(* The collector's lookup.                                                  *)

\* GetMetricLabelsAndValues: a first sight of the device, or of it since a reset,
\* labels it with the container's labels of that moment.
GetMetricLabels(k, d) ==
    /\ Stored(k)
    /\ gpuContainers' = [gpuContainers EXCEPT ![k].devices[d] =
          IF @ \in {NotSeen, Unset} THEN LabelsOf(gpuContainers[k]) ELSE @]
    /\ UNCHANGED <<podVars, queue, sweep>>

-----------------------------------------------------------------------------
(* The sweeper: StartSweeper's ticks and the steps of purge.                *)

\* The ticker fires; purge reads the time before it takes the lock.
SweepStarts ==
    /\ sweep.step = "idle"
    /\ sweep' = [sweep EXCEPT !.step = "purge", !.now = now]
    /\ UNCHANGED <<podVars, gpuContainers, queue>>

Due(t) == {k \in Keys : queue[k] # 0 /\ queue[k] <= t}

\* The section under the lock: pop what has expired, note its labels, forget it.
PurgeExpired ==
    /\ sweep.step = "purge"
    /\ LET due == Due(sweep.now)
           expired == {k \in due : Stored(k)} IN
         /\ queue' = [k \in Keys |-> IF k \in due THEN 0 ELSE queue[k]]
         /\ gpuContainers' = [k \in Keys |-> IF k \in expired THEN NoContainer ELSE gpuContainers[k]]
         /\ sweep' =
              [step |-> "unmap", now |-> 0,
               containers |-> {[key |-> k, labels |-> LabelsOf(gpuContainers[k])] : k \in expired},
               devices |-> {[key |-> x[1], device |-> x[2],
                             labels |-> Labelled(gpuContainers[x[1]])[x[2]]] :
                              x \in {y \in expired \X Devices :
                                        gpuContainers[y[1]].devices[y[2]] # NotSeen}}]
    /\ UNCHANGED podVars

\* mapper.RemoveContainerKeys(expired...), which Mapper models.
UnmapExpired ==
    /\ sweep.step = "unmap"
    /\ sweep' = [sweep EXCEPT !.step = "delete"]
    /\ UNCHANGED <<podVars, gpuContainers, queue>>

\* gmp.DeleteValues returns, and with it purge.
SweepEnds ==
    /\ sweep.step = "delete"
    /\ sweep' = NoSweep
    /\ UNCHANGED <<podVars, gpuContainers, queue>>

-----------------------------------------------------------------------------
EnvironmentStep == (Tick \/ \E u \in Pods : PodStep(u) \/ Supplants(u)) /\ UNCHANGED storeVars

SweeperStep == SweepStarts \/ PurgeExpired \/ UnmapExpired \/ SweepEnds

Next ==
    \/ EnvironmentStep
    \/ \E u \in Pods : ReconcilePod(u) \/ FinishDeletedPod(u)
    \/ \E k \in Keys, d \in Devices : GetMetricLabels(k, d)
    \/ SweeperStep

Spec == Init /\ [][Next]_vars

\* Time passes, the sweeper's ticker keeps firing and a purge that has begun runs to its
\* end.  Nothing makes the informer deliver anything.
Fairness == WF_vars(Tick /\ UNCHANGED storeVars) /\ WF_vars(SweeperStep)

FairSpec == Spec /\ Fairness

-----------------------------------------------------------------------------
(* Properties.                                                              *)

\* A finished container that is still stored is scheduled for cleanup exactly once,
\* TTL after it finished, and nothing else is scheduled (store_test.go:311).
ScheduledOnce ==
    \A k \in Keys :
        queue[k] = IF IsFinished(k) THEN gpuContainers[k].finishedAt + TTL ELSE 0

\* A container is finished only on evidence: the kubelet reported that very container
\* terminated, or its pod was being deleted, had ended or was gone
\* (store_test.go:261, finishedAtForContainer, finishedAtFromStatus).
FinishedOnEvidence ==
    \A k \in Keys :
        IsFinished(k) =>
            \/ k \in dead
            \/ pod[k[1]].del # 0 \/ pod[k[1]].ended \/ pod[k[1]].exists = "gone"

\* The labels cached per device are the container's labels of today: per-device
\* labels are the container labels and two more (README.md, "Metrics").
DeviceLabelsCurrent ==
    \A k \in Keys, d \in Devices :
        Stored(k) => gpuContainers[k].devices[d] \in {NotSeen, Unset, LabelsOf(gpuContainers[k])}

\* Of the labels cached per device only the allocation type can be behind the container's:
\* whatever updates, look-ups and finishes follow each other, a name that changed is in none
\* of them (updateGpuContainer and ResetDeviceLabelCache against the look-ups between).
DeviceNamesCurrent ==
    \A k \in Keys, d \in Devices :
        LET labels == gpuContainers[k].devices[d] IN
        Stored(k) => labels \in {NotSeen, Unset} \/ labels.name = gpuContainers[k].name

\* Every container lives the life ContainerLifecycle allows: finished at one time that
\* never changes, kept until TTL after it, and never dropped while it runs.
Lifecycle == INSTANCE ContainerLifecycle WITH
    life <- [k \in Keys |->
        IF ~Stored(k) THEN [status |-> "absent", at |-> 0]
        ELSE IF gpuContainers[k].finishedAt = 0 THEN [status |-> "running", at |-> 0]
        ELSE [status |-> "finished", at |-> gpuContainers[k].finishedAt]]

ImplementsLifecycle == Lifecycle!LifecycleSpec

\* A finished container is purged in the end.
FinishedIsPurged == Lifecycle!Forgotten

\* Nothing of a pod outlives the delivery of its deletion: the store forgets every one of
\* its containers for good, finished before or not, even when the object it was given is an
\* old one that shows them running (finishDeletedPod's fallback to time.Now()).
DeletedPodIsForgotten ==
    \A u \in Pods :
        copy[u].exists = "gone" ~> [](\A id \in Ids : ~Stored(<<u, id>>))

\* store_test.go:178, TestStoreMarksDeletedRelevantPodFinished: of a pod that was deleted,
\* as the informer has seen, no container is left unfinished.
DeletedPodIsFinished ==
    \A k \in Keys :
        Stored(k) /\ pod[k[1]].exists = "gone" /\ copy[k[1]].exists # "yes" => IsFinished(k)
=============================================================================
