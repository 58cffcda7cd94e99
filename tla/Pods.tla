-------------------------------- MODULE Pods --------------------------------
(***************************************************************************)
(* The pods of this node as the API server holds them, the clock, and the   *)
(* informer's copy of each pod.  External to the repository: the kubelet,   *)
(* users and the API server change pods; pkg/kube/store.go only reads them. *)
(*                                                                          *)
(* A pod's object carries what the store's decisions depend on: which       *)
(* containers ask for nvidia.com/gpu, which one the KAI annotations select, *)
(* per container the current id and the one before it with their            *)
(* termination times (0: not terminated), the deletion timestamp (0: none)  *)
(* and whether the phase is Failed or Succeeded.  The informer delivers the *)
(* present object whenever it pleases: it may lag, repeat an object (a      *)
(* change the store ignores), and skip versions (a relist after a broken    *)
(* watch).  It knows pods by namespace and name and the store knows them by *)
(* UID, so that one that is deleted and created again while the watch is    *)
(* broken is an update to the informer and another pod to the store.        *)
(***************************************************************************)
EXTENDS Naturals

CONSTANTS
    Pods,       \* pod UIDs
    Slots,      \* container names of a pod spec
    MaxIds,     \* bound on the containers a pod ever starts
    MaxEdits,   \* bound on the edits of a pod's annotations and names
    Names,      \* values of the node, namespace, pod and container name labels
    ResourceSets, \* bound: the sets of them that may ask for nvidia.com/gpu
    KaiSlots,   \* bound: those that KAI annotations may select
    NoSlot,     \* the KAI annotations select no container
    Horizon,    \* bound: no pod changes after this time
    Grace,      \* a deletion timestamp is this far in the future
    StatusLag,  \* the kubelet reports a termination at most this late
    TTL         \* CleanupScheduler.ttl

ASSUME PodsAssumption ==
    /\ NoSlot \notin Slots /\ ResourceSets \subseteq SUBSET Slots /\ KaiSlots \subseteq Slots
    /\ MaxIds \in Nat /\ MaxEdits \in Nat
    /\ Horizon \in Nat \ {0} /\ Grace \in Nat /\ StatusLag \in Nat /\ TTL \in Nat

VARIABLES
    now,        \* the clock; time 0 is Go's zero time and never the present
    pod,        \* pod[u]: the object the API server holds, or held last
    copy,       \* copy[u]: the object the informer delivered last, which does not
                \* exist for a pod that it never had or holds another in place of
    dead        \* history: the <<u, id>> that the kubelet ever reported terminated

podVars == <<now, pod, copy, dead>>

MaxTime == Horizon + Grace + TTL
Times == 0 .. MaxTime

\* Container ids are numbered per pod in the order the runtime starts them.
NoId == 0
Ids == 1 .. MaxIds

Statuses == [cur : Ids \cup {NoId}, term : Times, prev : Ids \cup {NoId}, prevTerm : Times]
NoStatus == [cur |-> NoId, term |-> 0, prev |-> NoId, prevTerm |-> 0]

Objects ==
    [exists   : {"no", "yes", "gone"},
     name     : Names,
     resource : SUBSET Slots,
     kai      : KaiSlots \cup {NoSlot},
     started  : 0 .. MaxIds,
     edits    : 0 .. MaxEdits,
     status   : [Slots -> Statuses],
     del      : Times,
     ended    : BOOLEAN]

PodsTypeOK ==
    /\ now \in Times \ {0}
    /\ pod \in [Pods -> Objects]
    /\ copy \in [Pods -> Objects]
    /\ dead \subseteq Pods \X Ids

Unborn(n) ==
    [exists |-> "no", name |-> n, resource |-> {}, kai |-> NoSlot, started |-> 0,
     edits |-> 0, status |-> [s \in Slots |-> NoStatus], del |-> 0, ended |-> FALSE]

PodsInit ==
    /\ now = 1
    /\ \E n \in Names : pod = [u \in Pods |-> Unborn(n)]
    /\ copy = pod
    /\ dead = {}

-----------------------------------------------------------------------------
(* What the API server, the kubelet and the users do.                       *)

Change(u, object) == pod' = [pod EXCEPT ![u] = object] /\ UNCHANGED <<now, copy>>

PodCreated(u) ==
    /\ pod[u].exists = "no"
    /\ \E r \in ResourceSets, a \in KaiSlots \cup {NoSlot} :
         Change(u, [pod[u] EXCEPT !.exists = "yes", !.resource = r, !.kai = a])

\* A first container of slot s, or a restart after a termination.
ContainerStarts(u, s) ==
    LET p == pod[u]
        old == p.status[s] IN
    /\ p.started < MaxIds /\ ~p.ended
    /\ old.cur # NoId => old.term # 0
    /\ Change(u, [p EXCEPT
         !.started = p.started + 1,
         !.status[s] = [cur |-> p.started + 1, term |-> 0, prev |-> old.cur, prevTerm |-> old.term]])

ContainerTerminates(u, s) ==
    LET old == pod[u].status[s] IN
    /\ old.cur # NoId /\ old.term = 0
    /\ \E at \in 1 .. now :
         /\ at + StatusLag >= now
         /\ Change(u, [pod[u] EXCEPT !.status[s].term = at])
    /\ dead' = dead \cup {<<u, old.cur>>}

\* The kubelet reports a status that lists no containers.
StatusCleared(u) ==
    /\ \E s \in Slots : pod[u].status[s] # NoStatus
    /\ Change(u, [pod[u] EXCEPT !.status = [s \in Slots |-> NoStatus]])

\* The pod's phase becomes Failed or Succeeded.
PodEnds(u) == ~pod[u].ended /\ Change(u, [pod[u] EXCEPT !.ended = TRUE])

DeletionRequested(u) ==
    pod[u].del = 0 /\ Change(u, [pod[u] EXCEPT !.del = now + Grace])

\* The KAI annotations are added, removed or pointed at another container, or a name
\* changes.
Edited(u) ==
    /\ pod[u].edits < MaxEdits
    /\ \/ \E a \in (KaiSlots \cup {NoSlot}) \ {pod[u].kai} :
            Change(u, [pod[u] EXCEPT !.kai = a, !.edits = @ + 1])
       \/ \E n \in Names \ {pod[u].name} :
            Change(u, [pod[u] EXCEPT !.name = n, !.edits = @ + 1])

PodRemoved(u) == Change(u, [pod[u] EXCEPT !.exists = "gone"])

PodStep(u) ==
    /\ now <= Horizon
    /\ pod[u].exists # "gone"
    /\ \/ PodCreated(u) /\ UNCHANGED dead
       \/ /\ pod[u].exists = "yes"
          /\ \/ \E s \in Slots : ContainerTerminates(u, s)
             \/ /\ \/ \E s \in Slots : ContainerStarts(u, s)
                   \/ StatusCleared(u)
                   \/ PodEnds(u)
                   \/ DeletionRequested(u)
                   \/ Edited(u)
                   \/ PodRemoved(u)
                /\ UNCHANGED dead

\* After the horizon time goes on only to let what has finished expire.
Tick ==
    /\ now < MaxTime
    /\ now' = now + 1
    /\ UNCHANGED <<pod, copy, dead>>

-----------------------------------------------------------------------------
(* The informer (client-go): what it hands to the store's event handlers.   *)

\* An add or update event: the present object.
Delivers(u) ==
    /\ now <= Horizon
    /\ pod[u].exists = "yes"
    /\ copy' = [copy EXCEPT ![u] = pod[u]]
    /\ UNCHANGED <<now, pod, dead>>

\* A relist finds another pod where u was, of its namespace and name.  No delete event
\* follows: the store is handed an update of the new pod, which is a delivery of that pod's
\* own, and looks at the old object, u's, not at all.
Supplants(u) ==
    /\ now <= Horizon
    /\ pod[u].exists = "gone" /\ copy[u].exists = "yes"
    /\ copy' = [copy EXCEPT ![u] = [pod[u] EXCEPT !.exists = "no"]]
    /\ UNCHANGED <<now, pod, dead>>

\* A delete event carries the last object, or, after a relist, a tombstone with the
\* copy the informer had (cache.DeletedFinalStateUnknown).  A pod that was never
\* delivered has no delete event.
DeliversDeletion(u, object) ==
    /\ now <= Horizon
    /\ pod[u].exists = "gone" /\ copy[u].exists = "yes"
    /\ object \in {pod[u], copy[u]}
    /\ copy' = [copy EXCEPT ![u] = pod[u]]
    /\ UNCHANGED <<now, pod, dead>>
=============================================================================
