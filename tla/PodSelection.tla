---------------------------- MODULE PodSelection ----------------------------
(***************************************************************************)
(* Store and PodSpec both model desiredGpuContainersForPod (store.go:340):  *)
(* Store by which slots of a pod object ask for nvidia.com/gpu and which    *)
(* one KAI selects, PodSpec by the containers, their resources, and the     *)
(* annotations that decide this.  Here: that both select the same           *)
(* containers, and give each the same allocation type.                      *)
(***************************************************************************)
EXTENDS Store, TLAPS

CONSTANT Nil

Spelled == INSTANCE PodSpec

\* The names that addK8sResourceContainers takes from a pod, running or not.
AskingNames(p) ==
    IF p.reserved THEN {}
    ELSE {c.name : c \in {x \in Spelled!ToSet(p.containers) \cup Spelled!ToSet(p.initContainers) :
                             Spelled!RequestsGPU(x)}}

\* The name that addKaiContainers takes from a pod, running or not.
KaiNames(p) == IF Spelled!HasKaiAnnotation(p) THEN Spelled!SelectKaiContainer(p) ELSE {}

\* Object o says of pod p what Store keeps of it.
Abstracts(o, p) ==
    /\ o.resource = AskingNames(p)
    /\ o.kai = IF KaiNames(p) = {} THEN NoSlot ELSE CHOOSE n \in KaiNames(p) : TRUE
    /\ p.running = {s \in Slots : o.status[s].cur # NoId}

\* The slots of o that are desired under one id or another.
Selected(o) == {s \in Slots : \E id \in Ids : s \in DesiredSlots(o, id)}

\* KAI's annotations select at most one container of a pod (store.go:451).
LEMMA OneKaiContainer ==
    ASSUME NEW p, NEW m \in KaiNames(p), NEW n \in KaiNames(p)
    PROVE  m = n
<1>1. m \in Spelled!SelectKaiContainer(p) /\ n \in Spelled!SelectKaiContainer(p)
  BY DEF KaiNames
<1> QED
  BY <1>1 DEF Spelled!SelectKaiContainer

\* The containers that are tracked are those with an id that ask for a GPU or that KAI
\* selects, and KAI's annotations prevail, whichever of the two models is read.
THEOREM SameSelection ==
    ASSUME NEW o \in Objects, NEW p, Abstracts(o, p)
    PROVE  LET desired == Spelled!DesiredGpuContainersForPod(p) IN
           /\ Selected(o) = DOMAIN desired
           /\ \A s \in Selected(o) : desired[s].alloc = AllocOf(o, s)
<1> DEFINE desired == Spelled!DesiredGpuContainersForPod(p)
           kai == Spelled!KaiContainers(p)
           k8s == {c.name : c \in Spelled!K8sContainers(p)}
<1>1. \A s \in Slots : s \in p.running <=> \E id \in Ids : o.status[s].cur = id
  <2>1. \A s \in Slots : o.status[s].cur \in Ids \cup {NoId}
    BY DEF Objects, Statuses
  <2>2. NoId \notin Ids
    BY PodsAssumption DEF NoId, Ids
  <2> QED
    BY <2>1, <2>2 DEF Abstracts
<1>2. p.running \subseteq Slots
  BY DEF Abstracts
<1>3. k8s = AskingNames(p) \cap p.running
  BY DEF Spelled!K8sContainers, AskingNames
<1>4. kai = KaiNames(p) \cap p.running
  BY DEF Spelled!KaiContainers, KaiNames
<1>5. \A s \in Slots : s = o.kai <=> s \in KaiNames(p)
  <2>1. CASE KaiNames(p) = {}
    BY <2>1, PodsAssumption DEF Abstracts
  <2>2. CASE KaiNames(p) # {}
    BY <2>2, OneKaiContainer DEF Abstracts
  <2> QED
    BY <2>1, <2>2
<1>6. DOMAIN desired = kai \cup k8s
  BY DEF Spelled!DesiredGpuContainersForPod
<1>7. Selected(o) = kai \cup k8s
  <2> HIDE DEF kai, k8s
  <2> QED
    BY <1>1, <1>2, <1>3, <1>4, <1>5 DEF Selected, DesiredSlots, Abstracts
<1>8. ASSUME NEW s \in Selected(o) PROVE desired[s].alloc = AllocOf(o, s)
  <2>1. s \in Slots /\ s \in kai \cup k8s /\ (s \in kai <=> s = o.kai)
    <3> HIDE DEF kai, k8s
    <3> QED
      BY <1>2, <1>3, <1>4, <1>5, <1>7 DEF Selected
  <2>2. CASE s \in kai
    BY <2>1, <2>2 DEF Spelled!DesiredGpuContainersForPod, Spelled!Ask, AllocOf
  <2>3. CASE s \notin kai
    BY <2>1, <2>3 DEF Spelled!DesiredGpuContainersForPod, Spelled!Ask, AllocOf
  <2> QED
    BY <2>2, <2>3
<1> QED
  BY <1>6, <1>7, <1>8
=============================================================================
