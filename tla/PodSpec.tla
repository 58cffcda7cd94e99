------------------------------ MODULE PodSpec -------------------------------
(***************************************************************************)
(* What pkg/kube/store.go reads in a pod object: which of its containers    *)
(* ask for GPUs, and what they ask.  Store has the same functions with the  *)
(* asks left out; this module has no state.                                 *)
(*                                                                          *)
(* A pod is a record: containers and initContainers, sequences of           *)
(* containers with their nvidia.com/gpu request and limit; sidecars, the    *)
(* names of the init containers that restart always; running, the names     *)
(* whose status shows an id; reserved, the namespace or the annotation of a *)
(* KAI reservation; and KAI's annotations as they parse, Nil when they do   *)
(* not.  Kubernetes gives the containers of a pod distinct names.           *)
(***************************************************************************)
EXTENDS Integers, SequencesExt

CONSTANT Nil  \* a nil pointer, a missing or an unparsable value

\* A float64 is a numerator and a denominator.  Over zero are the infinities and NaN, which
\* strconv.ParseFloat accepts, too; they multiply as the pairs do.
Floats == Int \X Nat

\* Resources.Requests or Resources.Limits has nvidia.com/gpu.
RequestsGPU(container) == container.request # Nil \/ container.limit # Nil

Ask(alloc, request, limit, fraction, memory, devices) ==
    [alloc |-> alloc, GpuRequest |-> request, GpuLimit |-> limit,
     GpuFraction |-> fraction, GpuMemory |-> memory, GPUNumDevices |-> devices]

Asks ==
    [alloc         : {"K8sResource", "KaiScheduler"},
     GpuRequest    : Int \cup {Nil},
     GpuLimit      : Int \cup {Nil},
     GpuFraction   : Floats \cup {Nil},
     GpuMemory     : Nat \cup {Nil},
     GPUNumDevices : Nat \cup {Nil}]

\* The types of what a pod object says; the API server holds no other.
WellTyped(pod) ==
    /\ \A c \in ToSet(pod.containers) \cup ToSet(pod.initContainers) :
          c.request \in Int \cup {Nil} /\ c.limit \in Int \cup {Nil}
    /\ pod.fraction \in Floats \cup {Nil}
    /\ pod.memory \in Nat \cup {Nil}
    /\ pod.numDevices \in Nat \cup {Nil}

\* addK8sResourceContainers: the containers with a request and an id.
K8sContainers(pod) ==
    IF pod.reserved THEN {}
    ELSE {c \in ToSet(pod.containers) \cup ToSet(pod.initContainers) :
              RequestsGPU(c) /\ c.name \in pod.running}

HasKaiAnnotation(pod) == pod.fraction # Nil \/ pod.memory # Nil \/ pod.numDevices # Nil

\* selectKaiContainer: the container the annotation names, an init container
\* only if it is a sidecar; with no annotation the first one.
SelectKaiContainer(pod) ==
    IF pod.target # Nil
    THEN {c.name : c \in ToSet(pod.containers)
                         \cup {i \in ToSet(pod.initContainers) : i.name \in pod.sidecars}}
         \cap {pod.target}
    ELSE {pod.containers[i].name : i \in DOMAIN pod.containers \cap {1}}

\* addKaiContainers: none or one container.
KaiContainers(pod) ==
    IF HasKaiAnnotation(pod) THEN SelectKaiContainer(pod) \cap pod.running ELSE {}

\* desiredGpuContainersForPod: KAI's annotations override the resources.
DesiredGpuContainersForPod(pod) ==
    LET kai == KaiContainers(pod)
        k8s == {c.name : c \in K8sContainers(pod)}
    IN  [n \in kai \cup k8s |->
            IF n \in kai
            THEN Ask("KaiScheduler", Nil, Nil, pod.fraction, pod.memory, pod.numDevices)
            ELSE LET c == CHOOSE c \in K8sContainers(pod) : c.name = n
                 IN  Ask("K8sResource", c.request, c.limit, Nil, Nil, Nil)]
=============================================================================
