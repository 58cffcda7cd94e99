---------------------------- MODULE MCCollector -----------------------------
(* Small instances of Collector for TLC. *)
EXTENDS Collector, TLC

CONSTANTS c1, c2, p1, p2, p3, g1, g2

\* The first container has a process on each device, the second one on the first device.
TwoGpus == [p \in Pids |-> IF p = p2 THEN g2 ELSE g1]
TwoContainers == [p \in Pids |-> IF p = p3 THEN c2 ELSE c1]
Sizes == [g \in Gpus |-> IF g = g1 THEN 4 ELSE 8]
\* What processes hold is for the other instance.
NoMemory == [p \in Pids |-> 0]
\* The second device, which does not sample, lists its process in every poll.
IdleOnly == {{p2}}

\* One device and one container of two processes, each with memory of its own.
OneGpu == [p \in Pids |-> g1]
OneContainer == [p \in Pids |-> c1]
Memories == [p \in Pids |-> IF p = p1 THEN 1 ELSE 2]
AnyListing == SUBSET Pids

\* A pod of a container that asks for two GPUs and a sidecar that asks for none.
Plain ==
    LET asks(name, n) == [name |-> name, request |-> n, limit |-> n]
    IN  [containers |-> <<asks(c1, 2)>>, initContainers |-> <<asks(c2, Nil)>>,
         sidecars |-> {c2}, running |-> {c1, c2}, reserved |-> FALSE,
         fraction |-> Nil, memory |-> Nil, numDevices |-> Nil, target |-> Nil]

\* KAI's annotations: memory that wraps to nothing for the first container, or a fraction of
\* it that is NaN; a count of devices, which determines no share; or a tenth of each of two
\* devices for the sidecar, which leaves the first container its GPUs.
MCPodObjects ==
    {[Plain EXCEPT !.memory = 4], [Plain EXCEPT !.fraction = <<0, 0>>],
     [Plain EXCEPT !.numDevices = 2],
     [Plain EXCEPT !.fraction = <<1, 10>>, !.numDevices = 2, !.target = c2]}
=============================================================================
