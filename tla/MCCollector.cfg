\* Samples, failing reads and updates of the pod between polls and reports.
CONSTANTS
    c1 = c1
    c2 = c2
    p1 = p1
    p2 = p2
    p3 = p3
    g1 = g1
    g2 = g2
    Nil = Nil
    NotStored = NotStored
    Idle = Idle
    MiB = 4
    WordSize = 16
    Gpus = {g1, g2}
    Kinds = {"utilization", "extended"}
    Pids = {p1, p2, p3}
    Containers = {c1, c2}
    GpuOf <- TwoGpus
    ContainerOf <- TwoContainers
    DeviceMemory <- Sizes
    UsedMemory <- NoMemory
    Sampling = {g1}
    Listings <- IdleOnly
    PodObjects <- MCPodObjects
    DefaultInterval = 2
    MaxSteps = 3
SPECIFICATION Spec
INVARIANTS TypeOK EverySampleWeighedOnce RequestsFollowAsk 
