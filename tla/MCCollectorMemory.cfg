\* One poll of a container with two processes on one device.
CONSTANTS
    c1 = c1
    c2 = c2
    p1 = p1
    p2 = p2
    p3 = p3
    g1 = g1
    g2 = g2
    Nil = Nil
    NotStored = NotStored
    Idle = Idle
    MiB = 4
    WordSize = 16
    Gpus = {g1}
    Kinds = {"utilization", "extended"}
    Pids = {p1, p2}
    Containers = {c1}
    GpuOf <- OneGpu
    ContainerOf <- OneContainer
    DeviceMemory <- Sizes
    UsedMemory <- Memories
    Sampling = {g1}
    Listings <- AnyListing
    PodObjects <- MCPodObjects
    DefaultInterval = 2
    MaxSteps = 1
SPECIFICATION Spec
INVARIANTS MemoryIsTheContainers
