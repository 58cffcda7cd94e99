------------------------------ MODULE GpuShare ------------------------------
(***************************************************************************)
(* gpuContainerCalculator of pkg/model/container.go: requests, limits and   *)
(* total memory of a container on a device of given memory.                 *)
(***************************************************************************)
EXTENDS PodSpec

CONSTANTS
    MiB,       \* 2^20 in the code
    WordSize   \* 2^64 in the code

ASSUME ShareAssumption ==
    /\ MiB \in Nat \ {0}
    /\ WordSize \in Nat \ {0}

\* A share is what a container may have of a device.
Shares == [Requests : Floats, Limits : Floats, TotalMemory : Floats]

ASSUME NilAssumption == Nil \notin Shares

Values(requests, limits, totalMemory) ==
    [Requests |-> requests, Limits |-> limits, TotalMemory |-> totalMemory]

Times(n, float) == <<n * float[1], float[2]>>

TimesDevices(devices, float) == IF devices = Nil THEN float ELSE Times(devices, float)

\* gpu-memory in MiB, multiplied in uint64.
AskedBytes(ask) == (ask.GpuMemory * MiB) % WordSize

\* Mutant: the fraction of the device's memory in integers.
WholeBytes(fraction, deviceMemory) ==
    IF fraction[2] = 0 THEN fraction ELSE <<(deviceMemory * fraction[1]) \div fraction[2], 1>>

FractionOfMemory(fraction, deviceMemory) == Times(deviceMemory, fraction)

\* Nil is an error: no annotation determines a share.
Calculate(ask, deviceMemory) ==
    IF ask.GpuRequest # Nil /\ ask.GpuLimit # Nil
    THEN Values(<<ask.GpuRequest, 1>>, <<ask.GpuLimit, 1>>, <<deviceMemory, 1>>)
    ELSE IF ask.GpuFraction # Nil
    THEN LET share == TimesDevices(ask.GPUNumDevices, ask.GpuFraction)
         IN  Values(share, share, FractionOfMemory(ask.GpuFraction, deviceMemory))
    ELSE IF ask.GpuMemory # Nil
    THEN LET share == TimesDevices(ask.GPUNumDevices, <<AskedBytes(ask), deviceMemory>>)
         IN  Values(share, share, <<AskedBytes(ask), 1>>)
    ELSE Nil
=============================================================================
