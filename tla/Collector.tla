----------------------------- MODULE Collector ------------------------------
(***************************************************************************)
(* What MetricsCollector.collect of pkg/nvml/metrics.go reports: one poll   *)
(* turns the driver's samples into utilization, then the report loop looks  *)
(* each container up and publishes, while the store's informer callbacks    *)
(* go on changing what a container asks for.                                *)
(*                                                                          *)
(* Time is in sampling periods.  A sample says that a process was busy; its *)
(* utilizations (SM, memory, encoder, decoder; OFA, JPG) are 1.  The two    *)
(* ways to read samples, GetProcessUtilization and                          *)
(* GetProcessesUtilizationInfo, are the Kinds; each has its lastSeen map.   *)
(* The driver keeps every sample.  Which pids GetContainerKey resolves is   *)
(* free in each poll (Mapper says which); removal is in Exporter.           *)
(***************************************************************************)
EXTENDS GpuShare

CONSTANTS
    Gpus, Kinds, Pids, Containers,
    GpuOf,            \* GpuOf[p]: the device process p runs on
    ContainerOf,      \* ContainerOf[p]: the container process p runs in
    DeviceMemory,     \* DeviceMemory[g]: DeviceInfo.TotalMemory, which is not zero
    UsedMemory,       \* UsedMemory[p]: the device memory process p holds
    Sampling,         \* the devices whose driver samples utilization
    Listings,         \* the sets of processes the devices may list as running
    PodObjects,       \* the states of the pod the informer may deliver
    DefaultInterval,  \* defaultUtilSampleInterval: DRIVER_POLL_INTERVAL
    MaxSteps,         \* bound: sampling periods and deliveries of the pod together
    NotStored, Idle

ASSUME CollectorAssumption ==
    /\ GpuOf \in [Pids -> Gpus]
    /\ ContainerOf \in [Pids -> Containers]
    /\ DeviceMemory \in [Gpus -> Nat \ {0}]
    /\ UsedMemory \in [Pids -> Nat]
    /\ Sampling \subseteq Gpus
    /\ Listings \subseteq SUBSET Pids
    /\ IsFiniteSet(Pids)
    /\ \A pod \in PodObjects : WellTyped(pod)
    /\ DefaultInterval \in Nat \ {0}
    /\ MaxSteps \in Nat

VARIABLES
    now,        \* sampling periods since the driver started
    samples,    \* samples[t]: the processes the driver found busy at t
    lastSeen,   \* utilizationLastSeenByGpu, extendedUtilizationLastSeenByGpu
    metrics,    \* currentMetrics: by container and device, what remains to report
    report,     \* the entry between GetMetricLabelsAndValues and its gauges
    stored,     \* Store.gpuContainers: the ask and calculatedValues
    updates,    \* deliveries so far
    counters,   \* the utilization counters
    requests,   \* the gauges Requests and Limits
    lost,       \* history: utilization that was sampled, read and not reported
    upToDate    \* history: containers published from a look-up after their last update

driverVars == <<now, samples>>
storeVars == <<stored, updates>>
gaugeVars == <<counters, requests>>
vars == <<driverVars, lastSeen, metrics, report, storeVars, gaugeVars, lost, upToDate>>

Instants == 0 .. MaxSteps
Streams == Gpus \X Kinds
Entries == Containers \X Gpus
Meters == [Kinds -> Nat]
EntryMetrics == [util : Meters, MemoryBytes : Nat, used : Nat]
NoUtil == [k \in Kinds |-> 0]
GpuContainers == [ask : Asks, calculatedValues : Shares \cup {Nil}]
Reports ==
    [entry : Entries, metrics : EntryMetrics, values : Shares \cup {Nil}, fresh : BOOLEAN]

ASSUME AbsenceAssumption == NotStored \notin GpuContainers /\ Idle \notin Reports

TypeOK ==
    /\ now \in Instants
    /\ samples \in [1 .. MaxSteps -> SUBSET Pids]
    /\ lastSeen \in [Streams -> Instants]
    /\ DOMAIN metrics \subseteq Entries
    /\ \A e \in DOMAIN metrics : metrics[e] \in EntryMetrics
    /\ report \in Reports \cup {Idle}
    /\ stored \in [Containers -> GpuContainers \cup {NotStored}]
    /\ updates \in 0 .. MaxSteps
    /\ counters \in [Entries -> Meters]
    /\ requests \in [Containers -> (Floats \X Floats) \cup {Nil}]
    /\ lost \in [Entries -> Meters]
    /\ upToDate \subseteq Containers

NewGpuContainer(ask) == [ask |-> ask, calculatedValues |-> Nil]

\* The informer has synced: what the pod asks for is stored.
Init ==
    /\ now = 0
    /\ samples = [t \in 1 .. MaxSteps |-> {}]
    /\ lastSeen = [s \in Streams |-> 0]
    /\ metrics = <<>>
    /\ report = Idle
    /\ \E pod \in PodObjects :
          LET desired == DesiredGpuContainersForPod(pod)
          IN  stored = [c \in Containers |->
                           IF c \in DOMAIN desired THEN NewGpuContainer(desired[c]) ELSE NotStored]
    /\ updates = 0
    /\ counters = [e \in Entries |-> NoUtil]
    /\ requests = [c \in Containers |-> Nil]
    /\ lost = [e \in Entries |-> NoUtil]
    /\ upToDate = {}

-----------------------------------------------------------------------------
(* The driver.                                                              *)

\* No step of a report reads a sample: those found meanwhile are found after it.
Samples(busy) ==
    /\ now + updates < MaxSteps
    /\ DOMAIN metrics = {} /\ report = Idle
    /\ now' = now + 1
    /\ samples' = [samples EXCEPT ![now + 1] = busy]
    /\ UNCHANGED <<lastSeen, metrics, report, storeVars, gaugeVars, lost, upToDate>>

\* The timestamps of the samples on g up to now.
SampleTimes(g) == {t \in 1 .. now : \E p \in samples[t] : GpuOf[p] = g}

-----------------------------------------------------------------------------
(* collect and collectUtilization.                                          *)

\* groupUtilizations: the timestamps of the groups.
GroupTimes(g, k) == {t \in SampleTimes(g) : t > lastSeen[<<g, k>>]}

\* Mutant: previousTs stays lastSeen.
PreviousPoll(g, k, t) == lastSeen[<<g, k>>]

\* previousTs when the group of time t is reached.
PreviousTs(g, k, t) == Max({lastSeen[<<g, k>>]} \cup {u \in GroupTimes(g, k) : u < t})

\* Mutant: the operands are swapped.
WeightBackwards(previousTs, t) == IF previousTs = 0 THEN DefaultInterval ELSE previousTs - t

SampleWeightSeconds(previousTs, t) == IF previousTs = 0 THEN DefaultInterval ELSE t - previousTs

\* What the groups of one stream add up to for processes ps of its device.
Utilization(g, k, ps) ==
    SumFunction([t \in GroupTimes(g, k) |->
        SampleWeightSeconds(PreviousTs(g, k, t), t) * Cardinality(samples[t] \cap ps)])

\* Mutant: the streams of a device share lastSeen.
SeenByEither(g, k, read) ==
    IF \E l \in Kinds : <<g, l>> \in read
    THEN Max({lastSeen[<<g, k>>]} \cup SampleTimes(g)) ELSE lastSeen[<<g, k>>]

\* maxSeenTs, where the stream was read.
Seen(g, k, read) ==
    IF <<g, k>> \in read THEN Max({lastSeen[<<g, k>>]} \cup SampleTimes(g)) ELSE lastSeen[<<g, k>>]

\* The processes of an entry's container on its device.
On(e) == {p \in Pids : ContainerOf[p] = e[1] /\ GpuOf[p] = e[2]}

\* The processes with a sample in a stream that is read.
Sampled(read) ==
    {p \in Pids : \E k \in Kinds :
        <<GpuOf[p], k>> \in read /\ \E t \in GroupTimes(GpuOf[p], k) : p \in samples[t]}

\* The memory of an entry is that of the listed process reached last.
LastMemory(last, e) == SumFunctionOnSet(UsedMemory, last \cap On(e))

\* Reading a stream with nothing new is as good as failing to.
Unread == {s \in Streams : GroupTimes(s[1], s[2]) # {}}

\* One poll: the streams read without an error; of the processes that the
\* devices list as running and of those sampled, the ones whose pids resolve to
\* a container; and of the listed those that the map iteration reaches last for
\* their entries.
Collect(read, running, last, known) ==
    LET utilOf(e, ps) == [k \in Kinds |->
            IF <<e[2], k>> \in read THEN Utilization(e[2], k, ps \cap On(e)) ELSE 0]
    IN  /\ DOMAIN metrics = {} /\ report = Idle
        /\ \A p \in running :
              Cardinality(last \cap On(<<ContainerOf[p], GpuOf[p]>>)) = 1
        /\ metrics' = [e \in {<<ContainerOf[p], GpuOf[p]>> : p \in running \cup known} |->
              [util |-> utilOf(e, known), MemoryBytes |-> LastMemory(last, e),
               used |-> LastMemory(running, e)]]
        /\ lost' = [e \in Entries |->
              [k \in Kinds |-> lost[e][k] + utilOf(e, Pids \ known)[k]]]
        /\ lastSeen' = [s \in Streams |-> Seen(s[1], s[2], read)]
        /\ UNCHANGED <<driverVars, report, storeVars, gaugeVars, upToDate>>

-----------------------------------------------------------------------------
(* reportMetrics.                                                           *)

Without(e) == [f \in DOMAIN metrics \ {e} |-> metrics[f]]

\* The values are calculated at the first look-up after a reset, for its device.
GetCalculatedValues(gc, g) ==
    IF gc.calculatedValues = Nil THEN Calculate(gc.ask, DeviceMemory[g]) ELSE gc.calculatedValues

\* GetMetricLabelsAndValues, under the store's lock.
LookUp(e) ==
    /\ report = Idle
    /\ e \in DOMAIN metrics
    /\ metrics' = Without(e)
    /\ IF stored[e[1]] = NotStored
       THEN /\ lost' = [lost EXCEPT ![e] = [k \in Kinds |-> @[k] + metrics[e].util[k]]]
            /\ UNCHANGED <<report, stored>>
       ELSE LET values == GetCalculatedValues(stored[e[1]], e[2])
            IN  /\ report' = [entry |-> e, metrics |-> metrics[e],
                              values |-> values, fresh |-> TRUE]
                /\ stored' = [stored EXCEPT ![e[1]].calculatedValues = values]
                /\ UNCHANGED lost
    /\ UNCHANGED <<driverVars, lastSeen, updates, gaugeVars, upToDate>>

\* The gauges and counters of one entry, from what was looked up.
Publish ==
    /\ report # Idle
    /\ LET e == report.entry
           values == report.values
       IN  /\ requests' = IF values = Nil THEN requests
                          ELSE [requests EXCEPT ![e[1]] = <<values.Requests, values.Limits>>]
           /\ counters' = [counters EXCEPT ![e] =
                 [k \in Kinds |-> @[k] + report.metrics.util[k]]]
           /\ upToDate' = IF report.fresh THEN upToDate \cup {e[1]} ELSE upToDate
    /\ report' = Idle
    /\ UNCHANGED <<driverVars, lastSeen, metrics, storeVars, lost>>

-----------------------------------------------------------------------------
(* reconcilePod.                                                            *)

\* Mutant: updateGpuContainer without ResetCalculatedValues.
KeptValues(c, ask) ==
    [ask |-> ask,
     calculatedValues |-> IF stored[c] = NotStored THEN Nil ELSE stored[c].calculatedValues]

\* newGpuContainer, or updateGpuContainer on the one that is stored.
Updated(c, ask) == NewGpuContainer(ask)

\* A container the pod no longer asks for stays as it is until it finishes.
ReconcilePod(pod) ==
    LET desired == DesiredGpuContainersForPod(pod)
    IN  /\ now + updates < MaxSteps
        /\ updates' = updates + 1
        /\ stored' = [c \in Containers |->
              IF c \in DOMAIN desired THEN Updated(c, desired[c]) ELSE stored[c]]
        /\ upToDate' = upToDate \ DOMAIN desired
        /\ report' = IF report # Idle /\ report.entry[1] \in DOMAIN desired
                     THEN [report EXCEPT !.fresh = FALSE] ELSE report
        /\ UNCHANGED <<driverVars, lastSeen, metrics, gaugeVars, lost>>

Next ==
    \/ \E busy \in SUBSET {p \in Pids : GpuOf[p] \in Sampling} : Samples(busy)
    \/ \E read \in SUBSET Unread, running \in Listings :
          \E last \in SUBSET running, known \in SUBSET Sampled(read) :
              Collect(read, running, last, known)
    \/ \E e \in Entries : LookUp(e)
    \/ Publish
    \/ \E pod \in PodObjects : ReconcilePod(pod)

Spec == Init /\ [][Next]_vars

-----------------------------------------------------------------------------
(* Properties.                                                              *)

\* The time a sample at t stands for: since the previous sample on the device,
\* of whatever process.
Span(g, t) ==
    LET before == {u \in SampleTimes(g) : u < t}
    IN  IF before = {} THEN DefaultInterval ELSE t - Max(before)

\* What each sample of an entry's processes comes to.
Weight(e) ==
    [t \in SampleTimes(e[2]) |-> Span(e[2], t) * Cardinality(samples[t] \cap On(e))]

\* Calculated, and not yet reported.
Pending(e, k) ==
    (IF e \in DOMAIN metrics THEN metrics[e].util[k] ELSE 0)
    + (IF report # Idle /\ report.entry = e THEN report.metrics.util[k] ELSE 0)

\* The accumulated utilization does not depend on how the polls divide the
\* samples, on which of them failed, or on how often a sample is returned:
\* counted, waiting or knowingly dropped, each sample up to lastSeen weighs the
\* time since the sample before it, once.
EverySampleWeighedOnce ==
    \A e \in Entries, k \in Kinds :
        counters[e][k] + Pending(e, k) + lost[e][k] =
            SumFunctionOnSet(Weight(e), {t \in SampleTimes(e[2]) : t <= lastSeen[<<e[2], k>>]})

\* Once a container has been looked up after the last change of its pod and
\* published, Requests and Limits show what it asks for now, computed for one
\* of the devices, however the change fell into a report under way; unless the
\* new ask has no values, when the gauges keep the old ones (container.go:186).
RequestsFollowAsk ==
    \A c \in upToDate :
        LET asked == {Calculate(stored[c].ask, DeviceMemory[g]) : g \in Gpus} \ {Nil}
        IN  asked # {} => \E v \in asked : requests[c] = <<v.Requests, v.Limits>>

\* Zero, an infinity or NaN.
Indivisible(float) == float[1] = 0 \/ float[2] = 0

\* The footprint divides by the reported total (metrics.go:475): there is nothing to divide
\* by only if the fraction that is asked for is zero or no finite number, or if the memory
\* is none, or so much that it wraps to none.
DivisorZeroOnlyIfAsked ==
    report # Idle /\ report.values # Nil =>
        LET ask == stored[report.entry[1]].ask
        IN  report.fresh /\ Indivisible(report.values.TotalMemory) =>
                \/ ask.GpuFraction # Nil /\ Indivisible(ask.GpuFraction)
                \/ ask.GpuMemory # Nil /\ AskedBytes(ask) = 0

\* README: "GPU memory used by the container on a GPU".
MemoryIsTheContainers ==
    report # Idle => report.metrics.MemoryBytes = report.metrics.used
=============================================================================
