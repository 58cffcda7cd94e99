------------------------------ MODULE Exporter ------------------------------
(***************************************************************************)
(* The store, the gauges of pkg/prometheus/prometheus.go and the report     *)
(* loop of pkg/nvml/metrics.go together.  The informer's callbacks write    *)
(* gauges under the store's lock; the collector and the end of a purge      *)
(* write them with no lock but the provider's own, one call at a time.      *)
(*                                                                          *)
(* Gauges that every writer treats alike are one: Requests and Limits       *)
(* (containerSeries); MemoryBytes and MemoryFootprint (memory); and         *)
(* MemoryTotalBytes, the utilization counters and the accounting gauges     *)
(* (plainSeries).  A value is "none" (no series), "zero" or "positive".     *)
(* A fingerprint stands for its labels: FNV-1a collisions are left out.     *)
(***************************************************************************)
EXTENDS Store

VARIABLES
    containerSeries,  \* label sets of Requests and Limits
    plainSeries,      \* label sets of the unguarded per-device vectors
    memory,           \* memory[l]: MemoryBytes and MemoryFootprint
    protected,        \* protected[l]: ProtectedMemoryBytes
    zeroed,           \* GpuMetricsProvider.zeroedPerDevice
    fingerprinted,    \* GpuMetricsProvider.fingerprintsByGauge
    pending,          \* collect's currentMetrics: containers and devices still to report
    report,           \* reportMetrics: the step and the label sets it is at
    deleting,         \* DeleteValues: what it deletes next
    laidToRest,       \* history: zeroed by the container's latest record
    relabelled,       \* history: the containers whose labels ever changed
    escaped           \* history: the containers written for while not (so) stored

gaugeVars == <<containerSeries, plainSeries, memory, protected, zeroed, fingerprinted>>
historyVars == <<laidToRest, relabelled, escaped>>
exporterVars == <<vars, gaugeVars, pending, report, deleting, historyVars>>

Values == {"none", "zero", "positive"}

NoReport == [step |-> "idle"]
Reports ==
    {NoReport}
    \cup [step : {"container"}, container : ContainerSeries, device : DeviceSeries]
    \cup [step : {"total", "memory", "counters"}, device : DeviceSeries]

Deletions == {"idle", "labels", "plain", "protected", "fingerprint", "zeroed"}

ExporterTypeOK ==
    /\ TypeOK
    /\ containerSeries \subseteq ContainerSeries
    /\ plainSeries \subseteq DeviceSeries
    /\ memory \in [DeviceSeries -> Values]
    /\ protected \in [DeviceSeries -> Values]
    /\ zeroed \subseteq DeviceSeries
    /\ fingerprinted \subseteq DeviceSeries
    /\ pending \subseteq Keys \X Devices
    /\ report \in Reports
    /\ deleting \in Deletions
    /\ laidToRest \subseteq DeviceSeries
    /\ relabelled \subseteq Keys
    /\ escaped \subseteq Keys

ExporterInit ==
    /\ Init
    /\ containerSeries = {}
    /\ plainSeries = {}
    /\ memory = [l \in DeviceSeries |-> "none"]
    /\ protected = [l \in DeviceSeries |-> "none"]
    /\ zeroed = {}
    /\ fingerprinted = {}
    /\ pending = {}
    /\ report = NoReport
    /\ deleting = "idle"
    /\ laidToRest = {}
    /\ relabelled = {}
    /\ escaped = {}

-----------------------------------------------------------------------------
(* GpuMetricsProvider.                                                      *)

WithValue(gauge, ls, v) == [l \in DeviceSeries |-> IF l \in ls THEN v ELSE gauge[l]]

\* Mutant: memory is set to zero and not guarded.
ZeroValuesOnce(ls) ==
    /\ memory' = WithValue(memory, ls, "zero")
    /\ protected' = WithValue(protected, ls, "zero")
    /\ UNCHANGED <<zeroed, containerSeries, plainSeries, fingerprinted>>

\* ZeroValues, under zeroedMu: guard the label sets and set their memory to zero.
ZeroValues(ls) ==
    /\ zeroed' = zeroed \cup ls
    /\ memory' = WithValue(memory, ls, "zero")
    /\ protected' = WithValue(protected, ls, "zero")
    /\ UNCHANGED <<containerSeries, plainSeries, fingerprinted>>

\* Mutant: the guard is not looked at.
SetMemoryValuesUnguarded(l, value, protectedValue) ==
    /\ memory' = WithValue(memory, {l}, value)
    /\ protected' = WithValue(protected, {l}, protectedValue)
    /\ UNCHANGED <<containerSeries, plainSeries, zeroed, fingerprinted>>

\* SetMemoryValues, under zeroedMu: nothing for a guarded label set; protected memory
\* is published from its first positive value on.
SetMemoryValues(l, value, protectedValue) ==
    IF l \in zeroed THEN UNCHANGED gaugeVars
    ELSE LET publish == l \in fingerprinted \/ protectedValue = "positive" IN
         /\ memory' = WithValue(memory, {l}, value)
         /\ protected' = IF publish THEN WithValue(protected, {l}, protectedValue) ELSE protected
         /\ fingerprinted' = IF publish THEN fingerprinted \cup {l} ELSE fingerprinted
         /\ UNCHANGED <<containerSeries, plainSeries, zeroed>>

\* DeleteValues: the container label sets one by one, then the per-device label sets
\* one by one, each through the vectors, the fingerprints and the guards in turn.
DeleteContainerSeries ==
    /\ deleting = "labels"
    /\ \E l \in sweep.containers :
         /\ containerSeries' = containerSeries \ {l}
         /\ sweep' = [sweep EXCEPT !.containers = @ \ {l}]
    /\ UNCHANGED <<plainSeries, memory, protected, zeroed, fingerprinted, deleting>>

\* The per-device label set that DeleteValues is at.
Deleted == CHOOSE l \in sweep.devices : TRUE

DeleteNext(step, next) ==
    /\ deleting = step /\ deleting' = next
    /\ sweep.containers = {} /\ sweep.devices # {}

\* Mutant: deleteZeroedPerDevice comes first.
DeleteMemoryAndGuard ==
    /\ DeleteNext("labels", "plain")
    /\ memory' = WithValue(memory, {Deleted}, "none")
    /\ zeroed' = zeroed \ {Deleted}
    /\ UNCHANGED <<sweep, containerSeries, plainSeries, protected, fingerprinted>>

DeleteMemory ==
    /\ DeleteNext("labels", "plain")
    /\ memory' = WithValue(memory, {Deleted}, "none")
    /\ UNCHANGED <<sweep, containerSeries, plainSeries, protected, zeroed, fingerprinted>>

\* Mutant: these vectors are left out.
DeletePlainForgotten ==
    /\ DeleteNext("plain", "protected")
    /\ UNCHANGED <<sweep, containerSeries, plainSeries, memory, protected, zeroed, fingerprinted>>

DeletePlain ==
    /\ DeleteNext("plain", "protected")
    /\ plainSeries' = plainSeries \ {Deleted}
    /\ UNCHANGED <<sweep, containerSeries, memory, protected, zeroed, fingerprinted>>

DeleteProtected ==
    /\ DeleteNext("protected", "fingerprint")
    /\ protected' = WithValue(protected, {Deleted}, "none")
    /\ UNCHANGED <<sweep, containerSeries, plainSeries, memory, zeroed, fingerprinted>>

DeleteFingerprint ==
    /\ DeleteNext("fingerprint", "zeroed")
    /\ fingerprinted' = fingerprinted \ {Deleted}
    /\ UNCHANGED <<sweep, containerSeries, plainSeries, memory, protected, zeroed>>

\* Mutant: the guard is kept.
DeleteZeroedForgotten ==
    /\ DeleteNext("zeroed", "labels")
    /\ sweep' = [sweep EXCEPT !.devices = @ \ {Deleted}]
    /\ UNCHANGED <<containerSeries, plainSeries, memory, protected, zeroed, fingerprinted>>

DeleteZeroed ==
    /\ DeleteNext("zeroed", "labels")
    /\ zeroed' = zeroed \ {Deleted}
    /\ sweep' = [sweep EXCEPT !.devices = @ \ {Deleted}]
    /\ UNCHANGED <<containerSeries, plainSeries, memory, protected, fingerprinted>>

-----------------------------------------------------------------------------
(* The informer's callbacks and the sweeper, with their gauges.             *)

\* The label sets of the containers that this step finishes; a container that is
\* inserted already finished is not among them.
SeriesFinished ==
    {[key |-> x[1], device |-> x[2], labels |-> gpuContainers'[x[1]].devices[x[2]]] :
        x \in {y \in Keys \X Devices :
                 /\ Stored(y[1]) /\ ~IsFinished(y[1])
                 /\ gpuContainers'[y[1]].finishedAt # 0
                 /\ gpuContainers'[y[1]].devices[y[2]] # NotSeen}}

Environment ==
    EnvironmentStep /\ UNCHANGED <<gaugeVars, pending, report, deleting, historyVars>>

InformerEvent(u) ==
    /\ ReconcilePod(u) \/ FinishDeletedPod(u)
    /\ ZeroValues(SeriesFinished)
    /\ laidToRest' = SeriesFinished \cup
         {l \in laidToRest : Stored(l.key) \/ gpuContainers'[l.key] = NoContainer}
    /\ relabelled' = relabelled \cup
         {k \in Keys : Stored(k) /\ LabelsOf(gpuContainers'[k]) # LabelsOf(gpuContainers[k])}
    /\ UNCHANGED <<pending, report, deleting, escaped>>

SweeperLocked ==
    /\ SweepStarts \/ PurgeExpired
    /\ UNCHANGED <<gaugeVars, pending, report, deleting, historyVars>>

DeleteValuesStarts ==
    /\ UnmapExpired
    /\ deleting' = "labels"
    /\ UNCHANGED <<gaugeVars, pending, report, historyVars>>

\* A guard that goes although its container is tracked again is not held to zero.
DeleteValuesStep ==
    /\ DeleteContainerSeries \/ DeleteMemory \/ DeletePlain \/ DeleteProtected
         \/ DeleteFingerprint \/ DeleteZeroed
    /\ laidToRest' = {l \in laidToRest : l \in zeroed' \/ l \notin zeroed \/ ~Stored(l.key)}
    /\ UNCHANGED <<podVars, gpuContainers, queue, pending, report, relabelled, escaped>>

DeleteValuesEnds ==
    /\ deleting = "labels" /\ deleting' = "idle"
    /\ sweep.containers = {} /\ sweep.devices = {}
    /\ SweepEnds
    /\ UNCHANGED <<gaugeVars, pending, report, historyVars>>

-----------------------------------------------------------------------------
(* The collector: collect samples NVML, then reportMetrics publishes.       *)

\* collect: NVML lists processes of these containers on these devices.  A container may
\* have terminated by the time its sample is reported, but not when it is taken.
Collect ==
    /\ report = NoReport /\ pending = {}
    /\ LET running == {x \in Keys \X Devices :
                          pod[x[1][1]].started >= x[1][2] /\ x[1] \notin dead}
       IN  pending' \in SUBSET running \ {{}}
    /\ UNCHANGED <<vars, gaugeVars, report, deleting, historyVars>>

\* Mutant: the labels are read before they are set.
LookUpBeforeSet(k, d) ==
    /\ GetMetricLabels(k, d)
    /\ report' =
         [step |-> "container",
          container |-> [key |-> k, labels |-> LabelsOf(gpuContainers[k])],
          device |-> [key |-> k, device |-> d, labels |-> gpuContainers[k].devices[d]]]

\* GetMetricLabelsAndValues under the store's lock; then the lock is released.
LookUp(k, d) ==
    \/ ~Stored(k) /\ UNCHANGED <<vars, report>>
    \/ /\ GetMetricLabels(k, d)
       /\ report' =
            [step |-> "container",
             container |-> [key |-> k, labels |-> LabelsOf(gpuContainers[k])],
             device |-> [key |-> k, device |-> d, labels |-> gpuContainers'[k].devices[d]]]

ReportNext ==
    /\ report = NoReport
    /\ \E x \in pending :
         /\ pending' = pending \ {x}
         /\ LookUp(x[1], x[2])
    /\ UNCHANGED <<gaugeVars, deleting, historyVars>>

\* What the collector writes for a container that has been purged meanwhile, or whose
\* present record does not have, or does not list for the device, these labels.
NoteEscape(k, listed) ==
    escaped' = IF listed THEN escaped ELSE escaped \cup {k}

Current(l) == Stored(l.key) /\ LabelsOf(gpuContainers[l.key]) = l.labels
Listed(l) == Stored(l.key) /\ gpuContainers[l.key].devices[l.device] = l.labels

\* Requests and Limits, unless calculatedValues is nil.
ReportContainer ==
    /\ report.step = "container"
    /\ \/ /\ containerSeries' = containerSeries \cup {report.container}
          /\ NoteEscape(report.container.key, Current(report.container))
       \/ UNCHANGED <<containerSeries, escaped>>
    /\ report' = [step |-> "total", device |-> report.device]
    /\ UNCHANGED <<vars, pending, plainSeries, memory, protected, zeroed, fingerprinted, deleting,
                   laidToRest, relabelled>>

ReportTotal ==
    /\ report.step = "total"
    /\ plainSeries' = plainSeries \cup {report.device}
    /\ NoteEscape(report.device.key, Listed(report.device))
    /\ report' = [report EXCEPT !.step = "memory"]
    /\ UNCHANGED <<vars, pending, containerSeries, memory, protected, zeroed, fingerprinted, deleting,
                   laidToRest, relabelled>>

\* The process has memory in use, and protected memory or none.
ReportMemory ==
    /\ report.step = "memory"
    /\ \E protectedValue \in {"zero", "positive"} :
          SetMemoryValues(report.device, "positive", protectedValue)
    /\ NoteEscape(report.device.key, Listed(report.device))
    /\ report' = [report EXCEPT !.step = "counters"]
    /\ UNCHANGED <<vars, pending, deleting, laidToRest, relabelled>>

\* The utilization counters and the accounting gauges.
ReportCounters ==
    /\ report.step = "counters"
    /\ plainSeries' = plainSeries \cup {report.device}
    /\ NoteEscape(report.device.key, Listed(report.device))
    /\ report' = NoReport
    /\ UNCHANGED <<vars, pending, containerSeries, memory, protected, zeroed, fingerprinted, deleting,
                   laidToRest, relabelled>>

CollectorStep ==
    \/ Collect
    \/ ReportNext
    \/ ReportContainer
    \/ ReportTotal
    \/ ReportMemory
    \/ ReportCounters

ExporterNext ==
    \/ Environment
    \/ \E u \in Pods : InformerEvent(u)
    \/ SweeperLocked
    \/ DeleteValuesStarts
    \/ DeleteValuesStep
    \/ DeleteValuesEnds
    \/ CollectorStep

ExporterSpec == ExporterInit /\ [][ExporterNext]_exporterVars

-----------------------------------------------------------------------------
(* Properties.                                                              *)

\* A guarded label set never shows memory in use: SetMemoryValues and ZeroValues take
\* turns under zeroedMu, and DeleteValues drops the series before the guard.
GuardedReadsZero ==
    \A l \in zeroed : memory[l] # "positive" /\ protected[l] # "positive"

\* A container that finished, and is still stored, shows zero on every device it was
\* zeroed on, whatever the collector had in flight when it finished: its series neither
\* come back to life nor vanish before the purge.  One exception: while DeleteValues still
\* works on what an earlier record of the container had published, it deletes the zeros
\* that its new record finished with, and then their guard (laidToRest leaves them out).
FinishedStaysZero ==
    \A l \in laidToRest :
        Stored(l.key) =>
            {memory[l], protected[l]} \subseteq
                {"zero"} \cup {v \in {"none"} : l \in sweep.devices}

\* No series outlives its container unnoticed: once the container is purged, a series of
\* it remains only while DeleteValues still has it to delete, or when the collector wrote
\* it after the store had dropped the record it looked up, or when the container's labels changed while it was stored, so
\* that the store no longer knew what had been published under the old ones.
LeaksExplained ==
    LET accounted(l) ==
            \/ Stored(l.key) \/ l \in sweep.containers \cup sweep.devices
            \/ l.key \in escaped \cup relabelled IN
    /\ \A l \in containerSeries \cup plainSeries : accounted(l)
    /\ \A l \in DeviceSeries : memory[l] # "none" \/ protected[l] # "none" => accounted(l)

\* Guards and fingerprints live no longer than what they are for, so that neither map grows
\* with the containers that come and go: after the purge a guard remains only while
\* DeleteValues has it to delete, or for labels that its container no longer had.  The
\* collector adds no guard, however late it is, but a late report may add a fingerprint.
GuardsExplained ==
    LET accounted(l) == Stored(l.key) \/ l \in sweep.devices \/ l.key \in relabelled IN
    /\ \A l \in zeroed : accounted(l)
    /\ \A l \in fingerprinted : accounted(l) \/ l.key \in escaped

\* What a purged container left at zero stays so while DeleteValues deletes it, whatever a
\* late report writes between two of its steps: the guard is there until the series are gone
\* (deleteZeroedPerDevice last, prometheus.go:182).
SweptStaysZero ==
    \A l \in laidToRest \cap sweep.devices : "positive" \notin {memory[l], protected[l]}

\* A purged container shows memory in use again in one case only: the collector wrote for
\* it under labels that its record, gone or changed since the look-up, did not list.
\* Nothing that the store or DeleteValues does, in whatever order, brings a zeroed series
\* back.
ResurrectedOnlyLate ==
    \A l \in laidToRest :
        ~Stored(l.key) /\ "positive" \in {memory[l], protected[l]} => l.key \in escaped

\* A container that was zeroed and then purged never shows memory in use again
\* (prometheus_test.go:253, TestSetMemoryValuesDoesNotResurrectZeroedContainer).
NeverResurrected ==
    \A l \in laidToRest : ~Stored(l.key) => memory[l] # "positive"
=============================================================================
