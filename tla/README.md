# Verification of GPU Process Exporter

TLA+ models of the exporter, TLC runs that check them on small instances, and TLAPS proofs
about every one of its components that has state: the safety properties of all passing runs are
theorems. Line numbers refer to the
Go sources under `src/pkg` and `src/cmd`.

## The system

One process per node. It learns from NVML which host pids use which GPU, maps each pid
to a pod's container through `/proc/<pid>/cgroup`, learns from the API server which
containers exist and when they finish, and publishes Prometheus gauges per container
and per container and GPU.

| Component | State | Operations | Called by |
| --- | --- | --- | --- |
| Mapper (`process/mapper.go`) | `pidToContainer`, `containerToPids` under `mu` | `GetContainerKey`, `RemoveContainerKeys`, `Clear` | collector; sweeper |
| Store (`kube/store.go`) | `gpuContainers` under `gpuContainersMu` | `reconcilePod`, `finishDeletedPod`, `GetMetricLabelsAndValues` | informer; collector |
| Cleanup scheduler (`kube/heap.go`) | heap and `queued`, under the store's lock | `enqueue`, `StartSweeper`, `purge` | store; its own ticker |
| Container record (`model/container.go`) | labels, per-device label cache, finish time, calculated values | `ConditionallySet`, `ResetDeviceLabelCache`, `calculate` | store |
| Metrics provider (`prometheus/prometheus.go`) | vectors, `zeroedPerDevice` under `zeroedMu`, `fingerprintsByGauge` under `fingerprintsMu` | `ZeroValues`, `SetMemoryValues`, `DeleteValues`, HTTP server | informer (under the store's lock); collector; sweeper |
| Collector (`nvml/metrics.go`) | devices, last seen timestamps | `Run`, `collect`, `reportMetrics` | its own ticker |
| Configuration and values (`config/config.go`, `value/value.go`) | the `Config`, once | `loadConfig`, `ParseValueOrDefault` | main, at start |
| Main (`cmd/main.go`) | the context, `errCh` | `run` | the runtime; signals |

Four goroutines meet in this state: the informer's, the sweeper's, the collector's and
the HTTP server's. The kernel and the API server change what they read at any moment.

What is hard here, and where the properties aim:

* **pids are reused** between two system calls of one lookup, and a cached entry is
  validated by an inode read after the lock was released;
* **informer events** lag, repeat, skip versions and come as tombstones, so that a
  container's end may be seen early, late, twice or only through its pod's deletion, and not
  at all if another pod takes its pod's name while the watch is broken;
* **label values outlive the lock** under which the collector reads them, while the
  informer zeroes and the sweeper deletes the same series;
* **caches of labels and values** (per device labels, the guards keyed by their fingerprint,
  requests and limits) must follow what they were built from;
* **samples** arrive in a buffer that polls cut anywhere, and each is weighed by the time since
  the one before it, be it in this poll or an earlier one;
* **start and end** involve seven goroutines, any of which may fail first, with a signal at
  any moment, and two results that main waits for one after the other.

`PROJECT.json` lists each hazard at its line with the properties that cover it.

## Modules

| Module | What it is |
| --- | --- |
| `ProcFs` | external: `/proc`, its inodes and cgroups |
| `ContainerKeyService` | what `GetContainerKey` promises, without a cache |
| `Mapper` | `mapper.go`, one action per system call or section under `mu` |
| `MapperProofs` | theorems about `Mapper` and their proofs |
| `Pods` | external: pod objects, the clock, the informer's delivery |
| `ContainerLifecycle` | what the store promises about one container |
| `Store` | `store.go`, `heap.go` and the labels and finish time of `container.go` |
| `StoreProofs` | theorems about `Store` and their proofs |
| `Exporter` | `Store` composed with `prometheus.go` and the report loop of `metrics.go` |
| `ExporterProofs` | theorems about `Exporter` and their proofs |
| `GuardProofs` | theorems about what stays in its guards and fingerprints, and what they keep at zero |
| `PodSpec` | which containers of a pod object ask for GPUs, and what: `store.go` 340-489, no state |
| `PodSelection` | a theorem: `Store` and `PodSpec` select the same containers |
| `GpuShare` | requests, limits and total memory of an ask: `calculate` of `container.go`, no state |
| `Collector` | polls, samples, weights and the report of `metrics.go`, with the store's cached values |
| `Sums` | lemmas about sums over finite sets |
| `CollectorProofs` | theorems about `Collector` and their proofs |
| `Config` | `config.go`, `value.go` and the ticker interval of `heap.go`, no state |
| `Main` | the process from start to end: `main.go`, `NewStoreFromConfig`, `ListenAndServe`, `Run`, `StartSweeper` |
| `MainProofs` | theorems about `Main` and their proofs |
| `MCMapper`, `MCStore`, `MCExporter`, `MCCollector`, `MCMain` | small instances for TLC |

Definitions marked `Mutant:` are wrong versions of the definition below them. Nothing
uses them; substituting one makes the property it is paired with in `PROJECT.json` fail.

### Mapper

`pidToContainer` and `containerToPids` are the Go maps: an absent entry is `NoEntry`, an
absent set is the empty one. A call of `GetContainerKey` is the sequence `ReadCache` (RLock),
`StatCached` or `StatProcess` (`os.Stat`), `EvictStale` (lock), `ParseCgroup`, `VerifyInode`
(`os.Stat` again) and `Publish` (lock); other callers, removals and the kernel run between
any two. `ProcFs` says what the code takes for granted: an inode number is not given to two
directories, and a process does not leave its container. The inode of a live process
*may* change, as procfs may drop and re-create it. A cgroup file names one container or it does
not; the regular expression is not modelled.

`ContainerKeyService` keeps, per call in progress, the set `seen` of what `/proc` showed
for the pid since the call began. An answer must be a container seen in it, a failure
needs a reason in it. `Mapper` extends the service's variables, so the refinement mapping
is the identity: `ImplementsService` is `[][ServiceNext]_serviceVars`.

### Store

`gpuContainers[<<pod, id>>]` is the record of a container or `NoContainer`. Every section
under `gpuContainersMu` is one action: `ReconcilePod` handles all containers of the object,
as the two loops of `reconcilePod` do; `FinishDeletedPod` handles the present object or
a tombstone's old one. The heap and its index hold the same items and are changed
together, and an item leaves them when its container leaves the store, so both are
`queue[k]`, the expiry time. `purge` is four steps: the time is read (`SweepStarts`), the
expired containers are popped under the lock (`PurgeExpired`), the mapper forgets them
(`UnmapExpired`), `DeleteValues` runs (`SweepEnds` is its return).

`Pods` reduces a pod object to what these decisions read. Which containers ask for
`nvidia.com/gpu` is `resource`, the container the KAI annotations select is `kai`, a
status is the current and the previous container id with their termination times. An event
carries the object of its moment; events may be lost, repeated and delayed (until the
horizon, see below). The informer knows pods by namespace and name, the store by UID: `Supplants(u)`
is a relist after a broken watch that finds another pod under the name of the deleted `u`. To the store
this is an update whose old object it ignores (`store.go:123`), so `u` gets no delete event. The other
pod's own delivery is a `Delivers` of that pod, and not tied to the step.

`ContainerLifecycle` is the abstract specification: a container is absent, running or
finished at a time that never changes, and a finished one is forgotten not before `TTL`
after that time. `Store` implements it under the mapping in `Store!Lifecycle`.

### Exporter

The gauges that are written alike are one variable (the module's heading says which), with
values `"none"`, `"zero"` and `"positive"`. `ZeroValues` and `SetMemoryValues` hold `zeroedMu`
and are one step each; `ZeroValues` is part of the informer's action, as it is called under
the store's lock. `DeleteValues` holds no lock across its writes: it is one step per
group of vectors and per label set. The collector's loop is `Collect` (the samples),
`ReportNext` (the lookup under the store's lock) and four writes after it.

Three history variables make the properties precise: `laidToRest` (the label sets zeroed
when the latest record of a container finished), `relabelled` and `escaped` (written by the
collector for a record the store had dropped).

### PodSpec, GpuShare, Collector

`Store` leaves out what a container asks for, and `Exporter` what the gauges say; these three
modules are about exactly that. `PodSpec` reads a pod object as `desiredGpuContainersForPod`
does: resources of containers and init containers, a reservation's exclusion, the container KAI's
annotations select, and the annotations' precedence. `GpuShare` is `calculate`: an integer count
from the resources, else a fraction, else memory over the device's memory, times the
number of devices. A float is a numerator and a denominator, over zero for the infinities and NaN, which
`strconv.ParseFloat` accepts in an annotation; `gpu-memory` is multiplied in words of
`WordSize`, as `uint64` is. Where `calculate` returns an error the result is `Nil`, and
the cache stays empty.

`Collector` counts time in sampling periods. `Samples` is the driver: the processes it found busy
in the next period. `Collect` is one poll of `collect`. It chooses which streams (device
and kind of utilization) can be read, which of the listed and the sampled pids resolve to a
container, and which listed process of an entry the map iteration reaches last; groups, weights and
`lastSeen` are as the code computes them. `LookUp` and `Publish` are the report loop, cut where the
store's lock is released; `ReconcilePod` is the informer's callback, at any point between them.
A pid resolves or not for a whole poll, a simplification: the code asks the mapper for every
sample. Not modelled: devices appear once and for all (in the code a device whose name
or memory cannot be read is skipped in that poll, which here is a poll that reads and lists nothing of
it); the driver's ring buffer never overflows.

Three history variables: `lost` is utilization that was read and knowingly dropped
(its pid did not resolve, or its container was not stored), `upToDate` the containers published
since their last update, `used` the memory of all listed processes of an entry.

`EverySampleWeighedOnce` says what the sum of all this is: whatever was read up to
`lastSeen` is counted, waiting or lost, each sample with its weight, once. The weight is the
time since the previous sample *of the device*, so the first sample after an idle gap weighs
the gap: the property states this as the code does it, and `PROJECT.json` lists it as a hazard.

### Config, Main

`LoadConfig` maps an environment to a configuration or to an error. A setting is a value
of its type or `Unparsable`, for which `ParseValueOrDefault` takes the default. `MaxDuration` is the
largest duration, of any width.

`Main` has one variable per goroutine, saying where it stands, and one action per step that another
goroutine can see: a receive from or a send on a channel, a close, a select's branch, a call that
may fail. `errCh` is the sequence `sent` of results with the number `received`; `stopCh` and the
context are Booleans. A select with two ready branches is a choice. The process ends when `run`
returns, when a goroutine panics (`NewTicker` on no interval, `ServeMux.Handle` on a malformed
pattern, a second close), or by a signal after `stop()` has given signals back. The polls and purges
themselves are one step here; `Collector`, `Exporter` and `Store` are about them. `http.Server` is
modelled as its documentation and its use in `ListenAndServe` say: `Shutdown` makes `ListenAndServe`
return `ErrServerClosed`, and gives up at its deadline.

## Runs

| Run | Instance | Shows |
| --- | --- | --- |
| `mapper_index` | 2 pids, 2 containers, 2 callers, 2 inodes | `IndexesAgree`; `RemovalIsExact`: a removal by container misses no pid and takes no other; `CacheTrue`, `ImplementsService` |
| `mapper_reuse` | 2 pids, 2 containers, 1 caller, 3 inodes | `CacheTrue`, `ImplementsService`: no answer for another process; `SettledPidIsMapped` |
| `store` | 1 pod, 1 slot, 2 container ids, time to 4 | finish on evidence, once, scheduled then; the lifecycle |
| `store_live` | 1 pod, 1 container, 1 device, 2 names | finished containers are forgotten, and pods whose deletion was delivered; `DeviceNamesCurrent` |
| `exporter` | 1 container with KAI annotations that come and go twice, 1 device | finished containers show zero until their purge and while it deletes them, and what may undo it afterwards |
| `exporter_relabel` | 1 container of `nvidia.com/gpu` that KAI annotations may select too, 1 device | which series, guards and fingerprints can leak |
| `process` | any environment over six durations of 4 bits and three ports | the process's end: `Terminates`, the first error; server, collector and NVML stopped (`NothingLeftRunning`; the sweeper and the informer end with the process) |
| `collector` | a container and a sidecar, 3 processes on 2 devices, 1 of them sampling, 3 steps of the environment | utilization adds up; requests and limits follow the pod |
| `stale_device_labels` | 1 container of `nvidia.com/gpu` or KAI, 1 device, `Store` only | **violated**, finding 1 |
| `late_report` | 1 container, 1 device | **violated**, finding 2 |
| `memory_of_processes` | 1 container, 2 processes, 1 device | **violated**, finding 3 |
| `supplanted_pod` | 1 pod, 1 container, `Store` only | **violated**, finding 4 |

Bounds. Three inodes let a pid be reused twice: once under a cached entry and again while that stale
entry is being replaced. Two callers let one replace an entry that the other still reads; both at
once are too many states for TLC, and `MapperProofs` covers them. Symmetry over pids, callers and
containers is sound because nothing distinguishes them (no liveness is checked under it). Two
container ids give a restart with a previous status. In `store`, pods change at times 1 and 2, the
time to live is 1, a deletion timestamp lies 1 ahead and statuses come up to 1 late: what finishes
at 1 or was late expires while events still come, so that a container is tracked anew after its
purge and another finishes while a purge waits for the lock; what finishes at 2 or in the future
expires after the last event. One pod suffices for the store: no action relates two pods but
`PurgeExpired`, which treats them separately. In the exporter's runs `TTL` is 0: a purge may follow
a finish at once. In the program this happens when the termination is reported later than the time
to live, so it is the worst case. `exporter_relabel` leaves out containers that ask for no
`nvidia.com/gpu`: their labels never change, and `exporter` has them. `Horizon` is a bound of the
model: pods change and events come only until then, and the clock goes on until everything finished
has expired.

In `collector`, `MaxSteps` bounds sampling periods and deliveries together to 3: two groups in one
poll, two polls with a failed read between them, a gap, and an update between a look-up and its
publication all happen within three. The first device runs a process of each container, so that the
samples of one decide the weights of the other's; the second one has an idle process, so that a
container has two entries, of devices of different memory. Words of 16 and a `MiB` of 4 let an
annotation of 4 wrap to nothing; memory sizes 4 and 8 with fractions of tenths make integer and real
arithmetic differ. Several processes of one container on one device are in `memory_of_processes`.
One pod object asks for a fraction that is NaN. `process` needs no bound of its own: `errCh` holds
two results. Its durations include what validation refuses and the interval without a half (1).

Fairness. `mapper_reuse` assumes that a call that can go on does (system calls return), and that the
collector asks about every pid again and again (it polls on a ticker; strong, as each caller asks
about one pid at a time). `store_live` assumes that time passes, that the sweeper's ticker fires and
`purge` returns. Nothing else is fair: no update and no deletion need ever be delivered, as
client-go does not promise either for each UID (finding 4). So `DeletedPodIsForgotten` starts from a
deletion that was delivered. `process` assumes that each goroutine runs on and each call it makes
returns, NVML's included; `Shutdown` does within its five seconds. Strong fairness stands for a
select that finds `ctx.Done()` ready whenever it is reached: it will not take the ticker's branch
for ever. Nothing makes the informer sync, a client scrape or a signal come.

### Findings

1. **Per-device labels keep the old allocation type** (`store.go:520`). `updateGpuContainer` resets
   the per-device label cache when a name changes, but not when `GpuAllocationType` does. A
   container of `nvidia.com/gpu` whose pod gains or loses KAI annotations is then published under
   two values of `gpu_allocation_type`; after the purge the `Requests` and `Limits` series of the
   earlier type remain. `DeviceNamesCurrent` says that of the names none is ever stale.
2. **A late report resurrects a purged container** (`metrics.go:476`). Between
   `GetMetricLabelsAndValues` and the writes that use its labels, a purge may delete both the series
   and the guard; the writes then create the series again, and nothing deletes them.
3. **The memory of one process stands for all** (`metrics.go:142`). For a container with several
   processes on a device `collect` overwrites `MemoryBytes` with each process's memory in map order,
   so the gauge and the footprint show an arbitrary one of them.
4. **A supplanted pod stays** (`store.go:123`). A pod of a StatefulSet, say, that is deleted and
   created again under its name while the watch is broken is one update to client-go. `UpdateFunc`
   ignores the old object, so the containers of the old UID are never finished, nor purged.
   `store_test.go:178` tests deletion with an unbroken watch only.

Read in the code, with no run of its own: the repository's README (line 64) calls
`kubex_gpu_container_memory_total_bytes` the "Total memory for the GPU". For a container with a
fraction or memory annotation the gauge shows its share of that (`container.go:209`,
`container.go:211`, `metrics.go:471`), as `container_test.go:139` expects, and the footprint is a
percentage of the share. `GpuShare` models the code.

`ResurrectedOnlyLate` says how far finding 2 goes: no other order of zeroing, purging and publishing
brings a zeroed series back. It excuses any late report; `SweptStaysZero` does not, and says that
none gets through while `DeleteValues` is at work, because the guard goes last. `FinishedStaysZero`
is about the devices zeroed when the container finished, not about one looked up for the first time
afterwards. It has one exception, stated with it: a container that is tracked and finished anew
while `DeleteValues` still works on its earlier record loses its zeros, then their guard.

## Proofs

`MapperProofs` proves, for every set of pids, containers and callers and every number of
inodes, from the assumptions named in `ProcFs` and `ContainerKeyService` alone:

* `TypeCorrect`, `IndexesAlwaysAgree`, `CacheAlwaysTrue`: the invariants of the runs;
* `RemovalForgets`: `RemovalIsExact`, from `IndexesAgree`, as the reverse index is all it looks at;
* `Implementation`: `Mapper` implements `ContainerKeyService`.

Neither `IndexesAgree` with `CacheTrue` nor the refinement is inductive alone. `IInv` adds
`CallsTrue`, what a call in progress knows at each step: the entry it read from the cache was true,
the inode it statted is among the views it has `seen`, and the container it parsed is that of
a view in `seen`, of that very inode once it is verified. `CacheTrue` then survives `Publish`
because inodes are not reused: `cgroup[inode[t]]` cannot have changed from one container to another.
Each action has a lemma per conjunct it disturbs; the temporal theorems combine them.

`StoreProofs` proves, for every set of pods, container names, devices and values of the bounds,
from the assumptions named in `Pods` and `Store` alone:

* `StoreTypeCorrect`, `AlwaysScheduledOnce`, `AlwaysFinishedOnEvidence`: the invariants of `store`;
* `NamesAlwaysCurrent`: the invariant of `store_live`;
* `StoreImplementsLifecycle`: `Store` implements `ContainerLifecycle`.

Here `IInv` adds two facts. `StatusTrue`: a termination time in a pod's object belongs to a
container the kubelet did report terminated; without it a finish time read from the status would be
no evidence. `SweepInPast`: the time `purge` read is not ahead of the clock; with `ScheduledOnce` it
gives that what is popped has been finished for `TTL`. Every action has a lemma that concludes
`StepGood`: `IInv'` and, for each container, `LifeStep`, the change of one life that the refinement
needs. Invariance and refinement both follow from these lemmas. `ReconciledContainer` and
`DeletedContainerType` say of the callbacks' record updates what those lemmas use: the finish time
is written once, and on evidence. `DeviceNamesCurrent` needs no strengthening but `IInv`'s types;
`UpdatedNames`, `FinishedNames` and `ReconciledNames` say that each update of a record keeps it,
`NamesStep` that each step does.

`ExporterProofs` proves, for every set of pods, container names, devices and values of the bounds, from
the assumptions that `StoreProofs` has and no other:

* `ExporterTypeCorrect`, `GuardsHold`, `FinishedShowsZero`, `LateReportsAlone`, `SeriesAccounted`:
  the invariants of `exporter` but one, and of `exporter_relabel` the one on series;
* `ExporterKeepsStore`, `ExporterKeepsNames` and `ExporterImplementsLifecycle`: what `Store`
  promises alone it promises with gauges and a collector that looks labels up.

`ExporterInv` adds to the store's `IInv` three facts. `RestGuarded`: what `ZeroValues` zeroed is guarded
as long as its container is stored, and shows zero unless `DeleteValues` has it to delete;
`FinishedStaysZero` is this and `GuardedReadsZero`. It also makes `ResurrectedOnlyLate` inductive
(`RestKept`): at its purge a container is at zero, and after it only a write can change that. `Phases`:
`DeleteValues` writes only in purge's last step, and has nothing to delete before. `SeriesKnown` carries
`LeaksExplained`, which is not inductive: that a series' container is stored says nothing of what the
purge will delete. So each series must be *known*: the container's present record lists its very labels,
or `DeleteValues` has it to delete and is not past the vector in question (`MemoryDone`, `PlainDone`,
`ProtectedDone`), or its container is one that was written for late or relabelled. The lemmas on labels
(`ReconciledLabels`, `DeletedLabels`) say that a callback either changes a record's labels, which
`relabelled` notes, or keeps all that are listed, and that a record which finishes lists a label set for
each device it was seen on; `PurgeNotes`, that a purge pops all that a record lists. Steps that touch no
gauge are covered by one lemma, `QuietKeeps`, those of `DeleteValues` by one for each vector, those of
the report by `WriteKeeps`.

`GuardProofs` proves, from the same assumptions, that `zeroedPerDevice` and `fingerprintsByGauge` do
not grow with the containers that come and go: `GuardsAccounted`, the other invariant of
`exporter_relabel`. `GuardsKnown` is to it what `SeriesKnown` is to `LeaksExplained`: a guard is of
labels that a record lists or that `DeleteValues` has to delete, or its container was relabelled; a
fingerprint, dropped one step earlier, may also be that of a late report. For guards a late report
is no excuse, as `SetMemoryValues` reads them and adds none. `SweptShowsZero` proves
`SweptStaysZero`, the remaining invariant of `exporter`: `RestSwept`, that what is at rest and still
to be deleted has its guard, holds at the purge by `RestGuarded` (`PurgeRestSwept`) and then because
a label set leaves the list in the step that drops its guard.

`CollectorProofs` proves, for any devices, streams, processes, containers, samples and pod objects, from
the assumptions named in `GpuShare` and `Collector`: `CollectorTypeCorrect`, `SamplesWeighed`,
`RequestsAreAsked` and `DivisorAsked`, the invariants of `collector`. The assumptions are that
processes are finitely many, that pod objects have the types the API server admits (`WellTyped`),
that a device has memory, and that `Nil`, `NotStored` and `Idle` are not values of the kind they
stand in for. The argument has two halves:

* *Weights.* `SeenIsSample` (a stream has been read up to a sample of its device, or not at all)
  makes the weight that a poll gives to a group, from `lastSeen` or from the group before it, the
  span since the previous sample of the device (`WeightIsSpan`), which does not mention polls. A
  poll's utilization of all processes is then the sum of those spans over the samples it is the
  first to read (`PollWeighs`), and what it counts and what it drops add up to that
  (`UtilizationAdds`). New samples change no earlier span.
* *Asks.* `ValuesOfAsk` (a cached value is calculated from the stored ask) and `ReportOfAsk` (what
  is about to be published is, too, unless the ask changed after the look-up, and then the container
  does not count as up to date) make `RequestsFollowAsk` inductive. `CalculateType` says when
  `calculate` fails, which no device decides, and when its total memory is nothing to divide by.
  From `RequestsFollowAsk`, which allows the values of any one device, `CacheFitsAllDevices`
  follows: unless the ask is one of `gpu-memory`, the values cached for the first device looked up
  are those of all (`SameOnAllDevices`).

`Sums` has what these sums need of the community modules' `SumFunctionOnSet`, whose fold chooses its
order: the fold's function exists and is unique (`SumExists`, `SumUnique`), an element can be taken
out whatever the choice (`SumTakes`), and sums split over disjoint sets, agree where the functions
do and add. An induction theorem cannot be instantiated by the provers; in its place
`SmallestSubset` gives, of the subsets that violate a claim, one that has no smaller one among them,
from the well-foundedness of strict inclusion.

`PodSelection` relates the two models of `desiredGpuContainersForPod`. `Store` knows of a pod object
which slots ask for `nvidia.com/gpu` and which one KAI selects; `PodSpec` knows why.
`SameSelection`: for every pod, and every object that says of it what `Store` keeps (`Abstracts`),
both track the same containers and give them the same allocation type. It rests on
`OneKaiContainer`: the annotations select at most one.

`MainProofs` proves, for every environment, every width of a duration and every default, from the
assumptions named in `Config` alone: `TypeCorrect`, `ExitIsFirstError`, `ExitLeavesNothing`,
`CleanExitWasAsked` and `PanicsExplained`, all invariants of `process`. The inductive
invariant `Inv` adds what main may rely on where it stands: `BootsAlone` (nothing but the store runs
before it has synced), `Accounts` (`errCh` holds one result for each goroutine that has
ended, and main has taken at most one while it waits for the second), `NilMeansCancelled` (no
goroutine ends without an error unless the context is done), `CancelledBySignal` (before main has
an error in hand, only a signal ends the context) and `NvmlOpen`. That a clean exit was asked for
then follows through three of them: a nil result means a done context, which before an
error means a signal. There is one lemma for each group of actions, in it one step per action.
`ConfigType` and `HalfOfOne` say of the configuration what the steps use.

Only model-checked: liveness, which is beyond TLAPS as it needs fairness and ENABLED
(`SettledPidIsMapped`, `FinishedIsPurged`, `DeletedPodIsForgotten`, `Terminates`), and the four
findings, where a counterexample is what is shown. Every invariant, and every action or refinement
property, of a passing run is a theorem.

## Not modelled

The regular expressions and file scanning; how strings parse into numbers, quantities and
durations (whether they do is modelled); NVML accounting and protected memory; the discovery of
devices; `HOST_PROC_MOUNT_POINT`; the array inside `container/heap`; the HTTP exchange of a
scrape. FNV-1a collisions between label sets are excluded. A GPU quantity that is no integer, which
the API server refuses, is not considered in `PodSpec`. The scripts and the dashboard have no
state.

## Plan

Done: `ProcFs`, `ContainerKeyService`, `Mapper`; `Pods`, `ContainerLifecycle`, `Store`; `Exporter`;
`PodSpec`, `GpuShare`, `Collector`; `Config`, `Main`; for each of them the theorems above.

Left: accounting statistics and protected memory in `Collector`, which share the fate of
`MemoryBytes` where a container has several processes; devices that are skipped in a poll; and a
pid's container looked up anew for each sample, with `Mapper` composed.
