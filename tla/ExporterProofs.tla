--------------------------- MODULE ExporterProofs ---------------------------
(***************************************************************************)
(* Proofs about Exporter, for any pods, containers, devices, labels and     *)
(* bounds: what a finished container shows, and which series may outlive    *)
(* their container, whatever the collector, the informer's callbacks and a  *)
(* purge without the lock do to each other.                                 *)
(***************************************************************************)
EXTENDS Exporter, StoreProofs

\* What keeps a finished container at zero while it is stored is its guard; only a
\* DeleteValues that is about to drop the guard, too, takes the zeros away.
ShowsZero(l) == l \in sweep.devices \/ (memory[l] = "zero" /\ protected[l] = "zero")
RestGuarded == \A l \in laidToRest : Stored(l.key) => l \in zeroed /\ ShowsZero(l)

\* There is nothing to delete before purge has popped something, and DeleteValues runs in
\* purge's last step only.
Phases ==
    /\ sweep.step \in {"idle", "purge"} => sweep.containers = {} /\ sweep.devices = {}
    /\ deleting # "idle" => sweep.step = "delete"

\* What DeleteValues has deleted already of the label set that it is at.
MemoryDone == {"plain", "protected", "fingerprint", "zeroed"}
PlainDone == {"protected", "fingerprint", "zeroed"}
ProtectedDone == {"fingerprint", "zeroed"}

Excused(l) == l.key \in escaped \cup relabelled

\* Somebody knows that a per-device series exists: the store, which lists its labels, or
\* DeleteValues, which has it still to delete.
Known(l, done) ==
    \/ Listed(l)
    \/ l \in sweep.devices /\ ~ (deleting \in done /\ l = Deleted)
    \/ Excused(l)

SeriesKnown ==
    /\ \A l \in containerSeries : Current(l) \/ l \in sweep.containers \/ Excused(l)
    /\ \A l \in plainSeries : Known(l, PlainDone)
    /\ \A l \in DeviceSeries : memory[l] # "none" => Known(l, MemoryDone)
    /\ \A l \in DeviceSeries : protected[l] # "none" => Known(l, ProtectedDone)

ExporterInv ==
    /\ IInv
    /\ ExporterTypeOK
    /\ GuardedReadsZero
    /\ RestGuarded
    /\ ResurrectedOnlyLate
    /\ Phases
    /\ SeriesKnown

-----------------------------------------------------------------------------
(* What a step may do to the labels of a container's record.                *)

\* The labels under which a record's series are published stay.
LabelsKept(c, r) ==
    /\ LabelsOf(r) = LabelsOf(c)
    /\ \A d \in Devices : c.devices[d] \in Labels => r.devices[d] = c.devices[d]

\* A record that finishes lists labels for every device that it has seen.
AllLabelled(r) == \A d \in Devices : r.devices[d] \in Labels \cup {NotSeen}

LEMMA FinishedLabels ==
    ASSUME NEW c \in Containers, NEW at \in Nat
    PROVE  /\ LabelsKept(c, FinishedContainer(c, at))
           /\ at # 0 => AllLabelled(FinishedContainer(c, at))
<1>1. Labelled(c) \in [Devices -> Labels \cup {NotSeen}]
  BY LabelsType
<1>2. \A d \in Devices : c.devices[d] \in Labels => Labelled(c)[d] = c.devices[d]
  BY StoreAssumption DEF Labelled
<1>3. CASE at = 0
  BY <1>3 DEF FinishedContainer, LabelsKept
<1>4. CASE at # 0
  <2> DEFINE r == [c EXCEPT !.finishedAt = at, !.devices = Labelled(c)]
  <2>1. FinishedContainer(c, at) = r
    BY <1>4 DEF FinishedContainer
  <2>2. r.name = c.name /\ r.alloc = c.alloc /\ r.devices = Labelled(c)
    BY DEF Containers
  <2> HIDE DEF r
  <2> QED
    BY <1>1, <1>2, <2>1, <2>2 DEF LabelsKept, AllLabelled, LabelsOf
<1> QED
  BY <1>3, <1>4

LEMMA UpdatedLabels ==
    ASSUME NEW c \in Containers, NEW p \in Objects, NEW s \in Slots
    PROVE  LabelsOf(Updated(c, p, s)) # LabelsOf(c) \/ LabelsKept(c, Updated(c, p, s))
<1> DEFINE u == Updated(c, p, s)
<1>1. u.name = p.name /\ (c.name = p.name => u.devices = c.devices)
  BY DEF Updated, Containers
<1>2. c.name # p.name => LabelsOf(u) # LabelsOf(c)
  BY <1>1 DEF LabelsOf
<1> QED
  BY <1>1, <1>2 DEF LabelsKept

\* Unless reconcilePod changes the labels of a record, it keeps those that are listed; and
\* one that it finishes it labels for all devices.
LEMMA ReconciledLabels ==
    ASSUME PodsTypeOK, NEW c \in Containers, NEW p \in Objects, NEW id \in Ids
    PROVE  LET r == Reconciled(c, p, id) IN
           /\ LabelsOf(r) # LabelsOf(c) \/ LabelsKept(c, r)
           /\ c.finishedAt = 0 /\ r.finishedAt # 0 => AllLabelled(r)
<1> DEFINE slots == DesiredSlots(p, id)
           slot == CHOOSE s \in slots : TRUE
           r == Reconciled(c, p, id)
<1>0. (slots # {} => slot \in Slots) /\ c # NoContainer
  BY ContainerAssumption DEF DesiredSlots
<1>1. CASE slots # {}
  <2> DEFINE update == Updated(c, p, slot)
             at == ObservedFinishedAt(p, slot, id)
  <2>1. r = IF c.finishedAt # 0 THEN update ELSE FinishedContainer(update, at)
    BY <1>0, <1>1 DEF Reconciled
  <2>2. update \in Containers /\ update.finishedAt = c.finishedAt /\ at \in Nat
    BY <1>0, <1>1, UpdatedType, ObservedType
  <2>3. LabelsOf(update) # LabelsOf(c) \/ LabelsKept(c, update)
    BY <1>0, <1>1, UpdatedLabels
  <2> HIDE DEF update, at
  <2>4. LabelsKept(update, FinishedContainer(update, at))
    BY <2>2, FinishedLabels
  <2>5. LabelsOf(r) # LabelsOf(c) \/ LabelsKept(c, r)
    BY <2>1, <2>3, <2>4 DEF LabelsKept
  <2>6. c.finishedAt = 0 /\ r.finishedAt # 0 => AllLabelled(r)
    BY <2>1, <2>2, FinishedLabels, FinishedContainerType
  <2> QED
    BY <2>5, <2>6
<1>2. CASE slots = {}
  <2> DEFINE at == FinishedAtFor(p, c.slot, id)
  <2>1. r = IF c.finishedAt # 0 THEN c ELSE FinishedContainer(c, at)
    BY <1>0, <1>2 DEF Reconciled
  <2>2. at \in Nat
    BY FinishedAtType DEF Containers
  <2> HIDE DEF at
  <2>3. LabelsKept(c, r)
    BY <2>1, <2>2, FinishedLabels DEF LabelsKept
  <2>4. c.finishedAt = 0 /\ r.finishedAt # 0 => AllLabelled(r)
    BY <2>1, <2>2, FinishedLabels, FinishedContainerType
  <2> QED
    BY <2>3, <2>4
<1> QED
  BY <1>1, <1>2

LEMMA DeletedLabels ==
    ASSUME PodsTypeOK, NEW c \in Containers, NEW p \in Objects, NEW id \in Ids
    PROVE  LabelsKept(c, DeletedContainer(c, p, id)) /\ AllLabelled(DeletedContainer(c, p, id))
<1> DEFINE at == FinishedAtFor(p, c.slot, id)
<1>1. c.slot \in Slots /\ now \in Nat \ {0}
  BY DEF Containers, PodsTypeOK, Times
<1>2. at \in Nat
  BY <1>1, FinishedAtType
<1>3. DeletedContainer(c, p, id) = FinishedContainer(c, IF at = 0 THEN now ELSE at)
  BY DEF DeletedContainer
<1> HIDE DEF at
<1> QED
  BY <1>1, <1>2, <1>3, FinishedLabels
-----------------------------------------------------------------------------
(* What a step keeps of the series that are known.                          *)

\* Records stay, with the labels that they list unless their own labels change.
RecordsKept ==
    \A k \in Keys : Stored(k) =>
        /\ Stored(k)'
        /\ LabelsKept(gpuContainers[k], gpuContainers'[k]) \/ k \in relabelled'

LEMMA SeriesType ==
    /\ \A l \in DeviceSeries : l.key \in Keys /\ l.device \in Devices /\ l.labels \in Labels
    /\ \A l \in ContainerSeries : l.key \in Keys /\ l.labels \in Labels
BY DEF DeviceSeries, ContainerSeries

LEMMA RecordsKeptUnchanged ==
    ASSUME UNCHANGED gpuContainers
    PROVE  RecordsKept /\ \A k \in Keys : Stored(k)' => Stored(k)
BY DEF RecordsKept, LabelsKept, Stored

\* What is listed stays listed, or is excused.
LEMMA ListedKept ==
    ASSUME RecordsKept, relabelled \subseteq relabelled', escaped \subseteq escaped'
    PROVE  /\ \A l \in DeviceSeries : Listed(l) \/ Excused(l) => Listed(l)' \/ Excused(l)'
           /\ \A l \in ContainerSeries : Current(l) \/ Excused(l) => Current(l)' \/ Excused(l)'
<1>1. ASSUME NEW l, Excused(l) PROVE Excused(l)'
  BY <1>1 DEF Excused
<1>2. ASSUME NEW l \in DeviceSeries, Listed(l) PROVE Listed(l)' \/ Excused(l)'
  <2>1. l.key \in Keys /\ l.device \in Devices /\ l.labels \in Labels
    BY SeriesType
  <2>2. Stored(l.key) /\ gpuContainers[l.key].devices[l.device] = l.labels
    BY <1>2 DEF Listed
  <2>3. Stored(l.key)'
    BY <2>1, <2>2 DEF RecordsKept
  <2>4. CASE LabelsKept(gpuContainers[l.key], gpuContainers'[l.key])
    BY <2>1, <2>2, <2>3, <2>4 DEF LabelsKept, Listed
  <2>5. CASE l.key \in relabelled'
    BY <2>5 DEF Excused
  <2> QED
    BY <2>1, <2>2, <2>4, <2>5 DEF RecordsKept
<1>3. ASSUME NEW l \in ContainerSeries, Current(l) PROVE Current(l)' \/ Excused(l)'
  <2>1. l.key \in Keys
    BY SeriesType
  <2>2. Stored(l.key) /\ LabelsOf(gpuContainers[l.key]) = l.labels
    BY <1>3 DEF Current
  <2>3. Stored(l.key)'
    BY <2>1, <2>2 DEF RecordsKept
  <2>4. CASE LabelsKept(gpuContainers[l.key], gpuContainers'[l.key])
    BY <2>2, <2>3, <2>4 DEF LabelsKept, Current
  <2>5. CASE l.key \in relabelled'
    BY <2>5 DEF Excused
  <2> QED
    BY <2>1, <2>2, <2>4, <2>5 DEF RecordsKept
<1> QED
  BY <1>1, <1>2, <1>3

LEMMA KnownKept ==
    ASSUME RecordsKept, relabelled \subseteq relabelled', escaped \subseteq escaped',
           sweep'.devices = sweep.devices, deleting' = deleting
    PROVE  \A l \in DeviceSeries : \A done : Known(l, done) => Known(l, done)'
<1>1. Deleted' = Deleted
  BY DEF Deleted
<1> QED
  BY <1>1, ListedKept DEF Known

\* The conjuncts of ExporterTypeOK that are about the gauges and their providers.
GaugesType ==
    /\ containerSeries \subseteq ContainerSeries
    /\ plainSeries \subseteq DeviceSeries
    /\ memory \in [DeviceSeries -> Values]
    /\ protected \in [DeviceSeries -> Values]
    /\ zeroed \subseteq DeviceSeries
    /\ fingerprinted \subseteq DeviceSeries

CollectorType ==
    /\ pending \subseteq Keys \X Devices
    /\ report \in Reports
    /\ deleting \in Deletions

HistoryType ==
    /\ laidToRest \subseteq DeviceSeries
    /\ relabelled \subseteq Keys
    /\ escaped \subseteq Keys

LEMMA ExporterParts ==
    ASSUME ExporterInv
    PROVE  /\ IInv /\ GaugesType /\ CollectorType /\ HistoryType
           /\ StoreType /\ SweepType /\ PodsTypeOK
           /\ sweep.containers \subseteq ContainerSeries /\ sweep.devices \subseteq DeviceSeries
           /\ \A k \in Keys : Stored(k) => gpuContainers[k] \in Containers
<1>1. IInv /\ GaugesType /\ CollectorType /\ HistoryType
  BY DEF ExporterInv, ExporterTypeOK, GaugesType, CollectorType, HistoryType
<1>2. StoreType /\ SweepType /\ PodsTypeOK
  BY <1>1, Parts
<1> QED
  BY <1>1, <1>2 DEF StoreType, SweepType, Stored

LEMMA ExporterAssemble ==
    ASSUME IInv', GaugesType', CollectorType', HistoryType',
           GuardedReadsZero', RestGuarded', ResurrectedOnlyLate', Phases', SeriesKnown'
    PROVE  ExporterInv'
<1>1. TypeOK'
  BY DEF IInv
<1>2. ExporterTypeOK'
  BY <1>1 DEF ExporterTypeOK, GaugesType, CollectorType, HistoryType
<1> QED
  BY <1>2 DEF ExporterInv

\* A step under which no series at rest comes into use: a container that is purged by it
\* has been at zero until then.
LEMMA RestKept ==
    ASSUME ExporterInv, HistoryType', escaped \subseteq escaped',
           \A l \in laidToRest' :
              \/ "positive" \notin {memory'[l], protected'[l]}
              \/ /\ l \in laidToRest /\ (Stored(l.key) => Stored(l.key)' \/ l \in zeroed)
                 /\ memory'[l] = memory[l] /\ protected'[l] = protected[l]
    PROVE  ResurrectedOnlyLate'
<1> SUFFICES ASSUME NEW l \in laidToRest', ~Stored(l.key)', "positive" \in {memory'[l], protected'[l]}
             PROVE  l.key \in escaped'
  BY DEF ResurrectedOnlyLate
<1>1. /\ l \in laidToRest /\ (~Stored(l.key) \/ l \in zeroed)
      /\ memory'[l] = memory[l] /\ protected'[l] = protected[l]
  OBVIOUS
<1>2. l \notin zeroed
  BY <1>1 DEF ExporterInv, GuardedReadsZero
<1> QED
  BY <1>1, <1>2 DEF ExporterInv, ResurrectedOnlyLate

\* A step that writes no gauge and deletes nothing.
LEMMA QuietKeeps ==
    ASSUME ExporterInv, IInv', CollectorType', Phases', RecordsKept,
           UNCHANGED <<gaugeVars, deleting, historyVars>>,
           sweep'.containers = sweep.containers, sweep'.devices = sweep.devices,
           \A k \in Keys : Stored(k)' => Stored(k)
    PROVE  ExporterInv'
<1>1. UNCHANGED <<containerSeries, plainSeries, memory, protected, zeroed, fingerprinted,
                  deleting, laidToRest, relabelled, escaped>>
  BY DEF gaugeVars, historyVars
<1>2. GaugesType' /\ HistoryType'
  BY <1>1, ExporterParts DEF GaugesType, HistoryType
<1>3. GuardedReadsZero'
  BY <1>1 DEF ExporterInv, GuardedReadsZero
<1>4. RestGuarded'
  <2> SUFFICES ASSUME NEW l \in laidToRest, Stored(l.key)' PROVE l \in zeroed /\ ShowsZero(l)
    BY <1>1 DEF RestGuarded, ShowsZero
  <2> l.key \in Keys
    BY ExporterParts, SeriesType DEF HistoryType
  <2> QED
    BY DEF ExporterInv, RestGuarded
<1>5. SeriesKnown'
  <2>1. \A l \in DeviceSeries : \A done : Known(l, done) => Known(l, done)'
    BY <1>1, KnownKept
  <2>2. \A l \in ContainerSeries : Current(l) \/ Excused(l) => Current(l)' \/ Excused(l)'
    BY <1>1, ListedKept
  <2> QED
    BY <1>1, <2>1, <2>2, ExporterParts DEF ExporterInv, SeriesKnown, GaugesType
<1>6. ResurrectedOnlyLate'
  <2> \A l \in laidToRest : Stored(l.key) => l \in zeroed
    BY DEF ExporterInv, RestGuarded
  <2> QED
    BY <1>1, <1>2, RestKept
<1> QED
  BY <1>2, <1>3, <1>4, <1>5, <1>6, ExporterAssemble
-----------------------------------------------------------------------------
(* The steps that write no gauge.                                           *)

\* A look-up labels the device if it has no labels, and changes nothing else.
LEMMA LookUpLabels ==
    ASSUME ExporterInv, NEW k \in Keys, NEW d \in Devices, GetMetricLabels(k, d)
    PROVE  /\ RecordsKept /\ \A x \in Keys : Stored(x)' => Stored(x)
           /\ LabelsOf(gpuContainers[k]) \in Labels
           /\ gpuContainers'[k].devices[d] \in Labels
<1> DEFINE c == gpuContainers[k]
           seen == IF c.devices[d] \in {NotSeen, Unset} THEN LabelsOf(c) ELSE c.devices[d]
           r == [c EXCEPT !.devices[d] = seen]
<1>1. c \in Containers /\ gpuContainers \in [Keys -> Containers \cup {NoContainer}]
  BY ExporterParts DEF GetMetricLabels, StoreType
<1>2. gpuContainers' = [gpuContainers EXCEPT ![k] = r]
  BY DEF GetMetricLabels
<1>3. LabelsOf(c) \in Labels
  BY <1>1, LabelsType
<1>4. seen \in Labels
  BY <1>1, <1>3 DEF Containers
<1>5. /\ r.name = c.name /\ r.alloc = c.alloc /\ r.devices = [c.devices EXCEPT ![d] = seen]
      /\ r \in Containers /\ r.devices[d] = seen
  <2> HIDE DEF seen
  <2> QED
    BY <1>1, <1>4 DEF Containers
<1>6. LabelsKept(c, r)
  <2>1. \A e \in Devices : c.devices[e] \in Labels => r.devices[e] = c.devices[e]
    <3>1. c.devices[d] \in Labels => seen = c.devices[d]
      BY StoreAssumption
    <3> HIDE DEF r, seen
    <3> QED
      BY <1>1, <1>5, <3>1 DEF Containers
  <2> QED
    BY <1>5, <2>1 DEF LabelsKept, LabelsOf
<1>7. gpuContainers'[k] = r /\ \A x \in Keys : x # k => gpuContainers'[x] = gpuContainers[x]
  BY <1>1, <1>2
<1> HIDE DEF r, seen
<1>8. ASSUME NEW x \in Keys, Stored(x)
      PROVE  Stored(x)' /\ LabelsKept(gpuContainers[x], gpuContainers'[x])
  <2>1. CASE x = k
    BY <1>5, <1>6, <1>7, <2>1, ContainerAssumption DEF Stored
  <2>2. CASE x # k
    BY <1>7, <1>8, <2>2 DEF Stored, LabelsKept
  <2> QED
    BY <2>1, <2>2
<1>9. \A x \in Keys : Stored(x)' => Stored(x)
  BY <1>1, <1>7, ContainerAssumption DEF Stored
<1> QED
  BY <1>3, <1>4, <1>5, <1>7, <1>8, <1>9 DEF RecordsKept

LEMMA EnvironmentKeeps ==
    ASSUME ExporterInv, Environment
    PROVE  ExporterInv' /\ StepGood
<1>1. /\ EnvironmentStep /\ UNCHANGED <<gpuContainers, queue, sweep>>
      /\ UNCHANGED <<gaugeVars, pending, report, deleting, historyVars>>
  BY DEF Environment, EnvironmentStep, storeVars
<1>2. StepGood
  BY <1>1, ExporterParts, EnvironmentGood
<1>3. CollectorType' /\ Phases'
  BY <1>1, ExporterParts DEF CollectorType, ExporterInv, Phases
<1> QED
  BY <1>1, <1>2, <1>3, RecordsKeptUnchanged, QuietKeeps DEF StepGood

LEMMA CollectKeeps ==
    ASSUME ExporterInv, Collect
    PROVE  ExporterInv' /\ StepGood
<1>1. UNCHANGED <<vars, gaugeVars, report, deleting, historyVars>> /\ pending' \subseteq Keys \X Devices
  BY DEF Collect
<1>2. UNCHANGED <<gpuContainers, queue, sweep>>
  BY <1>1 DEF vars, storeVars
<1>3. StepGood
  BY <1>1, ExporterParts, StutterGood
<1>4. CollectorType' /\ Phases'
  BY <1>1, <1>2, ExporterParts DEF CollectorType, ExporterInv, Phases
<1> QED
  BY <1>1, <1>2, <1>3, <1>4, RecordsKeptUnchanged, QuietKeeps DEF StepGood

LEMMA StutterKeeps ==
    ASSUME ExporterInv, UNCHANGED exporterVars
    PROVE  ExporterInv' /\ StepGood
<1>1. UNCHANGED <<vars, gaugeVars, pending, report, deleting, historyVars>>
  BY DEF exporterVars
<1>2. UNCHANGED <<gpuContainers, queue, sweep>>
  BY <1>1 DEF vars, storeVars
<1>3. StepGood
  BY <1>1, ExporterParts, StutterGood
<1>4. CollectorType' /\ Phases'
  BY <1>1, <1>2, ExporterParts DEF CollectorType, ExporterInv, Phases
<1> QED
  BY <1>1, <1>2, <1>3, <1>4, RecordsKeptUnchanged, QuietKeeps DEF StepGood

LEMMA ReportNextKeeps ==
    ASSUME ExporterInv, ReportNext
    PROVE  ExporterInv' /\ StepGood
<1> PICK x \in pending : pending' = pending \ {x} /\ LookUp(x[1], x[2])
  BY DEF ReportNext
<1> DEFINE k == x[1]  d == x[2]
<1>1. k \in Keys /\ d \in Devices /\ pending' \subseteq Keys \X Devices
  BY ExporterParts DEF CollectorType
<1>2. UNCHANGED <<gaugeVars, deleting, historyVars>>
  BY DEF ReportNext
<1>3. CASE ~Stored(k) /\ UNCHANGED <<vars, report>>
  <2>1. UNCHANGED <<gpuContainers, queue, sweep>>
    BY <1>3 DEF vars, storeVars
  <2>2. StepGood
    BY <1>3, ExporterParts, StutterGood
  <2>3. CollectorType' /\ Phases'
    BY <1>1, <1>2, <1>3, <2>1, ExporterParts DEF CollectorType, ExporterInv, Phases
  <2> QED
    BY <1>2, <2>1, <2>2, <2>3, RecordsKeptUnchanged, QuietKeeps DEF StepGood
<1>4. CASE /\ GetMetricLabels(k, d)
           /\ report' =
                [step |-> "container",
                 container |-> [key |-> k, labels |-> LabelsOf(gpuContainers[k])],
                 device |-> [key |-> k, device |-> d, labels |-> gpuContainers'[k].devices[d]]]
  <2>1. /\ RecordsKept /\ \A y \in Keys : Stored(y)' => Stored(y)
        /\ LabelsOf(gpuContainers[k]) \in Labels
        /\ gpuContainers'[k].devices[d] \in Labels
    BY <1>1, <1>4, LookUpLabels
  <2>2. report' \in Reports
    BY <1>1, <1>4, <2>1 DEF Reports, ContainerSeries, DeviceSeries
  <2>3. StepGood /\ sweep' = sweep
    BY <1>1, <1>4, ExporterParts, GetMetricLabelsGood DEF GetMetricLabels
  <2>4. CollectorType' /\ Phases'
    BY <1>1, <1>2, <2>2, <2>3, ExporterParts DEF CollectorType, ExporterInv, Phases
  <2> QED
    BY <1>2, <2>1, <2>3, <2>4, QuietKeeps DEF StepGood
<1> QED
  BY <1>3, <1>4 DEF LookUp

LEMMA SweepStartsKeeps ==
    ASSUME ExporterInv, SweepStarts,
           UNCHANGED <<gaugeVars, pending, report, deleting, historyVars>>
    PROVE  ExporterInv' /\ StepGood
<1>1. /\ UNCHANGED gpuContainers /\ sweep.step = "idle" /\ sweep'.step = "purge"
      /\ sweep'.containers = sweep.containers /\ sweep'.devices = sweep.devices
  BY ExporterParts DEF SweepStarts, SweepType
<1>2. StepGood
  BY ExporterParts, SweeperGood DEF SweeperStep
<1>3. CollectorType' /\ Phases'
  BY <1>1, ExporterParts DEF CollectorType, ExporterInv, Phases
<1> QED
  BY <1>1, <1>2, <1>3, RecordsKeptUnchanged, QuietKeeps DEF StepGood
-----------------------------------------------------------------------------
(* The informer's callbacks.                                                *)

LEMMA WithValueType ==
    ASSUME NEW gauge \in [DeviceSeries -> Values], NEW ls, NEW v \in Values
    PROVE  /\ WithValue(gauge, ls, v) \in [DeviceSeries -> Values]
           /\ \A l \in DeviceSeries : WithValue(gauge, ls, v)[l] = IF l \in ls THEN v ELSE gauge[l]
BY DEF WithValue

LEMMA EventLabels ==
    ASSUME ExporterInv, NEW u \in Pods, ReconcilePod(u) \/ FinishDeletedPod(u), NEW k \in Keys, Stored(k)
    PROVE  LET c == gpuContainers[k]  r == gpuContainers'[k] IN
           /\ Stored(k)'
           /\ LabelsOf(r) # LabelsOf(c) \/ LabelsKept(c, r)
           /\ ~IsFinished(k) /\ r.finishedAt # 0 => AllLabelled(r)
<1> DEFINE c == gpuContainers[k]
           r == gpuContainers'[k]
<1>0. /\ c \in Containers /\ c # NoContainer /\ k[2] \in Ids /\ PodsTypeOK
      /\ pod[u] \in Objects /\ copy[u] \in Objects
      /\ IsFinished(k) <=> c.finishedAt # 0
  BY ExporterParts DEF Keys, PodsTypeOK, Stored, IsFinished
<1>s. c = r => /\ Stored(k)' /\ LabelsKept(c, r)
               /\ ~ (~IsFinished(k) /\ r.finishedAt # 0)
  BY <1>0 DEF Stored, LabelsKept
<1>1. CASE ReconcilePod(u) /\ k[1] = u
  <2>1. r = Reconciled(c, pod[u], k[2])
    BY <1>1 DEF ReconcilePod
  <2> HIDE DEF c, r
  <2>2. r # NoContainer
    BY <1>0, <2>1, ReconciledContainer
  <2>3. /\ LabelsOf(r) # LabelsOf(c) \/ LabelsKept(c, r)
        /\ c.finishedAt = 0 /\ r.finishedAt # 0 => AllLabelled(r)
    BY <1>0, <2>1, ReconciledLabels
  <2> QED
    BY <1>0, <2>2, <2>3 DEF Stored, c, r
<1>2. CASE ReconcilePod(u) /\ k[1] # u
  <2> r = c
    BY <1>2 DEF ReconcilePod
  <2> QED
    BY <1>s
<1>3. CASE FinishDeletedPod(u)
  <2>1. PICK p \in {pod[u], copy[u]} :
          gpuContainers' = [y \in Keys |->
            IF y[1] = u /\ Stored(y) /\ ~IsFinished(y)
            THEN DeletedContainer(gpuContainers[y], p, y[2])
            ELSE gpuContainers[y]]
    BY <1>3 DEF FinishDeletedPod
  <2>2. CASE k[1] = u /\ ~IsFinished(k)
    <3>1. r = DeletedContainer(c, p, k[2])
      BY <2>1, <2>2
    <3> HIDE DEF c, r
    <3>2. r \in Containers /\ LabelsKept(c, r) /\ AllLabelled(r)
      BY <1>0, <3>1, DeletedContainerType, DeletedLabels
    <3> QED
      BY <3>2, ContainerAssumption DEF Stored, c, r
  <2>3. CASE ~ (k[1] = u /\ ~IsFinished(k))
    <3> r = c
      BY <2>1, <2>3
    <3> QED
      BY <1>s
  <2> QED
    BY <2>2, <2>3
<1> QED
  BY <1>1, <1>2, <1>3

\* The series that are zeroed are listed.
LEMMA FinishedListed ==
    ASSUME ExporterInv, NEW u \in Pods, ReconcilePod(u) \/ FinishDeletedPod(u)
    PROVE  /\ SeriesFinished \subseteq DeviceSeries
           /\ \A l \in SeriesFinished : Listed(l)' /\ Stored(l.key)
<1> SUFFICES ASSUME NEW l \in SeriesFinished
             PROVE  l \in DeviceSeries /\ Listed(l)' /\ Stored(l.key)
  OBVIOUS
<1>1. PICK x \in Keys \X Devices :
        /\ l = [key |-> x[1], device |-> x[2], labels |-> gpuContainers'[x[1]].devices[x[2]]]
        /\ Stored(x[1]) /\ ~IsFinished(x[1])
        /\ gpuContainers'[x[1]].finishedAt # 0
        /\ gpuContainers'[x[1]].devices[x[2]] # NotSeen
  BY DEF SeriesFinished
<1>2. x[1] \in Keys /\ x[2] \in Devices
  OBVIOUS
<1>3. AllLabelled(gpuContainers'[x[1]]) /\ Stored(x[1])'
  BY <1>1, <1>2, EventLabels
<1>4. gpuContainers'[x[1]].devices[x[2]] \in Labels
  BY <1>1, <1>2, <1>3 DEF AllLabelled
<1> QED
  BY <1>1, <1>2, <1>3, <1>4 DEF DeviceSeries, Listed

LEMMA InformerEventKeeps ==
    ASSUME ExporterInv, NEW u \in Pods, InformerEvent(u)
    PROVE  ExporterInv' /\ StepGood
<1>1. /\ ReconcilePod(u) \/ FinishDeletedPod(u)
      /\ zeroed' = zeroed \cup SeriesFinished
      /\ memory' = WithValue(memory, SeriesFinished, "zero")
      /\ protected' = WithValue(protected, SeriesFinished, "zero")
      /\ laidToRest' = SeriesFinished \cup
           {l \in laidToRest : Stored(l.key) \/ gpuContainers'[l.key] = NoContainer}
      /\ relabelled' = relabelled \cup
           {k \in Keys : Stored(k) /\ LabelsOf(gpuContainers'[k]) # LabelsOf(gpuContainers[k])}
      /\ UNCHANGED <<containerSeries, plainSeries, fingerprinted, pending, report, deleting, escaped>>
  BY DEF InformerEvent, ZeroValues
<1>2. StepGood /\ sweep' = sweep
  BY <1>1, ExporterParts, ReconcileGood, FinishDeletedGood DEF ReconcilePod, FinishDeletedPod
<1>3. /\ SeriesFinished \subseteq DeviceSeries
      /\ \A l \in SeriesFinished : Listed(l)' /\ Stored(l.key)
  BY <1>1, FinishedListed
<1> DEFINE S == SeriesFinished
<1> HIDE DEF S
<1>4. /\ memory' \in [DeviceSeries -> Values] /\ protected' \in [DeviceSeries -> Values]
      /\ \A l \in DeviceSeries : /\ memory'[l] = IF l \in S THEN "zero" ELSE memory[l]
                                 /\ protected'[l] = IF l \in S THEN "zero" ELSE protected[l]
  <2> "zero" \in Values
    BY DEF Values
  <2> QED
    BY <1>1, ExporterParts, WithValueType DEF GaugesType, S
<1>5. GaugesType'
  BY <1>1, <1>3, <1>4, ExporterParts DEF GaugesType
<1>6. CollectorType' /\ HistoryType' /\ Phases'
  BY <1>1, <1>2, <1>3, ExporterParts DEF CollectorType, HistoryType, ExporterInv, Phases
<1>7. GuardedReadsZero'
  <2> SUFFICES ASSUME NEW l \in zeroed' PROVE memory'[l] # "positive" /\ protected'[l] # "positive"
    BY DEF GuardedReadsZero
  <2>1. l \in DeviceSeries
    BY <1>5 DEF GaugesType
  <2>2. l \in S \/ l \in zeroed
    BY <1>1 DEF S
  <2> QED
    BY <1>4, <2>1, <2>2 DEF ExporterInv, GuardedReadsZero
<1>8. RestGuarded'
  <2> SUFFICES ASSUME NEW l \in laidToRest', Stored(l.key)' PROVE l \in zeroed' /\ ShowsZero(l)'
    BY DEF RestGuarded
  <2>0. l \in DeviceSeries
    BY <1>6 DEF HistoryType
  <2>1. CASE l \in S
    BY <1>1, <1>4, <2>0, <2>1 DEF S, ShowsZero
  <2>2. CASE l \notin S
    <3>1. l \in laidToRest /\ Stored(l.key)
      BY <1>1, <2>2 DEF Stored, S
    <3>2. l \in zeroed /\ ShowsZero(l)
      BY <3>1 DEF ExporterInv, RestGuarded
    <3>3. memory'[l] = memory[l] /\ protected'[l] = protected[l]
      BY <1>4, <2>0, <2>2
    <3> QED
      BY <1>1, <1>2, <3>2, <3>3 DEF ShowsZero
  <2> QED
    BY <2>1, <2>2
<1>9. RecordsKept
  <2> SUFFICES ASSUME NEW k \in Keys, Stored(k)
               PROVE  /\ Stored(k)'
                      /\ LabelsKept(gpuContainers[k], gpuContainers'[k]) \/ k \in relabelled'
    BY DEF RecordsKept
  <2> QED
    BY <1>1, EventLabels
<1>10. SeriesKnown'
  <2>1. \A l \in DeviceSeries : \A done : Known(l, done) => Known(l, done)'
    BY <1>1, <1>2, <1>9, KnownKept
  <2>2. \A l \in ContainerSeries : Current(l) \/ Excused(l) => Current(l)' \/ Excused(l)'
    BY <1>1, <1>9, ListedKept
  <2>3. \A l \in S : \A done : Known(l, done)'
    BY <1>3 DEF Known, S
  <2>4. \A l \in containerSeries' : Current(l)' \/ l \in sweep'.containers \/ Excused(l)'
    BY <1>1, <1>2, <2>2, ExporterParts DEF ExporterInv, SeriesKnown, GaugesType
  <2>5. \A l \in plainSeries' : Known(l, PlainDone)'
    BY <1>1, <2>1, ExporterParts DEF ExporterInv, SeriesKnown, GaugesType, PlainDone
  <2>6. ASSUME NEW l \in DeviceSeries
        PROVE  /\ memory'[l] # "none" => Known(l, MemoryDone)'
               /\ protected'[l] # "none" => Known(l, ProtectedDone)'
    <3>1. CASE l \in S
      BY <2>3, <3>1
    <3>2. CASE l \notin S
      BY <1>4, <2>1, <3>2 DEF ExporterInv, SeriesKnown
    <3> QED
      BY <3>1, <3>2
  <2> QED
    BY <2>4, <2>5, <2>6 DEF SeriesKnown
<1>11. ResurrectedOnlyLate'
  <2> SUFFICES ASSUME NEW l \in laidToRest'
               PROVE  \/ "positive" \notin {memory'[l], protected'[l]}
                      \/ /\ l \in laidToRest /\ (Stored(l.key) => Stored(l.key)' \/ l \in zeroed)
                         /\ memory'[l] = memory[l] /\ protected'[l] = protected[l]
    BY <1>1, <1>6, RestKept
  <2>1. l \in DeviceSeries
    BY <1>6 DEF HistoryType
  <2>2. CASE l \in S
    BY <1>4, <2>1, <2>2
  <2>3. CASE l \notin S
    <3>1. l \in laidToRest /\ (Stored(l.key) => l \in zeroed)
      BY <1>1, <2>3 DEF S, ExporterInv, RestGuarded
    <3> QED
      BY <1>4, <2>1, <2>3, <3>1
  <2> QED
    BY <2>2, <2>3
<1> QED
  BY <1>2, <1>5, <1>6, <1>7, <1>8, <1>10, <1>11, ExporterAssemble DEF StepGood
-----------------------------------------------------------------------------
(* purge.                                                                   *)

\* What purge forgets it notes, with every label set that the record lists.
LEMMA PurgeNotes ==
    ASSUME ExporterInv, PurgeExpired
    PROVE  /\ \A k \in Keys : Stored(k) /\ ~Stored(k)' =>
                 /\ [key |-> k, labels |-> LabelsOf(gpuContainers[k])] \in sweep'.containers
                 /\ \A d \in Devices, labels \in Labels :
                       gpuContainers[k].devices[d] = labels =>
                          [key |-> k, device |-> d, labels |-> labels] \in sweep'.devices
           /\ \A k \in Keys : Stored(k)' => Stored(k) /\ gpuContainers'[k] = gpuContainers[k]
<1> DEFINE due == Due(sweep.now)
           expired == {k \in due : Stored(k)}
<1>1. /\ gpuContainers' = [k \in Keys |-> IF k \in expired THEN NoContainer ELSE gpuContainers[k]]
      /\ sweep' =
           [step |-> "unmap", now |-> 0,
            containers |-> {[key |-> k, labels |-> LabelsOf(gpuContainers[k])] : k \in expired},
            devices |-> {[key |-> x[1], device |-> x[2],
                          labels |-> Labelled(gpuContainers[x[1]])[x[2]]] :
                           x \in {y \in expired \X Devices :
                                     gpuContainers[y[1]].devices[y[2]] # NotSeen}}]
  BY DEF PurgeExpired
<1>2. \A k \in Keys : Stored(k)' => k \notin expired
  BY <1>1 DEF Stored
<1>3. \A k \in Keys : k \notin expired => gpuContainers'[k] = gpuContainers[k]
  BY <1>1
<1>4. ASSUME NEW k \in Keys, Stored(k), ~Stored(k)'
      PROVE  /\ [key |-> k, labels |-> LabelsOf(gpuContainers[k])] \in sweep'.containers
             /\ \A d \in Devices, labels \in Labels :
                   gpuContainers[k].devices[d] = labels =>
                      [key |-> k, device |-> d, labels |-> labels] \in sweep'.devices
  <2>1. k \in expired
    BY <1>3, <1>4 DEF Stored
  <2> HIDE DEF expired
  <2>2. [key |-> k, labels |-> LabelsOf(gpuContainers[k])] \in sweep'.containers
    BY <1>1, <2>1
  <2>3. ASSUME NEW d \in Devices, NEW labels \in Labels, gpuContainers[k].devices[d] = labels
        PROVE  [key |-> k, device |-> d, labels |-> labels] \in sweep'.devices
    <3>1. labels # NotSeen /\ labels # Unset
      BY StoreAssumption
    <3>2. Labelled(gpuContainers[k])[d] = labels
      BY <2>3, <3>1 DEF Labelled
    <3> DEFINE x == <<k, d>>
    <3>3. x \in {y \in expired \X Devices : gpuContainers[y[1]].devices[y[2]] # NotSeen}
      BY <2>1, <2>3, <3>1
    <3>4. [key |-> x[1], device |-> x[2], labels |-> Labelled(gpuContainers[x[1]])[x[2]]]
            = [key |-> k, device |-> d, labels |-> labels]
      BY <3>2
    <3> QED
      BY <1>1, <3>3, <3>4
  <2> QED
    BY <2>2, <2>3
<1> QED
  BY <1>2, <1>3, <1>4 DEF Stored

LEMMA PurgeKeeps ==
    ASSUME ExporterInv, PurgeExpired,
           UNCHANGED <<gaugeVars, pending, report, deleting, historyVars>>
    PROVE  ExporterInv' /\ StepGood
<1>1. UNCHANGED <<containerSeries, plainSeries, memory, protected, zeroed, fingerprinted,
                  pending, report, deleting, laidToRest, relabelled, escaped>>
  BY DEF gaugeVars, historyVars
<1>2. StepGood
  BY ExporterParts, SweeperGood DEF SweeperStep
<1>3. GaugesType' /\ HistoryType' /\ CollectorType'
  BY <1>1, ExporterParts DEF GaugesType, HistoryType, CollectorType
<1>4. /\ sweep.step = "purge" /\ sweep'.step = "unmap" /\ deleting = "idle"
      /\ sweep.containers = {} /\ sweep.devices = {}
  BY ExporterParts DEF PurgeExpired, ExporterInv, Phases
<1>5. Phases' /\ GuardedReadsZero'
  BY <1>1, <1>4 DEF Phases, ExporterInv, GuardedReadsZero
<1>6. RestGuarded'
  <2> SUFFICES ASSUME NEW l \in laidToRest, Stored(l.key)' PROVE l \in zeroed /\ ShowsZero(l)'
    BY <1>1 DEF RestGuarded
  <2> l.key \in Keys
    BY ExporterParts, SeriesType DEF HistoryType
  <2>1. l \in zeroed /\ ShowsZero(l)
    BY PurgeNotes DEF ExporterInv, RestGuarded
  <2> QED
    BY <1>1, <1>4, <2>1 DEF ShowsZero
<1>7. ASSUME NEW l \in DeviceSeries, NEW done \in SUBSET (Deletions \ {"idle"}), Known(l, done)
      PROVE  Known(l, done)'
  <2>0. /\ l.key \in Keys /\ l.device \in Devices /\ l.labels \in Labels
        /\ l = [key |-> l.key, device |-> l.device, labels |-> l.labels]
    BY DEF DeviceSeries
  <2>1. CASE Excused(l)
    BY <1>1, <2>1 DEF Known, Excused
  <2>2. CASE Listed(l) /\ Stored(l.key)'
    BY <2>0, <2>2, PurgeNotes DEF Known, Listed
  <2>3. CASE Listed(l) /\ ~Stored(l.key)'
    <3>1. l \in sweep'.devices
      <4>1. Stored(l.key) /\ gpuContainers[l.key].devices[l.device] = l.labels
        BY <2>3 DEF Listed
      <4>2. [key |-> l.key, device |-> l.device, labels |-> l.labels] \in sweep'.devices
        BY <2>0, <2>3, <4>1, PurgeNotes
      <4> QED
        BY <2>0, <4>2
    <3> QED
      BY <1>1, <1>4, <3>1 DEF Known
  <2> QED
    BY <1>4, <1>7, <2>1, <2>2, <2>3 DEF Known
<1>8. ASSUME NEW l \in ContainerSeries, Current(l) \/ Excused(l)
      PROVE  Current(l)' \/ l \in sweep'.containers \/ Excused(l)'
  <2>0. l.key \in Keys /\ l = [key |-> l.key, labels |-> l.labels]
    BY DEF ContainerSeries
  <2>1. CASE Excused(l)
    BY <1>1, <2>1 DEF Excused
  <2>2. CASE Current(l)
    BY <2>0, <2>2, PurgeNotes DEF Current
  <2> QED
    BY <1>8, <2>1, <2>2
<1>9. SeriesKnown'
  <2>1. /\ MemoryDone \in SUBSET (Deletions \ {"idle"}) /\ PlainDone \in SUBSET (Deletions \ {"idle"})
        /\ ProtectedDone \in SUBSET (Deletions \ {"idle"})
    BY DEF MemoryDone, PlainDone, ProtectedDone, Deletions
  <2>2. \A l \in containerSeries : Current(l)' \/ l \in sweep'.containers \/ Excused(l)'
    BY <1>4, <1>8, ExporterParts DEF ExporterInv, SeriesKnown, GaugesType
  <2>3. \A l \in plainSeries : Known(l, PlainDone)'
    BY <1>7, <2>1, ExporterParts DEF ExporterInv, SeriesKnown, GaugesType
  <2>4. \A l \in DeviceSeries : /\ memory[l] # "none" => Known(l, MemoryDone)'
                                /\ protected[l] # "none" => Known(l, ProtectedDone)'
    BY <1>7, <2>1 DEF ExporterInv, SeriesKnown
  <2> QED
    BY <1>1, <2>2, <2>3, <2>4 DEF SeriesKnown, MemoryDone, PlainDone, ProtectedDone
<1>10. ResurrectedOnlyLate'
  <2> \A l \in laidToRest : Stored(l.key) => l \in zeroed
    BY DEF ExporterInv, RestGuarded
  <2> QED
    BY <1>1, <1>3, RestKept
<1> QED
  BY <1>2, <1>3, <1>5, <1>6, <1>9, <1>10, ExporterAssemble DEF StepGood

LEMMA DeleteValuesStartsKeeps ==
    ASSUME ExporterInv, DeleteValuesStarts
    PROVE  ExporterInv' /\ StepGood
<1>1. /\ sweep.step = "unmap" /\ sweep'.step = "delete" /\ deleting' = "labels"
      /\ sweep'.containers = sweep.containers /\ sweep'.devices = sweep.devices
      /\ UNCHANGED <<gpuContainers, containerSeries, plainSeries, memory, protected, zeroed,
                     fingerprinted, pending, report, laidToRest, relabelled, escaped>>
  BY ExporterParts DEF DeleteValuesStarts, UnmapExpired, SweepType, gaugeVars, historyVars
<1>2. StepGood
  BY ExporterParts, SweeperGood DEF SweeperStep, DeleteValuesStarts
<1>3. GaugesType' /\ HistoryType' /\ CollectorType' /\ Phases'
  BY <1>1, ExporterParts DEF GaugesType, HistoryType, CollectorType, Phases, Deletions
<1>4. GuardedReadsZero' /\ RestGuarded' /\ ResurrectedOnlyLate'
  BY <1>1 DEF ExporterInv, GuardedReadsZero, RestGuarded, ShowsZero, ResurrectedOnlyLate, Stored
<1>5. SeriesKnown'
  <2>1. \A l, done : Known(l, done) /\ "labels" \notin done => Known(l, done)'
    BY <1>1 DEF Known, Listed, Stored, Excused
  <2>2. \A l : Current(l) \/ l \in sweep.containers \/ Excused(l)
                 => Current(l)' \/ l \in sweep'.containers \/ Excused(l)'
    BY <1>1 DEF Current, Stored, Excused
  <2>3. "labels" \notin MemoryDone /\ "labels" \notin PlainDone /\ "labels" \notin ProtectedDone
    BY DEF MemoryDone, PlainDone, ProtectedDone
  <2> QED
    BY <1>1, <2>1, <2>2, <2>3 DEF ExporterInv, SeriesKnown, MemoryDone, PlainDone, ProtectedDone
<1> QED
  BY <1>2, <1>3, <1>4, <1>5, ExporterAssemble DEF StepGood

LEMMA DeleteValuesEndsKeeps ==
    ASSUME ExporterInv, DeleteValuesEnds
    PROVE  ExporterInv' /\ StepGood
<1>1. /\ deleting' = "idle" /\ sweep.containers = {} /\ sweep.devices = {}
      /\ sweep'.containers = {} /\ sweep'.devices = {}
      /\ UNCHANGED <<gpuContainers, containerSeries, plainSeries, memory, protected, zeroed,
                     fingerprinted, pending, report, laidToRest, relabelled, escaped>>
  BY DEF DeleteValuesEnds, SweepEnds, NoSweep, gaugeVars, historyVars
<1>2. StepGood
  BY ExporterParts, SweeperGood DEF SweeperStep, DeleteValuesEnds
<1>3. GaugesType' /\ HistoryType' /\ CollectorType' /\ Phases'
  BY <1>1, ExporterParts DEF GaugesType, HistoryType, CollectorType, Phases, Deletions
<1>4. GuardedReadsZero' /\ RestGuarded' /\ ResurrectedOnlyLate'
  BY <1>1 DEF ExporterInv, GuardedReadsZero, RestGuarded, ShowsZero, ResurrectedOnlyLate, Stored
<1>5. SeriesKnown'
  <2>1. \A l, done : Known(l, done) => Known(l, done)'
    BY <1>1 DEF Known, Listed, Stored, Excused
  <2>2. \A l : Current(l) \/ l \in sweep.containers \/ Excused(l)
                 => Current(l)' \/ l \in sweep'.containers \/ Excused(l)'
    BY <1>1 DEF Current, Stored, Excused
  <2> QED
    BY <1>1, <2>1, <2>2 DEF ExporterInv, SeriesKnown, MemoryDone, PlainDone, ProtectedDone
<1> QED
  BY <1>2, <1>3, <1>4, <1>5, ExporterAssemble DEF StepGood
-----------------------------------------------------------------------------
(* DeleteValues.                                                            *)

\* DeleteValues touches none of the records.
LEMMA DeletionGood ==
    ASSUME ExporterInv, UNCHANGED <<podVars, gpuContainers, queue>>,
           sweep'.step = sweep.step, sweep'.now = sweep.now,
           sweep'.containers \subseteq sweep.containers, sweep'.devices \subseteq sweep.devices,
           sweep' \in [step : {"idle", "purge", "unmap", "delete"}, now : Times,
                       containers : SUBSET ContainerSeries, devices : SUBSET DeviceSeries]
    PROVE  StepGood
<1>1. PodsTypeOK' /\ StatusTrue' /\ now' = now
      /\ \A v \in Pods, id \in Ids : Evidence(v, id) => Evidence(v, id)'
  BY ExporterParts, Parts, PodsUntouched
<1>2. StoreType' /\ ScheduledOnce'
  BY ExporterParts, Parts DEF StoreType, ScheduledOnce, IsFinished, Stored
<1>3. \A k \in Keys : LifeStep(k) /\ (IsFinished(k)' => IsFinished(k))
  BY DEF LifeStep, IsFinished, Stored
<1>4. SweepType' /\ SweepInPast'
  BY <1>1, ExporterParts, Parts DEF SweepType, SweepInPast
<1> QED
  BY <1>1, <1>2, <1>3, <1>4, ExporterParts, Assemble

\* What a step of DeleteValues leaves.  A guard goes after the values that it guards.
LEMMA DeletionKeeps ==
    ASSUME ExporterInv, StepGood, GaugesType', deleting' \in Deletions \ {"idle"},
           sweep.step = "delete", sweep'.step = "delete",
           UNCHANGED <<gpuContainers, pending, report, relabelled, escaped>>,
           laidToRest' = {l \in laidToRest : l \in zeroed' \/ l \notin zeroed \/ ~Stored(l.key)},
           zeroed' \subseteq zeroed, zeroed' \cap sweep.devices \subseteq sweep'.devices,
           \A l \in DeviceSeries : /\ memory'[l] \in {memory[l], "none"}
                                   /\ protected'[l] \in {protected[l], "none"}
                                   /\ \/ memory'[l] = memory[l] /\ protected'[l] = protected[l]
                                      \/ l \in sweep'.devices,
           SeriesKnown'
    PROVE  ExporterInv' /\ StepGood
<1>1. HistoryType' /\ CollectorType' /\ Phases'
  BY ExporterParts DEF HistoryType, CollectorType, Phases
<1>2. GuardedReadsZero'
  BY ExporterParts DEF ExporterInv, GuardedReadsZero, GaugesType
<1>3. RestGuarded'
  <2> SUFFICES ASSUME NEW l \in laidToRest', Stored(l.key)' PROVE l \in zeroed' /\ ShowsZero(l)'
    BY DEF RestGuarded
  <2>1. l \in DeviceSeries
    BY <1>1 DEF HistoryType
  <2>2. l \in laidToRest /\ Stored(l.key)
    BY DEF Stored
  <2>3. l \in zeroed' /\ ShowsZero(l)
    BY <2>2 DEF ExporterInv, RestGuarded
  <2> QED
    BY <2>1, <2>3 DEF ShowsZero
<1>4. ResurrectedOnlyLate'
  <2> SUFFICES ASSUME NEW l \in laidToRest', ~Stored(l.key)',
                      "positive" \in {memory'[l], protected'[l]}
               PROVE  l.key \in escaped
    BY DEF ResurrectedOnlyLate
  <2>1. l \in DeviceSeries
    BY <1>1 DEF HistoryType
  <2>2. l \in laidToRest /\ ~Stored(l.key) /\ "positive" \in {memory[l], protected[l]}
    BY <2>1 DEF Stored
  <2> QED
    BY <2>2 DEF ExporterInv, ResurrectedOnlyLate
<1> QED
  BY <1>1, <1>2, <1>3, <1>4, ExporterAssemble DEF StepGood

LEMMA DeleteContainerSeriesKeeps ==
    ASSUME ExporterInv, DeleteValuesStep, DeleteContainerSeries
    PROVE  ExporterInv' /\ StepGood
<1> PICK x \in sweep.containers :
      /\ containerSeries' = containerSeries \ {x}
      /\ sweep' = [sweep EXCEPT !.containers = @ \ {x}]
  BY DEF DeleteContainerSeries
<1>1. /\ deleting = "labels" /\ deleting' = "labels"
      /\ UNCHANGED <<plainSeries, memory, protected, zeroed, fingerprinted>>
      /\ UNCHANGED <<podVars, gpuContainers, queue, pending, report, relabelled, escaped>>
      /\ laidToRest' = {l \in laidToRest : l \in zeroed' \/ l \notin zeroed \/ ~Stored(l.key)}
  BY DEF DeleteContainerSeries, DeleteValuesStep
<1>2. /\ sweep'.step = sweep.step /\ sweep'.now = sweep.now /\ sweep'.devices = sweep.devices
      /\ sweep'.containers = sweep.containers \ {x}
      /\ sweep' \in [step : {"idle", "purge", "unmap", "delete"}, now : Times,
                     containers : SUBSET ContainerSeries, devices : SUBSET DeviceSeries]
  BY ExporterParts DEF SweepType
<1>3. StepGood
  BY <1>1, <1>2, DeletionGood
<1>4. sweep.step = "delete"
  BY <1>1 DEF ExporterInv, Phases
<1>5. GaugesType' /\ "labels" \in Deletions \ {"idle"}
  BY <1>1, ExporterParts DEF GaugesType, Deletions
<1>6. SeriesKnown'
  <2>1. \A l \in DeviceSeries : \A done : Known(l, done) => Known(l, done)'
    BY <1>1, <1>2, RecordsKeptUnchanged, KnownKept
  <2>2. \A l : l # x /\ (Current(l) \/ l \in sweep.containers \/ Excused(l))
                 => Current(l)' \/ l \in sweep'.containers \/ Excused(l)'
    BY <1>1, <1>2 DEF Current, Stored, Excused
  <2>3. \A l \in containerSeries' : Current(l)' \/ l \in sweep'.containers \/ Excused(l)'
    BY <2>2 DEF ExporterInv, SeriesKnown
  <2>4. \A l \in plainSeries' : Known(l, PlainDone)'
    BY <1>1, <2>1, ExporterParts DEF ExporterInv, SeriesKnown, GaugesType, PlainDone
  <2>5. \A l \in DeviceSeries : /\ memory'[l] # "none" => Known(l, MemoryDone)'
                                /\ protected'[l] # "none" => Known(l, ProtectedDone)'
    BY <1>1, <2>1 DEF ExporterInv, SeriesKnown, MemoryDone, ProtectedDone
  <2> QED
    BY <2>3, <2>4, <2>5 DEF SeriesKnown
<1> QED
  BY <1>1, <1>2, <1>3, <1>4, <1>5, <1>6, DeletionKeeps

\* A step at the per-device label set Deleted; done and done' are before and after it what
\* has been deleted of it.
LEMMA KnownBut ==
    ASSUME UNCHANGED <<gpuContainers, sweep, relabelled, escaped>>,
           NEW l, NEW done, Known(l, done), l # Deleted \/ deleting \in done \/ deleting' \notin done
    PROVE  Known(l, done)'
<1>1. Deleted' = Deleted
  BY DEF Deleted
<1> QED
  BY <1>1 DEF Known, Listed, Stored, Excused

LEMMA DeleteDeviceKeeps ==
    ASSUME ExporterInv, DeleteValuesStep,
           DeleteMemory \/ DeletePlain \/ DeleteProtected \/ DeleteFingerprint
    PROVE  ExporterInv' /\ StepGood
<1>1. /\ deleting # "idle" /\ deleting' \in Deletions \ {"idle"}
      /\ UNCHANGED <<sweep, containerSeries, zeroed>>
      /\ UNCHANGED <<podVars, gpuContainers, queue, pending, report, relabelled, escaped>>
      /\ laidToRest' = {l \in laidToRest : l \in zeroed' \/ l \notin zeroed \/ ~Stored(l.key)}
  BY DEF DeleteValuesStep, DeleteMemory, DeletePlain, DeleteProtected, DeleteFingerprint,
         DeleteNext, Deletions
<1>2. StepGood
  BY <1>1, ExporterParts, DeletionGood DEF SweepType
<1>3. sweep.step = "delete"
  BY <1>1 DEF ExporterInv, Phases
<1>4. "none" \in Values
  BY DEF Values
<1>5. /\ GaugesType'
      /\ \A l \in DeviceSeries : /\ memory'[l] \in {memory[l], "none"}
                                 /\ protected'[l] \in {protected[l], "none"}
                                 /\ \/ memory'[l] = memory[l] /\ protected'[l] = protected[l]
                                    \/ l = Deleted
      /\ plainSeries' \subseteq plainSeries
      /\ Deleted \in sweep.devices
  <2>1. Deleted \in sweep.devices
    BY DEF DeleteMemory, DeletePlain, DeleteProtected, DeleteFingerprint, DeleteNext, Deleted
  <2> QED
    BY <1>1, <1>4, <2>1, ExporterParts, WithValueType
    DEF GaugesType, DeleteMemory, DeletePlain, DeleteProtected, DeleteFingerprint
<1>6. \A l \in containerSeries' : Current(l)' \/ l \in sweep'.containers \/ Excused(l)'
  BY <1>1 DEF ExporterInv, SeriesKnown, Current, Stored, Excused
<1>7. SeriesKnown'
  <2>1. CASE DeleteMemory
    <3>1. /\ deleting = "labels" /\ deleting' = "plain" /\ UNCHANGED <<plainSeries, protected>>
          /\ \A l \in DeviceSeries : memory'[l] = IF l \in {Deleted} THEN "none" ELSE memory[l]
      BY <1>4, <2>1, ExporterParts, WithValueType DEF DeleteMemory, DeleteNext, GaugesType
    <3>2. "plain" \notin PlainDone /\ "plain" \notin ProtectedDone
      BY DEF PlainDone, ProtectedDone
    <3>3. \A l \in plainSeries' : Known(l, PlainDone)'
      BY <1>1, <3>1, <3>2, KnownBut DEF ExporterInv, SeriesKnown, PlainDone
    <3>4. \A l \in DeviceSeries : /\ memory'[l] # "none" => Known(l, MemoryDone)'
                                  /\ protected'[l] # "none" => Known(l, ProtectedDone)'
      BY <1>1, <3>1, <3>2, KnownBut DEF ExporterInv, SeriesKnown, MemoryDone, ProtectedDone
    <3> QED
      BY <1>6, <3>3, <3>4 DEF SeriesKnown
  <2>2. CASE DeletePlain
    <3>1. /\ deleting = "plain" /\ deleting' = "protected" /\ UNCHANGED <<memory, protected>>
          /\ plainSeries' = plainSeries \ {Deleted}
      BY <2>2 DEF DeletePlain, DeleteNext
    <3>2. "plain" \in MemoryDone /\ "protected" \notin ProtectedDone
      BY DEF MemoryDone, ProtectedDone
    <3>3. \A l \in plainSeries' : Known(l, PlainDone)'
      BY <1>1, <3>1, <3>2, KnownBut DEF ExporterInv, SeriesKnown, PlainDone
    <3>4. \A l \in DeviceSeries : /\ memory'[l] # "none" => Known(l, MemoryDone)'
                                  /\ protected'[l] # "none" => Known(l, ProtectedDone)'
      BY <1>1, <3>1, <3>2, KnownBut DEF ExporterInv, SeriesKnown, MemoryDone, ProtectedDone
    <3> QED
      BY <1>6, <3>3, <3>4 DEF SeriesKnown
  <2>3. CASE DeleteProtected
    <3>1. /\ deleting = "protected" /\ deleting' = "fingerprint" /\ UNCHANGED <<memory, plainSeries>>
          /\ \A l \in DeviceSeries : protected'[l] = IF l \in {Deleted} THEN "none" ELSE protected[l]
      BY <1>4, <2>3, ExporterParts, WithValueType DEF DeleteProtected, DeleteNext, GaugesType
    <3>2. "protected" \in MemoryDone /\ "protected" \in PlainDone
      BY DEF MemoryDone, PlainDone
    <3>3. \A l \in plainSeries' : Known(l, PlainDone)'
      BY <1>1, <3>1, <3>2, KnownBut DEF ExporterInv, SeriesKnown, PlainDone
    <3>4. \A l \in DeviceSeries : /\ memory'[l] # "none" => Known(l, MemoryDone)'
                                  /\ protected'[l] # "none" => Known(l, ProtectedDone)'
      BY <1>1, <3>1, <3>2, KnownBut DEF ExporterInv, SeriesKnown, MemoryDone, ProtectedDone
    <3> QED
      BY <1>6, <3>3, <3>4 DEF SeriesKnown
  <2>4. CASE DeleteFingerprint
    <3>1. /\ deleting = "fingerprint" /\ deleting' = "zeroed"
          /\ UNCHANGED <<memory, plainSeries, protected>>
      BY <2>4 DEF DeleteFingerprint, DeleteNext
    <3>2. "fingerprint" \in MemoryDone /\ "fingerprint" \in PlainDone /\ "fingerprint" \in ProtectedDone
      BY DEF MemoryDone, PlainDone, ProtectedDone
    <3>3. \A l \in plainSeries' : Known(l, PlainDone)'
      BY <1>1, <3>1, <3>2, KnownBut DEF ExporterInv, SeriesKnown, PlainDone
    <3>4. \A l \in DeviceSeries : /\ memory'[l] # "none" => Known(l, MemoryDone)'
                                  /\ protected'[l] # "none" => Known(l, ProtectedDone)'
      BY <1>1, <3>1, <3>2, KnownBut DEF ExporterInv, SeriesKnown, MemoryDone, ProtectedDone
    <3> QED
      BY <1>6, <3>3, <3>4 DEF SeriesKnown
  <2> QED
    BY <2>1, <2>2, <2>3, <2>4
<1> QED
  BY <1>1, <1>2, <1>3, <1>5, <1>7, DeletionKeeps

LEMMA DeleteZeroedKeeps ==
    ASSUME ExporterInv, DeleteValuesStep, DeleteZeroed
    PROVE  ExporterInv' /\ StepGood
<1> DEFINE x == Deleted
<1>1. /\ deleting = "zeroed" /\ deleting' = "labels"
      /\ sweep' = [sweep EXCEPT !.devices = @ \ {x}] /\ zeroed' = zeroed \ {x}
      /\ UNCHANGED <<containerSeries, plainSeries, memory, protected, fingerprinted>>
      /\ UNCHANGED <<podVars, gpuContainers, queue, pending, report, relabelled, escaped>>
      /\ laidToRest' = {l \in laidToRest : l \in zeroed' \/ l \notin zeroed \/ ~Stored(l.key)}
  BY DEF DeleteZeroed, DeleteNext, DeleteValuesStep
<1>2. /\ sweep'.step = sweep.step /\ sweep'.now = sweep.now
      /\ sweep'.containers = sweep.containers /\ sweep'.devices = sweep.devices \ {x}
      /\ sweep' \in [step : {"idle", "purge", "unmap", "delete"}, now : Times,
                     containers : SUBSET ContainerSeries, devices : SUBSET DeviceSeries]
  <2> HIDE DEF x
  <2> QED
    BY <1>1, ExporterParts DEF SweepType
<1>3. StepGood
  BY <1>1, <1>2, DeletionGood
<1>4. sweep.step = "delete"
  BY <1>1 DEF ExporterInv, Phases
<1>5. GaugesType' /\ "labels" \in Deletions \ {"idle"}
  BY <1>1, ExporterParts DEF GaugesType, Deletions
<1>6. ASSUME NEW l, NEW done, "zeroed" \in done, "labels" \notin done, Known(l, done)
      PROVE  Known(l, done)'
  <2>1. Listed(l) \/ Excused(l) => Listed(l)' \/ Excused(l)'
    BY <1>1 DEF Listed, Stored, Excused
  <2>2. l \in sweep.devices /\ l # x => l \in sweep'.devices
    BY <1>2
  <2> QED
    BY <1>1, <1>6, <2>1, <2>2 DEF Known
<1>7. SeriesKnown'
  <2>1. /\ "zeroed" \in MemoryDone /\ "zeroed" \in PlainDone /\ "zeroed" \in ProtectedDone
        /\ "labels" \notin MemoryDone /\ "labels" \notin PlainDone /\ "labels" \notin ProtectedDone
    BY DEF MemoryDone, PlainDone, ProtectedDone
  <2>2. \A l \in containerSeries' : Current(l)' \/ l \in sweep'.containers \/ Excused(l)'
    BY <1>1, <1>2 DEF ExporterInv, SeriesKnown, Current, Stored, Excused
  <2>3. \A l \in plainSeries' : Known(l, PlainDone)'
    BY <1>1, <1>6, <2>1 DEF ExporterInv, SeriesKnown, PlainDone
  <2>4. \A l \in DeviceSeries : /\ memory'[l] # "none" => Known(l, MemoryDone)'
                                /\ protected'[l] # "none" => Known(l, ProtectedDone)'
    BY <1>1, <1>6, <2>1 DEF ExporterInv, SeriesKnown, MemoryDone, ProtectedDone
  <2> QED
    BY <2>2, <2>3, <2>4 DEF SeriesKnown
<1> QED
  BY <1>1, <1>2, <1>3, <1>4, <1>5, <1>7, DeletionKeeps
-----------------------------------------------------------------------------
(* The report loop's writes.                                                *)

LEMMA ReportType ==
    ASSUME ExporterInv
    PROVE  /\ report.step = "container" =>
                 report.container \in ContainerSeries /\ report.device \in DeviceSeries
           /\ report.step \in {"total", "memory", "counters"} =>
                 /\ report \in [step : {"total", "memory", "counters"}, device : DeviceSeries]
                 /\ report.device \in DeviceSeries
<1> report \in Reports
  BY ExporterParts DEF CollectorType
<1> QED
  BY DEF Reports, NoReport

\* A step that writes gauges of series that are listed or excused, and none in use that is
\* guarded.
LEMMA WriteKeeps ==
    ASSUME ExporterInv, UNCHANGED <<vars, pending, deleting, zeroed, laidToRest, relabelled>>,
           GaugesType', report' \in Reports, escaped \subseteq escaped', escaped' \subseteq Keys,
           \A l \in containerSeries' : l \in containerSeries \/ Current(l) \/ Excused(l)',
           \A l \in plainSeries' : l \in plainSeries \/ Listed(l) \/ Excused(l)',
           \A l \in DeviceSeries :
              \/ memory'[l] = memory[l] /\ protected'[l] = protected[l]
              \/ l \notin zeroed /\ (Listed(l) \/ l.key \in escaped')
    PROVE  ExporterInv' /\ StepGood
<1>1. UNCHANGED <<gpuContainers, queue, sweep>>
  BY DEF vars, storeVars
<1>2. StepGood
  BY ExporterParts, StutterGood
<1>3. CollectorType' /\ HistoryType' /\ Phases'
  BY <1>1, ExporterParts DEF CollectorType, HistoryType, ExporterInv, Phases
<1>4. GuardedReadsZero' /\ RestGuarded'
  <2>1. \A l \in zeroed : memory'[l] = memory[l] /\ protected'[l] = protected[l]
    BY ExporterParts DEF GaugesType
  <2> QED
    BY <1>1, <2>1 DEF ExporterInv, GuardedReadsZero, RestGuarded, ShowsZero, Stored
<1>5. SeriesKnown'
  <2>1. /\ \A l : Listed(l) => Listed(l)'
        /\ \A l : Current(l) => Current(l)'
        /\ \A l : Excused(l) => Excused(l)'
    BY <1>1 DEF Listed, Current, Stored, Excused
  <2>2. \A l \in DeviceSeries : \A done : Known(l, done) => Known(l, done)'
    BY <1>1, RecordsKeptUnchanged, KnownKept
  <2>3. \A l \in containerSeries' : Current(l)' \/ l \in sweep'.containers \/ Excused(l)'
    BY <1>1, <2>1 DEF ExporterInv, SeriesKnown
  <2>4. \A l \in plainSeries' : Known(l, PlainDone)'
    <3> SUFFICES ASSUME NEW l \in plainSeries' PROVE Known(l, PlainDone)'
      OBVIOUS
    <3>1. CASE l \in plainSeries
      BY <2>2, <3>1, ExporterParts DEF ExporterInv, SeriesKnown, GaugesType, PlainDone
    <3>2. CASE l \notin plainSeries
      BY <2>1, <3>2 DEF Known
    <3> QED
      BY <3>1, <3>2
  <2>5. ASSUME NEW l \in DeviceSeries
        PROVE  /\ memory'[l] # "none" => Known(l, MemoryDone)'
               /\ protected'[l] # "none" => Known(l, ProtectedDone)'
    <3>1. CASE memory'[l] = memory[l] /\ protected'[l] = protected[l]
      BY <2>2, <3>1 DEF ExporterInv, SeriesKnown, MemoryDone, ProtectedDone
    <3>2. CASE Listed(l) \/ l.key \in escaped'
      BY <2>1, <3>2 DEF Known, Excused
    <3> QED
      BY <3>1, <3>2
  <2> QED
    BY <2>3, <2>4, <2>5 DEF SeriesKnown
<1>6. ResurrectedOnlyLate'
  <2> SUFFICES ASSUME NEW l \in laidToRest, ~Stored(l.key), "positive" \in {memory'[l], protected'[l]}
               PROVE  l.key \in escaped'
    BY <1>1 DEF ResurrectedOnlyLate, Stored
  <2>1. l \in DeviceSeries
    BY ExporterParts DEF HistoryType
  <2>2. CASE memory'[l] = memory[l] /\ protected'[l] = protected[l]
    BY <2>2 DEF ExporterInv, ResurrectedOnlyLate
  <2>3. CASE Listed(l) \/ l.key \in escaped'
    BY <2>3 DEF Listed
  <2> QED
    BY <2>1, <2>2, <2>3
<1> QED
  BY <1>2, <1>3, <1>4, <1>5, <1>6, ExporterAssemble DEF StepGood

LEMMA ReportContainerKeeps ==
    ASSUME ExporterInv, ReportContainer
    PROVE  ExporterInv' /\ StepGood
<1>1. /\ report.step = "container" /\ report' = [step |-> "total", device |-> report.device]
      /\ UNCHANGED <<vars, pending, plainSeries, memory, protected, zeroed, fingerprinted, deleting,
                     laidToRest, relabelled>>
  BY DEF ReportContainer
<1>2. report.container \in ContainerSeries /\ report' \in Reports
  BY <1>1, ReportType DEF Reports
<1> PICK x \in ContainerSeries : report.container = x
  BY <1>2
<1>3. CASE containerSeries' = containerSeries \cup {x} /\ NoteEscape(x.key, Current(x))
  <2>1. /\ escaped \subseteq escaped' /\ escaped' \subseteq escaped \cup {x.key}
        /\ Current(x) \/ Excused(x)'
    BY <1>1, <1>3 DEF NoteEscape, Excused
  <2>2. GaugesType' /\ escaped' \subseteq Keys
    BY <1>1, <1>3, <2>1, ExporterParts, SeriesType DEF GaugesType, HistoryType
  <2> QED
    BY <1>1, <1>2, <1>3, <2>1, <2>2, WriteKeeps
<1>4. CASE UNCHANGED <<containerSeries, escaped>>
  <2> GaugesType' /\ escaped' \subseteq Keys
    BY <1>1, <1>4, ExporterParts DEF GaugesType, HistoryType
  <2> QED
    BY <1>1, <1>2, <1>4, WriteKeeps
<1> QED
  BY <1>3, <1>4 DEF ReportContainer

LEMMA ReportPlainKeeps ==
    ASSUME ExporterInv, ReportTotal \/ ReportCounters
    PROVE  ExporterInv' /\ StepGood
<1>1. /\ report.step \in {"total", "counters"}
      /\ report' \in {[report EXCEPT !.step = "memory"], NoReport}
      /\ plainSeries' = plainSeries \cup {report.device}
      /\ NoteEscape(report.device.key, Listed(report.device))
      /\ UNCHANGED <<vars, pending, containerSeries, memory, protected, zeroed, fingerprinted, deleting,
                     laidToRest, relabelled>>
  BY DEF ReportTotal, ReportCounters
<1>2. report.device \in DeviceSeries /\ report' \in Reports
  BY <1>1, ReportType DEF Reports
<1> PICK x \in DeviceSeries : report.device = x
  BY <1>2
<1>3. /\ escaped \subseteq escaped' /\ escaped' \subseteq escaped \cup {x.key}
      /\ Listed(x) \/ Excused(x)'
  BY <1>1 DEF NoteEscape, Excused
<1>4. GaugesType' /\ escaped' \subseteq Keys
  BY <1>1, <1>3, ExporterParts, SeriesType DEF GaugesType, HistoryType
<1> QED
  BY <1>1, <1>2, <1>3, <1>4, WriteKeeps

LEMMA ReportMemoryKeeps ==
    ASSUME ExporterInv, ReportMemory
    PROVE  ExporterInv' /\ StepGood
<1> PICK protectedValue \in {"zero", "positive"} :
      SetMemoryValues(report.device, "positive", protectedValue)
  BY DEF ReportMemory
<1>1. /\ report.step = "memory" /\ report' = [report EXCEPT !.step = "counters"]
      /\ NoteEscape(report.device.key, Listed(report.device))
      /\ UNCHANGED <<vars, pending, deleting, laidToRest, relabelled>>
  BY DEF ReportMemory
<1>2. report.device \in DeviceSeries /\ report' \in Reports
  BY <1>1, ReportType DEF Reports
<1> PICK x \in DeviceSeries : report.device = x
  BY <1>2
<1>3. /\ escaped \subseteq escaped' /\ escaped' \subseteq escaped \cup {x.key}
      /\ Listed(x) \/ x.key \in escaped'
  BY <1>1 DEF NoteEscape
<1>4. escaped' \subseteq Keys
  BY <1>3, ExporterParts, SeriesType DEF HistoryType
<1>5. CASE x \in zeroed
  <2>1. UNCHANGED <<containerSeries, plainSeries, memory, protected, zeroed, fingerprinted>>
    BY <1>5 DEF SetMemoryValues, gaugeVars
  <2>2. GaugesType'
    BY <2>1, ExporterParts DEF GaugesType
  <2> QED
    BY <1>1, <1>2, <1>3, <1>4, <2>1, <2>2, WriteKeeps
<1>6. CASE x \notin zeroed
  <2>0. /\ protectedValue \in Values /\ "positive" \in Values
        /\ memory \in [DeviceSeries -> Values] /\ protected \in [DeviceSeries -> Values]
    BY ExporterParts DEF Values, GaugesType
  <2>1. /\ memory' = WithValue(memory, {x}, "positive")
        /\ protected' \in {protected, WithValue(protected, {x}, protectedValue)}
        /\ fingerprinted' \in {fingerprinted, fingerprinted \cup {x}}
        /\ UNCHANGED <<containerSeries, plainSeries, zeroed>>
    BY <1>6 DEF SetMemoryValues
  <2>2. /\ memory' \in [DeviceSeries -> Values] /\ protected' \in [DeviceSeries -> Values]
        /\ \A l \in DeviceSeries : l # x => memory'[l] = memory[l] /\ protected'[l] = protected[l]
    <3>1. /\ WithValue(memory, {x}, "positive") \in [DeviceSeries -> Values]
          /\ \A l \in DeviceSeries : l # x => WithValue(memory, {x}, "positive")[l] = memory[l]
      BY <2>0, WithValueType
    <3>2. /\ WithValue(protected, {x}, protectedValue) \in [DeviceSeries -> Values]
          /\ \A l \in DeviceSeries : l # x => WithValue(protected, {x}, protectedValue)[l] = protected[l]
      BY <2>0, WithValueType
    <3> QED
      BY <2>0, <2>1, <3>1, <3>2
  <2>3. GaugesType'
    BY <1>2, <2>1, <2>2, ExporterParts DEF GaugesType
  <2> QED
    BY <1>1, <1>2, <1>3, <1>4, <1>6, <2>1, <2>2, <2>3, WriteKeeps
<1> QED
  BY <1>5, <1>6

-----------------------------------------------------------------------------
(* The theorems.                                                            *)

LEMMA ExporterInitGood == ExporterInit => ExporterInv
<1> SUFFICES ASSUME ExporterInit PROVE ExporterInv
  OBVIOUS
<1>1. IInv
  BY InitGood DEF ExporterInit
<1>2. ExporterTypeOK
  <2> TypeOK
    BY <1>1 DEF IInv
  <2> QED
    BY DEF ExporterInit, ExporterTypeOK, Values, Reports, Deletions
<1>3. sweep.containers = {} /\ sweep.devices = {}
  BY DEF ExporterInit, Init, NoSweep
<1>4. GuardedReadsZero /\ RestGuarded /\ ResurrectedOnlyLate /\ Phases
  BY <1>3 DEF ExporterInit, GuardedReadsZero, RestGuarded, ResurrectedOnlyLate, Phases
<1>5. SeriesKnown
  BY DEF ExporterInit, SeriesKnown
<1> QED
  BY <1>1, <1>2, <1>4, <1>5 DEF ExporterInv

LEMMA ExporterStepGood == ExporterInv /\ [ExporterNext]_exporterVars => ExporterInv' /\ StepGood
<1> SUFFICES ASSUME ExporterInv, [ExporterNext]_exporterVars PROVE ExporterInv' /\ StepGood
  OBVIOUS
<1>1. CASE Environment
  BY <1>1, EnvironmentKeeps
<1>2. ASSUME NEW u \in Pods, InformerEvent(u) PROVE ExporterInv' /\ StepGood
  BY <1>2, InformerEventKeeps
<1>3. CASE SweeperLocked
  BY <1>3, SweepStartsKeeps, PurgeKeeps DEF SweeperLocked
<1>4. CASE DeleteValuesStarts
  BY <1>4, DeleteValuesStartsKeeps
<1>5. CASE DeleteValuesStep
  BY <1>5, DeleteContainerSeriesKeeps, DeleteDeviceKeeps, DeleteZeroedKeeps DEF DeleteValuesStep
<1>6. CASE DeleteValuesEnds
  BY <1>6, DeleteValuesEndsKeeps
<1>7. CASE CollectorStep
  BY <1>7, CollectKeeps, ReportNextKeeps, ReportContainerKeeps, ReportPlainKeeps, ReportMemoryKeeps
  DEF CollectorStep
<1>8. CASE UNCHANGED exporterVars
  BY <1>8, StutterKeeps
<1> QED
  BY <1>1, <1>2, <1>3, <1>4, <1>5, <1>6, <1>7, <1>8 DEF ExporterNext

\* The inductive invariant of store, gauges and collector together: what has been zeroed is
\* guarded, and every series is listed by a record, still to be deleted, or excused.
THEOREM ExporterInvariance == ExporterSpec => []ExporterInv
<1>1. ExporterInv /\ [ExporterNext]_exporterVars => ExporterInv'
  BY ExporterStepGood
<1> QED
  BY ExporterInitGood, <1>1, PTL DEF ExporterSpec

\* Store, gauges and collector stay well typed.
THEOREM ExporterTypeCorrect == ExporterSpec => []ExporterTypeOK
<1>1. ExporterInv => ExporterTypeOK
  BY DEF ExporterInv
<1> QED
  BY ExporterInvariance, <1>1, PTL

\* zeroedPerDevice is never outrun: no interleaving of ZeroValues, SetMemoryValues and
\* DeleteValues shows memory in use under a guard.
THEOREM GuardsHold == ExporterSpec => []GuardedReadsZero
<1>1. ExporterInv => GuardedReadsZero
  BY DEF ExporterInv
<1> QED
  BY ExporterInvariance, <1>1, PTL

\* What the callbacks zero when a container finishes shows zero while it is stored,
\* whatever report the collector had under way, and is not deleted before the purge.
THEOREM FinishedShowsZero == ExporterSpec => []FinishedStaysZero
<1>1. ExporterInv => FinishedStaysZero
  BY DEF ExporterInv, RestGuarded, ShowsZero, GuardedReadsZero, FinishedStaysZero,
         ExporterTypeOK, Values
<1> QED
  BY ExporterInvariance, <1>1, PTL

\* Of the zeroed series of a purged container none shows memory in use again but by a report
\* that was overtaken between its look-up and its writes (metrics.go:454).
THEOREM LateReportsAlone == ExporterSpec => []ResurrectedOnlyLate
<1>1. ExporterInv => ResurrectedOnlyLate
  BY DEF ExporterInv
<1> QED
  BY ExporterInvariance, <1>1, PTL

\* A series outlives its container's record only while DeleteValues has it to delete, or
\* for one of the two reasons that the model names.
THEOREM SeriesAccounted == ExporterSpec => []LeaksExplained
<1>1. ExporterInv => LeaksExplained
  <2> SUFFICES ASSUME ExporterInv PROVE LeaksExplained
    OBVIOUS
  <2>1. \A l, done : Known(l, done) =>
           Stored(l.key) \/ l \in sweep.containers \cup sweep.devices \/ l.key \in escaped \cup relabelled
    BY DEF Known, Listed, Excused
  <2>2. \A l : Current(l) \/ l \in sweep.containers \/ Excused(l) =>
           Stored(l.key) \/ l \in sweep.containers \cup sweep.devices \/ l.key \in escaped \cup relabelled
    BY DEF Current, Excused
  <2> QED
    BY <2>1, <2>2 DEF ExporterInv, SeriesKnown, LeaksExplained
<1> QED
  BY ExporterInvariance, <1>1, PTL

\* The gauges and the collector change nothing of what Store promises: with them, too, each
\* finished container is scheduled once, and finished on evidence.
THEOREM ExporterKeepsStore == ExporterSpec => [](ScheduledOnce /\ FinishedOnEvidence)
<1>1. ExporterInv => ScheduledOnce /\ FinishedOnEvidence
  BY DEF ExporterInv, IInv
<1> QED
  BY ExporterInvariance, <1>1, PTL

\* As far as the records go a step of the exporter is one of the store.
LEMMA RecordsStep ==
    ExporterInv /\ [ExporterNext]_exporterVars => [Next]_vars \/ UNCHANGED gpuContainers
<1> SUFFICES ASSUME ExporterInv, [ExporterNext]_exporterVars
             PROVE  [Next]_vars \/ UNCHANGED gpuContainers
  OBVIOUS
<1>1. CASE Environment \/ SweeperLocked \/ \E u \in Pods : InformerEvent(u)
  BY <1>1 DEF Environment, SweeperLocked, InformerEvent, Next, SweeperStep
<1>2. CASE DeleteValuesStarts \/ DeleteValuesStep \/ DeleteValuesEnds
  BY <1>2 DEF DeleteValuesStarts, UnmapExpired, DeleteValuesStep, DeleteValuesEnds, SweepEnds
<1>3. CASE ReportNext
  <2>1. PICK x \in pending : LookUp(x[1], x[2])
    BY <1>3 DEF ReportNext
  <2>2. x[1] \in Keys /\ x[2] \in Devices
    BY ExporterParts DEF CollectorType
  <2> QED
    BY <2>1, <2>2 DEF LookUp, Next
<1>4. CASE Collect \/ ReportContainer \/ ReportTotal \/ ReportMemory \/ ReportCounters
  BY <1>4 DEF Collect, ReportContainer, ReportTotal, ReportMemory, ReportCounters
<1>5. CASE UNCHANGED exporterVars
  BY <1>5 DEF exporterVars
<1> QED
  BY <1>1, <1>2, <1>3, <1>4, <1>5 DEF ExporterNext, CollectorStep

\* With the collector's look-ups wherever they fall between the callbacks, too, no record
\* caches labels of a name that it no longer has.
THEOREM ExporterKeepsNames == ExporterSpec => []DeviceNamesCurrent
<1>1. ExporterInit => DeviceNamesCurrent
  BY DEF ExporterInit, Init, DeviceNamesCurrent, Stored
<1>2. ExporterInv /\ DeviceNamesCurrent /\ [ExporterNext]_exporterVars => DeviceNamesCurrent'
  <2>1. ExporterInv => IInv
    BY DEF ExporterInv
  <2> QED
    BY <2>1, RecordsStep, NamesStep
<1> QED
  BY <1>1, <1>2, ExporterInvariance, PTL DEF ExporterSpec

\* With gauges and collector, too, every container lives the life that ContainerLifecycle
\* allows: the exporter implements it through the store.
THEOREM ExporterImplementsLifecycle == ExporterSpec => ImplementsLifecycle
<1>1. ExporterInit => Init
  BY DEF ExporterInit
<1>2. ExporterInv /\ [ExporterNext]_exporterVars =>
         [Lifecycle!LifecycleNext]_<<now, [k \in Keys |-> LifeOf(k)]>>
  BY ExporterStepGood, LifecycleStep
<1> USE DEF LifeOf
<1> QED
  BY <1>1, <1>2, LifecycleInitial, ExporterInvariance, PTL
  DEF ExporterSpec, ImplementsLifecycle, Lifecycle!LifecycleSpec
=============================================================================
