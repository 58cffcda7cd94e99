---------------------------- MODULE GuardProofs ----------------------------
(***************************************************************************)
(* Proofs about the maps of the metrics provider, zeroedPerDevice and       *)
(* fingerprintsByGauge, for any pods, containers, devices, labels and       *)
(* bounds: what is in them is there for a container that is stored or being *)
(* purged, and a guard outlasts the series that it guards, whatever the     *)
(* collector, the informer's callbacks and a purge without the lock do to   *)
(* each other.                                                              *)
(***************************************************************************)
EXTENDS ExporterProofs

\* Who knows of a guard: the store, which lists its labels, or DeleteValues, which has it
\* still to delete.  Nothing else is an excuse, unless the container's labels changed.
GuardKnown(l) == Listed(l) \/ l \in sweep.devices \/ l.key \in relabelled

\* DeleteValues drops a label set's fingerprint one step before its guard.
FingerprintDone == {"zeroed"}

GuardsKnown ==
    /\ \A l \in zeroed : GuardKnown(l)
    /\ \A l \in fingerprinted : Known(l, FingerprintDone)

-----------------------------------------------------------------------------
(* The steps.                                                               *)

LEMMA ListedStays ==
    ASSUME RecordsKept, NEW l \in DeviceSeries, Listed(l)
    PROVE  Listed(l)' \/ l.key \in relabelled'
<1>1. l.key \in Keys /\ l.device \in Devices /\ l.labels \in Labels
  BY SeriesType
<1>2. Stored(l.key) /\ gpuContainers[l.key].devices[l.device] = l.labels
  BY DEF Listed
<1>3. Stored(l.key)'
  BY <1>1, <1>2 DEF RecordsKept
<1> QED
  BY <1>1, <1>2, <1>3 DEF RecordsKept, LabelsKept, Listed

\* A step that purges nothing and deletes no fingerprint or guard, and adds those of labels
\* that are listed, or excused.
LEMMA GuardsKept ==
    ASSUME ExporterInv, GuardsKnown, RecordsKept,
           relabelled \subseteq relabelled', escaped \subseteq escaped',
           sweep'.devices = sweep.devices, deleting' \in {deleting} \cup (Deletions \ {"zeroed"}),
           \A l \in zeroed' : l \in zeroed \/ Listed(l)',
           \A l \in fingerprinted' : l \in fingerprinted \/ Listed(l)' \/ Excused(l)'
    PROVE  GuardsKnown'
<1>0. zeroed \subseteq DeviceSeries /\ fingerprinted \subseteq DeviceSeries
  BY ExporterParts DEF GaugesType
<1>1. \A l \in zeroed : GuardKnown(l)'
  BY <1>0, ListedStays DEF GuardsKnown, GuardKnown
<1>2. Deleted' = Deleted
  BY DEF Deleted
<1>3. deleting' \in FingerprintDone => deleting \in FingerprintDone
  BY DEF FingerprintDone, Deletions
<1>4. \A l \in fingerprinted : Known(l, FingerprintDone)'
  BY <1>0, <1>2, <1>3, ListedKept DEF GuardsKnown, Known, FingerprintDone
<1> QED
  BY <1>1, <1>4 DEF GuardsKnown, GuardKnown, Known

LEMMA QuietGuards ==
    ASSUME ExporterInv, GuardsKnown, RecordsKept,
           UNCHANGED <<gaugeVars, historyVars>>, sweep'.devices = sweep.devices,
           deleting' \in {deleting} \cup (Deletions \ {"zeroed"})
    PROVE  GuardsKnown'
BY GuardsKept DEF gaugeVars, historyVars

LEMMA InformerGuards ==
    ASSUME ExporterInv, GuardsKnown, NEW u \in Pods, InformerEvent(u)
    PROVE  GuardsKnown'
<1>1. /\ ReconcilePod(u) \/ FinishDeletedPod(u)
      /\ zeroed' = zeroed \cup SeriesFinished
      /\ relabelled' = relabelled \cup
           {k \in Keys : Stored(k) /\ LabelsOf(gpuContainers'[k]) # LabelsOf(gpuContainers[k])}
      /\ UNCHANGED <<fingerprinted, deleting, escaped>>
  BY DEF InformerEvent, ZeroValues
<1>2. sweep' = sweep
  BY <1>1 DEF ReconcilePod, FinishDeletedPod
<1>3. \A l \in SeriesFinished : Listed(l)'
  BY <1>1, FinishedListed
<1>4. RecordsKept
  <2> SUFFICES ASSUME NEW k \in Keys, Stored(k)
               PROVE  /\ Stored(k)'
                      /\ LabelsKept(gpuContainers[k], gpuContainers'[k]) \/ k \in relabelled'
    BY DEF RecordsKept
  <2> QED
    BY <1>1, EventLabels
<1> HIDE DEF SeriesFinished
<1> QED
  BY <1>1, <1>2, <1>3, <1>4, GuardsKept

\* What purge pops it hands to DeleteValues, which has not begun.
LEMMA PurgeGuards ==
    ASSUME ExporterInv, GuardsKnown, PurgeExpired, UNCHANGED <<gaugeVars, deleting, historyVars>>
    PROVE  GuardsKnown'
<1>1. UNCHANGED <<zeroed, fingerprinted, deleting, relabelled, escaped>>
  BY DEF gaugeVars, historyVars
<1>2. deleting = "idle" /\ sweep.devices = {}
  BY DEF PurgeExpired, ExporterInv, Phases
<1>3. ASSUME NEW l \in DeviceSeries, Listed(l)
      PROVE  Listed(l)' \/ l \in sweep'.devices
  <2>1. /\ l.key \in Keys /\ l.device \in Devices /\ l.labels \in Labels
        /\ l = [key |-> l.key, device |-> l.device, labels |-> l.labels]
    BY DEF DeviceSeries
  <2>2. Stored(l.key) /\ gpuContainers[l.key].devices[l.device] = l.labels
    BY <1>3 DEF Listed
  <2>3. CASE Stored(l.key)'
    BY <2>1, <2>2, <2>3, PurgeNotes DEF Listed
  <2>4. CASE ~Stored(l.key)'
    <3> [key |-> l.key, device |-> l.device, labels |-> l.labels] \in sweep'.devices
      BY <2>1, <2>2, <2>4, PurgeNotes
    <3> QED
      BY <2>1
  <2> QED
    BY <2>3, <2>4
<1>4. zeroed \subseteq DeviceSeries /\ fingerprinted \subseteq DeviceSeries
  BY ExporterParts DEF GaugesType
<1>5. deleting' \notin FingerprintDone
  BY <1>1, <1>2 DEF FingerprintDone
<1>6. \A l \in zeroed : GuardKnown(l)'
  BY <1>1, <1>2, <1>3, <1>4 DEF GuardsKnown, GuardKnown
<1>7. \A l \in fingerprinted : Known(l, FingerprintDone)'
  BY <1>1, <1>2, <1>3, <1>4, <1>5 DEF GuardsKnown, Known, Excused, FingerprintDone
<1> QED
  BY <1>1, <1>6, <1>7 DEF GuardsKnown

LEMMA DeletionGuards ==
    ASSUME ExporterInv, GuardsKnown, DeleteValuesStep
    PROVE  GuardsKnown'
<1>0. UNCHANGED <<gpuContainers, relabelled, escaped>>
  BY DEF DeleteValuesStep
<1>1. CASE DeleteContainerSeries
  <2>1. sweep'.devices = sweep.devices /\ UNCHANGED <<zeroed, fingerprinted, deleting>>
    BY <1>1, ExporterParts DEF DeleteContainerSeries, SweepType
  <2> QED
    BY <1>0, <2>1, RecordsKeptUnchanged, GuardsKept
<1>2. CASE DeleteMemory \/ DeletePlain \/ DeleteProtected
  <2>1. /\ UNCHANGED <<sweep, zeroed, fingerprinted>>
        /\ deleting' \in Deletions \ {"zeroed"}
    BY <1>2 DEF DeleteMemory, DeletePlain, DeleteProtected, DeleteNext, Deletions
  <2> QED
    BY <1>0, <2>1, RecordsKeptUnchanged, GuardsKept
<1>3. CASE DeleteFingerprint
  <2>1. /\ UNCHANGED <<sweep, zeroed>> /\ fingerprinted' = fingerprinted \ {Deleted}
    BY <1>3 DEF DeleteFingerprint
  <2>2. \A l \in zeroed' : GuardKnown(l)'
    BY <1>0, <2>1 DEF GuardsKnown, GuardKnown, Listed, Stored
  <2>3. \A l \in fingerprinted' : Known(l, FingerprintDone)'
    BY <1>0, <2>1, KnownBut DEF GuardsKnown, FingerprintDone
  <2> QED
    BY <2>2, <2>3 DEF GuardsKnown
<1>4. CASE DeleteZeroed
  <2> DEFINE x == Deleted
  <2>1. /\ sweep' = [sweep EXCEPT !.devices = @ \ {x}] /\ zeroed' = zeroed \ {x}
        /\ deleting = "zeroed" /\ deleting' = "labels" /\ UNCHANGED fingerprinted
    BY <1>4 DEF DeleteZeroed, DeleteNext
  <2>2. sweep'.devices = sweep.devices \ {x}
    <3> HIDE DEF x
    <3> QED
      BY <2>1, ExporterParts DEF SweepType
  <2>3. \A l : Listed(l)' <=> Listed(l)
    BY <1>0 DEF Listed, Stored
  <2>4. \A l \in zeroed' : GuardKnown(l)'
    BY <1>0, <2>1, <2>2, <2>3 DEF GuardsKnown, GuardKnown
  <2>5. \A l \in fingerprinted' : Known(l, FingerprintDone)'
    BY <1>0, <2>1, <2>2, <2>3 DEF GuardsKnown, Known, Excused, FingerprintDone
  <2> QED
    BY <2>4, <2>5 DEF GuardsKnown
<1> QED
  BY <1>1, <1>2, <1>3, <1>4 DEF DeleteValuesStep

\* The collector adds no guard; a fingerprint it adds is of labels that are listed, or its
\* container is noted.
LEMMA ReportGuards ==
    ASSUME ExporterInv, GuardsKnown, ReportContainer \/ ReportTotal \/ ReportMemory \/ ReportCounters
    PROVE  GuardsKnown'
<1>1. UNCHANGED <<vars, deleting, relabelled>>
  BY DEF ReportContainer, ReportTotal, ReportMemory, ReportCounters
<1>2. UNCHANGED <<gpuContainers, sweep>>
  BY <1>1 DEF vars, storeVars
<1>3. escaped \subseteq escaped' /\ zeroed' = zeroed
  BY DEF ReportContainer, ReportTotal, ReportMemory, ReportCounters, NoteEscape, SetMemoryValues, gaugeVars
<1>4. \A l \in fingerprinted' : l \in fingerprinted \/ Listed(l)' \/ Excused(l)'
  <2>1. CASE ReportContainer \/ ReportTotal \/ ReportCounters
    BY <2>1 DEF ReportContainer, ReportTotal, ReportCounters
  <2>2. CASE ReportMemory
    <3> PICK x : x = report.device
      OBVIOUS
    <3>1. fingerprinted' \subseteq fingerprinted \cup {x}
      BY <2>2 DEF ReportMemory, SetMemoryValues, gaugeVars
    <3>2. Listed(x) \/ x.key \in escaped'
      BY <2>2 DEF ReportMemory, NoteEscape
    <3>3. Listed(x)' \/ Excused(x)'
      BY <1>2, <3>2 DEF Listed, Stored, Excused
    <3> QED
      BY <3>1, <3>3
  <2> QED
    BY <2>1, <2>2
<1> QED
  BY <1>1, <1>2, <1>3, <1>4, RecordsKeptUnchanged, GuardsKept

LEMMA GuardsStep == ExporterInv /\ GuardsKnown /\ [ExporterNext]_exporterVars => GuardsKnown'
<1> SUFFICES ASSUME ExporterInv, GuardsKnown, [ExporterNext]_exporterVars PROVE GuardsKnown'
  OBVIOUS
<1>1. ASSUME UNCHANGED <<gpuContainers, gaugeVars, historyVars>>, sweep'.devices = sweep.devices,
             deleting' \in {deleting} \cup (Deletions \ {"zeroed"})
      PROVE  GuardsKnown'
  BY <1>1, RecordsKeptUnchanged, QuietGuards
<1>2. CASE Environment
  BY <1>1, <1>2 DEF Environment, EnvironmentStep, storeVars
<1>3. ASSUME NEW u \in Pods, InformerEvent(u) PROVE GuardsKnown'
  BY <1>3, InformerGuards
<1>4. CASE SweeperLocked
  <2>1. CASE SweepStarts
    <3>1. sweep'.devices = sweep.devices /\ UNCHANGED gpuContainers
      BY <2>1, ExporterParts DEF SweepStarts, SweepType
    <3> QED
      BY <1>1, <1>4, <3>1 DEF SweeperLocked
  <2>2. CASE PurgeExpired
    BY <1>4, <2>2, PurgeGuards DEF SweeperLocked
  <2> QED
    BY <1>4, <2>1, <2>2 DEF SweeperLocked
<1>5. CASE DeleteValuesStarts
  <2>1. sweep'.devices = sweep.devices /\ UNCHANGED gpuContainers /\ deleting' \in Deletions \ {"zeroed"}
    BY <1>5, ExporterParts DEF DeleteValuesStarts, UnmapExpired, SweepType, Deletions
  <2> QED
    BY <1>1, <1>5, <2>1 DEF DeleteValuesStarts
<1>6. CASE DeleteValuesStep
  BY <1>6, DeletionGuards
<1>7. CASE DeleteValuesEnds
  <2>1. sweep'.devices = sweep.devices /\ UNCHANGED gpuContainers /\ deleting' \in Deletions \ {"zeroed"}
    BY <1>7 DEF DeleteValuesEnds, SweepEnds, NoSweep, Deletions
  <2> QED
    BY <1>1, <1>7, <2>1 DEF DeleteValuesEnds
<1>8. CASE Collect
  BY <1>1, <1>8 DEF Collect, vars, storeVars
<1>9. CASE ReportNext
  <2> PICK x \in pending : LookUp(x[1], x[2])
    BY <1>9 DEF ReportNext
  <2>1. x[1] \in Keys /\ x[2] \in Devices
    BY ExporterParts DEF CollectorType
  <2>2. UNCHANGED <<gaugeVars, deleting, historyVars, sweep>>
    BY <1>9 DEF ReportNext, LookUp, GetMetricLabels, vars, storeVars
  <2>3. RecordsKept
    <3>1. CASE GetMetricLabels(x[1], x[2])
      BY <2>1, <3>1, LookUpLabels
    <3>2. CASE UNCHANGED vars
      BY <3>2, RecordsKeptUnchanged DEF vars, storeVars
    <3> QED
      BY <3>1, <3>2 DEF LookUp
  <2> QED
    BY <2>2, <2>3, QuietGuards
<1>10. CASE ReportContainer \/ ReportTotal \/ ReportMemory \/ ReportCounters
  BY <1>10, ReportGuards
<1>11. CASE UNCHANGED exporterVars
  BY <1>1, <1>11 DEF exporterVars, vars, storeVars
<1> QED
  BY <1>2, <1>3, <1>4, <1>5, <1>6, <1>7, <1>8, <1>9, <1>10, <1>11 DEF ExporterNext, CollectorStep

-----------------------------------------------------------------------------
(* What is deleted.                                                         *)

\* A label set at rest that DeleteValues has to delete still has its guard.
RestSwept == \A l \in laidToRest \cap sweep.devices : l \in zeroed

\* A step that drops no guard and hands nothing to DeleteValues, or that drops the guard of
\* a label set together with its place there.
LEMMA RestSweptKept ==
    ASSUME ExporterInv, RestSwept,
           \A l \in laidToRest' : l \in laidToRest \/ l \in zeroed',
           sweep'.devices \subseteq sweep.devices,
           \A l \in zeroed : l \in zeroed' \/ l \notin sweep'.devices
    PROVE  RestSwept'
BY DEF RestSwept

\* purge hands over only what is stored, and what is stored and at rest is guarded.
LEMMA PurgeRestSwept ==
    ASSUME ExporterInv, PurgeExpired, UNCHANGED <<gaugeVars, historyVars>>
    PROVE  RestSwept'
<1> DEFINE expired == {k \in Due(sweep.now) : Stored(k)}
<1>1. UNCHANGED <<zeroed, laidToRest>>
  BY DEF gaugeVars, historyVars
<1>2. sweep' =
        [step |-> "unmap", now |-> 0,
         containers |-> {[key |-> k, labels |-> LabelsOf(gpuContainers[k])] : k \in expired},
         devices |-> {[key |-> x[1], device |-> x[2],
                       labels |-> Labelled(gpuContainers[x[1]])[x[2]]] :
                        x \in {y \in expired \X Devices :
                                  gpuContainers[y[1]].devices[y[2]] # NotSeen}}]
  BY DEF PurgeExpired
<1>3. ASSUME NEW l \in sweep'.devices PROVE Stored(l.key)
  <2> HIDE DEF expired
  <2>1. \E x \in expired \X Devices : l.key = x[1]
    BY <1>2
  <2> QED
    BY <2>1 DEF expired
<1> QED
  BY <1>1, <1>3 DEF ExporterInv, RestGuarded, RestSwept

LEMMA RestSweptStep == ExporterInv /\ RestSwept /\ [ExporterNext]_exporterVars => RestSwept'
<1> SUFFICES ASSUME ExporterInv, RestSwept, [ExporterNext]_exporterVars PROVE RestSwept'
  OBVIOUS
<1>1. ASSUME UNCHANGED <<zeroed, laidToRest>>, sweep'.devices \subseteq sweep.devices
      PROVE  RestSwept'
  BY <1>1, RestSweptKept
<1>2. CASE Environment \/ Collect \/ ReportNext \/ UNCHANGED exporterVars
  <2> UNCHANGED <<zeroed, laidToRest, sweep>>
    BY <1>2 DEF Environment, EnvironmentStep, Collect, ReportNext, LookUp, GetMetricLabels,
                exporterVars, vars, storeVars, gaugeVars, historyVars
  <2> QED
    BY <1>1
<1>3. ASSUME NEW u \in Pods, InformerEvent(u) PROVE RestSwept'
  <2>1. sweep' = sweep
    BY <1>3 DEF InformerEvent, ReconcilePod, FinishDeletedPod
  <2>2. /\ zeroed' = zeroed \cup SeriesFinished
        /\ \A l \in laidToRest' : l \in laidToRest \/ l \in SeriesFinished
    BY <1>3 DEF InformerEvent, ZeroValues
  <2> HIDE DEF SeriesFinished
  <2> QED
    BY <2>1, <2>2, RestSweptKept
<1>4. CASE SweeperLocked
  <2>1. CASE SweepStarts
    <3> sweep'.devices = sweep.devices
      BY <2>1, ExporterParts DEF SweepStarts, SweepType
    <3> QED
      BY <1>1, <1>4 DEF SweeperLocked, gaugeVars, historyVars
  <2>2. CASE PurgeExpired
    BY <1>4, <2>2, PurgeRestSwept DEF SweeperLocked
  <2> QED
    BY <1>4, <2>1, <2>2 DEF SweeperLocked
<1>5. CASE DeleteValuesStarts \/ DeleteValuesEnds
  <2> sweep'.devices \subseteq sweep.devices
    BY <1>5, ExporterParts
       DEF DeleteValuesStarts, UnmapExpired, DeleteValuesEnds, SweepEnds, NoSweep, SweepType
  <2> QED
    BY <1>1, <1>5 DEF DeleteValuesStarts, DeleteValuesEnds, gaugeVars, historyVars
<1>6. CASE DeleteValuesStep
  <2>1. laidToRest' \subseteq laidToRest
    BY <1>6 DEF DeleteValuesStep
  <2>2. CASE DeleteZeroed
    <3> DEFINE x == Deleted
    <3>1. zeroed' = zeroed \ {x} /\ sweep' = [sweep EXCEPT !.devices = @ \ {x}]
      BY <2>2 DEF DeleteZeroed
    <3> HIDE DEF x
    <3>2. sweep'.devices = sweep.devices \ {x}
      BY <3>1, ExporterParts DEF SweepType
    <3> QED
      BY <2>1, <3>1, <3>2, RestSweptKept
  <2>3. CASE DeleteContainerSeries
    <3> zeroed' = zeroed /\ sweep'.devices = sweep.devices
      BY <2>3, ExporterParts DEF DeleteContainerSeries, SweepType
    <3> QED
      BY <2>1, RestSweptKept
  <2>4. CASE DeleteMemory \/ DeletePlain \/ DeleteProtected \/ DeleteFingerprint
    <3> zeroed' = zeroed /\ sweep' = sweep
      BY <2>4 DEF DeleteMemory, DeletePlain, DeleteProtected, DeleteFingerprint
    <3> QED
      BY <2>1, RestSweptKept
  <2> QED
    BY <1>6, <2>2, <2>3, <2>4 DEF DeleteValuesStep
<1>7. CASE ReportContainer \/ ReportTotal \/ ReportMemory \/ ReportCounters
  <2> UNCHANGED <<zeroed, laidToRest, sweep>>
    BY <1>7 DEF ReportContainer, ReportTotal, ReportMemory, ReportCounters, SetMemoryValues,
                gaugeVars, vars, storeVars
  <2> QED
    BY <1>1
<1> QED
  BY <1>2, <1>3, <1>4, <1>5, <1>6, <1>7 DEF ExporterNext, CollectorStep

-----------------------------------------------------------------------------
(* The theorems.                                                            *)

\* Every guard, and every fingerprint, is of labels that a record lists or that DeleteValues
\* has still to delete, or is excused.
THEOREM GuardsInvariance == ExporterSpec => []GuardsKnown
<1>1. ExporterInit => GuardsKnown
  BY DEF ExporterInit, GuardsKnown
<1> QED
  BY <1>1, GuardsStep, ExporterInvariance, PTL DEF ExporterSpec

\* zeroedPerDevice and fingerprintsByGauge keep nothing of a purged container but what
\* DeleteValues has still to delete, a late report has added (prometheus.go:215) or was for
\* labels that changed; no report, however late, adds a guard.
THEOREM GuardsAccounted == ExporterSpec => []GuardsExplained
<1>1. GuardsKnown => GuardsExplained
  BY DEF GuardsKnown, GuardKnown, Known, Listed, Excused, GuardsExplained
<1> QED
  BY <1>1, GuardsInvariance, PTL

\* While DeleteValues works on a purged container its zeroed series show no memory in use,
\* although the collector's late reports come between its steps: the guard goes last.
THEOREM SweptShowsZero == ExporterSpec => []SweptStaysZero
<1>1. ExporterInit => RestSwept
  BY DEF ExporterInit, RestSwept
<1>2. ExporterInv /\ RestSwept => SweptStaysZero
  BY DEF ExporterInv, GuardedReadsZero, RestSwept, SweptStaysZero
<1> QED
  BY <1>1, <1>2, RestSweptStep, ExporterInvariance, PTL DEF ExporterSpec
=============================================================================
