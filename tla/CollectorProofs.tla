-------------------------- MODULE CollectorProofs --------------------------
(***************************************************************************)
(* Proofs about Collector, for any devices, processes, containers, streams, *)
(* samples and pod objects: no poll counts a sample twice or drops it       *)
(* unnoticed, and what is published of a container is what it asks for.     *)
(***************************************************************************)
EXTENDS Collector, Sums, TLAPS

\* A stream has been read up to one of the samples of its device, or not at all.
SeenIsSample ==
    \A s \in Streams : lastSeen[s] = 0 \/ lastSeen[s] \in SampleTimes(s[1])

\* What a container may be published as.
Asked(ask) == {Calculate(ask, DeviceMemory[g]) : g \in Gpus}

\* A container's calculated values are those of its ask.
ValuesOfAsk ==
    \A c \in Containers : stored[c] # NotStored =>
        stored[c].calculatedValues \in Asked(stored[c].ask) \cup {Nil}

\* What is about to be published is of the container's ask, unless that changed after the
\* look-up: then the container does not count as up to date.
ReportOfAsk ==
    report # Idle =>
        LET c == report.entry[1] IN
        /\ stored[c] # NotStored
        /\ report.fresh => report.values \in Asked(stored[c].ask)
        /\ ~report.fresh => c \notin upToDate

UpToDateStored == \A c \in upToDate : stored[c] # NotStored

Inv ==
    /\ TypeOK
    /\ SeenIsSample
    /\ EverySampleWeighedOnce
    /\ ValuesOfAsk
    /\ ReportOfAsk
    /\ UpToDateStored
    /\ RequestsFollowAsk

-----------------------------------------------------------------------------
(* What a container asks for and what it may have.                          *)

LEMMA AskType ==
    ASSUME NEW pod \in PodObjects, NEW n \in DOMAIN DesiredGpuContainersForPod(pod)
    PROVE  DesiredGpuContainersForPod(pod)[n] \in Asks
<1> DEFINE kai == KaiContainers(pod)
           c == CHOOSE c \in K8sContainers(pod) : c.name = n
<1>0. WellTyped(pod)
  BY CollectorAssumption
<1>1. CASE n \in kai
  <2> DesiredGpuContainersForPod(pod)[n] =
        Ask("KaiScheduler", Nil, Nil, pod.fraction, pod.memory, pod.numDevices)
    BY <1>1 DEF DesiredGpuContainersForPod
  <2> QED
    BY <1>0 DEF WellTyped, Asks, Ask
<1>2. CASE n \notin kai
  <2>1. \E x \in K8sContainers(pod) : x.name = n
    BY <1>2 DEF DesiredGpuContainersForPod
  <2>2. c \in K8sContainers(pod)
    BY <2>1
  <2>3. c.request \in Int \cup {Nil} /\ c.limit \in Int \cup {Nil}
    BY <1>0, <2>2 DEF WellTyped, K8sContainers
  <2>4. DesiredGpuContainersForPod(pod)[n] = Ask("K8sResource", c.request, c.limit, Nil, Nil, Nil)
    BY <1>2 DEF DesiredGpuContainersForPod
  <2> HIDE DEF c
  <2> QED
    BY <2>3, <2>4 DEF Asks, Ask
<1> QED
  BY <1>1, <1>2

LEMMA AskedBytesType ==
    ASSUME NEW ask \in Asks, ask.GpuMemory # Nil
    PROVE  AskedBytes(ask) \in Nat
<1>1. ask.GpuMemory \in Nat /\ MiB \in Nat /\ WordSize \in Nat \ {0}
  BY ShareAssumption DEF Asks
<1>2. ask.GpuMemory * MiB \in Nat
  BY <1>1
<1> QED
  BY <1>1, <1>2 DEF AskedBytes

LEMMA TimesType ==
    ASSUME NEW n \in Nat, NEW x \in Floats
    PROVE  /\ Times(n, x) \in Floats
           /\ n # 0 /\ Indivisible(Times(n, x)) => Indivisible(x)
<1>1. PICK a \in Int, b \in Nat : x = <<a, b>>
  BY DEF Floats
<1>2. n * a \in Int /\ (n # 0 /\ n * a = 0 => a = 0)
  OBVIOUS
<1> QED
  BY <1>1, <1>2 DEF Times, Floats, Indivisible

\* Whether the annotations determine a share does not depend on the device; the total
\* memory can be divided by unless what is asked for cannot.
LEMMA CalculateType ==
    ASSUME NEW ask \in Asks, NEW memory \in Nat \ {0}
    PROVE  /\ Calculate(ask, memory) \in Shares \cup {Nil}
           /\ Calculate(ask, memory) = Nil <=>
                 /\ ask.GpuRequest = Nil \/ ask.GpuLimit = Nil
                 /\ ask.GpuFraction = Nil /\ ask.GpuMemory = Nil
           /\ Calculate(ask, memory) # Nil /\ Indivisible(Calculate(ask, memory).TotalMemory) =>
                 \/ ask.GpuFraction # Nil /\ Indivisible(ask.GpuFraction)
                 \/ ask.GpuMemory # Nil /\ AskedBytes(ask) = 0
<1>0. /\ ask.GpuRequest \in Int \cup {Nil} /\ ask.GpuLimit \in Int \cup {Nil}
      /\ ask.GpuFraction \in Floats \cup {Nil} /\ ask.GpuMemory \in Nat \cup {Nil}
      /\ ask.GPUNumDevices \in Nat \cup {Nil}
  BY DEF Asks
<1>1. ASSUME NEW a \in Floats, NEW b \in Floats, NEW c \in Floats
      PROVE  /\ Values(a, b, c) \in Shares /\ Values(a, b, c) # Nil
             /\ Values(a, b, c).TotalMemory = c
  BY NilAssumption DEF Values, Shares
<1>2. ASSUME NEW x \in Floats
      PROVE  TimesDevices(ask.GPUNumDevices, x) \in Floats
  <2>1. CASE ask.GPUNumDevices = Nil
    BY <2>1 DEF TimesDevices
  <2>2. CASE ask.GPUNumDevices # Nil
    BY <1>0, <2>2, TimesType DEF TimesDevices
  <2> QED
    BY <2>1, <2>2
<1>3. CASE ask.GpuRequest # Nil /\ ask.GpuLimit # Nil
  <2> Calculate(ask, memory) =
        Values(<<ask.GpuRequest, 1>>, <<ask.GpuLimit, 1>>, <<memory, 1>>)
    BY <1>3 DEF Calculate
  <2> /\ <<ask.GpuRequest, 1>> \in Floats /\ <<ask.GpuLimit, 1>> \in Floats
      /\ <<memory, 1>> \in Floats /\ ~Indivisible(<<memory, 1>>)
    BY <1>0, <1>3 DEF Floats, Indivisible
  <2> QED
    BY <1>1, <1>3
<1>4. CASE (ask.GpuRequest = Nil \/ ask.GpuLimit = Nil) /\ ask.GpuFraction # Nil
  <2> DEFINE share == TimesDevices(ask.GPUNumDevices, ask.GpuFraction)
             total == Times(memory, ask.GpuFraction)
  <2>1. Calculate(ask, memory) = Values(share, share, total)
    BY <1>4 DEF Calculate, FractionOfMemory
  <2>2. ask.GpuFraction \in Floats
    BY <1>0, <1>4
  <2>3. share \in Floats
    BY <1>2, <2>2
  <2>4. total \in Floats /\ (Indivisible(total) => Indivisible(ask.GpuFraction))
    BY <2>2, TimesType
  <2> HIDE DEF share, total
  <2> QED
    BY <1>1, <1>4, <2>1, <2>3, <2>4
<1>5. CASE /\ ask.GpuRequest = Nil \/ ask.GpuLimit = Nil
           /\ ask.GpuFraction = Nil /\ ask.GpuMemory # Nil
  <2> DEFINE share == TimesDevices(ask.GPUNumDevices, <<AskedBytes(ask), memory>>)
  <2>1. Calculate(ask, memory) = Values(share, share, <<AskedBytes(ask), 1>>)
    BY <1>5 DEF Calculate
  <2>2. AskedBytes(ask) \in Nat
    BY <1>5, AskedBytesType
  <2>3. /\ <<AskedBytes(ask), memory>> \in Floats /\ <<AskedBytes(ask), 1>> \in Floats
        /\ Indivisible(<<AskedBytes(ask), 1>>) => AskedBytes(ask) = 0
    BY <2>2 DEF Floats, Indivisible
  <2>4. share \in Floats
    BY <1>2, <2>3
  <2> HIDE DEF share
  <2> QED
    BY <1>1, <1>5, <2>1, <2>3, <2>4
<1>6. CASE /\ ask.GpuRequest = Nil \/ ask.GpuLimit = Nil
           /\ ask.GpuFraction = Nil /\ ask.GpuMemory = Nil
  BY <1>6 DEF Calculate
<1> QED
  BY <1>3, <1>4, <1>5, <1>6

LEMMA AskedType ==
    ASSUME NEW ask \in Asks
    PROVE  /\ Asked(ask) \subseteq Shares \cup {Nil}
           /\ Nil \in Asked(ask) => Asked(ask) = {Nil}
<1> \A g \in Gpus : DeviceMemory[g] \in Nat \ {0}
  BY CollectorAssumption
<1> QED
  BY CalculateType DEF Asked

-----------------------------------------------------------------------------
(* Timestamps.                                                              *)

\* A set of times that is not empty has a latest one.
LEMMA LatestTime ==
    ASSUME NEW n \in Nat, NEW T \in SUBSET (0 .. n), T # {}
    PROVE  Max(T) \in T /\ \A t \in T : t <= Max(T)
<1> DEFINE Bounds == {m \in Nat : \A t \in T : t <= m}
<1>1. n \in Bounds /\ Bounds \subseteq Nat /\ \A t \in T : t \in Nat
  OBVIOUS
<1>2. PICK m \in Bounds : \A b \in Bounds : ~ (<<b, m>> \in OpToRel(<, Nat))
  <2> HIDE DEF Bounds
  <2> QED
    BY <1>1, NatLessThanWellFounded, WFMin
<1>3. m \in Nat /\ \A t \in T : t \in Nat /\ t <= m
  BY <1>1
<1>4. m \in T
  <2> SUFFICES ASSUME m \notin T PROVE FALSE
    OBVIOUS
  <2>1. PICK t \in T : TRUE
    OBVIOUS
  <2>2. m - 1 \in Nat /\ \A u \in T : u <= m - 1
    BY <1>3, <2>1
  <2>3. m - 1 \in Bounds
    BY <2>2
  <2>4. <<m - 1, m>> \in OpToRel(<, Nat)
    BY <1>3, <2>2 DEF OpToRel
  <2> QED
    BY <1>2, <2>3, <2>4
<1>5. \E x \in T : \A y \in T : x >= y
  BY <1>3, <1>4
<1> QED
  BY <1>5 DEF Max

LEMMA SampleTimesType ==
    ASSUME TypeOK, NEW g \in Gpus
    PROVE  /\ now \in Nat /\ now <= MaxSteps
           /\ SampleTimes(g) \subseteq 1 .. now /\ SampleTimes(g) \subseteq Nat \ {0}
           /\ \A T \in SUBSET SampleTimes(g) : IsFiniteSet(T)
           /\ \A t \in SampleTimes(g) : samples[t] \subseteq Pids
<1>1. now \in Nat /\ now <= MaxSteps /\ MaxSteps \in Nat
  BY CollectorAssumption DEF TypeOK, Instants
<1>2. SampleTimes(g) \subseteq 1 .. now
  BY DEF SampleTimes
<1>3. IsFiniteSet(1 .. now)
  BY <1>1, FS_Interval
<1>4. \A T \in SUBSET SampleTimes(g) : IsFiniteSet(T)
  BY <1>2, <1>3, FS_Subset
<1>5. \A t \in SampleTimes(g) : t \in 1 .. MaxSteps
  BY <1>1, <1>2
<1> QED
  BY <1>1, <1>2, <1>4, <1>5 DEF TypeOK

LEMMA SpanType ==
    ASSUME TypeOK, NEW g \in Gpus, NEW t \in SampleTimes(g)
    PROVE  Span(g, t) \in Nat
<1> DEFINE before == {u \in SampleTimes(g) : u < t}
<1>0. now \in Nat /\ SampleTimes(g) \subseteq 1 .. now /\ DefaultInterval \in Nat
  BY SampleTimesType, CollectorAssumption
<1>1. CASE before = {}
  BY <1>0, <1>1 DEF Span
<1>2. CASE before # {}
  <2>1. before \in SUBSET (0 .. now)
    BY <1>0
  <2>2. Max(before) \in before
    <3> HIDE DEF before
    <3> QED
      BY <1>0, <1>2, <2>1, LatestTime
  <2>3. t - Max(before) \in Nat
    BY <1>0, <2>2
  <2> QED
    BY <1>2, <2>3 DEF Span
<1> QED
  BY <1>1, <1>2

\* A group that is read weighs the time since the sample before it, read in this poll or
\* in an earlier one.
LEMMA WeightIsSpan ==
    ASSUME TypeOK, SeenIsSample, NEW g \in Gpus, NEW k \in Kinds, NEW t \in GroupTimes(g, k)
    PROVE  /\ SampleWeightSeconds(PreviousTs(g, k, t), t) = Span(g, t)
           /\ Span(g, t) \in Nat
<1> DEFINE seen == lastSeen[<<g, k>>]
           new == {u \in GroupTimes(g, k) : u < t}
           before == {u \in SampleTimes(g) : u < t}
<1>0. /\ now \in Nat /\ SampleTimes(g) \subseteq 1 .. now
      /\ t \in SampleTimes(g) /\ t > seen /\ DefaultInterval \in Nat
  BY SampleTimesType, CollectorAssumption DEF GroupTimes
<1>1. seen \in Nat /\ (seen = 0 \/ seen \in SampleTimes(g))
  BY DEF TypeOK, SeenIsSample, Streams, Instants
<1>2. \A u \in SampleTimes(g) : u \in GroupTimes(g, k) <=> u > seen
  BY DEF GroupTimes
<1>3. /\ PreviousTs(g, k, t) = Max({seen} \cup new)
      /\ {seen} \cup new \in SUBSET (0 .. now) /\ {seen} \cup new # {}
  BY <1>0, <1>1 DEF PreviousTs, GroupTimes
<1> DEFINE last == Max({seen} \cup new)
<1>4. last \in {seen} \cup new /\ \A u \in {seen} \cup new : u <= last
  <2> HIDE DEF new, seen
  <2> QED
    BY <1>0, <1>3, LatestTime
<1>5. CASE before = {}
  <2> seen = 0 /\ new = {}
    BY <1>0, <1>1, <1>5 DEF GroupTimes
  <2> last = 0
    BY <1>4
  <2> QED
    BY <1>0, <1>3, <1>5 DEF SampleWeightSeconds, Span
<1>6. CASE before # {}
  <2>1. before \in SUBSET (0 .. now)
    BY <1>0
  <2>2. Max(before) \in before /\ \A u \in before : u <= Max(before)
    <3> HIDE DEF before
    <3> QED
      BY <1>0, <1>6, <2>1, LatestTime
  <2>3. Max(before) \in Nat \ {0} /\ Max(before) < t /\ Max(before) \in SampleTimes(g)
    BY <1>0, <2>2
  <2>4. last \in Nat /\ seen <= last
    BY <1>0, <1>1, <1>4 DEF GroupTimes
  <2>5. Max(before) <= last
    <3>1. CASE Max(before) <= seen
      <4> HIDE DEF before, seen, last
      <4> QED
        BY <1>1, <2>3, <2>4, <3>1
    <3>2. CASE ~ (Max(before) <= seen)
      <4> Max(before) \in new
        BY <1>1, <1>2, <2>3, <3>2
      <4> QED
        BY <1>4
    <3> QED
      BY <3>1, <3>2
  <2>6. last <= Max(before)
    <3>1. last # 0
      <4> HIDE DEF before, last
      <4> QED
        BY <2>3, <2>4, <2>5
    <3>2. last \in before
      BY <1>0, <1>1, <1>4, <3>1 DEF GroupTimes
    <3> QED
      BY <2>2, <3>2
  <2>7. last = Max(before)
    <3> HIDE DEF before, last
    <3> QED
      BY <2>3, <2>4, <2>5, <2>6
  <2>8. Span(g, t) = t - Max(before)
    BY <1>6 DEF Span
  <2> HIDE DEF last, before
  <2> QED
    BY <1>0, <1>3, <2>3, <2>7, <2>8 DEF SampleWeightSeconds, last
<1> QED
  BY <1>5, <1>6

-----------------------------------------------------------------------------
(* Sums over the samples.                                                   *)

\* The processes found at one time are finitely many.
LEMMA FoundType ==
    ASSUME TypeOK, NEW g \in Gpus, NEW t \in SampleTimes(g), NEW ps
    PROVE  IsFiniteSet(samples[t] \cap ps) /\ Cardinality(samples[t] \cap ps) \in Nat
<1>1. samples[t] \cap ps \subseteq Pids
  BY SampleTimesType
<1>2. IsFiniteSet(samples[t] \cap ps)
  BY <1>1, CollectorAssumption, FS_Subset
<1> QED
  BY <1>2, FS_CardinalityType

\* The weights in Utilization.
LEMMA GroupWeightType ==
    ASSUME TypeOK, SeenIsSample, NEW g \in Gpus, NEW k \in Kinds, NEW ps, NEW t \in GroupTimes(g, k)
    PROVE  SampleWeightSeconds(PreviousTs(g, k, t), t) * Cardinality(samples[t] \cap ps) \in Nat
<1>1. t \in SampleTimes(g)
  BY DEF GroupTimes
<1>2. Cardinality(samples[t] \cap ps) \in Nat
  BY <1>1, FoundType
<1>3. SampleWeightSeconds(PreviousTs(g, k, t), t) \in Nat
  BY WeightIsSpan
<1> QED
  BY <1>2, <1>3

LEMMA GroupTimesFinite ==
    ASSUME TypeOK, NEW g \in Gpus, NEW k \in Kinds
    PROVE  GroupTimes(g, k) \subseteq SampleTimes(g) /\ IsFiniteSet(GroupTimes(g, k))
<1>1. GroupTimes(g, k) \subseteq SampleTimes(g)
  BY DEF GroupTimes
<1> QED
  BY <1>1, SampleTimesType

LEMMA UtilizationType ==
    ASSUME TypeOK, SeenIsSample, NEW g \in Gpus, NEW k \in Kinds, NEW ps
    PROVE  Utilization(g, k, ps) \in Nat
<1> DEFINE f == [t \in GroupTimes(g, k) |->
                    SampleWeightSeconds(PreviousTs(g, k, t), t) * Cardinality(samples[t] \cap ps)]
<1>1. \A t \in GroupTimes(g, k) : f[t] \in Nat
  BY GroupWeightType
<1>2. IsFiniteSet(GroupTimes(g, k)) /\ DOMAIN f = GroupTimes(g, k)
  BY GroupTimesFinite
<1>3. Utilization(g, k, ps) = SumFunctionOnSet(f, GroupTimes(g, k))
  BY DEF Utilization, SumFunction
<1> HIDE DEF f
<1> QED
  BY <1>1, <1>2, <1>3, SumType

\* The utilization of processes none of which was found.
LEMMA UtilizationOfNone ==
    ASSUME TypeOK, SeenIsSample, NEW g \in Gpus, NEW k \in Kinds, NEW ps,
           \A t \in GroupTimes(g, k) : samples[t] \cap ps = {}
    PROVE  Utilization(g, k, ps) = 0
<1> DEFINE f == [t \in GroupTimes(g, k) |->
                    SampleWeightSeconds(PreviousTs(g, k, t), t) * Cardinality(samples[t] \cap ps)]
<1>1. ASSUME NEW t \in GroupTimes(g, k) PROVE f[t] = 0
  <2>1. Cardinality(samples[t] \cap ps) = 0
    BY FS_EmptySet
  <2>2. SampleWeightSeconds(PreviousTs(g, k, t), t) \in Nat
    BY WeightIsSpan
  <2> QED
    BY <2>1, <2>2
<1>2. IsFiniteSet(GroupTimes(g, k)) /\ DOMAIN f = GroupTimes(g, k)
  BY GroupTimesFinite
<1>3. Utilization(g, k, ps) = SumFunctionOnSet(f, GroupTimes(g, k))
  BY DEF Utilization, SumFunction
<1> HIDE DEF f
<1> QED
  BY <1>1, <1>2, <1>3, SumOfZeros

\* The utilization of a set of processes is that of its parts.
LEMMA UtilizationAdds ==
    ASSUME TypeOK, SeenIsSample, NEW g \in Gpus, NEW k \in Kinds, NEW ps, NEW qs, ps \cap qs = {}
    PROVE  Utilization(g, k, ps \cup qs) = Utilization(g, k, ps) + Utilization(g, k, qs)
<1> DEFINE F(s) == [t \in GroupTimes(g, k) |->
                      SampleWeightSeconds(PreviousTs(g, k, t), t) * Cardinality(samples[t] \cap s)]
<1>1. ASSUME NEW t \in GroupTimes(g, k)
      PROVE  /\ F(ps)[t] \in Nat /\ F(qs)[t] \in Nat
             /\ F(ps \cup qs)[t] = F(ps)[t] + F(qs)[t]
  <2> DEFINE w == SampleWeightSeconds(PreviousTs(g, k, t), t)
             A == samples[t] \cap ps  B == samples[t] \cap qs  C == samples[t] \cap (ps \cup qs)
  <2>1. IsFiniteSet(A) /\ IsFiniteSet(B) /\ Cardinality(A) \in Nat /\ Cardinality(B) \in Nat
    BY GroupTimesFinite, FoundType
  <2>2. A \cap B = {} /\ C = A \cup B
    OBVIOUS
  <2>3. Cardinality(C) = Cardinality(A) + Cardinality(B)
    <3> HIDE DEF A, B, C
    <3>1. Cardinality(A \cup B) = Cardinality(A) + Cardinality(B) - Cardinality(A \cap B)
      BY <2>1, FS_Union
    <3>2. Cardinality(A \cap B) = 0
      BY <2>2, FS_EmptySet
    <3> QED
      BY <2>1, <2>2, <3>1, <3>2
  <2>4. w \in Nat
    BY WeightIsSpan
  <2>5. /\ F(ps)[t] = w * Cardinality(A) /\ F(qs)[t] = w * Cardinality(B)
        /\ F(ps \cup qs)[t] = w * Cardinality(C)
    OBVIOUS
  <2> HIDE DEF w, A, B, C, F
  <2> QED
    BY <2>1, <2>3, <2>4, <2>5
<1>2. IsFiniteSet(GroupTimes(g, k)) /\ \A s : DOMAIN F(s) = GroupTimes(g, k)
  BY GroupTimesFinite
<1>3. \A s : Utilization(g, k, s) = SumFunctionOnSet(F(s), GroupTimes(g, k))
  BY DEF Utilization, SumFunction
<1> HIDE DEF F
<1>4. SumFunctionOnSet(F(ps \cup qs), GroupTimes(g, k)) =
        SumFunctionOnSet(F(ps), GroupTimes(g, k)) + SumFunctionOnSet(F(qs), GroupTimes(g, k))
  BY <1>1, <1>2, SumAdds
<1> QED
  BY <1>3, <1>4

LEMMA WeightType ==
    ASSUME TypeOK, NEW e \in Entries, NEW t \in SampleTimes(e[2])
    PROVE  Weight(e)[t] \in Nat
<1>1. e[2] \in Gpus
  BY DEF Entries
<1>2. Span(e[2], t) \in Nat /\ Cardinality(samples[t] \cap On(e)) \in Nat
  BY <1>1, SpanType, FoundType
<1> QED
  BY <1>2 DEF Weight

\* The utilization of all of an entry's processes is the weight of the samples read.
LEMMA UtilizationOfAll ==
    ASSUME TypeOK, SeenIsSample, NEW e \in Entries, NEW k \in Kinds
    PROVE  Utilization(e[2], k, On(e)) = SumFunctionOnSet(Weight(e), GroupTimes(e[2], k))
<1> DEFINE g == e[2]
           f == [t \in GroupTimes(g, k) |->
                    SampleWeightSeconds(PreviousTs(g, k, t), t) * Cardinality(samples[t] \cap On(e))]
<1>0. g \in Gpus
  BY DEF Entries
<1>1. ASSUME NEW t \in GroupTimes(g, k) PROVE f[t] = Weight(e)[t]
  <2>1. t \in SampleTimes(g)
    BY <1>0, GroupTimesFinite
  <2>2. SampleWeightSeconds(PreviousTs(g, k, t), t) = Span(g, t)
    BY <1>0, WeightIsSpan
  <2> QED
    BY <2>1, <2>2 DEF Weight
<1>2. IsFiniteSet(GroupTimes(g, k)) /\ DOMAIN f = GroupTimes(g, k)
  BY <1>0, GroupTimesFinite
<1>3. Utilization(g, k, On(e)) = SumFunctionOnSet(f, GroupTimes(g, k))
  BY DEF Utilization, SumFunction
<1> HIDE DEF f
<1> QED
  BY <1>1, <1>2, <1>3, SumAgrees

\* The weight of the samples of an entry up to a time.
Weighed(e, time) == SumFunctionOnSet(Weight(e), {t \in SampleTimes(e[2]) : t <= time})

LEMMA WeighedType ==
    ASSUME TypeOK, NEW e \in Entries, NEW time
    PROVE  Weighed(e, time) \in Nat
<1> DEFINE S == {t \in SampleTimes(e[2]) : t <= time}
<1>1. e[2] \in Gpus /\ S \in SUBSET SampleTimes(e[2])
  BY DEF Entries
<1>2. IsFiniteSet(S) /\ \A t \in S : Weight(e)[t] \in Nat
  BY <1>1, SampleTimesType, WeightType
<1> HIDE DEF S
<1>3. SumFunctionOnSet(Weight(e), S) \in Nat
  BY <1>2, SumType
<1> QED
  BY <1>3 DEF Weighed, S

\* What a stream has been read up to, after a poll that reads it.
LEMMA SeenAfterType ==
    ASSUME TypeOK, SeenIsSample, NEW g \in Gpus, NEW k \in Kinds, NEW read
    PROVE  /\ Seen(g, k, read) \in Instants
           /\ Seen(g, k, read) = 0 \/ Seen(g, k, read) \in SampleTimes(g)
           /\ <<g, k>> \in read => \A t \in SampleTimes(g) : t <= Seen(g, k, read)
<1> DEFINE T == {lastSeen[<<g, k>>]} \cup SampleTimes(g)
<1>0. now \in Nat /\ now <= MaxSteps /\ MaxSteps \in Nat /\ SampleTimes(g) \subseteq 1 .. now
  BY SampleTimesType, CollectorAssumption
<1>1. /\ lastSeen[<<g, k>>] \in Instants
      /\ lastSeen[<<g, k>>] = 0 \/ lastSeen[<<g, k>>] \in SampleTimes(g)
  BY DEF TypeOK, SeenIsSample, Streams
<1>2. CASE <<g, k>> \in read
  <2>1. T \in SUBSET (0 .. now) /\ T # {}
    BY <1>0, <1>1
  <2>2. Max(T) \in T /\ \A t \in T : t <= Max(T)
    <3> HIDE DEF T
    <3> QED
      BY <1>0, <2>1, LatestTime
  <2>3. Seen(g, k, read) = Max(T)
    BY <1>2 DEF Seen
  <2>4. Max(T) \in Instants
    BY <1>0, <2>1, <2>2 DEF Instants
  <2>5. Max(T) = 0 \/ Max(T) \in SampleTimes(g)
    BY <1>1, <2>2
  <2> QED
    BY <2>2, <2>3, <2>4, <2>5
<1>3. CASE <<g, k>> \notin read
  BY <1>1, <1>3 DEF Seen
<1> QED
  BY <1>2, <1>3

\* A poll that reads a stream weighs the samples that no earlier one has read.
LEMMA PollWeighs ==
    ASSUME TypeOK, SeenIsSample, NEW e \in Entries, NEW k \in Kinds, NEW read
    PROVE  Weighed(e, Seen(e[2], k, read)) =
             Weighed(e, lastSeen[<<e[2], k>>])
             + (IF <<e[2], k>> \in read THEN Utilization(e[2], k, On(e)) ELSE 0)
<1> DEFINE g == e[2]
           S == SampleTimes(g)
           T == {t \in S : t <= lastSeen[<<g, k>>]}
<1>0. g \in Gpus
  BY DEF Entries
<1>1. CASE <<g, k>> \in read
  <2>1. {t \in S : t <= Seen(g, k, read)} = S
    BY <1>0, <1>1, SeenAfterType
  <2>2. S \ T = GroupTimes(g, k) /\ T \in SUBSET S
    <3>1. lastSeen[<<g, k>>] \in Nat /\ S \subseteq Nat
      BY <1>0, SampleTimesType DEF TypeOK, Streams, Instants
    <3>2. \A t \in S : ~ (t <= lastSeen[<<g, k>>]) <=> t > lastSeen[<<g, k>>]
      BY <3>1
    <3> QED
      BY <3>2 DEF GroupTimes
  <2>3. IsFiniteSet(S) /\ \A t \in S : Weight(e)[t] \in Nat
    BY <1>0, SampleTimesType, WeightType
  <2>4. SumFunctionOnSet(Weight(e), S) =
          SumFunctionOnSet(Weight(e), T) + SumFunctionOnSet(Weight(e), S \ T)
    <3> HIDE DEF S, T
    <3> QED
      BY <2>2, <2>3, SumSplits
  <2>5. Utilization(g, k, On(e)) = SumFunctionOnSet(Weight(e), S \ T)
    BY <2>2, UtilizationOfAll
  <2> QED
    BY <1>1, <2>1, <2>4, <2>5 DEF Weighed
<1>2. CASE <<g, k>> \notin read
  <2>1. Seen(g, k, read) = lastSeen[<<g, k>>]
    BY <1>2 DEF Seen
  <2>2. Weighed(e, lastSeen[<<g, k>>]) \in Nat
    BY WeighedType
  <2> QED
    BY <1>2, <2>1, <2>2
<1> QED
  BY <1>1, <1>2
-----------------------------------------------------------------------------
(* The steps.                                                               *)

LEMMA InitGood == Init => Inv
<1> SUFFICES ASSUME Init PROVE Inv
  OBVIOUS
<1> PICK pod \in PodObjects :
      LET desired == DesiredGpuContainersForPod(pod)
      IN  stored = [c \in Containers |->
                       IF c \in DOMAIN desired THEN NewGpuContainer(desired[c]) ELSE NotStored]
  BY DEF Init
<1> DEFINE desired == DesiredGpuContainersForPod(pod)
<1>1. \A c \in DOMAIN desired : NewGpuContainer(desired[c]) \in GpuContainers
  BY AskType DEF NewGpuContainer, GpuContainers
<1>2. stored \in [Containers -> GpuContainers \cup {NotStored}]
  BY <1>1
<1>3. /\ now = 0 /\ 0 \in Instants /\ NoUtil \in Meters /\ DOMAIN metrics = {}
      /\ samples \in [1 .. MaxSteps -> SUBSET Pids] /\ updates = 0 /\ report = Idle
      /\ upToDate = {} /\ lastSeen = [s \in Streams |-> 0]
      /\ counters = [e \in Entries |-> NoUtil] /\ lost = [e \in Entries |-> NoUtil]
      /\ requests = [c \in Containers |-> Nil]
  BY CollectorAssumption DEF Init, Instants, NoUtil, Meters
<1>4. TypeOK
  BY <1>2, <1>3, CollectorAssumption DEF TypeOK, Instants
<1>5. SeenIsSample
  BY <1>3 DEF SeenIsSample
<1>6. EverySampleWeighedOnce
  <2> SUFFICES ASSUME NEW e \in Entries, NEW k \in Kinds
               PROVE  counters[e][k] + Pending(e, k) + lost[e][k] =
                        Weighed(e, lastSeen[<<e[2], k>>])
    BY DEF EverySampleWeighedOnce, Weighed
  <2>1. SampleTimes(e[2]) = {}
    BY <1>3 DEF SampleTimes
  <2>2. Weighed(e, lastSeen[<<e[2], k>>]) = 0
    BY <2>1, SumEmpty DEF Weighed
  <2>3. counters[e][k] = 0 /\ lost[e][k] = 0 /\ Pending(e, k) = 0
    BY <1>3 DEF NoUtil, Pending
  <2> QED
    BY <2>2, <2>3
<1>7. ValuesOfAsk
  BY <1>1 DEF ValuesOfAsk, NewGpuContainer
<1> QED
  BY <1>3, <1>4, <1>5, <1>6, <1>7 DEF Inv, ReportOfAsk, UpToDateStored, RequestsFollowAsk

\* A new sample is after everything that was read: it changes no weight.
LEMMA SamplesKeeps ==
    ASSUME Inv, NEW busy \in SUBSET {p \in Pids : GpuOf[p] \in Sampling}, Samples(busy)
    PROVE  Inv'
<1> USE DEF Inv
<1>1. /\ now' = now + 1 /\ samples' = [samples EXCEPT ![now + 1] = busy]
      /\ UNCHANGED <<lastSeen, metrics, report, stored, updates, counters, requests, lost, upToDate>>
  BY DEF Samples, storeVars, gaugeVars
<1>2. now \in Nat /\ now < MaxSteps /\ MaxSteps \in Nat
  BY CollectorAssumption DEF Samples, TypeOK, Instants
<1>3. TypeOK'
  BY <1>1, <1>2 DEF TypeOK, Instants
<1>4. ASSUME NEW g \in Gpus
      PROVE  /\ SampleTimes(g) \subseteq SampleTimes(g)'
             /\ \A t \in SampleTimes(g)' : t \in SampleTimes(g) \/ t = now + 1
             /\ SampleTimes(g) \subseteq 1 .. now
             /\ \A t \in SampleTimes(g) : samples'[t] = samples[t]
  <2>1. SampleTimes(g) \subseteq 1 .. now /\ \A t \in 1 .. now : samples'[t] = samples[t]
    BY <1>1, <1>2 DEF SampleTimes, TypeOK
  <2>2. (1 .. now)' = (1 .. now) \cup {now + 1}
    BY <1>1, <1>2
  <2> QED
    BY <2>1, <2>2 DEF SampleTimes
<1>5. SeenIsSample'
  BY <1>1, <1>4 DEF SeenIsSample, Streams
<1>6. EverySampleWeighedOnce'
  <2> SUFFICES ASSUME NEW e \in Entries, NEW k \in Kinds
               PROVE  (counters[e][k] + Pending(e, k) + lost[e][k])' =
                        Weighed(e, lastSeen[<<e[2], k>>])'
    BY DEF EverySampleWeighedOnce, Weighed
  <2> DEFINE g == e[2]
             seen == lastSeen[<<g, k>>]
             S == {t \in SampleTimes(g) : t <= seen}
  <2>0. g \in Gpus
    BY DEF Entries
  <2>1. seen \in Nat /\ seen <= now /\ seen' = seen
    <3>1. seen \in Instants /\ (seen = 0 \/ seen \in SampleTimes(g))
      BY <2>0 DEF TypeOK, SeenIsSample, Streams
    <3> QED
      BY <1>1, <1>2, <1>4, <2>0, <3>1 DEF Instants
  <2>2. S' = S
    <3>1. \A t \in SampleTimes(g)' : t <= seen => t \in SampleTimes(g)
      BY <1>2, <1>4, <2>0, <2>1
    <3> QED
      BY <1>4, <2>0, <2>1, <3>1
  <2>3. ASSUME NEW t \in S PROVE Weight(e)'[t] = Weight(e)[t]
    <3>1. {u \in SampleTimes(g) : u < t}' = {u \in SampleTimes(g) : u < t}
      <4>1. t \in 1 .. now
        BY <1>4, <2>0
      <4>2. \A u \in SampleTimes(g)' : u < t => u \in SampleTimes(g)
        BY <1>2, <1>4, <2>0, <4>1
      <4> QED
        BY <1>4, <2>0, <4>2
    <3>2. Span(g, t)' = Span(g, t)
      BY <3>1 DEF Span
    <3>3. t \in SampleTimes(g) /\ t \in SampleTimes(g)' /\ samples'[t] = samples[t]
      BY <1>4, <2>0
    <3> QED
      BY <3>2, <3>3 DEF Weight, On
  <2>4. IsFiniteSet(S)
    BY <2>0, SampleTimesType
  <2>5. SumFunctionOnSet(Weight(e)', S) = SumFunctionOnSet(Weight(e), S)
    <3> HIDE DEF S
    <3> QED
      BY <2>3, <2>4, SumAgrees
  <2>6. Weighed(e, seen)' = Weighed(e, seen)
    BY <2>1, <2>2, <2>5 DEF Weighed
  <2>7. Pending(e, k)' = Pending(e, k)
    BY <1>1 DEF Pending
  <2> QED
    BY <1>1, <2>6, <2>7 DEF EverySampleWeighedOnce, Weighed
<1> QED
  BY <1>1, <1>3, <1>5, <1>6 DEF ValuesOfAsk, ReportOfAsk, UpToDateStored, RequestsFollowAsk, Asked
LEMMA MeterType == ASSUME NEW m \in Meters, NEW k \in Kinds PROVE m[k] \in Nat
BY DEF Meters

\* What a poll calculates for an entry of the processes ps.
UtilOf(read, e, ps) ==
    [k \in Kinds |-> IF <<e[2], k>> \in read THEN Utilization(e[2], k, ps \cap On(e)) ELSE 0]

LEMMA UtilOfType ==
    ASSUME TypeOK, SeenIsSample, NEW read, NEW e \in Entries, NEW ps
    PROVE  UtilOf(read, e, ps) \in Meters
<1>1. \A k \in Kinds : Utilization(e[2], k, ps \cap On(e)) \in Nat
  BY UtilizationType DEF Entries
<1> QED
  BY <1>1 DEF UtilOf, Meters

\* The memory that a poll reads is a number of bytes.
LEMMA LastMemoryType ==
    ASSUME NEW ps \in SUBSET Pids, NEW e
    PROVE  LastMemory(ps, e) \in Nat
<1>1. ps \cap On(e) \subseteq Pids
  OBVIOUS
<1>2. IsFiniteSet(ps \cap On(e)) /\ \A p \in ps \cap On(e) : UsedMemory[p] \in Nat
  BY <1>1, CollectorAssumption, FS_Subset
<1>3. SumFunctionOnSet(UsedMemory, ps \cap On(e)) \in Nat
  BY <1>2, SumType
<1> QED
  BY <1>3 DEF LastMemory

\* A poll weighs the samples that it reads, once: those of the processes it knows become
\* pending, the others' are lost.
LEMMA CollectKeeps ==
    ASSUME Inv, NEW read \in SUBSET Unread, NEW running \in Listings, NEW last \in SUBSET running,
           NEW known \in SUBSET Sampled(read), Collect(read, running, last, known)
    PROVE  Inv'
<1> USE DEF Inv
<1> DEFINE fresh == {<<ContainerOf[p], GpuOf[p]>> : p \in running \cup known}
<1>1. /\ DOMAIN metrics = {} /\ report = Idle
      /\ metrics' = [e \in fresh |->
            [util |-> UtilOf(read, e, known), MemoryBytes |-> LastMemory(last, e),
             used |-> LastMemory(running, e)]]
      /\ lost' = [e \in Entries |->
            [k \in Kinds |-> lost[e][k] + UtilOf(read, e, Pids \ known)[k]]]
      /\ lastSeen' = [s \in Streams |-> Seen(s[1], s[2], read)]
      /\ UNCHANGED <<now, samples, report, stored, updates, counters, requests, upToDate>>
  BY DEF Collect, UtilOf, driverVars, storeVars, gaugeVars
<1>2. running \subseteq Pids /\ known \subseteq Pids /\ last \subseteq Pids
  BY CollectorAssumption DEF Sampled
<1>3. fresh \subseteq Entries
  BY <1>2, CollectorAssumption DEF Entries
<1>4. /\ lost' \in [Entries -> Meters]
      /\ \A e \in Entries, k \in Kinds : lost'[e][k] = lost[e][k] + UtilOf(read, e, Pids \ known)[k]
  <2>1. \A e \in Entries : UtilOf(read, e, Pids \ known) \in Meters /\ lost[e] \in Meters
    BY UtilOfType DEF TypeOK
  <2>2. ASSUME NEW e \in Entries, NEW k \in Kinds
        PROVE  lost[e][k] + UtilOf(read, e, Pids \ known)[k] \in Nat
    <3>1. UtilOf(read, e, Pids \ known)[k] \in Nat /\ lost[e][k] \in Nat
      BY <2>1, MeterType
    <3> QED
      BY <3>1
  <2> QED
    BY <1>1, <2>2 DEF Meters
<1>5. \A e \in fresh : metrics'[e] \in EntryMetrics
  <2>1. \A e \in fresh : UtilOf(read, e, known) \in Meters
    BY <1>3, UtilOfType
  <2>2. \A e \in fresh : LastMemory(last, e) \in Nat /\ LastMemory(running, e) \in Nat
    BY <1>2, LastMemoryType
  <2> HIDE DEF fresh
  <2> QED
    BY <1>1, <2>1, <2>2 DEF EntryMetrics
<1>6. \A s \in Streams : Seen(s[1], s[2], read) \in Instants
  BY SeenAfterType DEF Streams
<1>7. TypeOK'
  <2>1. DOMAIN metrics' \subseteq Entries /\ \A e \in DOMAIN metrics' : metrics'[e] \in EntryMetrics
    <3> HIDE DEF fresh
    <3> QED
      BY <1>1, <1>3, <1>5
  <2>2. lastSeen' \in [Streams -> Instants]
    BY <1>1, <1>6
  <2> HIDE DEF fresh
  <2> QED
    BY <1>1, <1>4, <2>1, <2>2 DEF TypeOK
<1>8. SeenIsSample'
  <2>1. \A s \in Streams : Seen(s[1], s[2], read) = 0 \/ Seen(s[1], s[2], read) \in SampleTimes(s[1])
    BY SeenAfterType DEF Streams
  <2>2. \A g : SampleTimes(g)' = SampleTimes(g)
    BY <1>1 DEF SampleTimes
  <2> QED
    BY <1>1, <2>1, <2>2 DEF SeenIsSample
<1>9. EverySampleWeighedOnce'
  <2> SUFFICES ASSUME NEW e \in Entries, NEW k \in Kinds
               PROVE  (counters[e][k] + Pending(e, k) + lost[e][k])' =
                        Weighed(e, lastSeen[<<e[2], k>>])'
    BY DEF EverySampleWeighedOnce, Weighed
  <2> DEFINE g == e[2]
             ofKnown == UtilOf(read, e, known)[k]
             ofOthers == UtilOf(read, e, Pids \ known)[k]
             ofAll == IF <<g, k>> \in read THEN Utilization(g, k, On(e)) ELSE 0
  <2>0. g \in Gpus /\ <<g, k>> \in Streams
    BY DEF Entries, Streams
  <2>1. Weighed(e, lastSeen[<<g, k>>])' = Weighed(e, lastSeen[<<g, k>>]) + ofAll
    <3>1. Weight(e)' = Weight(e) /\ SampleTimes(g)' = SampleTimes(g)
      BY <1>1 DEF Weight, SampleTimes, Span, On
    <3>2. lastSeen'[<<g, k>>] = Seen(g, k, read)
      BY <1>1, <2>0
    <3>3. Weighed(e, lastSeen[<<g, k>>])' = Weighed(e, Seen(g, k, read))
      BY <3>1, <3>2 DEF Weighed
    <3> QED
      BY <3>3, PollWeighs
  <2>2. ofAll = ofKnown + ofOthers
    <3>1. CASE <<g, k>> \in read
      <4>1. (known \cap On(e)) \cap ((Pids \ known) \cap On(e)) = {}
        OBVIOUS
      <4>2. (known \cap On(e)) \cup ((Pids \ known) \cap On(e)) = On(e)
        BY <1>2 DEF On
      <4>3. Utilization(g, k, On(e)) = Utilization(g, k, known \cap On(e))
                                       + Utilization(g, k, (Pids \ known) \cap On(e))
        BY <2>0, <4>1, <4>2, UtilizationAdds
      <4> QED
        BY <3>1, <4>3 DEF UtilOf
    <3>2. CASE <<g, k>> \notin read
      BY <3>2 DEF UtilOf
    <3> QED
      BY <3>1, <3>2
  <2>3. Pending(e, k) = 0 /\ Pending(e, k)' = ofKnown
    <3>1. Pending(e, k) = 0
      BY <1>1 DEF Pending
    <3>2. ofKnown \in Nat
      BY UtilOfType DEF Meters
    <3>3. CASE e \in fresh
      <4>1. e \in DOMAIN metrics' /\ metrics'[e].util[k] = ofKnown
        BY <1>1, <3>3
      <4> HIDE DEF ofKnown
      <4> QED
        BY <1>1, <3>1, <3>2, <4>1 DEF Pending
    <3>4. CASE e \notin fresh
      <4>1. known \cap On(e) = {}
        <5> SUFFICES ASSUME NEW p \in known, p \in On(e) PROVE FALSE
          OBVIOUS
        <5>1. <<ContainerOf[p], GpuOf[p]>> = e
          BY DEF On, Entries
        <5> QED
          BY <3>4, <5>1
      <4>2. ofKnown = 0
        <5>1. Utilization(g, k, known \cap On(e)) = 0
          BY <2>0, <4>1, UtilizationOfNone
        <5> QED
          BY <5>1 DEF UtilOf
      <4>3. e \notin DOMAIN metrics'
        BY <1>1, <3>4
      <4> HIDE DEF ofKnown
      <4> QED
        BY <1>1, <3>1, <4>2, <4>3 DEF Pending
    <3> QED
      BY <3>1, <3>3, <3>4
  <2>4. lost'[e][k] = lost[e][k] + ofOthers /\ counters'[e][k] = counters[e][k]
    BY <1>1, <1>4
  <2>5. /\ counters[e][k] \in Nat /\ lost[e][k] \in Nat
        /\ ofKnown \in Nat /\ ofOthers \in Nat
    <3>1. /\ counters[e] \in Meters /\ lost[e] \in Meters
          /\ UtilOf(read, e, known) \in Meters /\ UtilOf(read, e, Pids \ known) \in Meters
      BY UtilOfType DEF TypeOK
    <3> QED
      BY <3>1, MeterType
  <2>6. counters[e][k] + Pending(e, k) + lost[e][k] = Weighed(e, lastSeen[<<g, k>>])
    BY DEF EverySampleWeighedOnce, Weighed
  <2> HIDE DEF ofKnown, ofOthers, ofAll, Weighed
  <2> QED
    BY <2>1, <2>2, <2>3, <2>4, <2>5, <2>6
<1> QED
  BY <1>1, <1>7, <1>8, <1>9 DEF ValuesOfAsk, ReportOfAsk, UpToDateStored, RequestsFollowAsk, Asked
\* The poll's part of the books is closed by the report loop: an entry goes from pending
\* to lost, or on to its counters.
LEMMA WeighedFrame ==
    ASSUME UNCHANGED <<now, samples, lastSeen>>
    PROVE  /\ \A e, k : Weighed(e, lastSeen[<<e[2], k>>])' = Weighed(e, lastSeen[<<e[2], k>>])
           /\ SeenIsSample => SeenIsSample'
<1>1. \A g : SampleTimes(g)' = SampleTimes(g)
  BY DEF SampleTimes
<1>2. \A e : Weight(e)' = Weight(e)
  BY <1>1 DEF Weight, Span, On
<1> QED
  BY <1>1, <1>2 DEF Weighed, SeenIsSample

LEMMA PendingType ==
    ASSUME TypeOK, NEW e \in Entries, NEW k \in Kinds
    PROVE  /\ counters[e][k] \in Nat /\ lost[e][k] \in Nat
           /\ e \in DOMAIN metrics => metrics[e].util[k] \in Nat
           /\ report # Idle => report \in Reports /\ report.metrics.util[k] \in Nat
<1>1. counters[e] \in Meters /\ lost[e] \in Meters
  BY DEF TypeOK
<1>2. \A m \in EntryMetrics : m.util \in Meters
  BY DEF EntryMetrics
<1>3. e \in DOMAIN metrics => metrics[e].util \in Meters
  BY <1>2 DEF TypeOK
<1>4. report # Idle => report \in Reports
  BY DEF TypeOK
<1>5. report # Idle => report.metrics.util \in Meters
  BY <1>2, <1>4 DEF Reports
<1> QED
  BY <1>1, <1>3, <1>4, <1>5, MeterType

LEMMA LookUpKeeps ==
    ASSUME Inv, NEW e \in Entries, LookUp(e)
    PROVE  Inv'
<1> USE DEF Inv
<1> DEFINE c == e[1]
           values == GetCalculatedValues(stored[c], e[2])
           util == metrics[e].util
<1>0. c \in Containers /\ e[2] \in Gpus
  BY DEF Entries
<1>1. /\ report = Idle /\ e \in DOMAIN metrics /\ metrics' = Without(e)
      /\ UNCHANGED <<now, samples, lastSeen, updates, counters, requests, upToDate>>
  BY DEF LookUp, driverVars, gaugeVars
<1>2. /\ DOMAIN metrics' \subseteq Entries /\ \A f \in DOMAIN metrics' : metrics'[f] \in EntryMetrics
      /\ e \notin DOMAIN metrics'
      /\ \A f : f # e => /\ f \in DOMAIN metrics' <=> f \in DOMAIN metrics
                         /\ f \in DOMAIN metrics => metrics'[f] = metrics[f]
  BY <1>1 DEF Without, TypeOK
<1>3. CASE stored[c] = NotStored
  <2>1. /\ lost' = [lost EXCEPT ![e] = [k \in Kinds |-> @[k] + util[k]]]
        /\ report' = Idle /\ stored' = stored
    BY <1>1, <1>3 DEF LookUp
  <2>2. \A k \in Kinds : lost[e][k] \in Nat /\ util[k] \in Nat
    BY <1>1, PendingType
  <2>3. [k \in Kinds |-> lost[e][k] + util[k]] \in Meters
    BY <2>2 DEF Meters
  <2>4. lost' \in [Entries -> Meters] /\ \A f \in Entries : f # e => lost'[f] = lost[f]
    BY <2>1, <2>3 DEF TypeOK
  <2>5. \A k \in Kinds : lost'[e][k] = lost[e][k] + util[k]
    BY <2>1 DEF TypeOK
  <2>6. TypeOK'
    BY <1>1, <1>2, <2>1, <2>4 DEF TypeOK
  <2>7. EverySampleWeighedOnce'
    <3> SUFFICES ASSUME NEW f \in Entries, NEW k \in Kinds
                 PROVE  (counters[f][k] + Pending(f, k) + lost[f][k])' =
                          Weighed(f, lastSeen[<<f[2], k>>])'
      BY DEF EverySampleWeighedOnce, Weighed
    <3>1. Weighed(f, lastSeen[<<f[2], k>>])' = Weighed(f, lastSeen[<<f[2], k>>])
      BY <1>1, WeighedFrame
    <3>2. counters[f][k] + Pending(f, k) + lost[f][k] = Weighed(f, lastSeen[<<f[2], k>>])
      BY DEF EverySampleWeighedOnce, Weighed
    <3>3. CASE f = e
      <4>1. Pending(f, k) = util[k] /\ Pending(f, k)' = 0
        <5>1. util[k] \in Nat
          BY <2>2
        <5> QED
          BY <1>1, <1>2, <2>1, <3>3, <5>1 DEF Pending
      <4> QED
        BY <1>1, <2>2, <2>5, <3>1, <3>2, <3>3, <4>1, PendingType
    <3>4. CASE f # e
      <4>1. Pending(f, k)' = Pending(f, k)
        BY <1>1, <1>2, <2>1, <3>4 DEF Pending
      <4> QED
        BY <1>1, <2>4, <3>1, <3>2, <3>4, <4>1
    <3> QED
      BY <3>3, <3>4
  <2> QED
    BY <1>1, <2>1, <2>6, <2>7, WeighedFrame
    DEF ValuesOfAsk, ReportOfAsk, UpToDateStored, RequestsFollowAsk, Asked
<1>4. CASE stored[c] # NotStored
  <2> DEFINE entry == [entry |-> e, metrics |-> metrics[e], values |-> values, fresh |-> TRUE]
  <2>1. /\ report' = entry /\ lost' = lost
        /\ stored' = [stored EXCEPT ![c].calculatedValues = values]
    BY <1>1, <1>4 DEF LookUp
  <2>2. stored[c] \in GpuContainers /\ stored[c].ask \in Asks
    BY <1>0, <1>4 DEF TypeOK, GpuContainers
  <2>3. values \in Asked(stored[c].ask) /\ values \in Shares \cup {Nil}
    <3>1. stored[c].calculatedValues \in Asked(stored[c].ask) \cup {Nil}
      BY <1>0, <1>4 DEF ValuesOfAsk
    <3>2. values \in Asked(stored[c].ask)
      BY <1>0, <3>1 DEF GetCalculatedValues, Asked
    <3> QED
      BY <2>2, <3>2, AskedType
  <2> HIDE DEF values
  <2>4. entry \in Reports /\ entry # Idle
    <3>1. metrics[e] \in EntryMetrics
      BY <1>1 DEF TypeOK
    <3>2. entry \in Reports
      BY <2>3, <3>1 DEF Reports
    <3> QED
      BY <3>2, AbsenceAssumption
  <2>5. /\ stored' \in [Containers -> GpuContainers \cup {NotStored}]
        /\ stored'[c] # NotStored /\ stored'[c].ask = stored[c].ask
        /\ stored'[c].calculatedValues = values
        /\ \A d \in Containers : d # c => stored'[d] = stored[d]
    <3>1. [stored[c] EXCEPT !.calculatedValues = values] \in GpuContainers
      BY <2>2, <2>3 DEF GpuContainers
    <3>2. stored' = [stored EXCEPT ![c] = [stored[c] EXCEPT !.calculatedValues = values]]
      BY <2>1
    <3>3. stored'[c] = [stored[c] EXCEPT !.calculatedValues = values]
      BY <1>0, <3>2 DEF TypeOK
    <3>4. stored'[c].ask = stored[c].ask /\ stored'[c].calculatedValues = values
      BY <2>2, <3>3 DEF GpuContainers
    <3>5. /\ stored' \in [Containers -> GpuContainers \cup {NotStored}]
          /\ \A d \in Containers : d # c => stored'[d] = stored[d]
      BY <3>1, <3>2 DEF TypeOK
    <3> QED
      BY <3>1, <3>3, <3>4, <3>5, AbsenceAssumption
  <2>6. TypeOK'
    BY <1>1, <1>2, <2>1, <2>4, <2>5 DEF TypeOK
  <2>7. EverySampleWeighedOnce'
    <3> SUFFICES ASSUME NEW f \in Entries, NEW k \in Kinds
                 PROVE  (counters[f][k] + Pending(f, k) + lost[f][k])' =
                          Weighed(f, lastSeen[<<f[2], k>>])'
      BY DEF EverySampleWeighedOnce, Weighed
    <3>1. Weighed(f, lastSeen[<<f[2], k>>])' = Weighed(f, lastSeen[<<f[2], k>>])
      BY <1>1, WeighedFrame
    <3>2. counters[f][k] + Pending(f, k) + lost[f][k] = Weighed(f, lastSeen[<<f[2], k>>])
      BY DEF EverySampleWeighedOnce, Weighed
    <3>3. Pending(f, k)' = Pending(f, k)
      <4>1. CASE f = e
        <5>1. util[k] \in Nat
          BY <1>1, PendingType
        <5>2. report'.entry = e /\ report'.metrics = metrics[e] /\ report' # Idle
          BY <2>1, <2>4
        <5>3. Pending(f, k) = util[k]
          BY <1>1, <4>1, <5>1 DEF Pending
        <5>4. Pending(f, k)' = util[k]
          BY <1>2, <4>1, <5>1, <5>2 DEF Pending
        <5> QED
          BY <5>3, <5>4
      <4>2. CASE f # e
        <5>1. report'.entry = e
          BY <2>1
        <5> QED
          BY <1>1, <1>2, <4>2, <5>1 DEF Pending
      <4> QED
        BY <4>1, <4>2
    <3> QED
      BY <1>1, <2>1, <3>1, <3>2, <3>3
  <2>8. ValuesOfAsk'
    BY <2>3, <2>5 DEF ValuesOfAsk, Asked
  <2>9. ReportOfAsk'
    BY <2>1, <2>3, <2>5 DEF ReportOfAsk, Asked
  <2>10. \A d \in upToDate : d \in Containers /\ stored'[d].ask = stored[d].ask /\ stored'[d] # NotStored
    BY <2>5 DEF TypeOK, UpToDateStored
  <2> QED
    BY <1>1, <2>6, <2>7, <2>8, <2>9, <2>10, WeighedFrame DEF UpToDateStored, RequestsFollowAsk
<1> QED
  BY <1>3, <1>4

\* What is published of a container that has not changed since is what it asks for.
LEMMA PublishKeeps ==
    ASSUME Inv, Publish
    PROVE  Inv'
<1> USE DEF Inv
<1> DEFINE e == report.entry
           c == e[1]
           values == report.values
           util == report.metrics.util
<1>1. /\ report # Idle /\ report' = Idle
      /\ requests' = IF values = Nil THEN requests
                     ELSE [requests EXCEPT ![c] = <<values.Requests, values.Limits>>]
      /\ counters' = [counters EXCEPT ![e] = [k \in Kinds |-> @[k] + util[k]]]
      /\ upToDate' = IF report.fresh THEN upToDate \cup {c} ELSE upToDate
      /\ UNCHANGED <<now, samples, lastSeen, metrics, stored, updates, lost>>
  BY DEF Publish, driverVars, storeVars
<1>2. report \in Reports /\ e \in Entries /\ c \in Containers /\ values \in Shares \cup {Nil}
  BY <1>1 DEF TypeOK, Reports, Entries
<1>3. \A k \in Kinds : counters[e][k] \in Nat /\ util[k] \in Nat
  BY <1>1, <1>2, PendingType
<1>4. /\ counters' \in [Entries -> Meters]
      /\ \A k \in Kinds : counters'[e][k] = counters[e][k] + util[k]
      /\ \A f \in Entries : f # e => counters'[f] = counters[f]
  <2>1. [k \in Kinds |-> counters[e][k] + util[k]] \in Meters
    BY <1>3 DEF Meters
  <2> QED
    BY <1>1, <1>2, <2>1 DEF TypeOK
<1>5. /\ requests' \in [Containers -> (Floats \X Floats) \cup {Nil}]
      /\ values # Nil => requests'[c] = <<values.Requests, values.Limits>>
      /\ \A d \in Containers : d # c => requests'[d] = requests[d]
  <2>1. values # Nil => <<values.Requests, values.Limits>> \in Floats \X Floats
    BY <1>2 DEF Shares
  <2> QED
    BY <1>1, <1>2, <2>1 DEF TypeOK
<1>6. TypeOK'
  BY <1>1, <1>2, <1>4, <1>5 DEF TypeOK
<1>7. EverySampleWeighedOnce'
  <2> SUFFICES ASSUME NEW f \in Entries, NEW k \in Kinds
               PROVE  (counters[f][k] + Pending(f, k) + lost[f][k])' =
                        Weighed(f, lastSeen[<<f[2], k>>])'
    BY DEF EverySampleWeighedOnce, Weighed
  <2>1. Weighed(f, lastSeen[<<f[2], k>>])' = Weighed(f, lastSeen[<<f[2], k>>])
    BY <1>1, WeighedFrame
  <2>2. counters[f][k] + Pending(f, k) + lost[f][k] = Weighed(f, lastSeen[<<f[2], k>>])
    BY DEF EverySampleWeighedOnce, Weighed
  <2> DEFINE waiting == IF f \in DOMAIN metrics THEN metrics[f].util[k] ELSE 0
  <2>3. waiting \in Nat /\ lost[f][k] \in Nat /\ counters[f][k] \in Nat
    BY PendingType
  <2>4. Pending(f, k)' = waiting
    BY <1>1, <2>3 DEF Pending
  <2>5. CASE f = e
    <3>1. Pending(f, k) = waiting + util[k]
      BY <1>1, <2>5 DEF Pending
    <3>2. counters'[f][k] = counters[f][k] + util[k] /\ util[k] \in Nat /\ lost'[f][k] = lost[f][k]
      BY <1>1, <1>3, <1>4, <2>5
    <3> HIDE DEF waiting, util, e
    <3> QED
      BY <2>1, <2>2, <2>3, <2>4, <3>1, <3>2
  <2>6. CASE f # e
    <3>1. Pending(f, k) = waiting
      BY <1>1, <2>3, <2>6 DEF Pending
    <3>2. counters'[f][k] = counters[f][k] /\ lost'[f][k] = lost[f][k]
      BY <1>1, <1>4, <2>6
    <3> QED
      BY <2>1, <2>2, <2>4, <3>1, <3>2
  <2> QED
    BY <2>5, <2>6
<1>8. ReportOfAsk' /\ ValuesOfAsk' /\ UpToDateStored'
  BY <1>1 DEF ReportOfAsk, ValuesOfAsk, UpToDateStored, Asked
<1>9. RequestsFollowAsk'
  <2> SUFFICES ASSUME NEW d \in upToDate', Asked(stored[d].ask) \ {Nil} # {}
               PROVE  \E v \in Asked(stored[d].ask) \ {Nil} : requests'[d] = <<v.Requests, v.Limits>>
    BY <1>1 DEF RequestsFollowAsk, Asked
  <2>1. CASE d # c
    <3>1. d \in upToDate /\ d \in Containers
      BY <1>1, <2>1 DEF TypeOK
    <3> QED
      BY <1>5, <2>1, <3>1 DEF RequestsFollowAsk, Asked
  <2>2. CASE d = c
    <3>1. report.fresh
      BY <1>1, <1>2, <2>2 DEF ReportOfAsk, Reports
    <3>2. values \in Asked(stored[c].ask) /\ stored[c] # NotStored
      BY <1>1, <3>1 DEF ReportOfAsk
    <3>3. stored[c].ask \in Asks
      BY <1>2, <3>2 DEF TypeOK, GpuContainers
    <3>4. values # Nil
      BY <2>2, <3>2, <3>3, AskedType
    <3> QED
      BY <1>5, <2>2, <3>2, <3>4
  <2> QED
    BY <2>1, <2>2
<1> QED
  BY <1>1, <1>6, <1>7, <1>8, <1>9, WeighedFrame

\* A container that changes is not up to date, nor is a report of it under way.
LEMMA ReconcilePodKeeps ==
    ASSUME Inv, NEW pod \in PodObjects, ReconcilePod(pod)
    PROVE  Inv'
<1> USE DEF Inv
<1> DEFINE desired == DesiredGpuContainersForPod(pod)
<1>1. /\ now + updates < MaxSteps /\ updates' = updates + 1
      /\ stored' = [c \in Containers |->
            IF c \in DOMAIN desired THEN NewGpuContainer(desired[c]) ELSE stored[c]]
      /\ upToDate' = upToDate \ DOMAIN desired
      /\ report' = IF report # Idle /\ report.entry[1] \in DOMAIN desired
                   THEN [report EXCEPT !.fresh = FALSE] ELSE report
      /\ UNCHANGED <<now, samples, lastSeen, metrics, counters, requests, lost>>
  BY DEF ReconcilePod, Updated, driverVars, gaugeVars
<1>2. \A c \in DOMAIN desired : /\ desired[c] \in Asks /\ NewGpuContainer(desired[c]) \in GpuContainers
                                /\ NewGpuContainer(desired[c]) # NotStored
                                /\ NewGpuContainer(desired[c]).calculatedValues = Nil
  BY AskType, AbsenceAssumption DEF NewGpuContainer, GpuContainers
<1> HIDE DEF desired
<1>3. updates' \in 0 .. MaxSteps
  BY <1>1, CollectorAssumption DEF TypeOK, Instants
<1>4. report # Idle =>
        /\ report \in Reports /\ report' \in Reports /\ report' # Idle
        /\ report'.entry = report.entry /\ report'.metrics = report.metrics
        /\ report'.values = report.values
        /\ report'.fresh <=> report.fresh /\ report.entry[1] \notin DOMAIN desired
        /\ report.entry[1] \in Containers
  <2> SUFFICES ASSUME report # Idle
               PROVE  /\ report \in Reports /\ report' \in Reports /\ report' # Idle
                      /\ report'.entry = report.entry /\ report'.metrics = report.metrics
                      /\ report'.values = report.values
                      /\ report'.fresh <=> report.fresh /\ report.entry[1] \notin DOMAIN desired
                      /\ report.entry[1] \in Containers
    OBVIOUS
  <2>1. report \in Reports
    BY DEF TypeOK
  <2>2. [report EXCEPT !.fresh = FALSE] \in Reports
    BY <2>1 DEF Reports
  <2> QED
    BY <1>1, <2>1, <2>2, AbsenceAssumption DEF Reports, Entries
<1>5. TypeOK'
  <2>1. stored' \in [Containers -> GpuContainers \cup {NotStored}]
    BY <1>1, <1>2 DEF TypeOK
  <2>2. report' \in Reports \cup {Idle}
    BY <1>1, <1>4
  <2> QED
    BY <1>1, <1>3, <2>1, <2>2 DEF TypeOK
<1>6. EverySampleWeighedOnce'
  <2> SUFFICES ASSUME NEW f \in Entries, NEW k \in Kinds
               PROVE  (counters[f][k] + Pending(f, k) + lost[f][k])' =
                        Weighed(f, lastSeen[<<f[2], k>>])'
    BY DEF EverySampleWeighedOnce, Weighed
  <2>1. Weighed(f, lastSeen[<<f[2], k>>])' = Weighed(f, lastSeen[<<f[2], k>>])
    BY <1>1, WeighedFrame
  <2>2. Pending(f, k)' = Pending(f, k)
    BY <1>1, <1>4 DEF Pending
  <2> QED
    BY <1>1, <2>1, <2>2 DEF EverySampleWeighedOnce, Weighed
<1>7. ValuesOfAsk'
  BY <1>1, <1>2 DEF ValuesOfAsk, Asked
<1>8. ReportOfAsk'
  <2> SUFFICES ASSUME report' # Idle
               PROVE  LET c == report'.entry[1] IN
                      /\ stored'[c] # NotStored
                      /\ report'.fresh => report'.values \in Asked(stored'[c].ask)
                      /\ ~report'.fresh => c \notin upToDate'
    BY DEF ReportOfAsk, Asked
  <2>1. report # Idle
    BY <1>1
  <2>2. CASE report.entry[1] \in DOMAIN desired
    BY <1>1, <1>2, <1>4, <2>1, <2>2
  <2>3. CASE report.entry[1] \notin DOMAIN desired
    BY <1>1, <1>4, <2>1, <2>3 DEF ReportOfAsk
  <2> QED
    BY <2>2, <2>3
<1>9. \A d \in upToDate' : d \in upToDate /\ stored'[d] = stored[d]
  BY <1>1 DEF TypeOK
<1> QED
  BY <1>1, <1>5, <1>6, <1>7, <1>8, <1>9, WeighedFrame DEF UpToDateStored, RequestsFollowAsk

-----------------------------------------------------------------------------
(* The theorems.                                                            *)

LEMMA StepKeeps == Inv /\ [Next]_vars => Inv'
<1> SUFFICES ASSUME Inv, [Next]_vars PROVE Inv'
  OBVIOUS
<1>1. ASSUME NEW busy \in SUBSET {p \in Pids : GpuOf[p] \in Sampling}, Samples(busy) PROVE Inv'
  BY <1>1, SamplesKeeps
<1>2. ASSUME NEW read \in SUBSET Unread, NEW running \in Listings, NEW last \in SUBSET running,
             NEW known \in SUBSET Sampled(read), Collect(read, running, last, known)
      PROVE  Inv'
  BY <1>2, CollectKeeps
<1>3. ASSUME NEW e \in Entries, LookUp(e) PROVE Inv'
  BY <1>3, LookUpKeeps
<1>4. CASE Publish
  BY <1>4, PublishKeeps
<1>5. ASSUME NEW pod \in PodObjects, ReconcilePod(pod) PROVE Inv'
  BY <1>5, ReconcilePodKeeps
<1>6. CASE UNCHANGED vars
  <2>1. UNCHANGED <<now, samples, lastSeen, metrics, report, stored, updates,
                    counters, requests, lost, upToDate>>
    BY <1>6 DEF vars, driverVars, storeVars, gaugeVars
  <2>2. \A e, k : Pending(e, k)' = Pending(e, k)
    BY <2>1 DEF Pending
  <2>3. EverySampleWeighedOnce'
    <3> SUFFICES ASSUME NEW f \in Entries, NEW k \in Kinds
                 PROVE  (counters[f][k] + Pending(f, k) + lost[f][k])' =
                          Weighed(f, lastSeen[<<f[2], k>>])'
      BY DEF EverySampleWeighedOnce, Weighed
    <3> QED
      BY <2>1, <2>2, WeighedFrame DEF Inv, EverySampleWeighedOnce, Weighed
  <2>4. TypeOK'
    BY <2>1 DEF Inv, TypeOK
  <2>5. ValuesOfAsk' /\ ReportOfAsk' /\ UpToDateStored'
    BY <2>1 DEF Inv, ValuesOfAsk, ReportOfAsk, UpToDateStored, Asked
  <2>6. RequestsFollowAsk'
    BY <2>1 DEF Inv, RequestsFollowAsk
  <2> QED
    BY <2>1, <2>3, <2>4, <2>5, <2>6, WeighedFrame DEF Inv
<1> QED
  BY <1>1, <1>2, <1>3, <1>4, <1>5, <1>6 DEF Next

\* The inductive invariant: what is read, pending, lost and counted balances, and what is
\* stored, under way and published of a container is of its ask.
THEOREM CollectorInvariance == Spec => []Inv
BY InitGood, StepKeeps, PTL DEF Spec

\* Counters, timestamps, values and reports are of their types.
THEOREM CollectorTypeCorrect == Spec => []TypeOK
<1>1. Inv => TypeOK
  BY DEF Inv
<1> QED
  BY <1>1, CollectorInvariance, PTL

\* However the polls divide the samples and whichever of them fail, each sample is weighed
\* once, with the time since the sample before it (collectUtilization).
THEOREM SamplesWeighed == Spec => []EverySampleWeighedOnce
<1>1. Inv => EverySampleWeighedOnce
  BY DEF Inv
<1> QED
  BY <1>1, CollectorInvariance, PTL

\* Requests and Limits of an unchanged container are what it asks for (reportMetrics).
THEOREM RequestsAreAsked == Spec => []RequestsFollowAsk
<1>1. Inv => RequestsFollowAsk
  BY DEF Inv
<1> QED
  BY <1>1, CollectorInvariance, PTL

\* The footprint's divisor is zero, or no finite number, only if that is what the
\* annotations say.
THEOREM DivisorAsked == Spec => []DivisorZeroOnlyIfAsked
<1>1. Inv => DivisorZeroOnlyIfAsked
  <2> SUFFICES ASSUME Inv, report # Idle, report.values # Nil, report.fresh,
                      Indivisible(report.values.TotalMemory)
               PROVE  LET ask == stored[report.entry[1]].ask
                      IN  \/ ask.GpuFraction # Nil /\ Indivisible(ask.GpuFraction)
                          \/ ask.GpuMemory # Nil /\ AskedBytes(ask) = 0
    BY DEF DivisorZeroOnlyIfAsked
  <2> DEFINE c == report.entry[1]
  <2>1. report \in Reports /\ c \in Containers
    BY DEF Inv, TypeOK, Reports, Entries
  <2>2. stored[c] # NotStored /\ report.values \in Asked(stored[c].ask)
    BY DEF Inv, ReportOfAsk
  <2>3. stored[c].ask \in Asks
    BY <2>1, <2>2 DEF Inv, TypeOK, GpuContainers
  <2>4. PICK g \in Gpus : report.values = Calculate(stored[c].ask, DeviceMemory[g])
    BY <2>2 DEF Asked
  <2>5. DeviceMemory[g] \in Nat \ {0}
    BY CollectorAssumption
  <2> QED
    BY <2>3, <2>4, <2>5, CalculateType
<1> QED
  BY <1>1, CollectorInvariance, PTL

-----------------------------------------------------------------------------
(* Containers whose ask does not depend on a device's memory.               *)

\* gpu-memory does not decide the share of this ask (container.go:179).
DeviceFree(ask) ==
    \/ ask.GpuRequest # Nil /\ ask.GpuLimit # Nil
    \/ ask.GpuFraction # Nil

LEMMA SameOnAllDevices ==
    ASSUME NEW ask \in Asks, DeviceFree(ask), NEW m, NEW n
    PROVE  /\ Calculate(ask, m).Requests = Calculate(ask, n).Requests
           /\ Calculate(ask, m).Limits = Calculate(ask, n).Limits
<1>1. CASE ask.GpuRequest # Nil /\ ask.GpuLimit # Nil
  BY <1>1 DEF Calculate, Values
<1>2. CASE ~ (ask.GpuRequest # Nil /\ ask.GpuLimit # Nil)
  BY <1>2 DEF DeviceFree, Calculate, Values
<1> QED
  BY <1>1, <1>2

\* Requests and Limits show what a container asks for now on whichever of the devices one
\* asks, although they are computed for the first that is looked up and cached
\* (container.go:104): for every ask but one of gpu-memory.
RequestsOfEveryDevice ==
    \A c \in upToDate : DeviceFree(stored[c].ask) =>
        \A g \in Gpus :
            LET v == Calculate(stored[c].ask, DeviceMemory[g])
            IN  requests[c] = <<v.Requests, v.Limits>>

\* The cache of calculated values is right for all devices at once unless gpu-memory is
\* what a container asks for (container.go:104).
THEOREM CacheFitsAllDevices == Spec => []RequestsOfEveryDevice
<1>1. Inv => RequestsOfEveryDevice
  <2> SUFFICES ASSUME Inv, NEW c \in upToDate, DeviceFree(stored[c].ask), NEW g \in Gpus
               PROVE  LET v == Calculate(stored[c].ask, DeviceMemory[g])
                      IN  requests[c] = <<v.Requests, v.Limits>>
    BY DEF RequestsOfEveryDevice
  <2> PICK ask : ask = stored[c].ask
    OBVIOUS
  <2>1. stored[c] \in GpuContainers
    BY DEF Inv, TypeOK, UpToDateStored
  <2>2. ask \in Asks
    BY <2>1 DEF GpuContainers
  <2>3. \A h \in Gpus : DeviceMemory[h] \in Nat \ {0}
    BY CollectorAssumption
  <2>4. Calculate(ask, DeviceMemory[g]) # Nil
    BY <2>2, <2>3, CalculateType DEF DeviceFree
  <2>5. {Calculate(ask, DeviceMemory[h]) : h \in Gpus} \ {Nil} # {}
    BY <2>4
  <2>6. PICK h \in Gpus :
          LET v == Calculate(ask, DeviceMemory[h]) IN requests[c] = <<v.Requests, v.Limits>>
    BY <2>5 DEF Inv, RequestsFollowAsk
  <2> QED
    BY <2>2, <2>6, SameOnAllDevices
<1> QED
  BY <1>1, CollectorInvariance, PTL
=============================================================================
