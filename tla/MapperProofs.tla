---------------------------- MODULE MapperProofs ----------------------------
(***************************************************************************)
(* Proofs about Mapper, for any pids, containers, callers and directories:  *)
(* the two maps agree, the cache never attributes a pid to a container of   *)
(* another process, and GetContainerKey implements ContainerKeyService.     *)
(***************************************************************************)
EXTENDS Mapper, TLAPS

(* The inductive invariant: the cache is true, and each call in progress    *)
(* holds only facts that /proc showed since the call began.                 *)

EntryTrue(e) == e # NoEntry => e.inode <= lastInode /\ cgroup[e.inode] = e.key

CallTrue(t) ==
    /\ pc[t] = "idle" <=> call[t] = NoPid
    /\ call[t] # NoPid => View(call[t]) \in seen[t]
    /\ pc[t] = "statCached" => cached[t] # NoEntry
    /\ EntryTrue(cached[t])
    /\ inode[t] <= lastInode
    /\ pc[t] \in {"evict", "parse", "verify", "publish"} =>
          inode[t] # 0 /\ \E v \in seen[t] : v.inode = inode[t]
    /\ pc[t] \in {"verify", "publish"} =>
          key[t] \in Keys /\ \E v \in seen[t] : v.key = key[t]
    /\ pc[t] = "verify" /\ proc[call[t]] = inode[t] => cgroup[inode[t]] = key[t]
    /\ pc[t] = "publish" => cgroup[inode[t]] = key[t]

CallsTrue == \A t \in Callers : CallTrue(t)

IInv == TypeOK /\ IndexesAgree /\ CacheTrue /\ CallsTrue

-----------------------------------------------------------------------------
(* Type correctness.                                                        *)

LEMMA ViewType ==
    ASSUME ProcTypeOK, NEW p \in Pids
    PROVE  View(p) \in Views
  BY ProcFsAssumption DEF ProcTypeOK, View, Views, Inodes

LEMMA InitType == Init => TypeOK
  BY ProcFsAssumption
  DEF Init, ServiceInit, ProcInit, TypeOK, ServiceTypeOK, ProcTypeOK,
      Entries, NoEntry, PCs, Results, Inodes

LEMMA ProcStepType ==
    ASSUME ProcTypeOK, ProcNext
    PROVE  ProcTypeOK' /\ lastInode <= lastInode'
<1> PICK p \in Pids : ProcStep(p)
  BY DEF ProcNext
<1>1. ASSUME NEW k \in Keys \cup {NoKey}, NewDirectory(p, k)
      PROVE  ProcTypeOK' /\ lastInode <= lastInode'
  <2> lastInode + 1 \in Inodes
    BY <1>1, ProcFsAssumption DEF NewDirectory, ProcTypeOK, Inodes
  <2>1. /\ lastInode' \in 0 .. MaxInode
        /\ lastInode <= lastInode'
        /\ cgroup' \in [Inodes -> Keys \cup {NoKey}]
    BY <1>1, ProcFsAssumption DEF NewDirectory, ProcTypeOK, Inodes
  <2>2. proc' \in [Pids -> 0 .. MaxInode]
    BY <1>1, ProcFsAssumption DEF NewDirectory, ProcTypeOK, Inodes
  <2>3. \A q \in Pids : proc'[q] <= lastInode'
    BY <1>1, ProcFsAssumption DEF NewDirectory, ProcTypeOK, Inodes
  <2> QED
    BY <2>1, <2>2, <2>3 DEF ProcTypeOK
<1>2. CASE ProcessStarts(p)
  BY <1>1, <1>2 DEF ProcessStarts
<1>3. CASE InodeRecreated(p)
  <2> cgroup[proc[p]] \in Keys \cup {NoKey}
    BY <1>3, ProcFsAssumption DEF InodeRecreated, ProcTypeOK, Inodes
  <2> QED
    BY <1>1, <1>3 DEF InodeRecreated
<1>4. ASSUME NEW k \in Keys, EntersContainer(p, k)
      PROVE  ProcTypeOK' /\ lastInode <= lastInode'
  <2>1. cgroup' \in [Inodes -> Keys \cup {NoKey}]
    BY <1>4 DEF EntersContainer, ProcTypeOK
  <2> QED
    BY <2>1, <1>4 DEF EntersContainer, ProcTypeOK
<1>5. CASE ProcessExits(p)
  BY <1>5, ProcFsAssumption DEF ProcessExits, ProcTypeOK
<1> QED
  BY <1>2, <1>3, <1>4, <1>5 DEF ProcStep

LEMMA KernelType ==
    ASSUME TypeOK, KernelStep
    PROVE  TypeOK'
<1>1. ProcTypeOK'
  BY ProcStepType DEF TypeOK, ServiceTypeOK, KernelStep, Observe
<1>2. seen' \in [Callers -> SUBSET Views]
  <2>1. \A t \in Callers : call[t] # NoPid => View(call[t])' \in Views
    BY <1>1 DEF ProcTypeOK, View, Views, Inodes, TypeOK, ServiceTypeOK, KernelStep, Observe
  <2> QED
    BY <2>1 DEF TypeOK, ServiceTypeOK, KernelStep, Observe
<1> QED
  BY <1>1, <1>2 DEF TypeOK, ServiceTypeOK, KernelStep, Observe, cacheVars, localVars

LEMMA FinishType ==
    ASSUME TypeOK, NEW t \in Callers, NEW k \in Keys \cup {NoKey}, Finish(t, k)
    PROVE  /\ ServiceTypeOK'
           /\ pc' \in [Callers -> PCs]
           /\ cached' \in [Callers -> Entries \cup {NoEntry}]
           /\ inode' \in [Callers -> 0 .. MaxInode]
           /\ key' \in [Callers -> Keys \cup {NoKey}]
  BY ProcFsAssumption
  DEF TypeOK, ServiceTypeOK, ProcTypeOK, Finish, Return, PCs, Results, Entries, NoEntry

LEMMA RemoveCachedType ==
    ASSUME TypeOK, NEW ps, RemoveCached(ps)
    PROVE  /\ pidToContainer' \in [Pids -> Entries \cup {NoEntry}]
           /\ containerToPids' \in [Keys -> SUBSET Pids]
  BY DEF TypeOK, RemoveCached

LEMMA CallerType ==
    ASSUME TypeOK, NEW t \in Callers, CallerStep(t), pc[t] # "idle" => call[t] # NoPid,
           pc[t] = "statCached" => cached[t] # NoEntry,
           pc[t] = "publish" => key[t] \in Keys /\ inode[t] # 0
    PROVE  TypeOK'
<1> call[t] \in Pids
  BY DEF TypeOK, ServiceTypeOK, CallerStep, StatCached, EvictStale, StatProcess,
         ParseCgroup, VerifyInode, Publish, At
<1> USE DEF At
<1>1. CASE StatCached(t)
  <2> cached[t].key \in Keys
    BY <1>1 DEF TypeOK, StatCached, Entries
  <2>1. CASE \E k \in Keys \cup {NoKey} : Finish(t, k)
    BY <2>1, <1>1, FinishType DEF StatCached, cacheVars, TypeOK
  <2>2. CASE inode' = [inode EXCEPT ![t] = proc[call[t]]] /\ GoTo(t, "evict") /\ UNCHANGED <<cached, key>>
    BY <2>2, <1>1 DEF TypeOK, ServiceTypeOK, ProcTypeOK, StatCached, GoTo, PCs, cacheVars
  <2> QED
    BY <2>1, <2>2, <1>1 DEF StatCached
<1>2. CASE EvictStale(t)
  <2>1. CASE RemoveCached({call[t]})
    BY <2>1, <1>2, RemoveCachedType DEF TypeOK, ServiceTypeOK, ProcTypeOK, EvictStale, GoTo, PCs
  <2>2. CASE UNCHANGED cacheVars
    BY <2>2, <1>2 DEF TypeOK, ServiceTypeOK, ProcTypeOK, EvictStale, GoTo, PCs, cacheVars
  <2> QED
    BY <2>1, <2>2, <1>2 DEF EvictStale
<1>3. CASE StatProcess(t)
  <2>1. CASE Finish(t, NoKey)
    BY <2>1, <1>3, FinishType DEF StatProcess, cacheVars, TypeOK
  <2>2. CASE inode' = [inode EXCEPT ![t] = proc[call[t]]] /\ GoTo(t, "parse") /\ UNCHANGED <<cached, key>>
    BY <2>2, <1>3 DEF TypeOK, ServiceTypeOK, ProcTypeOK, StatProcess, GoTo, PCs, cacheVars
  <2> QED
    BY <2>1, <2>2, <1>3 DEF StatProcess
<1>4. CASE ParseCgroup(t)
  <2>1. CASE Finish(t, NoKey)
    BY <2>1, <1>4, FinishType DEF ParseCgroup, cacheVars, TypeOK
  <2>2. CASE key' = [key EXCEPT ![t] = View(call[t]).key] /\ GoTo(t, "verify") /\ UNCHANGED <<cached, inode>>
    <3> View(call[t]).key \in Keys \cup {NoKey}
      BY ViewType DEF Views, TypeOK, ServiceTypeOK
    <3> QED
      BY <2>2, <1>4 DEF TypeOK, ServiceTypeOK, ProcTypeOK, ParseCgroup, GoTo, PCs, cacheVars
  <2> QED
    BY <2>1, <2>2, <1>4 DEF ParseCgroup
<1>5. CASE VerifyInode(t)
  <2>1. CASE Finish(t, NoKey)
    BY <2>1, <1>5, FinishType DEF VerifyInode, cacheVars, TypeOK
  <2>2. CASE GoTo(t, "publish") /\ UNCHANGED <<cached, inode, key>>
    BY <2>2, <1>5 DEF TypeOK, ServiceTypeOK, ProcTypeOK, VerifyInode, GoTo, PCs, cacheVars
  <2> QED
    BY <2>1, <2>2, <1>5 DEF VerifyInode
<1>6. CASE Publish(t)
  <2>1. CASE UNCHANGED cacheVars /\ Finish(t, pidToContainer[call[t]].key)
    <3> pidToContainer[call[t]].key \in Keys \cup {NoKey}
      BY DEF TypeOK, Entries, NoEntry
    <3> QED
      BY <2>1, FinishType DEF cacheVars, TypeOK
  <2>2. CASE Replace(call[t], key[t], inode[t]) /\ Finish(t, key[t])
    <3> key[t] \in Keys /\ inode[t] \in Inodes
      BY <1>6, ProcFsAssumption DEF Publish, TypeOK, Inodes
    <3>1. /\ pidToContainer' \in [Pids -> Entries \cup {NoEntry}]
          /\ containerToPids' \in [Keys -> SUBSET Pids]
      BY <2>2 DEF Replace, TypeOK, Entries
    <3> QED
      BY <3>1, <2>2, FinishType DEF TypeOK
  <2> QED
    BY <2>1, <2>2, <1>6 DEF Publish
<1> QED
  BY <1>1, <1>2, <1>3, <1>4, <1>5, <1>6 DEF CallerStep

-----------------------------------------------------------------------------
(* The two maps agree after every section under m.mu.                       *)

LEMMA RemoveCachedAgrees ==
    ASSUME TypeOK, IndexesAgree, NEW ps, RemoveCached(ps)
    PROVE  IndexesAgree'
  BY ProcFsAssumption DEF TypeOK, IndexesAgree, RemoveCached, NoEntry

LEMMA ReplaceAgrees ==
    ASSUME TypeOK, IndexesAgree, NEW p \in Pids, NEW k \in Keys, NEW i, Replace(p, k, i)
    PROVE  IndexesAgree'
  BY DEF TypeOK, IndexesAgree, Replace

LEMMA RemoveCachedTrue ==
    ASSUME TypeOK, CacheTrue, NEW ps, RemoveCached(ps), UNCHANGED procVars
    PROVE  CacheTrue'
  BY DEF TypeOK, CacheTrue, RemoveCached, NoEntry, procVars

-----------------------------------------------------------------------------
(* What the kernel cannot change: the container of an inode that has one,   *)
(* and a pid's inode back to an older one.                                  *)

LEMMA InodesAreFresh ==
    ASSUME ProcTypeOK, ProcNext
    PROVE  /\ \A i \in 1 .. lastInode : cgroup[i] # NoKey => cgroup'[i] = cgroup[i]
           /\ \A q \in Pids : proc'[q] = proc[q] \/ proc'[q] = 0 \/ proc'[q] > lastInode
<1> PICK p \in Pids : ProcStep(p)
  BY DEF ProcNext
<1> DEFINE Fresh == /\ \A i \in 1 .. lastInode : cgroup[i] # NoKey => cgroup'[i] = cgroup[i]
                    /\ \A q \in Pids : proc'[q] = proc[q] \/ proc'[q] = 0 \/ proc'[q] > lastInode
<1>1. ASSUME NEW k, NewDirectory(p, k)
      PROVE  Fresh
  BY <1>1, ProcFsAssumption DEF NewDirectory, ProcTypeOK, Inodes
<1>2. CASE ProcessStarts(p)
  BY <1>1, <1>2 DEF ProcessStarts
<1>3. CASE InodeRecreated(p)
  BY <1>1, <1>3 DEF InodeRecreated
<1>4. ASSUME NEW k \in Keys, EntersContainer(p, k)
      PROVE  Fresh
  BY <1>4, ProcFsAssumption DEF EntersContainer, ProcTypeOK, Inodes
<1>5. CASE ProcessExits(p)
  BY <1>5 DEF ProcessExits, ProcTypeOK
<1> QED
  BY <1>2, <1>3, <1>4, <1>5 DEF ProcStep

LEMMA EntryStaysTrue ==
    ASSUME ProcTypeOK, ProcNext, NEW e \in Entries \cup {NoEntry}, EntryTrue(e)
    PROVE  EntryTrue(e)'
<1>1. CASE e = NoEntry
  BY <1>1 DEF EntryTrue
<1>2. CASE e \in Entries /\ e # NoEntry
  <2>1. /\ e.inode \in 1 .. lastInode
        /\ cgroup[e.inode] # NoKey
    BY <1>2, ProcFsAssumption DEF EntryTrue, Entries, Inodes, ProcTypeOK
  <2>2. cgroup'[e.inode] = cgroup[e.inode]
    BY <2>1, InodesAreFresh
  <2>3. e.inode <= lastInode'
    BY <2>1, ProcStepType, ProcFsAssumption DEF ProcTypeOK
  <2> QED
    BY <1>2, <2>2, <2>3 DEF EntryTrue
<1> QED
  BY <1>1, <1>2

LEMMA KernelCall ==
    ASSUME TypeOK, KernelStep, NEW t \in Callers, CallTrue(t)
    PROVE  CallTrue(t)'
<1> USE DEF CallTrue
<1>1. /\ ProcTypeOK /\ ProcNext
      /\ UNCHANGED <<call, pc, cached, inode, key>>
  BY DEF TypeOK, ServiceTypeOK, KernelStep, Observe, localVars
<1>2. seen[t] \subseteq seen'[t]
  BY <1>1 DEF TypeOK, ServiceTypeOK, KernelStep, Observe
<1>3. call'[t] # NoPid => View(call[t])' \in seen'[t]
  BY <1>1 DEF KernelStep, Observe
<1>4. EntryTrue(cached[t])'
  <2>1. cached[t] \in Entries \cup {NoEntry} /\ EntryTrue(cached[t])
    BY DEF TypeOK
  <2> QED
    BY <2>1, <1>1, EntryStaysTrue DEF EntryTrue
<1>5. inode'[t] <= lastInode'
  BY <1>1, ProcStepType, ProcFsAssumption DEF ProcTypeOK, TypeOK
<1>6. ASSUME pc[t] \in {"verify", "publish"}, cgroup[inode[t]] = key[t]
      PROVE  cgroup'[inode[t]] = key[t]
  <2>1. inode[t] \in 1 .. lastInode /\ key[t] # NoKey
    BY <1>6, ProcFsAssumption DEF TypeOK, ServiceTypeOK, ProcTypeOK
  <2> QED
    BY <1>1, <1>6, <2>1, InodesAreFresh
<1>7. ASSUME pc[t] = "verify", proc'[call[t]] = inode[t]
      PROVE  cgroup'[inode[t]] = key[t]
  <2>1. call[t] \in Pids /\ inode[t] # 0 /\ inode[t] <= lastInode
    BY <1>7 DEF TypeOK, ServiceTypeOK
  <2>2. proc[call[t]] = inode[t]
    BY <1>1, <1>7, <2>1, InodesAreFresh DEF TypeOK, ProcTypeOK
  <2> QED
    BY <1>6, <1>7, <2>2
<1> QED
  BY <1>1, <1>2, <1>3, <1>4, <1>5, <1>6, <1>7

LEMMA KernelInv ==
    ASSUME IInv, KernelStep
    PROVE  IInv'
<1> USE DEF IInv
<1>1. TypeOK'
  BY KernelType
<1>2. IndexesAgree'
  BY DEF KernelStep, cacheVars, IndexesAgree
<1>3. CacheTrue'
  <2>1. ASSUME NEW p \in Pids
        PROVE  EntryTrue(pidToContainer[p])'
    <3>1. pidToContainer[p] \in Entries \cup {NoEntry} /\ EntryTrue(pidToContainer[p])
      BY DEF TypeOK, CacheTrue, EntryTrue
    <3> QED
      BY <3>1, EntryStaysTrue DEF EntryTrue, KernelStep, Observe, cacheVars, TypeOK, ServiceTypeOK
  <2> QED
    BY <2>1 DEF CacheTrue, EntryTrue
<1>4. CallsTrue'
  BY KernelCall DEF CallsTrue
<1> QED
  BY <1>1, <1>2, <1>3, <1>4

-----------------------------------------------------------------------------
(* A caller's step: it disturbs no other call, keeps its own call true, and *)
(* is a step of the service or a stutter of it.                             *)

LEMMA OtherCalls ==
    ASSUME TypeOK, NEW t \in Callers, NEW u \in Callers \ {t}, CallTrue(u),
           CallerStep(t) \/ \E p \in Pids : ReadCache(t, p)
    PROVE  CallTrue(u)'
<1>1. /\ UNCHANGED procVars
      /\ pc'[u] = pc[u] /\ cached'[u] = cached[u] /\ inode'[u] = inode[u]
      /\ key'[u] = key[u] /\ call'[u] = call[u] /\ seen'[u] = seen[u]
  BY DEF TypeOK, ServiceTypeOK, CallerStep, StatCached, EvictStale, StatProcess, ParseCgroup,
         VerifyInode, Publish, ReadCache, Begin, Finish, Return, GoTo, procVars
<1> QED
  BY <1>1 DEF CallTrue, EntryTrue, View, procVars

LEMMA FinishedCall ==
    ASSUME TypeOK, NEW t \in Callers, NEW k, Finish(t, k)
    PROVE  CallTrue(t)'
  BY DEF TypeOK, ServiceTypeOK, ProcTypeOK, Finish, Return, CallTrue, EntryTrue, NoEntry

LEMMA OwnCall ==
    ASSUME IInv, NEW t \in Callers, CallerStep(t)
    PROVE  /\ CallTrue(t)'
           /\ \/ \E k \in Keys \cup {NoKey} : Justified(t, k) /\ Return(t, k)
              \/ UNCHANGED serviceVars
<1> CallTrue(t) /\ TypeOK
  BY DEF IInv, CallsTrue
<1>0. /\ call[t] \in Pids /\ call[t] # NoPid
      /\ View(call[t]) \in seen[t]
  BY DEF CallTrue, TypeOK, ServiceTypeOK, CallerStep, StatCached, EvictStale, StatProcess,
         ParseCgroup, VerifyInode, Publish, At
<1> USE DEF At
<1>a. ASSUME NEW k \in Keys \cup {NoKey}, Justified(t, k), Finish(t, k)
      PROVE  /\ CallTrue(t)'
             /\ \E j \in Keys \cup {NoKey} : Justified(t, j) /\ Return(t, j)
  BY <1>a, FinishedCall DEF Finish
<1>b. proc[call[t]] = 0 => Justified(t, NoKey)
  BY <1>0 DEF Justified, View
<1>c. /\ \E v \in seen[t] : v.inode = proc[call[t]]
      /\ proc[call[t]] \in 0 .. MaxInode /\ proc[call[t]] <= lastInode
  BY <1>0 DEF View, TypeOK, ServiceTypeOK, ProcTypeOK
<1>1. CASE StatCached(t)
  <2>1. CASE proc[call[t]] = 0 /\ Finish(t, NoKey)
    BY <2>1, <1>a, <1>b
  <2>2. CASE proc[call[t]] = cached[t].inode /\ Finish(t, cached[t].key)
    <3>1. /\ cached[t] \in Entries
          /\ cached[t].inode # 0
          /\ cgroup[cached[t].inode] = cached[t].key
      BY <1>1, ProcFsAssumption DEF StatCached, CallTrue, EntryTrue, TypeOK, Entries, Inodes
    <3>2. View(call[t]).key = cached[t].key
      BY <2>2, <3>1 DEF View
    <3>3. Justified(t, cached[t].key)
      BY <3>1, <3>2, <1>0, ProcFsAssumption DEF Justified, Entries
    <3> QED
      BY <2>2, <3>1, <3>3, <1>a DEF Entries
  <2>3. CASE /\ proc[call[t]] \notin {0, cached[t].inode}
             /\ inode' = [inode EXCEPT ![t] = proc[call[t]]]
             /\ GoTo(t, "evict")
             /\ UNCHANGED <<cached, key>>
    <3>1. pc'[t] = "evict" /\ inode'[t] = proc[call[t]]
      BY <2>3 DEF GoTo, TypeOK
    <3>2. UNCHANGED <<procVars, call, seen, result, cached>>
      BY <2>3 DEF GoTo, procVars
    <3>3. View(call[t])' = View(call[t])
      BY <3>2 DEF View, procVars
    <3>4. inode'[t] # 0 /\ inode'[t] <= lastInode' /\ \E v \in seen'[t] : v.inode = inode'[t]
      BY <2>3, <3>1, <3>2, <1>c DEF procVars
    <3>5. CallTrue(t)'
      BY <3>1, <3>2, <3>3, <3>4, <1>0 DEF CallTrue, EntryTrue, procVars
    <3> QED
      BY <3>2, <3>5 DEF serviceVars, procVars
  <2> QED
    BY <1>1, <2>1, <2>2, <2>3 DEF StatCached
<1>2. CASE EvictStale(t)
  BY <1>2, <1>0 DEF EvictStale, GoTo, CallTrue, EntryTrue, View, TypeOK, ServiceTypeOK, serviceVars
<1>3. CASE StatProcess(t)
  <2>1. CASE proc[call[t]] = 0 /\ Finish(t, NoKey)
    BY <2>1, <1>a, <1>b
  <2>2. CASE /\ proc[call[t]] # 0
             /\ inode' = [inode EXCEPT ![t] = proc[call[t]]]
             /\ GoTo(t, "parse")
             /\ UNCHANGED <<cached, key>>
    <3>1. pc'[t] = "parse" /\ inode'[t] = proc[call[t]]
      BY <2>2 DEF GoTo, TypeOK
    <3>2. UNCHANGED <<procVars, call, seen, result, cached>>
      BY <2>2 DEF GoTo, procVars
    <3>3. View(call[t])' = View(call[t])
      BY <3>2 DEF View, procVars
    <3>4. inode'[t] # 0 /\ inode'[t] <= lastInode' /\ \E v \in seen'[t] : v.inode = inode'[t]
      BY <2>2, <3>1, <3>2, <1>c DEF procVars
    <3>5. CallTrue(t)'
      BY <3>1, <3>2, <3>3, <3>4, <1>0 DEF CallTrue, EntryTrue, procVars
    <3> QED
      BY <3>2, <3>5 DEF serviceVars, procVars
  <2> QED
    BY <1>3, <2>1, <2>2 DEF StatProcess
<1>4. CASE ParseCgroup(t)
  <2>1. CASE View(call[t]).key = NoKey /\ Finish(t, NoKey)
    BY <2>1, <1>0, <1>a DEF Justified
  <2>2. CASE /\ View(call[t]).key # NoKey
             /\ key' = [key EXCEPT ![t] = View(call[t]).key]
             /\ GoTo(t, "verify")
             /\ UNCHANGED <<cached, inode>>
    <3>1. /\ View(call[t]).key \in Keys
          /\ View(call[t]).key = cgroup[proc[call[t]]]
      BY <2>2, <1>0, ViewType DEF View, Views, TypeOK, ServiceTypeOK
    <3> QED
      BY <3>1, <2>2, <1>4, <1>0
      DEF ParseCgroup, GoTo, CallTrue, EntryTrue, View, TypeOK, ServiceTypeOK, serviceVars
  <2> QED
    BY <1>4, <2>1, <2>2 DEF ParseCgroup
<1>5. CASE VerifyInode(t)
  <2>1. CASE proc[call[t]] # inode[t] /\ Finish(t, NoKey)
    <3>1. PICK v \in seen[t] : v.inode = inode[t]
      BY <1>5 DEF VerifyInode, CallTrue
    <3>2. View(call[t]).inode # v.inode
      BY <2>1, <3>1 DEF View
    <3> QED
      BY <2>1, <3>2, <1>0, <1>a DEF Justified
  <2>2. CASE /\ proc[call[t]] = inode[t]
             /\ GoTo(t, "publish")
             /\ UNCHANGED <<cached, inode, key>>
    BY <2>2, <1>5, <1>0
    DEF VerifyInode, GoTo, CallTrue, EntryTrue, View, TypeOK, ServiceTypeOK, serviceVars
  <2> QED
    BY <1>5, <2>1, <2>2 DEF VerifyInode
<1>6. CASE Publish(t)
  <2>1. key[t] \in Keys /\ cgroup[inode[t]] = key[t] /\ Justified(t, key[t])
    BY <1>6, ProcFsAssumption DEF Publish, CallTrue, Justified
  <2>2. CASE /\ pidToContainer[call[t]] # NoEntry
             /\ pidToContainer[call[t]].inode = inode[t]
             /\ Finish(t, pidToContainer[call[t]].key)
    <3> pidToContainer[call[t]].key = key[t]
      BY <2>1, <2>2, <1>0 DEF IInv, CacheTrue
    <3> QED
      BY <2>1, <2>2, <1>a
  <2>3. CASE Finish(t, key[t])
    BY <2>1, <2>3, <1>a
  <2> QED
    BY <1>6, <2>2, <2>3 DEF Publish
<1> QED
  BY <1>1, <1>2, <1>3, <1>4, <1>5, <1>6 DEF CallerStep

LEMMA CallerInv ==
    ASSUME IInv, NEW t \in Callers, CallerStep(t)
    PROVE  IInv'
<1> USE DEF IInv
<1>0. CallTrue(t) /\ call[t] \in Pids \cup {NoPid}
  BY DEF CallsTrue, TypeOK, ServiceTypeOK
<1>1. TypeOK'
  BY <1>0, CallerType DEF CallTrue, CallsTrue
<1>2. CallsTrue'
  BY OwnCall, OtherCalls DEF CallsTrue
<1>3. UNCHANGED procVars
  BY DEF CallerStep, StatCached, EvictStale, StatProcess, ParseCgroup, VerifyInode, Publish,
         Finish, Return, GoTo, procVars
<1>4. CASE UNCHANGED cacheVars
  BY <1>1, <1>2, <1>3, <1>4 DEF IndexesAgree, CacheTrue, cacheVars, procVars
<1>5. CASE RemoveCached({call[t]})
  BY <1>1, <1>2, <1>3, <1>5, RemoveCachedAgrees, RemoveCachedTrue
<1>6. CASE Publish(t) /\ Replace(call[t], key[t], inode[t])
  <2>1. /\ call[t] \in Pids /\ key[t] \in Keys
        /\ inode[t] <= lastInode /\ cgroup[inode[t]] = key[t]
    BY <1>0, <1>6 DEF Publish, At, CallTrue
  <2>2. IndexesAgree'
    BY <1>6, <2>1, ReplaceAgrees
  <2>3. CacheTrue'
    BY <1>3, <1>6, <2>1 DEF Replace, CacheTrue, TypeOK, procVars
  <2> QED
    BY <1>1, <1>2, <2>2, <2>3
<1> QED
  BY <1>4, <1>5, <1>6
  DEF CallerStep, StatCached, EvictStale, StatProcess, ParseCgroup, VerifyInode, Publish

LEMMA ReadCacheInv ==
    ASSUME IInv, NEW t \in Callers, NEW p \in Pids, ReadCache(t, p)
    PROVE  IInv'
<1> USE DEF IInv
<1>1. View(p) \in Views
  BY ViewType DEF TypeOK, ServiceTypeOK
<1>2. TypeOK'
  BY <1>1 DEF ReadCache, Begin, TypeOK, ServiceTypeOK, ProcTypeOK, PCs, cacheVars
<1>3. IndexesAgree' /\ CacheTrue'
  BY DEF ReadCache, Begin, cacheVars, IndexesAgree, CacheTrue
<1>4. CallTrue(t)'
  <2>1. /\ pc'[t] = (IF pidToContainer[p] = NoEntry THEN "stat" ELSE "statCached")
        /\ call'[t] = p /\ seen'[t] = {View(p)} /\ cached'[t] = pidToContainer[p]
        /\ UNCHANGED <<procVars, inode>>
    BY DEF ReadCache, Begin, TypeOK, ServiceTypeOK, procVars
  <2>2. View(call[t])' = View(p)
    BY <2>1 DEF View, procVars
  <2>3. inode[t] <= lastInode /\ EntryTrue(pidToContainer[p])
    BY DEF CallsTrue, CallTrue, CacheTrue, EntryTrue
  <2> QED
    BY <2>1, <2>2, <2>3, ServiceAssumption DEF CallTrue, EntryTrue, procVars
<1>5. CallsTrue'
  BY <1>4, OtherCalls DEF CallsTrue
<1> QED
  BY <1>2, <1>3, <1>5

LEMMA RemovalInv ==
    ASSUME IInv, (\E ks \in SUBSET Keys : RemoveContainerKeys(ks)) \/ Clear
    PROVE  IInv'
<1> USE DEF IInv
<1>0. UNCHANGED <<proc, cgroup, lastInode, call, seen, result, pc, cached, inode, key>>
  BY DEF RemoveContainerKeys, Clear, serviceVars, localVars
<1>1. CallsTrue'
  <2>1. ASSUME NEW t \in Callers
        PROVE  CallTrue(t)'
    <3>1. CallTrue(t) /\ View(call[t])' = View(call[t])
      BY <1>0 DEF CallsTrue, View
    <3> QED
      BY <1>0, <3>1 DEF CallTrue, EntryTrue
  <2> QED
    BY <2>1 DEF CallsTrue
<1>2. ASSUME NEW ks \in SUBSET Keys, RemoveContainerKeys(ks)
      PROVE  TypeOK' /\ IndexesAgree' /\ CacheTrue'
  <2>1. UNCHANGED procVars
    BY <1>2 DEF RemoveContainerKeys, serviceVars, procVars
  <2>2. TypeOK'
    BY <1>2, RemoveCachedType
    DEF RemoveContainerKeys, TypeOK, ServiceTypeOK, ProcTypeOK, serviceVars, localVars
  <2> QED
    BY <1>2, <2>1, <2>2, RemoveCachedAgrees, RemoveCachedTrue DEF RemoveContainerKeys
<1>3. CASE Clear
  <2>1. TypeOK'
    BY <1>0, <1>3 DEF Clear, TypeOK, ServiceTypeOK, ProcTypeOK
  <2>2. IndexesAgree' /\ CacheTrue'
    BY <1>3, ProcFsAssumption DEF Clear, IndexesAgree, CacheTrue, NoEntry
  <2> QED
    BY <1>1, <2>1, <2>2
<1> QED
  BY <1>1, <1>2, <1>3

LEMMA InitInv == Init => IInv
<1> SUFFICES ASSUME Init PROVE IInv
  OBVIOUS
<1>1. TypeOK
  BY InitType
<1>2. IndexesAgree /\ CacheTrue
  BY ProcFsAssumption DEF Init, IndexesAgree, CacheTrue, NoEntry
<1>3. CallsTrue
  BY DEF Init, ServiceInit, ProcInit, CallsTrue, CallTrue, EntryTrue
<1> QED
  BY <1>1, <1>2, <1>3 DEF IInv

LEMMA NextInv == IInv /\ [Next]_vars => IInv'
<1> SUFFICES ASSUME IInv, [Next]_vars PROVE IInv'
  OBVIOUS
<1>1. CASE KernelStep
  BY <1>1, KernelInv
<1>2. ASSUME NEW t \in Callers, (\E p \in Pids : ReadCache(t, p)) \/ CallerStep(t)
      PROVE  IInv'
  BY <1>2, ReadCacheInv, CallerInv
<1>3. CASE (\E ks \in SUBSET Keys : RemoveContainerKeys(ks)) \/ Clear
  BY <1>3, RemovalInv
<1>4. CASE UNCHANGED vars
  BY <1>4
  DEF vars, serviceVars, cacheVars, localVars, IInv, TypeOK, ServiceTypeOK, ProcTypeOK,
      IndexesAgree, CacheTrue, CallsTrue, CallTrue, EntryTrue, View
<1> QED
  BY <1>1, <1>2, <1>3, <1>4 DEF Next

-----------------------------------------------------------------------------
(* The theorems.                                                            *)

\* Every reachable state of the mapper is well typed and its calls are true.
THEOREM InductiveInvariant == Spec => []IInv
  BY InitInv, NextInv, PTL DEF Spec

\* The mapper's state has its declared shape.
THEOREM TypeCorrect == Spec => []TypeOK
  BY InductiveInvariant, PTL DEF IInv

\* pidToContainer and containerToPids are two views of one relation, whatever
\* calls of GetContainerKey, RemoveContainerKeys and Clear interleave.
THEOREM IndexesAlwaysAgree == Spec => []IndexesAgree
  BY InductiveInvariant, PTL DEF IInv

\* RemoveContainerKeys forgets the pids cached for the containers it is given and no others,
\* in the middle of any calls.
THEOREM RemovalForgets == Spec => RemovalIsExact
<1> DEFINE Exact(ks) ==
             pidToContainer' =
                [p \in Pids |-> IF pidToContainer[p].key \in ks THEN NoEntry ELSE pidToContainer[p]]
<1>1. ASSUME IInv, NEW ks \in SUBSET Keys, RemoveContainerKeys(ks)
      PROVE  Exact(ks)
  <2>1. ASSUME NEW p \in Pids
        PROVE  p \in UNION {containerToPids[k] : k \in ks} <=> pidToContainer[p].key \in ks
    <3>1. \A k \in ks : p \in containerToPids[k] <=> pidToContainer[p].key = k
      BY <1>1 DEF IInv, IndexesAgree
    <3> QED
      BY <3>1
  <2> QED
    BY <1>1, <2>1 DEF RemoveContainerKeys, RemoveCached
<1>2. IInv => [\A ks \in SUBSET Keys : RemoveContainerKeys(ks) => Exact(ks)]_vars
  BY <1>1
<1> QED
  BY <1>2, InductiveInvariant, PTL DEF RemovalIsExact

\* A cached entry names the container of the very process it was read from.
THEOREM CacheAlwaysTrue == Spec => []CacheTrue
  BY InductiveInvariant, PTL DEF IInv

\* GetContainerKey, with its cache and its races, implements the cache-less service.
THEOREM Implementation == Spec => ServiceInit /\ ImplementsService
<1>1. Init => ServiceInit
  BY DEF Init
<1>2. IInv /\ [Next]_vars => [ServiceNext]_serviceVars
  <2> SUFFICES ASSUME IInv, [Next]_vars PROVE [ServiceNext]_serviceVars
    OBVIOUS
  <2>1. CASE KernelStep
    BY <2>1 DEF KernelStep, ServiceNext
  <2>2. ASSUME NEW t \in Callers, NEW p \in Pids, ReadCache(t, p)
        PROVE  ServiceNext
    BY <2>2 DEF ReadCache, ServiceNext
  <2>3. ASSUME NEW t \in Callers, CallerStep(t)
        PROVE  [ServiceNext]_serviceVars
    BY <2>3, OwnCall DEF ServiceNext
  <2>4. CASE (\E ks \in SUBSET Keys : RemoveContainerKeys(ks)) \/ Clear
    BY <2>4 DEF RemoveContainerKeys, Clear
  <2>5. CASE UNCHANGED vars
    BY <2>5 DEF vars
  <2> QED
    BY <2>1, <2>2, <2>3, <2>4, <2>5 DEF Next
<1> QED
  BY <1>1, <1>2, InductiveInvariant, PTL DEF Spec, ImplementsService
=============================================================================
