------------------------------- MODULE Mapper -------------------------------
(***************************************************************************)
(* pkg/process/mapper.go: the cache from host pid to container, its reverse *)
(* index, and the steps of GetContainerKey between which other goroutines   *)
(* and the kernel run.  Every os.Stat, the cgroup read and every section    *)
(* under m.mu is one step.  An absent map entry is NoEntry in the forward   *)
(* map and the empty set in the reverse one (the code deletes empty sets).  *)
(***************************************************************************)
EXTENDS ContainerKeyService

VARIABLES
    pidToContainer,   \* Mapper.pidToContainer
    containerToPids,  \* Mapper.containerToPids
    pc,               \* pc[t]: the next step of t's call
    cached,           \* cached[t]: the entry read under RLock
    inode,            \* inode[t]: the inode found by the first os.Stat
    key               \* key[t]: the container parsed from the cgroup file

cacheVars == <<pidToContainer, containerToPids>>
localVars == <<pc, cached, inode, key>>
vars == <<serviceVars, cacheVars, localVars>>

NoEntry == [key |-> NoKey, inode |-> 0]
Entries == [key : Keys, inode : Inodes]

PCs == {"idle", "statCached", "evict", "stat", "parse", "verify", "publish"}

TypeOK ==
    /\ ServiceTypeOK
    /\ pidToContainer \in [Pids -> Entries \cup {NoEntry}]
    /\ containerToPids \in [Keys -> SUBSET Pids]
    /\ pc \in [Callers -> PCs]
    /\ cached \in [Callers -> Entries \cup {NoEntry}]
    /\ inode \in [Callers -> 0 .. MaxInode]
    /\ key \in [Callers -> Keys \cup {NoKey}]

Init ==
    /\ ServiceInit
    /\ pidToContainer = [p \in Pids |-> NoEntry]
    /\ containerToPids = [k \in Keys |-> {}]
    /\ pc = [t \in Callers |-> "idle"]
    /\ cached = [t \in Callers |-> NoEntry]
    /\ inode = [t \in Callers |-> 0]
    /\ key = [t \in Callers |-> NoKey]

-----------------------------------------------------------------------------
(* Sections under m.mu.                                                     *)

\* removeCachedPidLocked for every pid of ps.
RemoveCached(ps) ==
    /\ pidToContainer' = [p \in Pids |-> IF p \in ps THEN NoEntry ELSE pidToContainer[p]]
    /\ containerToPids' = [k \in Keys |->
          containerToPids[k] \ {p \in ps : pidToContainer[p].key = k}]

\* Mutant: Replace without removeCachedPidLocked on the entry it overwrites.
ReplaceWithoutRemoval(p, k, i) ==
    /\ pidToContainer' = [pidToContainer EXCEPT ![p] = [key |-> k, inode |-> i]]
    /\ containerToPids' = [containerToPids EXCEPT ![k] = @ \cup {p}]

\* Drop what is cached for p, then cache <<k, i>> and index it.
Replace(p, k, i) ==
    /\ pidToContainer' = [pidToContainer EXCEPT ![p] = [key |-> k, inode |-> i]]
    /\ containerToPids' = [c \in Keys |->
          IF c = k THEN containerToPids[c] \cup {p}
          ELSE IF pidToContainer[p].key = c THEN containerToPids[c] \ {p}
          ELSE containerToPids[c]]

RemoveContainerKeys(ks) ==
    /\ RemoveCached(UNION {containerToPids[k] : k \in ks})
    /\ UNCHANGED <<serviceVars, localVars>>

Clear ==
    /\ pidToContainer' = [p \in Pids |-> NoEntry]
    /\ containerToPids' = [k \in Keys |-> {}]
    /\ UNCHANGED <<serviceVars, localVars>>

-----------------------------------------------------------------------------
(* GetContainerKey, step by step, by caller t.                              *)

At(t, step) == pc[t] = step

GoTo(t, step) ==
    /\ pc' = [pc EXCEPT ![t] = step]
    /\ UNCHANGED <<proc, cgroup, lastInode, call, seen, result>>

\* The call returns k; its local variables are gone.
Finish(t, k) ==
    /\ Return(t, k)
    /\ pc' = [pc EXCEPT ![t] = "idle"]
    /\ cached' = [cached EXCEPT ![t] = NoEntry]
    /\ inode' = [inode EXCEPT ![t] = 0]
    /\ key' = [key EXCEPT ![t] = NoKey]

\* The call begins: look p up under RLock.
ReadCache(t, p) ==
    /\ At(t, "idle")
    /\ Begin(t, p)
    /\ cached' = [cached EXCEPT ![t] = pidToContainer[p]]
    /\ pc' = [pc EXCEPT ![t] = IF pidToContainer[p] = NoEntry THEN "stat" ELSE "statCached"]
    /\ UNCHANGED <<cacheVars, inode, key>>

\* Mutant: StatCached that takes any live process for the cached one.
StatCachedAnyProcess(t) ==
    /\ At(t, "statCached")
    /\ UNCHANGED cacheVars
    /\ Finish(t, IF proc[call[t]] = 0 THEN NoKey ELSE cached[t].key)

\* Mutant: StatCached that reports a changed inode and leaves the entry alone.
StatCachedNoEviction(t) ==
    /\ At(t, "statCached")
    /\ UNCHANGED cacheVars
    /\ Finish(t, IF proc[call[t]] = cached[t].inode THEN cached[t].key ELSE NoKey)

\* os.Stat for a cached pid: error, hit, or a stale entry to evict.
StatCached(t) ==
    /\ At(t, "statCached")
    /\ UNCHANGED cacheVars
    /\ LET now == proc[call[t]] IN
         \/ now = 0 /\ Finish(t, NoKey)
         \/ now = cached[t].inode /\ Finish(t, cached[t].key)
         \/ /\ now \notin {0, cached[t].inode}
            /\ inode' = [inode EXCEPT ![t] = now]
            /\ GoTo(t, "evict")
            /\ UNCHANGED <<cached, key>>

\* Evict the stale entry, unless another caller has replaced it meanwhile.
EvictStale(t) ==
    /\ At(t, "evict")
    /\ IF /\ pidToContainer[call[t]] # NoEntry
          /\ pidToContainer[call[t]].inode = cached[t].inode
       THEN RemoveCached({call[t]})
       ELSE UNCHANGED cacheVars
    /\ GoTo(t, "parse")
    /\ UNCHANGED <<cached, inode, key>>

\* os.Stat for a pid that is not cached.
StatProcess(t) ==
    /\ At(t, "stat")
    /\ UNCHANGED cacheVars
    /\ LET now == proc[call[t]] IN
         \/ now = 0 /\ Finish(t, NoKey)
         \/ /\ now # 0
            /\ inode' = [inode EXCEPT ![t] = now]
            /\ GoTo(t, "parse")
            /\ UNCHANGED <<cached, key>>

\* Mutant: parseCgroupFile without validateMap.
ParseCgroupUnvalidated(t) ==
    /\ At(t, "parse")
    /\ key' = [key EXCEPT ![t] = View(call[t]).key]
    /\ GoTo(t, "verify")
    /\ UNCHANGED <<cacheVars, cached, inode>>

\* parseCgroupFile: fails without a process or without a single container.
ParseCgroup(t) ==
    /\ At(t, "parse")
    /\ UNCHANGED cacheVars
    /\ LET k == View(call[t]).key IN
         \/ k = NoKey /\ Finish(t, NoKey)
         \/ /\ k # NoKey
            /\ key' = [key EXCEPT ![t] = k]
            /\ GoTo(t, "verify")
            /\ UNCHANGED <<cached, inode>>

\* Mutant: VerifyInode that only checks that there still is a process.
VerifyAlive(t) ==
    /\ At(t, "verify")
    /\ UNCHANGED cacheVars
    /\ \/ proc[call[t]] = 0 /\ Finish(t, NoKey)
       \/ /\ proc[call[t]] # 0
          /\ GoTo(t, "publish")
          /\ UNCHANGED <<cached, inode, key>>

\* Stat again: the pid must still be the process that was statted first.
VerifyInode(t) ==
    /\ At(t, "verify")
    /\ UNCHANGED cacheVars
    /\ \/ proc[call[t]] # inode[t] /\ Finish(t, NoKey)
       \/ /\ proc[call[t]] = inode[t]
          /\ GoTo(t, "publish")
          /\ UNCHANGED <<cached, inode, key>>

\* Publish under m.mu, unless another caller has cached this very process.
Publish(t) ==
    /\ At(t, "publish")
    /\ LET current == pidToContainer[call[t]] IN
         \/ /\ current # NoEntry
            /\ current.inode = inode[t]
            /\ UNCHANGED cacheVars
            /\ Finish(t, current.key)
         \/ /\ current = NoEntry \/ current.inode # inode[t]
            /\ Replace(call[t], key[t], inode[t])
            /\ Finish(t, key[t])

KernelStep == Observe /\ UNCHANGED <<cacheVars, localVars>>

CallerStep(t) ==
    \/ StatCached(t)
    \/ EvictStale(t)
    \/ StatProcess(t)
    \/ ParseCgroup(t)
    \/ VerifyInode(t)
    \/ Publish(t)

Next ==
    \/ KernelStep
    \/ \E t \in Callers : (\E p \in Pids : ReadCache(t, p)) \/ CallerStep(t)
    \/ \E ks \in SUBSET Keys : RemoveContainerKeys(ks)
    \/ Clear

Spec == Init /\ [][Next]_vars

\* A call runs to its end, and the collector asks about every running pid
\* again and again (metrics.go polls NVML on a ticker).
Fairness ==
    \A t \in Callers :
        /\ WF_vars(CallerStep(t))
        /\ \A p \in Pids : SF_vars(ReadCache(t, p))

FairSpec == Spec /\ Fairness

-----------------------------------------------------------------------------
(* Properties.                                                              *)

\* The forward map and the reverse index are two views of one relation: a pid is
\* indexed under exactly the container it is cached for, so that removing a
\* container's pids (purge) leaves no entry behind and touches no other container.
IndexesAgree ==
    \A p \in Pids, k \in Keys :
        p \in containerToPids[k] <=> pidToContainer[p].key = k

\* Removing containers forgets every pid cached for one of them and no other, although it
\* finds them through the reverse index alone (purge hands RemoveContainerKeys what it
\* expired; the pids of other containers may be in the middle of a call).
RemovalIsExact ==
    [][\A ks \in SUBSET Keys :
          RemoveContainerKeys(ks) =>
             pidToContainer' =
                [p \in Pids |-> IF pidToContainer[p].key \in ks THEN NoEntry ELSE pidToContainer[p]]]_vars

\* A cached entry names the container the process with that inode really runs in,
\* however the pid was reused, the inode re-created or the cache emptied between
\* the first stat, the cgroup read, the second stat and the publication.
CacheTrue ==
    \A p \in Pids :
        pidToContainer[p] # NoEntry =>
            /\ pidToContainer[p].inode <= lastInode
            /\ cgroup[pidToContainer[p].inode] = pidToContainer[p].key

\* GetContainerKey implements the service: no answer ever attributes a pid to a
\* container it was not in at some moment of the call, and no call fails unless
\* /proc gave a reason to (mapper.go:40-83 against the interleavings).
ImplementsService == [][ServiceNext]_serviceVars

\* A pid that has settled as one process of one container is reported for that
\* container over and over, whatever stale entry the cache held for it before.
SettledPidIsMapped ==
    \A p \in Pids, i \in Inodes, k \in Keys :
        <>[](proc[p] = i /\ cgroup[i] = k) =>
            \A t \in Callers : []<>(result[t] = [pid |-> p, key |-> k])
=============================================================================
