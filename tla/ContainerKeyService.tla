------------------------- MODULE ContainerKeyService -------------------------
(***************************************************************************)
(* What a caller of Mapper.GetContainerKey may rely on, with no cache in    *)
(* sight: while a call for a pid is in progress /proc shows a sequence of   *)
(* views of that pid; a call may answer with container k only if some view  *)
(* of the pid during the call was of a process in k, and may fail only if   *)
(* some view had no process or no container, or the pid changed hands.      *)
(***************************************************************************)
EXTENDS ProcFs

CONSTANTS
    Callers,    \* goroutines that call GetContainerKey
    NoPid       \* the pid of a caller that has no call in progress

ASSUME ServiceAssumption == NoPid \notin Pids

VARIABLES
    call,       \* call[t]: the pid t asks about, or NoPid
    seen,       \* seen[t]: the views of that pid since the call began
    result      \* result[t]: the last answer given to t

serviceVars == <<proc, cgroup, lastInode, call, seen, result>>

Results == [pid : Pids \cup {NoPid}, key : Keys \cup {NoKey}]

ServiceTypeOK ==
    /\ ProcTypeOK
    /\ call \in [Callers -> Pids \cup {NoPid}]
    /\ seen \in [Callers -> SUBSET Views]
    /\ result \in [Callers -> Results]

ServiceInit ==
    /\ ProcInit
    /\ call = [t \in Callers |-> NoPid]
    /\ seen = [t \in Callers |-> {}]
    /\ result = [t \in Callers |-> [pid |-> NoPid, key |-> NoKey]]

\* The answer k to call t is justified by what /proc showed during the call.
Justified(t, k) ==
    IF k = NoKey
    THEN \/ \E v \in seen[t] : v.key = NoKey
         \/ \E v, w \in seen[t] : v.inode # w.inode
    ELSE \E v \in seen[t] : v.key = k

-----------------------------------------------------------------------------
\* /proc changes; every call in progress for the pid concerned sees it.
Observe ==
    /\ ProcNext
    /\ UNCHANGED <<call, result>>
    /\ seen' = [t \in Callers |->
                  IF call[t] = NoPid THEN seen[t]
                  ELSE seen[t] \cup {View(call[t])'}]

Begin(t, p) ==
    /\ call[t] = NoPid
    /\ call' = [call EXCEPT ![t] = p]
    /\ seen' = [seen EXCEPT ![t] = {View(p)}]
    /\ UNCHANGED <<proc, cgroup, lastInode, result>>

\* Call t returns the answer k (NoKey: an error).
Return(t, k) ==
    /\ call[t] # NoPid
    /\ result' = [result EXCEPT ![t] = [pid |-> call[t], key |-> k]]
    /\ call' = [call EXCEPT ![t] = NoPid]
    /\ seen' = [seen EXCEPT ![t] = {}]
    /\ UNCHANGED <<proc, cgroup, lastInode>>

ServiceNext ==
    \/ Observe
    \/ \E t \in Callers :
         \/ \E p \in Pids : Begin(t, p)
         \/ \E k \in Keys \cup {NoKey} : Justified(t, k) /\ Return(t, k)

ServiceSpec == ServiceInit /\ [][ServiceNext]_serviceVars
=============================================================================
