------------------------------- MODULE ProcFs -------------------------------
(***************************************************************************)
(* The host's /proc as pkg/process/mapper.go sees it through                *)
(* HostProcMountPoint: a directory per process, whose inode number the      *)
(* mapper compares, and a cgroup file, from which it reads the container.   *)
(* /proc is the kernel's: this module is external to the repository.        *)
(*                                                                          *)
(* An inode number is never given to two directories (MaxInode bounds how   *)
(* many directories a behaviour creates).  The inode of a live process may  *)
(* change: procfs drops and re-creates the directory's inode under memory   *)
(* pressure.  A process starts outside any container (the runtime forks it, *)
(* then moves it into the container's cgroup) and never leaves its          *)
(* container once it is there.                                              *)
(***************************************************************************)
EXTENDS Naturals

CONSTANTS
    Pids,       \* process identifiers, reused by the kernel
    Keys,       \* model.GpuContainerKey: (pod UID, container id)
    NoKey,      \* what a cgroup file that names no single container yields
    MaxInode    \* bound on the directories ever created under /proc

ASSUME ProcFsAssumption == NoKey \notin Keys /\ MaxInode \in Nat

VARIABLES
    proc,       \* proc[p]: inode of /proc/p, 0 when there is no process p
    cgroup,     \* cgroup[i]: the container of the process that has, or had, inode i
    lastInode   \* the last inode number handed out

procVars == <<proc, cgroup, lastInode>>

Inodes == 1 .. MaxInode

ProcTypeOK ==
    /\ proc \in [Pids -> 0 .. MaxInode]
    /\ cgroup \in [Inodes -> Keys \cup {NoKey}]
    /\ lastInode \in 0 .. MaxInode
    /\ \A p \in Pids : proc[p] <= lastInode

ProcInit ==
    /\ proc = [p \in Pids |-> 0]
    /\ cgroup = [i \in Inodes |-> NoKey]
    /\ lastInode = 0

-----------------------------------------------------------------------------
\* A directory with a fresh inode appears for pid p, for a process in container k.
NewDirectory(p, k) ==
    /\ lastInode < MaxInode
    /\ lastInode' = lastInode + 1
    /\ proc' = [proc EXCEPT ![p] = lastInode + 1]
    /\ cgroup' = [cgroup EXCEPT ![lastInode + 1] = k]

ProcessStarts(p) == proc[p] = 0 /\ NewDirectory(p, NoKey)

InodeRecreated(p) == proc[p] # 0 /\ NewDirectory(p, cgroup[proc[p]])

EntersContainer(p, k) ==
    /\ proc[p] # 0
    /\ cgroup[proc[p]] = NoKey
    /\ cgroup' = [cgroup EXCEPT ![proc[p]] = k]
    /\ UNCHANGED <<proc, lastInode>>

ProcessExits(p) ==
    /\ proc[p] # 0
    /\ proc' = [proc EXCEPT ![p] = 0]
    /\ UNCHANGED <<cgroup, lastInode>>

ProcStep(p) ==
    \/ ProcessStarts(p)
    \/ InodeRecreated(p)
    \/ \E k \in Keys : EntersContainer(p, k)
    \/ ProcessExits(p)

ProcNext == \E p \in Pids : ProcStep(p)

\* What reading /proc/p yields now: its inode and the container its cgroup names.
View(p) == [inode |-> proc[p],
            key   |-> IF proc[p] = 0 THEN NoKey ELSE cgroup[proc[p]]]

Views == [inode : 0 .. MaxInode, key : Keys \cup {NoKey}]
=============================================================================
