------------------------- MODULE ContainerLifecycle -------------------------
(***************************************************************************)
(* What the store promises about every container it tracks, whatever pods,  *)
(* informer and sweeper do: it is tracked, then finished at one time that   *)
(* never changes, then forgotten, not before TTL after that time.           *)
(***************************************************************************)
EXTENDS Naturals

CONSTANTS Keys, TTL

VARIABLES
    now,    \* the clock
    life    \* life[k]: whether k is tracked, and when it finished

Absent == [status |-> "absent", at |-> 0]
Running == [status |-> "running", at |-> 0]
Finished(t) == [status |-> "finished", at |-> t]

LifecycleInit ==
    /\ now = 1
    /\ life = [k \in Keys |-> Absent]

\* What one step may do to one container, from state a to state b at time t.
MayBecome(a, b, t) ==
    \/ b = a
    \/ a = Absent /\ b = Running
    \/ a \in {Absent, Running} /\ b.status = "finished" /\ b.at # 0
    \/ a.status = "finished" /\ b = Absent /\ a.at + TTL <= t

LifecycleNext ==
    /\ now' \in {now, now + 1}
    /\ \A k \in Keys : MayBecome(life[k], life'[k], now)

LifecycleSpec == LifecycleInit /\ [][LifecycleNext]_<<now, life>>

\* Every finished container is forgotten in the end.
Forgotten == \A k \in Keys : life[k].status = "finished" ~> life[k].status = "absent"
=============================================================================
