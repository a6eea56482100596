------------------------------ MODULE MCSched ------------------------------
(* Instances of Sched for TLC.                                              *)
EXTENDS Sched, TLC

CONSTANTS c1, c2, a, b, x, ta, tb

TwoCpus == {c1, c2}
Tids == {a, b, x}
Tsk == a :> ta @@ b :> tb @@ x :> ta
\* a may run anywhere, b only on c1, x only on c2
Pinned == a :> TwoCpus @@ b :> {c1} @@ x :> {c2}

\* b kills the task of a, which sleeps, and x, which only computes
KillCalls == a :> {"sleep"} @@ b :> {"kill"} @@ x :> {}

\* With nothing to pull, SchedNext without PullTake
LiveNext == Pullable = {} /\ SchedNext
LiveSpec == SchedInit /\ [][LiveNext]_schedVars /\ SchedFairness
=============================================================================
