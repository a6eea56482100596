------------------------------- MODULE Eevdf -------------------------------
(***************************************************************************)
(* The choice of the next thread on one CPU: virtual runtime, deadlines,   *)
(* the wake-up credit and the quantum of kernel/sched.c.  Sched leaves the *)
(* order of the run queue open; this module fixes it, and shows that every *)
(* queued thread gets its turn.                                            *)
(*                                                                         *)
(* The code only adds to and compares virtual times, so they are kept      *)
(* relative to the queue's min_vruntime: whenever that rises, all others   *)
(* fall.  enqueue_seq grows with every insertion, so a new thread goes     *)
(* behind the threads with an equal deadline and eligible time.            *)
(***************************************************************************)
EXTENDS Integers, Sequences, FiniteSets

CONSTANTS
  EThreads,
  Weights,          \* the weights a thread may be given
  Weighted,         \* the weights the threads start with
  BaseWeightE,      \* SCHED_BASE_WEIGHT
  Slice,            \* SCHED_BASE_SLICE_TICKS
  Quantum,          \* SCHED_QUANTUM_TICKS
  WakeBonus,        \* SCHED_WAKE_BONUS_MAX_TICKS
  Ahead,            \* how far ahead a thread may come from another CPU
  AloneBound,       \* a thread that runs alone is charged at most this late
  LagBound,         \* a thread that is not queued lags at most this far
  Reweights,        \* how often policies change
  NoOne

ASSUME EevdfConstants ==
  /\ Weights \subseteq Nat \ {0} /\ Weighted \subseteq [EThreads -> Weights]
  /\ BaseWeightE \in Nat \ {0} /\ Slice \in Nat \ {0}
  /\ Quantum \in Nat \ {0} /\ WakeBonus \in Nat /\ Ahead \in Nat /\ AloneBound \in Nat
  /\ LagBound \in Nat /\ Reweights \in Nat /\ NoOne \notin EThreads

VARIABLES
  queue,     \* runq.head ...
  cur,       \* cpu->current, NoOne for the scheduler thread
  weight,
  vr,        \* vruntime - min_vruntime
  dl,        \* virtual_deadline - min_vruntime of a queued thread, else 0
  quantum,   \* quantum_left
  ran,       \* now - exec_start_tick
  slept,     \* now - blocked_since_tick of a blocked thread, up to WakeBonus
  handed,    \* the thread inside thread_handoff, while handoff_depth is 1
  changed    \* policy changes so far

eVars == <<queue, cur, weight, vr, dl, quantum, ran, slept, handed, changed>>

Queued == {queue[i] : i \in DOMAIN queue}
Blocked == EThreads \ (Queued \cup {cur})
Higher(a, b) == IF a > b THEN a ELSE b

-----------------------------------------------------------------------------
\* sched_scale_delta
Scaled(delta, w) == (delta * BaseWeightE + w - 1) \div w

\* sched_refresh_deadline
Deadline(v, w) == v + Higher(Scaled(Slice, w), 1)

\* runq_push: before the first thread that is not to go ahead.  A queued
\* thread's eligible time is its vruntime.
Push(q, t, v, d) ==
  LET ahead == {i \in DOMAIN q : dl[q[i]] < d \/ (dl[q[i]] = d /\ vr[q[i]] <= v)}
      n == CHOOSE k \in 0..Len(q) :
             /\ \A i \in 1..k : i \in ahead
             /\ k < Len(q) => (k + 1) \notin ahead
  IN SubSeq(q, 1, n) \o <<t>> \o SubSeq(q, n + 1, Len(q))

\* sched_prepare_enqueue_locked: not behind the queue, and a sleeper's credit
\* takes it at most back to min_vruntime
Entered(v, w, bonus) ==
  LET base == Higher(v, 0)
      credit == Scaled(bonus, w)
  IN IF bonus = 0 THEN base ELSE IF base > credit THEN base - credit ELSE 0

\* Mutant: a turn shorter than a tick costs nothing
Charge_Free(w) == IF ran = 0 THEN 0 ELSE Scaled(ran, w)

\* sched_account_runtime with charge_min, for a turn that ends now
Charge(w) == Scaled(Higher(ran, 1), w)

\* Virtual times once min_vruntime has risen by that much.  A thread that is
\* not queued and lags further than LagBound is one that lags just that much.
Rebased(rise) ==
  [u \in EThreads |-> IF u \in Queued THEN vr[u] - rise ELSE Higher(vr[u] - rise, -LagBound)]
Shifted(rise) == [u \in EThreads |-> IF u \in Queued THEN dl[u] - rise ELSE 0]

\* sched_account_runtime: the current thread is charged up to v, which raises
\* min_vruntime to it
Charged(v) ==
  LET rise == Higher(v, 0) IN
    /\ vr' = [Rebased(rise) EXCEPT ![cur] = Higher(v - rise, -LagBound)]
    /\ dl' = Shifted(rise)

\* ... and goes back to the queue without a credit
Requeued(v) ==
  LET rise == Higher(v, 0)
      enter == Entered(v - rise, weight[cur], 0)
      due == Deadline(enter, weight[cur])
  IN /\ queue' = Push(queue, cur, enter + rise, due + rise)
     /\ vr' = [Rebased(rise) EXCEPT ![cur] = enter]
     /\ dl' = [Shifted(rise) EXCEPT ![cur] = due]

-----------------------------------------------------------------------------
\* sched_run: runq_pop raises min_vruntime to the thread it takes
EDispatch ==
  /\ cur = NoOne /\ queue # <<>>
  /\ cur' = Head(queue)
  /\ queue' = Tail(queue)
  /\ quantum' = Quantum /\ ran' = 0
  /\ LET rise == Higher(vr[Head(queue)], 0) IN
       /\ vr' = Rebased(rise)
       /\ dl' = [Shifted(rise) EXCEPT ![Head(queue)] = 0]
  /\ handed' = IF handed = Head(queue) THEN NoOne ELSE handed
  /\ UNCHANGED <<weight, slept, changed>>

\* The blocked threads have slept one tick more
Longer ==
  [u \in EThreads |-> slept[u] + IF u \in Blocked /\ slept[u] < WakeBonus THEN 1 ELSE 0]


LastTick == quantum <= 1

\* One timer tick with the current thread running: sched_tick.  Alone on its
\* CPU it is not charged yet.
TickAlone ==
  /\ cur # NoOne /\ queue = <<>> /\ ran < AloneBound
  /\ ran' = ran + 1
  /\ slept' = Longer
  /\ UNCHANGED <<queue, cur, weight, vr, dl, quantum, handed, changed>>

TickShared ==
  LET v == vr[cur] + Scaled(ran + 1, weight[cur]) IN
    /\ cur # NoOne /\ queue # <<>>
    /\ slept' = Longer
    /\ ran' = 0
    /\ \/ /\ ~LastTick
          /\ quantum' = quantum - 1
          /\ Charged(v)
          /\ UNCHANGED <<queue, cur>>
       \/ /\ LastTick
          /\ quantum' = Quantum
          /\ Requeued(v)
          /\ cur' = NoOne
    /\ UNCHANGED <<weight, handed, changed>>

\* thread_yield
EYield ==
  /\ cur # NoOne
  /\ Requeued(vr[cur] + Charge(weight[cur]))
  /\ cur' = NoOne /\ ran' = 0
  /\ UNCHANGED <<weight, quantum, slept, handed, changed>>

\* thread_prepare_block and thread_sleep_ticks
EBlock ==
  LET v == vr[cur] + Charge(weight[cur]) IN
    /\ cur # NoOne
    /\ Charged(v)
    /\ slept' = [slept EXCEPT ![cur] = 0]
    /\ cur' = NoOne /\ ran' = 0
    /\ UNCHANGED <<queue, weight, quantum, handed, changed>>

\* thread_unblock, with the credit for the time it was away
EWake(t) ==
  LET v == Entered(vr[t], weight[t], slept[t])
      d == Deadline(v, weight[t])
  IN /\ t \in Blocked
     /\ queue' = Push(queue, t, v, d)
     /\ vr' = [vr EXCEPT ![t] = v]
     /\ dl' = [dl EXCEPT ![t] = d]
     /\ slept' = [slept EXCEPT ![t] = 0]
     /\ UNCHANGED <<cur, weight, quantum, ran, handed, changed>>

\* thread_handoff: the caller is queued, a blocked thread runs in its place
\* with the vruntime it has and a new quantum.  Inside a handoff, which lasts
\* until its caller runs again, it is only woken (EWake).
EHandoff(t) ==
  /\ cur # NoOne /\ t \in Blocked /\ handed = NoOne
  /\ handed' = cur
  /\ Requeued(vr[cur] + Charge(weight[cur]))
  /\ cur' = t /\ quantum' = Quantum /\ ran' = 0
  /\ slept' = [slept EXCEPT ![t] = 0]
  /\ UNCHANGED <<weight, changed>>

\* A blocked thread has run on another CPU, whose min_vruntime is ahead
EAway(t, v) ==
  /\ t \in Blocked /\ vr[t] < v
  /\ vr' = [vr EXCEPT ![t] = v]
  /\ UNCHANGED <<queue, cur, weight, dl, quantum, ran, slept, handed, changed>>

\* Mutant: the deadline of a queued thread is refreshed where it stands
Redue_Refresh(t, w) ==
  IF t \in Queued THEN [dl EXCEPT ![t] = Deadline(vr[t], w)] ELSE dl

Redue(t, w) == dl

\* sched_policy_set: a queued thread keeps its place and its deadline
EReweigh(t, w) ==
  /\ changed < Reweights /\ w # weight[t]
  /\ weight' = [weight EXCEPT ![t] = w]
  /\ changed' = changed + 1
  /\ dl' = Redue(t, w)
  /\ UNCHANGED <<queue, cur, vr, quantum, ran, slept, handed>>

EInit ==
  /\ weight \in Weighted
  /\ queue = <<>> /\ cur = NoOne
  /\ vr = [t \in EThreads |-> 0]
  /\ dl = [t \in EThreads |-> 0]
  /\ quantum = Quantum /\ ran = 0 /\ handed = NoOne /\ changed = 0
  /\ slept = [t \in EThreads |-> 0]

ETick == TickAlone \/ TickShared

ENext ==
  \/ EDispatch \/ ETick \/ EYield \/ EBlock
  \/ \E t \in EThreads : \/ EWake(t) \/ EHandoff(t)
                         \/ \E v \in 1..Ahead : EAway(t, v)
                         \/ \E w \in Weights : EReweigh(t, w)

\* The timer ticks, and the scheduler thread takes the next thread
ESpec == EInit /\ [][ENext]_eVars /\ WF_eVars(EDispatch) /\ WF_eVars(TickShared)

-----------------------------------------------------------------------------
(* Properties.                                                             *)

\* Every variable holds a value the code's types allow.
ETypeOK ==
  /\ queue \in Seq(EThreads) /\ cur \in EThreads \cup {NoOne}
  /\ weight \in [EThreads -> Weights]
  /\ vr \in [EThreads -> Int] /\ dl \in [EThreads -> Int]
  /\ quantum \in 1..Quantum /\ ran \in Nat

\* The queue is always in the order of deadlines, then of eligible times, and
\* has no thread twice, whatever policies changed under it.
QueueInOrder ==
  \A i, j \in DOMAIN queue : i < j =>
    /\ queue[i] # queue[j]
    /\ \/ dl[queue[i]] < dl[queue[j]]
       \/ dl[queue[i]] = dl[queue[j]] /\ vr[queue[i]] <= vr[queue[j]]

\* No thread waits for ever: neither heavier threads, nor sleepers with their
\* credit, nor handoffs that start a new quantum keep a queued thread from
\* getting the CPU.
QueuedRuns == \A t \in EThreads : t \in Queued ~> cur = t
=============================================================================
