---------------------------- MODULE SchedProofs ----------------------------
(***************************************************************************)
(* Where the calls of the scheduler may be, that none of its steps loses a *)
(* wake-up, and that no thread is queued or runs on a CPU outside its      *)
(* affinity, for any number of CPUs, threads and tasks.                    *)
(***************************************************************************)
EXTENDS Sched, TLAPS

\* Where a context works on another thread: its arg is that thread.
HoldsThread == {"place", "unblock", "enqueue", "handoff", "handover", "kcancel", "dispatch"}
\* Where a context of a thread is about to make another thread run.
WakeLabels == {"unblock", "enqueue", "handoff", "handover", "kcancel"}

\* The shape of the scheduler's tables; what their entries are is left to
\* the conjuncts below, as far as the proofs need it.
Domains ==
  /\ DOMAIN pc = Contexts /\ DOMAIN ret = Contexts
  /\ DOMAIN arg = Contexts /\ DOMAIN aux = Contexts
  /\ DOMAIN state = Threads /\ DOMAIN current = Cpus /\ DOMAIN runq = Cpus
  /\ DOMAIN members = Tasks

\* Run queues, task lists, the sleep list and the thread a call works on hold
\* threads, never a CPU's scheduler thread or nothing.
Handled ==
  /\ \A c \in Cpus : runq[c] \subseteq Threads
  /\ \A k \in Tasks : members[k] \subseteq Threads
  /\ sleepers \subseteq Threads /\ expired \subseteq Threads
  /\ \A x \in Contexts : pc[x] \in HoldsThread => arg[x] \in Threads

\* Where each call of the scheduler goes back to: no return leads into the
\* middle of a receive except the return from the switch made in it.
Returns ==
  \A x \in Contexts :
    /\ pc[x] = "out" => ret[x] \in {"user", "rwake"}
    /\ pc[x] = "place" => ret[x] = "user"
    /\ pc[x] \in {"unblock", "enqueue"} => ret[x] \in {"user", "sent", "exit", "kscan", "irq"}
    /\ pc[x] \in {"handoff", "handover", "handback"} => ret[x] = "sent"
    /\ pc[x] \in {"kscan", "kcancel"} => aux[x] \in Tasks
    /\ pc[x] \in {"unblock", "enqueue"} /\ ret[x] = "kscan" => aux[x] \in Tasks

\* A thread in the middle of waking another one holds a CPU: calls run with
\* interrupts off, so nothing takes the CPU away before the wake-up is done.
OnCpu ==
  \A t \in Threads : pc[t] \in WakeLabels => \E c \in Cpus : current[c] = t

\* The timer interrupt ends with its private list of expired sleepers empty.
IrqClean == pc[Irq] = "off" => expired = {}

\* The places of the scheduler's calls: inductive for every step of the
\* scheduler, whatever runs beside it.
Places == Domains /\ Handled /\ Returns /\ OnCpu /\ IrqClean

\* Thread t is in a receive it has registered for: about to look again, or
\* switched away with the receive to return to.
Inside(t) == pc[t] = "rwake" \/ (pc[t] = "out" /\ ret[t] = "rwake")

\* Something already under way will wake t: a deadline or a pending call.
Awaited(t) == t \in sleepers \cup expired \/ WakePending(t)

\* What a step may do to the wake-ups of u: nobody else puts u in a receive,
\* and a step that leaves u blocked leaves something to wake it, unless u was
\* blocked before with nothing under way and stays in its receive.
WakesKept(u) ==
  /\ Inside(u)' => Inside(u)
  /\ state'[u] = "BLOCKED" =>
       \/ Awaited(u)'
       \/ state[u] = "BLOCKED" /\ ~Awaited(u) /\ (Inside(u) => Inside(u)')

\* A step that loses no wake-up.
WakeStep == \A u \in Threads : WakesKept(u)

\* sched_run and sched_idle_loop keep the places and lose no wake-up.
LEMMA WakeScheduler ==
  ASSUME Places, NEW cpu \in Cpus, SchedulerStep(cpu)
  PROVE  Places' /\ WakeStep
  <1>RunPop. ASSUME NEW c \in Cpus, RunPop(c) PROVE Places' /\ WakeStep
    <2>1. Domains'
      BY ZenonT(30), <1>RunPop DEF RunPop, Dequeue, Places, Domains, Goto
    <2>2. Handled'
      BY <1>RunPop DEF RunPop, Dequeue, Places, Domains, Goto, Handled, HoldsThread
    <2>3. Returns'
      BY <1>RunPop DEF RunPop, Places, Domains, Goto, Returns, OnCpu
    <2>4. OnCpu' /\ IrqClean'
      BY <1>RunPop, SchedConstants DEF RunPop, Contexts, Places, Domains, Goto, OnCpu, IrqClean
    <2>5. WakeStep
      BY <1>RunPop DEF RunPop, SchedAt, WakeStep, WakesKept, Awaited, WakePending, Inside,
         Contexts, Places, Domains, Executes, Goto, Handled, Returns
    <2> QED
      BY ZenonT(30), <2>1, <2>2, <2>3, <2>4, <2>5 DEF Places
  <1>PullScan. ASSUME NEW c \in Cpus, PullScan(c) PROVE Places' /\ WakeStep
    <2>1. Domains'
      BY ZenonT(30), <1>PullScan DEF PullScan, Places, Domains, Goto
    <2>2. Handled'
      BY ZenonT(30), <1>PullScan DEF PullScan, Places, Domains, Goto, Handled, HoldsThread
    <2>3. Returns'
      BY ZenonT(30), <1>PullScan DEF PullScan, Places, Domains, Goto, Returns
    <2>4. OnCpu' /\ IrqClean'
      BY <1>PullScan, SchedConstants DEF PullScan, Contexts, Places, Domains, Goto, OnCpu,
         IrqClean
    <2>5. WakeStep
      BY ZenonT(30), <1>PullScan DEF PullScan, SchedAt, WakeStep, WakesKept, Awaited, WakePending,
         Inside, Contexts, Places, Domains, Goto
    <2> QED
      BY ZenonT(30), <2>1, <2>2, <2>3, <2>4, <2>5 DEF Places
  <1>PullTake. ASSUME NEW c \in Cpus, PullTake(c) PROVE Places' /\ WakeStep
    <2>1. Places'
      BY <1>PullTake, SchedConstants DEF PullTake, Dequeue, Eligible, Contexts, Places, Domains,
         Goto, Handled, Returns, OnCpu, IrqClean, HoldsThread
    <2>2. WakeStep
      BY <1>PullTake DEF PullTake, SchedAt, WakeStep, WakesKept, Awaited, WakePending, Inside,
         Contexts, Places, Domains, Goto
    <2> QED
      BY ZenonT(30), <2>1, <2>2
  <1>Dispatch. ASSUME NEW c \in Cpus, Dispatch(c) PROVE Places' /\ WakeStep
    <2>1. Domains'
      BY ZenonT(30), <1>Dispatch DEF Dispatch, Vanish, ReapEffect, Places, Domains, Goto
    <2>2. Handled'
      BY <1>Dispatch DEF Dispatch, Vanish, ReapEffect, Places, Domains, Goto, Handled, Returns,
         HoldsThread
    <2>3. Returns'
      BY ZenonT(30), <1>Dispatch DEF Dispatch, Vanish, Places, Domains, Goto, Returns
    <2>4. OnCpu' /\ IrqClean'
      BY <1>Dispatch, SchedConstants DEF Dispatch, SchedAt, Vanish, Contexts, Places, Domains,
         Executes, Goto, OnCpu, IrqClean, WakeLabels
    <2>5. WakeStep
      BY <1>Dispatch DEF Dispatch, SchedAt, Vanish, WakeStep, WakesKept, Awaited, WakePending,
         Inside, Contexts, Places, Domains, Goto, Handled, OnCpu, HoldsThread, WakeLabels
    <2> QED
      BY ZenonT(30), <2>1, <2>2, <2>3, <2>4, <2>5 DEF Places
  <1>AfterSwitch. ASSUME NEW c \in Cpus, AfterSwitch(c) PROVE Places' /\ WakeStep
    <2>1. Domains'
      BY ZenonT(30), <1>AfterSwitch DEF AfterSwitch, ReapSlot, ReapEffect, Places, Domains, Goto
    <2>2. Handled'
      BY <1>AfterSwitch DEF AfterSwitch, ReapSlot, ReapEffect, Places, Domains, Goto, Handled,
         HoldsThread
    <2>3. Returns'
      BY SMTT(30), <1>AfterSwitch DEF AfterSwitch, Places, Goto, Handled, Returns
    <2>4. OnCpu' /\ IrqClean'
      BY <1>AfterSwitch, SchedConstants DEF AfterSwitch, Places, Goto, OnCpu, IrqClean
    <2>5. WakeStep
      BY SMTT(30), <1>AfterSwitch DEF AfterSwitch, SchedAt, ReapSlot, WakeStep, WakesKept,
         Awaited, WakePending, Inside, Places, Domains, Goto
    <2> QED
      BY ZenonT(30), <2>1, <2>2, <2>3, <2>4, <2>5 DEF Places
  <1>IdleWait. ASSUME NEW c \in Cpus, IdleWait(c) PROVE Places' /\ WakeStep
    <2>1. Places'
      BY <1>IdleWait, SchedConstants DEF IdleWait, Places, Domains, Goto, Handled, Returns,
         OnCpu, IrqClean, HoldsThread
    <2>2. WakeStep
      BY <1>IdleWait DEF IdleWait, SchedAt, WakeStep, WakesKept, Awaited, WakePending, Inside,
         Goto
    <2> QED
      BY ZenonT(30), <2>1, <2>2
  <1>Halt. ASSUME NEW c \in Cpus, Halt(c) PROVE Places' /\ WakeStep
    <2>1. Places'
      BY <1>Halt, SchedConstants DEF Halt, Places, Domains, Goto, Handled, Returns, OnCpu,
         IrqClean, HoldsThread
    <2>2. WakeStep
      BY SMTT(30), <1>Halt DEF Halt, SchedAt, WakeStep, WakesKept, Awaited, WakePending,
         Inside, Goto
    <2> QED
      BY ZenonT(30), <2>1, <2>2
  <1>Wake. ASSUME NEW c \in Cpus, Wake(c) PROVE Places' /\ WakeStep
    <2>1. Places'
      BY <1>Wake, SchedConstants DEF Wake, Places, Domains, Goto, Handled, Returns, OnCpu,
         IrqClean, HoldsThread
    <2>2. WakeStep
      BY <1>Wake DEF Wake, SchedAt, WakeStep, WakesKept, Awaited, WakePending, Inside, Goto
    <2> QED
      BY ZenonT(30), <2>1, <2>2
  <1>TakeIpi. ASSUME NEW c \in Cpus, TakeIpi(c) PROVE Places' /\ WakeStep
    <2>1. Places'
      BY ZenonT(30), <1>TakeIpi DEF TakeIpi, Places, Domains, Handled, Returns, OnCpu, IrqClean
    <2>2. WakeStep
      BY ZenonT(30), <1>TakeIpi DEF TakeIpi, WakeStep, WakesKept, Awaited, WakePending, Inside
    <2> QED
      BY ZenonT(30), <2>1, <2>2
  <1> QED
    BY ZenonT(30), <1>RunPop, <1>PullScan, <1>PullTake, <1>Dispatch, <1>AfterSwitch, <1>IdleWait, <1>Halt,
       <1>Wake, <1>TakeIpi DEF SchedulerStep

\* The requests of a running thread (yield, sleep, create, kill, exit) keep the
\* places and lose no wake-up: a thread that blocks in a sleep is on the list.
LEMMA WakeRequest ==
  ASSUME Places, NEW cpu \in Cpus, ThreadRequest(cpu)
  PROVE  Places' /\ WakeStep
  <1>YieldOrPreempt. ASSUME NEW c \in Cpus, NEW t \in Threads, YieldOrPreempt(c, t)
                     PROVE Places' /\ WakeStep
    <2>1. Places'
      BY SMTT(30), <1>YieldOrPreempt, SchedConstants DEF YieldOrPreempt, ThreadAt, EnqueueOn,
         Places, Domains, Executes, Goto, Handled, Returns, OnCpu, IrqClean, HoldsThread
    <2>2. WakeStep
      BY <1>YieldOrPreempt DEF YieldOrPreempt, ThreadAt, EnqueueOn, WakeStep, WakesKept, Awaited,
         WakePending, Inside, Places, Domains, Goto
    <2> QED
      BY ZenonT(30), <2>1, <2>2
  <1>ThreadSleep. ASSUME NEW c \in Cpus, NEW t \in Threads, ThreadSleep(c, t)
                  PROVE Places' /\ WakeStep
    <2>1. Places'
      BY <1>ThreadSleep, SchedConstants DEF ThreadSleep, ThreadAt, Places, Domains, Executes,
         Goto, Handled, Returns, OnCpu, IrqClean, HoldsThread
    <2>2. WakeStep
      BY <1>ThreadSleep DEF ThreadSleep, ThreadAt, WakeStep, WakesKept, Awaited, WakePending,
         Inside, Places, Domains, Goto, IrqClean, HoldsThread
    <2> QED
      BY ZenonT(30), <2>1, <2>2
  <1>ThreadCreate. ASSUME NEW c \in Cpus, NEW t \in Threads, NEW u \in Threads, ThreadCreate(c,
     t, u)
                   PROVE Places' /\ WakeStep
    <2>1. Places'
      BY <1>ThreadCreate DEF ThreadCreate, ThreadAt, Contexts, Places, Domains, Handled, Returns,
         OnCpu, IrqClean, HoldsThread, WakeLabels
    <2>2. WakeStep
      BY ZenonT(30), <1>ThreadCreate DEF ThreadCreate, ThreadAt, WakeStep, WakesKept, Awaited, WakePending,
         Inside, Contexts, Places, Domains
    <2> QED
      BY ZenonT(30), <2>1, <2>2
  <1>KillStart. ASSUME NEW c \in Cpus, NEW t \in Threads, NEW k \in Tasks, KillStart(c, t, k)
                PROVE Places' /\ WakeStep
    <2>1. Places'
      BY <1>KillStart, SchedConstants DEF KillStart, ThreadAt, Places, Domains, Executes, Goto,
         Handled, Returns, OnCpu, IrqClean, HoldsThread
    <2>2. WakeStep
      BY SMTT(30), <1>KillStart DEF KillStart, ThreadAt, WakeStep, WakesKept, Awaited,
         WakePending, Inside,
         Goto
    <2> QED
      BY ZenonT(30), <2>1, <2>2
  <1>ThreadExit. ASSUME NEW c \in Cpus, NEW t \in Threads, ThreadExit(c, t)
                 PROVE Places' /\ WakeStep
    <2>1. Places'
      BY SMTT(30), <1>ThreadExit, SchedConstants DEF ThreadExit, ThreadAt, ExitEffect, Places,
         Domains, Executes, Goto, Handled, Returns, OnCpu, IrqClean, HoldsThread, WakeLabels
    <2>2. WakeStep
      BY <1>ThreadExit DEF ThreadExit, ThreadAt, ExitEffect, WakeStep, WakesKept, Awaited,
         WakePending, Inside, Goto
    <2> QED
      BY ZenonT(30), <2>1, <2>2
  <1> QED
    BY ZenonT(30), <1>YieldOrPreempt, <1>ThreadSleep, <1>ThreadCreate, <1>KillStart,
       <1>ThreadExit, SchedConstants DEF ThreadRequest

\* The calls under way (switch, thread_unblock, the placing of a new thread,
\* task_kill's scans) keep the places; thread_unblock drops its thread only
\* after making it ready or seeing that it is not blocked.
LEMMA WakeCall ==
  ASSUME Places, NEW cpu \in Cpus, CallStep(cpu)
  PROVE  Places' /\ WakeStep
  <1>SwitchOut. ASSUME NEW c \in Cpus, NEW t \in Threads, SwitchOut(c, t)
                PROVE Places' /\ WakeStep
    <2>1. Places'
      BY SMTT(30), <1>SwitchOut, SchedConstants DEF SwitchOut, ThreadAt, Places, Domains,
         Executes, Goto, Handled, Returns, OnCpu, IrqClean, HoldsThread, WakeLabels
    <2>2. WakeStep
      BY SMTT(30), <1>SwitchOut DEF SwitchOut, ThreadAt, WakeStep, WakesKept, Awaited,
         WakePending, Inside,
         Goto
    <2> QED
      BY ZenonT(30), <2>1, <2>2
  <1>PlaceNew. ASSUME NEW c \in Cpus, NEW t \in Threads, PlaceNew(c, t)
               PROVE Places' /\ WakeStep
    <2>1. Places'
      BY SMTT(30), <1>PlaceNew, SchedConstants DEF PlaceNew, ThreadAt, EnqueueOn, Contexts,
         Places,
         Domains, Executes, Goto, Handled, Returns, OnCpu, IrqClean, HoldsThread
    <2>2. WakeStep
      BY <1>PlaceNew DEF PlaceNew, ThreadAt, EnqueueOn, WakeStep, WakesKept, Awaited,
         WakePending, Inside, Contexts, Places, Goto, Returns
    <2> QED
      BY ZenonT(30), <2>1, <2>2
  <1>KillScan. ASSUME NEW c \in Cpus, NEW t \in Threads, KillScan(c, t)
               PROVE Places' /\ WakeStep
    <2>1. Domains'
      BY ZenonT(30), <1>KillScan DEF KillScan, Places, Domains, Goto
    <2>2. Handled'
      BY SMTT(30), <1>KillScan DEF KillScan, ThreadAt, Places, Domains, Goto, Handled, Returns,
         IrqClean,
         HoldsThread
    <2>3. Returns'
      BY SMTT(30), <1>KillScan DEF KillScan, ThreadAt, Places, Domains, Goto, Returns
    <2>4. OnCpu' /\ IrqClean'
      BY SMTT(30), <1>KillScan, SchedConstants DEF KillScan, ThreadAt, Contexts, Places,
         Domains, Executes,
         Goto, OnCpu, IrqClean
    <2>5. WakeStep
      BY <1>KillScan DEF KillScan, ThreadAt, WakeStep, WakesKept, Awaited, WakePending, Inside,
         Contexts, Places, Domains, Goto
    <2> QED
      BY ZenonT(30), <2>1, <2>2, <2>3, <2>4, <2>5 DEF Places
  <1>KillReady. ASSUME NEW c \in Cpus, NEW t \in Threads, KillReady(c, t)
                PROVE Places' /\ WakeStep
    <2>1. Domains'
      BY ZenonT(30), <1>KillReady DEF KillReady, Vanish, ReapEffect, Dequeue, Places, Domains,
         Goto
    <2>2. Handled'
      BY SMTT(30), <1>KillReady DEF KillReady, Vanish, ReapEffect, Dequeue, Places, Domains,
         Goto, Handled, OnCpu, HoldsThread
    <2>3. Returns'
      BY SMTT(30), <1>KillReady DEF KillReady, Vanish, Places, Domains, Goto, Handled, Returns
    <2>4. OnCpu' /\ IrqClean'
      BY SMTT(30), <1>KillReady DEF KillReady, Vanish, Contexts, Places, Domains, Goto, OnCpu,
         IrqClean, WakeLabels
    <2>5. WakeStep
      BY <1>KillReady DEF KillReady, ThreadAt, Vanish, WakeStep, WakesKept, Awaited, WakePending,
         Inside, Contexts, Places, Domains, Goto, Handled, OnCpu, WakeLabels
    <2> QED
      BY ZenonT(30), <2>1, <2>2, <2>3, <2>4, <2>5 DEF Places
  <1>UnblockCheck. ASSUME NEW c \in Cpus, NEW x \in Contexts, UnblockCheck(c, x)
                   PROVE Places' /\ WakeStep
    <2>1. Places'
      BY SMTT(30), <1>UnblockCheck, SchedConstants DEF UnblockCheck, ContextAt, Contexts,
         Places, Domains,
         Executes, Goto, Handled, Returns, OnCpu, IrqClean, HoldsThread
    <2>2. WakeStep
      BY SMTT(30), <1>UnblockCheck DEF UnblockCheck, ContextAt, NeedsWake, WakeStep, WakesKept,
         Awaited, WakePending, Inside, Contexts, Places, Domains, Goto, Returns, IrqClean
    <2> QED
      BY ZenonT(30), <2>1, <2>2
  <1>UnblockEnqueue. ASSUME NEW c \in Cpus, NEW x \in Contexts, UnblockEnqueue(c, x)
                     PROVE Places' /\ WakeStep
    <2>1. PICK u \in Threads : u = arg[x]
      BY ZenonT(30), <1>UnblockEnqueue DEF UnblockEnqueue, ContextAt, Places, Handled, HoldsThread
    <2>2. PICK d \in EnqueueCpus(WakeOn(c, u), u) :
            /\ state' = [state EXCEPT ![u] = "READY"]
            /\ runq' = [runq EXCEPT ![d] = @ \cup {u}]
      BY ZenonT(30), <1>UnblockEnqueue, <2>1 DEF UnblockEnqueue, EnqueueOn
    <2>3. /\ pc[x] = "enqueue" /\ pc' = [pc EXCEPT ![x] = ret[x]]
          /\ arg' = [arg EXCEPT ![x] = NoThread]
          /\ UNCHANGED <<current, sleepers, expired, members, ret, aux>>
      BY ZenonT(30), <1>UnblockEnqueue DEF UnblockEnqueue, ContextAt, Goto
    <2>4. Places'
      BY SMTT(30), <2>1, <2>2, <2>3 DEF Places, Domains, Goto, Handled, Returns, OnCpu, IrqClean,
         HoldsThread, WakeLabels
    <2>5. WakeStep
      BY <2>1, <2>2, <2>3 DEF WakeStep, WakesKept, Awaited, WakePending, Inside, Places, Domains,
         Returns, HoldsThread
    <2> QED
      BY ZenonT(30), <2>4, <2>5
  <1> QED
    BY ZenonT(30), <1>SwitchOut, <1>PlaceNew, <1>KillScan, <1>KillReady, <1>UnblockCheck,
       <1>UnblockEnqueue DEF CallStep

\* sched_wake_sleepers keeps the places: a sleeper leaves the private list only
\* for a thread_unblock of it.
LEMMA WakeIrq ==
  ASSUME Places, IrqStep
  PROVE  Places' /\ WakeStep
  <1>IrqStart. ASSUME NEW S \in SUBSET sleepers, IrqStart(S) PROVE Places' /\ WakeStep
    <2>1. /\ pc[Irq] = "off" /\ pc' = [pc EXCEPT ![Irq] = "irq"]
          /\ sleepers' = sleepers \ S /\ expired' = S
          /\ UNCHANGED <<state, runq, current, members, ret, arg, aux>>
      BY ZenonT(30), <1>IrqStart DEF IrqStart, PrivateList, Goto
    <2>2. Domains' /\ Handled'
      BY ZenonT(30), <1>IrqStart, <2>1 DEF Places, Domains, Handled, HoldsThread
    <2>3. Returns' /\ OnCpu' /\ IrqClean'
      BY SMTT(30), <2>1, SchedConstants DEF Contexts, Places, Domains, Returns, OnCpu,
         IrqClean, WakeLabels
    <2>4. WakeStep
      BY ZenonT(30), <1>IrqStart, <2>1 DEF WakeStep, WakesKept, Awaited, WakePending, Inside,
         Contexts, Places, Domains, IrqClean
    <2> QED
      BY ZenonT(30), <2>2, <2>3, <2>4 DEF Places
  <1>IrqNext. ASSUME IrqNext PROVE Places' /\ WakeStep
    <2>0. /\ pc[Irq] = "irq"
          /\ UNCHANGED <<state, runq, current, sleepers, members, aux>>
      BY ZenonT(30), <1>IrqNext DEF IrqNext
    <2>1. ASSUME NEW t \in expired, expired' = expired \ {t},
                 arg' = [arg EXCEPT ![Irq] = t], ret' = [ret EXCEPT ![Irq] = "irq"],
                 pc' = [pc EXCEPT ![Irq] = "unblock"]
          PROVE  Places' /\ WakeStep
      <3>1. Domains' /\ Handled'
        BY ZenonT(30), <2>0, <2>1 DEF Places, Domains, Handled, HoldsThread
      <3>2. Returns' /\ OnCpu' /\ IrqClean'
        BY SMTT(30), <2>0, <2>1, SchedConstants
           DEF Contexts, Places, Domains, Returns, OnCpu, IrqClean, WakeLabels
      <3>3. WakeStep
        BY ZenonT(30), <2>0, <2>1 DEF WakeStep, WakesKept, Awaited, WakePending, Inside,
           Contexts, Places, Domains
      <3> QED
        BY ZenonT(30), <3>1, <3>2, <3>3 DEF Places
    <2>2. ASSUME expired = {}, UNCHANGED <<expired, arg, ret>>, DOMAIN pc' = Contexts,
                 pc'[Irq] = "off",
                 \A x \in Contexts : x # Irq =>
                          pc'[x] = pc[x] \/ (pc[x] = "hlt" /\ pc'[x] = "run")
          PROVE  Places' /\ WakeStep
      <3>1. Domains' /\ Handled'
        BY ZenonT(30), <2>0, <2>2 DEF Places, Domains, Handled, HoldsThread
      <3>2. Returns' /\ OnCpu' /\ IrqClean'
        BY SMTT(30), <2>0, <2>2 DEF Contexts, Places, Domains, Returns, OnCpu, IrqClean,
           WakeLabels
      <3>3. WakeStep
        BY ZenonT(30), <2>0, <2>2, SchedConstants DEF WakeStep, WakesKept, Awaited,
           WakePending, Inside, Contexts
      <3> QED
        BY ZenonT(30), <3>1, <3>2, <3>3 DEF Places
    <2>3. CASE \E t \in expired : /\ expired' = expired \ {t}
                                  /\ arg' = [arg EXCEPT ![Irq] = t]
                                  /\ ret' = [ret EXCEPT ![Irq] = "irq"]
                                  /\ Goto(Irq, "unblock")
      BY ZenonT(30), <2>1, <2>3 DEF Goto
    <2>4. CASE /\ expired = {}
               /\ pc' = [pc EXCEPT ![Irq] = "off",
                            ![BootCpu] = IF current[BootCpu] = BootCpu /\ @ = "hlt"
                                         THEN "run" ELSE @]
               /\ UNCHANGED <<expired, arg, ret>>
      <3>1. DOMAIN pc' = Contexts /\ pc'[Irq] = "off"
        BY ZenonT(30), <2>4, SchedConstants DEF Places, Domains, Contexts
      <3>2. \A x \in Contexts : x # Irq =>
                       pc'[x] = pc[x] \/ (pc[x] = "hlt" /\ pc'[x] = "run")
        BY ZenonT(30), <2>4, SchedConstants DEF Places, Domains, Contexts
      <3> QED
        BY ZenonT(30), <2>2, <2>4, <3>1, <3>2
    <2> QED
      BY ZenonT(30), <1>IrqNext, <2>3, <2>4 DEF IrqNext
  <1> QED
    BY ZenonT(30), <1>IrqStart, <1>IrqNext DEF IrqStep

\* task_kill takes a thread off the sleep list only to unblock it at once.
LEMMA WakeCancel ==
  ASSUME Places, NEW cpu \in Cpus, NEW thr \in Threads, KillCancel(cpu, thr)
  PROVE  Places' /\ WakeStep
  <1>KillCancel. ASSUME NEW c \in Cpus, NEW t \in Threads, KillCancel(c, t)
                 PROVE Places' /\ WakeStep
    <2>1. /\ pc[t] = "kcancel" /\ pc' = [pc EXCEPT ![t] = "unblock"]
          /\ ret' = [ret EXCEPT ![t] = "kscan"] /\ sleepers' = sleepers \ {arg[t]}
          /\ UNCHANGED <<state, runq, current, expired, members, arg, aux>>
      BY ZenonT(30), <1>KillCancel DEF KillCancel, ThreadAt, Goto
    <2>2. Domains' /\ Handled' /\ IrqClean'
      BY <2>1 DEF Places, Domains, Handled, IrqClean, HoldsThread
    <2>3. Returns' /\ OnCpu'
      BY SMTT(30), <2>1 DEF Places, Domains, Returns, OnCpu, WakeLabels
    <2>4. WakeStep
      BY <2>1, <1>KillCancel DEF WakeStep, WakesKept, Awaited, WakePending, Inside, Contexts
    <2> QED
      BY ZenonT(30), <2>2, <2>3, <2>4 DEF Places
  <1> QED
    BY ZenonT(30), <1>KillCancel

\* The machine starts with every context at its place.
LEMMA PlacesInit == SchedInit => Places
  <1> SUFFICES ASSUME SchedInit PROVE Places
    BY ZenonT(30)
  <1> USE SchedConstants DEF SchedInit, Contexts
  <1>1. Domains
    BY ZenonT(30) DEF Domains
  <1>2. Handled
    BY ZenonT(30) DEF Handled, HoldsThread
  <1>3. Returns
    BY ZenonT(30) DEF Returns
  <1>4. OnCpu /\ IrqClean
    BY ZenonT(30) DEF OnCpu, WakeLabels, IrqClean
  <1> QED
    BY ZenonT(30), <1>1, <1>2, <1>3, <1>4 DEF Places

\* Every thread blocked in thread_sleep is on the sleep list, on the private
\* list of a timer interrupt, or being woken by somebody: no interleaving of the
\* tick, kill and wake-ups on any number of CPUs loses the wake-up.
THEOREM SleepersSafe == SchedSpec => []SleeperWillBeWoken
  <1>1. SchedInit => Places /\ SleeperWillBeWoken
    BY ZenonT(30), PlacesInit DEF SchedInit, SleeperWillBeWoken
  <1>2. Places /\ SleeperWillBeWoken /\ [SchedNext]_schedVars => (Places /\ SleeperWillBeWoken)'
    <2> SUFFICES ASSUME Places, SleeperWillBeWoken, [SchedNext]_schedVars
                 PROVE  (Places /\ SleeperWillBeWoken)'
      BY ZenonT(30)
    <2>1. CASE SchedNext
      <3>1. Places' /\ WakeStep
        BY ZenonT(30), <2>1, WakeScheduler, WakeRequest, WakeCall, WakeIrq, WakeCancel DEF SchedNext
      <3> QED
        BY ZenonT(30), <3>1 DEF WakeStep, WakesKept, SleeperWillBeWoken, Awaited
    <2>2. CASE UNCHANGED schedVars
      <3>1. Places'
        BY ZenonT(30), <2>2 DEF schedVars, Places, Domains, Handled, Returns, OnCpu, IrqClean
      <3>2. SleeperWillBeWoken'
        BY ZenonT(30), <2>2 DEF schedVars, SleeperWillBeWoken, WakePending
      <3> QED
        BY ZenonT(30), <3>1, <3>2
    <2> QED
      BY ZenonT(30), <2>1, <2>2
  <1> QED
    BY <1>1, <1>2, PTL DEF SchedSpec

-----------------------------------------------------------------------------
(* CPU affinity, idle pull and kills included.                              *)

\* A thread that a scheduler popped is about to run where it may.
HeldRespected ==
  \A c \in Cpus : pc[c] = "dispatch" => c \in Affinity[arg[c]]

\* The inductive invariant of the affinity theorem. cpuOf is no part of it:
\* whatever CPU a caller asks for, sched_enqueue_on_reason corrects it.
MaskInv == Places /\ AffinityRespected /\ HeldRespected

\* sched_enqueue_on_reason queues a thread on a CPU of its mask.
LEMMA QueuedInMask ==
  ASSUME Places, AffinityRespected, NEW me, NEW c, NEW t \in Threads, NEW w,
         EnqueueOn(me, c, t, w)
  PROVE  \A d \in Cpus, u \in Threads : u \in runq'[d] => d \in Affinity[u]
  <1>1. PICK d \in EnqueueCpus(c, t) : runq' = [runq EXCEPT ![d] = @ \cup {t}]
    BY ZenonT(30) DEF EnqueueOn
  <1>2. d \in Affinity[t]
    BY ZenonT(30) DEF EnqueueCpus, AutoCpus
  <1> QED
    BY ZenonT(30), <1>1, <1>2 DEF AffinityRespected, Places, Domains

\* A step that runs nobody anew and leaves every scheduler with the thread it
\* popped needs to look at its run queues only.
LEMMA MaskKept ==
  ASSUME MaskInv,
         \A c \in Cpus, t \in Threads : t \in runq'[c] => c \in Affinity[t],
         \A c \in Cpus, t \in Threads : current'[c] = t => current[c] = t,
         \A c \in Cpus : pc'[c] = "dispatch" => pc[c] = "dispatch" /\ arg'[c] = arg[c]
  PROVE  AffinityRespected' /\ HeldRespected'
  <1>1. AffinityRespected'
    BY ZenonT(30) DEF MaskInv, AffinityRespected
  <1>2. HeldRespected'
    BY ZenonT(30) DEF MaskInv, HeldRespected
  <1> QED
    BY ZenonT(30), <1>1, <1>2

\* sched_run and idle pull run a thread only where its mask allows: the pull
\* looks at the mask again under the lock of the source.
LEMMA MaskScheduler ==
  ASSUME MaskInv, NEW cpu \in Cpus, SchedulerStep(cpu)
  PROVE  AffinityRespected' /\ HeldRespected'
  <1> USE SchedConstants DEF MaskInv, Places, Domains, Contexts, Executes, Goto
  <1>RunPop. ASSUME NEW c \in Cpus, RunPop(c) PROVE AffinityRespected' /\ HeldRespected'
    <2>1. CASE \E t \in runq[c] : /\ runq' = Dequeue(c, t) /\ arg' = [arg EXCEPT ![c] = t]
                                  /\ Goto(c, "dispatch")
      <3>1. AffinityRespected'
        BY SMTT(30), <1>RunPop, <2>1 DEF RunPop, Dequeue, AffinityRespected
      <3>2. HeldRespected'
        BY SMTT(30), <1>RunPop, <2>1 DEF RunPop, Dequeue, AffinityRespected, HeldRespected,
           Handled
      <3> QED
        BY ZenonT(30), <3>1, <3>2
    <2>2. CASE /\ Goto(c, IF Cardinality(Cpus) < 2 THEN "idle" ELSE "scan")
               /\ UNCHANGED <<runq, arg>>
      <3>1. AffinityRespected'
        BY ZenonT(30), <1>RunPop, <2>2 DEF RunPop, AffinityRespected
      <3>2. HeldRespected'
        BY ZenonT(30), <2>2 DEF HeldRespected
      <3> QED
        BY ZenonT(30), <3>1, <3>2
    <2> QED
      BY ZenonT(30), <1>RunPop, <2>1, <2>2 DEF RunPop
  <1>PullScan. ASSUME NEW c \in Cpus, PullScan(c) PROVE AffinityRespected' /\ HeldRespected'
    <2>1. /\ \A e \in Cpus, v \in Threads : v \in runq'[e] => e \in Affinity[v]
          /\ \A e \in Cpus, v \in Threads : current'[e] = v => current[e] = v
      BY ZenonT(30), <1>PullScan DEF PullScan, SchedAt, AffinityRespected
    <2>2. \A e \in Cpus : pc'[e] = "dispatch" => pc[e] = "dispatch" /\ arg'[e] = arg[e]
      BY ZenonT(30), <1>PullScan DEF PullScan, SchedAt
    <2> QED
      BY ZenonT(30), <2>1, <2>2, MaskKept
  <1>PullTake. ASSUME NEW c \in Cpus, PullTake(c) PROVE AffinityRespected' /\ HeldRespected'
    <2>1. CASE Goto(c, "idle") /\ UNCHANGED <<runq, arg>>
      <3>1. AffinityRespected'
        BY ZenonT(30), <1>PullTake, <2>1 DEF PullTake, AffinityRespected
      <3>2. HeldRespected'
        BY ZenonT(30), <2>1 DEF HeldRespected
      <3> QED
        BY ZenonT(30), <3>1, <3>2
    <2>2. CASE /\ \E t \in Eligible(c, aux[c]) :
                    runq' = Dequeue(aux[c], t) /\ arg' = [arg EXCEPT ![c] = t]
               /\ Goto(c, "dispatch")
      <3>1. AffinityRespected'
        BY SMTT(30), <1>PullTake, <2>2 DEF PullTake, Dequeue, AffinityRespected
      <3>2. HeldRespected'
        BY SMTT(30), <2>2 DEF Eligible, HeldRespected
      <3> QED
        BY ZenonT(30), <3>1, <3>2
    <2> QED
      BY ZenonT(30), <1>PullTake, <2>1, <2>2 DEF PullTake
  <1>Dispatch. ASSUME NEW c \in Cpus, Dispatch(c) PROVE AffinityRespected' /\ HeldRespected'
    <2>0. c \in Affinity[arg[c]] /\ UNCHANGED runq /\ arg' = [arg EXCEPT ![c] = NoThread]
      BY ZenonT(30), <1>Dispatch DEF Dispatch, SchedAt, HeldRespected
    <2>1. current' = current \/ current' = [current EXCEPT ![c] = arg[c]]
      BY ZenonT(30), <1>Dispatch DEF Dispatch
    <2>2. \A e \in Cpus : pc'[e] = "dispatch" => pc[e] = "dispatch" /\ e # c
      BY ZenonT(30), <1>Dispatch DEF Dispatch, Vanish
    <2>3. AffinityRespected'
      BY ZenonT(30), <2>0, <2>1 DEF AffinityRespected
    <2>4. HeldRespected'
      BY ZenonT(30), <2>0, <2>2 DEF HeldRespected
    <2> QED
      BY ZenonT(30), <2>3, <2>4
  <1>AfterSwitch. ASSUME NEW c \in Cpus, AfterSwitch(c)
                  PROVE AffinityRespected' /\ HeldRespected'
    <2>1. /\ \A e \in Cpus, v \in Threads : v \in runq'[e] => e \in Affinity[v]
          /\ \A e \in Cpus, v \in Threads : current'[e] = v => current[e] = v
      BY ZenonT(30), <1>AfterSwitch DEF AfterSwitch, SchedAt, ReapSlot, ReapEffect,
         AffinityRespected
    <2>2. \A e \in Cpus : pc'[e] = "dispatch" => pc[e] = "dispatch" /\ arg'[e] = arg[e]
      BY ZenonT(30), <1>AfterSwitch DEF AfterSwitch, SchedAt, ReapSlot, ReapEffect
    <2> QED
      BY ZenonT(30), <2>1, <2>2, MaskKept
  <1>IdleWait. ASSUME NEW c \in Cpus, IdleWait(c) PROVE AffinityRespected' /\ HeldRespected'
    <2>1. /\ \A e \in Cpus, v \in Threads : v \in runq'[e] => e \in Affinity[v]
          /\ \A e \in Cpus, v \in Threads : current'[e] = v => current[e] = v
      BY ZenonT(30), <1>IdleWait DEF IdleWait, SchedAt, AffinityRespected
    <2>2. \A e \in Cpus : pc'[e] = "dispatch" => pc[e] = "dispatch" /\ arg'[e] = arg[e]
      BY ZenonT(30), <1>IdleWait DEF IdleWait, SchedAt
    <2> QED
      BY ZenonT(30), <2>1, <2>2, MaskKept
  <1>Halt. ASSUME NEW c \in Cpus, Halt(c) PROVE AffinityRespected' /\ HeldRespected'
    <2>1. /\ \A e \in Cpus, v \in Threads : v \in runq'[e] => e \in Affinity[v]
          /\ \A e \in Cpus, v \in Threads : current'[e] = v => current[e] = v
      BY ZenonT(30), <1>Halt DEF Halt, SchedAt, AffinityRespected
    <2>2. \A e \in Cpus : pc'[e] = "dispatch" => pc[e] = "dispatch" /\ arg'[e] = arg[e]
      BY ZenonT(30), <1>Halt DEF Halt, SchedAt
    <2> QED
      BY ZenonT(30), <2>1, <2>2, MaskKept
  <1>Wake. ASSUME NEW c \in Cpus, Wake(c) PROVE AffinityRespected' /\ HeldRespected'
    <2>1. /\ \A e \in Cpus, v \in Threads : v \in runq'[e] => e \in Affinity[v]
          /\ \A e \in Cpus, v \in Threads : current'[e] = v => current[e] = v
      BY ZenonT(30), <1>Wake DEF Wake, SchedAt, AffinityRespected
    <2>2. \A e \in Cpus : pc'[e] = "dispatch" => pc[e] = "dispatch" /\ arg'[e] = arg[e]
      BY ZenonT(30), <1>Wake DEF Wake, SchedAt
    <2> QED
      BY ZenonT(30), <2>1, <2>2, MaskKept
  <1>TakeIpi. ASSUME NEW c \in Cpus, TakeIpi(c) PROVE AffinityRespected' /\ HeldRespected'
    <2>1. /\ \A e \in Cpus, v \in Threads : v \in runq'[e] => e \in Affinity[v]
          /\ \A e \in Cpus, v \in Threads : current'[e] = v => current[e] = v
      BY ZenonT(30), <1>TakeIpi DEF TakeIpi, AffinityRespected
    <2>2. \A e \in Cpus : pc'[e] = "dispatch" => pc[e] = "dispatch" /\ arg'[e] = arg[e]
      BY ZenonT(30), <1>TakeIpi DEF TakeIpi
    <2> QED
      BY ZenonT(30), <2>1, <2>2, MaskKept
  <1> HIDE DEF MaskInv
  <1> QED
    BY ZenonT(30), <1>RunPop, <1>PullScan, <1>PullTake, <1>Dispatch, <1>AfterSwitch, <1>IdleWait, <1>Halt,
       <1>Wake, <1>TakeIpi DEF SchedulerStep

\* The requests of a running thread respect the masks.
LEMMA MaskRequest ==
  ASSUME MaskInv, NEW cpu \in Cpus, ThreadRequest(cpu)
  PROVE  AffinityRespected' /\ HeldRespected'
  <1> USE SchedConstants DEF MaskInv, Places, Domains, Contexts, Executes, Goto
  <1>YieldOrPreempt. ASSUME NEW c \in Cpus, NEW t \in Threads, YieldOrPreempt(c, t)
                     PROVE AffinityRespected' /\ HeldRespected'
    <2>1. \A e \in Cpus, v \in Threads : v \in runq'[e] => e \in Affinity[v]
      BY ZenonT(30), <1>YieldOrPreempt, QueuedInMask DEF YieldOrPreempt
    <2>2. \A e \in Cpus, v \in Threads : current'[e] = v => current[e] = v
      BY ZenonT(30), <1>YieldOrPreempt DEF YieldOrPreempt, ThreadAt
    <2>3. \A e \in Cpus : pc'[e] = "dispatch" => pc[e] = "dispatch" /\ arg'[e] = arg[e]
      BY ZenonT(30), <1>YieldOrPreempt DEF YieldOrPreempt, ThreadAt, Returns
    <2> QED
      BY ZenonT(30), <2>1, <2>2, <2>3, MaskKept
  <1>ThreadSleep. ASSUME NEW c \in Cpus, NEW t \in Threads, ThreadSleep(c, t)
                  PROVE AffinityRespected' /\ HeldRespected'
    <2>1. /\ \A e \in Cpus, v \in Threads : v \in runq'[e] => e \in Affinity[v]
          /\ \A e \in Cpus, v \in Threads : current'[e] = v => current[e] = v
      BY ZenonT(30), <1>ThreadSleep DEF ThreadSleep, ThreadAt, AffinityRespected
    <2>2. \A e \in Cpus : pc'[e] = "dispatch" => pc[e] = "dispatch" /\ arg'[e] = arg[e]
      BY ZenonT(30), <1>ThreadSleep DEF ThreadSleep, ThreadAt
    <2> QED
      BY ZenonT(30), <2>1, <2>2, MaskKept
  <1>ThreadCreate. ASSUME NEW c \in Cpus, NEW t \in Threads, NEW u \in Threads,
                          ThreadCreate(c, t, u)
                   PROVE AffinityRespected' /\ HeldRespected'
    <2>1. /\ \A e \in Cpus, v \in Threads : v \in runq'[e] => e \in Affinity[v]
          /\ \A e \in Cpus, v \in Threads : current'[e] = v => current[e] = v
      BY ZenonT(30), <1>ThreadCreate DEF ThreadCreate, ThreadAt, AffinityRespected
    <2>2. \A e \in Cpus : pc'[e] = "dispatch" => pc[e] = "dispatch" /\ arg'[e] = arg[e]
      BY ZenonT(30), <1>ThreadCreate DEF ThreadCreate, ThreadAt
    <2> QED
      BY ZenonT(30), <2>1, <2>2, MaskKept
  <1>KillStart. ASSUME NEW c \in Cpus, NEW t \in Threads, NEW k \in Tasks, KillStart(c, t, k)
                PROVE AffinityRespected' /\ HeldRespected'
    <2>1. /\ \A e \in Cpus, v \in Threads : v \in runq'[e] => e \in Affinity[v]
          /\ \A e \in Cpus, v \in Threads : current'[e] = v => current[e] = v
      BY ZenonT(30), <1>KillStart DEF KillStart, ThreadAt, AffinityRespected
    <2>2. \A e \in Cpus : pc'[e] = "dispatch" => pc[e] = "dispatch" /\ arg'[e] = arg[e]
      BY ZenonT(30), <1>KillStart DEF KillStart, ThreadAt
    <2> QED
      BY ZenonT(30), <2>1, <2>2, MaskKept
  <1>ThreadExit. ASSUME NEW c \in Cpus, NEW t \in Threads, ThreadExit(c, t)
                 PROVE AffinityRespected' /\ HeldRespected'
    <2>1. /\ \A e \in Cpus, v \in Threads : v \in runq'[e] => e \in Affinity[v]
          /\ \A e \in Cpus, v \in Threads : current'[e] = v => current[e] = v
      BY SMTT(30), <1>ThreadExit DEF ThreadExit, ThreadAt, ExitEffect, AffinityRespected
    <2>2. \A e \in Cpus : pc'[e] = "dispatch" => pc[e] = "dispatch" /\ arg'[e] = arg[e]
      BY ZenonT(30), <1>ThreadExit DEF ThreadExit, ThreadAt, ExitEffect
    <2> QED
      BY ZenonT(30), <2>1, <2>2, MaskKept
  <1> HIDE DEF MaskInv
  <1> QED
    BY ZenonT(30), <1>YieldOrPreempt, <1>ThreadSleep, <1>ThreadCreate, <1>KillStart,
       <1>ThreadExit DEF ThreadRequest

\* A thread that vanishes leaves the contexts of the scheduler threads alone.
LEMMA VanishKeepsCpus ==
  ASSUME Domains, NEW u \in Threads, NEW e \in Cpus
  PROVE  /\ Vanish(u)[e] = pc[e]
         /\ \A l : [pc EXCEPT ![u] = l][e] = pc[e]
  <1>1. e # u /\ e \in DOMAIN pc
    BY Zenon, SchedConstants DEF Domains, Contexts, Executes
  <1> QED
    BY Zenon, <1>1 DEF Vanish

\* thread_unblock and the placing of a new thread respect the masks; the other
\* calls only take threads away.
LEMMA MaskCall ==
  ASSUME MaskInv, NEW cpu \in Cpus, CallStep(cpu)
  PROVE  AffinityRespected' /\ HeldRespected'
  <1> USE SchedConstants DEF MaskInv, Places, Domains, Contexts, Executes, Goto
  <1>SwitchOut. ASSUME NEW c \in Cpus, NEW t \in Threads, SwitchOut(c, t)
                PROVE AffinityRespected' /\ HeldRespected'
    <2>1. /\ \A e \in Cpus, v \in Threads : v \in runq'[e] => e \in Affinity[v]
          /\ \A e \in Cpus, v \in Threads : current'[e] = v => current[e] = v
      BY SMTT(30), <1>SwitchOut DEF SwitchOut, ThreadAt, AffinityRespected
    <2>2. \A e \in Cpus : pc'[e] = "dispatch" => pc[e] = "dispatch" /\ arg'[e] = arg[e]
      BY ZenonT(30), <1>SwitchOut DEF SwitchOut, ThreadAt, Returns
    <2> QED
      BY ZenonT(30), <2>1, <2>2, MaskKept
  <1>PlaceNew. ASSUME NEW c \in Cpus, NEW t \in Threads, PlaceNew(c, t)
               PROVE AffinityRespected' /\ HeldRespected'
    <2>1. \A e \in Cpus, v \in Threads : v \in runq'[e] => e \in Affinity[v]
      <3>1. arg[t] \in Threads
        BY ZenonT(30), <1>PlaceNew DEF PlaceNew, ThreadAt, Handled, HoldsThread
      <3> QED
        BY ZenonT(30), <1>PlaceNew, <3>1, QueuedInMask DEF PlaceNew
    <2>2. \A e \in Cpus, v \in Threads : current'[e] = v => current[e] = v
      BY ZenonT(30), <1>PlaceNew DEF PlaceNew, ThreadAt
    <2>3. \A e \in Cpus : pc'[e] = "dispatch" => pc[e] = "dispatch" /\ arg'[e] = arg[e]
      BY ZenonT(30), <1>PlaceNew DEF PlaceNew, ThreadAt, Returns
    <2> QED
      BY ZenonT(30), <2>1, <2>2, <2>3, MaskKept
  <1>KillScan. ASSUME NEW c \in Cpus, NEW t \in Threads, KillScan(c, t)
               PROVE AffinityRespected' /\ HeldRespected'
    <2>1. /\ \A e \in Cpus, v \in Threads : v \in runq'[e] => e \in Affinity[v]
          /\ \A e \in Cpus, v \in Threads : current'[e] = v => current[e] = v
      BY ZenonT(30), <1>KillScan DEF KillScan, ThreadAt, AffinityRespected
    <2>2. \A e \in Cpus : pc'[e] = "dispatch" => pc[e] = "dispatch" /\ arg'[e] = arg[e]
      BY ZenonT(30), <1>KillScan DEF KillScan, ThreadAt
    <2> QED
      BY ZenonT(30), <2>1, <2>2, MaskKept
  <1>KillReady. ASSUME NEW c \in Cpus, NEW t \in Threads, KillReady(c, t)
                PROVE AffinityRespected' /\ HeldRespected'
    <2>1. /\ \A e \in Cpus, v \in Threads : v \in runq'[e] => e \in Affinity[v]
          /\ \A e \in Cpus, v \in Threads : current'[e] = v => current[e] = v
      <3>1. runq' = runq \/ \E d \in Cpus, u \in Threads : runq' = Dequeue(d, u)
        BY ZenonT(30), <1>KillReady DEF KillReady, Handled
      <3>2. current' = current
        BY ZenonT(30), <1>KillReady DEF KillReady
      <3>3. \A e \in Cpus : runq'[e] \subseteq runq[e]
        <4>1. CASE runq' = runq
          BY Zenon, <4>1
        <4>2. ASSUME NEW d \in Cpus, NEW u \in Threads, runq' = Dequeue(d, u)
              PROVE \A e \in Cpus : runq'[e] \subseteq runq[e]
          BY SMTT(30), <4>2 DEF Dequeue
        <4> QED
          BY Zenon, <3>1, <4>1, <4>2
      <3> QED
        BY ZenonT(30), <3>2, <3>3 DEF AffinityRespected
    <2>2. \A e \in Cpus : pc'[e] = "dispatch" => pc[e] = "dispatch" /\ arg'[e] = arg[e]
      <3>1. /\ arg' = arg
            /\ \/ \E u \in Threads : pc' = Vanish(u)
               \/ pc' = [pc EXCEPT ![t] = "user"]
        BY ZenonT(30), <1>KillReady DEF KillReady, Handled
      <3>0. Domains
        OBVIOUS
      <3> HIDE DEF MaskInv, Places, Domains, Contexts, Executes, Goto
      <3>2. ASSUME NEW u \in Threads, pc' = Vanish(u)
            PROVE \A e \in Cpus : pc'[e] = pc[e]
        BY Zenon, <3>0, <3>2, VanishKeepsCpus
      <3>3. ASSUME pc' = [pc EXCEPT ![t] = "user"]
            PROVE \A e \in Cpus : pc'[e] = pc[e]
        BY Zenon, <3>0, <3>3, <1>KillReady, VanishKeepsCpus
      <3> QED
        BY Zenon, <3>1, <3>2, <3>3
    <2> QED
      BY ZenonT(30), <2>1, <2>2, MaskKept
  <1>UnblockCheck. ASSUME NEW c \in Cpus, NEW x \in Contexts, UnblockCheck(c, x)
                   PROVE AffinityRespected' /\ HeldRespected'
    <2>1. /\ \A e \in Cpus, v \in Threads : v \in runq'[e] => e \in Affinity[v]
          /\ \A e \in Cpus, v \in Threads : current'[e] = v => current[e] = v
      BY ZenonT(30), <1>UnblockCheck DEF UnblockCheck, ContextAt, NeedsWake, AffinityRespected
    <2>2. \A e \in Cpus : pc'[e] = "dispatch" => pc[e] = "dispatch" /\ arg'[e] = arg[e]
      BY SMTT(30), <1>UnblockCheck DEF UnblockCheck, ContextAt, NeedsWake, Returns
    <2> QED
      BY ZenonT(30), <2>1, <2>2, MaskKept
  <1>UnblockEnqueue. ASSUME NEW c \in Cpus, NEW x \in Contexts, UnblockEnqueue(c, x)
                     PROVE AffinityRespected' /\ HeldRespected'
    <2>1. \A e \in Cpus, v \in Threads : v \in runq'[e] => e \in Affinity[v]
      <3>1. arg[x] \in Threads
        BY ZenonT(30), <1>UnblockEnqueue DEF UnblockEnqueue, ContextAt, Handled, HoldsThread
      <3> QED
        BY ZenonT(30), <1>UnblockEnqueue, <3>1, QueuedInMask DEF UnblockEnqueue
    <2>2. \A e \in Cpus, v \in Threads : current'[e] = v => current[e] = v
      BY ZenonT(30), <1>UnblockEnqueue DEF UnblockEnqueue, ContextAt
    <2>3. \A e \in Cpus : pc'[e] = "dispatch" => pc[e] = "dispatch" /\ arg'[e] = arg[e]
      BY ZenonT(30), <1>UnblockEnqueue DEF UnblockEnqueue, ContextAt, Returns
    <2> QED
      BY ZenonT(30), <2>1, <2>2, <2>3, MaskKept
  <1> HIDE DEF MaskInv
  <1> QED
    BY ZenonT(30), <1>SwitchOut, <1>PlaceNew, <1>KillScan, <1>KillReady, <1>UnblockCheck,
       <1>UnblockEnqueue DEF CallStep

\* The timer interrupt queues nothing itself.
LEMMA MaskIrq ==
  ASSUME MaskInv, IrqStep
  PROVE  AffinityRespected' /\ HeldRespected'
  <1> USE SchedConstants DEF MaskInv, Places, Domains, Contexts, Executes, Goto
  <1>IrqStart. ASSUME NEW S \in SUBSET sleepers, IrqStart(S)
               PROVE AffinityRespected' /\ HeldRespected'
    <2>1. /\ \A e \in Cpus, v \in Threads : v \in runq'[e] => e \in Affinity[v]
          /\ \A e \in Cpus, v \in Threads : current'[e] = v => current[e] = v
      BY ZenonT(30), <1>IrqStart DEF IrqStart, PrivateList, AffinityRespected
    <2>2. \A e \in Cpus : pc'[e] = "dispatch" => pc[e] = "dispatch" /\ arg'[e] = arg[e]
      BY ZenonT(30), <1>IrqStart DEF IrqStart, PrivateList
    <2> QED
      BY ZenonT(30), <2>1, <2>2, MaskKept
  <1>IrqNext. ASSUME IrqNext PROVE AffinityRespected' /\ HeldRespected'
    <2>1. /\ \A e \in Cpus, v \in Threads : v \in runq'[e] => e \in Affinity[v]
          /\ \A e \in Cpus, v \in Threads : current'[e] = v => current[e] = v
      BY ZenonT(30), <1>IrqNext DEF IrqNext, AffinityRespected
    <2>2. \A e \in Cpus : pc'[e] = "dispatch" => pc[e] = "dispatch" /\ arg'[e] = arg[e]
      BY SMTT(30), <1>IrqNext DEF IrqNext
    <2> QED
      BY ZenonT(30), <2>1, <2>2, MaskKept
  <1> HIDE DEF MaskInv
  <1> QED
    BY ZenonT(30), <1>IrqStart, <1>IrqNext DEF IrqStep

\* Nor does the cancelling of a killed task's sleeper.
LEMMA MaskCancel ==
  ASSUME MaskInv, NEW cpu \in Cpus, NEW thr \in Threads, KillCancel(cpu, thr)
  PROVE  AffinityRespected' /\ HeldRespected'
  <1> USE SchedConstants DEF MaskInv, Places, Domains, Contexts, Executes, Goto
  <1>KillCancel. ASSUME NEW c \in Cpus, NEW t \in Threads, KillCancel(c, t)
                 PROVE AffinityRespected' /\ HeldRespected'
    <2>1. /\ \A e \in Cpus, v \in Threads : v \in runq'[e] => e \in Affinity[v]
          /\ \A e \in Cpus, v \in Threads : current'[e] = v => current[e] = v
      BY ZenonT(30), <1>KillCancel DEF KillCancel, ThreadAt, AffinityRespected
    <2>2. \A e \in Cpus : pc'[e] = "dispatch" => pc[e] = "dispatch" /\ arg'[e] = arg[e]
      BY ZenonT(30), <1>KillCancel DEF KillCancel, ThreadAt
    <2> QED
      BY ZenonT(30), <2>1, <2>2, MaskKept
  <1> HIDE DEF MaskInv
  <1> QED
    BY ZenonT(30), <1>KillCancel

\* A thread is queued on, and runs on, CPUs of its affinity mask only, with any
\* number of CPUs and with idle pull and task_kill under way.
THEOREM MasksRespected == SchedSpec => []AffinityRespected
  <1>1. SchedInit => MaskInv
    <2> SUFFICES ASSUME SchedInit PROVE MaskInv
      BY ZenonT(30)
    <2>1. AffinityRespected
      BY SMTT(30), SchedConstants DEF SchedInit, AffinityRespected
    <2>2. HeldRespected
      BY ZenonT(30), SchedConstants DEF SchedInit, HeldRespected, Contexts
    <2> QED
      BY ZenonT(30), <2>1, <2>2, PlacesInit DEF MaskInv
  <1>2. MaskInv /\ [SchedNext]_schedVars => MaskInv'
    <2> SUFFICES ASSUME MaskInv, [SchedNext]_schedVars PROVE MaskInv'
      BY ZenonT(30)
    <2>0. Places
      BY ZenonT(30) DEF MaskInv
    <2>1. CASE SchedNext
      <3>1. Places'
        BY ZenonT(30), <2>0, <2>1, WakeScheduler, WakeRequest, WakeCall, WakeIrq,
           WakeCancel DEF SchedNext
      <3>2. AffinityRespected' /\ HeldRespected'
        BY ZenonT(30), <2>1, MaskScheduler, MaskRequest, MaskCall, MaskIrq, MaskCancel DEF SchedNext
      <3> QED
        BY ZenonT(30), <3>1, <3>2 DEF MaskInv
    <2>2. CASE UNCHANGED schedVars
      <3>1. Places'
        BY ZenonT(30), <2>0, <2>2 DEF schedVars, Places, Domains, Handled, Returns, OnCpu,
           IrqClean
      <3>2. AffinityRespected' /\ HeldRespected'
        BY ZenonT(30), <2>2 DEF MaskInv, schedVars, AffinityRespected, HeldRespected
      <3> QED
        BY ZenonT(30), <3>1, <3>2 DEF MaskInv
    <2> QED
      BY ZenonT(30), <2>1, <2>2
  <1> QED
    BY <1>1, <1>2, PTL DEF SchedSpec, MaskInv
=============================================================================
