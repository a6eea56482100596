------------------------------- MODULE Sched -------------------------------
(***************************************************************************)
(* The thread scheduler of kernel/sched.c: per-CPU run queues, dispatch    *)
(* with idle pull, preemption, sleeping, blocking and waking, direct       *)
(* hand-off, thread creation, exit and reaping, and task_kill.             *)
(*                                                                         *)
(* One step is one critical section of the code (a run-queue, sleep-list   *)
(* or task lock) or one unlocked access that another CPU can observe.  A   *)
(* context is a thread, the scheduler thread of a CPU (written as the CPU  *)
(* itself), or Irq, the timer interrupt of the boot CPU.  pc is where a    *)
(* context is inside the kernel; "user" is a thread in user mode, or in    *)
(* kernel code that touches nothing modelled here.                         *)
(*                                                                         *)
(* Data left out: the order inside a run queue (a dispatch may take any    *)
(* queued thread; module Eevdf models the order), quanta, statistics and   *)
(* logging.                                                                *)
(***************************************************************************)
EXTENDS Naturals, FiniteSets

CONSTANTS
  Cpus,        \* online CPUs, cpus[0 .. sched_cpu_count - 1]
  BootCpu,     \* the CPU that receives the PIT timer interrupt
  Threads, Tasks,
  TaskOf,      \* thread->task
  Affinity,    \* thread->affinity_mask, as a set of CPUs
  Pullable,    \* threads of class USER or BATCH, the ones idle pull may move
  Killable,    \* tasks that some thread may pass to task_kill
  Started,     \* threads that exist in the initial state
  Calls,       \* the scheduler calls each thread's program makes
  Irq, NoThread, NoAux

VARIABLES
  state,       \* thread->state
  cpuOf,       \* thread->cpu_id
  runq,        \* cpu->runq, the set of queued threads
  idle,        \* cpu->runq.idle
  current,     \* cpu->current, also the stack the CPU executes on
  reap,        \* cpu->reap
  depth,       \* cpu->handoff_depth
  ipi,         \* a scheduler IPI is pending on the CPU
  sleepers,    \* sleep_list
  expired,     \* sched_wake_sleepers' local list of expired sleepers
  killing,     \* task->killing
  dead,        \* task->dead
  members,     \* task->threads
  pc, ret,     \* where a context is, and where it goes on after a call
  arg, aux     \* the thread a call is about; its task, source CPU or CPU

schedVars == <<state, cpuOf, runq, idle, current, reap, depth, ipi, sleepers,
               expired, killing, dead, members, pc, ret, arg, aux>>

Contexts == Threads \cup Cpus \cup {Irq}
States == {"EMPTY", "READY", "RUNNING", "BLOCKED", "DEAD"}

\* SCHED_IDLE_PULL_MIN_SOURCE_RUNQ
MinSourceRunq == 2

ASSUME SchedConstants ==
  /\ IsFiniteSet(Cpus) /\ IsFiniteSet(Threads)
  /\ BootCpu \in Cpus
  /\ TaskOf \in [Threads -> Tasks]
  /\ Affinity \in [Threads -> SUBSET Cpus]
  /\ \A t \in Threads : Affinity[t] # {}
  /\ Pullable \subseteq Threads /\ Started \subseteq Threads
  /\ Killable \subseteq Tasks
  /\ Calls \in [Threads -> SUBSET {"exit", "yield", "sleep", "create", "kill"}]
  /\ NoThread \notin Threads
  /\ Threads \cap Cpus = {} /\ Irq \notin Threads \cup Cpus

-----------------------------------------------------------------------------
(* Which context a CPU executes.  The interrupt handler runs on top of     *)
(* whatever the boot CPU was doing.                                        *)

Executes(c, x) ==
  IF c = BootCpu /\ pc[Irq] # "off" THEN x = Irq ELSE x = current[c]

Killed(t) == killing[TaskOf[t]]

\* sched_cpu_load
Load(c) ==
  Cardinality(runq[c]) +
    IF current[c] \in Threads /\ state[current[c]] = "RUNNING" THEN 1 ELSE 0

\* sched_select_auto_cpu_mask: a least loaded CPU of the mask
AutoCpus(mask) == {c \in mask : \A d \in mask : Load(c) <= Load(d)}

\* The CPU a thread is queued on when CPU c is asked for.
EnqueueCpus(c, t) == IF c \in Affinity[t] THEN {c} ELSE AutoCpus(Affinity[t])

\* sched_kick_idle_pullers: idle CPUs told of work they could pull
Kicked(d, t, wakeup) ==
  IF wakeup /\ t \in Pullable /\ Cardinality(runq[d] \cup {t}) >= MinSourceRunq
  THEN {e \in Cpus \ {d} : idle[e]}
  ELSE {}

\* sched_enqueue_on_reason, run on CPU me: the thread becomes READY on a
\* queue, and a CPU that had gone idle is sent an IPI.
EnqueueOn(me, c, t, wakeup) ==
  \E d \in EnqueueCpus(c, t) :
    /\ state' = [state EXCEPT ![t] = "READY"]
    /\ cpuOf' = [cpuOf EXCEPT ![t] = d]
    /\ runq' = [runq EXCEPT ![d] = @ \cup {t}]
    /\ idle' = [idle EXCEPT ![d] = FALSE]
    /\ ipi' = [e \in Cpus |->
                 ipi[e] \/ (e # me /\ (\/ e = d /\ idle[d]
                                       \/ e \in Kicked(d, t, wakeup)))]

\* The context of a reaped thread is gone, unless a CPU is still on its stack
Vanish(t) ==
  IF \E c \in Cpus : current[c] = t THEN pc ELSE [pc EXCEPT ![t] = "gone"]

\* Mutant: off by one
IsLast_OffByOne(t) == Cardinality(members[TaskOf[t]] \ {t}) <= 1

\* --task->thread_count == 0
IsLast(t) == members[TaskOf[t]] \ {t} = {}

\* sched_reap_thread: the last thread of a task takes the task with it
ReapEffect(t) ==
  LET k == TaskOf[t] IN
    /\ members' = [members EXCEPT ![k] = @ \ {t}]
    /\ dead' = [dead EXCEPT ![k] = @ \/ IsLast(t)]

Goto(x, l) == pc' = [pc EXCEPT ![x] = l]

-----------------------------------------------------------------------------
(* sched_run and sched_idle_loop, on the scheduler thread of CPU c.        *)

SchedAt(c, l) == Executes(c, c) /\ pc[c] = l


\* runq_pop and runq_remove
Dequeue(c, t) == [runq EXCEPT ![c] = @ \ {t}]

\* runq_pop; an empty queue goes on to sched_idle_pull
RunPop(c) ==
  /\ SchedAt(c, "run")
  /\ \/ \E t \in runq[c] :
          /\ runq' = Dequeue(c, t)
          /\ arg' = [arg EXCEPT ![c] = t]
          /\ Goto(c, "dispatch")
     \/ /\ runq[c] = {}
        /\ Goto(c, IF Cardinality(Cpus) < 2 THEN "idle" ELSE "scan")
        /\ UNCHANGED <<runq, arg>>
  /\ UNCHANGED <<state, cpuOf, idle, current, reap, depth, ipi, sleepers,
                 expired, killing, dead, members, ret, aux>>

\* Mutant: idle pull ignores the affinity mask
Eligible_AnyMask(c, d) == {t \in runq[d] : t \in Pullable}

\* sched_runq_remove_first_eligible and the scan before it
Eligible(c, d) == {t \in runq[d] : t \in Pullable /\ c \in Affinity[t]}
Stealable(c, d) ==
  d # c /\ Cardinality(runq[d]) >= MinSourceRunq /\ Eligible(c, d) # {}

\* sched_idle_pull, first pass: remember the busiest eligible CPU
PullScan(c) ==
  /\ SchedAt(c, "scan")
  /\ LET S == {d \in Cpus : Stealable(c, d)} IN
       \/ /\ S = {}
          /\ Goto(c, "idle")
          /\ UNCHANGED aux
       \/ \E d \in S :
            /\ \A e \in S : Cardinality(runq[e]) <= Cardinality(runq[d])
            /\ aux' = [aux EXCEPT ![c] = d]
            /\ Goto(c, "take")
  /\ UNCHANGED <<state, cpuOf, runq, idle, current, reap, depth, ipi, sleepers,
                 expired, killing, dead, members, ret, arg>>

\* sched_idle_pull, second pass: look again under the source's lock
PullTake(c) ==
  /\ SchedAt(c, "take")
  /\ LET d == aux[c] IN
       \/ /\ ~Stealable(c, d)
          /\ Goto(c, "idle")
          /\ UNCHANGED <<runq, cpuOf, idle, arg>>
       \/ /\ Stealable(c, d)
          /\ \E t \in Eligible(c, d) :
               /\ runq' = Dequeue(d, t)
               /\ cpuOf' = [cpuOf EXCEPT ![t] = c]
               /\ arg' = [arg EXCEPT ![c] = t]
          /\ idle' = [idle EXCEPT ![c] = FALSE]
          /\ Goto(c, "dispatch")
  /\ UNCHANGED <<state, current, reap, depth, ipi, sleepers, expired, killing,
                 dead, members, ret, aux>>

\* The rest of sched_run: a thread of a killed task is reaped, any other runs
Dispatch(c) ==
  /\ SchedAt(c, "dispatch")
  /\ LET t == arg[c] IN
       \/ /\ Killed(t)
          /\ state' = [state EXCEPT ![t] = "EMPTY"]
          /\ ReapEffect(t)
          /\ pc' = [Vanish(t) EXCEPT ![c] = "run"]
          /\ UNCHANGED current
       \/ /\ ~Killed(t)
          /\ state' = [state EXCEPT ![t] = "RUNNING"]
          /\ current' = [current EXCEPT ![c] = t]
          /\ Goto(c, "after")
          /\ UNCHANGED <<members, dead>>
  /\ arg' = [arg EXCEPT ![c] = NoThread]
  /\ UNCHANGED <<cpuOf, runq, idle, reap, depth, ipi, sleepers, expired,
                 killing, ret, aux>>

\* Mutant: the slot is cleared but nobody reaps its thread
ReapSlot_Forgets(c) ==
  /\ reap' = [reap EXCEPT ![c] = NoThread]
  /\ UNCHANGED <<state, members, dead>>

\* sched_reap_thread(r) by a context that found r in a CPU's reap slot
ReapSlot(c) ==
  /\ reap' = [reap EXCEPT ![c] = NoThread]
  /\ IF reap[c] \in Threads /\ state[reap[c]] = "DEAD"
     THEN /\ state' = [state EXCEPT ![reap[c]] = "EMPTY"]
          /\ ReapEffect(reap[c])
     ELSE UNCHANGED <<state, members, dead>>

\* sched_run after the switch back to the scheduler thread
AfterSwitch(c) ==
  /\ SchedAt(c, "after")
  /\ ReapSlot(c)
  /\ Goto(c, "run")
  /\ UNCHANGED <<cpuOf, runq, idle, current, depth, ipi, sleepers, expired,
                 killing, ret, arg, aux>>

\* sched_idle_wait: the locked check, then interrupts on, then halt
IdleWait(c) ==
  /\ SchedAt(c, "idle")
  /\ idle' = [idle EXCEPT ![c] = (runq[c] = {})]
  /\ Goto(c, IF runq[c] = {} THEN "sti" ELSE "run")
  /\ UNCHANGED <<state, cpuOf, runq, current, reap, depth, ipi, sleepers,
                 expired, killing, dead, members, ret, arg, aux>>

Halt(c) ==
  /\ SchedAt(c, "sti")
  /\ Goto(c, "hlt")
  /\ UNCHANGED <<state, cpuOf, runq, idle, current, reap, depth, ipi, sleepers,
                 expired, killing, dead, members, ret, arg, aux>>

\* An interrupt ends the halt: the IPI, or the CPU's periodic timer
Wake(c) ==
  /\ SchedAt(c, "hlt")
  /\ Goto(c, "run")
  /\ ipi' = [ipi EXCEPT ![c] = FALSE]
  /\ UNCHANGED <<state, cpuOf, runq, idle, current, reap, depth, sleepers,
                 expired, killing, dead, members, ret, arg, aux>>

\* arch_smp_handle_scheduler_ipi anywhere else: it only acknowledges
TakeIpi(c) ==
  /\ ipi[c]
  /\ \/ SchedAt(c, "sti")
     \/ Executes(c, current[c]) /\ pc[current[c]] = "user"
  /\ ipi' = [ipi EXCEPT ![c] = FALSE]
  /\ UNCHANGED <<state, cpuOf, runq, idle, current, reap, depth, sleepers,
                 expired, killing, dead, members, pc, ret, arg, aux>>

-----------------------------------------------------------------------------
(* What a running thread t does on CPU c.                                  *)

ThreadAt(c, t, l) == t \in Threads /\ Executes(c, t) /\ pc[t] = l

\* thread_exit: the scheduler thread will reap it
ExitEffect(c, t) ==
  /\ state' = [state EXCEPT ![t] = "DEAD"]
  /\ reap' = [reap EXCEPT ![c] = t]
  /\ current' = [current EXCEPT ![c] = c]
  /\ Goto(t, "gone")
  /\ UNCHANGED <<cpuOf, runq, idle, depth, ipi, sleepers, expired, killing,
                 dead, members, ret, arg, aux>>


\* thread_exit, and the check for a killed task at syscall entry
ThreadExit(c, t) ==
  /\ \/ ThreadAt(c, t, "exit")
     \/ ThreadAt(c, t, "user") /\ ("exit" \in Calls[t] \/ Killed(t))
  /\ ExitEffect(c, t)

\* thread_yield up to the switch; sched_tick does the same to a thread that
\* used up its quantum, provided something else is runnable
YieldOrPreempt(c, t) ==
  /\ ThreadAt(c, t, "user")
  /\ ~Killed(t) \/ (runq[c] # {} /\ state[t] = "RUNNING")
  /\ EnqueueOn(c, c, t, FALSE)
  /\ Goto(t, "out")
  /\ ret' = [ret EXCEPT ![t] = "user"]
  /\ UNCHANGED <<current, reap, depth, sleepers, expired, killing, dead,
                 members, arg, aux>>

\* cpu->current = scheduler thread, then arch_thread_switch
SwitchOut(c, t) ==
  /\ ThreadAt(c, t, "out")
  /\ current' = [current EXCEPT ![c] = c]
  /\ Goto(t, ret[t])
  /\ UNCHANGED <<state, cpuOf, runq, idle, reap, depth, ipi, sleepers, expired,
                 killing, dead, members, ret, arg, aux>>

\* thread_sleep_ticks up to the switch
ThreadSleep(c, t) ==
  /\ ThreadAt(c, t, "user")
  /\ ~Killed(t)
  /\ sleepers' = sleepers \cup {t}
  /\ state' = [state EXCEPT ![t] = "BLOCKED"]
  /\ Goto(t, "out")
  /\ ret' = [ret EXCEPT ![t] = "user"]
  /\ UNCHANGED <<cpuOf, runq, idle, current, reap, depth, ipi, expired,
                 killing, dead, members, arg, aux>>

\* thread_create_placed: link the thread into its task, then queue it
ThreadCreate(c, t, u) ==
  /\ ThreadAt(c, t, "user")
  /\ pc[u] = "new"
  /\ ~dead[TaskOf[u]] /\ ~killing[TaskOf[u]]
  /\ members' = [members EXCEPT ![TaskOf[u]] = @ \cup {u}]
  /\ pc' = [pc EXCEPT ![t] = "place", ![u] = "user"]
  /\ arg' = [arg EXCEPT ![t] = u]
  /\ ret' = [ret EXCEPT ![t] = "user"]
  /\ UNCHANGED <<state, cpuOf, runq, idle, current, reap, depth, ipi, sleepers,
                 expired, killing, dead, aux>>

PlaceNew(c, t) ==
  /\ ThreadAt(c, t, "place")
  /\ \E d \in AutoCpus(Affinity[arg[t]]) : EnqueueOn(c, d, arg[t], FALSE)
  /\ arg' = [arg EXCEPT ![t] = NoThread]
  /\ Goto(t, ret[t])
  /\ UNCHANGED <<current, reap, depth, sleepers, expired, killing, dead,
                 members, ret, aux>>

-----------------------------------------------------------------------------
(* Calls any context may make.                                             *)

ContextAt(c, x, l) == Executes(c, x) /\ pc[x] = l

\* Mutant: only threads still on the sleep list are worth waking
NeedsWake_Listed(t) == state[t] = "BLOCKED" /\ t \in sleepers

NeedsWake(t) == state[t] = "BLOCKED"

\* Mutant: the woken thread is queued on the waker's CPU
WakeOn_Here(c, t) == c

\* The CPU thread_unblock queues a thread on: the one it last ran on
WakeOn(c, t) == cpuOf[t]

\* thread_unblock: the test of the state is made without a lock
UnblockCheck(c, x) ==
  /\ ContextAt(c, x, "unblock")
  /\ IF NeedsWake(arg[x])
     THEN Goto(x, "enqueue") /\ UNCHANGED arg
     ELSE Goto(x, ret[x]) /\ arg' = [arg EXCEPT ![x] = NoThread]
  /\ UNCHANGED <<state, cpuOf, runq, idle, current, reap, depth, ipi, sleepers,
                 expired, killing, dead, members, ret, aux>>

UnblockEnqueue(c, x) ==
  /\ ContextAt(c, x, "enqueue")
  /\ EnqueueOn(c, WakeOn(c, arg[x]), arg[x], TRUE)
  /\ arg' = [arg EXCEPT ![x] = NoThread]
  /\ Goto(x, ret[x])
  /\ UNCHANGED <<current, reap, depth, sleepers, expired, killing, dead,
                 members, ret, aux>>

\* Mutant: a hand-off may start inside a hand-off
SameCpuFlat_Nests(c, r) == cpuOf[r] = c

\* Neither THREAD_HANDOFF_CROSS_CPU nor THREAD_HANDOFF_NESTED
SameCpuFlat(c, r) == cpuOf[r] = c /\ depth[c] = 0

\* Mutant: a fallback wakes the receiver and reports a failure
FallbackReturn_Fails(c, t) == "invalid"

\* Where the caller goes after waking the receiver the ordinary way
FallbackReturn(c, t) == IF SameCpuFlat(c, arg[t]) THEN "exit" ELSE ret[t]

\* Mutant: the direct switch does not count itself
Deeper_Not(c) == depth

Deeper(c) == [depth EXCEPT ![c] = @ + 1]

\* thread_handoff, up to the enqueue of the caller
HandoffStart(c, t) ==
  /\ ThreadAt(c, t, "handoff")
  /\ LET r == arg[t] IN
       \/ /\ state[r] # "BLOCKED"
          /\ Goto(t, "invalid")
          /\ arg' = [arg EXCEPT ![t] = NoThread]
          /\ UNCHANGED <<state, cpuOf, runq, idle, ipi, ret>>
       \/ /\ state[r] = "BLOCKED"
          /\ ~SameCpuFlat(c, r) \/ Killed(t)
          /\ Goto(t, "unblock")
          /\ ret' = [ret EXCEPT ![t] = FallbackReturn(c, t)]
          /\ UNCHANGED <<state, cpuOf, runq, idle, ipi, arg>>
       \/ /\ state[r] = "BLOCKED"
          /\ SameCpuFlat(c, r) /\ ~Killed(t)
          /\ EnqueueOn(c, c, t, FALSE)
          /\ Goto(t, "handover")
          /\ UNCHANGED <<arg, ret>>
  /\ UNCHANGED <<current, reap, depth, sleepers, expired, killing, dead,
                 members, aux>>

\* thread_handoff, the direct switch to the receiver
HandoffSwitch(c, t) ==
  /\ ThreadAt(c, t, "handover")
  /\ state' = [state EXCEPT ![arg[t]] = "RUNNING"]
  /\ current' = [current EXCEPT ![c] = arg[t]]
  /\ depth' = Deeper(c)
  /\ aux' = [aux EXCEPT ![t] = c]
  /\ arg' = [arg EXCEPT ![t] = NoThread]
  /\ Goto(t, "handback")
  /\ UNCHANGED <<cpuOf, runq, idle, reap, ipi, sleepers, expired, killing,
                 dead, members, ret>>

\* thread_handoff once the caller runs again, wherever that is: cpu is still
\* the CPU it handed over on
HandoffReturn(c, t) ==
  /\ ThreadAt(c, t, "handback")
  /\ depth' = [depth EXCEPT ![aux[t]] = @ - 1]
  /\ ReapSlot(aux[t])
  /\ aux' = [aux EXCEPT ![t] = NoAux]
  /\ Goto(t, ret[t])
  /\ UNCHANGED <<cpuOf, runq, idle, current, ipi, sleepers, expired, killing,
                 ret, arg>>

-----------------------------------------------------------------------------
(* sched_wake_sleepers, in the timer interrupt of the boot CPU.            *)

\* Syscalls run with interrupts off; user mode and the idle loop do not
Interruptible == {"user", "run", "scan", "take", "dispatch", "sti", "hlt"}


PrivateList(S) == S

\* The expired sleepers S move to a private list under sleep_lock
IrqStart(S) ==
  /\ pc[Irq] = "off"
  /\ pc[current[BootCpu]] \in Interruptible
  /\ S # {}
  /\ sleepers' = sleepers \ S
  /\ expired' = PrivateList(S)
  /\ Goto(Irq, "irq")
  /\ UNCHANGED <<state, cpuOf, runq, idle, current, reap, depth, ipi, killing,
                 dead, members, ret, arg, aux>>

\* thread_unblock for each of them, then return from the interrupt
IrqNext ==
  /\ pc[Irq] = "irq"
  /\ \/ \E t \in expired :
          /\ expired' = expired \ {t}
          /\ arg' = [arg EXCEPT ![Irq] = t]
          /\ ret' = [ret EXCEPT ![Irq] = "irq"]
          /\ Goto(Irq, "unblock")
     \/ /\ expired = {}
        /\ pc' = [pc EXCEPT ![Irq] = "off",
                            ![BootCpu] = IF current[BootCpu] = BootCpu /\ @ = "hlt"
                                         THEN "run" ELSE @]
        /\ UNCHANGED <<expired, arg, ret>>
  /\ UNCHANGED <<state, cpuOf, runq, idle, current, reap, depth, ipi, sleepers,
                 killing, dead, members, aux>>

-----------------------------------------------------------------------------
(* task_kill(k), called by a running thread t.                             *)

KillStart(c, t, k) ==
  /\ ThreadAt(c, t, "user")
  /\ ~dead[k]
  /\ killing' = [killing EXCEPT ![k] = TRUE]
  /\ aux' = [aux EXCEPT ![t] = k]
  /\ Goto(t, "kscan")
  /\ UNCHANGED <<state, cpuOf, runq, idle, current, reap, depth, ipi, sleepers,
                 expired, dead, members, ret, arg>>

\* Find a blocked thread of the task, under the task lock
KillScan(c, t) ==
  /\ ThreadAt(c, t, "kscan")
  /\ LET B == {u \in members[aux[t]] : state[u] = "BLOCKED"} IN
       \/ /\ B = {}
          /\ Goto(t, "kready")
          /\ UNCHANGED arg
       \/ \E u \in B :
            /\ arg' = [arg EXCEPT ![t] = u]
            /\ Goto(t, "kcancel")
  /\ UNCHANGED <<state, cpuOf, runq, idle, current, reap, depth, ipi, sleepers,
                 expired, killing, dead, members, ret, aux>>

\* sched_cancel_sleep, then thread_unblock.  ipc_cancel_thread, called just
\* before, is conjoined in module Ipc.
KillCancel(c, t) ==
  /\ ThreadAt(c, t, "kcancel")
  /\ sleepers' = sleepers \ {arg[t]}
  /\ ret' = [ret EXCEPT ![t] = "kscan"]
  /\ Goto(t, "unblock")
  /\ UNCHANGED <<state, cpuOf, runq, idle, current, reap, depth, ipi, expired,
                 killing, dead, members, arg, aux>>

\* sched_cancel_ready_task, one queued thread at a time
KillReady(c, t) ==
  /\ ThreadAt(c, t, "kready")
  /\ LET Q(d) == {u \in runq[d] : TaskOf[u] = aux[t] /\ state[u] = "READY"} IN
       \/ \E d \in Cpus : \E u \in Q(d) :
            /\ runq' = Dequeue(d, u)
            /\ state' = [state EXCEPT ![u] = "EMPTY"]
            /\ ReapEffect(u)
            /\ pc' = Vanish(u)
            /\ UNCHANGED aux
       \/ /\ \A d \in Cpus : Q(d) = {}
          /\ Goto(t, "user")
          /\ aux' = [aux EXCEPT ![t] = NoAux]
          /\ UNCHANGED <<runq, state, members, dead>>
  /\ UNCHANGED <<cpuOf, idle, current, reap, depth, ipi, sleepers, expired,
                 killing, ret, arg>>

-----------------------------------------------------------------------------
SchedInit ==
  /\ state = [t \in Threads |-> IF t \in Started THEN "READY" ELSE "EMPTY"]
  /\ cpuOf \in [Threads -> Cpus]
  /\ \A t \in Threads : cpuOf[t] \in Affinity[t]
  /\ runq = [c \in Cpus |-> {t \in Started : cpuOf[t] = c}]
  /\ idle = [c \in Cpus |-> FALSE]
  /\ current = [c \in Cpus |-> c]
  /\ reap = [c \in Cpus |-> NoThread]
  /\ depth = [c \in Cpus |-> 0]
  /\ ipi = [c \in Cpus |-> FALSE]
  /\ sleepers = {} /\ expired = {}
  /\ killing = [k \in Tasks |-> FALSE]
  /\ dead = [k \in Tasks |-> FALSE]
  /\ members = [k \in Tasks |-> {t \in Started : TaskOf[t] = k}]
  /\ pc = [x \in Contexts |-> IF x \in Threads
                              THEN IF x \in Started THEN "user" ELSE "new"
                              ELSE IF x \in Cpus THEN "run" ELSE "off"]
  /\ ret = [x \in Contexts |-> "user"]
  /\ arg = [x \in Contexts |-> NoThread]
  /\ aux = [x \in Contexts |-> NoAux]

\* The scheduler thread's own steps
SchedulerStep(c) ==
  \/ RunPop(c) \/ PullScan(c) \/ PullTake(c) \/ Dispatch(c) \/ AfterSwitch(c)
  \/ IdleWait(c) \/ Halt(c) \/ Wake(c) \/ TakeIpi(c)

\* Steps in the middle of a scheduler call of a thread or of the interrupt
CallStep(c) ==
  \/ \E t \in Threads : \/ SwitchOut(c, t) \/ PlaceNew(c, t)
                        \/ KillScan(c, t) \/ KillReady(c, t)
  \/ \E x \in Contexts : UnblockCheck(c, x) \/ UnblockEnqueue(c, x)

\* thread_handoff, which only ipc_send calls
HandoffStep(c) ==
  \E t \in Threads : HandoffStart(c, t) \/ HandoffSwitch(c, t) \/ HandoffReturn(c, t)

\* What user code may ask for
ThreadRequest(c) ==
  \E t \in Threads :
    \/ YieldOrPreempt(c, t)
    \/ "sleep" \in Calls[t] /\ ThreadSleep(c, t)
    \/ "create" \in Calls[t] /\ \E u \in Threads : ThreadCreate(c, t, u)
    \/ "kill" \in Calls[t] /\ \E k \in Killable : KillStart(c, t, k)
    \/ ThreadExit(c, t)

IrqStep == IrqNext \/ \E S \in SUBSET sleepers : IrqStart(S)

\* The scheduler alone; module Ipc composes it with the message core
SchedNext ==
  \/ IrqStep
  \/ \E c \in Cpus : \/ SchedulerStep(c) \/ CallStep(c) \/ ThreadRequest(c)
                     \/ \E t \in Threads : KillCancel(c, t)

SchedSpec == SchedInit /\ [][SchedNext]_schedVars

-----------------------------------------------------------------------------
(* Properties.                                                             *)

Labels == {"user", "exit", "out", "place", "unblock", "enqueue", "handoff",
           "handover", "handback", "invalid", "sent", "queue", "rwake", "kscan",
           "kcancel", "kready", "new", "gone", "run", "scan", "take",
           "dispatch", "after", "idle", "sti", "hlt", "irq", "off"}

\* Every variable holds a value the code's types allow.
SchedTypeOK ==
  /\ state \in [Threads -> States]
  /\ cpuOf \in [Threads -> Cpus]
  /\ runq \in [Cpus -> SUBSET Threads]
  /\ idle \in [Cpus -> BOOLEAN] /\ ipi \in [Cpus -> BOOLEAN]
  /\ current \in [Cpus -> Threads \cup Cpus]
  /\ reap \in [Cpus -> Threads \cup {NoThread}]
  /\ depth \in [Cpus -> Nat]
  /\ sleepers \subseteq Threads /\ expired \subseteq Threads
  /\ killing \in [Tasks -> BOOLEAN] /\ dead \in [Tasks -> BOOLEAN]
  /\ members \in [Tasks -> SUBSET Threads]
  /\ pc \in [Contexts -> Labels] /\ ret \in [Contexts -> Labels]
  /\ arg \in [Contexts -> Threads \cup {NoThread}]
  /\ aux \in [Contexts -> Tasks \cup Cpus \cup {NoAux}]

\* No thread is the current thread of two CPUs: two CPUs would run on one
\* kernel stack.
OneCpuPerThread ==
  \A c, d \in Cpus : c # d => current[c] # current[d]

\* A READY thread is in exactly one run queue or in the hands of the scheduler
\* that popped it, and only READY threads are queued, so runq_push never links
\* a thread that is linked already.
ReadyIsQueuedOnce ==
  \A t \in Threads :
    LET on == {c \in Cpus : t \in runq[c]}
        held == {c \in Cpus : arg[c] = t}
    IN IF state[t] = "READY"
       THEN on \cap held = {} /\ \E c \in Cpus : on \cup held = {c}
       ELSE on = {} /\ held = {}

\* A thread is returned to the pool only when no CPU executes on its stack
\* (README: exited threads are reaped from the scheduler stack).
ReapedOffStack ==
  \A t \in Threads : state[t] = "EMPTY" => \A c \in Cpus : current[c] # t

\* handoff_depth counts the hand-offs in progress on its CPU and is at most
\* one; a depth left behind would turn hand-off off on that CPU for good.
DepthCountsHandoffs ==
  \A c \in Cpus :
    /\ depth[c] <= 1
    /\ depth[c] = Cardinality({t \in Threads : pc[t] = "handback" /\ aux[t] = c})

WakePending(t) ==
  \E x \in Contexts :
    /\ arg[x] = t
    /\ pc[x] \in {"unblock", "enqueue", "handoff", "handover", "kcancel"}

\* A thread is queued and run only on CPUs of its affinity mask, whether it got
\* there by creation, wake-up, preemption, hand-off or idle pull.
AffinityRespected ==
  \A c \in Cpus : \A t \in Threads :
    t \in runq[c] \/ current[c] = t => c \in Affinity[t]

\* A sleeping thread stays wakeable: a thread that is blocked with no wait
\* registered is on the sleep list, on the list of expired sleepers, or about
\* to be woken.
SleeperWillBeWoken ==
  \A t \in Threads : state[t] = "BLOCKED" =>
    t \in sleepers \cup expired \/ WakePending(t)

\* task->dead is set exactly when the last thread of a task has been reaped,
\* and from then on none of its threads is queued, running or asleep.
DeadIsGone ==
  \A k \in Tasks : dead[k] =>
    /\ members[k] = {}
    /\ \A t \in Threads : TaskOf[t] = k =>
         /\ t \notin sleepers \cup expired
         /\ \A c \in Cpus : t \notin runq[c] /\ current[c] # t

\* A thread that exists is in one place, the one its state names: on one CPU, in
\* one run queue, asleep with a wake-up to come, or freed with no CPU on it; the
\* threads of a dead task are in none.
ThreadInOnePlace ==
  /\ OneCpuPerThread /\ ReadyIsQueuedOnce /\ ReapedOffStack /\ SleeperWillBeWoken
  /\ DeadIsGone

-----------------------------------------------------------------------------
\* Every CPU goes on with its kernel work, its timer ticks, no queued thread is
\* passed over for ever, and user code makes a system call now and then.
SchedFairness ==
  /\ \A c \in Cpus :
       /\ SF_schedVars(SchedulerStep(c))
       /\ SF_schedVars(CallStep(c) \/ \E t \in Threads : KillCancel(c, t))
       /\ SF_schedVars(runq[c] # {} /\ \E t \in Threads : YieldOrPreempt(c, t))
  /\ \A t \in Threads : \A c \in Affinity[t] : SF_schedVars(RunPop(c) /\ arg'[c] = t)
  /\ WF_schedVars(IrqNext)
  /\ WF_schedVars(IrqStart(sleepers))
  /\ \A t \in Threads : SF_schedVars(\E c \in Cpus : Killed(t) /\ ThreadExit(c, t))


\* A task that is being killed dies: every one of its threads, wherever it was
\* running, queued, asleep or blocked, is found and reaped.
KilledDies == \A k \in Tasks : killing[k] ~> dead[k]

\* A sleeper whose time has come runs again.
SleeperRuns ==
  \A t \in Threads : (t \in expired) ~> (state[t] \in {"RUNNING", "EMPTY"})
=============================================================================
