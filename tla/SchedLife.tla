---------------------------- MODULE SchedLife ----------------------------
(***************************************************************************)
(* Every thread is in one place, from its creation to its reaping, on any  *)
(* number of CPUs, provided no thread is pulled and no task killed.        *)
(***************************************************************************)
EXTENDS SchedProofs

\* No thread that idle pull may move has two CPUs to move between. A thread
\* that yields is queued before its CPU is off its stack, and a pull then runs
\* it on two CPUs; the theorem is about the machines where this cannot be.
NoPull == \A t \in Pullable : \A c, d \in Affinity[t] : c = d

\* No task is killed: task_kill's wake-up of a sleeper and the timer's may both
\* find the thread blocked, and queue it twice.
NoKill == Killable = {}

\* The shape of the scheduler's tables.
LifeShape ==
  /\ DOMAIN pc = Contexts /\ DOMAIN ret = Contexts /\ DOMAIN arg = Contexts
  /\ DOMAIN state = Threads /\ DOMAIN cpuOf = Threads
  /\ DOMAIN current = Cpus /\ DOMAIN runq = Cpus
  /\ DOMAIN members = Tasks /\ DOMAIN dead = Tasks
  /\ killing = [k \in Tasks |-> FALSE]

\* A thread: where its own context may be, and where each state puts it.
\* cpu_id is what makes the places exclusive: a thread is queued, held and
\* current on that CPU only.
LifeThreads ==
  \A t \in Threads :
    /\ cpuOf[t] \in Affinity[t]
    /\ pc[t] \in {"user", "out", "place", "new", "gone"}
    /\ pc[t] \in {"out", "place"} => ret[t] = "user" /\ current[cpuOf[t]] = t
    /\ pc[t] = "place" => state[t] = "RUNNING"
    /\ pc[t] = "new" => state[t] = "EMPTY"
    /\ pc[t] = "gone" => state[t] \in {"DEAD", "EMPTY"}
    /\ state[t] \in {"EMPTY", "READY", "RUNNING", "BLOCKED", "DEAD"}
    /\ state[t] = "READY" => t \in runq[cpuOf[t]] \/ arg[cpuOf[t]] = t
    /\ state[t] = "RUNNING" => current[cpuOf[t]] = t

\* A CPU: what is queued on it, held by its scheduler and current on it.
LifeCpus ==
  \A c \in Cpus :
    /\ pc[c] \in {"run", "scan", "dispatch", "after", "idle", "sti", "hlt"}
    /\ pc[c] = "dispatch" => current[c] = c /\ arg[c] \in Threads
    /\ pc[c] # "dispatch" => arg[c] = NoThread
    /\ current[c] \in Threads \cup {c}
    /\ runq[c] \subseteq Threads
    /\ \A t \in Threads :
         /\ t \in runq[c] => cpuOf[t] = c /\ state[t] = "READY" /\ arg[c] # t
         /\ arg[c] = t => cpuOf[t] = c /\ state[t] = "READY"
         /\ current[c] = t =>
              /\ cpuOf[t] = c
              /\ \/ state[t] = "RUNNING" /\ pc[t] \in {"user", "place"}
                 \/ state[t] \in {"READY", "BLOCKED"} /\ pc[t] = "out"

\* The sleepers, on the list, on the private list or with the interrupt.
LifeSleep ==
  /\ sleepers \subseteq Threads /\ expired \subseteq Threads
  /\ sleepers \cap expired = {}
  /\ \A t \in sleepers \cup expired : state[t] = "BLOCKED"
  /\ pc[Irq] \in {"off", "irq", "unblock", "enqueue"}
  /\ pc[Irq] \in {"unblock", "enqueue"} =>
       /\ arg[Irq] \in Threads /\ ret[Irq] = "irq"
       /\ state[arg[Irq]] = "BLOCKED" /\ arg[Irq] \notin sleepers \cup expired

\* A task's list holds its threads, from thread_create to the reaping.
LifeTasks ==
  /\ \A k \in Tasks : dead[k] => members[k] = {}
  /\ \A t \in Threads : state[t] # "EMPTY" => t \in members[TaskOf[t]]
  /\ \A t \in Threads : pc[t] = "place" =>
       /\ arg[t] \in Threads /\ arg[t] \in members[TaskOf[arg[t]]]
       /\ state[arg[t]] = "EMPTY" /\ pc[arg[t]] = "user"
  /\ \A t, u \in Threads : pc[t] = "place" /\ pc[u] = "place" /\ arg[t] = arg[u] => t = u

\* The inductive invariant.
LifeInv == LifeShape /\ LifeThreads /\ LifeCpus /\ LifeSleep /\ LifeTasks

\* An affinity mask holds CPUs.
LEMMA MaskOfCpus == \A t \in Threads : \A c \in Affinity[t] : c \in Cpus
  BY ZenonT(30), SchedConstants

-----------------------------------------------------------------------------
\* The scheduler thread moves on with no thread in its hands.
LEMMA LifeMove ==
  ASSUME LifeInv, NEW c \in Cpus, NEW l \in {"run", "scan", "after", "idle", "sti", "hlt"},
         pc[c] # "dispatch", pc' = [pc EXCEPT ![c] = l],
         UNCHANGED <<state, cpuOf, runq, current, sleepers, expired, killing, dead,
                     members, ret, arg>>
  PROVE  LifeInv'
  <1> USE SchedConstants DEF LifeInv, LifeShape, Contexts
  <1>1. LifeShape'
    BY ZenonT(30)
  <1>2. LifeThreads'
    BY SMTT(30) DEF LifeThreads
  <1>3. LifeCpus'
    BY SMTT(30) DEF LifeCpus
  <1>4. LifeSleep'
    BY ZenonT(30) DEF LifeSleep
  <1>5. LifeTasks'
    BY SMTT(30) DEF LifeTasks
  <1> QED
    BY ZenonT(30), <1>1, <1>2, <1>3, <1>4, <1>5

\* A step that leaves all of this alone.
LEMMA LifeStutter ==
  ASSUME LifeInv,
         UNCHANGED <<state, cpuOf, runq, current, sleepers, expired, killing, dead, members,
                     pc, ret, arg>>
  PROVE  LifeInv'
  <1> USE DEF LifeInv
  <1>1. LifeShape' /\ LifeThreads'
    BY ZenonT(30) DEF LifeShape, LifeThreads
  <1>2. LifeCpus'
    BY SMTT(30) DEF LifeCpus
  <1>3. LifeSleep' /\ LifeTasks'
    BY ZenonT(30) DEF LifeSleep, LifeTasks
  <1> QED
    BY ZenonT(30), <1>1, <1>2, <1>3

\* runq_pop takes a thread into the scheduler's hands.
LEMMA LifePop ==
  ASSUME LifeInv, NEW c \in Cpus, NEW t \in runq[c], current[c] = c, pc[c] = "run",
         runq' = [runq EXCEPT ![c] = @ \ {t}], arg' = [arg EXCEPT ![c] = t],
         pc' = [pc EXCEPT ![c] = "dispatch"],
         UNCHANGED <<state, cpuOf, current, reap, sleepers, expired, killing, dead, members, ret>>
  PROVE  LifeInv'
  <1> USE SchedConstants DEF LifeInv, LifeShape, Contexts
  <1>0. t \in Threads /\ cpuOf[t] = c /\ state[t] = "READY"
    BY SMTT(30) DEF LifeCpus
  <1>1. LifeShape'
    BY ZenonT(30)
  <1>2. LifeThreads'
    BY SMTT(30), <1>0 DEF LifeThreads, LifeCpus
  <1>3. LifeCpus'
    BY SMTT(30), <1>0 DEF LifeCpus, LifeThreads
  <1>4. LifeSleep'
    BY ZenonT(30) DEF LifeSleep
  <1>5. LifeTasks'
    BY SMTT(30) DEF LifeTasks
  <1> QED
    BY ZenonT(30), <1>1, <1>2, <1>3, <1>4, <1>5

\* sched_run makes the popped thread current: nobody else can hold it.
LEMMA LifeDispatch ==
  ASSUME LifeInv, NEW c \in Cpus, NEW t \in Threads, t = arg[c], pc[c] = "dispatch",
         state' = [state EXCEPT ![t] = "RUNNING"], current' = [current EXCEPT ![c] = t],
         pc' = [pc EXCEPT ![c] = "after"], arg' = [arg EXCEPT ![c] = NoThread],
         UNCHANGED <<cpuOf, runq, reap, sleepers, expired, killing, dead, members, ret>>
  PROVE  LifeInv'
  <1> USE SchedConstants DEF LifeInv, LifeShape, Contexts
  <1>0. cpuOf[t] = c /\ state[t] = "READY" /\ current[c] = c /\ t \notin runq[c]
    BY SMTT(30) DEF LifeCpus
  <1>01. pc[t] = "user"
    BY SMTT(30), <1>0 DEF LifeThreads
  <1>1. LifeShape'
    BY ZenonT(30)
  <1>2. LifeThreads'
    BY SMTT(30), <1>0, <1>01 DEF LifeThreads, LifeCpus
  <1>3. LifeCpus'
    BY SMTT(30), <1>0, <1>01 DEF LifeCpus, LifeThreads
  <1>4. LifeSleep'
    BY ZenonT(30), <1>0 DEF LifeSleep
  <1>5. LifeTasks'
    BY SMTT(30), <1>0 DEF LifeTasks
  <1> QED
    BY ZenonT(30), <1>1, <1>2, <1>3, <1>4, <1>5

\* sched_reap_thread frees a dead thread, and its task with the last one.
LEMMA LifeReap ==
  ASSUME LifeInv, NEW c \in Cpus, NEW r \in Threads, state[r] = "DEAD", pc[c] = "after",
         state' = [state EXCEPT ![r] = "EMPTY"],
         members' = [members EXCEPT ![TaskOf[r]] = @ \ {r}],
         dead' = [dead EXCEPT ![TaskOf[r]] = @ \/ members[TaskOf[r]] \ {r} = {}],
         reap' = [reap EXCEPT ![c] = NoThread], pc' = [pc EXCEPT ![c] = "run"],
         UNCHANGED <<cpuOf, runq, current, sleepers, expired, killing, ret, arg>>
  PROVE  LifeInv'
  <1> USE SchedConstants DEF LifeInv, LifeShape, Contexts
  <1>1. LifeShape'
    BY ZenonT(30)
  <1>2. LifeThreads'
    BY ZenonT(30) DEF LifeThreads
  <1>3. LifeCpus'
    BY SMTT(30) DEF LifeCpus
  <1>4. LifeSleep'
    BY ZenonT(30) DEF LifeSleep
  <1>5. LifeTasks'
    <2>1. \A k \in Tasks : members'[k] = IF k = TaskOf[r] THEN members[k] \ {r} ELSE members[k]
      BY ZenonT(30)
    <2>2. \A k \in Tasks : dead'[k] => members'[k] = {}
      <3> SUFFICES ASSUME NEW k \in Tasks, dead'[k] PROVE members'[k] = {}
        BY ZenonT(30)
      <3>1. CASE k # TaskOf[r]
        BY ZenonT(30), <2>1, <3>1 DEF LifeTasks
      <3>2. CASE k = TaskOf[r]
        <4>1. dead[k] \/ members[k] \ {r} = {}
          BY ZenonT(30), <3>2
        <4> QED
          BY ZenonT(30), <2>1, <3>2, <4>1 DEF LifeTasks
      <3> QED
        BY ZenonT(30), <3>1, <3>2
    <2>3. \A t \in Threads : state'[t] # "EMPTY" => t \in members'[TaskOf[t]]
      BY ZenonT(30), <2>1 DEF LifeTasks
    <2>4. \A t \in Threads : pc'[t] = "place" =>
            /\ arg'[t] \in Threads /\ arg'[t] \in members'[TaskOf[arg'[t]]]
            /\ state'[arg'[t]] = "EMPTY" /\ pc'[arg'[t]] = "user"
      BY SMTT(30), <2>1 DEF LifeTasks
    <2>5. \A t, u \in Threads :
            pc'[t] = "place" /\ pc'[u] = "place" /\ arg'[t] = arg'[u] => t = u
      BY SMTT(30) DEF LifeTasks
    <2> QED
      BY ZenonT(30), <2>2, <2>3, <2>4, <2>5 DEF LifeTasks
  <1> QED
    BY ZenonT(30), <1>1, <1>2, <1>3, <1>4, <1>5

\* Every step of sched_run and sched_idle_loop.
LEMMA LifeScheduler ==
  ASSUME NoPull, LifeInv, NEW c \in Cpus, SchedulerStep(c)
  PROVE  LifeInv'
  <1> USE SchedConstants DEF SchedAt, Executes, Goto
  <1>0. pc[c] \in {"run", "scan", "dispatch", "after", "idle", "sti", "hlt"} /\ c \in Contexts
    BY ZenonT(30) DEF LifeInv, LifeCpus, Contexts
  <1>1. CASE RunPop(c)
    <2>0. pc[c] = "run" /\ current[c] = c
      BY ZenonT(30), <1>1 DEF RunPop
    <2>1. CASE \E t \in runq[c] : /\ runq' = Dequeue(c, t) /\ arg' = [arg EXCEPT ![c] = t]
                                  /\ Goto(c, "dispatch")
      BY ZenonT(30), <1>1, <2>0, <2>1, LifePop DEF RunPop, Dequeue
    <2>2. CASE /\ Goto(c, IF Cardinality(Cpus) < 2 THEN "idle" ELSE "scan")
               /\ UNCHANGED <<runq, arg>>
      <3>1. CASE Cardinality(Cpus) < 2
        BY ZenonT(30), <1>1, <2>0, <2>2, <3>1, LifeMove DEF RunPop
      <3>2. CASE ~(Cardinality(Cpus) < 2)
        BY ZenonT(30), <1>1, <2>0, <2>2, <3>2, LifeMove DEF RunPop
      <3> QED
        BY ZenonT(30), <3>1, <3>2
    <2> QED
      BY ZenonT(30), <1>1, <2>1, <2>2 DEF RunPop
  <1>2. CASE PullScan(c)
    <2>1. \A d \in Cpus : ~Stealable(c, d)
      BY SMTT(30) DEF NoPull, Stealable, Eligible, LifeInv, LifeCpus, LifeThreads
    <2>2. pc[c] = "scan" /\ pc' = [pc EXCEPT ![c] = "idle"]
      BY ZenonT(30), <1>2, <2>1 DEF PullScan
    <2> QED
      BY ZenonT(30), <1>2, <2>2, LifeMove DEF PullScan
  <1>3. CASE PullTake(c)
    BY ZenonT(30), <1>0, <1>3 DEF PullTake
  <1>4. CASE Dispatch(c)
    <2>1. PICK t \in Threads : t = arg[c] /\ pc[c] = "dispatch"
      BY ZenonT(30), <1>4 DEF Dispatch, LifeInv, LifeCpus
    <2>2. ~Killed(t)
      BY ZenonT(30) DEF Killed, LifeInv, LifeShape
    <2>3. /\ state' = [state EXCEPT ![t] = "RUNNING"] /\ current' = [current EXCEPT ![c] = t]
          /\ pc' = [pc EXCEPT ![c] = "after"] /\ UNCHANGED <<members, dead>>
      BY ZenonT(30), <1>4, <2>1, <2>2 DEF Dispatch
    <2> QED
      BY ZenonT(30), <1>4, <2>1, <2>3, LifeDispatch DEF Dispatch
  <1>5. CASE AfterSwitch(c)
    <2>0. pc[c] = "after" /\ pc' = [pc EXCEPT ![c] = "run"] /\ ReapSlot(c)
          /\ UNCHANGED <<cpuOf, runq, current, sleepers, expired, killing, ret, arg>>
      BY ZenonT(30), <1>5 DEF AfterSwitch
    <2>1. CASE reap[c] \in Threads /\ state[reap[c]] = "DEAD"
      <3>1. PICK r \in Threads : r = reap[c]
        BY ZenonT(30), <2>1
      <3>2. /\ state' = [state EXCEPT ![r] = "EMPTY"]
            /\ members' = [members EXCEPT ![TaskOf[r]] = @ \ {r}]
            /\ dead' = [dead EXCEPT ![TaskOf[r]] = @ \/ members[TaskOf[r]] \ {r} = {}]
            /\ reap' = [reap EXCEPT ![c] = NoThread]
        BY ZenonT(30), <2>0, <2>1, <3>1 DEF ReapSlot, ReapEffect, IsLast
      <3> QED
        BY ZenonT(30), <2>0, <2>1, <3>1, <3>2, LifeReap
    <2>2. CASE ~(reap[c] \in Threads /\ state[reap[c]] = "DEAD")
      <3>1. UNCHANGED <<state, members, dead>> /\ reap' = [reap EXCEPT ![c] = NoThread]
        BY ZenonT(30), <2>0, <2>2 DEF ReapSlot
      <3> QED
        BY ZenonT(30), <2>0, <3>1, LifeMove
    <2> QED
      BY ZenonT(30), <2>1, <2>2
  <1>6. CASE IdleWait(c)
    <2>1. CASE runq[c] = {}
      BY ZenonT(30), <1>6, <2>1, LifeMove DEF IdleWait
    <2>2. CASE runq[c] # {}
      BY ZenonT(30), <1>6, <2>2, LifeMove DEF IdleWait
    <2> QED
      BY ZenonT(30), <2>1, <2>2
  <1>7. CASE Halt(c)
    BY ZenonT(30), <1>7, LifeMove DEF Halt
  <1>8. CASE Wake(c)
    BY ZenonT(30), <1>8, LifeMove DEF Wake
  <1>9. CASE TakeIpi(c)
    BY ZenonT(30), <1>9, LifeStutter DEF TakeIpi
  <1> QED
    BY ZenonT(30), <1>1, <1>2, <1>3, <1>4, <1>5, <1>6, <1>7, <1>8, <1>9 DEF SchedulerStep

-----------------------------------------------------------------------------
\* sched_enqueue_on_reason queues on the CPU asked for when the mask allows.
LEMMA LifeEnqueue ==
  ASSUME LifeInv, NEW me \in Cpus, NEW c \in Cpus, NEW t \in Threads, NEW w,
         EnqueueOn(me, c, t, w)
  PROVE  \E d \in Affinity[t] :
           /\ c \in Affinity[t] => d = c
           /\ state' = [state EXCEPT ![t] = "READY"] /\ cpuOf' = [cpuOf EXCEPT ![t] = d]
           /\ runq' = [runq EXCEPT ![d] = @ \cup {t}]
  BY ZenonT(30) DEF EnqueueOn, EnqueueCpus, AutoCpus

\* thread_yield and preemption: queued on the CPU that is still on its stack.
LEMMA LifeYield ==
  ASSUME LifeInv, NEW c \in Cpus, NEW t \in Threads, current[c] = t, pc[t] = "user",
         state' = [state EXCEPT ![t] = "READY"], cpuOf' = [cpuOf EXCEPT ![t] = c],
         runq' = [runq EXCEPT ![c] = @ \cup {t}],
         pc' = [pc EXCEPT ![t] = "out"], ret' = [ret EXCEPT ![t] = "user"],
         UNCHANGED <<current, sleepers, expired, killing, dead, members, arg>>
  PROVE  LifeInv'
  <1> USE SchedConstants DEF LifeInv, LifeShape, Contexts
  <1>0. state[t] = "RUNNING" /\ cpuOf[t] = c /\ arg[c] # t
    BY SMTT(30) DEF LifeCpus
  <1>1. LifeShape'
    BY ZenonT(30)
  <1>2. LifeThreads'
    BY SMTT(30), <1>0 DEF LifeThreads
  <1>3. LifeCpus'
    BY SMTT(30), <1>0 DEF LifeCpus
  <1>4. LifeSleep'
    BY ZenonT(30), <1>0 DEF LifeSleep
  <1>5. LifeTasks'
    BY SMTT(30), <1>0 DEF LifeTasks
  <1> QED
    BY ZenonT(30), <1>1, <1>2, <1>3, <1>4, <1>5

\* thread_sleep_ticks: blocked and listed while its CPU is on its stack.
LEMMA LifeBlock ==
  ASSUME LifeInv, NEW c \in Cpus, NEW t \in Threads, current[c] = t, pc[t] = "user",
         state' = [state EXCEPT ![t] = "BLOCKED"], sleepers' = sleepers \cup {t},
         pc' = [pc EXCEPT ![t] = "out"], ret' = [ret EXCEPT ![t] = "user"],
         UNCHANGED <<cpuOf, runq, current, expired, killing, dead, members, arg>>
  PROVE  LifeInv'
  <1> USE SchedConstants DEF LifeInv, LifeShape, Contexts
  <1>0. state[t] = "RUNNING" /\ cpuOf[t] = c
    BY SMTT(30) DEF LifeCpus
  <1>1. LifeShape'
    BY ZenonT(30)
  <1>2. LifeThreads'
    BY ZenonT(30), <1>0 DEF LifeThreads
  <1>3. LifeCpus'
    BY SMTT(30), <1>0 DEF LifeCpus
  <1>4. LifeSleep'
    BY SMTT(30), <1>0 DEF LifeSleep
  <1>5. LifeTasks'
    BY SMTT(30), <1>0 DEF LifeTasks
  <1> QED
    BY ZenonT(30), <1>1, <1>2, <1>3, <1>4, <1>5

\* thread_create_placed links a new thread into its task.
LEMMA LifeCreate ==
  ASSUME LifeInv, NEW c \in Cpus, NEW t \in Threads, NEW u \in Threads, current[c] = t,
         pc[t] = "user", pc[u] = "new", ~dead[TaskOf[u]],
         members' = [members EXCEPT ![TaskOf[u]] = @ \cup {u}],
         pc' = [pc EXCEPT ![t] = "place", ![u] = "user"],
         arg' = [arg EXCEPT ![t] = u], ret' = [ret EXCEPT ![t] = "user"],
         UNCHANGED <<state, cpuOf, runq, current, sleepers, expired, killing, dead>>
  PROVE  LifeInv'
  <1> USE SchedConstants DEF LifeInv, LifeShape, Contexts
  <1>0. state[t] = "RUNNING" /\ cpuOf[t] = c /\ state[u] = "EMPTY" /\ t # u
    BY SMTT(30) DEF LifeCpus, LifeThreads
  <1>1. LifeShape'
    BY ZenonT(30)
  <1>2. LifeThreads'
    BY SMTT(30), <1>0 DEF LifeThreads
  <1>3. LifeCpus'
    BY SMTT(30), <1>0 DEF LifeCpus
  <1>4. LifeSleep'
    BY ZenonT(30), <1>0 DEF LifeSleep
  <1>5. LifeTasks'
    BY SMTT(30), <1>0 DEF LifeTasks
  <1> QED
    BY ZenonT(30), <1>1, <1>2, <1>3, <1>4, <1>5

\* thread_exit: the thread is left for the scheduler thread to reap.
LEMMA LifeExit ==
  ASSUME LifeInv, NEW c \in Cpus, NEW t \in Threads, current[c] = t, pc[t] = "user",
         state' = [state EXCEPT ![t] = "DEAD"], current' = [current EXCEPT ![c] = c],
         pc' = [pc EXCEPT ![t] = "gone"],
         UNCHANGED <<cpuOf, runq, sleepers, expired, killing, dead, members, ret, arg>>
  PROVE  LifeInv'
  <1> USE SchedConstants DEF LifeInv, LifeShape, Contexts
  <1>0. state[t] = "RUNNING" /\ cpuOf[t] = c
    BY SMTT(30) DEF LifeCpus, LifeThreads
  <1>1. LifeShape'
    BY ZenonT(30)
  <1>2. LifeThreads'
    BY SMTT(30), <1>0 DEF LifeThreads
  <1>3. LifeCpus'
    BY SMTT(30), <1>0 DEF LifeCpus
  <1>4. LifeSleep'
    BY ZenonT(30), <1>0 DEF LifeSleep
  <1>5. LifeTasks'
    BY SMTT(30), <1>0 DEF LifeTasks
  <1> QED
    BY ZenonT(30), <1>1, <1>2, <1>3, <1>4, <1>5

\* Every request of a running thread.
LEMMA LifeRequest ==
  ASSUME NoKill, LifeInv, NEW c \in Cpus, ThreadRequest(c)
  PROVE  LifeInv'
  <1> USE SchedConstants DEF ThreadAt, Executes, Goto
  <1>0. PICK t \in Threads :
          \/ YieldOrPreempt(c, t) \/ ThreadSleep(c, t) \/ ThreadExit(c, t)
          \/ \E u \in Threads : ThreadCreate(c, t, u)
    BY ZenonT(30) DEF ThreadRequest, NoKill
  <1>1. CASE YieldOrPreempt(c, t)
    <2>1. current[c] = t /\ pc[t] = "user"
      BY ZenonT(30), <1>1 DEF YieldOrPreempt
    <2>2. c \in Affinity[t]
      BY SMTT(30), <2>1 DEF LifeInv, LifeCpus, LifeThreads
    <2>3. /\ state' = [state EXCEPT ![t] = "READY"] /\ cpuOf' = [cpuOf EXCEPT ![t] = c]
          /\ runq' = [runq EXCEPT ![c] = @ \cup {t}]
      <3>1. EnqueueOn(c, c, t, FALSE)
        BY ZenonT(30), <1>1 DEF YieldOrPreempt
      <3>2. PICK d \in Affinity[t] :
              /\ c \in Affinity[t] => d = c
              /\ state' = [state EXCEPT ![t] = "READY"] /\ cpuOf' = [cpuOf EXCEPT ![t] = d]
              /\ runq' = [runq EXCEPT ![d] = @ \cup {t}]
        BY ZenonT(30), <3>1, LifeEnqueue
      <3> QED
        BY ZenonT(30), <2>2, <3>2
    <2> QED
      BY ZenonT(30), <1>1, <2>1, <2>3, LifeYield DEF YieldOrPreempt
  <1>2. CASE ThreadSleep(c, t)
    BY ZenonT(30), <1>2, LifeBlock DEF ThreadSleep
  <1>3. CASE ThreadExit(c, t)
    <2>1. pc[t] = "user"
      BY ZenonT(30), <1>3 DEF ThreadExit, LifeInv, LifeThreads
    <2> QED
      BY ZenonT(30), <1>3, <2>1, LifeExit DEF ThreadExit, ExitEffect
  <1>4. ASSUME NEW u \in Threads, ThreadCreate(c, t, u) PROVE LifeInv'
    BY ZenonT(30), <1>4, LifeCreate DEF ThreadCreate
  <1> QED
    BY ZenonT(30), <1>0, <1>1, <1>2, <1>3, <1>4

-----------------------------------------------------------------------------
\* The switch to the scheduler thread: from now on the thread may be popped.
LEMMA LifeSwitch ==
  ASSUME LifeInv, NEW c \in Cpus, NEW t \in Threads, current[c] = t, pc[t] = "out",
         current' = [current EXCEPT ![c] = c], pc' = [pc EXCEPT ![t] = "user"],
         UNCHANGED <<state, cpuOf, runq, sleepers, expired, killing, dead, members, ret, arg>>
  PROVE  LifeInv'
  <1> USE SchedConstants DEF LifeInv, LifeShape, Contexts
  <1>0. state[t] \in {"READY", "BLOCKED"} /\ cpuOf[t] = c
    BY SMTT(30) DEF LifeCpus, LifeThreads
  <1>1. LifeShape'
    BY ZenonT(30)
  <1>2. LifeThreads'
    BY SMTT(30), <1>0 DEF LifeThreads
  <1>3. LifeCpus'
    BY SMTT(30), <1>0 DEF LifeCpus
  <1>4. LifeSleep'
    BY ZenonT(30), <1>0 DEF LifeSleep
  <1>5. LifeTasks'
    BY SMTT(30), <1>0 DEF LifeTasks
  <1> QED
    BY ZenonT(30), <1>1, <1>2, <1>3, <1>4, <1>5

\* A new thread u is queued for the first time, on CPU d.
LEMMA LifePlace ==
  ASSUME LifeInv, NEW c \in Cpus, NEW t \in Threads, NEW u \in Threads, NEW d \in Affinity[u],
         current[c] = t, pc[t] = "place", u = arg[t],
         state' = [state EXCEPT ![u] = "READY"], cpuOf' = [cpuOf EXCEPT ![u] = d],
         runq' = [runq EXCEPT ![d] = @ \cup {u}], arg' = [arg EXCEPT ![t] = NoThread],
         pc' = [pc EXCEPT ![t] = "user"],
         UNCHANGED <<current, sleepers, expired, killing, dead, members, ret>>
  PROVE  LifeInv'
  <1> USE SchedConstants DEF LifeInv, LifeShape, Contexts
  <1>0. /\ state[t] = "RUNNING" /\ cpuOf[t] = c /\ state[u] = "EMPTY" /\ t # u /\ d \in Cpus
        /\ pc[u] = "user" /\ u \in members[TaskOf[u]]
    <2>1. d \in Cpus
      BY ZenonT(30), MaskOfCpus
    <2>2. state[t] = "RUNNING" /\ cpuOf[t] = c
      BY SMTT(30) DEF LifeCpus
    <2>3. state[u] = "EMPTY" /\ pc[u] = "user" /\ u \in members[TaskOf[u]]
      BY ZenonT(30) DEF LifeTasks
    <2> QED
      BY ZenonT(30), <2>1, <2>2, <2>3
  <1>1. LifeShape'
    BY ZenonT(30), <1>0
  <1>2. LifeThreads'
    BY SMTT(30), <1>0 DEF LifeThreads, LifeCpus
  <1>3. LifeCpus'
    BY SMTT(30), <1>0 DEF LifeCpus
  <1>4. LifeSleep'
    BY ZenonT(30), <1>0 DEF LifeSleep
  <1>5. LifeTasks'
    BY SMTT(30), <1>0 DEF LifeTasks
  <1> QED
    BY ZenonT(30), <1>1, <1>2, <1>3, <1>4, <1>5

\* thread_unblock by the interrupt queues the sleeper u.
LEMMA LifeUnblock ==
  ASSUME LifeInv, NEW u \in Threads, pc[Irq] = "enqueue", u = arg[Irq],
         state' = [state EXCEPT ![u] = "READY"], cpuOf' = [cpuOf EXCEPT ![u] = cpuOf[u]],
         runq' = [runq EXCEPT ![cpuOf[u]] = @ \cup {u}],
         arg' = [arg EXCEPT ![Irq] = NoThread], pc' = [pc EXCEPT ![Irq] = "irq"],
         UNCHANGED <<current, sleepers, expired, killing, dead, members, ret>>
  PROVE  LifeInv'
  <1> USE SchedConstants DEF LifeInv, LifeShape, Contexts
  <1>0. state[u] = "BLOCKED" /\ u \notin sleepers \cup expired /\ cpuOf[u] \in Cpus
    <2>1. state[u] = "BLOCKED" /\ u \notin sleepers \cup expired
      BY ZenonT(30) DEF LifeSleep
    <2>2. cpuOf[u] \in Cpus
      BY ZenonT(30), MaskOfCpus DEF LifeThreads
    <2> QED
      BY ZenonT(30), <2>1, <2>2
  <1>1. LifeShape'
    BY ZenonT(30), <1>0
  <1>2. LifeThreads'
    BY SMTT(30), <1>0 DEF LifeThreads
  <1>3. LifeCpus'
    BY SMTT(30), <1>0 DEF LifeCpus
  <1>4. LifeSleep'
    BY ZenonT(30), <1>0 DEF LifeSleep
  <1>5. LifeTasks'
    BY SMTT(30), <1>0 DEF LifeTasks
  <1> QED
    BY ZenonT(30), <1>1, <1>2, <1>3, <1>4, <1>5

\* The interrupt found its sleeper blocked, as it always does here.
LEMMA LifeIrqMove ==
  ASSUME LifeInv, pc[Irq] = "unblock", pc' = [pc EXCEPT ![Irq] = "enqueue"],
         UNCHANGED <<state, cpuOf, runq, current, sleepers, expired, killing, dead, members, ret,
                     arg>>
  PROVE  LifeInv'
  <1> USE SchedConstants DEF LifeInv, LifeShape, Contexts
  <1>1. LifeShape'
    BY ZenonT(30)
  <1>2. LifeThreads'
    BY ZenonT(30) DEF LifeThreads
  <1>3. LifeCpus'
    BY SMTT(30) DEF LifeCpus
  <1>4. LifeSleep'
    BY ZenonT(30) DEF LifeSleep
  <1>5. LifeTasks'
    BY SMTT(30) DEF LifeTasks
  <1> QED
    BY ZenonT(30), <1>1, <1>2, <1>3, <1>4, <1>5

\* Every step in the middle of a call; nothing but the interrupt unblocks.
LEMMA LifeCall ==
  ASSUME LifeInv, NEW c \in Cpus, CallStep(c)
  PROVE  LifeInv'
  <1> USE SchedConstants DEF ThreadAt, ContextAt, Executes, Goto
  <1>1. ASSUME NEW t \in Threads, SwitchOut(c, t) PROVE LifeInv'
    <2>1. current[c] = t /\ pc[t] = "out" /\ ret[t] = "user"
      BY SMTT(30), <1>1 DEF SwitchOut, LifeInv, LifeThreads
    <2> QED
      BY ZenonT(30), <1>1, <2>1, LifeSwitch DEF SwitchOut
  <1>2. ASSUME NEW t \in Threads, PlaceNew(c, t) PROVE LifeInv'
    <2>1. PICK u \in Threads : u = arg[t] /\ pc[t] = "place" /\ current[c] = t /\ ret[t] = "user"
      <3>1. pc[t] = "place" /\ current[c] = t
        BY ZenonT(30), <1>2 DEF PlaceNew
      <3>2. arg[t] \in Threads
        BY ZenonT(30), <3>1 DEF LifeInv, LifeTasks
      <3>3. ret[t] = "user"
        BY ZenonT(30), <3>1 DEF LifeInv, LifeThreads
      <3> QED
        BY ZenonT(30), <3>1, <3>2, <3>3
    <2>2. PICK e \in Affinity[u] : EnqueueOn(c, e, u, FALSE)
      BY ZenonT(30), <1>2, <2>1 DEF PlaceNew, AutoCpus
    <2>3. e \in Cpus
      BY ZenonT(30), MaskOfCpus, <2>2
    <2>4. PICK d \in Affinity[u] :
            /\ state' = [state EXCEPT ![u] = "READY"] /\ cpuOf' = [cpuOf EXCEPT ![u] = d]
            /\ runq' = [runq EXCEPT ![d] = @ \cup {u}]
      BY ZenonT(30), <2>2, <2>3, LifeEnqueue
    <2>5. /\ arg' = [arg EXCEPT ![t] = NoThread] /\ pc' = [pc EXCEPT ![t] = "user"]
          /\ UNCHANGED <<current, sleepers, expired, killing, dead, members, ret>>
      BY ZenonT(30), <1>2, <2>1 DEF PlaceNew
    <2> QED
      BY ZenonT(30), <2>1, <2>4, <2>5, LifePlace
  <1>3. ASSUME NEW t \in Threads, KillScan(c, t) \/ KillReady(c, t) PROVE FALSE
    BY ZenonT(30), <1>3 DEF KillScan, KillReady, LifeInv, LifeThreads
  <1>4. ASSUME NEW x \in Contexts, pc[x] \in {"unblock", "enqueue"} PROVE x = Irq
    BY ZenonT(30), <1>4 DEF Contexts, LifeInv, LifeThreads, LifeCpus
  <1>5. ASSUME NEW x \in Contexts, UnblockCheck(c, x) PROVE LifeInv'
    <2>1. x = Irq /\ pc[Irq] = "unblock"
      BY ZenonT(30), <1>4, <1>5 DEF UnblockCheck
    <2>2. NeedsWake(arg[Irq])
      BY ZenonT(30), <2>1 DEF NeedsWake, LifeInv, LifeSleep
    <2> QED
      BY ZenonT(30), <1>5, <2>1, <2>2, LifeIrqMove DEF UnblockCheck
  <1>6. ASSUME NEW x \in Contexts, UnblockEnqueue(c, x) PROVE LifeInv'
    <2>1. x = Irq /\ pc[Irq] = "enqueue"
      BY ZenonT(30), <1>4, <1>6 DEF UnblockEnqueue
    <2>2. PICK u \in Threads : u = arg[Irq] /\ ret[Irq] = "irq"
      BY ZenonT(30), <2>1 DEF LifeInv, LifeSleep
    <2>3. cpuOf[u] \in Cpus /\ cpuOf[u] \in Affinity[u]
      BY SMTT(30) DEF LifeInv, LifeThreads
    <2>4. EnqueueOn(c, cpuOf[u], u, TRUE)
      BY ZenonT(30), <1>6, <2>1, <2>2 DEF UnblockEnqueue, WakeOn
    <2>5. /\ state' = [state EXCEPT ![u] = "READY"] /\ cpuOf' = [cpuOf EXCEPT ![u] = cpuOf[u]]
          /\ runq' = [runq EXCEPT ![cpuOf[u]] = @ \cup {u}]
      <3>1. PICK e \in Cpus : e = cpuOf[u] /\ e \in Affinity[u]
        BY ZenonT(30), <2>3
      <3>2. EnqueueOn(c, e, u, TRUE)
        BY ZenonT(30), <2>4, <3>1
      <3>3. PICK d \in Affinity[u] :
              /\ e \in Affinity[u] => d = e
              /\ state' = [state EXCEPT ![u] = "READY"] /\ cpuOf' = [cpuOf EXCEPT ![u] = d]
              /\ runq' = [runq EXCEPT ![d] = @ \cup {u}]
        BY ZenonT(30), <3>2, LifeEnqueue
      <3>4. d = cpuOf[u]
        BY ZenonT(30), <3>1, <3>3
      <3> QED
        BY ZenonT(30), <3>3, <3>4
    <2>7. /\ arg' = [arg EXCEPT ![Irq] = NoThread] /\ pc' = [pc EXCEPT ![Irq] = "irq"]
          /\ UNCHANGED <<current, sleepers, expired, killing, dead, members, ret>>
      BY ZenonT(30), <1>6, <2>1, <2>2 DEF UnblockEnqueue
    <2> QED
      BY ZenonT(30), <2>1, <2>2, <2>5, <2>7, LifeUnblock
  <1> QED
    BY ZenonT(30), <1>1, <1>2, <1>3, <1>5, <1>6 DEF CallStep

\* sched_wake_sleepers: each sleeper is in one list or with the interrupt.
LEMMA LifeIrq ==
  ASSUME LifeInv, IrqStep
  PROVE  LifeInv'
  <1> USE SchedConstants DEF LifeInv, LifeShape, Contexts, Goto
  <1>1. ASSUME NEW S \in SUBSET sleepers, IrqStart(S) PROVE LifeInv'
    <2>1. /\ pc[Irq] = "off" /\ pc' = [pc EXCEPT ![Irq] = "irq"]
          /\ sleepers' = sleepers \ S /\ expired' = S
          /\ UNCHANGED <<state, cpuOf, runq, current, killing, dead, members, ret, arg>>
      BY ZenonT(30), <1>1 DEF IrqStart, PrivateList
    <2>2. LifeShape'
      BY ZenonT(30), <2>1
    <2>3. LifeThreads'
      BY ZenonT(30), <2>1 DEF LifeThreads
    <2>4. LifeCpus'
      BY SMTT(30), <2>1 DEF LifeCpus
    <2>5. LifeSleep'
      BY SMTT(30), <2>1 DEF LifeSleep
    <2>6. LifeTasks'
      BY SMTT(30), <2>1 DEF LifeTasks
    <2> QED
      BY ZenonT(30), <2>2, <2>3, <2>4, <2>5, <2>6
  <1>2. ASSUME NEW t \in expired, pc[Irq] = "irq", expired' = expired \ {t},
               arg' = [arg EXCEPT ![Irq] = t], ret' = [ret EXCEPT ![Irq] = "irq"],
               pc' = [pc EXCEPT ![Irq] = "unblock"],
               UNCHANGED <<state, cpuOf, runq, current, sleepers, killing, dead, members>>
        PROVE  LifeInv'
    <2>1. LifeShape'
      BY ZenonT(30), <1>2
    <2>2. LifeThreads'
      BY SMTT(30), <1>2 DEF LifeThreads
    <2>3. LifeCpus'
      BY SMTT(30), <1>2 DEF LifeCpus
    <2>4. LifeSleep'
      BY SMTT(30), <1>2 DEF LifeSleep
    <2>5. LifeTasks'
      BY SMTT(30), <1>2 DEF LifeTasks
    <2> QED
      BY ZenonT(30), <2>1, <2>2, <2>3, <2>4, <2>5
  <1>3. ASSUME pc[Irq] = "irq", NEW l, l = pc[BootCpu] \/ (pc[BootCpu] = "hlt" /\ l = "run"),
               pc' = [pc EXCEPT ![Irq] = "off", ![BootCpu] = l],
               UNCHANGED <<state, cpuOf, runq, current, sleepers, expired, killing, dead,
                           members, ret, arg>>
        PROVE  LifeInv'
    <2>1. LifeShape'
      BY ZenonT(30), <1>3
    <2>2. LifeThreads'
      BY SMTT(30), <1>3 DEF LifeThreads
    <2>3. LifeCpus'
      BY SMTT(30), <1>3 DEF LifeCpus
    <2>4. LifeSleep'
      BY ZenonT(30), <1>3 DEF LifeSleep
    <2>5. LifeTasks'
      BY SMTT(30), <1>3 DEF LifeTasks
    <2> QED
      BY ZenonT(30), <2>1, <2>2, <2>3, <2>4, <2>5
  <1>4. ASSUME IrqNext PROVE LifeInv'
    <2>3. DOMAIN pc = Contexts /\ BootCpu \in Contexts /\ Irq # BootCpu
      BY ZenonT(30)
    <2> HIDE DEF LifeInv, LifeShape
    <2>0. /\ pc[Irq] = "irq"
          /\ UNCHANGED <<state, cpuOf, runq, current, sleepers, killing, dead, members>>
      BY ZenonT(30), <1>4 DEF IrqNext
    <2>1. CASE \E t \in expired :
                 /\ expired' = expired \ {t} /\ arg' = [arg EXCEPT ![Irq] = t]
                 /\ ret' = [ret EXCEPT ![Irq] = "irq"] /\ Goto(Irq, "unblock")
      BY ZenonT(30), <1>2, <2>0, <2>1
    <2>2. CASE /\ pc' = [pc EXCEPT ![Irq] = "off",
                                   ![BootCpu] = IF current[BootCpu] = BootCpu /\ @ = "hlt"
                                                THEN "run" ELSE @]
               /\ UNCHANGED <<expired, arg, ret>>
      <3>1. PICK l : /\ l = pc[BootCpu] \/ (pc[BootCpu] = "hlt" /\ l = "run")
                     /\ pc' = [pc EXCEPT ![Irq] = "off", ![BootCpu] = l]
        <4>1. CASE current[BootCpu] = BootCpu /\ pc[BootCpu] = "hlt"
          <5>1. pc' = [pc EXCEPT ![Irq] = "off", ![BootCpu] = "run"]
            BY ZenonT(30), <2>2, <2>3, <4>1
          <5> QED
            BY ZenonT(30), <4>1, <5>1
        <4>2. CASE ~(current[BootCpu] = BootCpu /\ pc[BootCpu] = "hlt")
          <5>1. pc' = [pc EXCEPT ![Irq] = "off", ![BootCpu] = pc[BootCpu]]
            BY ZenonT(30), <2>2, <2>3, <4>2
          <5> QED
            BY ZenonT(30), <5>1
        <4> QED
          BY ZenonT(30), <4>1, <4>2
      <3> QED
        BY ZenonT(30), <1>3, <2>0, <2>2, <3>1
    <2> QED
      BY ZenonT(30), <1>4, <2>1, <2>2 DEF IrqNext
  <1> QED
    BY ZenonT(30), <1>1, <1>4 DEF IrqStep

-----------------------------------------------------------------------------
\* The machine starts in the invariant.
LEMMA LifeInit == SchedInit => LifeInv
  <1> SUFFICES ASSUME SchedInit PROVE LifeInv
    BY ZenonT(30)
  <1> USE SchedConstants DEF SchedInit, Contexts
  <1>1. LifeShape
    BY ZenonT(30) DEF LifeShape
  <1>2. LifeThreads
    BY ZenonT(30) DEF LifeThreads
  <1>3. LifeCpus
    BY ZenonT(30) DEF LifeCpus
  <1>4. LifeSleep
    BY ZenonT(30) DEF LifeSleep
  <1>5. LifeTasks
    BY ZenonT(30) DEF LifeTasks
  <1> QED
    BY ZenonT(30), <1>1, <1>2, <1>3, <1>4, <1>5 DEF LifeInv

\* Every step of the scheduler keeps it.
LEMMA LifeNext ==
  ASSUME NoPull, NoKill, LifeInv, [SchedNext]_schedVars
  PROVE  LifeInv'
  <1>1. CASE UNCHANGED schedVars
    BY ZenonT(30), <1>1, LifeStutter DEF schedVars
  <1>2. CASE IrqStep
    BY ZenonT(30), <1>2, LifeIrq
  <1>3. ASSUME NEW c \in Cpus, SchedulerStep(c) \/ CallStep(c) \/ ThreadRequest(c) PROVE LifeInv'
    BY ZenonT(30), <1>3, LifeScheduler, LifeCall, LifeRequest
  <1>4. ASSUME NEW c \in Cpus, NEW t \in Threads, KillCancel(c, t) PROVE LifeInv'
    <2>1. pc[t] = "kcancel" /\ pc[t] \in {"user", "out", "place", "new", "gone"}
      BY ZenonT(30), <1>4 DEF KillCancel, ThreadAt, LifeInv, LifeThreads
    <2> QED
      BY ZenonT(30), <2>1
  <1> QED
    BY ZenonT(30), <1>1, <1>2, <1>3, <1>4 DEF SchedNext

\* The invariant implies four of the five conjuncts of ThreadInOnePlace; the
\* fifth is SleepersSafe's.
LEMMA LifeImplies ==
  ASSUME LifeInv
  PROVE  OneCpuPerThread /\ ReadyIsQueuedOnce /\ ReapedOffStack /\ DeadIsGone
  <1> USE DEF LifeInv
  <1>1. OneCpuPerThread
    <2> SUFFICES ASSUME NEW c \in Cpus, NEW d \in Cpus, c # d, current[c] = current[d]
                 PROVE  FALSE
      BY ZenonT(30) DEF OneCpuPerThread
    <2>0. current[c] \in Threads \cup {c} /\ current[d] \in Threads \cup {d}
      BY ZenonT(30) DEF LifeCpus
    <2>1. current[c] \in Threads
      <3>1. c \notin Threads /\ d \notin Threads
        BY ZenonT(30), SchedConstants
      <3> QED
        BY ZenonT(30), <2>0, <3>1
    <2>2. PICK t \in Threads : current[c] = t /\ current[d] = t
      BY ZenonT(30), <2>1
    <2>3. cpuOf[t] = c /\ cpuOf[t] = d
      BY ZenonT(30), <2>2 DEF LifeCpus
    <2> QED
      BY ZenonT(30), <2>3
  <1>2. ASSUME NEW t \in Threads, state[t] = "READY"
        PROVE  /\ {c \in Cpus : t \in runq[c]} \cap {c \in Cpus : arg[c] = t} = {}
               /\ \E d \in Cpus : {c \in Cpus : t \in runq[c]} \cup {c \in Cpus : arg[c] = t} = {d}
    <2>0. cpuOf[t] \in Cpus
      BY ZenonT(30), MaskOfCpus DEF LifeThreads
    <2>1. CASE t \in runq[cpuOf[t]]
      <3>1. {c \in Cpus : t \in runq[c]} = {cpuOf[t]} /\ {c \in Cpus : arg[c] = t} = {}
        BY SMTT(30), <2>0, <2>1 DEF LifeCpus
      <3> QED
        BY ZenonT(30), <2>0, <3>1
    <2>2. CASE arg[cpuOf[t]] = t
      <3>1. {c \in Cpus : t \in runq[c]} = {} /\ {c \in Cpus : arg[c] = t} = {cpuOf[t]}
        BY SMTT(30), <2>0, <2>2 DEF LifeCpus
      <3> QED
        BY ZenonT(30), <2>0, <3>1
    <2> QED
      BY ZenonT(30), <1>2, <2>1, <2>2 DEF LifeThreads
  <1>3. ASSUME NEW t \in Threads, state[t] # "READY"
        PROVE  {c \in Cpus : t \in runq[c]} = {} /\ {c \in Cpus : arg[c] = t} = {}
    BY SMTT(30), <1>3 DEF LifeCpus
  <1>4. ReadyIsQueuedOnce
    BY ZenonT(30), <1>2, <1>3 DEF ReadyIsQueuedOnce
  <1>5. ReapedOffStack
    BY ZenonT(30) DEF ReapedOffStack, LifeCpus
  <1>6. DeadIsGone
    <2> SUFFICES ASSUME NEW k \in Tasks, dead[k], NEW t \in Threads, TaskOf[t] = k
                 PROVE  /\ members[k] = {}
                        /\ t \notin sleepers \cup expired
                        /\ \A c \in Cpus : t \notin runq[c] /\ current[c] # t
      BY ZenonT(30) DEF DeadIsGone, LifeTasks
    <2>1. members[k] = {} /\ state[t] = "EMPTY"
      BY ZenonT(30) DEF LifeTasks
    <2> QED
      BY SMTT(30), <2>1 DEF LifeSleep, LifeCpus
  <1> QED
    BY ZenonT(30), <1>1, <1>4, <1>5, <1>6

\* A thread is on one CPU, in one run queue, asleep with a wake-up to come, or
\* freed with no CPU on its stack, and a dead task has none: for any number of
\* CPUs, threads and tasks, with creation, sleep, preemption and exit
\* interleaved in every way.
THEOREM LifeSafe ==
  ASSUME NoPull, NoKill
  PROVE  SchedSpec => []ThreadInOnePlace
  <1>1. LifeInv /\ [SchedNext]_schedVars => LifeInv'
    BY ZenonT(30), LifeNext
  <1>2. LifeInv /\ SleeperWillBeWoken => ThreadInOnePlace
    BY ZenonT(30), LifeImplies DEF ThreadInOnePlace
  <1> QED
    BY <1>1, <1>2, LifeInit, SleepersSafe, PTL DEF SchedSpec
=============================================================================
