----------------------------- MODULE IpcProofs -----------------------------
(***************************************************************************)
(* A receiver is never left registered on a port with a queued message,    *)
(* for any number of CPUs, threads, tasks, ports and messages, and         *)
(* whatever idle pull and task_kill do meanwhile; and what the steps       *)
(* outside ipc.c, thread_handoff included, leave alone.                    *)
(***************************************************************************)
EXTENDS Ipc, SchedProofs

\* What the induction needs of the types: queue and receiver are functions on
\* the ports, and a receive is made on a list of ports.
PortTypes ==
  /\ queue = [p \in Ports |-> queue[p]]
  /\ receiver = [p \in Ports |-> receiver[p]]
  /\ recvList \in [Threads -> Seq(Ports)]

QueueInv == PortTypes /\ ReceiverMeansEmpty

-----------------------------------------------------------------------------
\* A port of a list is in the list's range.
LEMMA ListedPort ==
  ASSUME NEW ports \in Seq(Ports), NEW i \in 1..Len(ports)
  PROVE  ports[i] \in Range(ports) /\ ports[i] \in Ports
  BY DEF Range

\* Taking the head of a queue, while registrations stay or are withdrawn.
LEMMA TakeHeadKeeps ==
  ASSUME QueueInv, NEW t \in Threads, NEW p,
         queue[p] # <<>>, TakeHead(t, p),
         receiver' = [q \in Ports |-> receiver'[q]],
         \A q \in Ports : receiver'[q] \in {receiver[q], NoThread}
  PROVE  QueueInv'
  <1>1. recvList' \in [Threads -> Seq(Ports)]
    BY DEF QueueInv, PortTypes, TakeHead
  <1>2. queue' = [q \in Ports |-> queue'[q]]
    BY ZenonT(30) DEF QueueInv, PortTypes, TakeHead
  <1>3. ReceiverMeansEmpty'
    BY ZenonT(30) DEF QueueInv, PortTypes, ReceiverMeansEmpty, TakeHead
  <1> QED
    BY ZenonT(30), <1>1, <1>2, <1>3 DEF QueueInv, PortTypes

\* One turn of the receive loop keeps the invariant, when it starts from
\* registrations that are the current ones or fewer.
LEMMA TurnKeeps ==
  ASSUME QueueInv, NEW c, NEW t \in Threads, NEW ports \in Seq(Ports),
         NEW cleared, cleared = [p \in Ports |-> cleared[p]],
         \A p \in Ports : cleared[p] \in {receiver[p], NoThread},
         RecvTurn(c, t, ports, cleared)
  PROVE  QueueInv'
  <1>1. ASSUME NEW i \in 1..Len(ports), queue[ports[i]] # <<>>,
               TakeHead(t, ports[i]), receiver' = cleared
        PROVE  QueueInv'
    BY ZenonT(30), <1>1, TakeHeadKeeps
  <1> USE DEF QueueInv, PortTypes, ReceiverMeansEmpty
  <1>2. ASSUME \A i \in 1..Len(ports) : queue[ports[i]] = <<>>,
               Register(t, ports, cleared)
        PROVE  QueueInv'
    <2>1. \A p \in Range(ports) : queue[p] = <<>>
      BY SMTT(30), <1>2 DEF Range
    <2>2. recvList' \in [Threads -> Seq(Ports)]
      BY ZenonT(30), <1>2 DEF Register
    <2> QED
      BY ZenonT(30), <1>2, <2>1, <2>2 DEF Register
  <1>3. ASSUME ExitLocked(c, t), receiver' = cleared
        PROVE  QueueInv'
    BY ZenonT(30), <1>3 DEF ExitLocked
  <1> QED
    BY ZenonT(30), <1>1, <1>2, <1>3 DEF RecvTurn

\* Every step of the system keeps the invariant.
LEMMA QueueNext ==
  QueueInv /\ [Next]_vars => QueueInv'
  <1> SUFFICES ASSUME QueueInv, [Next]_vars PROVE QueueInv'
    BY ZenonT(30)
  <1> USE DEF QueueInv, PortTypes, ReceiverMeansEmpty
  <1>1. ASSUME UNCHANGED ipcVars PROVE QueueInv'
    BY ZenonT(30), <1>1 DEF ipcVars
  <1>2. ASSUME NEW c \in Cpus, NEW t \in Threads, NEW msg \in Msgs, SendDirect(c, t, msg)
        PROVE  QueueInv'
    BY ZenonT(30), <1>2 DEF SendDirect
  <1>3. ASSUME NEW c \in Cpus, NEW t \in Threads, SendQueue(c, t) PROVE QueueInv'
    BY ZenonT(30), <1>3 DEF SendQueue, Unregistered
  <1>4. ASSUME NEW c \in Cpus, NEW t \in Threads, SendCounted(c, t) PROVE QueueInv'
    BY ZenonT(30), <1>4 DEF SendCounted
  <1>5. ASSUME NEW c \in Cpus, NEW t \in Threads, NEW ports \in ReceiveOn[t],
               RecvEnter(c, t, ports)
        PROVE  QueueInv'
    <2>1. ports \in Seq(Ports)
      BY ZenonT(30), IpcConstants
    <2> QED
      BY ZenonT(30), <1>5, <2>1, TurnKeeps DEF RecvEnter
  <1>6. ASSUME NEW c \in Cpus, NEW t \in Threads, RecvWake(c, t) PROVE QueueInv'
    <2>1. /\ Withdrawn(t) = [p \in Ports |-> Withdrawn(t)[p]]
          /\ \A p \in Ports : Withdrawn(t)[p] \in {receiver[p], NoThread}
      BY ZenonT(30) DEF Withdrawn
    <2>2. CASE TakeDelivered(t)
      BY SMTT(30), <2>1, <2>2 DEF TakeDelivered
    <2>3. CASE RecvTurn(c, t, recvList[t], Withdrawn(t))
      <3>1. recvList[t] \in Seq(Ports)
        BY ZenonT(30)
      <3> HIDE DEF QueueInv, PortTypes, ReceiverMeansEmpty
      <3> QED
        BY ZenonT(30), <2>1, <2>3, <3>1, TurnKeeps
    <2> QED
      BY ZenonT(30), <1>6, <2>2, <2>3 DEF RecvWake
  <1>7. ASSUME NEW c \in Cpus, NEW t \in Threads, NEW p \in Ports, TryRecv(c, t, p)
        PROVE  QueueInv'
    <2>1. queue[p] # <<>> /\ TakeHead(t, p) /\ receiver' = receiver
      BY ZenonT(30), <1>7 DEF TryRecv
    <2> HIDE DEF QueueInv, PortTypes, ReceiverMeansEmpty
    <2>2. receiver = [q \in Ports |-> receiver[q]]
      BY ZenonT(30) DEF QueueInv, PortTypes
    <2> QED
      BY ZenonT(30), <2>1, <2>2, TakeHeadKeeps
  <1>8. ASSUME NEW c \in Cpus, NEW t \in Threads, KillCancelIpc(c, t) PROVE QueueInv'
    BY ZenonT(30), <1>8 DEF KillCancelIpc, Cancelled
  <1> HIDE DEF QueueInv
  <1>9. CASE TimerStep
    BY ZenonT(30), <1>1, <1>9 DEF TimerStep
  <1>10. ASSUME NEW c \in Cpus, KernelStep(c) PROVE QueueInv'
    BY ZenonT(30), <1>1, <1>3, <1>4, <1>6, <1>8, <1>10 DEF KernelStep
  <1>11. ASSUME NEW c \in Cpus, UserStep(c) PROVE QueueInv'
    BY ZenonT(30), <1>1, <1>2, <1>5, <1>7, <1>11 DEF UserStep
  <1>12. CASE UNCHANGED vars
    BY ZenonT(30), <1>1, <1>12 DEF vars
  <1> QED
    BY ZenonT(30), <1>9, <1>10, <1>11, <1>12 DEF Next

\* No queue holds a message and nobody is registered when the kernel starts.
LEMMA QueueInit == Init => QueueInv
  BY DEF Init, QueueInv, PortTypes, ReceiverMeansEmpty

\* A receiver registered on a port finds its queue empty: ipc_send and the
\* receives never leave a thread asleep on a message that has arrived.
THEOREM NoSleepOnMessage == Spec => []ReceiverMeansEmpty
  <1>1. QueueInv => ReceiverMeansEmpty
    BY ZenonT(30) DEF QueueInv
  <1> QED
    BY <1>1, QueueInit, QueueNext, PTL DEF Spec

-----------------------------------------------------------------------------
\* Thread t is inside ipc_recv or ipc_recv_any: asleep or about to sleep in
\* it, woken in it, or ended in it by thread_prepare_block.
InReceive(t) == pc[t] \in {"rwake", "gone"} \/ (pc[t] = "out" /\ ret[t] = "rwake")

\* Every context has a place in the kernel code, and no call returns into the
\* second section of ipc_send.
ContextShape ==
  /\ DOMAIN pc = Contexts /\ DOMAIN ret = Contexts
  /\ \A x \in Contexts : ret[x] # "queue"

\* What every step outside ipc.c leaves alone: threads inside a receive stay
\* inside it, and none comes to the second section of ipc_send.
ReceiveFrame ==
  /\ ContextShape'
  /\ \A t \in Threads : /\ InReceive(t) => InReceive(t)'
                        /\ pc'[t] = "queue" => pc[t] = "queue"

\* No step of the scheduler, of a call into it, of a hand-off or of the timer
\* interrupt takes a thread out of its receive.
LEMMA SchedFrame ==
  ASSUME ContextShape
  PROVE  /\ IrqStep => ReceiveFrame
         /\ \A c \in Cpus : SchedulerStep(c) \/ CallStep(c) \/ HandoffStep(c) \/ ThreadRequest(c)
                            \/ (\E t \in Threads : KillCancel(c, t)) => ReceiveFrame
  <1> USE SchedConstants DEF ContextShape, ReceiveFrame, InReceive, Contexts
  <1>RunPop. ASSUME NEW c \in Cpus, RunPop(c) PROVE ReceiveFrame
    BY ZenonT(30), <1>RunPop DEF RunPop, SchedAt, Goto
  <1>PullScan. ASSUME NEW c \in Cpus, PullScan(c) PROVE ReceiveFrame
    BY ZenonT(30), <1>PullScan DEF PullScan, SchedAt, Goto
  <1>PullTake. ASSUME NEW c \in Cpus, PullTake(c) PROVE ReceiveFrame
    BY ZenonT(30), <1>PullTake DEF PullTake, SchedAt, Goto
  <1>Dispatch. ASSUME NEW c \in Cpus, Dispatch(c) PROVE ReceiveFrame
    BY ZenonT(30), <1>Dispatch DEF Dispatch, SchedAt, Vanish, Goto
  <1>AfterSwitch. ASSUME NEW c \in Cpus, AfterSwitch(c) PROVE ReceiveFrame
    BY ZenonT(30), <1>AfterSwitch DEF AfterSwitch, SchedAt, Goto
  <1>IdleWait. ASSUME NEW c \in Cpus, IdleWait(c) PROVE ReceiveFrame
    BY ZenonT(30), <1>IdleWait DEF IdleWait, SchedAt, Goto
  <1>Halt. ASSUME NEW c \in Cpus, Halt(c) PROVE ReceiveFrame
    BY ZenonT(30), <1>Halt DEF Halt, SchedAt, Goto
  <1>Wake. ASSUME NEW c \in Cpus, Wake(c) PROVE ReceiveFrame
    BY ZenonT(30), <1>Wake DEF Wake, SchedAt, Goto
  <1>TakeIpi. ASSUME NEW c \in Cpus, TakeIpi(c) PROVE ReceiveFrame
    BY ZenonT(30), <1>TakeIpi DEF TakeIpi, Goto
  <1>ThreadExit. ASSUME NEW c \in Cpus, NEW t \in Threads, ThreadExit(c, t)
                 PROVE ReceiveFrame
    BY ZenonT(30), <1>ThreadExit DEF ThreadExit, ThreadAt, ExitEffect, Goto
  <1>YieldOrPreempt. ASSUME NEW c \in Cpus, NEW t \in Threads, YieldOrPreempt(c, t)
                     PROVE ReceiveFrame
    BY ZenonT(30), <1>YieldOrPreempt DEF YieldOrPreempt, ThreadAt, Goto
  <1>SwitchOut. ASSUME NEW c \in Cpus, NEW t \in Threads, SwitchOut(c, t)
                PROVE ReceiveFrame
    BY ZenonT(30), <1>SwitchOut DEF SwitchOut, ThreadAt, Goto
  <1>ThreadSleep. ASSUME NEW c \in Cpus, NEW t \in Threads, ThreadSleep(c, t)
                  PROVE ReceiveFrame
    BY ZenonT(30), <1>ThreadSleep DEF ThreadSleep, ThreadAt, Goto
  <1>ThreadCreate. ASSUME NEW c \in Cpus, NEW t \in Threads, NEW u \in Threads,
                          ThreadCreate(c, t, u)
                   PROVE ReceiveFrame
    BY ZenonT(30), <1>ThreadCreate DEF ThreadCreate, ThreadAt, Goto
  <1>PlaceNew. ASSUME NEW c \in Cpus, NEW t \in Threads, PlaceNew(c, t) PROVE ReceiveFrame
    BY ZenonT(30), <1>PlaceNew DEF PlaceNew, ThreadAt, Goto
  <1>UnblockCheck. ASSUME NEW c \in Cpus, NEW x \in Contexts, UnblockCheck(c, x)
                   PROVE ReceiveFrame
    BY ZenonT(30), <1>UnblockCheck DEF UnblockCheck, ContextAt, Goto
  <1>UnblockEnqueue. ASSUME NEW c \in Cpus, NEW x \in Contexts, UnblockEnqueue(c, x)
                     PROVE ReceiveFrame
    BY ZenonT(30), <1>UnblockEnqueue DEF UnblockEnqueue, ContextAt, Goto
  <1>HandoffStart. ASSUME NEW c \in Cpus, NEW t \in Threads, HandoffStart(c, t)
                   PROVE ReceiveFrame
    BY ZenonT(30), <1>HandoffStart DEF HandoffStart, ThreadAt, FallbackReturn, Goto
  <1>HandoffSwitch. ASSUME NEW c \in Cpus, NEW t \in Threads, HandoffSwitch(c, t)
                    PROVE ReceiveFrame
    BY ZenonT(30), <1>HandoffSwitch DEF HandoffSwitch, ThreadAt, Goto
  <1>HandoffReturn. ASSUME NEW c \in Cpus, NEW t \in Threads, HandoffReturn(c, t)
                    PROVE ReceiveFrame
    BY ZenonT(30), <1>HandoffReturn DEF HandoffReturn, ThreadAt, Goto
  <1>IrqStart. ASSUME NEW S \in SUBSET sleepers, IrqStart(S) PROVE ReceiveFrame
    BY ZenonT(30), <1>IrqStart DEF IrqStart, Goto
  <1>IrqNext. ASSUME IrqNext PROVE ReceiveFrame
    BY ZenonT(30), <1>IrqNext DEF IrqNext, Goto
  <1>KillStart. ASSUME NEW c \in Cpus, NEW t \in Threads, NEW k \in Tasks, KillStart(c, t, k)
                PROVE ReceiveFrame
    BY ZenonT(30), <1>KillStart DEF KillStart, ThreadAt, Goto
  <1>KillScan. ASSUME NEW c \in Cpus, NEW t \in Threads, KillScan(c, t) PROVE ReceiveFrame
    BY ZenonT(30), <1>KillScan DEF KillScan, ThreadAt, Goto
  <1>KillCancel. ASSUME NEW c \in Cpus, NEW t \in Threads, KillCancel(c, t)
                 PROVE ReceiveFrame
    BY ZenonT(30), <1>KillCancel DEF KillCancel, ThreadAt, Goto
  <1>KillReady. ASSUME NEW c \in Cpus, NEW t \in Threads, KillReady(c, t)
                PROVE ReceiveFrame
    BY ZenonT(30), <1>KillReady DEF KillReady, ThreadAt, Vanish, Goto
  <1>1. IrqStep => ReceiveFrame
    BY ZenonT(30), <1>IrqStart, <1>IrqNext DEF IrqStep
  <1> HIDE DEF ReceiveFrame, ContextShape
  <1>2. ASSUME NEW c \in Cpus, SchedulerStep(c) PROVE ReceiveFrame
    BY ZenonT(30), <1>2, <1>RunPop, <1>PullScan, <1>PullTake, <1>Dispatch, <1>AfterSwitch,
       <1>IdleWait, <1>Halt, <1>Wake, <1>TakeIpi DEF SchedulerStep
  <1>3. ASSUME NEW c \in Cpus, CallStep(c) PROVE ReceiveFrame
    BY ZenonT(30), <1>3, <1>SwitchOut, <1>PlaceNew, <1>KillScan, <1>KillReady, <1>UnblockCheck,
       <1>UnblockEnqueue DEF CallStep
  <1>4. ASSUME NEW c \in Cpus, HandoffStep(c) PROVE ReceiveFrame
    BY ZenonT(30), <1>4, <1>HandoffStart, <1>HandoffSwitch, <1>HandoffReturn DEF HandoffStep
  <1>5. ASSUME NEW c \in Cpus, ThreadRequest(c) PROVE ReceiveFrame
    BY ZenonT(30), <1>5, <1>YieldOrPreempt, <1>ThreadSleep, <1>ThreadCreate, <1>KillStart,
       <1>ThreadExit, SchedConstants DEF ThreadRequest
  <1> QED
    BY ZenonT(30), <1>1, <1>2, <1>3, <1>4, <1>5, <1>KillCancel

\* thread_handoff keeps the places: the receiver is made to run or goes to
\* thread_unblock, and an error return is given only to one that is not blocked.
LEMMA WakeHandoff ==
  ASSUME Places, NEW cpu \in Cpus, HandoffStep(cpu)
  PROVE  Places' /\ WakeStep
  <1>HandoffStart. ASSUME NEW c \in Cpus, NEW t \in Threads, HandoffStart(c, t)
                   PROVE Places' /\ WakeStep
    <2>0. pc[t] = "handoff" /\ current[c] = t /\ arg[t] \in Threads /\ ret[t] = "sent"
      BY ZenonT(30), <1>HandoffStart, SchedConstants DEF HandoffStart, ThreadAt, Contexts, Places, Executes,
         Handled, Returns, HoldsThread
    <2>1. CASE state[arg[t]] # "BLOCKED"
      <3>1. /\ pc' = [pc EXCEPT ![t] = "invalid"] /\ arg' = [arg EXCEPT ![t] = NoThread]
            /\ UNCHANGED <<state, runq, ret, current, sleepers, expired, members, aux>>
        BY ZenonT(30), <1>HandoffStart, <2>1 DEF HandoffStart, Goto
      <3>2. Places'
        BY <2>0, <3>1 DEF Places, Domains, Handled, Returns, OnCpu, IrqClean, HoldsThread
      <3>3. WakeStep
        BY SMTT(30), <2>0, <2>1, <3>1 DEF WakeStep, WakesKept, Awaited, WakePending, Inside
      <3> QED
        BY ZenonT(30), <3>2, <3>3
    <2>2. CASE state[arg[t]] = "BLOCKED" /\ (~SameCpuFlat(c, arg[t]) \/ Killed(t))
      <3>1. /\ pc' = [pc EXCEPT ![t] = "unblock"]
            /\ ret' = [ret EXCEPT ![t] = FallbackReturn(c, t)]
            /\ UNCHANGED <<state, runq, arg, current, sleepers, expired, members, aux>>
        BY ZenonT(30), <1>HandoffStart, <2>2 DEF HandoffStart, Goto
      <3>2. FallbackReturn(c, t) \in {"sent", "exit"}
        BY ZenonT(30), <2>0 DEF FallbackReturn
      <3>3. Places'
        BY <2>0, <3>1, <3>2 DEF Places, Domains, Handled, Returns, OnCpu, IrqClean
      <3>4. WakeStep
        BY SMTT(30), <2>0, <3>1 DEF WakeStep, WakesKept, Awaited, WakePending, Inside
      <3> QED
        BY ZenonT(30), <3>3, <3>4
    <2>3. CASE state[arg[t]] = "BLOCKED" /\ SameCpuFlat(c, arg[t]) /\ ~Killed(t)
      <3>1. /\ EnqueueOn(c, c, t, FALSE) /\ pc' = [pc EXCEPT ![t] = "handover"]
            /\ UNCHANGED <<arg, ret, current, sleepers, expired, members, aux>>
        BY ZenonT(30), <1>HandoffStart, <2>3 DEF HandoffStart, Goto
      <3>2. Places'
        BY SMTT(30), <2>0, <3>1 DEF EnqueueOn, Places, Domains, Handled, Returns, OnCpu, IrqClean
      <3>3. WakeStep
        BY SMTT(30), <2>0, <3>1 DEF EnqueueOn, WakeStep, WakesKept, Awaited, WakePending, Inside
      <3> QED
        BY ZenonT(30), <3>2, <3>3
    <2> QED
      BY ZenonT(30), <2>1, <2>2, <2>3
  <1>HandoffSwitch. ASSUME NEW c \in Cpus, NEW t \in Threads, HandoffSwitch(c, t)
                    PROVE Places' /\ WakeStep
    <2>1. Places'
      BY SMTT(30), <1>HandoffSwitch, SchedConstants DEF HandoffSwitch, ThreadAt, Contexts,
         Places, Domains,
         Executes, Goto, Handled, Returns, OnCpu, IrqClean, HoldsThread, WakeLabels
    <2>2. WakeStep
      BY <1>HandoffSwitch DEF HandoffSwitch, ThreadAt, WakeStep, WakesKept, Awaited, WakePending,
         Inside, Places, Domains, Goto
    <2> QED
      BY ZenonT(30), <2>1, <2>2
  <1>HandoffReturn. ASSUME NEW c \in Cpus, NEW t \in Threads, HandoffReturn(c, t)
                    PROVE Places' /\ WakeStep
    <2>1. /\ pc[t] = "handback" /\ pc' = [pc EXCEPT ![t] = "sent"]
          /\ aux' = [aux EXCEPT ![t] = NoAux]
          /\ UNCHANGED <<runq, current, sleepers, expired, ret, arg>>
      BY ZenonT(30), <1>HandoffReturn DEF HandoffReturn, ThreadAt, Contexts, Places, Goto,
         Returns
    <2>2. \/ UNCHANGED <<state, members>>
          \/ \E r \in Threads : /\ state' = [state EXCEPT ![r] = "EMPTY"]
                               /\ members' = [members EXCEPT ![TaskOf[r]] = @ \ {r}]
      BY ZenonT(30), <1>HandoffReturn DEF HandoffReturn, ReapSlot, ReapEffect
    <2>3. Domains' /\ Handled'
      BY <2>1, <2>2 DEF Places, Domains, Handled, HoldsThread
    <2>4. Returns' /\ OnCpu' /\ IrqClean'
      BY SMTT(30), <2>1 DEF Places, Returns, OnCpu, IrqClean, WakeLabels
    <2>5. WakeStep
      BY <2>1, <2>2 DEF WakeStep, WakesKept, Awaited, WakePending, Inside, Places, Domains
    <2> QED
      BY ZenonT(30), <2>3, <2>4, <2>5 DEF Places
  <1> QED
    BY ZenonT(30), <1>HandoffStart, <1>HandoffSwitch, <1>HandoffReturn DEF HandoffStep

\* A thread that moves from one place outside the waking calls to another
\* takes no wake-up from anybody.
LEMMA PlainMove ==
  ASSUME Places, NEW t \in Threads, NEW l \in {"user", "queue"}, NEW a, NEW b,
         pc' = [pc EXCEPT ![t] = l], pc[t] \in {"user", "queue", "sent", "invalid", "rwake"},
         ret' = ret \/ ret' = [ret EXCEPT ![t] = b],
         arg' = arg \/ arg' = [arg EXCEPT ![t] = a],
         UNCHANGED <<state, runq, current, sleepers, expired, members, aux>>
  PROVE  /\ Places' /\ ~Inside(t)' /\ (Awaited(t) => Awaited(t)')
         /\ \A u \in Threads : u # t \/ pc[t] # "rwake" => WakesKept(u)
  <1>1. Places'
    BY SMTT(30), SchedConstants DEF Contexts, Places, Domains, Handled, Returns, OnCpu, IrqClean,
       HoldsThread, WakeLabels
  <1>2. \A u \in Threads : u # t \/ pc[t] # "rwake" => WakesKept(u)
    BY SMTT(30) DEF Contexts, Places, Domains, WakesKept, Awaited, WakePending, Inside
  <1>3. ~Inside(t)' /\ (Awaited(t) => Awaited(t)')
    BY ZenonT(30) DEF Contexts, Places, Domains, Awaited, WakePending, Inside
  <1> QED
    BY ZenonT(30), <1>1, <1>2, <1>3

\* A sender that starts to wake r, by thread_unblock or by thread_handoff,
\* loses no wake-up, and r is awaited.
LEMMA CallWake ==
  ASSUME Places, NEW c \in Cpus, NEW t \in Threads, NEW r \in Threads,
         current[c] = t, pc[t] \in {"user", "queue"},
         \/ pc' = [pc EXCEPT ![t] = "unblock"] /\ ret' = [ret EXCEPT ![t] = "user"]
         \/ pc' = [pc EXCEPT ![t] = "handoff"] /\ ret' = [ret EXCEPT ![t] = "sent"],
         arg' = [arg EXCEPT ![t] = r],
         UNCHANGED <<state, runq, current, sleepers, expired, members, aux>>
  PROVE  Places' /\ WakeStep /\ Awaited(r)'
  <1>1. Places'
    BY SMTT(30), SchedConstants DEF Contexts, Places, Domains, Handled, Returns, OnCpu, IrqClean,
       HoldsThread, WakeLabels
  <1>2. WakeStep
    BY SMTT(30) DEF Contexts, Places, Domains, WakeStep, WakesKept, Awaited, WakePending, Inside
  <1>3. Awaited(r)'
    BY ZenonT(30) DEF Contexts, Places, Domains, Awaited, WakePending
  <1> QED
    BY ZenonT(30), <1>1, <1>2, <1>3
=============================================================================
