-------------------------------- MODULE Ipc --------------------------------
(***************************************************************************)
(* The message core of kernel/ipc.c on top of the scheduler of module      *)
(* Sched: sending with direct delivery or queueing, the three receives,    *)
(* and the cancellation that task_kill makes.  One step is one critical    *)
(* section under ipc_lock.                                                 *)
(*                                                                         *)
(* A message is a model value sent at most once.  The references a message *)
(* holds are modelled in module Handles; names, statistics and the         *)
(* affinity hint of a port are left out.                                   *)
(***************************************************************************)
EXTENDS Sched, Sequences, Functions

CONSTANTS
  Ports,
  Msgs,
  SenderOf, DestOf,  \* the thread that sends a message, and the port it names
  WithReply,         \* messages whose reply_port is not null
  ReceiveOn,         \* the port lists each thread passes to a receive
  TryOn,             \* the ports each thread polls with ipc_try_recv
  NoMsg

VARIABLES
  queue,     \* port->head .. port->tail
  receiver,  \* port->receiver
  wait,      \* the message in a thread's struct ipc_wait, NoMsg: !delivered
  recvList,  \* the ports argument of the receive a thread is in
  sending,   \* the message an ipc_send of the thread is about
  locked,    \* ipc_lock is held outside the sections below
  unsent,    \* messages not sent yet
  failed,    \* messages whose ipc_send returned -1
  accepted,  \* per port, the messages in the order the port took them
  taken      \* per port, the messages its receivers returned with, in order

ipcVars == <<queue, receiver, wait, recvList, sending, locked, unsent, failed,
             accepted, taken>>
vars == <<schedVars, ipcVars>>

ASSUME IpcConstants ==
  /\ SenderOf \in [Msgs -> Threads] /\ DestOf \in [Msgs -> Ports]
  /\ WithReply \subseteq Msgs
  /\ ReceiveOn \in [Threads -> SUBSET Seq(Ports)]
  /\ \A t \in Threads : \A s \in ReceiveOn[t] : s # <<>> /\ IsInjective(s)
  /\ TryOn \in [Threads -> SUBSET Ports]
  /\ NoMsg \notin Msgs

-----------------------------------------------------------------------------
(* ipc_send.                                                               *)

\* Mutant: a receiver that holds a message already is given another
CanDeliver_Twice(p) == receiver[p] # NoThread /\ queue[p] = <<>>

\* The receiver is waiting, holds no message yet, and nothing is queued
CanDeliver(p) ==
  /\ receiver[p] # NoThread
  /\ wait[receiver[p]] = NoMsg
  /\ queue[p] = <<>>

\* First section: hand the message to the waiting receiver, or go and queue
SendDirect(c, t, m) ==
  LET p == DestOf[m] IN
  /\ ThreadAt(c, t, "user")
  /\ m \in unsent /\ SenderOf[m] = t
  /\ ~locked
  /\ unsent' = unsent \ {m}
  /\ sending' = [sending EXCEPT ![t] = m]
  /\ \/ /\ CanDeliver(p)
        /\ wait' = [wait EXCEPT ![receiver[p]] = m]
        /\ arg' = [arg EXCEPT ![t] = receiver[p]]
        /\ receiver' = [receiver EXCEPT ![p] = NoThread]
        /\ accepted' = [accepted EXCEPT ![p] = Append(@, m)]
        /\ Goto(t, IF m \in WithReply THEN "unblock" ELSE "handoff")
        /\ ret' = [ret EXCEPT ![t] = IF m \in WithReply THEN "user" ELSE "sent"]
     \/ /\ ~CanDeliver(p)
        /\ Goto(t, "queue")
        /\ UNCHANGED <<wait, arg, receiver, accepted, ret>>
  /\ UNCHANGED <<queue, recvList, locked, failed, taken>>
  /\ UNCHANGED <<state, cpuOf, runq, idle, current, reap, depth, ipi, sleepers,
                 expired, killing, dead, members, aux>>

\* Mutant: the registration survives the queueing
Unregistered_Not(p) == receiver

Unregistered(p) == [receiver EXCEPT ![p] = NoThread]

\* Mutant: nobody can have registered since the first section
ToWake_Nobody(p) == NoThread

ToWake(p) == receiver[p]

\* Second section: append the message and wake whoever registered since
SendQueue(c, t) ==
  LET m == sending[t]
      p == DestOf[m] IN
  /\ ThreadAt(c, t, "queue")
  /\ \/ /\ ~locked
        /\ queue' = [queue EXCEPT ![p] = Append(@, m)]
        /\ accepted' = [accepted EXCEPT ![p] = Append(@, m)]
        /\ receiver' = Unregistered(p)
        /\ arg' = [arg EXCEPT ![t] = ToWake(p)]
        /\ ret' = [ret EXCEPT ![t] = "user"]
        /\ Goto(t, IF ToWake(p) = NoThread THEN "user" ELSE "unblock")
        /\ UNCHANGED failed
     \/ /\ failed' = failed \cup {m}      \* message_alloc found no memory
        /\ Goto(t, "user")
        /\ UNCHANGED <<queue, accepted, receiver, arg, ret>>
  /\ UNCHANGED <<wait, recvList, sending, locked, unsent, taken>>
  /\ UNCHANGED <<state, cpuOf, runq, idle, current, reap, depth, ipi, sleepers,
                 expired, killing, dead, members, aux>>

\* The section after thread_handoff: count how it went, and return
SendCounted(c, t) ==
  /\ ThreadAt(c, t, "sent") \/ ThreadAt(c, t, "invalid")
  /\ ~locked
  /\ failed' = IF pc[t] = "invalid" THEN failed \cup {sending[t]} ELSE failed
  /\ Goto(t, "user")
  /\ UNCHANGED <<queue, receiver, wait, recvList, sending, locked, unsent,
                 accepted, taken>>
  /\ UNCHANGED <<state, cpuOf, runq, idle, current, reap, depth, ipi, sleepers,
                 expired, killing, dead, members, ret, arg, aux>>

-----------------------------------------------------------------------------
(* ipc_recv, which is given one port, and ipc_recv_any.                    *)

\* Return with the head of port p's queue
TakeHead(t, p) ==
  /\ queue' = [queue EXCEPT ![p] = Tail(@)]
  /\ taken' = [taken EXCEPT ![p] = Append(@, Head(queue[p]))]
  /\ recvList' = [recvList EXCEPT ![t] = <<>>]
  /\ Goto(t, "user")
  /\ UNCHANGED <<state, reap, current, ret, wait, locked>>

\* thread_prepare_block in a task being killed: thread_exit, under ipc_lock
ExitLocked(c, t) ==
  /\ Killed(t)
  /\ locked' = TRUE
  /\ state' = [state EXCEPT ![t] = "DEAD"]
  /\ reap' = [reap EXCEPT ![c] = t]
  /\ current' = [current EXCEPT ![c] = c]
  /\ Goto(t, "gone")
  /\ UNCHANGED <<queue, taken, wait, recvList, ret>>

\* Mark the thread blocked and register it on every port of the list
Register(t, ports, cleared) ==
  /\ ~Killed(t)
  /\ state' = [state EXCEPT ![t] = "BLOCKED"]
  /\ wait' = [wait EXCEPT ![t] = NoMsg]
  /\ receiver' = [p \in Ports |-> IF p \in Range(ports) THEN t ELSE cleared[p]]
  /\ recvList' = [recvList EXCEPT ![t] = ports]
  /\ ret' = [ret EXCEPT ![t] = "rwake"]
  /\ Goto(t, "out")
  /\ UNCHANGED <<queue, taken, reap, current, locked>>

\* One turn of the receive loop; cleared is port->receiver before it
RecvTurn(c, t, ports, cleared) ==
  \/ \E i \in 1..Len(ports) :
       /\ queue[ports[i]] # <<>>
       /\ \A j \in 1..(i - 1) : queue[ports[j]] = <<>>
       /\ TakeHead(t, ports[i])
       /\ receiver' = cleared
  \/ /\ \A i \in 1..Len(ports) : queue[ports[i]] = <<>>
     /\ \/ Register(t, ports, cleared)
        \/ ExitLocked(c, t) /\ receiver' = cleared

RecvEnter(c, t, ports) ==
  /\ ThreadAt(c, t, "user")
  /\ ports \in ReceiveOn[t]
  /\ ~locked
  /\ RecvTurn(c, t, ports, receiver)
  /\ UNCHANGED <<sending, unsent, failed, accepted>>
  /\ UNCHANGED <<cpuOf, runq, idle, depth, ipi, sleepers, expired, killing,
                 dead, members, arg, aux>>

\* Mutant: recv_any leaves its registrations on the other ports
Withdrawn_Not(t) == receiver

\* After thread_block_prepared: only recv_any withdraws its registrations
Withdrawn(t) ==
  [p \in Ports |-> IF Len(recvList[t]) > 1 /\ receiver[p] = t
                   THEN NoThread ELSE receiver[p]]

\* Mutant: the woken receiver does not look at wait.delivered
Delivered_Ignored(t) == FALSE

\* wait.delivered
Delivered(t) == wait[t] # NoMsg

\* Return with the message a sender left in the wait record
TakeDelivered(t) ==
  /\ Delivered(t)
  /\ taken' = [taken EXCEPT ![DestOf[wait[t]]] = Append(@, wait[t])]
  /\ wait' = [wait EXCEPT ![t] = NoMsg]
  /\ receiver' = Withdrawn(t)
  /\ recvList' = [recvList EXCEPT ![t] = <<>>]
  /\ Goto(t, "user")
  /\ UNCHANGED <<queue, state, reap, current, ret, locked>>

\* The loop of both receives after the thread has been woken
RecvWake(c, t) ==
  /\ ThreadAt(c, t, "rwake")
  /\ ~locked
  /\ \/ TakeDelivered(t)
     \/ ~Delivered(t) /\ RecvTurn(c, t, recvList[t], Withdrawn(t))
  /\ UNCHANGED <<sending, unsent, failed, accepted>>
  /\ UNCHANGED <<cpuOf, runq, idle, depth, ipi, sleepers, expired, killing,
                 dead, members, arg, aux>>

\* ipc_try_recv that finds a message; without one it changes nothing
TryRecv(c, t, p) ==
  /\ ThreadAt(c, t, "user")
  /\ p \in TryOn[t]
  /\ ~locked
  /\ queue[p] # <<>>
  /\ TakeHead(t, p)
  /\ UNCHANGED <<receiver, sending, unsent, failed, accepted>>
  /\ UNCHANGED <<cpuOf, runq, idle, depth, ipi, sleepers, expired, killing,
                 dead, members, arg, aux>>

\* Mutant: the thread stays registered on its ports
Cancelled_Not(t) == receiver

\* ipc_cancel_thread
Cancelled(t) == [p \in Ports |-> IF receiver[p] = t THEN NoThread ELSE receiver[p]]

\* task_kill: ipc_cancel_thread, then sched_cancel_sleep
KillCancelIpc(c, t) ==
  /\ ~locked
  /\ receiver' = Cancelled(arg[t])
  /\ KillCancel(c, t)
  /\ UNCHANGED <<queue, wait, recvList, sending, locked, unsent, failed,
                 accepted, taken>>

-----------------------------------------------------------------------------
Init ==
  /\ SchedInit
  /\ queue = [p \in Ports |-> <<>>]
  /\ receiver = [p \in Ports |-> NoThread]
  /\ wait = [t \in Threads |-> NoMsg]
  /\ recvList = [t \in Threads |-> <<>>]
  /\ sending = [t \in Threads |-> NoMsg]
  /\ locked = FALSE
  /\ unsent = Msgs /\ failed = {}
  /\ accepted = [p \in Ports |-> <<>>]
  /\ taken = [p \in Ports |-> <<>>]

\* The kernel going on with what it has begun on CPU c
KernelStep(c) ==
  \/ SchedulerStep(c) /\ UNCHANGED ipcVars
  \/ (CallStep(c) \/ HandoffStep(c)) /\ UNCHANGED ipcVars
  \/ \E t \in Threads : \/ SendQueue(c, t) \/ SendCounted(c, t)
                        \/ RecvWake(c, t) \/ KillCancelIpc(c, t)

\* User code asking for something on CPU c
UserStep(c) ==
  \/ ThreadRequest(c) /\ UNCHANGED ipcVars
  \/ \E t \in Threads :
       \/ \E m \in Msgs : SendDirect(c, t, m)
       \/ \E ports \in ReceiveOn[t] : RecvEnter(c, t, ports)
       \/ \E p \in Ports : TryRecv(c, t, p)

TimerStep == IrqStep /\ UNCHANGED ipcVars

Next == TimerStep \/ \E c \in Cpus : KernelStep(c) \/ UserStep(c)

Spec == Init /\ [][Next]_vars

\* Every CPU goes on with its kernel work, and its periodic timer ends a halt
\* and preempts a running thread when another is queued; deadline order keeps
\* passing over no queued thread for ever; a server's program keeps receiving.
Fairness ==
  /\ \A c \in Cpus :
       /\ WF_vars(KernelStep(c))
       /\ WF_vars(/\ runq[c] # {} /\ UNCHANGED ipcVars
                  /\ \E t \in Threads : YieldOrPreempt(c, t))
       /\ \A t \in Threads : SF_vars(KernelStep(c) /\ pc[c] = "run" /\ arg'[c] = t)
  /\ \A t \in Threads :
       SF_vars(\E c \in Cpus : \E l \in ReceiveOn[t] : RecvEnter(c, t, l))

FairSpec == Spec /\ Fairness
-----------------------------------------------------------------------------
(* Properties.                                                             *)

\* Every variable holds a value the code's types allow.
TypeOK ==
  /\ SchedTypeOK
  /\ queue \in [Ports -> Seq(Msgs)]
  /\ receiver \in [Ports -> Threads \cup {NoThread}]
  /\ wait \in [Threads -> Msgs \cup {NoMsg}]
  /\ recvList \in [Threads -> Seq(Ports)]
  /\ sending \in [Threads -> Msgs \cup {NoMsg}]
  /\ locked \in BOOLEAN
  /\ unsent \subseteq Msgs /\ failed \subseteq Msgs
  /\ accepted \in [Ports -> Seq(Msgs)] /\ taken \in [Ports -> Seq(Msgs)]

\* ipc_recv, ipc_recv_any and ipc_send together never leave a receiver
\* registered on a port that has a message queued: it would sleep on it.
ReceiverMeansEmpty ==
  \A p \in Ports : receiver[p] # NoThread => queue[p] = <<>>

\* A port names as its receiver only a thread that is still inside the receive
\* that registered it, so receiver_wait never points into a stack frame that
\* has returned.  ipc_recv relies on this: it does not unregister itself.
RegisteredIsInside ==
  \A p \in Ports : receiver[p] # NoThread =>
    LET t == receiver[p] IN
      /\ p \in Range(recvList[t])
      /\ pc[t] = "rwake" \/ (pc[t] = "out" /\ ret[t] = "rwake")
      /\ state[t] # "EMPTY"

\* The messages of port p that a sender left in a wait record
InHand(p) == {t \in Threads : wait[t] # NoMsg /\ DestOf[wait[t]] = p}

\* On a port with one receiving thread messages are received in the order the
\* port took them, each once, and none is lost: what was accepted is what was
\* received, then what lies in the wait record, then what is queued.
FifoExactlyOnce ==
  \A p \in Ports :
    LET H == InHand(p)
        hand == IF H = {} THEN <<>> ELSE <<wait[CHOOSE t \in H : TRUE]>>
    IN (\A t, u \in H : t = u) /\ accepted[p] = taken[p] \o hand \o queue[p]

\* ipc_recv_any on several ports keeps both: its registrations end with it, and
\* a sender neither overwrites a message it was given nor loses one.
ReceiveAnyIsExact == RegisteredIsInside /\ FifoExactlyOnce

\* A blocked thread is never forgotten: it is on the sleep list, or registered
\* on a port, or a context is on its way to wake it (README: a fast reply
\* cannot be lost between publishing the receiver and entering the scheduler).
BlockedWillBeWoken ==
  \A t \in Threads : state[t] = "BLOCKED" =>
    \/ t \in sleepers \cup expired
    \/ \E p \in Ports : receiver[p] = t
    \/ WakePending(t)

\* thread_prepare_block never leaves the CPU with ipc_lock held (README:
\* blocking IPC switches after unlocking).
SwitchesUnlocked == ~locked

\* A thread that was marked blocked in a receive and has not yet switched away
\* is not run by another CPU (README: a fast reply cannot be lost between
\* publishing the receiver and entering the scheduler).
FastReplyFindsItSwitched ==
  \A c, d \in Cpus : c # d /\ current[c] \in Threads
                     /\ ret[current[c]] = "rwake" => current[c] # current[d]

\* A send that returned -1 did not deliver its message.
FailedNotAccepted ==
  \A p \in Ports : failed \cap Range(accepted[p]) = {}

\* A message a port has accepted is received, as long as its receiver keeps
\* receiving: neither direct delivery with hand-off, nor the queue with its
\* wake-up, nor the idle CPU's halt loses it.
EveryMessageReceived ==
  \A m \in Msgs : (m \in Range(accepted[DestOf[m]])) ~> (m \in Range(taken[DestOf[m]]))

=============================================================================
