----------------------------- MODULE IpcWakeup -----------------------------
(***************************************************************************)
(* No wake-up is lost: what a blocked thread waits for will wake it, for   *)
(* any number of CPUs, threads, ports and messages.                        *)
(***************************************************************************)
EXTENDS IpcProofs

\* Receivers are private: no two threads receive on a common port, as every
\* server of the system does with its own ports. A second receiver of a port
\* overwrites receiver_waiter, and nothing would wake the first.
OneWaiter ==
  \A t, u \in Threads : \A r \in ReceiveOn[t], s \in ReceiveOn[u] :
    Range(r) \cap Range(s) # {} => t = u

\* What recv_list holds: nothing, or one of the thread's lists while it is in
\* a receive.
ListInv ==
  /\ receiver \in [Ports -> Threads \cup {NoThread}]
  /\ DOMAIN wait = Threads /\ DOMAIN recvList = Threads
  /\ \A t \in Threads : /\ recvList[t] \in ReceiveOn[t] \cup {<<>>}
                        /\ Inside(t) => recvList[t] # <<>>

\* Thread t is in a receive with no message handed to it, and registered on
\* every port of the list it receives on.
Waiting(t) ==
  Inside(t) /\ wait[t] = NoMsg /\ \A p \in Range(recvList[t]) : receiver[p] = t

\* A blocked thread has a wake-up under way or waits registered.
BlockedInv ==
  \A t \in Threads : state[t] = "BLOCKED" => Awaited(t) \/ Waiting(t)

\* A thread in the second section of ipc_send has a message to queue.
SendInv ==
  /\ ContextShape /\ DOMAIN sending = Threads
  /\ \A t \in Threads : pc[t] = "queue" => sending[t] \in Msgs

\* The inductive invariant: BlockedInv says what the theorem needs, and the
\* other conjuncts what keeps it.
WakeInv == Places /\ QueueInv /\ SendInv /\ ListInv /\ BlockedInv

-----------------------------------------------------------------------------
\* A step that loses no wake-up keeps the invariant, when every thread is
\* awaited after it or keeps its registrations and its empty wait slot.
LEMMA OthersKeep ==
  ASSUME WakeInv, Places', WakeStep, recvList' = recvList, DOMAIN wait' = Threads,
         receiver' \in [Ports -> Threads \cup {NoThread}],
         \A u \in Threads :
           \/ Awaited(u)'
           \/ /\ wait'[u] = wait[u]
              /\ \A q \in Ports : receiver[q] = u => receiver'[q] = u
  PROVE  ListInv' /\ BlockedInv'
  <1>1. ListInv'
    BY ZenonT(30) DEF WakeInv, ListInv, WakeStep, WakesKept
  <1>2. ASSUME NEW u \in Threads, state'[u] = "BLOCKED", ~Awaited(u)'
        PROVE  Waiting(u)'
    <2>1. state[u] = "BLOCKED" /\ ~Awaited(u) /\ (Inside(u) => Inside(u)')
      BY ZenonT(30), <1>2 DEF WakeStep, WakesKept
    <2>2. Waiting(u)
      BY ZenonT(30), <2>1 DEF WakeInv, BlockedInv
    <2>3. Range(recvList[u]) \subseteq Ports
      BY DEF WakeInv, QueueInv, PortTypes, Range
    <2> QED
      BY ZenonT(30), <1>2, <2>1, <2>2, <2>3 DEF Waiting
  <1> QED
    BY ZenonT(30), <1>1, <1>2 DEF BlockedInv

\* The same for a step in which thread t leaves its receive, provided t does
\* not stay blocked with nothing under way.
LEMMA OthersReturn ==
  ASSUME WakeInv, Places', NEW t \in Threads,
         \A u \in Threads : u # t => WakesKept(u),
         recvList' = recvList \/ recvList' = [recvList EXCEPT ![t] = <<>>],
         DOMAIN wait' = Threads, \A u \in Threads : u # t => wait'[u] = wait[u],
         receiver' \in [Ports -> Threads \cup {NoThread}],
         \A u \in Threads : u # t => \A q \in Ports : receiver[q] = u => receiver'[q] = u,
         ~Inside(t)', state'[t] = "BLOCKED" => Awaited(t)'
  PROVE  ListInv' /\ BlockedInv'
  <1>1. \A u \in Threads : u # t => recvList'[u] = recvList[u]
    BY ZenonT(30) DEF WakeInv, ListInv
  <1>2. ListInv'
    BY ZenonT(30), <1>1 DEF WakeInv, ListInv, WakeStep, WakesKept
  <1>3. ASSUME NEW u \in Threads, state'[u] = "BLOCKED", ~Awaited(u)'
        PROVE  Waiting(u)'
    <2>1. u # t /\ state[u] = "BLOCKED" /\ ~Awaited(u) /\ (Inside(u) => Inside(u)')
      BY ZenonT(30), <1>3 DEF WakesKept
    <2>2. Waiting(u)
      BY ZenonT(30), <2>1 DEF WakeInv, BlockedInv
    <2>3. Range(recvList[u]) \subseteq Ports
      BY SMTT(30) DEF WakeInv, QueueInv, PortTypes, Range
    <2> QED
      BY ZenonT(30), <1>1, <1>3, <2>1, <2>2, <2>3 DEF Waiting
  <1> QED
    BY ZenonT(30), <1>2, <1>3 DEF BlockedInv

\* ipc_send: whoever takes a registration down goes on to wake its thread.
LEMMA SendsWake ==
  ASSUME WakeInv, NEW c \in Cpus, NEW t \in Threads
  PROVE  /\ \A m \in Msgs : SendDirect(c, t, m) => Places' /\ ListInv' /\ BlockedInv'
         /\ SendQueue(c, t) \/ SendCounted(c, t) => Places' /\ ListInv' /\ BlockedInv'
  <1>0. /\ Places /\ receiver \in [Ports -> Threads \cup {NoThread}]
        /\ DOMAIN wait = Threads
    BY ZenonT(30) DEF WakeInv, ListInv
  <1>1. ASSUME NEW m \in Msgs, SendDirect(c, t, m) PROVE Places' /\ ListInv' /\ BlockedInv'
    <2> DEFINE p == DestOf[m]
    <2>0. p \in Ports /\ pc[t] = "user" /\ current[c] = t
      BY ZenonT(30), <1>1, IpcConstants, SchedConstants DEF SendDirect, ThreadAt, Executes
    <2>1. CASE ~CanDeliver(p)
      <3>1. /\ pc' = [pc EXCEPT ![t] = "queue"]
            /\ UNCHANGED <<state, runq, current, sleepers, expired, members, ret, arg, aux>>
            /\ UNCHANGED <<wait, recvList, receiver>>
        BY ZenonT(30), <1>1, <2>1 DEF SendDirect, Goto
      <3>2. Places' /\ WakeStep
        BY ZenonT(30), <1>0, <2>0, <3>1, PlainMove DEF WakeStep
      <3> QED
        BY ZenonT(30), <1>0, <3>1, <3>2, OthersKeep
    <2>2. CASE CanDeliver(p)
      <3>1. PICK r \in Threads : r = receiver[p]
        BY ZenonT(30), <1>0, <2>0, <2>2 DEF CanDeliver
      <3>2. /\ pc' = [pc EXCEPT ![t] = IF m \in WithReply THEN "unblock" ELSE "handoff"]
            /\ ret' = [ret EXCEPT ![t] = IF m \in WithReply THEN "user" ELSE "sent"]
            /\ arg' = [arg EXCEPT ![t] = r]
            /\ wait' = [wait EXCEPT ![r] = m]
            /\ receiver' = [receiver EXCEPT ![p] = NoThread]
            /\ UNCHANGED <<state, runq, current, sleepers, expired, members, aux, recvList>>
        BY ZenonT(30), <1>1, <2>2, <3>1 DEF SendDirect, Goto
      <3>3. Places' /\ WakeStep /\ Awaited(r)'
        <4>1. CASE m \in WithReply
          <5>1. pc' = [pc EXCEPT ![t] = "unblock"] /\ ret' = [ret EXCEPT ![t] = "user"]
            BY ZenonT(30), <3>2, <4>1
          <5> QED
            BY ZenonT(30), <1>0, <2>0, <3>2, <5>1, CallWake
        <4>2. CASE m \notin WithReply
          <5>1. pc' = [pc EXCEPT ![t] = "handoff"] /\ ret' = [ret EXCEPT ![t] = "sent"]
            BY ZenonT(30), <3>2, <4>2
          <5> QED
            BY ZenonT(30), <1>0, <2>0, <3>2, <5>1, CallWake
        <4> QED
          BY ZenonT(30), <4>1, <4>2
      <3>4. DOMAIN wait' = Threads /\ receiver' \in [Ports -> Threads \cup {NoThread}]
        BY ZenonT(30), <1>0, <3>2
      <3>5. ASSUME NEW u \in Threads, u # r
            PROVE  wait'[u] = wait[u] /\ \A q \in Ports : receiver[q] = u => receiver'[q] = u
        BY ZenonT(30), <1>0, <3>1, <3>2, <3>5
      <3> QED
        BY ZenonT(30), <3>2, <3>3, <3>4, <3>5, OthersKeep
    <2> QED
      BY ZenonT(30), <2>1, <2>2
  <1>2. ASSUME SendQueue(c, t) PROVE Places' /\ ListInv' /\ BlockedInv'
    <2> DEFINE p == DestOf[sending[t]]
    <2>0. pc[t] = "queue" /\ current[c] = t /\ UNCHANGED <<wait, recvList>>
      BY ZenonT(30), <1>2, SchedConstants DEF SendQueue, ThreadAt, Executes
    <2>1. UNCHANGED <<state, runq, current, sleepers, expired, members, aux>>
      BY ZenonT(30), <1>2 DEF SendQueue
    <2>2. CASE pc' = [pc EXCEPT ![t] = "user"] /\ UNCHANGED <<receiver, arg, ret>>
      <3>1. Places' /\ WakeStep
        BY ZenonT(30), <1>0, <2>0, <2>1, <2>2, PlainMove DEF WakeStep
      <3> QED
        BY ZenonT(30), <1>0, <2>0, <2>2, <3>1, OthersKeep
    <2>3. CASE /\ receiver' = [receiver EXCEPT ![p] = NoThread]
               /\ arg' = [arg EXCEPT ![t] = receiver[p]] /\ ret' = [ret EXCEPT ![t] = "user"]
               /\ pc' = [pc EXCEPT ![t] = IF receiver[p] = NoThread THEN "user" ELSE "unblock"]
      <3>0. p \in Ports /\ receiver' \in [Ports -> Threads \cup {NoThread}]
        BY ZenonT(30), <1>0, <2>0, <2>3, IpcConstants DEF WakeInv, SendInv
      <3>1. CASE receiver[p] = NoThread
        <4>1. Places' /\ WakeStep
          BY ZenonT(30), <1>0, <2>0, <2>1, <2>3, <3>1, PlainMove DEF WakeStep
        <4>2. \A u \in Threads, q \in Ports : receiver[q] = u => receiver'[q] = u
          BY ZenonT(30), <1>0, <2>3, <3>1, SchedConstants
        <4> QED
          BY ZenonT(30), <1>0, <2>0, <3>0, <4>1, <4>2, OthersKeep
      <3>2. CASE receiver[p] # NoThread
        <4>1. PICK r \in Threads : r = receiver[p]
          BY ZenonT(30), <1>0, <3>0, <3>2
        <4>2. Places' /\ WakeStep /\ Awaited(r)'
          <5>1. pc' = [pc EXCEPT ![t] = "unblock"] /\ arg' = [arg EXCEPT ![t] = r]
            BY ZenonT(30), <2>3, <3>2, <4>1
          <5> QED
            BY ZenonT(30), <1>0, <2>0, <2>1, <2>3, <5>1, CallWake
        <4>3. \A u \in Threads : u # r => \A q \in Ports : receiver[q] = u => receiver'[q] = u
          BY ZenonT(30), <1>0, <2>3, <4>1
        <4> QED
          BY ZenonT(30), <1>0, <2>0, <3>0, <4>2, <4>3, OthersKeep
      <3> QED
        BY ZenonT(30), <3>1, <3>2
    <2> QED
      BY ZenonT(30), <1>2, <2>2, <2>3 DEF SendQueue, Goto, Unregistered, ToWake
  <1>3. ASSUME SendCounted(c, t) PROVE Places' /\ ListInv' /\ BlockedInv'
    <2>1. /\ pc[t] \in {"sent", "invalid"} /\ pc' = [pc EXCEPT ![t] = "user"]
          /\ UNCHANGED <<state, runq, current, sleepers, expired, members, ret, arg, aux>>
          /\ UNCHANGED <<wait, recvList, receiver>>
      BY ZenonT(30), <1>3 DEF SendCounted, ThreadAt, Goto
    <2>2. Places' /\ WakeStep
      BY ZenonT(30), <1>0, <2>1, PlainMove DEF WakeStep
    <2> QED
      BY ZenonT(30), <1>0, <2>1, <2>2, OthersKeep
  <1> QED
    BY ZenonT(30), <1>1, <1>2, <1>3

-----------------------------------------------------------------------------
\* ipc_recv_any that finds nothing: the thread blocks registered on the whole
\* list, and with private receivers it takes nobody's registration.
LEMMA RegisterWaits ==
  ASSUME WakeInv, OneWaiter, NEW c \in Cpus, NEW t \in Threads, NEW ports \in ReceiveOn[t],
         NEW cleared, cleared \in [Ports -> Threads \cup {NoThread}],
         \A u \in Threads, q \in Ports : u # t /\ receiver[q] = u => cleared[q] = u,
         current[c] = t, pc[t] \in {"user", "rwake"}, Register(t, ports, cleared),
         UNCHANGED <<runq, sleepers, expired, members, arg, aux>>
  PROVE  Places' /\ ListInv' /\ BlockedInv'
  <1>0. Places /\ ListInv /\ DOMAIN wait = Threads /\ DOMAIN recvList = Threads
    BY ZenonT(30) DEF WakeInv, ListInv
  <1>1. /\ pc' = [pc EXCEPT ![t] = "out"] /\ ret' = [ret EXCEPT ![t] = "rwake"]
        /\ state' = [state EXCEPT ![t] = "BLOCKED"]
        /\ wait' = [wait EXCEPT ![t] = NoMsg]
        /\ receiver' = [p \in Ports |-> IF p \in Range(ports) THEN t ELSE cleared[p]]
        /\ recvList' = [recvList EXCEPT ![t] = ports]
        /\ UNCHANGED current
    BY ZenonT(30) DEF Register, Goto
  <1>2. ports \in Seq(Ports) /\ ports # <<>> /\ Range(ports) \subseteq Ports
    BY SMTT(30), IpcConstants DEF Range
  <1>3. Places'
    BY ZenonT(30), <1>0, <1>1, SchedConstants DEF Contexts, Places, Domains, Handled, Returns,
       OnCpu,
       IrqClean, HoldsThread, WakeLabels
  <1>4. \A u \in Threads : u # t => WakesKept(u)
    BY ZenonT(30), <1>0, <1>1, SchedConstants DEF Places, Domains, Contexts, WakesKept, Awaited, WakePending,
       Inside
  <1>5. Waiting(t)'
    <2>1. Inside(t)'
      BY ZenonT(30), <1>0, <1>1 DEF Places, Domains, Contexts, Inside
    <2>2. wait'[t] = NoMsg /\ recvList'[t] = ports
      BY ZenonT(30), <1>0, <1>1
    <2> QED
      BY ZenonT(30), <1>1, <1>2, <2>1, <2>2 DEF Waiting
  <1>6. \A u \in Threads : u # t => recvList'[u] = recvList[u] /\ wait'[u] = wait[u]
    BY ZenonT(30), <1>0, <1>1
  <1>7. ListInv'
    <2>1. receiver' \in [Ports -> Threads \cup {NoThread}] /\ DOMAIN wait' = Threads
          /\ DOMAIN recvList' = Threads /\ recvList'[t] = ports
      BY ZenonT(30), <1>0, <1>1
    <2> QED
      BY ZenonT(30), <1>0, <1>2, <1>4, <1>6, <2>1 DEF ListInv, WakesKept
  <1>8. ASSUME NEW u \in Threads, u # t, state'[u] = "BLOCKED", ~Awaited(u)'
        PROVE  Waiting(u)'
    <2>1. state[u] = "BLOCKED" /\ ~Awaited(u) /\ (Inside(u) => Inside(u)')
      BY ZenonT(30), <1>4, <1>8 DEF WakesKept
    <2>2. Waiting(u)
      BY ZenonT(30), <2>1 DEF WakeInv, BlockedInv
    <2>3. recvList[u] \in ReceiveOn[u] /\ Range(recvList[u]) \subseteq Ports
      BY <1>0, <2>2 DEF ListInv, Waiting, WakeInv, QueueInv, PortTypes, Range
    <2>4. Range(recvList[u]) \cap Range(ports) = {}
      BY ZenonT(30), <1>8, <2>3 DEF OneWaiter
    <2>5. \A q \in Range(recvList[u]) : receiver'[q] = u
      BY ZenonT(30), <1>1, <1>8, <2>2, <2>3, <2>4 DEF Waiting
    <2> QED
      BY ZenonT(30), <1>6, <1>8, <2>1, <2>2, <2>5 DEF Waiting
  <1> QED
    BY ZenonT(30), <1>3, <1>5, <1>7, <1>8 DEF BlockedInv

\* A receive that returns with a message, or a poll: the thread did not sleep.
LEMMA ReturnWaits ==
  ASSUME WakeInv, NEW t \in Threads, pc[t] \in {"user", "rwake"}, ~Waiting(t),
         pc' = [pc EXCEPT ![t] = "user"], recvList' = [recvList EXCEPT ![t] = <<>>],
         UNCHANGED <<state, runq, current, sleepers, expired, members, ret, arg, aux>>,
         DOMAIN wait' = Threads, \A u \in Threads : u # t => wait'[u] = wait[u],
         receiver' \in [Ports -> Threads \cup {NoThread}],
         \A u \in Threads : u # t => \A q \in Ports : receiver[q] = u => receiver'[q] = u
  PROVE  Places' /\ ListInv' /\ BlockedInv'
  <1>1. /\ Places' /\ ~Inside(t)' /\ (Awaited(t) => Awaited(t)')
        /\ \A u \in Threads : u # t => WakesKept(u)
    BY ZenonT(30), PlainMove DEF WakeInv
  <1>2. state'[t] = "BLOCKED" => Awaited(t)'
    BY ZenonT(30), <1>1 DEF WakeInv, BlockedInv
  <1> QED
    BY ZenonT(30), <1>1, <1>2, OthersReturn

\* A receiver of a killed task exits instead of sleeping.
LEMMA ExitWaits ==
  ASSUME WakeInv, NEW c \in Cpus, NEW t \in Threads, current[c] = t, pc[t] \in {"user", "rwake"},
         ExitLocked(c, t), UNCHANGED <<runq, sleepers, expired, members, arg, aux>>,
         receiver' \in [Ports -> Threads \cup {NoThread}],
         \A u \in Threads : u # t => \A q \in Ports : receiver[q] = u => receiver'[q] = u
  PROVE  Places' /\ ListInv' /\ BlockedInv'
  <1>0. Places /\ DOMAIN wait = Threads
    BY ZenonT(30) DEF WakeInv, ListInv
  <1>1. /\ state' = [state EXCEPT ![t] = "DEAD"] /\ current' = [current EXCEPT ![c] = c]
        /\ pc' = [pc EXCEPT ![t] = "gone"] /\ UNCHANGED <<ret, wait, recvList>>
    BY ZenonT(30) DEF ExitLocked, Goto
  <1>2. Places'
    BY ZenonT(30), <1>0, <1>1, SchedConstants DEF Contexts, Places, Domains, Handled, Returns,
       OnCpu,
       IrqClean, HoldsThread, WakeLabels
  <1>3. \A u \in Threads : u # t => WakesKept(u)
    BY ZenonT(30), <1>0, <1>1, SchedConstants DEF Places, Domains, Contexts, WakesKept, Awaited,
       WakePending,
       Inside
  <1>4. ~Inside(t)' /\ state'[t] # "BLOCKED"
    <2>1. pc'[t] = "gone" /\ state'[t] = "DEAD"
      BY ZenonT(30), <1>0, <1>1 DEF Places, Domains, Contexts
    <2> QED
      BY ZenonT(30), <2>1 DEF Inside
  <1> QED
    BY ZenonT(30), <1>0, <1>1, <1>2, <1>3, <1>4, OthersReturn

\* One turn of the receive loop: take a queued message, register or exit.
\* A queued message means no registration, so who takes one was not waiting.
LEMMA TurnWaits ==
  ASSUME WakeInv, OneWaiter, NEW c \in Cpus, NEW t \in Threads, NEW ports \in ReceiveOn[t],
         NEW cleared, cleared \in [Ports -> Threads \cup {NoThread}],
         \A u \in Threads, q \in Ports : u # t /\ receiver[q] = u => cleared[q] = u,
         current[c] = t, pc[t] = "user" \/ (pc[t] = "rwake" /\ ports = recvList[t]),
         UNCHANGED <<runq, sleepers, expired, members, arg, aux>>,
         RecvTurn(c, t, ports, cleared)
  PROVE  Places' /\ ListInv' /\ BlockedInv'
  <1>1. ASSUME NEW i \in 1..Len(ports), queue[ports[i]] # <<>>, TakeHead(t, ports[i]),
               receiver' = cleared
        PROVE  Places' /\ ListInv' /\ BlockedInv'
    <2>1. ports \in Seq(Ports)
      BY ZenonT(30), IpcConstants
    <2>2. ports[i] \in Range(ports) /\ ports[i] \in Ports
      BY ZenonT(30), <2>1, ListedPort
    <2>3. receiver[ports[i]] = NoThread
      BY ZenonT(30), <1>1, <2>2 DEF WakeInv, QueueInv, ReceiverMeansEmpty
    <2>4. ~Waiting(t)
      <3> SUFFICES ASSUME Waiting(t) PROVE FALSE
        BY ZenonT(30)
      <3>1. recvList[t] = ports
        BY ZenonT(30) DEF Waiting, Inside
      <3>2. receiver[ports[i]] = t
        BY ZenonT(30), <2>2, <3>1 DEF Waiting
      <3> QED
        BY ZenonT(30), <2>3, <3>2, SchedConstants
    <2>5. /\ pc' = [pc EXCEPT ![t] = "user"] /\ recvList' = [recvList EXCEPT ![t] = <<>>]
          /\ UNCHANGED <<state, current, ret, wait>>
      BY ZenonT(30), <1>1 DEF TakeHead, Goto
    <2>6. DOMAIN wait = Threads
      BY ZenonT(30) DEF WakeInv, ListInv
    <2> QED
      BY ZenonT(30), <1>1, <2>4, <2>5, <2>6, ReturnWaits
  <1>2. ASSUME Register(t, ports, cleared) PROVE Places' /\ ListInv' /\ BlockedInv'
    BY <1>2, RegisterWaits
  <1>3. ASSUME ExitLocked(c, t), receiver' = cleared PROVE Places' /\ ListInv' /\ BlockedInv'
    BY <1>3, ExitWaits
  <1> QED
    BY ZenonT(30), <1>1, <1>2, <1>3 DEF RecvTurn

\* All the receives of the kernel.
LEMMA ReceivesWait ==
  ASSUME WakeInv, OneWaiter, NEW c \in Cpus, NEW t \in Threads
  PROVE  /\ \A ports \in ReceiveOn[t] :
              RecvEnter(c, t, ports) => Places' /\ ListInv' /\ BlockedInv'
         /\ RecvWake(c, t) => Places' /\ ListInv' /\ BlockedInv'
         /\ \A p \in Ports : TryRecv(c, t, p) => Places' /\ ListInv' /\ BlockedInv'
  <1>0. /\ receiver \in [Ports -> Threads \cup {NoThread}] /\ DOMAIN wait = Threads
        /\ recvList[t] \in ReceiveOn[t] \cup {<<>>} /\ (Inside(t) => recvList[t] # <<>>)
    BY ZenonT(30) DEF WakeInv, ListInv
  <1>1. ASSUME NEW ports \in ReceiveOn[t], RecvEnter(c, t, ports)
        PROVE  Places' /\ ListInv' /\ BlockedInv'
    <2>1. /\ current[c] = t /\ pc[t] = "user" /\ RecvTurn(c, t, ports, receiver)
          /\ UNCHANGED <<runq, sleepers, expired, members, arg, aux>>
      BY ZenonT(30), <1>1, SchedConstants DEF RecvEnter, ThreadAt, Executes
    <2> QED
      BY ZenonT(30), <1>0, <2>1, TurnWaits
  <1>2. ASSUME RecvWake(c, t) PROVE Places' /\ ListInv' /\ BlockedInv'
    <2>1. /\ current[c] = t /\ pc[t] = "rwake"
          /\ UNCHANGED <<runq, sleepers, expired, members, arg, aux>>
      BY ZenonT(30), <1>2, SchedConstants DEF RecvWake, ThreadAt, Executes
    <2>2. /\ Withdrawn(t) \in [Ports -> Threads \cup {NoThread}]
          /\ \A u \in Threads, q \in Ports : u # t /\ receiver[q] = u => Withdrawn(t)[q] = u
      BY ZenonT(30), <1>0 DEF Withdrawn
    <2>3. CASE TakeDelivered(t)
      <3>1. /\ pc' = [pc EXCEPT ![t] = "user"] /\ recvList' = [recvList EXCEPT ![t] = <<>>]
            /\ wait' = [wait EXCEPT ![t] = NoMsg] /\ wait[t] # NoMsg
            /\ receiver' = Withdrawn(t)
            /\ UNCHANGED <<state, current, ret>>
        BY ZenonT(30), <2>3 DEF TakeDelivered, Delivered, Goto
      <3>2. ~Waiting(t) /\ DOMAIN wait' = Threads /\ \A u \in Threads : u # t => wait'[u] = wait[u]
        BY ZenonT(30), <1>0, <3>1 DEF Waiting
      <3>3. /\ receiver' \in [Ports -> Threads \cup {NoThread}]
            /\ \A u \in Threads : u # t => \A q \in Ports : receiver[q] = u => receiver'[q] = u
        BY ZenonT(30), <2>2, <3>1
      <3> QED
        BY ZenonT(30), <2>1, <3>1, <3>2, <3>3, ReturnWaits
    <2>4. CASE RecvTurn(c, t, recvList[t], Withdrawn(t))
      <3>1. recvList[t] \in ReceiveOn[t]
        BY ZenonT(30), <1>0, <2>1 DEF Inside
      <3> QED
        BY SMTT(30), <2>1, <2>2, <2>4, <3>1, TurnWaits
    <2> QED
      BY ZenonT(30), <1>2, <2>3, <2>4 DEF RecvWake
  <1>3. ASSUME NEW p \in Ports, TryRecv(c, t, p) PROVE Places' /\ ListInv' /\ BlockedInv'
    <2>1. /\ pc[t] = "user" /\ pc' = [pc EXCEPT ![t] = "user"]
          /\ recvList' = [recvList EXCEPT ![t] = <<>>]
          /\ UNCHANGED <<state, runq, current, sleepers, expired, members, ret, arg, aux>>
          /\ UNCHANGED <<wait, receiver>>
      BY ZenonT(30), <1>3 DEF TryRecv, ThreadAt, TakeHead, Goto
    <2>2. ~Waiting(t)
      BY ZenonT(30), <2>1 DEF Waiting, Inside
    <2> QED
      BY ZenonT(30), <1>0, <2>1, <2>2, ReturnWaits
  <1> QED
    BY ZenonT(30), <1>1, <1>2, <1>3

\* task_kill takes down all registrations of a thread and wakes it.
LEMMA KillWakes ==
  ASSUME WakeInv, NEW c \in Cpus, NEW t \in Threads, KillCancelIpc(c, t)
  PROVE  Places' /\ ListInv' /\ BlockedInv'
  <1>0. Places /\ receiver \in [Ports -> Threads \cup {NoThread}] /\ DOMAIN wait = Threads
    BY ZenonT(30) DEF WakeInv, ListInv
  <1>1. KillCancel(c, t) /\ receiver' = Cancelled(arg[t]) /\ UNCHANGED <<wait, recvList>>
    BY ZenonT(30) DEF KillCancelIpc
  <1>2. Places' /\ WakeStep
    BY ZenonT(30), <1>0, <1>1, WakeCancel
  <1>3. PICK r \in Threads : r = arg[t]
    BY ZenonT(30), <1>0, <1>1 DEF KillCancel, ThreadAt, Places, Handled, HoldsThread, Contexts
  <1>4. Awaited(r)'
    <2>1. pc'[t] = "unblock" /\ arg'[t] = r /\ t \in Contexts
      BY ZenonT(30), <1>0, <1>1, <1>3 DEF KillCancel, Goto, Places, Domains, Contexts
    <2> QED
      BY ZenonT(30), <2>1 DEF Awaited, WakePending
  <1>5. /\ receiver' \in [Ports -> Threads \cup {NoThread}]
        /\ \A u \in Threads : u # r => \A q \in Ports : receiver[q] = u => receiver'[q] = u
    BY ZenonT(30), <1>0, <1>1, <1>3 DEF Cancelled
  <1> QED
    BY ZenonT(30), <1>0, <1>1, <1>2, <1>4, <1>5, OthersKeep

-----------------------------------------------------------------------------
\* The invariant of ipc_send's two sections is inductive.
LEMMA SendNext ==
  ASSUME SendInv, [Next]_vars
  PROVE  SendInv'
  <1> USE DEF SendInv
  <1>1. ASSUME ReceiveFrame, sending' = sending PROVE SendInv'
    BY ZenonT(30), <1>1 DEF ReceiveFrame
  <1>2. ASSUME ReceiveFrame, UNCHANGED ipcVars PROVE SendInv'
    BY ZenonT(30), <1>1, <1>2 DEF ipcVars
  <1>3. ASSUME NEW c \in Cpus, NEW t \in Threads, NEW m \in Msgs, SendDirect(c, t, m)
        PROVE  SendInv'
    BY ZenonT(30), <1>3 DEF SendDirect, Goto, ContextShape, Contexts
  <1>4. ASSUME NEW c \in Cpus, NEW t \in Threads, SendQueue(c, t) \/ SendCounted(c, t)
        PROVE  SendInv'
    BY ZenonT(30), <1>4 DEF SendQueue, SendCounted, Goto, ContextShape, Contexts
  <1>5. ASSUME NEW c \in Cpus, NEW t \in Threads, NEW ports, NEW cleared,
               RecvTurn(c, t, ports, cleared), sending' = sending
        PROVE  SendInv'
    BY ZenonT(30), <1>5 DEF RecvTurn, TakeHead, Register, ExitLocked, Goto, ContextShape, Contexts
  <1>6. ASSUME NEW c \in Cpus, NEW t \in Threads, RecvWake(c, t) PROVE SendInv'
    <2>1. CASE TakeDelivered(t)
      BY ZenonT(30), <1>6, <2>1 DEF RecvWake, TakeDelivered, Goto, ContextShape, Contexts
    <2> QED
      BY ZenonT(30), <1>5, <1>6, <2>1 DEF RecvWake
  <1>7. ASSUME NEW c \in Cpus, NEW t \in Threads, NEW p \in Ports, TryRecv(c, t, p) PROVE SendInv'
    BY ZenonT(30), <1>7 DEF TryRecv, TakeHead, Goto, ContextShape, Contexts
  <1>8. ASSUME NEW c \in Cpus, NEW t \in Threads, KillCancelIpc(c, t) PROVE SendInv'
    BY ZenonT(30), <1>1, <1>8, SchedFrame DEF KillCancelIpc
  <1>9. CASE UNCHANGED vars
    BY ZenonT(30), <1>9 DEF vars, schedVars, ipcVars, ContextShape
  <1> HIDE DEF SendInv
  <1>10. ContextShape
    BY ZenonT(30) DEF SendInv
  <1>11. CASE TimerStep
    BY ZenonT(30), <1>2, <1>10, <1>11, SchedFrame DEF TimerStep
  <1>12. ASSUME NEW c \in Cpus, KernelStep(c) PROVE SendInv'
    BY ZenonT(30), <1>2, <1>4, <1>6, <1>8, <1>10, <1>12, SchedFrame DEF KernelStep
  <1>13. ASSUME NEW c \in Cpus, UserStep(c) PROVE SendInv'
    BY ZenonT(30), <1>2, <1>3, <1>5, <1>7, <1>10, <1>13, SchedFrame DEF UserStep, RecvEnter
  <1> QED
    BY ZenonT(30), <1>9, <1>11, <1>12, <1>13 DEF Next

\* Every step keeps the rest of the invariant.
LEMMA WakeNext ==
  ASSUME OneWaiter, WakeInv, [Next]_vars
  PROVE  Places' /\ ListInv' /\ BlockedInv'
  <1>0. Places /\ receiver \in [Ports -> Threads \cup {NoThread}] /\ DOMAIN wait = Threads
    BY ZenonT(30) DEF WakeInv, ListInv
  <1>1. ASSUME Places' /\ WakeStep, UNCHANGED ipcVars PROVE Places' /\ ListInv' /\ BlockedInv'
    BY ZenonT(30), <1>0, <1>1, OthersKeep DEF ipcVars
  <1>2. CASE UNCHANGED vars
    <2>1. Places' /\ WakeStep
      BY ZenonT(30), <1>0, <1>2 DEF vars, schedVars, Places, Domains, Handled, Returns, OnCpu,
         IrqClean,
         WakeStep, WakesKept, Awaited, WakePending, Inside
    <2> QED
      BY ZenonT(30), <1>1, <1>2, <2>1 DEF vars
  <1>3. CASE TimerStep
    BY ZenonT(30), <1>0, <1>1, <1>3, WakeIrq DEF TimerStep
  <1>4. ASSUME NEW c \in Cpus, KernelStep(c) PROVE Places' /\ ListInv' /\ BlockedInv'
    <2>1. CASE (SchedulerStep(c) \/ CallStep(c) \/ HandoffStep(c)) /\ UNCHANGED ipcVars
      BY ZenonT(30), <1>0, <1>1, <2>1, WakeScheduler, WakeCall, WakeHandoff
    <2>2. ASSUME NEW t \in Threads,
                 SendQueue(c, t) \/ SendCounted(c, t) \/ RecvWake(c, t) \/ KillCancelIpc(c, t)
          PROVE  Places' /\ ListInv' /\ BlockedInv'
      BY ZenonT(30), <2>2, SendsWake, ReceivesWait, KillWakes
    <2> QED
      BY ZenonT(30), <1>4, <2>1, <2>2 DEF KernelStep
  <1>5. ASSUME NEW c \in Cpus, UserStep(c) PROVE Places' /\ ListInv' /\ BlockedInv'
    <2>1. CASE ThreadRequest(c) /\ UNCHANGED ipcVars
      BY ZenonT(30), <1>0, <1>1, <2>1, WakeRequest
    <2>2. ASSUME NEW t \in Threads, NEW m \in Msgs, SendDirect(c, t, m)
          PROVE  Places' /\ ListInv' /\ BlockedInv'
      BY ZenonT(30), <2>2, SendsWake
    <2>3. ASSUME NEW t \in Threads, NEW ports \in ReceiveOn[t], RecvEnter(c, t, ports)
          PROVE  Places' /\ ListInv' /\ BlockedInv'
      BY ZenonT(30), <2>3, ReceivesWait
    <2>4. ASSUME NEW t \in Threads, NEW p \in Ports, TryRecv(c, t, p)
          PROVE  Places' /\ ListInv' /\ BlockedInv'
      BY ZenonT(30), <2>4, ReceivesWait
    <2> QED
      BY ZenonT(30), <1>5, <2>1, <2>2, <2>3, <2>4 DEF UserStep
  <1> QED
    BY ZenonT(30), <1>2, <1>3, <1>4, <1>5 DEF Next

\* The invariant holds when the machine starts.
LEMMA WakeInit == Init => WakeInv
  <1> SUFFICES ASSUME Init PROVE WakeInv
    BY ZenonT(30)
  <1>1. Places /\ QueueInv
    BY ZenonT(30), PlacesInit, QueueInit DEF Init
  <1>2. SendInv
    BY ZenonT(30) DEF Init, SchedInit, SendInv, ContextShape, Contexts
  <1>3. ListInv
    BY ZenonT(30) DEF Init, SchedInit, ListInv, Inside, Contexts
  <1>4. BlockedInv
    BY ZenonT(30) DEF Init, SchedInit, BlockedInv
  <1> QED
    BY ZenonT(30), <1>1, <1>2, <1>3, <1>4 DEF WakeInv

\* With private receivers, a blocked thread has a deadline, a registration on
\* some port, or a wake-up under way: no interleaving of senders, receivers,
\* timer and kill on any number of CPUs, ports and messages strands a thread.
THEOREM BlockedAwaited ==
  ASSUME OneWaiter
  PROVE  Spec => []BlockedWillBeWoken
  <1>1. WakeInv /\ [Next]_vars => WakeInv'
    BY ZenonT(30), QueueNext, SendNext, WakeNext DEF WakeInv
  <1>2. WakeInv => BlockedWillBeWoken
    <2> SUFFICES ASSUME WakeInv, NEW t \in Threads, state[t] = "BLOCKED", ~Awaited(t)
                 PROVE  \E p \in Ports : receiver[p] = t
      BY ZenonT(30) DEF BlockedWillBeWoken, Awaited
    <2>1. Waiting(t)
      BY ZenonT(30) DEF WakeInv, BlockedInv
    <2>2. recvList[t] # <<>> /\ recvList[t] \in Seq(Ports)
      BY ZenonT(30), <2>1 DEF WakeInv, ListInv, QueueInv, PortTypes, Waiting
    <2>3. recvList[t][1] \in Range(recvList[t]) /\ recvList[t][1] \in Ports
      <3>1. 1 \in 1..Len(recvList[t])
        BY SMTT(30), <2>2
      <3> QED
        BY ZenonT(30), <2>2, <3>1, ListedPort
    <2> QED
      BY ZenonT(30), <2>1, <2>3 DEF Waiting
  <1> QED
    BY <1>1, <1>2, WakeInit, PTL DEF Spec
=============================================================================
