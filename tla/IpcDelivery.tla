---------------------------- MODULE IpcDelivery ----------------------------
(***************************************************************************)
(* Messages are delivered exactly once and in order on every port with one *)
(* receiving thread, for any number of CPUs, threads, ports and messages.  *)
(***************************************************************************)
EXTENDS IpcProofs

\* Thread t takes messages from port p, with some receive or with a poll.
Receives(t, p) == (\E s \in ReceiveOn[t] : p \in Range(s)) \/ p \in TryOn[t]

\* The assumption of the theorem: a port is received from by one thread, as
\* every server of the system does with its own ports.
OneReceiver ==
  \A p \in Ports : \A t, u \in Threads : Receives(t, p) /\ Receives(u, p) => t = u

\* The types of the message core, with recvList one of the lists its thread
\* passes to a receive, or none.
MessageTypes ==
  /\ queue \in [Ports -> Seq(Msgs)]
  /\ receiver \in [Ports -> Threads \cup {NoThread}]
  /\ wait \in [Threads -> Msgs \cup {NoMsg}]
  /\ DOMAIN recvList = Threads /\ \A t \in Threads : recvList[t] \in ReceiveOn[t] \cup {<<>>}
  /\ DOMAIN sending = Threads /\ \A t \in Threads : pc[t] = "queue" => sending[t] \in Msgs
  /\ accepted \in [Ports -> Seq(Msgs)] /\ taken \in [Ports -> Seq(Msgs)]

\* A port names as receiver a thread inside a receive on that port that holds
\* no message of it.
Registrations ==
  \A p \in Ports, t \in Threads : receiver[p] = t =>
    /\ p \in Range(recvList[t])
    /\ InReceive(t)
    /\ wait[t] # NoMsg => DestOf[wait[t]] # p

\* A message in a wait record is for a port of the receive under way.
InHandInside ==
  \A t \in Threads : wait[t] # NoMsg => DestOf[wait[t]] \in Range(recvList[t]) /\ InReceive(t)

\* What a port accepted is what was received from it, then the message in the
\* wait record if there is one, then what is queued.
Accounted ==
  /\ \A p \in Ports : InHand(p) = {} => accepted[p] = taken[p] \o queue[p]
  /\ \A p \in Ports, t \in Threads : wait[t] # NoMsg /\ DestOf[wait[t]] = p =>
       accepted[p] = Append(taken[p], wait[t]) \o queue[p]

\* The inductive invariant behind FifoExactlyOnce, next to QueueInv.
DeliveryInv ==
  ContextShape /\ MessageTypes /\ Registrations /\ InHandInside /\ Accounted

\* What the proofs below need to know of sequences.
LEMMA SequenceFacts ==
  ASSUME NEW S
  PROVE  /\ \A a, b, d \in Seq(S) : (a \o b) \o d = a \o (b \o d)
         /\ \A a, b \in Seq(S) : a \o b \in Seq(S)
         /\ \A a \in Seq(S) : a \o <<>> = a /\ <<>> \o a = a
         /\ \A a \in Seq(S), x \in S : Append(a, x) = a \o <<x>> /\ Append(a, x) \in Seq(S)
  <1>1. \A a, b, d \in Seq(S) : (a \o b) \o d = a \o (b \o d)
    BY SMTT(30)
  <1>2. \A a, b \in Seq(S) : a \o b \in Seq(S)
    BY SMTT(30)
  <1>3. \A a \in Seq(S) : a \o <<>> = a /\ <<>> \o a = a
    BY SMTT(30)
  <1>4. \A a \in Seq(S), x \in S : Append(a, x) = a \o <<x>> /\ Append(a, x) \in Seq(S)
    BY SMTT(30)
  <1> QED
    BY ZenonT(30), <1>1, <1>2, <1>3, <1>4

-----------------------------------------------------------------------------
\* Appending to the second of two sequences appends to their concatenation.
LEMMA AppendBehind ==
  ASSUME NEW a \in Seq(Msgs), NEW q \in Seq(Msgs), NEW m \in Msgs
  PROVE  /\ Append(a \o q, m) = a \o Append(q, m)
         /\ Append(a, m) \in Seq(Msgs)
         /\ a \o <<>> = a
  <1>1. (a \o q) \o <<m>> = a \o (q \o <<m>>)
    BY SequenceFacts
  <1>2. Append(a \o q, m) = a \o Append(q, m)
    BY ZenonT(30), <1>1, SequenceFacts
  <1> QED
    BY ZenonT(30), <1>2, SequenceFacts

\* Moving the head of the second of two sequences to the end of the first
\* leaves their concatenation as it was.
LEMMA HeadMoves ==
  ASSUME NEW a \in Seq(Msgs), NEW q \in Seq(Msgs), q # <<>>
  PROVE  /\ Head(q) \in Msgs /\ Tail(q) \in Seq(Msgs)
         /\ a \o q = Append(a, Head(q)) \o Tail(q)
         /\ Append(a, Head(q)) \in Seq(Msgs)
  <1>1. Head(q) \in Msgs /\ Tail(q) \in Seq(Msgs) /\ q = <<Head(q)>> \o Tail(q)
    OBVIOUS
  <1>2. a \o (<<Head(q)>> \o Tail(q)) = (a \o <<Head(q)>>) \o Tail(q)
    BY <1>1, SequenceFacts
  <1>3. Append(a, Head(q)) = a \o <<Head(q)>>
    BY <1>1, SequenceFacts
  <1> QED
    BY ZenonT(30), <1>1, <1>2, <1>3, AppendBehind

\* A list of at most one port names at most one port.
LEMMA ShortList ==
  ASSUME NEW s \in Seq(Ports), Len(s) <= 1, NEW p \in Range(s), NEW q \in Range(s)
  PROVE  p = q
  BY DEF Range

\* The entries of a list of ports are ports.
LEMMA InRange ==
  ASSUME NEW s \in Seq(Ports), NEW i \in 1..Len(s)
  PROVE  s[i] \in Range(s) /\ s[i] \in Ports
  BY DEF Range

\* A thread receives from the ports of the receive it is in.
LEMMA ListReceives ==
  ASSUME MessageTypes, NEW t \in Threads, NEW p \in Range(recvList[t])
  PROVE  Receives(t, p)
  BY DEF MessageTypes, Receives, Range

\* A step that moves no message, takes nobody out of a receive and at most
\* withdraws registrations keeps the invariant.
LEMMA IdleKeeps ==
  ASSUME DeliveryInv, ReceiveFrame,
         UNCHANGED <<queue, wait, recvList, sending, accepted, taken>>,
         receiver' \in [Ports -> Threads \cup {NoThread}],
         \A p \in Ports : receiver'[p] \in {receiver[p], NoThread}
  PROVE  DeliveryInv'
  <1> USE DEF DeliveryInv, ReceiveFrame
  <1>1. MessageTypes'
    BY ZenonT(30) DEF MessageTypes
  <1>2. Registrations'
    BY ZenonT(30), SchedConstants DEF Registrations, MessageTypes
  <1>3. InHandInside'
    BY ZenonT(30) DEF InHandInside
  <1>4. Accounted'
    BY ZenonT(30) DEF Accounted, InHand
  <1> QED
    BY ZenonT(30), <1>1, <1>2, <1>3, <1>4

\* Nobody but t can hold a message of a port that t receives on.
LEMMA OnlyReceiverHolds ==
  ASSUME DeliveryInv, OneReceiver, NEW t \in Threads, NEW p \in Ports, Receives(t, p),
         wait[t] = NoMsg
  PROVE  InHand(p) = {}
  <1> SUFFICES ASSUME NEW u \in Threads, wait[u] # NoMsg, DestOf[wait[u]] = p PROVE FALSE
    BY ZenonT(30) DEF InHand
  <1>1. Receives(u, p)
    BY ZenonT(30), ListReceives DEF DeliveryInv, InHandInside
  <1> QED
    BY ZenonT(30), <1>1 DEF OneReceiver

\* ipc_send, first section: delivery into the wait record, or on to queueing.
LEMMA DirectKeeps ==
  ASSUME DeliveryInv, QueueInv, OneReceiver, NEW c \in Cpus, NEW t \in Threads,
         NEW m \in Msgs, SendDirect(c, t, m)
  PROVE  DeliveryInv'
  <1> DEFINE p == DestOf[m]
  <1>1. p \in Ports
    BY ZenonT(30), IpcConstants
  <1>2. CASE ~CanDeliver(p)
    <2>1. /\ pc' = [pc EXCEPT ![t] = "queue"] /\ pc[t] = "user" /\ ret' = ret
          /\ sending' = [sending EXCEPT ![t] = m]
          /\ UNCHANGED <<queue, wait, recvList, accepted, taken, receiver>>
      BY ZenonT(30), <1>2 DEF SendDirect, ThreadAt, Goto
    <2>2. ContextShape' /\ \A u \in Threads : InReceive(u) => InReceive(u)'
      BY ZenonT(30), <2>1 DEF DeliveryInv, ContextShape, InReceive, Contexts
    <2>3. MessageTypes'
      BY SMTT(30), <2>1 DEF DeliveryInv, MessageTypes, ContextShape
    <2>4. Registrations' /\ InHandInside'
      BY ZenonT(30), <2>1, <2>2 DEF DeliveryInv, Registrations, InHandInside, MessageTypes
    <2>5. Accounted'
      BY ZenonT(30), <2>1 DEF DeliveryInv, Accounted, InHand
    <2> QED
      BY ZenonT(30), <2>2, <2>3, <2>4, <2>5 DEF DeliveryInv
  <1>3. CASE CanDeliver(p)
    <2> DEFINE r == receiver[p]
    <2>1. /\ pc[t] = "user" /\ r \in Threads /\ wait[r] = NoMsg /\ queue[p] = <<>>
          /\ p \in Range(recvList[r]) /\ InReceive(r)
      BY <1>1, <1>3 DEF SendDirect, CanDeliver, ThreadAt, DeliveryInv, MessageTypes, Registrations
    <2>2. /\ wait' = [wait EXCEPT ![r] = m]
          /\ receiver' = [receiver EXCEPT ![p] = NoThread]
          /\ accepted' = [accepted EXCEPT ![p] = Append(@, m)]
          /\ sending' = [sending EXCEPT ![t] = m]
          /\ pc' = [pc EXCEPT ![t] = IF m \in WithReply THEN "unblock" ELSE "handoff"]
          /\ ret' = [ret EXCEPT ![t] = IF m \in WithReply THEN "user" ELSE "sent"]
          /\ UNCHANGED <<queue, recvList, taken>>
      BY ZenonT(30), <1>3 DEF SendDirect, Goto
    <2>3. ContextShape' /\ \A u \in Threads : InReceive(u) => InReceive(u)'
      BY ZenonT(30), <2>1, <2>2 DEF DeliveryInv, ContextShape, InReceive, Contexts
    <2>4. InHand(p) = {}
      BY ZenonT(30), <2>1, <1>1, OnlyReceiverHolds, ListReceives DEF DeliveryInv
    <2>5. accepted[p] = taken[p] /\ taken[p] \in Seq(Msgs)
      <3>1. accepted[p] = taken[p] \o <<>> /\ taken[p] \in Seq(Msgs)
        BY ZenonT(30), <2>1, <2>4, <1>1 DEF DeliveryInv, Accounted, MessageTypes
      <3> QED
        BY ZenonT(30), <3>1, AppendBehind
    <2>6. MessageTypes'
      <3>1. accepted' \in [Ports -> Seq(Msgs)]
        BY ZenonT(30), <2>2, <2>5, <1>1, SequenceFacts DEF DeliveryInv, MessageTypes
      <3>2. receiver' \in [Ports -> Threads \cup {NoThread}]
        BY ZenonT(30), <2>2 DEF DeliveryInv, MessageTypes
      <3>3. wait' \in [Threads -> Msgs \cup {NoMsg}]
        BY ZenonT(30), <2>2 DEF DeliveryInv, MessageTypes
      <3>4. DOMAIN sending' = Threads /\ \A u \in Threads : pc'[u] = "queue" => sending'[u] \in Msgs
        BY ZenonT(30), <2>2, <2>1 DEF DeliveryInv, MessageTypes, ContextShape, Contexts
      <3> QED
        BY ZenonT(30), <3>1, <3>2, <3>3, <3>4, <2>2 DEF DeliveryInv, MessageTypes
    <2>7. Registrations'
      <3> SUFFICES ASSUME NEW q \in Ports, NEW u \in Threads, receiver'[q] = u
                   PROVE  /\ q \in Range(recvList'[u])
                          /\ InReceive(u)'
                          /\ wait'[u] # NoMsg => DestOf[wait'[u]] # q
        BY ZenonT(30) DEF Registrations
      <3>1. q # p /\ receiver[q] = u
        BY ZenonT(30), <2>2, SchedConstants DEF DeliveryInv, MessageTypes
      <3>2. wait'[u] \in {wait[u], m}
        BY ZenonT(30), <2>2 DEF DeliveryInv, MessageTypes
      <3> QED
        BY ZenonT(30), <2>2, <2>3, <3>1, <3>2 DEF DeliveryInv, Registrations
    <2>8. InHandInside'
      BY ZenonT(30), <2>1, <2>2, <2>3 DEF DeliveryInv, InHandInside, MessageTypes
    <2>9. Accounted'
      <3>1. ASSUME NEW q \in Ports, InHand(q)' = {}
            PROVE  accepted'[q] = taken'[q] \o queue'[q]
        <4>1. q # p
          <5>1. wait'[r] = m /\ m # NoMsg
            BY ZenonT(30), <2>1, <2>2, IpcConstants DEF DeliveryInv, MessageTypes
          <5> QED
            BY ZenonT(30), <5>1, <2>1, <3>1 DEF InHand
        <4>2. InHand(q) = {}
          BY ZenonT(30), <2>1, <2>2, <3>1 DEF InHand, DeliveryInv, MessageTypes
        <4> QED
          BY ZenonT(30), <4>1, <4>2, <2>2 DEF DeliveryInv, Accounted, MessageTypes
      <3>2. ASSUME NEW q \in Ports, NEW u \in Threads, wait'[u] # NoMsg, DestOf[wait'[u]] = q
            PROVE  accepted'[q] = Append(taken'[q], wait'[u]) \o queue'[q]
        <4>1. CASE u = r
          <5>1. wait'[u] = m /\ q = p
            BY ZenonT(30), <4>1, <2>2, <2>1, <3>2 DEF DeliveryInv, MessageTypes
          <5>2. accepted'[p] = Append(taken[p], m)
            BY ZenonT(30), <2>2, <2>5, <1>1 DEF DeliveryInv, MessageTypes
          <5>3. Append(taken[p], m) \o <<>> = Append(taken[p], m)
            BY ZenonT(30), <2>5, AppendBehind
          <5> QED
            BY ZenonT(30), <5>1, <5>2, <5>3, <2>1, <2>2
        <4>2. CASE u # r
          <5>1. wait'[u] = wait[u]
            BY ZenonT(30), <4>2, <2>2 DEF DeliveryInv, MessageTypes
          <5>2. q # p
            BY ZenonT(30), <5>1, <3>2, <2>4 DEF InHand
          <5>3. accepted'[q] = accepted[q]
            BY ZenonT(30), <5>2, <2>2 DEF DeliveryInv, MessageTypes
          <5> QED
            BY ZenonT(30), <5>1, <5>3, <3>2, <2>2 DEF DeliveryInv, Accounted
        <4> QED
          BY ZenonT(30), <4>1, <4>2
      <3> QED
        BY ZenonT(30), <3>1, <3>2 DEF Accounted
    <2> QED
      BY ZenonT(30), <2>3, <2>6, <2>7, <2>8, <2>9 DEF DeliveryInv
  <1> QED
    BY ZenonT(30), <1>2, <1>3

\* The ports argument of a receive is a sequence of ports.
LEMMA ListTyped ==
  ASSUME MessageTypes, NEW t \in Threads
  PROVE  recvList[t] \in Seq(Ports)
  <1>1. recvList[t] \in ReceiveOn[t] \cup {<<>>} /\ ReceiveOn[t] \subseteq Seq(Ports)
    BY ZenonT(30), IpcConstants DEF MessageTypes
  <1>2. <<>> \in Seq(Ports)
    BY SMTT(30)
  <1> QED
    BY ZenonT(30), <1>1, <1>2

\* ipc_send, second section: the message is queued, or message_alloc failed.
LEMMA QueueKeeps ==
  ASSUME DeliveryInv, NEW c \in Cpus, NEW t \in Threads, SendQueue(c, t)
  PROVE  DeliveryInv'
  <1> DEFINE m == sending[t]
             p == DestOf[m]
  <1>1. m \in Msgs /\ p \in Ports /\ pc[t] = "queue"
    BY ZenonT(30), IpcConstants DEF SendQueue, ThreadAt, DeliveryInv, MessageTypes
  <1>2. ReceiveFrame
    BY ZenonT(30), <1>1 DEF SendQueue, Goto, DeliveryInv, ContextShape, ReceiveFrame,
       InReceive, Contexts
  <1>3. UNCHANGED <<wait, recvList, sending, taken>>
    BY ZenonT(30) DEF SendQueue
  <1>4. CASE UNCHANGED <<queue, accepted, receiver>>
    BY ZenonT(30), <1>2, <1>3, <1>4, IdleKeeps DEF DeliveryInv, MessageTypes
  <1>5. CASE /\ queue' = [queue EXCEPT ![p] = Append(@, m)]
             /\ accepted' = [accepted EXCEPT ![p] = Append(@, m)]
             /\ receiver' = [receiver EXCEPT ![p] = NoThread]
    <2>0. queue[p] \in Seq(Msgs) /\ taken[p] \in Seq(Msgs) /\ accepted[p] \in Seq(Msgs)
      BY ZenonT(30), <1>1 DEF DeliveryInv, MessageTypes
    <2>1. /\ queue'[p] = Append(queue[p], m) /\ accepted'[p] = Append(accepted[p], m)
          /\ \A q \in Ports : q # p => queue'[q] = queue[q] /\ accepted'[q] = accepted[q]
          /\ \A q \in Ports : receiver'[q] \in {receiver[q], NoThread}
      BY ZenonT(30), <1>1, <1>5 DEF DeliveryInv, MessageTypes
    <2>2. MessageTypes'
      <3>1. queue' \in [Ports -> Seq(Msgs)] /\ accepted' \in [Ports -> Seq(Msgs)]
        BY ZenonT(30), <1>1, <1>5, <2>0, SequenceFacts DEF DeliveryInv, MessageTypes
      <3>2. receiver' \in [Ports -> Threads \cup {NoThread}]
        BY ZenonT(30), <1>5 DEF DeliveryInv, MessageTypes
      <3> QED
        BY ZenonT(30), <1>2, <1>3, <3>1, <3>2 DEF DeliveryInv, MessageTypes, ReceiveFrame
    <2>3. Registrations' /\ InHandInside'
      <3>1. Registrations'
        <4> SUFFICES ASSUME NEW q \in Ports, NEW u \in Threads, receiver'[q] = u
                     PROVE  /\ q \in Range(recvList'[u])
                            /\ InReceive(u)'
                            /\ wait'[u] # NoMsg => DestOf[wait'[u]] # q
          BY ZenonT(30) DEF Registrations
        <4>1. receiver[q] = u
          BY ZenonT(30), <2>1, SchedConstants
        <4> QED
          BY ZenonT(30), <1>2, <1>3, <4>1 DEF DeliveryInv, Registrations, ReceiveFrame
      <3>2. InHandInside'
        BY ZenonT(30), <1>2, <1>3 DEF DeliveryInv, InHandInside, ReceiveFrame
      <3> QED
        BY ZenonT(30), <3>1, <3>2
    <2>4. Accounted'
      <3>1. ASSUME NEW q \in Ports, InHand(q)' = {}
            PROVE  accepted'[q] = taken'[q] \o queue'[q]
        <4>1. accepted[q] = taken[q] \o queue[q]
          BY ZenonT(30), <1>3, <3>1 DEF InHand, DeliveryInv, Accounted
        <4>2. Append(taken[p] \o queue[p], m) = taken[p] \o Append(queue[p], m)
          BY Zenon, <1>1, <2>0, AppendBehind
        <4> QED
          BY ZenonT(30), <1>3, <2>1, <4>1, <4>2
      <3>2. ASSUME NEW q \in Ports, NEW u \in Threads, wait'[u] # NoMsg, DestOf[wait'[u]] = q
            PROVE  accepted'[q] = Append(taken'[q], wait'[u]) \o queue'[q]
        <4>1. wait[u] \in Msgs /\ accepted[q] = Append(taken[q], wait[u]) \o queue[q]
          BY ZenonT(30), <1>3, <3>2 DEF DeliveryInv, Accounted, MessageTypes
        <4>2. Append(taken[p], wait[u]) \in Seq(Msgs)
          BY ZenonT(30), <2>0, <4>1, AppendBehind
        <4>3. Append(Append(taken[p], wait[u]) \o queue[p], m)
                = Append(taken[p], wait[u]) \o Append(queue[p], m)
          BY ZenonT(30), <1>1, <2>0, <4>2, AppendBehind
        <4> QED
          BY ZenonT(30), <1>3, <2>1, <4>1, <4>3
      <3> QED
        BY ZenonT(30), <3>1, <3>2 DEF Accounted
    <2> QED
      BY ZenonT(30), <1>2, <2>2, <2>3, <2>4 DEF DeliveryInv, ReceiveFrame
  <1> QED
    BY ZenonT(30), <1>4, <1>5 DEF SendQueue, Unregistered

\* ipc_send, the section after thread_handoff.
LEMMA CountedKeeps ==
  ASSUME DeliveryInv, NEW c \in Cpus, NEW t \in Threads, SendCounted(c, t)
  PROVE  DeliveryInv'
  <1>1. ReceiveFrame
    BY ZenonT(30) DEF SendCounted, ThreadAt, Goto, DeliveryInv, ContextShape, ReceiveFrame,
       InReceive, Contexts
  <1> QED
    BY ZenonT(30), <1>1, IdleKeeps DEF SendCounted, DeliveryInv, MessageTypes

\* A receive or a poll of t returns with the head of a queue, and leaves no
\* registration of t behind.
LEMMA TakeKeeps ==
  ASSUME DeliveryInv, OneReceiver, NEW t \in Threads, NEW p \in Ports, Receives(t, p),
         wait[t] = NoMsg, queue[p] # <<>>, TakeHead(t, p), UNCHANGED <<sending, accepted>>,
         receiver' \in [Ports -> Threads \cup {NoThread}],
         \A q \in Ports : receiver'[q] \in {receiver[q], NoThread} /\ receiver'[q] # t
  PROVE  DeliveryInv'
  <1>1. /\ pc' = [pc EXCEPT ![t] = "user"] /\ ret' = ret /\ wait' = wait
        /\ recvList' = [recvList EXCEPT ![t] = <<>>]
    BY ZenonT(30) DEF TakeHead, Goto
  <1>2. /\ queue[p] \in Seq(Msgs) /\ taken[p] \in Seq(Msgs)
        /\ queue'[p] = Tail(queue[p]) /\ taken'[p] = Append(taken[p], Head(queue[p]))
        /\ \A q \in Ports : q # p => queue'[q] = queue[q] /\ taken'[q] = taken[q]
    BY ZenonT(30) DEF DeliveryInv, MessageTypes, TakeHead
  <1>3. /\ Head(queue[p]) \in Msgs /\ Tail(queue[p]) \in Seq(Msgs)
        /\ taken[p] \o queue[p] = Append(taken[p], Head(queue[p])) \o Tail(queue[p])
        /\ Append(taken[p], Head(queue[p])) \in Seq(Msgs)
    BY ZenonT(30), <1>2, HeadMoves
  <1>4. ContextShape' /\ \A u \in Threads : u # t => (InReceive(u) => InReceive(u)')
    BY ZenonT(30), <1>1 DEF DeliveryInv, ContextShape, InReceive, Contexts
  <1>5. MessageTypes'
    <2>1. queue' \in [Ports -> Seq(Msgs)] /\ taken' \in [Ports -> Seq(Msgs)]
      BY ZenonT(30), <1>3 DEF DeliveryInv, MessageTypes, TakeHead
    <2>2. DOMAIN recvList' = Threads /\ \A u \in Threads : recvList'[u] \in ReceiveOn[u] \cup {<<>>}
      BY ZenonT(30), <1>1 DEF DeliveryInv, MessageTypes
    <2>3. \A u \in Threads : pc'[u] = "queue" => sending[u] \in Msgs
      BY ZenonT(30), <1>1 DEF DeliveryInv, MessageTypes, ContextShape, Contexts
    <2> QED
      BY ZenonT(30), <2>1, <2>2, <2>3, <1>1 DEF DeliveryInv, MessageTypes
  <1>6. Registrations'
    <2> SUFFICES ASSUME NEW q \in Ports, NEW u \in Threads, receiver'[q] = u
                 PROVE  /\ q \in Range(recvList'[u])
                        /\ InReceive(u)'
                        /\ wait'[u] # NoMsg => DestOf[wait'[u]] # q
      BY ZenonT(30) DEF Registrations
    <2>1. u # t /\ receiver[q] = u /\ recvList'[u] = recvList[u]
      BY ZenonT(30), <1>1, SchedConstants DEF DeliveryInv, MessageTypes
    <2> QED
      BY ZenonT(30), <1>1, <1>4, <2>1 DEF DeliveryInv, Registrations
  <1>7. InHandInside'
    BY ZenonT(30), <1>1, <1>4 DEF DeliveryInv, InHandInside, MessageTypes
  <1>8. Accounted'
    <2>0. InHand(p) = {}
      BY ZenonT(30), OnlyReceiverHolds
    <2>1. ASSUME NEW q \in Ports, InHand(q)' = {}
          PROVE  accepted'[q] = taken'[q] \o queue'[q]
      <3>1. accepted[q] = taken[q] \o queue[q]
        BY ZenonT(30), <1>1, <2>1 DEF InHand, DeliveryInv, Accounted
      <3> QED
        BY ZenonT(30), <1>2, <1>3, <3>1
    <2>2. ASSUME NEW q \in Ports, NEW u \in Threads, wait'[u] # NoMsg, DestOf[wait'[u]] = q
          PROVE  accepted'[q] = Append(taken'[q], wait'[u]) \o queue'[q]
      <3>1. q # p
        BY ZenonT(30), <1>1, <2>0, <2>2 DEF InHand
      <3>2. accepted[q] = Append(taken[q], wait[u]) \o queue[q]
        BY ZenonT(30), <1>1, <2>2 DEF DeliveryInv, Accounted
      <3> QED
        BY ZenonT(30), <1>1, <1>2, <3>1, <3>2
    <2> QED
      BY ZenonT(30), <2>1, <2>2 DEF Accounted
  <1> QED
    BY ZenonT(30), <1>4, <1>5, <1>6, <1>7, <1>8 DEF DeliveryInv

\* A receive that found nothing registers on all its ports.
LEMMA RegisterKeeps ==
  ASSUME DeliveryInv, NEW t \in Threads, NEW ports \in ReceiveOn[t] \cup {<<>>}, NEW cleared,
         wait[t] = NoMsg, UNCHANGED <<sending, accepted>>,
         cleared \in [Ports -> Threads \cup {NoThread}],
         \A q \in Ports : cleared[q] \in {receiver[q], NoThread},
         \A q \in Ports : cleared[q] = t => q \in Range(ports),
         Register(t, ports, cleared)
  PROVE  DeliveryInv'
  <1>1. /\ pc' = [pc EXCEPT ![t] = "out"] /\ ret' = [ret EXCEPT ![t] = "rwake"]
        /\ queue' = queue /\ taken' = taken
        /\ recvList' = [recvList EXCEPT ![t] = ports]
        /\ receiver' = [q \in Ports |-> IF q \in Range(ports) THEN t ELSE cleared[q]]
        /\ wait' = [wait EXCEPT ![t] = NoMsg]
    BY ZenonT(30) DEF Register, Goto
  <1>2. wait' = wait
    BY ZenonT(30), <1>1 DEF DeliveryInv, MessageTypes
  <1>3. ContextShape' /\ InReceive(t)' /\ \A u \in Threads : InReceive(u) => InReceive(u)'
    BY ZenonT(30), <1>1 DEF DeliveryInv, ContextShape, InReceive, Contexts
  <1>4. MessageTypes'
    <2>1. receiver' \in [Ports -> Threads \cup {NoThread}]
      BY ZenonT(30), <1>1
    <2>2. DOMAIN recvList' = Threads /\ \A u \in Threads : recvList'[u] \in ReceiveOn[u] \cup {<<>>}
      BY ZenonT(30), <1>1 DEF DeliveryInv, MessageTypes
    <2>3. \A u \in Threads : pc'[u] = "queue" => sending[u] \in Msgs
      BY ZenonT(30), <1>1 DEF DeliveryInv, MessageTypes, ContextShape, Contexts
    <2> QED
      BY ZenonT(30), <2>1, <2>2, <2>3, <1>1, <1>2 DEF DeliveryInv, MessageTypes
  <1>5. Registrations'
    <2> SUFFICES ASSUME NEW q \in Ports, NEW u \in Threads, receiver'[q] = u
                 PROVE  /\ q \in Range(recvList'[u])
                        /\ InReceive(u)'
                        /\ wait'[u] # NoMsg => DestOf[wait'[u]] # q
      BY ZenonT(30) DEF Registrations
    <2>1. CASE q \in Range(ports)
      <3>1. u = t /\ recvList'[t] = ports
        BY ZenonT(30), <1>1, <2>1 DEF DeliveryInv, MessageTypes
      <3> QED
        BY ZenonT(30), <2>1, <3>1, <1>2, <1>3
    <2>2. CASE q \notin Range(ports)
      <3>1. receiver[q] = u /\ u # t
        BY ZenonT(30), <1>1, <2>2, SchedConstants
      <3>2. recvList'[u] = recvList[u]
        BY ZenonT(30), <1>1, <3>1 DEF DeliveryInv, MessageTypes
      <3> QED
        BY ZenonT(30), <3>1, <3>2, <1>2, <1>3 DEF DeliveryInv, Registrations
    <2> QED
      BY ZenonT(30), <2>1, <2>2
  <1>6. InHandInside'
    <2> SUFFICES ASSUME NEW u \in Threads, wait'[u] # NoMsg
                 PROVE  DestOf[wait'[u]] \in Range(recvList'[u]) /\ InReceive(u)'
      BY ZenonT(30) DEF InHandInside
    <2>1. u # t /\ recvList'[u] = recvList[u]
      BY ZenonT(30), <1>1, <1>2 DEF DeliveryInv, MessageTypes
    <2> QED
      BY ZenonT(30), <2>1, <1>2, <1>3 DEF DeliveryInv, InHandInside
  <1>7. Accounted'
    <2>1. \A q \in Ports : InHand(q)' = InHand(q)
      BY ZenonT(30), <1>2 DEF InHand
    <2>2. /\ \A q \in Ports : InHand(q) = {} => accepted[q] = taken[q] \o queue[q]
          /\ \A q \in Ports, u \in Threads : wait[u] # NoMsg /\ DestOf[wait[u]] = q =>
               accepted[q] = Append(taken[q], wait[u]) \o queue[q]
      BY ZenonT(30) DEF DeliveryInv, Accounted
    <2> QED
      BY ZenonT(30), <1>1, <1>2, <2>1, <2>2 DEF Accounted
  <1> QED
    BY ZenonT(30), <1>3, <1>4, <1>5, <1>6, <1>7 DEF DeliveryInv

\* A woken receive returns with the message in its wait record.
LEMMA DeliveredKeeps ==
  ASSUME DeliveryInv, OneReceiver, NEW t \in Threads, pc[t] = "rwake",
         TakeDelivered(t), UNCHANGED <<sending, accepted>>
  PROVE  DeliveryInv'
  <1> DEFINE m == wait[t]
             p == DestOf[m]
  <1>1. /\ m \in Msgs /\ p \in Ports /\ p \in Range(recvList[t])
        /\ recvList[t] \in Seq(Ports)
    BY ZenonT(30), IpcConstants, ListTyped DEF TakeDelivered, Delivered, DeliveryInv,
       MessageTypes, InHandInside
  <1>2. /\ pc' = [pc EXCEPT ![t] = "user"] /\ ret' = ret /\ queue' = queue
        /\ recvList' = [recvList EXCEPT ![t] = <<>>]
        /\ wait' = [wait EXCEPT ![t] = NoMsg]
        /\ taken' = [taken EXCEPT ![p] = Append(@, m)]
        /\ receiver' = Withdrawn(t)
    BY ZenonT(30) DEF TakeDelivered, Goto
  <1>3. /\ taken[p] \in Seq(Msgs) /\ taken'[p] = Append(taken[p], m)
        /\ \A q \in Ports : q # p => taken'[q] = taken[q]
    BY ZenonT(30), <1>1, <1>2 DEF DeliveryInv, MessageTypes
  <1>4. wait'[t] = NoMsg /\ \A u \in Threads : u # t => wait'[u] = wait[u]
    BY ZenonT(30), <1>2 DEF DeliveryInv, MessageTypes
  <1>5. ContextShape' /\ \A u \in Threads : u # t => (InReceive(u) => InReceive(u)')
    BY ZenonT(30), <1>2 DEF DeliveryInv, ContextShape, InReceive, Contexts
  <1>6. MessageTypes'
    <2>1. taken' \in [Ports -> Seq(Msgs)]
      BY ZenonT(30), <1>1, <1>2, <1>3, AppendBehind DEF DeliveryInv, MessageTypes
    <2>2. DOMAIN recvList' = Threads /\ \A u \in Threads : recvList'[u] \in ReceiveOn[u] \cup {<<>>}
      BY ZenonT(30), <1>2 DEF DeliveryInv, MessageTypes
    <2>3. \A u \in Threads : pc'[u] = "queue" => sending[u] \in Msgs
      BY ZenonT(30), <1>2 DEF DeliveryInv, MessageTypes, ContextShape, Contexts
    <2>4. receiver' \in [Ports -> Threads \cup {NoThread}]
      BY ZenonT(30), <1>2 DEF DeliveryInv, MessageTypes, Withdrawn
    <2>5. wait' \in [Threads -> Msgs \cup {NoMsg}]
      BY ZenonT(30), <1>2 DEF DeliveryInv, MessageTypes
    <2> QED
      BY ZenonT(30), <2>1, <2>2, <2>3, <2>4, <2>5, <1>2 DEF DeliveryInv, MessageTypes
  <1>7. Registrations'
    <2> SUFFICES ASSUME NEW q \in Ports, NEW u \in Threads, receiver'[q] = u
                 PROVE  /\ q \in Range(recvList'[u])
                        /\ InReceive(u)'
                        /\ wait'[u] # NoMsg => DestOf[wait'[u]] # q
      BY ZenonT(30) DEF Registrations
    <2>1. receiver[q] = u /\ (u = t => ~(Len(recvList[t]) > 1))
      BY ZenonT(30), <1>2, SchedConstants DEF Withdrawn
    <2>2. u # t
      <3> SUFFICES ASSUME u = t PROVE FALSE
        BY ZenonT(30)
      <3>1. q \in Range(recvList[t]) /\ q # p
        BY ZenonT(30), <2>1, <1>1, IpcConstants DEF DeliveryInv, Registrations
      <3>2. Len(recvList[t]) <= 1
        BY <2>1, <1>1
      <3> QED
        BY ZenonT(30), <3>1, <3>2, <1>1, ShortList
    <2>3. recvList'[u] = recvList[u]
      BY ZenonT(30), <1>2, <2>2 DEF DeliveryInv, MessageTypes
    <2> QED
      BY ZenonT(30), <1>4, <1>5, <2>1, <2>2, <2>3 DEF DeliveryInv, Registrations
  <1>8. InHandInside'
    <2> SUFFICES ASSUME NEW u \in Threads, wait'[u] # NoMsg
                 PROVE  DestOf[wait'[u]] \in Range(recvList'[u]) /\ InReceive(u)'
      BY ZenonT(30) DEF InHandInside
    <2>1. u # t /\ recvList'[u] = recvList[u]
      BY ZenonT(30), <1>2, <1>4 DEF DeliveryInv, MessageTypes
    <2> QED
      BY ZenonT(30), <2>1, <1>4, <1>5 DEF DeliveryInv, InHandInside
  <1>9. Accounted'
    <2>1. accepted[p] = Append(taken[p], m) \o queue[p]
      BY ZenonT(30), <1>1 DEF TakeDelivered, Delivered, DeliveryInv, Accounted
    <2>2. \A u \in Threads : u # t /\ wait[u] # NoMsg => DestOf[wait[u]] # p
      <3> SUFFICES ASSUME NEW u \in Threads, u # t, wait[u] # NoMsg, DestOf[wait[u]] = p PROVE FALSE
        BY ZenonT(30)
      <3>1. Receives(u, p) /\ Receives(t, p)
        BY ZenonT(30), <1>1, ListReceives DEF DeliveryInv, InHandInside
      <3> QED
        BY ZenonT(30), <3>1, <1>1 DEF OneReceiver
    <2>3. ASSUME NEW q \in Ports, InHand(q)' = {}
          PROVE  accepted'[q] = taken'[q] \o queue'[q]
      <3>1. CASE q = p
        BY ZenonT(30), <3>1, <2>1, <1>2, <1>3
      <3>2. CASE q # p
        <4>1. InHand(q) = {}
          BY ZenonT(30), <2>3, <3>2, <1>4 DEF InHand
        <4> QED
          BY ZenonT(30), <3>2, <4>1, <1>2, <1>3 DEF DeliveryInv, Accounted
      <3> QED
        BY ZenonT(30), <3>1, <3>2
    <2>4. ASSUME NEW q \in Ports, NEW u \in Threads, wait'[u] # NoMsg, DestOf[wait'[u]] = q
          PROVE  accepted'[q] = Append(taken'[q], wait'[u]) \o queue'[q]
      <3>1. u # t /\ wait'[u] = wait[u]
        BY ZenonT(30), <1>4, <2>4
      <3>2. q # p
        BY ZenonT(30), <3>1, <2>2, <2>4
      <3>3. accepted[q] = Append(taken[q], wait[u]) \o queue[q]
        BY ZenonT(30), <3>1, <2>4 DEF DeliveryInv, Accounted
      <3> QED
        BY ZenonT(30), <3>1, <3>2, <3>3, <1>2, <1>3
    <2> QED
      BY ZenonT(30), <2>3, <2>4 DEF Accounted
  <1> QED
    BY ZenonT(30), <1>5, <1>6, <1>7, <1>8, <1>9 DEF DeliveryInv

\* The loop of a receive: cleared holds the registrations left before the turn.
LEMMA TurnDelivers ==
  ASSUME DeliveryInv, OneReceiver, NEW c \in Cpus, NEW t \in Threads,
         NEW ports \in ReceiveOn[t] \cup {<<>>}, NEW cleared,
         wait[t] = NoMsg, UNCHANGED <<sending, accepted>>,
         cleared \in [Ports -> Threads \cup {NoThread}],
         \A q \in Ports : cleared[q] \in {receiver[q], NoThread},
         \A q \in Ports : cleared[q] = t => q \in Range(ports) /\ Len(ports) <= 1 /\ queue[q] = <<>>,
         RecvTurn(c, t, ports, cleared)
  PROVE  DeliveryInv'
  <1>1. ports \in Seq(Ports)
    <2>1. ReceiveOn[t] \subseteq Seq(Ports) /\ <<>> \in Seq(Ports)
      BY SMTT(30), IpcConstants
    <2> QED
      BY ZenonT(30), <2>1
  <1>2. ASSUME NEW i \in 1..Len(ports), queue[ports[i]] # <<>>, TakeHead(t, ports[i]),
               receiver' = cleared
        PROVE  DeliveryInv'
    <2>1. ports[i] \in Range(ports) /\ ports[i] \in Ports
      BY ZenonT(30), <1>1, InRange
    <2>2. Receives(t, ports[i])
      <3>1. ports # <<>>
        BY SMTT(30), <1>2
      <3> QED
        BY ZenonT(30), <2>1, <3>1 DEF Receives
    <2>3. \A q \in Ports : receiver'[q] # t
      BY ZenonT(30), <1>1, <1>2, <2>1, ShortList
    <2> QED
      BY ZenonT(30), <1>2, <2>1, <2>2, <2>3, TakeKeeps
  <1>3. ASSUME Register(t, ports, cleared) PROVE DeliveryInv'
    BY ZenonT(30), <1>3, RegisterKeeps
  <1>4. ASSUME ExitLocked(c, t), receiver' = cleared PROVE DeliveryInv'
    <2>1. ReceiveFrame
      BY ZenonT(30), <1>4 DEF ExitLocked, Goto, DeliveryInv, ContextShape, ReceiveFrame,
         InReceive, Contexts
    <2> QED
      BY ZenonT(30), <1>4, <2>1, IdleKeeps DEF ExitLocked
  <1> QED
    BY ZenonT(30), <1>2, <1>3, <1>4 DEF RecvTurn

\* A thread outside the kernel holds no message and is registered nowhere.
LEMMA OutsideHoldsNothing ==
  ASSUME DeliveryInv, NEW t \in Threads, pc[t] = "user"
  PROVE  /\ wait[t] = NoMsg
         /\ \A p \in Ports : receiver[p] # t
  BY ZenonT(30) DEF DeliveryInv, InHandInside, Registrations, InReceive

\* ipc_recv and ipc_recv_any up to their first sleep.
LEMMA EnterKeeps ==
  ASSUME DeliveryInv, OneReceiver, NEW c \in Cpus, NEW t \in Threads,
         NEW ports \in ReceiveOn[t], RecvEnter(c, t, ports)
  PROVE  DeliveryInv'
  <1>1. wait[t] = NoMsg /\ \A p \in Ports : receiver[p] # t
    BY ZenonT(30), OutsideHoldsNothing DEF RecvEnter, ThreadAt
  <1>2. receiver \in [Ports -> Threads \cup {NoThread}]
    BY ZenonT(30) DEF DeliveryInv, MessageTypes
  <1>3. RecvTurn(c, t, ports, receiver) /\ UNCHANGED <<sending, accepted>>
    BY ZenonT(30) DEF RecvEnter
  <1> QED
    BY SMTT(30), <1>1, <1>2, <1>3, TurnDelivers

\* ipc_try_recv.
LEMMA PollKeeps ==
  ASSUME DeliveryInv, OneReceiver, NEW c \in Cpus, NEW t \in Threads, NEW p \in Ports,
         TryRecv(c, t, p)
  PROVE  DeliveryInv'
  <1>1. wait[t] = NoMsg /\ \A q \in Ports : receiver[q] # t
    BY ZenonT(30), OutsideHoldsNothing DEF TryRecv, ThreadAt
  <1>2. receiver \in [Ports -> Threads \cup {NoThread}]
    BY ZenonT(30) DEF DeliveryInv, MessageTypes
  <1>3. /\ Receives(t, p) /\ queue[p] # <<>> /\ TakeHead(t, p)
        /\ UNCHANGED <<receiver, sending, accepted>>
    BY ZenonT(30) DEF TryRecv, Receives
  <1> QED
    BY ZenonT(30), <1>1, <1>2, <1>3, TakeKeeps

\* A receive after its sleep.  With one port ipc_recv does not withdraw its
\* registration: ReceiverMeansEmpty shows there is none left to withdraw when it
\* returns with a queued message.
LEMMA WakeKeeps ==
  ASSUME DeliveryInv, QueueInv, OneReceiver, NEW c \in Cpus, NEW t \in Threads, RecvWake(c, t)
  PROVE  DeliveryInv'
  <1>1. pc[t] = "rwake" /\ UNCHANGED <<sending, accepted>>
    BY ZenonT(30) DEF RecvWake, ThreadAt
  <1>2. ASSUME TakeDelivered(t) PROVE DeliveryInv'
    BY ZenonT(30), <1>1, <1>2, DeliveredKeeps
  <1>3. ASSUME wait[t] = NoMsg, RecvTurn(c, t, recvList[t], Withdrawn(t)) PROVE DeliveryInv'
    <2> DEFINE cleared == Withdrawn(t)
    <2>1. recvList[t] \in Seq(Ports)
      BY ZenonT(30), ListTyped DEF DeliveryInv
    <2>2. cleared \in [Ports -> Threads \cup {NoThread}]
      BY ZenonT(30) DEF Withdrawn, DeliveryInv, MessageTypes
    <2>3. \A q \in Ports : cleared[q] \in {receiver[q], NoThread}
      BY ZenonT(30) DEF Withdrawn
    <2>4. ASSUME NEW q \in Ports, cleared[q] = t
          PROVE  q \in Range(recvList[t]) /\ Len(recvList[t]) <= 1 /\ queue[q] = <<>>
      <3>1. receiver[q] = t /\ ~(Len(recvList[t]) > 1)
        BY ZenonT(30), <2>4, SchedConstants DEF Withdrawn
      <3>2. q \in Range(recvList[t])
        BY ZenonT(30), <3>1 DEF DeliveryInv, Registrations
      <3>3. queue[q] = <<>>
        BY ZenonT(30), <3>1, SchedConstants DEF QueueInv, ReceiverMeansEmpty
      <3> QED
        BY SMTT(30), <2>1, <3>1, <3>2, <3>3
    <2>5. recvList[t] \in ReceiveOn[t] \cup {<<>>}
      BY ZenonT(30) DEF DeliveryInv, MessageTypes
    <2> HIDE DEF cleared
    <2> QED
      BY SMTT(30), <1>1, <1>3, <2>2, <2>3, <2>4, <2>5, TurnDelivers DEF cleared
  <1> QED
    BY ZenonT(30), <1>2, <1>3 DEF RecvWake, Delivered

\* ipc_cancel_thread, which task_kill calls.
LEMMA CancelKeeps ==
  ASSUME DeliveryInv, NEW c \in Cpus, NEW t \in Threads, KillCancelIpc(c, t)
  PROVE  DeliveryInv'
  <1>1. ReceiveFrame
    BY ZenonT(30), SchedFrame DEF KillCancelIpc, DeliveryInv
  <1>2. /\ receiver' \in [Ports -> Threads \cup {NoThread}]
        /\ \A p \in Ports : receiver'[p] \in {receiver[p], NoThread}
    BY ZenonT(30) DEF KillCancelIpc, Cancelled, DeliveryInv, MessageTypes
  <1> QED
    BY ZenonT(30), <1>1, <1>2, IdleKeeps DEF KillCancelIpc

-----------------------------------------------------------------------------
\* No message is anywhere when the kernel starts.
LEMMA DeliveryInit == Init => DeliveryInv
  <1> SUFFICES ASSUME Init PROVE DeliveryInv
    BY ZenonT(30)
  <1>1. ContextShape
    BY ZenonT(30) DEF Init, SchedInit, ContextShape, Contexts
  <1>2. <<>> \in Seq(Msgs)
    BY SMTT(30)
  <1>3. MessageTypes
    BY ZenonT(30), <1>1, <1>2 DEF Init, SchedInit, MessageTypes, ContextShape, Contexts
  <1>4. Registrations /\ InHandInside
    BY ZenonT(30), SchedConstants DEF Init, Registrations, InHandInside
  <1>5. Accounted
    BY ZenonT(30), <1>2, SequenceFacts DEF Init, Accounted
  <1> QED
    BY ZenonT(30), <1>1, <1>3, <1>4, <1>5 DEF DeliveryInv

\* Every step keeps the invariant.
LEMMA DeliveryNext ==
  ASSUME OneReceiver, QueueInv, DeliveryInv, [Next]_vars
  PROVE  DeliveryInv'
  <1>0. ContextShape /\ receiver \in [Ports -> Threads \cup {NoThread}]
    BY ZenonT(30) DEF DeliveryInv, MessageTypes
  <1>1. ASSUME ReceiveFrame, UNCHANGED ipcVars PROVE DeliveryInv'
    BY ZenonT(30), <1>0, <1>1, IdleKeeps DEF ipcVars
  <1>2. CASE UNCHANGED vars
    <2>1. ReceiveFrame
      BY ZenonT(30), <1>0, <1>2 DEF vars, schedVars, ReceiveFrame, ContextShape, InReceive
    <2> QED
      BY ZenonT(30), <1>1, <1>2, <2>1 DEF vars
  <1>3. CASE TimerStep
    BY ZenonT(30), <1>0, <1>1, <1>3, SchedFrame DEF TimerStep
  <1>4. ASSUME NEW c \in Cpus, KernelStep(c) PROVE DeliveryInv'
    <2>1. CASE (SchedulerStep(c) \/ CallStep(c) \/ HandoffStep(c)) /\ UNCHANGED ipcVars
      BY ZenonT(30), <1>0, <1>1, <2>1, SchedFrame
    <2>2. ASSUME NEW t \in Threads,
                 SendQueue(c, t) \/ SendCounted(c, t) \/ RecvWake(c, t) \/ KillCancelIpc(c, t)
          PROVE  DeliveryInv'
      BY ZenonT(30), <2>2, QueueKeeps, CountedKeeps, WakeKeeps, CancelKeeps
    <2> QED
      BY ZenonT(30), <1>4, <2>1, <2>2 DEF KernelStep
  <1>5. ASSUME NEW c \in Cpus, UserStep(c) PROVE DeliveryInv'
    <2>1. CASE ThreadRequest(c) /\ UNCHANGED ipcVars
      BY ZenonT(30), <1>0, <1>1, <2>1, SchedFrame
    <2>2. ASSUME NEW t \in Threads, NEW m \in Msgs, SendDirect(c, t, m) PROVE DeliveryInv'
      BY ZenonT(30), <2>2, DirectKeeps
    <2>3. ASSUME NEW t \in Threads, NEW ports \in ReceiveOn[t], RecvEnter(c, t, ports)
          PROVE  DeliveryInv'
      BY ZenonT(30), <2>3, EnterKeeps
    <2>4. ASSUME NEW t \in Threads, NEW p \in Ports, TryRecv(c, t, p) PROVE DeliveryInv'
      BY ZenonT(30), <2>4, PollKeeps
    <2> QED
      BY ZenonT(30), <1>5, <2>1, <2>2, <2>3, <2>4 DEF UserStep
  <1> QED
    BY ZenonT(30), <1>2, <1>3, <1>4, <1>5 DEF Next

\* The invariant gives the property: with one receiver a port has at most one
\* message in a wait record.
LEMMA DeliveryImplies ==
  ASSUME OneReceiver, DeliveryInv
  PROVE  FifoExactlyOnce
  <1> SUFFICES ASSUME NEW p \in Ports
               PROVE  LET H == InHand(p)
                          hand == IF H = {} THEN <<>> ELSE <<wait[CHOOSE t \in H : TRUE]>>
                      IN  (\A t, u \in H : t = u) /\ accepted[p] = taken[p] \o hand \o queue[p]
    BY ZenonT(30) DEF FifoExactlyOnce
  <1>0. taken[p] \in Seq(Msgs) /\ queue[p] \in Seq(Msgs)
    BY ZenonT(30) DEF DeliveryInv, MessageTypes
  <1>1. CASE InHand(p) = {}
    <2>1. accepted[p] = taken[p] \o queue[p]
      BY ZenonT(30), <1>1 DEF DeliveryInv, Accounted
    <2>2. taken[p] \o <<>> = taken[p]
      BY ZenonT(30), <1>0, SequenceFacts
    <2> QED
      BY ZenonT(30), <1>1, <2>1, <2>2
  <1>2. CASE InHand(p) # {}
    <2>1. PICK t \in InHand(p) : TRUE
      BY ZenonT(30), <1>2
    <2>2. t \in Threads /\ wait[t] # NoMsg /\ DestOf[wait[t]] = p /\ wait[t] \in Msgs
      BY ZenonT(30), <2>1 DEF InHand, DeliveryInv, MessageTypes
    <2>3. InHand(p) = {t}
      <3> SUFFICES ASSUME NEW u \in InHand(p) PROVE u = t
        BY ZenonT(30), <2>1
      <3>1. u \in Threads /\ Receives(u, p) /\ Receives(t, p)
        BY ZenonT(30), <2>2, ListReceives DEF InHand, DeliveryInv, InHandInside
      <3> QED
        BY ZenonT(30), <2>2, <3>1 DEF OneReceiver
    <2>4. (CHOOSE u \in InHand(p) : TRUE) = t
      BY ZenonT(30), <2>3
    <2>5. accepted[p] = Append(taken[p], wait[t]) \o queue[p]
      BY ZenonT(30), <2>2 DEF DeliveryInv, Accounted
    <2>6. Append(taken[p], wait[t]) = taken[p] \o <<wait[t]>>
      BY SMTT(30), <1>0, <2>2, SequenceFacts
    <2>7. \A u, v \in InHand(p) : u = v
      BY ZenonT(30), <2>3
    <2> QED
      BY ZenonT(30), <1>2, <2>4, <2>5, <2>6, <2>7
  <1> QED
    BY ZenonT(30), <1>1, <1>2

\* On a port that one thread receives from, ipc_send and the three receives
\* deliver every accepted message once and in order, whether it went through the
\* wait record or through the queue, and whatever the scheduler, idle pull and
\* task_kill do meanwhile.
THEOREM DeliveryExact ==
  ASSUME OneReceiver
  PROVE  Spec => []FifoExactlyOnce
  <1>1. Init => QueueInv /\ DeliveryInv
    BY ZenonT(30), DeliveryInit, QueueInit
  <1>2. QueueInv /\ DeliveryInv /\ [Next]_vars => (QueueInv /\ DeliveryInv)'
    BY ZenonT(30), QueueNext, DeliveryNext
  <1>3. DeliveryInv => FifoExactlyOnce
    BY ZenonT(30), DeliveryImplies
  <1> QED
    BY <1>1, <1>2, <1>3, PTL DEF Spec
=============================================================================
