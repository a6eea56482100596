----------------------------- MODULE VirtioNet ------------------------------
(* The virtio network driver (user/virtio-net): it polls.  Receive buffers go  *)
(* round between the driver and the device; frames are handed to the net       *)
(* server in batches; one frame of the net server's is under way at a time.    *)
(* The device, external, learns of published buffers by a notification only.   *)
EXTENDS Integers, Sequences, SequencesExt, FiniteSetsExt

CONSTANTS
  KBuffers,     \* VIRTIO_NET_RX_BUFFERS = VIRTIO_NET_QUEUE_SIZE
  KBatch,       \* VIRTIO_NET_RX_BATCH_FRAMES
  KScenarios    \* [arrive, kinds, send, fails: what may fail]

VARIABLES
  nic,          \* the driver, the rings and the device
  kdoes         \* the scenario
kvars == <<nic, kdoes>>

KIds == 0..KBuffers - 1

KInit ==
  /\ kdoes \in KScenarios
  /\ nic = [pc |-> "new", next |-> 0, seen |-> 0,
            ready |-> <<>>,      \* published and not yet told to the device
            empty |-> <<>>,      \* the device's, to fill
            filled |-> <<>>,     \* used: [id, frame, kind]
            wire |-> 0, got |-> <<>>,
            lost |-> {}, gone |-> {}, failed |-> FALSE,     \* ghosts
            queued |-> 0, inflight |-> 0, buffer |-> 0, sending |-> 0, done |-> 0,
            sent |-> <<>>, told |-> <<>>, stuck |-> FALSE]

-----------------------------------------------------------------------------
(* Receiving                                                                   *)

\* queue_avail_put
KAvailPut(n, id) ==
  IF n.next - n.seen >= KBuffers THEN n
  ELSE [n EXCEPT !.next = @ + 1, !.ready = Append(@, id)]
\* notify_queue, for the receive queue
KNotify(n) == [n EXCEPT !.empty = @ \o n.ready, !.ready = <<>>]

\* replenish_rx: every buffer is published, then the device told; it may run out of
\* memory after some
KReplenish(n, some) ==
  LET filled == FoldLeft(KAvailPut, n, [i \in 1..some |-> i - 1]) IN
  IF some < KBuffers THEN [filled EXCEPT !.pc = "dead"]
  ELSE [KNotify(filled) EXCEPT !.pc = "poll"]

\* submit_rx_batch: p is a poll under way; its fails-th submission fails
KSubmitBatch(p) ==
  IF p.batch = <<>> THEN p
  ELSE IF p.fails = 1
  THEN [p EXCEPT !.ok = FALSE, !.batch = <<>>, !.fails = 0, !.n.failed = TRUE,
                 !.n.lost = @ \cup ToSet(p.batch)]
  ELSE [p EXCEPT !.batch = <<>>, !.fails = @ - 1, !.n.got = @ \o p.batch]

\* rx_batch_add, and the batch submitted when it is full; a frame beyond the limit is
\* dropped
KAdd(p, e) ==
  IF e.kind = "big" THEN p
  ELSE LET q == [p EXCEPT !.batch = Append(@, e.frame)] IN
       IF Len(q.batch) = KBatch THEN KSubmitBatch(q) ELSE q

\* poll_rx_once, a used buffer: a runt's is not given back, nor that at which a
\* submission fails; nothing behind it is looked at
KUsed(p, e) ==
  IF ~p.ok THEN [p EXCEPT !.n.filled = Append(@, e)]
  ELSE LET q == [p EXCEPT !.n.seen = @ + 1] IN
       IF e.kind = "runt" THEN [q EXCEPT !.n.gone = @ \cup {e.id}]
       ELSE LET r == KAdd(q, e) IN
            IF ~r.ok THEN [r EXCEPT !.n.gone = @ \cup {e.id}]
            ELSE [r EXCEPT !.n = KAvailPut(r.n, e.id), !.completed = @ + 1]
KPollOnce(n, fails) ==
  LET p == FoldLeft(KUsed, [n |-> [n EXCEPT !.filled = <<>>], batch |-> <<>>, ok |-> TRUE,
                            completed |-> 0, fails |-> fails], n.filled) IN
  IF p.ok THEN KSubmitBatch(p) ELSE p
KPollRx_OnlyWhenEmpty(n, fails) ==
  LET p == KPollOnce(n, fails) IN
  IF p.ok /\ p.completed # 0 /\ p.n.empty = <<>> THEN KNotify(p.n) ELSE p.n
\* poll_rx_bounded: buffers given back are told to the device, unless the poll failed
KPollRx(n, fails) ==
  LET p == KPollOnce(n, fails) IN
  IF p.ok /\ p.completed # 0 THEN KNotify(p.n) ELSE p.n

-----------------------------------------------------------------------------
(* Sending                                                                     *)

\* complete_tx_frame: the net server hears of it, or the frame stays under way for ever
KCompleteTx(n, fails) ==
  IF fails THEN [n EXCEPT !.stuck = TRUE]
  ELSE [n EXCEPT !.inflight = 0, !.told = Append(@, n.inflight)]
\* poll_tx_completions
KCompletions(n, fails) ==
  IF n.done > 0 /\ n.inflight # 0 THEN [KCompleteTx(n, fails) EXCEPT !.done = 0]
  ELSE [n EXCEPT !.done = 0]
\* submit_tx_frame: the one buffer, published and told
KSubmitTx(n, frame) ==
  [n EXCEPT !.buffer = frame, !.sending = @ + 1, !.inflight = frame, !.queued = @ + 1]
KPollTx_NotWaiting(n, fails) ==
  LET c == KCompletions(n, fails) IN
  IF c.queued = kdoes.send THEN c ELSE KSubmitTx(c, c.queued + 1)
\* poll_tx_once: completions, then the net server's next frame, when none is under way
KPollTx(n, fails) ==
  LET c == KCompletions(n, fails) IN
  IF c.inflight # 0 \/ c.queued = kdoes.send THEN c ELSE KSubmitTx(c, c.queued + 1)

-----------------------------------------------------------------------------

\* init_device, its failures before the buffers leave nothing behind
KStart ==
  /\ nic.pc = "new"
  /\ \E some \in {KBuffers} \cup (IF "memory" \in kdoes.fails THEN {1} ELSE {}):
       nic' = KReplenish(nic, some)
\* main: receive, then send, a few times while something happens (poll_tx_bounded)
KPoll ==
  /\ nic.pc = "poll"
  /\ \E fails \in {0} \cup (IF "submit" \in kdoes.fails THEN {1, 2} ELSE {}):
       nic' = [KPollRx(nic, fails) EXCEPT !.pc = "send"]
KSend ==
  /\ nic.pc = "send"
  /\ \E fails \in {FALSE} \cup {"complete" \in kdoes.fails}:
       LET n == KPollTx(nic, fails) IN
       \E pc \in {"poll"} \cup (IF n # nic THEN {"send"} ELSE {}):
         nic' = [n EXCEPT !.pc = pc]

\* The device: a frame arrives in the next empty buffer; the buffer under way is sent
KArrive ==
  /\ nic.wire < kdoes.arrive /\ nic.empty # <<>>
  /\ \E kind \in kdoes.kinds:
       nic' = [nic EXCEPT !.wire = @ + 1, !.empty = Tail(@),
                 !.filled = Append(@, [id |-> Head(nic.empty), frame |-> nic.wire + 1,
                                       kind |-> kind]),
                 !.lost = IF kind = "good" THEN @ ELSE @ \cup {nic.wire + 1}]
KTransmit ==
  /\ nic.sending > 0
  /\ nic' = [nic EXCEPT !.sending = @ - 1, !.done = @ + 1, !.sent = Append(@, nic.buffer)]

KNext == (KStart \/ KPoll \/ KSend \/ KArrive \/ KTransmit) /\ UNCHANGED kdoes
KSpec == KInit /\ [][KNext]_kvars

-----------------------------------------------------------------------------

\* The driver and its rings have their types
NicTypeOK ==
  /\ kdoes \in KScenarios /\ nic.pc \in {"new", "poll", "send", "dead"}
  /\ ToSet(nic.ready) \subseteq KIds /\ ToSet(nic.empty) \subseteq KIds

\* Of the frames the driver has looked at the net server gets each good one whose
\* submission did not fail, once and in order (poll_rx_once); every receive buffer is in
\* one place, and only a runt or a failed submission loses one; while no submission
\* failed no buffer is kept from the device (poll_rx_bounded); a frame of the net
\* server's is on the wire once and in order, and reported so (poll_tx_once), the one
\* buffer untouched while the device may read it
NicSound ==
  LET waiting == [i \in DOMAIN nic.filled |-> nic.filled[i].frame]
      ids == nic.ready \o nic.empty \o [i \in DOMAIN nic.filled |-> nic.filled[i].id]
      looked == SelectSeq([i \in 1..nic.wire |-> i],
                          LAMBDA f: f \notin ToSet(waiting) /\ f \notin nic.lost) IN
  nic.pc \in {"poll", "send"} =>
    /\ nic.got = looked
    /\ \A i, j \in DOMAIN ids: ids[i] = ids[j] => i = j
    /\ ToSet(ids) \cup nic.gone = KIds
    /\ ~nic.failed => nic.ready = <<>>
    /\ nic.sent = [i \in 1..Len(nic.sent) |-> i]
    /\ IsPrefix(nic.told, nic.sent)
    /\ ~nic.stuck => Len(nic.sent) - Len(nic.told) <= 1
=============================================================================
