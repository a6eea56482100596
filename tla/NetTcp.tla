------------------------------- MODULE NetTcp -------------------------------
(* The TCP of the net server: streams between two local sockets, and IPv4    *)
(* streams with a peer on a network that loses, repeats and reorders.  The   *)
(* queued segments are the bytes they hold; a byte is its place in its       *)
(* stream.  iss, got, wrote and lost are ghosts: the peer's first sequence   *)
(* number, what was read and written, and whether SHUT_RD threw bytes away.  *)
EXTENDS NetLink

CONSTANTS
  SeqSpace,                  \* 2 ^ 32
  RxLimit, WindowMax,      \* NET_TCP_RX_BUFFER_LIMIT, NET_TCP_WINDOW_MAX
  WindowShift,             \* NET_TCP_WINDOW_SCALE_SHIFT
  EphFirst, EphLast        \* NET_{TCP,UDP}_PORT_EPHEMERAL_{FIRST,LAST}

End(a, p) == [addr |-> a, port |-> p]
TcpSocket(id, f) ==
  [id |-> id, fam |-> f, state |-> "open", local |-> End(0, 0), peer |-> End(0, 0),
   psock |-> 0, backlog |-> 0, pending |-> <<>>, rdclosed |-> FALSE, wrclosed |-> FALSE,
   peerclosed |-> FALSE, reset |-> FALSE, txseq |-> 0, rxack |-> 0, hs |-> FALSE,
   shift |-> 0, scaled |-> FALSE, rx |-> <<>>, ofo |-> <<>>, tx |-> <<>>,
   iss |-> 0, got |-> <<>>, wrote |-> <<>>, lost |-> FALSE]

\* tcp_alloc_socket: the newest is first in the list and has the highest id
TcpAlloc(n, f) == [n EXCEPT !.tcp = <<TcpSocket(Len(@) + 1, f)>> \o @]
TcpAt(n, id) == Len(n.tcp) + 1 - id
TcpOf(n, id) == n.tcp[TcpAt(n, id)]                             \* tcp_find
TcpIds(n) == 1 .. Len(n.tcp)
TcpPut(n, s) == [n EXCEPT !.tcp[TcpAt(n, s.id)] = s]
FirstTcp(n, P(_)) ==
  LET of == SelectSeq(n.tcp, P) IN IF of = <<>> THEN 0 ELSE of[1].id

TcpPortInUse(n, f, p) ==
  \E s \in ToSet(n.tcp) : s.state # "closed" /\ s.fam = f /\ s.local.port = p
\* tcp_alloc_ephemeral and udp_alloc_ephemeral: the next free one, going round
Ephemeral(next, used(_)) ==
  LET size == EphLast - EphFirst + 1
      nth(k) == EphFirst + ((next - EphFirst + k) % size)
      free == {k \in 0 .. size - 1 : ~used(nth(k))}
      k == CHOOSE x \in free : \A y \in free : x <= y
  IN IF free = {} THEN [port |-> 0, next |-> next]
     ELSE [port |-> nth(k), next |-> nth(k + 1)]

\* tcp_bind_socket; ok says whether it succeeded
TcpBind(n, id, a, p) ==
  LET s == TcpOf(n, id)
      e == Ephemeral(n.tcpnext, LAMBDA q : TcpPortInUse(n, s.fam, q))
      port == IF p = 0 THEN e.port ELSE p
      m == IF p = 0 THEN [n EXCEPT !.tcpnext = e.next] ELSE n
  IN IF s.state = "closed" \/ (a # 0 /\ ~IsLocal(n, s.fam, a)) THEN [ok |-> FALSE, n |-> n]
     ELSE IF port = 0 \/ TcpPortInUse(n, s.fam, port) THEN [ok |-> FALSE, n |-> m]
     ELSE [ok |-> TRUE, n |-> TcpPut(m, [s EXCEPT !.local = End(a, port)])]
TcpListener(n, f, a, p) ==
  FirstTcp(n, LAMBDA s : /\ s.state = "listen" /\ s.fam = f
                         /\ s.local.port = p /\ s.local.addr \in {0, a})
TcpListen(n, id, backlog) ==
  TcpPut(n, [TcpOf(n, id) EXCEPT !.state = "listen", !.backlog = backlog])

-----------------------------------------------------------------------------
(* Sequence numbers and the receive queues                                   *)

Dist(from, to) == (to - from) % SeqSpace
SeqAfter(x, base) == Dist(base, x) # 0 /\ Dist(base, x) < SeqSpace \div 2
SeqBefore(x, base) == Dist(x, base) # 0 /\ Dist(x, base) < SeqSpace \div 2
SegEnd(g) == (g.seq + Len(g.data)) % SeqSpace

Queued(s) == Len(s.rx) + FoldLeft(LAMBDA sum, g : sum + Len(g.data), 0, s.ofo)
Available(s) == IF Queued(s) >= RxLimit THEN 0 ELSE RxLimit - Queued(s)
CanQueue(s, len) == Queued(s) <= RxLimit /\ len <= RxLimit - Queued(s)
Least(x, y) == IF x < y THEN x ELSE y
WindowField(s) ==
  Least(WindowMax, IF s.scaled THEN Available(s) \div 2 ^ s.shift ELSE Available(s))

\* tcp_drain_out_of_order, segment by segment from the head
DrainOne(s, g) ==
  LET trim == Dist(g.seq, s.rxack)
      take == SubSeq(g.data, trim + 1, Len(g.data))
      rest == [s EXCEPT !.ofo = Tail(@)]
  IN IF s.ofo = <<>> \/ s.ofo[1] # g THEN s
     ELSE IF g.seq # s.rxack /\ ~SeqBefore(g.seq, s.rxack) THEN s
     ELSE IF g.seq # s.rxack /\ (~SeqAfter(SegEnd(g), s.rxack) \/ trim >= Len(g.data))
     THEN rest
     ELSE [rest EXCEPT !.rxack = (@ + Len(take)) % SeqSpace, !.rx = @ \o take]
Drain(s) == FoldLeft(DrainOne, s, s.ofo)
QueueInOrder(s, data) ==
  Drain([s EXCEPT !.rx = @ \o data, !.rxack = (@ + Len(data)) % SeqSpace])

\* tcp_queue_out_of_order: a segment that overlaps a queued one is dropped
QueueOutOfOrder_Overlaps(s, data, seq) ==                           \* a mutant
  LET at == Len(SelectSeq(s.ofo, LAMBDA x : SeqBefore(x.seq, seq)))
  IN [s EXCEPT !.ofo = SubSeq(@, 1, at) \o <<[seq |-> seq, data |-> data]>> \o
                       SubSeq(@, at + 1, Len(@))]
QueueOutOfOrder(s, data, seq) ==
  LET g == [seq |-> seq, data |-> data]
      before == SelectSeq(s.ofo, LAMBDA x : SeqBefore(x.seq, seq))
      at == Len(before)
      next == s.ofo[at + 1]
  IN IF \/ Dist(s.rxack, seq) > RxLimit \/ Dist(s.rxack, SegEnd(g)) > RxLimit
        \/ ~CanQueue(s, Len(data))
        \/ \E x \in ToSet(before) : SegEnd(x) # seq /\ ~SeqAfter(seq, SegEnd(x))
        \/ at < Len(s.ofo) /\ SegEnd(g) # next.seq /\ ~SeqBefore(SegEnd(g), next.seq)
     THEN s
     ELSE [s EXCEPT !.ofo = before \o <<g>> \o SubSeq(@, at + 1, Len(@))]

-----------------------------------------------------------------------------
(* Sending                                                                   *)

\* tcp_send_external_ipv4; ok says whether it succeeded
Segment(s, flags, data) ==
  Frame("tcp", 4, s.local.addr, s.peer.addr, <<s.local.port, s.peer.port>>, data,
        [flags |-> flags, seq |-> s.txseq, ack |-> s.rxack, wnd |-> WindowField(s)])
TcpSendBy(n, s, flags, data, way) ==
  IF way = <<>> \/ Len(data) > Mtu THEN [ok |-> FALSE, n |-> n]
  ELSE Send(n, way[1], Segment(s, flags, data))
TcpSend(n, s, flags, data) ==
  TcpSendBy(n, s, flags, data, Way(n, 4, s.peer.addr, TRUE))
Ack(n, s) == TcpSend(n, s, {"ACK"}, <<>>).n

\* tcp_flush_external_ipv4: what was written before the handshake, until one
\* fails.  A fold over what is queued, for each step sends the first.
Flushed_SameSeq(r, s, sent) ==                                      \* a mutant
  IF sent.ok THEN [ok |-> TRUE, n |-> TcpPut(sent.n, [s EXCEPT !.tx = Tail(@)])] ELSE sent
Flushed(r, s, sent) ==
  IF sent.ok THEN [ok |-> TRUE, n |-> TcpPut(sent.n, [s EXCEPT
                     !.txseq = (@ + Len(s.tx[1])) % SeqSpace, !.tx = Tail(@)])]
  ELSE sent
FlushOne(r, s) ==
  IF r.ok THEN Flushed(r, s, TcpSend(r.n, s, {"ACK", "PSH"}, s.tx[1])) ELSE r
FlushTx(n, id) ==
  FoldLeft(LAMBDA r, x : FlushOne(r, TcpOf(r.n, id)), [ok |-> TRUE, n |-> n],
           TcpOf(n, id).tx).n

IsExternal(s) == s.psock = 0 /\ s.peer.port # 0 /\ s.peer.addr # 0

\* tcp_connect_external_ipv4 (a SYN that cannot be sent undoes it) and _ipv6,
\* which binds, sends one SYN and remembers the peer
Connected(sent, up) ==
  IF up.fam = 6 THEN IF sent.ok THEN TcpPut(sent.n, up) ELSE sent.n
  ELSE TcpPut(sent.n, IF sent.ok THEN [up EXCEPT !.txseq = 1]
                      ELSE [up EXCEPT !.state = "open", !.local.addr = 0,
                                      !.peer = End(0, 0)])
Connecting(n, s, way, a, p) ==
  LET up == [s EXCEPT !.state = "established", !.peer = End(a, p), !.psock = 0]
      four == [up EXCEPT !.local.addr = way.src, !.txseq = 0, !.rxack = 0,
                         !.shift = WindowShift, !.scaled = FALSE, !.hs = FALSE]
      syn6 == Frame("tcp", 6, way.src, a, <<s.local.port, p>>, <<>>,
                    [Plain EXCEPT !.flags = {"SYN"}, !.wnd = WindowMax])
  IN IF s.fam = 6 THEN Connected(Send(n, way, syn6), up)
     ELSE Connected(TcpSend(n, four, {"SYN"}, <<>>), four)
\* an unbound socket gets a port first
Bound(n, id) ==
  IF TcpOf(n, id).local.port = 0 THEN TcpBind(n, id, 0, 0) ELSE [ok |-> TRUE, n |-> n]
ConnectBound(b, id, way, a, p) ==
  IF b.ok THEN Connecting(b.n, TcpOf(b.n, id), way, a, p) ELSE b.n
ConnectBy(n, id, way, a, p) ==
  IF way = <<>> THEN n ELSE ConnectBound(Bound(n, id), id, way[1], a, p)
TcpConnectOut(n, id, a, p) ==
  ConnectBy(n, id, Way(n, TcpOf(n, id).fam, a, TRUE), a, p)

\* tcp_pending_push fails when the backlog is full
Pushed(n, lid, id) == [n EXCEPT !.tcp[TcpAt(n, lid)].pending = Append(@, id)]
Full(n, lid) == Len(TcpOf(n, lid).pending) >= TcpOf(n, lid).backlog

\* reply_tcp_connect to a local address: both ends at once
Join(m, id, lid, a, p) ==
  LET sid == Len(m.tcp)
      server == [TcpOf(m, sid) EXCEPT !.state = "established", !.psock = id,
                   !.local = TcpOf(m, lid).local, !.peer = TcpOf(m, id).local]
      client == [TcpOf(m, id) EXCEPT !.state = "established", !.peer = End(a, p),
                                     !.psock = sid]
  IN IF Full(m, lid)
     THEN TcpPut(TcpPut(m, [server EXCEPT !.state = "closed"]),
                 [client EXCEPT !.state = "open", !.psock = 0])
     ELSE Pushed(TcpPut(TcpPut(m, server), client), lid, sid)
JoinBound(b, id, lid, a, p) ==
  IF b.ok THEN Join(TcpAlloc(b.n, TcpOf(b.n, id).fam), id, lid, a, p) ELSE b.n
TcpConnectLocal(n, id, a, p) ==
  LET lid == TcpListener(n, TcpOf(n, id).fam, a, p)
  IN IF lid = 0 THEN [n EXCEPT !.tcp[TcpAt(n, id)].reset = TRUE]
     ELSE JoinBound(Bound(n, id), id, lid, a, p)
TcpConnect(n, id, a, p) ==
  IF IsLocal(n, TcpOf(n, id).fam, a) THEN TcpConnectLocal(n, id, a, p)
  ELSE TcpConnectOut(n, id, a, p)
TcpAccept(n, lid) == [n EXCEPT !.tcp[TcpAt(n, lid)].pending = Tail(@)]

-----------------------------------------------------------------------------
(* Writing, reading, closing                                                 *)

Live(s) == s.state = "established"
Outside4(s) == IsExternal(s) /\ s.fam = 4
TcpWritable(s) == Live(s) /\ ~s.wrclosed /\ ~s.reset
Wrote(sent, s, data) ==
  IF sent.ok THEN TcpPut(sent.n, [s EXCEPT !.wrote = @ \o data,
                                    !.txseq = (@ + Len(data)) % SeqSpace])
  ELSE sent.n
TcpWrite(n, id, data) ==
  LET s == TcpOf(n, id)
      told == [s EXCEPT !.wrote = @ \o data]
      peer == TcpOf(n, s.psock)
  IN IF Outside4(s)
     THEN IF s.hs THEN Wrote(TcpSend(n, s, {"ACK", "PSH"}, data), s, data)
          ELSE TcpPut(n, [told EXCEPT !.tx = Append(@, data)])
     ELSE IF s.psock = 0 \/ peer.state = "closed" \/ peer.rdclosed
     THEN TcpPut(n, [s EXCEPT !.reset = TRUE])
     ELSE TcpPut(TcpPut(n, told), [peer EXCEPT !.rx = @ \o data])
\* reply_tcp_read: would it answer, and with what
TcpReadable(s) == Live(s) /\ ~s.reset /\ (s.rx # <<>> \/ s.peerclosed)
TcpRead(n, id, max) ==
  LET s == TcpOf(n, id)
      len == Least(max, Len(s.rx))
      read == [s EXCEPT !.rx = SubSeq(@, len + 1, Len(@)), !.got = @ \o SubSeq(s.rx, 1, len)]
  IN IF len > 0 /\ Outside4(s) THEN Ack(TcpPut(n, read), read) ELSE TcpPut(n, read)
PeerWriteClosed(n, s) ==
  IF s.psock = 0 THEN n ELSE [n EXCEPT !.tcp[TcpAt(n, s.psock)].peerclosed = TRUE]
Emptied(s) == [s EXCEPT !.rx = <<>>, !.ofo = <<>>, !.lost = TRUE]
TcpShutdown(n, id, how) ==
  LET s == TcpOf(n, id)
      r == IF "RD" \in how THEN [Emptied(s) EXCEPT !.rdclosed = TRUE] ELSE s
      w == IF "WR" \in how THEN [r EXCEPT !.wrclosed = TRUE, !.tx = <<>>] ELSE r
      m == TcpPut(n, w)
  IN IF "WR" \in how /\ ~IsExternal(s) THEN PeerWriteClosed(m, s) ELSE m
TcpClose(n, id) ==
  LET s == TcpOf(n, id)
  IN PeerWriteClosed(TcpPut(n, [Emptied(s) EXCEPT !.state = "closed", !.tx = <<>>,
                                                  !.pending = <<>>]), s)
\* reply_tcp_poll
TcpPoll(s) ==
  {e \in {"IN", "OUT", "HUP"} :
     CASE e = "IN" -> \/ s.state = "listen" /\ s.pending # <<>>
                      \/ Live(s) /\ (s.rx # <<>> \/ s.peerclosed)
       [] e = "OUT" -> TcpWritable(s) /\ (IsExternal(s) => s.hs)
       [] OTHER -> Live(s) /\ (s.peerclosed \/ s.reset)}

-----------------------------------------------------------------------------
(* Segments from the network                                                 *)

TcpExternal(n, fr) ==                                  \* tcp_find_external_ipv4
  FirstTcp(n, LAMBDA s : /\ Live(s) /\ s.fam = 4 /\ s.local.addr \in {0, fr.dst}
                         /\ s.local.port = fr.ports[2] /\ s.peer = End(fr.src, fr.ports[1]))

\* packet_ingress_tcp_ipv4 for a known socket, in its four parts
Handshake(n, s, tcp) ==
  LET scale == "WSCALE" \in tcp.flags
      up == [s EXCEPT !.scaled = scale, !.shift = IF scale THEN @ ELSE 0, !.hs = TRUE,
                      !.rxack = (tcp.seq + 1) % SeqSpace, !.iss = tcp.seq]
  IN IF {"SYN", "ACK"} \subseteq tcp.flags /\ ~s.hs
     THEN FlushTx(Ack(TcpPut(n, up), up), s.id) ELSE n
\* the bytes from the next expected one on are queued, later ones kept apart;
\* what is not queued in order is acknowledged at once
Queue(n, s, fresh) ==
  IF CanQueue(s, Len(fresh)) THEN TcpPut(n, QueueInOrder(s, fresh)) ELSE Ack(n, s)
Keep(n, s) == Ack(TcpPut(n, s), s)
Payload(n, s, seq, data) ==
  LET trim == Dist(seq, s.rxack)
  IN IF data = <<>> \/ ~s.hs THEN n
     ELSE IF seq = s.rxack THEN Queue(n, s, data)
     ELSE IF SeqAfter(seq, s.rxack) THEN Keep(n, QueueOutOfOrder(s, data, seq))
     ELSE IF SeqAfter((seq + Len(data)) % SeqSpace, s.rxack)
     THEN Queue(n, s, SubSeq(data, trim + 1, Len(data)))
     ELSE Ack(n, s)
Fin_AnyTime(n, s, expected) ==                                      \* a mutant
  TcpPut(n, [s EXCEPT !.rxack = (expected + 1) % SeqSpace, !.peerclosed = TRUE])
Fin(n, s, expected) ==
  LET done == IF ~s.hs \/ s.rxack = expected
              THEN [s EXCEPT !.rxack = (expected + 1) % SeqSpace, !.peerclosed = TRUE]
              ELSE s
  IN IF s.hs THEN Keep(n, done) ELSE TcpPut(n, done)
Finned(n, id, fr) ==
  IF "FIN" \in fr.tcp.flags
  THEN Fin(n, TcpOf(n, id), (fr.tcp.seq + Len(fr.data)) % SeqSpace) ELSE n
Received(n, id, fr) == Finned(Payload(n, TcpOf(n, id), fr.tcp.seq, fr.data), id, fr)
TcpKnown(n, id, fr) ==
  LET s == TcpOf(n, id)
  IN IF "RST" \in fr.tcp.flags
     THEN TcpPut(n, [s EXCEPT !.reset = TRUE, !.peerclosed = TRUE])
     ELSE Received(Handshake(n, s, fr.tcp), id, fr)

\* a SYN for a listener, the end of packet_ingress_tcp_ipv4 and _ipv6: a socket
\* is made even when the backlog then refuses it
SynAck(fr) ==
  [Frame("tcp", fr.fam, fr.dst, fr.src, <<fr.ports[2], fr.ports[1]>>, <<>>,
         [flags |-> {"SYN", "ACK"}, seq |-> 0, ack |-> (fr.tcp.seq + 1) % SeqSpace,
          wnd |-> WindowMax]) EXCEPT !.to = fr.from]
Answer(m, ifc, fr, lid) ==
  LET sid == Len(m.tcp)
      base == [TcpOf(m, sid) EXCEPT !.state = "established", !.iss = fr.tcp.seq,
                 !.local = End(fr.dst, fr.ports[2]), !.peer = End(fr.src, fr.ports[1])]
      server == IF fr.fam = 6 THEN base
                ELSE [base EXCEPT !.txseq = 1, !.hs = TRUE, !.rxack = (fr.tcp.seq + 1) % SeqSpace]
  IN IF Full(m, lid) THEN TcpPut(m, [server EXCEPT !.state = "closed"])
     ELSE Tx(Pushed(TcpPut(m, server), lid, sid), ifc, SynAck(fr))
TcpPassive(n, ifc, fr) ==
  LET lid == TcpListener(n, fr.fam, fr.dst, fr.ports[2])
  IN IF lid = 0 \/ "SYN" \notin fr.tcp.flags \/ "ACK" \in fr.tcp.flags THEN n
     ELSE Answer(TcpAlloc(n, fr.fam), ifc, fr, lid)
TcpIngress(n, ifc, fr) ==
  LET id == IF fr.fam = 4 THEN TcpExternal(n, fr) ELSE 0
  IN IF fr.kind # "tcp" \/ ~IsLocal(n, fr.fam, fr.dst) \/ fr.src = 0 THEN n
     ELSE IF id # 0 THEN TcpKnown(n, id, fr) ELSE TcpPassive(n, ifc, fr)
=============================================================================
