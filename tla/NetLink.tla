------------------------------ MODULE NetLink -------------------------------
(* The lower half of the net server: interfaces and their queues, addresses, *)
(* the routing tables, neighbours, and frames that wait for a neighbour.     *)
(* Everything here is a function from one state n of the server to the next. *)
(* An address is a number of AddrBits bits (32 or 128 in the code), a MAC a  *)
(* number, 0 none; families 4 and 6 differ where the code tells them apart.  *)
EXTENDS Integers, Sequences, FiniteSets, SequencesExt

CONSTANTS
  AddrBits,       \* 32, 128
  NibbleBits,     \* bits of an address that one level of a routing trie eats: 4
  Mtu,            \* data that fits a frame
  RxQueueMax      \* NET_PACKET_RX_QUEUE_MAX_PACKETS

Lo == 1                                                  \* NET_IFACE_LO
LoAddr(f) == IF f = 4 THEN 2 ^ (AddrBits - 1) - 1 ELSE 1 \* 127.0.0.1, ::1
LoPrefix(f) == IF f = 4 THEN NibbleBits ELSE AddrBits    \* /8, /128
Addrs == 0 .. 2 ^ AddrBits - 1
Bits(a) == [i \in 1 .. AddrBits |-> (a \div 2 ^ (AddrBits - i)) % 2]
Masked(a, len) == SubSeq(Bits(a), 1, len)

-----------------------------------------------------------------------------
(* Addresses: the dynamic ones, newest first, then the static ones           *)

Address(f, a, len, ifc) == [fam |-> f, addr |-> a, len |-> len, ifc |-> ifc]
AllAddrs(n) ==
  n.addrs \o <<Address(4, LoAddr(4), LoPrefix(4), Lo), Address(6, LoAddr(6), LoPrefix(6), Lo)>>
IsLocal(n, f, a) == \E r \in ToSet(AllAddrs(n)) : r.fam = f /\ r.addr = a
\* iface_ipv4_addr, iface_ipv6_addr: the first one of the interface, or 0
IfaceAddr(n, f, ifc) ==
  LET of == SelectSeq(AllAddrs(n), LAMBDA r : r.fam = f /\ r.ifc = ifc)
  IN IF of = <<>> THEN 0 ELSE of[1].addr
AddrAdd(n, r) ==
  IF r \in ToSet(AllAddrs(n)) THEN n ELSE [n EXCEPT !.addrs = <<r>> \o @]
AddrDelete(n, r) == [n EXCEPT !.addrs = SelectSeq(@, LAMBDA x : x # r)]

-----------------------------------------------------------------------------
(* Routes.  Each is in the trie of its family, at the node that whole       *)
(* nibbles of its prefix lead to, and in one list for enumeration.          *)

Info(f, p, len, ifc, gw, metric) ==
  [fam |-> f, prefix |-> p, len |-> len, ifc |-> ifc, gw |-> gw, metric |-> metric]
NodeDepth_RoundsUp(len) == (len + NibbleBits - 1) \div NibbleBits     \* a mutant
NodeDepth(len) == len \div NibbleBits
Node(f, a, depth) == [fam |-> f, key |-> Masked(a, depth * NibbleBits)]
Path(i) == {Node(i.fam, i.prefix, d) : d \in 0 .. NodeDepth(i.len)}

\* route_table_insert; on short memory the nodes it made stay
Insert(n, i, order, static, short) ==
  LET grown == [k \in DOMAIN n.trie \cup Path(i) |->
                  IF k \in DOMAIN n.trie THEN n.trie[k] ELSE <<>>]
      route == [info |-> i, order |-> order, static |-> static]
  IN IF \E r \in ToSet(n.routes) : r.info = i THEN n
     ELSE IF short THEN [n EXCEPT !.trie = grown]
     ELSE [n EXCEPT !.trie = [grown EXCEPT ![Node(i.fam, i.prefix, NodeDepth(i.len))] =
                                <<route>> \o @],
                    !.routes = IF static THEN Append(@, route) ELSE <<route>> \o @]

\* route_collection_ensure: the loopback routes, at the first use
Ensure(n) ==
  LET lo(f, p) == Info(f, p, LoPrefix(f), Lo, 0, 0)
      four == Insert(n, lo(4, 2 ^ (AddrBits - NibbleBits)), 1, TRUE, FALSE)
  IN IF n.order > 0 THEN n
     ELSE [Insert(four, lo(6, LoAddr(6)), 2, TRUE, FALSE) EXCEPT !.order = 100]
RouteAdd(n, i, short) ==
  LET e == Ensure(n) IN [Insert(e, i, e.order, FALSE, short) EXCEPT !.order = @ + 1]

\* route_table_prune_path: empty nodes go, the deepest first
Prune(trie, i) ==
  LET child(t, k) == \E c \in DOMAIN t : /\ c.fam = k.fam /\ Len(c.key) > Len(k.key)
                                         /\ SubSeq(c.key, 1, Len(k.key)) = k.key
      drop(t, d) == LET k == Node(i.fam, i.prefix, d)
                    IN IF t[k] = <<>> /\ ~child(t, k)
                       THEN [x \in DOMAIN t \ {k} |-> t[x]] ELSE t
  IN FoldLeft(drop, trie, Reverse([d \in 1 .. NodeDepth(i.len) + 1 |-> d - 1]))
RouteDelete(n, i) ==
  LET e == Ensure(n)
      others(s) == SelectSeq(s, LAMBDA r : r.info # i)
      at == Node(i.fam, i.prefix, NodeDepth(i.len))
  IN IF \E r \in ToSet(e.routes) : r.info = i /\ ~r.static
     THEN [e EXCEPT !.routes = others(@),
                    !.trie = Prune([@ EXCEPT ![at] = others(@)], i)]
     ELSE e

\* net_route_matches, route_better, route_table_lookup
Matches(r, f, a) ==
  r.info.fam = f /\ Masked(a, r.info.len) = Masked(r.info.prefix, r.info.len)
Better(r, s) ==
  IF r.info.len # s.info.len THEN r.info.len > s.info.len
  ELSE IF r.info.metric # s.info.metric THEN r.info.metric < s.info.metric
  ELSE r.order > s.order
NoRoute == <<>>
LookupIn(trie, f, a) ==
  LET met(d) == IF \A c \in 0 .. d : Node(f, a, c) \in DOMAIN trie
                THEN trie[Node(f, a, d)] ELSE <<>>
      step(best, r) == IF Matches(r, f, a) /\ (best = NoRoute \/ Better(r, best[1]))
                       THEN <<r>> ELSE best
  IN FoldLeft(step, NoRoute,
              FlattenSeq([d \in 1 .. AddrBits \div NibbleBits + 1 |-> met(d - 1)]))
RouteLookup(n, f, a) == LookupIn(Ensure(n).trie, f, a)

-----------------------------------------------------------------------------
(* Interfaces and frames                                                     *)

Iface(mac, running) ==
  [mac |-> mac, up |-> FALSE, running |-> running, tx |-> <<>>, rx |-> <<>>,
   count |-> 0]
Attach(n, mac, running) == [n EXCEPT !.ifs = Append(@, Iface(mac, running))]
External(n, ifc) == ifc > Lo /\ ifc <= Len(n.ifs) + 1
If(n, ifc) == n.ifs[ifc - 1]                             \* interface_find
Running(n, ifc) == External(n, ifc) /\ If(n, ifc).running

Plain == [flags |-> {}, seq |-> 0, ack |-> 0, wnd |-> 0]
Frame(kind, f, src, dst, ports, data, tcp) ==
  [kind |-> kind, fam |-> f, from |-> 0, to |-> 0, src |-> src, dst |-> dst,
   ports |-> ports, data |-> data, tcp |-> tcp]

\* packet_tx_enqueue_copy
CanTx(n, ifc, fr) == Running(n, ifc) /\ Len(fr.data) <= Mtu
Tx(n, ifc, fr) ==
  IF CanTx(n, ifc, fr)
  THEN [n EXCEPT !.ifs[ifc - 1].tx = Append(@, [fr EXCEPT !.from = If(n, ifc).mac])]
  ELSE n
\* packet_tx_enqueue_tcp_ack: the queued pure ACKs of the same flow are stale
PureAck(fr) == fr.kind = "tcp" /\ fr.fam = 4 /\ fr.tcp.flags = {"ACK"} /\ fr.data = <<>>
SameFlow(fr, gr) == fr.src = gr.src /\ fr.dst = gr.dst /\ fr.ports = gr.ports
TxAck(n, ifc, fr) ==
  Tx(IF External(n, ifc)
     THEN [n EXCEPT !.ifs[ifc - 1].tx =
             SelectSeq(@, LAMBDA g : ~(PureAck(g) /\ SameFlow(fr, g)))]
     ELSE n, ifc, fr)

-----------------------------------------------------------------------------
(* Neighbours and the frames that wait for one                               *)

PruneExpired(n) == [n EXCEPT !.neigh = SelectSeq(@, LAMBDA x : ~x.old)]
IsNeighbor(x, f, a, ifc) == x.fam = f /\ x.addr = a /\ x.ifc = ifc
MacOf(n, f, a, ifc) ==
  LET of == SelectSeq(n.neigh, LAMBDA x : IsNeighbor(x, f, a, ifc))
  IN IF of = <<>> THEN 0 ELSE of[1].mac

\* pending_frames_flush: newest first, and whatever cannot be queued is lost
Flush(n, f, a, ifc, mac) ==
  LET mine == SelectSeq(n.pend, LAMBDA x : IsNeighbor(x, f, a, ifc))
      rest == SelectSeq(n.pend, LAMBDA x : ~IsNeighbor(x, f, a, ifc))
      send(m, x) == Tx(m, ifc, [x.frame EXCEPT !.to = mac])
  IN FoldLeft(send, [n EXCEPT !.pend = rest], mine)

\* neighbor_learn
Learn_Quiet(n, f, a, ifc, mac) ==                                  \* a mutant
  LET e == PruneExpired(n)
  IN IF ifc = Lo \/ a = 0 \/ mac = 0 THEN n
     ELSE [e EXCEPT !.neigh =
            <<[fam |-> f, addr |-> a, ifc |-> ifc, mac |-> mac, old |-> FALSE]>> \o
            SelectSeq(@, LAMBDA x : ~IsNeighbor(x, f, a, ifc))]
Learn(n, f, a, ifc, mac) ==
  LET e == PruneExpired(n)
      new == [fam |-> f, addr |-> a, ifc |-> ifc, mac |-> mac, old |-> FALSE]
      known == MacOf(e, f, a, ifc) # 0
      told == [e EXCEPT !.neigh =
                IF known THEN [i \in DOMAIN @ |-> IF IsNeighbor(@[i], f, a, ifc)
                                                  THEN new ELSE @[i]]
                ELSE <<new>> \o @]
  IN IF ifc = Lo \/ a = 0 \/ mac = 0 THEN n ELSE Flush(told, f, a, ifc, mac)
NeighborDelete(n, f, a, ifc) ==
  [n EXCEPT !.neigh = SelectSeq(@, LAMBDA x : ~IsNeighbor(x, f, a, ifc))]

\* arp_request_ipv4, ndp_request_ipv6
Ask(n, ifc, f, src, hop) ==
  IF src # 0 /\ hop # 0 /\ If(n, ifc).mac # 0
  THEN Tx(n, ifc, Frame("ask", f, src, hop, <<0, 0>>, <<>>, Plain)) ELSE n

\* The way to dst: a route that leads to an interface with an address of its
\* own (the ICMP, UDP and TCP senders all begin so); the next hop is the gateway.
\* IPv6 and TCP want an interface with a MAC (wired), which the loopback is not
By(n, i, dst, wired, src) ==
  IF (~External(n, i.ifc) /\ (wired \/ i.ifc # Lo)) \/ src = 0 THEN <<>>
  ELSE <<[ifc |-> i.ifc, src |-> src, hop |-> IF i.gw # 0 THEN i.gw ELSE dst]>>
ByRoute(n, f, r, dst, wired) ==
  IF r = NoRoute THEN <<>>
  ELSE By(n, r[1].info, dst, wired, IfaceAddr(n, f, r[1].info.ifc))
Way(n, f, dst, wired) == ByRoute(n, f, RouteLookup(n, f, dst), dst, wired)

\* The end of every sender: queue the frame for its next hop, or let it wait
\* and ask who the next hop is.  ok says whether the sender reports success.
SendTo(n, way, fr, mac) ==
  LET wait == [fam |-> fr.fam, addr |-> way.hop, ifc |-> way.ifc, frame |-> fr]
      asked == [n EXCEPT !.pend = <<wait>> \o @]
      full == [fr EXCEPT !.to = mac]
  IN IF mac = 0
     THEN [ok |-> TRUE, n |-> IF way.ifc = Lo THEN asked
                              ELSE Ask(asked, way.ifc, fr.fam, way.src, way.hop)]
     ELSE [ok |-> CanTx(n, way.ifc, fr),
           n |-> IF PureAck(fr) THEN TxAck(n, way.ifc, full) ELSE Tx(n, way.ifc, full)]
SendAlive(n, way, fr) == SendTo(n, way, fr, MacOf(n, fr.fam, way.hop, way.ifc))
Send(n, way, fr) == SendAlive(PruneExpired(n), way, fr)
=============================================================================
