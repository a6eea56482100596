----------------------------- MODULE NetServer ------------------------------
(* The net server: one request at a time, from socket users, from the network *)
(* configuration and from the driver of each interface, which submits received *)
(* frames and fetches the queued ones.                                        *)
EXTENDS NetTcp

CONSTANTS NScenarios, MaxRoutes, Stream, Peers

VARIABLES net, ndoes
nvars == <<net, ndoes>>

-----------------------------------------------------------------------------
(* UDP and ICMP sockets, the newest first                                    *)

UdpSocket(f) ==
  [fam |-> f, local |-> End(0, 0), peer |-> End(0, 0), bound |-> FALSE,
   conn |-> FALSE, rx |-> <<>>]
UdpOpen(n, f) == [n EXCEPT !.udp = <<UdpSocket(f)>> \o @]
UdpPortInUse(n, f, p) == \E s \in ToSet(n.udp) : s.bound /\ s.fam = f /\ s.local.port = p
\* udp_bind_socket, of the i-th socket
UdpBind_Taken(n, i, a, p) ==                                        \* a mutant
  [ok |-> p # 0, n |-> [n EXCEPT !.udp[i].local = End(a, p), !.udp[i].bound = p # 0]]
UdpBind(n, i, a, p) ==
  LET s == n.udp[i]
      e == Ephemeral(n.udpnext, LAMBDA q : UdpPortInUse(n, s.fam, q))
      port == IF p = 0 THEN e.port ELSE p
      m == IF p = 0 THEN [n EXCEPT !.udpnext = e.next] ELSE n
  IN IF a # 0 /\ ~IsLocal(n, s.fam, a) THEN [ok |-> FALSE, n |-> n]
     ELSE IF port = 0 \/ UdpPortInUse(n, s.fam, port) THEN [ok |-> FALSE, n |-> m]
     ELSE [ok |-> TRUE, n |-> [m EXCEPT !.udp[i].local = End(a, port), !.udp[i].bound = TRUE]]
UdpBound(n, i) == IF n.udp[i].bound THEN [ok |-> TRUE, n |-> n] ELSE UdpBind(n, i, 0, 0)
UdpConnect(n, i, a, p) ==
  LET b == UdpBound(n, i)
      f == n.udp[i].fam
  IN IF ~IsLocal(n, f, a) /\ RouteLookup(n, f, a) = NoRoute THEN n
     ELSE IF ~b.ok THEN b.n
     ELSE [b.n EXCEPT !.udp[i].peer = End(a, p), !.udp[i].conn = TRUE]
\* udp_deliver: the first socket that is bound to the place
UdpAccepts(s, f, a, p) == s.bound /\ s.fam = f /\ s.local.port = p /\ s.local.addr \in {0, a}
UdpDeliver(n, i, to, data) ==
  LET d == SelectInSeq(n.udp, LAMBDA s : UdpAccepts(s, n.udp[i].fam, to.addr, to.port))
  IN IF d = 0 THEN n
     ELSE [n EXCEPT !.udp[d].rx = Append(@, [src |-> n.udp[i].local, data |-> data])]
\* udp_sendto_external_ipv4 and _ipv6: it binds after it has found a way
UdpSendBound(b, i, way, to, data) ==
  IF b.ok THEN Send(b.n, way, Frame("udp", b.n.udp[i].fam, way.src, to.addr,
                      <<b.n.udp[i].local.port, to.port>>, data, Plain)).n
  ELSE b.n
UdpExternal(n, i, way, to, data) ==
  IF way = <<>> THEN n ELSE UdpSendBound(UdpBound(PruneExpired(n), i), i, way[1], to, data)
\* reply_udp_sendto, and reply_udp_send, which has a peer and so is bound
UdpSendTo(n, i, to, data) ==
  LET f == n.udp[i].fam
      b == UdpBound(n, i)
  IN IF ~IsLocal(n, f, to.addr)
     THEN UdpExternal(n, i, Way(n, f, to.addr, f = 6), to, data)
     ELSE IF b.ok THEN UdpDeliver(b.n, i, to, data) ELSE b.n
UdpRecv(n, i) == [n EXCEPT !.udp[i].rx = Tail(@)]
UdpClose(n, i) == [n EXCEPT !.udp = RemoveAt(@, i)]

IcmpOpen(n, f) == [n EXCEPT !.icmp = <<[fam |-> f, rx |-> <<>>]>> \o @]
\* an echo to ourselves is answered in place; else icmp_sendto_external_ipv4, _ipv6
IcmpExternal(n, f, way, a, data) ==
  IF way = <<>> THEN n
  ELSE Send(n, way[1], Frame("icmp", f, way[1].src, a, <<0, 0>>, data, Plain)).n
IcmpSendTo(n, i, a, data) ==
  LET f == n.icmp[i].fam
  IN IF IsLocal(n, f, a)
     THEN [n EXCEPT !.icmp[i].rx = Append(@, [src |-> End(a, 0), data |-> data])]
     ELSE IcmpExternal(n, f, Way(n, f, a, f = 6), a, data)
IcmpRecv(n, i) == [n EXCEPT !.icmp[i].rx = Tail(@)]
IcmpClose(n, i) == [n EXCEPT !.icmp = RemoveAt(@, i)]

-----------------------------------------------------------------------------
(* A frame comes in: packet_rx_ingest_frame and the handlers it calls        *)

\* packet_ingress_arp_ipv4 learns from every request and answers for the
\* address of the interface, packet_ingress_ndp_ipv6 for any address of ours
Tell(n, ifc, fr) ==
  Tx(n, ifc, [Frame("tell", fr.fam, fr.dst, fr.src, <<0, 0>>, <<>>, Plain) EXCEPT !.to = fr.from])
Told(n, ifc, fr) ==
  LET ours == IF fr.fam = 4 THEN fr.dst # 0 /\ fr.dst = IfaceAddr(n, 4, ifc)
              ELSE IsLocal(n, 6, fr.dst)
  IN IF fr.kind = "ask" /\ ours /\ fr.src # 0 /\ fr.from # 0 THEN Tell(n, ifc, fr) ELSE n
Resolve(n, ifc, fr) == Told(Learn(n, fr.fam, fr.src, ifc, fr.from), ifc, fr)
\* packet_ingress_learn_ipv4_neighbor, _ipv6_neighbor: any IP packet teaches
LearnFrom(n, ifc, fr) ==
  IF fr.fam = 4 /\ fr.kind \in {"ask", "tell"} THEN n
  ELSE Learn(n, fr.fam, fr.src, ifc, fr.from)
UdpIngress(n, fr) ==
  LET d == [src |-> End(fr.src, fr.ports[1]), data |-> fr.data]
      take(s) == IF UdpAccepts(s, fr.fam, fr.dst, fr.ports[2])
                 THEN [s EXCEPT !.rx = Append(@, d)] ELSE s
  IN IF fr.kind # "udp" \/ (fr.fam = 6 /\ ~IsLocal(n, 6, fr.dst)) THEN n
     ELSE [n EXCEPT !.udp = [i \in DOMAIN @ |-> take(@[i])]]
IcmpIngress(n, fr) ==
  LET d == [src |-> End(fr.src, 0), data |-> fr.data]
      take(s) == IF s.fam = fr.fam THEN [s EXCEPT !.rx = Append(@, d)] ELSE s
  IN IF fr.kind # "icmp" \/ ~IsLocal(n, fr.fam, fr.dst) THEN n
     ELSE [n EXCEPT !.icmp = [i \in DOMAIN @ |-> take(@[i])]]
\* the packet tap keeps what is not TCP while it has room
Tap(n, ifc, fr) ==
  IF fr.kind = "tcp" \/ If(n, ifc).count >= RxQueueMax THEN n
  ELSE [n EXCEPT !.ifs[ifc - 1].rx = Append(@, fr), !.ifs[ifc - 1].count = @ + 1]
Neighborly(n, ifc, fr) ==
  IF fr.kind \in {"ask", "tell"} THEN Resolve(LearnFrom(n, ifc, fr), ifc, fr)
  ELSE LearnFrom(n, ifc, fr)
Ingest(n, ifc, fr) ==
  IF ~Running(n, ifc) THEN n
  ELSE Tap(IcmpIngress(TcpIngress(UdpIngress(Neighborly(n, ifc, fr), fr), ifc, fr), fr),
           ifc, fr)

-----------------------------------------------------------------------------
NInit ==
  /\ ndoes \in NScenarios
  /\ net = FoldLeft(LAMBDA n, r : RouteAdd(AddrAdd(n, r.addr), r.route, FALSE),
       [addrs |-> <<>>, routes |-> <<>>, trie |-> <<>>, order |-> 0, neigh |-> <<>>,
        pend |-> <<>>, ifs |-> <<Iface(101, TRUE)>>, udp |-> <<>>,
        udpnext |-> EphFirst, icmp |-> <<>>, tcp |-> <<>>,
        tcpnext |-> EphFirst, loop |-> <<>>], ndoes.config)

NDoes(op) == op \in ndoes.ops
NBecomes(n) == net' = n /\ UNCHANGED ndoes
NFrames == Len(net.pend) + FoldLeft(LAMBDA k, i : k + Len(i.tx) + Len(i.rx), 0, net.ifs)
NRoom == NFrames < ndoes.frames
RxRoom == \A s \in ToSet(net.udp) \cup ToSet(net.icmp) : Len(s.rx) < ndoes.frames
Sockets == Len(net.udp) + Len(net.icmp) + Len(net.tcp)

\* configuration
NRoute ==
  /\ NDoes("route")
  /\ \E i \in ndoes.routes :
       \/ /\ Len(Ensure(net).routes) < MaxRoutes /\ net.order < ndoes.adds
          /\ \E short \in BOOLEAN : NBecomes(RouteAdd(net, i, short))
       \/ NBecomes(RouteDelete(net, i))
NAddress ==
  /\ NDoes("addr")
  /\ \E r \in ndoes.addrs :
       NBecomes(IF r \in ToSet(net.addrs) THEN AddrDelete(net, r) ELSE AddrAdd(net, r))
\* reply_dhcp4_lease_install: the address, then a default route by the gateway
NLease ==
  /\ NDoes("lease") /\ net.order < ndoes.adds
  /\ \E r \in ndoes.addrs, gw \in Peers \cup {0}, short \in BOOLEAN :
       LET n == AddrAdd(net, r)
       IN NBecomes(IF gw = 0 THEN n
                   ELSE RouteAdd(n, Info(4, 0, 0, r.ifc, gw, 100), short))
\* reply_packet_interface_attach, _link and reply_interface_set_flags
NAttach == NDoes("attach") /\ Len(net.ifs) < 2 /\ NBecomes(Attach(net, 102, TRUE))
NLink ==
  /\ NDoes("link")
  /\ \E ifc \in 2 .. Len(net.ifs) + 1, on \in BOOLEAN :
       \/ NBecomes([net EXCEPT !.ifs[ifc - 1].running = on, !.ifs[ifc - 1].up = on])
       \/ NBecomes([net EXCEPT !.ifs[ifc - 1].up = on])
NNeighbor ==
  /\ NDoes("neighbor")
  /\ \E a \in Peers :
       NBecomes(IF MacOf(net, 4, a, 2) # 0 THEN NeighborDelete(net, 4, a, 2)
                ELSE Learn(net, 4, a, 2, a))
\* NET_NEIGHBOR_TTL_NS pass
NAge == NDoes("age") /\ NBecomes([net EXCEPT !.neigh = [i \in DOMAIN @ |->
                                                     [@[i] EXCEPT !.old = TRUE]]])

\* datagrams
NUdp ==
  /\ NDoes("udp")
  /\ \/ /\ Sockets < ndoes.sockets /\ \E f \in ndoes.fams : NBecomes(UdpOpen(net, f))
     \/ \E i \in DOMAIN net.udp :
          \/ \E p \in {0} \cup ndoes.ports, a \in {0, LoAddr(net.udp[i].fam)} :
               NBecomes(UdpBind(net, i, a, p).n)
          \/ \E a \in ndoes.to, p \in ndoes.ports : NBecomes(UdpConnect(net, i, a, p))
          \/ /\ NRoom /\ RxRoom
             /\ \E a \in ndoes.to, p \in ndoes.ports :
                  NBecomes(UdpSendTo(net, i, End(a, p), <<1>>))
          \/ /\ NRoom /\ RxRoom /\ net.udp[i].conn
             /\ NBecomes(UdpSendTo(net, i, net.udp[i].peer, <<2>>))
          \/ net.udp[i].rx # <<>> /\ NBecomes(UdpRecv(net, i))
          \/ NBecomes(UdpClose(net, i))
NIcmp ==
  /\ NDoes("icmp")
  /\ \/ /\ Sockets < ndoes.sockets /\ \E f \in ndoes.fams : NBecomes(IcmpOpen(net, f))
     \/ \E i \in DOMAIN net.icmp :
          \/ /\ NRoom /\ RxRoom
             /\ \E a \in ndoes.to : NBecomes(IcmpSendTo(net, i, a, <<3>>))
          \/ net.icmp[i].rx # <<>> /\ NBecomes(IcmpRecv(net, i))
          \/ NBecomes(IcmpClose(net, i))
\* reply_loopback_send and _recv
NLoop ==
  /\ NDoes("loop")
  /\ \/ Len(net.loop) < 2 /\ \E f \in {4, 6} : NBecomes([net EXCEPT !.loop = Append(@, f)])
     \/ net.loop # <<>> /\ NBecomes([net EXCEPT !.loop = Tail(@)])

\* streams
NTcpOpen == NDoes("tcp") /\ Sockets < ndoes.sockets
            /\ \E f \in ndoes.fams : NBecomes(TcpAlloc(net, f))
NTcpBind ==
  /\ NDoes("bind")
  /\ \E id \in TcpIds(net), p \in ndoes.ports : NBecomes(TcpBind(net, id, 0, p).n)
NTcpListen ==
  /\ NDoes("listen")
  /\ \E id \in TcpIds(net) : LET s == TcpOf(net, id) IN
       s.state = "open" /\ s.local.port # 0 /\ NBecomes(TcpListen(net, id, 1))
NTcpConnect ==
  /\ NDoes("connect") /\ NRoom /\ Sockets <= ndoes.sockets
  /\ \E id \in TcpIds(net), a \in ndoes.to, p \in ndoes.ports : LET s == TcpOf(net, id) IN
       /\ s.state = "open"
       /\ IsLocal(net, s.fam, a) \/ RouteLookup(net, s.fam, a) # NoRoute
       /\ NBecomes(TcpConnect(net, id, a, p))
NTcpAccept ==
  \E id \in TcpIds(net) :
    /\ TcpOf(net, id).state = "listen" /\ TcpOf(net, id).pending # <<>>
    /\ NBecomes(TcpAccept(net, id))
NTcpWrite ==
  /\ NDoes("write") /\ NRoom
  /\ \E id \in TcpIds(net), len \in 1 .. Mtu : LET s == TcpOf(net, id) IN
       /\ TcpWritable(s) /\ Len(s.wrote) + len <= ndoes.bytes
       /\ NBecomes(TcpWrite(net, id, [i \in 1 .. len |-> Len(s.wrote) + i]))
NTcpRead ==
  /\ NDoes("read") /\ NRoom
  /\ \E id \in TcpIds(net), max \in 1 .. 2 :
       TcpReadable(TcpOf(net, id)) /\ NBecomes(TcpRead(net, id, max))
NTcpShutdown ==
  /\ NDoes("shutdown")
  /\ \E id \in TcpIds(net), how \in SUBSET {"RD", "WR"} :
       Live(TcpOf(net, id)) /\ NBecomes(TcpShutdown(net, id, how))
NTcpClose ==
  /\ NDoes("close")
  /\ \E id \in TcpIds(net) :
       TcpOf(net, id).state # "closed" /\ NBecomes(TcpClose(net, id))

\* The driver: it fetches a frame to send, hands a received one in, and somebody
\* listens at the tap
NFetch ==
  \E k \in DOMAIN net.ifs :
    /\ net.ifs[k].running /\ net.ifs[k].tx # <<>>
    /\ NBecomes([net EXCEPT !.ifs[k].tx = Tail(@)])
NTap ==
  \E k \in DOMAIN net.ifs : \E j \in DOMAIN net.ifs[k].rx :
    NBecomes([net EXCEPT !.ifs[k].rx = RemoveAt(@, j), !.ifs[k].count = @ - 1])
\* What comes in: neighbours that ask and tell, and datagrams;
FromNeighbors ==
  {[Frame(kind, f, a, dst, <<1, p>>, <<4>>, Plain) EXCEPT !.from = a] :
     a \in Peers, f \in ndoes.fams, kind \in ndoes.kinds, p \in ndoes.ports,
     dst \in {9, 7, 1}}
\* of a stream the SYN or SYN-ACK of the peer, any part of its bytes, early,
\* late or again, its FIN after the last one, or its RST
FromPeer(s, flags, seq, data) ==
  [Frame("tcp", 4, s.peer.addr, s.local.addr, <<s.peer.port, s.local.port>>, data,
         [Plain EXCEPT !.flags = flags, !.seq = seq % SeqSpace]) EXCEPT !.from = s.peer.addr]
Syns ==
  {[Frame("tcp", f, a, 9, <<1, p>>, <<>>, [Plain EXCEPT !.flags = {"SYN"}, !.seq = iss])
      EXCEPT !.from = a] : a \in Peers, f \in ndoes.fams, p \in ndoes.ports, iss \in ndoes.iss}
SynAcks(s) ==
  {FromPeer(s, {"SYN", "ACK"} \cup scale, iss, <<>>) :
     scale \in SUBSET {"WSCALE"}, iss \in IF s.hs THEN {s.iss} ELSE ndoes.iss}
Parts == {part \in (1 .. Stream + 1) \X (0 .. Mtu) : part[1] + part[2] <= Stream + 1}
Datas(s) ==
  {FromPeer(s, {"ACK"} \cup fin, s.iss + part[1], [i \in 1 .. part[2] |-> part[1] + i - 1]) :
     part \in Parts, fin \in SUBSET {"FIN"}}
EndsRight(s, fr) ==
  /\ fr.data # <<>> \/ "FIN" \in fr.tcp.flags
  /\ "FIN" \in fr.tcp.flags => SegEnd([seq |-> fr.tcp.seq, data |-> fr.data]) =
                                (s.iss + Stream + 1) % SeqSpace
FromStream(s) ==
  IF ~(Outside4(s) /\ Live(s)) THEN {}
  ELSE (IF NDoes("synack") THEN SynAcks(s) ELSE {})
       \cup (IF NDoes("data") /\ s.hs THEN {fr \in Datas(s) : EndsRight(s, fr)} ELSE {})
       \cup (IF NDoes("reset") THEN {FromPeer(s, {"RST"}, 0, <<>>)} ELSE {})
NReceive ==
  /\ NRoom /\ RxRoom
  /\ \E ifc \in 2 .. Len(net.ifs) + 1 :
     \E fr \in (IF NDoes("receive") THEN FromNeighbors ELSE {})
               \cup (IF NDoes("syn") /\ Sockets < ndoes.sockets THEN Syns ELSE {})
               \cup UNION {FromStream(TcpOf(net, id)) : id \in TcpIds(net)} :
       NBecomes(Ingest(net, ifc, fr))

NNext ==
  \/ NRoute \/ NAddress \/ NLease \/ NAttach \/ NLink \/ NNeighbor \/ NAge
  \/ NUdp \/ NIcmp \/ NLoop
  \/ NTcpOpen \/ NTcpBind \/ NTcpListen \/ NTcpConnect \/ NTcpAccept \/ NTcpWrite
  \/ NTcpRead \/ NTcpShutdown \/ NTcpClose
  \/ NFetch \/ NTap \/ NReceive
NSpec == NInit /\ [][NNext]_nvars

-----------------------------------------------------------------------------
(* Properties                                                                *)

\* The queues of the net server stay what their counters and bounds say: the
\* tap counts its frames, a backlog is never exceeded, and the receive queue of
\* a stream with an outside peer stays within its limit; no two UDP sockets of
\* a family own a port, so a datagram reaches at most one (user/net/main.c)
NetTypeOK ==
  /\ \A i, j \in DOMAIN net.udp :
       LET s == net.udp[i]
           t == net.udp[j]
       IN s.bound /\ t.bound /\ s.fam = t.fam /\ s.local.port = t.local.port => i = j
  /\ \A k \in DOMAIN net.ifs :
       net.ifs[k].count = Len(net.ifs[k].rx) /\ net.ifs[k].count <= RxQueueMax
  /\ \A s \in ToSet(net.tcp) :
       /\ s.state \in {"open", "listen", "established", "closed"}
       /\ s.rxack \in 0 .. SeqSpace - 1 /\ s.txseq \in 0 .. SeqSpace - 1
       /\ Len(s.pending) <= s.backlog /\ (IsExternal(s) => Queued(s) <= RxLimit)

\* Whatever routes come and go, route_table_lookup gives for every address
\* what a search of the enumerated list would: the longest prefix, then the
\* lowest metric, then the newest.  The trie and the list hold the same routes.
RouteIsBest ==
  LET rs == ToSet(net.routes)
      of(f, a) == {r \in rs : Matches(r, f, a)}
  IN net.order > 0 /\ (NDoes("route") \/ NDoes("lease")) =>
     /\ UNION {ToSet(net.trie[k]) : k \in DOMAIN net.trie} = rs
     /\ \A f \in {4, 6}, a \in Addrs :
          IF of(f, a) = {} THEN RouteLookup(net, f, a) = NoRoute
          ELSE /\ RouteLookup(net, f, a) # NoRoute
               /\ RouteLookup(net, f, a)[1] \in of(f, a)
               /\ \A r \in of(f, a) : ~Better(r, RouteLookup(net, f, a)[1])

\* A frame waits for its next hop only as long as that hop is unknown: once a
\* neighbour is learned, by whatever packet, nothing that waits for it is left
NoFrameForgotten ==
  \A x \in ToSet(net.pend) : MacOf(net, x.fam, x.addr, x.ifc) = 0

\* What a stream's reader has got and will get, in order, is the beginning of
\* what the peer sent, however segments are cut, lost, repeated and reordered;
\* the acknowledgement counts exactly these bytes (and the FIN); what is kept
\* out of order is right too; and a reader sees the end only behind the last
\* byte.  A local stream gives what the peer wrote.  (SHUT_RD throws bytes away.)
\* And reply_tcp_poll tells a reader to come exactly when reading gives bytes or
\* the end, or the stream was reset.
ReadsTheStream ==
  \A s \in ToSet(net.tcp) :
    LET have == s.got \o s.rx
        count == Len(have) + (IF s.peerclosed THEN 1 ELSE 0)
    IN /\ Live(s) /\ Outside4(s) /\ s.hs /\ ~s.lost /\ ~s.reset =>
            /\ have = [i \in 1 .. Len(have) |-> i]
            /\ s.rxack = (s.iss + 1 + count) % SeqSpace
            /\ s.peerclosed => Len(have) = Stream
            /\ \A g \in ToSet(s.ofo) : \A i \in DOMAIN g.data :
                 (s.iss + g.data[i]) % SeqSpace = (g.seq + i - 1) % SeqSpace
            /\ s.rx = <<>> /\ ~s.peerclosed => CanQueue(s, 1)
       /\ Live(s) /\ s.psock # 0 /\ ~s.lost =>
            have = SubSeq(TcpOf(net, s.psock).wrote, 1, Len(have))
       /\ TcpReadable(s) => "IN" \in TcpPoll(s)
       /\ "IN" \in TcpPoll(s) => TcpReadable(s) \/ s.reset \/ s.state = "listen"

\* The segments of a stream that are queued for the driver hold the written
\* bytes at their places, and acknowledgements never go back
SendsInOrder ==
  \A s \in ToSet(net.tcp) : \A k \in DOMAIN net.ifs :
    LET mine(fr) == /\ fr.kind = "tcp" /\ fr.ports = <<s.local.port, s.peer.port>>
                    /\ fr.dst = s.peer.addr /\ fr.fam = 4 /\ "SYN" \notin fr.tcp.flags
        q == SelectSeq(net.ifs[k].tx, mine)
    IN Live(s) /\ Outside4(s) /\ s.hs =>
       /\ \A i \in DOMAIN q : \A j \in DOMAIN q[i].data :
            q[i].data[j] = Dist(1, q[i].tcp.seq) + j
       /\ \A i, j \in DOMAIN q : i < j => ~SeqBefore(q[j].tcp.ack, q[i].tcp.ack)
       /\ s.tx = <<>> /\ ~s.wrclosed => Dist(1, s.txseq) = Len(s.wrote)
=============================================================================
