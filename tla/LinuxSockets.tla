---------------------------- MODULE LinuxSockets ----------------------------
(* Sockets in the Linux server: descriptors that name sockets of the network   *)
(* server and count their holders, calls that wait for data and are retried by *)
(* the server's loop, and the routing socket, whose answers are queued in the   *)
(* descriptor itself.  NetServer and NetTcp model the network server; here it   *)
(* is what the calls see of it, one machine talking to itself.                  *)
EXTENDS Integers, Sequences, FiniteSets, SequencesExt

CONSTANTS
  SPids, SFds,        \* processes and descriptors, 1 ..
  SMaxSocks,          \* sockets the network server has opened
  SMaxItems,          \* datagrams, bytes and frames sent or received
  SQueue,             \* sizeof(fd->path): what an answer of the routing socket may take
  SUtmps,             \* records utmpfs has
  SScenarios

VARIABLES sk, sdoes
svars == <<sk, sdoes>>

SCounted == {"udp", "tcp", "icmp"}
SNoFd == [kind |-> "none", off |-> 0, size |-> 0, nb |-> FALSE, stype |-> "none", q |-> <<>>,
          asked |-> "none", asks |-> 0, whole |-> <<>>, heard |-> <<>>]
SNewSock(proto) ==
  [proto |-> proto, state |-> "open", port |-> 0, dest |-> 0, peer |-> 0, in |-> <<>>,
   pend |-> <<>>, rd |-> TRUE, wr |-> TRUE, pwc |-> FALSE, reset |-> FALSE]

-----------------------------------------------------------------------------
(* The network server, as called.  A call that fails leaves it as it was.     *)

SPort(st, proto) == {st.net[s].port : s \in {t \in DOMAIN st.net : st.net[t].proto = proto
                                              /\ st.net[t].state # "closed"}}
SEphemeral(st, proto) == CHOOSE n \in 8 .. 12 : n \notin SPort(st, proto)
                                                 /\ \A k \in 8 .. n - 1 : k \in SPort(st, proto)
SNetBind(st, s, port) ==
  IF (port # 0 /\ port \in SPort(st, st.net[s].proto)) \/ st.net[s].state = "closed" THEN st
  ELSE [st EXCEPT !.net[s].port = IF port = 0 THEN SEphemeral(st, st.net[s].proto) ELSE port]
SBound(st, s) == IF st.net[s].port = 0 THEN SNetBind(st, s, 0) ELSE st
SAt(st, proto, states, port) ==
  {t \in DOMAIN st.net : st.net[t].proto = proto /\ st.net[t].state \in states /\ st.net[t].port = port}
SItem(st, s) == [id |-> st.n + 1, from |-> st.net[s].port]
SPut(st, s, t) == [st EXCEPT !.net[t].in = Append(@, SItem(st, s)), !.n = @ + 1]
SUdpDeliver(st, s, port) ==
  LET to == SAt(st, "udp", {"open"}, port)
  IN  IF to = {} THEN st ELSE SPut(st, s, CHOOSE t \in to : TRUE)
STcpListener(st, port) == SAt(st, "tcp", {"listen"}, port)
STcpConnect(st, s, port) ==
  LET b == SBound(st, s)
      c == Len(b.net) + 1
      l == CHOOSE t \in STcpListener(st, port) : TRUE
  IN  IF st.net[s].state # "open" THEN st
      ELSE IF STcpListener(st, port) = {} THEN [st EXCEPT !.net[s].reset = TRUE]
      ELSE [b EXCEPT !.net = [Append(@, [SNewSock("tcp") EXCEPT !.state = "est", !.peer = s,
                                 !.port = st.net[l].port, !.dest = b.net[s].port])
                EXCEPT ![s] = [@ EXCEPT !.state = "est", !.peer = c, !.dest = port],
                       ![l].pend = Append(@, c)]]
STcpWrite(st, s) ==
  LET k == st.net[s]
  IN  IF k.state # "est" \/ ~k.wr \/ k.reset THEN st
      ELSE IF st.net[k.peer].state = "closed" \/ ~st.net[k.peer].rd
      THEN [st EXCEPT !.net[s].reset = TRUE]
      ELSE SPut(st, s, k.peer)
SPeerEnds(st, s) == IF st.net[s].peer = 0 THEN st ELSE [st EXCEPT !.net[st.net[s].peer].pwc = TRUE]
STcpShutdown(st, s, how) ==
  LET r == IF "rd" \in how THEN [st EXCEPT !.net[s].rd = FALSE, !.net[s].in = <<>>] ELSE st
  IN  IF st.net[s].state # "est" THEN st
      ELSE IF "wr" \in how THEN SPeerEnds([r EXCEPT !.net[s].wr = FALSE], s) ELSE r
SNetClose(st, s) == [SPeerEnds(st, s) EXCEPT !.net[s].state = "closed", !.net[s].in = <<>>,
                                             !.net[s].pend = <<>>]
\* what a receiving call finds: an item, the end of the stream, or nothing
SReadable(k) ==
  /\ k.state # "closed"
  /\ k.proto = "tcp" => k.state = "est" /\ ~k.reset
  /\ k.in # <<>> \/ (k.proto = "tcp" /\ k.pwc)
SNetPoll(k) ==
  IF k.state = "closed" THEN {"err"}
  ELSE IF k.proto # "tcp" THEN {"out"} \cup (IF k.in # <<>> THEN {"in"} ELSE {})
  ELSE (IF (k.state = "listen" /\ k.pend # <<>>) \/ (k.state = "est" /\ (k.in # <<>> \/ k.pwc))
        THEN {"in"} ELSE {})
       \cup (IF k.state = "est" /\ k.wr /\ ~k.reset THEN {"out"} ELSE {})
       \cup (IF k.state = "est" /\ (k.pwc \/ k.reset) THEN {"hup"} ELSE {})

-----------------------------------------------------------------------------
(* Descriptors and the count of their holders.                                *)

SIsCounted(d) == d.kind \in SCounted
SRefAdd(st, d) ==
  IF ~SIsCounted(d) \/ d.off = 0 THEN st
  ELSE [st EXCEPT !.refs[d.off] = @ + 1,
                  !.shared = IF d.off \in st.taken THEN @ \cup {d.off} ELSE @]
SRefDrop(st, d) == IF st.refs[d.off] = 0 THEN st ELSE [st EXCEPT !.refs[d.off] = @ - 1]
SFree(st, p) == {f \in 1 .. sdoes.fds : st.fd[p][f].kind = "none"}
SAllocFd(st, p) == CHOOSE f \in SFree(st, p) : \A g \in SFree(st, p) : f <= g
SFill(st, p, d) == [st EXCEPT !.fd[p][SAllocFd(st, p)] = d]

\* the kind of descriptor a domain, type and protocol ask for
SKindOf(dom, type, proto) ==
  CASE dom = "unix" /\ proto = "any" /\ type = "stream" -> "unix"
    [] dom = "unix" /\ proto = "any" /\ type = "dgram" -> "udgram"
    [] dom = "netlink" /\ type = "raw" /\ proto = "route" -> "netlink"
    [] dom = "packet" /\ type = "dgram" /\ proto = "ip" -> "packet"
    [] dom \in {"inet", "inet6"} /\ type = "dgram" /\ proto \in {"any", "udp"} -> "udp"
    [] dom \in {"inet", "inet6"} /\ type = "stream" /\ proto \in {"any", "tcp"} -> "tcp"
    [] dom \in {"inet", "inet6"} /\ type \in {"raw", "dgram"}
         /\ proto = (IF dom = "inet" THEN "icmp" ELSE "icmp6") -> "icmp"
    [] dom = "inet" /\ type = "raw" /\ proto \in {"raw", "udp"} -> "raw"
    [] OTHER -> "none"
SSocket(st, p, dom, type, proto) ==
  LET kind == SKindOf(dom, type, proto)
      d == [SNoFd EXCEPT !.kind = kind, !.stype = type, !.asked = type,
                         !.size = IF dom = "inet" THEN 4 ELSE IF dom = "inet6" THEN 6 ELSE 0]
      s == Len(st.net) + 1
      n == [st EXCEPT !.net = Append(@, SNewSock(kind))]
  IN  IF kind = "none" THEN st
      ELSE IF kind \notin SCounted THEN IF SFree(st, p) = {} THEN st ELSE SFill(st, p, d)
      ELSE IF SFree(st, p) = {} THEN [n EXCEPT !.leaked = @ \cup {s}]
      ELSE SRefAdd(SFill(n, p, [d EXCEPT !.off = s]), [d EXCEPT !.off = s])

SClose(st, p, f) ==
  LET d == st.fd[p][f]
      w == SRefDrop(st, d)
      c == IF ~SIsCounted(d) THEN st ELSE IF st.refs[d.off] > 1 THEN w ELSE SNetClose(w, d.off)
  IN  [c EXCEPT !.fd[p][f] = SNoFd]
SDup(st, p, f) == SRefAdd(SFill(st, p, st.fd[p][f]), st.fd[p][f])
SFork_Uncounted(st, p, c) ==        \* Mutant: the child's descriptors are not counted
  [st EXCEPT !.fd[c] = st.fd[p], !.life[c] = "run"]
SFork(st, p, c) ==
  FoldLeft(LAMBDA s, f : SRefAdd(s, s.fd[c][f]),
           [st EXCEPT !.fd[c] = st.fd[p], !.life[c] = "run"], SetToSeq(SFds))
SCloseAll(st, p) ==
  FoldLeft(LAMBDA s, f : IF s.fd[p][f].kind = "none" THEN s ELSE SClose(s, p, f), st, SetToSeq(SFds))
SExit(st, p) == [SCloseAll(st, p) EXCEPT !.life[p] = "zombie"]
SCancelReaders(st, p) == [st EXCEPT !.waits = SelectSeq(@, LAMBDA w : w.pid # p)]
SReap(st, p) == [SCancelReaders(st, p) EXCEPT !.life[p] = "gone"]

-----------------------------------------------------------------------------
(* Naming and connecting.                                                      *)

SBind(st, p, f, fam, port) ==
  LET d == st.fd[p][f]
  IN  IF d.kind = "packet" THEN IF port = 0 THEN st ELSE [st EXCEPT !.fd[p][f].off = port]
      ELSE IF d.kind \notin {"udp", "tcp"} \/ fam # d.size THEN st
      ELSE IF port = 1 /\ p \notin sdoes.root THEN st         \* port < 1024
      ELSE SNetBind(st, d.off, port)
SListen(st, p, f) ==
  LET d == st.fd[p][f]
  IN  IF d.kind # "tcp" THEN st
      ELSE IF st.net[d.off].state # "open" \/ st.net[d.off].port = 0 THEN st
      ELSE [st EXCEPT !.net[d.off].state = "listen"]
\* the descriptor of an accepted socket is not entered in the count of holders
SAccept(st, p, f) ==
  LET d == st.fd[p][f]
      s == Head(st.net[d.off].pend)
      n == [st EXCEPT !.net[d.off].pend = Tail(@)]
  IN  IF d.kind # "tcp" THEN st
      ELSE IF st.net[d.off].state # "listen" \/ st.net[d.off].pend = <<>> THEN st
      ELSE IF SFree(st, p) = {} THEN [n EXCEPT !.leaked = @ \cup {s}]
      ELSE [SFill(n, p, [SNoFd EXCEPT !.kind = "tcp", !.size = d.size, !.off = s, !.asked = "stream"])
             EXCEPT !.taken = @ \cup {s}]
SShutdown(st, p, f, how) ==
  LET d == st.fd[p][f] IN IF d.kind # "tcp" THEN st ELSE STcpShutdown(st, d.off, how)
\* an address of a local service (utmps), of another path, or of a port
SConnect(st, p, f, addr, port) ==
  LET d == st.fd[p][f]
  IN  IF addr = "port"
      THEN IF d.kind = "udp" /\ port # 0 THEN [SBound(st, d.off) EXCEPT !.net[d.off].dest = port]
           ELSE IF d.kind = "tcp" /\ port # 0 THEN STcpConnect(st, d.off, port) ELSE st
      ELSE IF d.kind \notin {"unix", "udgram", "utmpd"} \/ addr # "utmps" \/ d.kind = "udgram" THEN st
      ELSE [st EXCEPT !.fd[p][f] = [@ EXCEPT !.kind = "utmpd", !.off = 0, !.size = 0, !.heard = <<>>]]
SGetsockopt(d) ==
  IF d.stype # "none" THEN d.stype
  ELSE IF d.kind \in {"udp", "udgram", "packet"} THEN "dgram"
  ELSE IF d.kind \in {"netlink", "icmp", "raw"} THEN "raw" ELSE "stream"

-----------------------------------------------------------------------------
(* The routing socket.  An answer is a list of messages; one that does not fit *)
(* in the descriptor ends the dump with an error.                             *)

SMsg(seq, type, n) == [seq |-> seq, type |-> type, n |-> n, pid |-> 0]
SSize(m) == IF m.type \in {"link", "route"} THEN 3 ELSE IF m.type = "done" THEN 1 ELSE 2
SUsed(q) == FoldLeft(LAMBDA n, m : n + SSize(m), 0, q)
SQueueMsg_Silent(a, m) ==           \* Mutant: what does not fit is left out
  IF ~a.ok \/ SSize(m) > SQueue - SUsed(a.q) THEN a ELSE [a EXCEPT !.q = Append(@, m)]
SQueueMsg(a, m) ==
  IF ~a.ok \/ SSize(m) > SQueue - SUsed(a.q) THEN [a EXCEPT !.ok = FALSE]
  ELSE [a EXCEPT !.q = Append(@, m)]
SQueueError(a, seq, code) == SQueueMsg(a, SMsg(seq, "error", code))
SQueueDone(a, seq, n) == SQueueMsg(a, SMsg(seq, "done", n))
SQueueLink(a, seq, i) == SQueueMsg(a, SMsg(seq, "link", i))
SQueueAddr(a, seq, i) == SQueueMsg(a, SMsg(seq, "addr", i))
SQueueRoute(a, seq, i) == SQueueMsg(a, SMsg(seq, "route", i))
\* one message for each entry wanted, and the end of the dump
SWanted(items, index) == SelectSeq(items, LAMBDA i : index = 0 \/ i = index)
SQueueLinks(a, seq, items) ==
  SQueueDone(FoldLeft(LAMBDA b, i : SQueueLink(b, seq, i), a, items), seq, Len(items))
SQueueAddrs(a, seq, items) ==
  SQueueDone(FoldLeft(LAMBDA b, i : SQueueAddr(b, seq, i), a, items), seq, Len(items))
SQueueRoutes(a, seq, items) ==
  SQueueDone(FoldLeft(LAMBDA b, i : SQueueRoute(b, seq, i), a, items), seq, Len(items))

\* a change to a table of the network server: adding what is there, or deleting
\* what is not, fails
STableRpc(tab, add, x) ==
  IF add = (x \in Range(tab)) THEN [ok |-> FALSE, tab |-> tab]
  ELSE [ok |-> TRUE, tab |-> IF add THEN Append(tab, x) ELSE SelectSeq(tab, LAMBDA y : y # x)]
SGets == {"getlink", "getaddr", "getroute"}
SLinkOps == {"linkup", "linkdown"}
\* one message of a send: a = [q, ok (the queue's), st, res, stop]
SNetlinkOne(a, r, seq) ==
  LET get == CASE r.op = "getlink" -> SQueueLinks(a, seq, SWanted(<<1, 2>>, r.val))
               [] r.op = "getaddr" -> SQueueAddrs(a, seq, SWanted(a.st.addrs, r.val))
               [] r.op = "getroute" -> SQueueRoutes(a, seq, a.st.routes)
               [] OTHER -> a
      addr == STableRpc(a.st.addrs, r.op = "newaddr", r.val)
      route == STableRpc(a.st.routes, r.op = "newroute", r.val)
      put == CASE r.op \in {"newaddr", "deladdr"} -> [a EXCEPT !.st.addrs = addr.tab]
               [] r.op \in {"newroute", "delroute"} -> [a EXCEPT !.st.routes = route.tab]
               [] r.op \in SLinkOps /\ r.val = 2 -> [a EXCEPT !.st.up = (r.op = "linkup")]
               [] OTHER -> get
      good == CASE r.op \in {"newaddr", "deladdr"} -> addr.ok
                [] r.op \in {"newroute", "delroute"} -> route.ok
                [] r.op \in SLinkOps -> r.val \in {1, 2}
                [] r.op \in SGets -> get.ok
                [] OTHER -> FALSE
      b == [put EXCEPT !.ok = TRUE]
  IN  IF a.stop THEN a
      ELSE IF r.op = "short" THEN [a EXCEPT !.stop = TRUE]                  \* EINVAL
      ELSE IF good /\ ~r.ack /\ r.op \in SGets THEN b
      ELSE LET e == SQueueError(b, seq, IF good THEN 0 ELSE 1) IN [e EXCEPT !.stop = ~e.ok]
SStamp(q, p) == [i \in DOMAIN q |-> [q[i] EXCEPT !.pid = p]]
SNetlinkSend(st, p, f, reqs) ==
  LET a == FoldLeft(LAMBDA b, i : SNetlinkOne(b, reqs[i], i),
                    [q |-> <<>>, ok |-> TRUE, st |-> st, stop |-> FALSE],
                    [i \in DOMAIN reqs |-> i])
      q == IF a.stop THEN a.q ELSE SStamp(a.q, p)
  IN  [a.st EXCEPT !.fd[p][f] = [@ EXCEPT !.q = q, !.off = 0, !.heard = <<>>,
                                   !.whole = q, !.asks = IF a.stop THEN 0 ELSE Len(reqs)]]
\* one message at a time; what does not fit in the reader's buffer is dropped
SNetlinkRecv(st, p, f) ==
  LET d == st.fd[p][f]
      last == d.off + 1 >= Len(d.q)
  IN  IF d.off >= Len(d.q) THEN [st EXCEPT !.fd[p][f] = [@ EXCEPT !.off = 0, !.q = <<>>]]
      ELSE [st EXCEPT !.fd[p][f] = [@ EXCEPT !.heard = Append(@, d.q[d.off + 1]),
              !.off = IF last THEN 0 ELSE @ + 1, !.q = IF last THEN <<>> ELSE @]]

-----------------------------------------------------------------------------
(* Sending and receiving.                                                      *)

SDefaultInterface(st) == IF st.up THEN 2 ELSE -1
SPacketSend(st, iface) == IF iface = 2 THEN [st EXCEPT !.tx = Append(@, st.n + 1), !.n = @ + 1] ELSE st
SRawSend(st) == SPacketSend(st, SDefaultInterface(st))
SDatagramSend(st, d, port) ==
  IF d.kind = "udp" THEN SUdpDeliver(SBound(st, d.off), d.off, port)
  ELSE IF st.net[d.off].state = "closed" THEN st ELSE SPut(st, d.off, d.off)
SSendto(st, p, f, port, reqs) ==
  LET d == st.fd[p][f]
  IN  CASE d.kind = "netlink" -> SNetlinkSend(st, p, f, reqs)
        [] d.kind = "packet" -> SPacketSend(st, d.off)
        [] d.kind = "raw" -> IF port = 0 THEN st ELSE SRawSend(st)
        [] d.kind = "tcp" -> IF port # 0 THEN st ELSE STcpWrite(st, d.off)
        [] d.kind = "icmp" -> IF port = 0 THEN st ELSE SDatagramSend(st, d, port)
        [] d.kind = "udp" -> IF port # 0 THEN SDatagramSend(st, d, port)
                             ELSE IF st.net[d.off].dest = 0 THEN st
                             ELSE SUdpDeliver(st, d.off, st.net[d.off].dest)
        [] d.kind = "utmpd" -> [st EXCEPT !.fd[p][f] = [@ EXCEPT !.size = port,
                                   !.off = IF port = 1 THEN 0 ELSE @, !.heard = IF port = 1 THEN <<>> ELSE @]]
        [] OTHER -> st

SResult(st, r) == [st |-> st, r |-> r]
SGot(st, p, s, item) == [st EXCEPT !.got = Append(@, [pid |-> p, sock |-> s, id |-> item.id, from |-> item.from])]
SReadBlock(st, p, f, len) ==
  IF \E i \in DOMAIN st.waits : st.waits[i].pid = p THEN SResult(st, "again")
  ELSE SResult([st EXCEPT !.waits = <<[pid |-> p, fd |-> f, len |-> len]>> \o @, !.life[p] = "blocked"], "blocked")
SSocketRecv(st, p, f, len) ==
  LET d == st.fd[p][f]
      k == st.net[d.off]
  IN  IF len = 0 \/ ~SReadable(k) THEN SResult(st, "again")
      ELSE IF k.in = <<>> THEN SResult(st, "eof")
      ELSE SResult(SGot([st EXCEPT !.net[d.off].in = Tail(@)], p, d.off, Head(k.in)), "data")
\* the raw form leaves room for the header it makes up, and needs more than that
SIcmpRaw(d) == d.kind = "icmp" /\ d.stype = "raw" /\ d.size = 4
SIcmpRawRecv(st, p, f, len) == IF len <= 1 THEN SResult(st, "again") ELSE SSocketRecv(st, p, f, len - 1)
SFrameIn(st, p, iface) ==
  IF iface # 2 \/ st.rx = <<>> THEN SResult(st, "again")
  ELSE SResult(SGot([st EXCEPT !.rx = Tail(@)], p, 0, [id |-> Head(st.rx), from |-> 0]), "data")
SRawRecv(st, p) == SFrameIn(st, p, SDefaultInterface(st))
\* the record the last command asked for
SUtmpsRecv(st, p, f) ==
  LET d == st.fd[p][f]
      next == d.size = 2 /\ d.off < SUtmps
  IN  [st EXCEPT !.fd[p][f] = [@ EXCEPT !.size = 0, !.off = IF d.size = 1 THEN 0 ELSE IF next THEN @ + 1 ELSE @,
                                 !.heard = IF d.size = 1 THEN <<>> ELSE IF next THEN Append(@, d.off) ELSE @]]
SRecvfrom(st, p, f, len, wait, handle) ==
  LET d == st.fd[p][f]
      r == IF SIcmpRaw(d) THEN SIcmpRawRecv(st, p, f, len) ELSE SSocketRecv(st, p, f, len)
  IN  CASE d.kind = "none" -> SResult(st, "notsock")
        [] d.kind \in SCounted ->
             IF r.r # "again" \/ ~wait \/ d.nb \/ ~handle THEN r ELSE SReadBlock(st, p, f, len)
        [] d.kind = "packet" -> IF d.off = 0 THEN SResult(st, "dest") ELSE SFrameIn(st, p, d.off)
        [] d.kind = "raw" -> SRawRecv(st, p)
        [] d.kind = "netlink" -> SResult(SNetlinkRecv(st, p, f), "data")
        [] d.kind = "utmpd" -> SResult(SUtmpsRecv(st, p, f), "data")
        [] OTHER -> SResult(st, "notsock")

SRecvmsg(st, p, f, len, wait) ==
  IF st.fd[p][f].kind = "packet" /\ st.fd[p][f].off # 0 THEN SFrameIn(st, p, st.fd[p][f].off)
  ELSE SRecvfrom(st, p, f, len, wait, TRUE)

\* every waiting call is tried again, the newest first
SWakeOne_First(st, w) ==            \* Mutant: the walk ends at the first call that cannot go on
  LET r == SRecvfrom(st, w.pid, w.fd, w.len, TRUE, FALSE)
  IN  IF st.life[w.pid] # "blocked" THEN st
      ELSE IF r.r = "again" \/ st.waits # <<>> THEN [st EXCEPT !.waits = Append(@, w)]
      ELSE [r.st EXCEPT !.life[w.pid] = "run"]
SWakeOne(st, w) ==
  LET r == SRecvfrom(st, w.pid, w.fd, w.len, TRUE, FALSE)
  IN  IF st.life[w.pid] # "blocked" THEN st
      ELSE IF r.r = "again" THEN [st EXCEPT !.waits = Append(@, w)]
      ELSE [r.st EXCEPT !.life[w.pid] = "run"]
SWake(st) == FoldLeft(SWakeOne, [st EXCEPT !.waits = <<>>], st.waits)

SRawPoll(st) == IF SDefaultInterface(st) < 0 THEN {"err"} ELSE {"out"} \cup (IF st.rx # <<>> THEN {"in"} ELSE {})
SPollfd(st, d) ==
  CASE d.kind = "none" -> {"nval"}
    [] d.kind \in SCounted -> SNetPoll(st.net[d.off])
    [] d.kind = "packet" -> IF d.off # 2 THEN {"err"} ELSE {"out"} \cup (IF st.rx # <<>> THEN {"in"} ELSE {})
    [] d.kind = "raw" -> SRawPoll(st)
    [] d.kind = "netlink" -> {"out"}            \* LINUX_FD_NETLINK_ACK_PENDING is never set
    [] OTHER -> {"in", "out"}

-----------------------------------------------------------------------------
(* The server's loop: it serves a call, then tries the waiting ones again; with *)
(* no call waiting the second half does nothing.                                *)

SInit ==
  /\ sdoes \in SScenarios
  /\ sk = [fd |-> [p \in SPids |-> [f \in SFds |-> SNoFd]], refs |-> [s \in 1 .. SMaxSocks |-> 0],
            life |-> [p \in SPids |-> IF p = 1 THEN "run" ELSE "none"], net |-> <<>>, waits |-> <<>>,
            rx |-> <<>>, tx |-> <<>>, up |-> TRUE, addrs |-> <<1>>, routes |-> <<>>, n |-> 0, got |-> <<>>,
            turn |-> FALSE, leaked |-> {}, taken |-> {}, shared |-> {}]
SDone(st) == ~sk.turn /\ sk' = [st EXCEPT !.turn = st.waits # <<>>] /\ UNCHANGED sdoes
SLoop == sk.turn /\ sk' = [SWake(sk) EXCEPT !.turn = FALSE] /\ UNCHANGED sdoes
SMay(op) == op \in sdoes.ops
SOpenSocket(p) ==
  /\ SMay("socket") /\ Len(sk.net) < sdoes.most
  /\ \E a \in sdoes.socks : SDone(SSocket(sk, p, a[1], a[2], a[3]))
SName(p, f) ==
  \/ \E port \in sdoes.ports : SMay("bind") /\ SDone(SBind(sk, p, f, 4, port))
  \/ SMay("listen") /\ SDone(SListen(sk, p, f))
  \/ SMay("accept") /\ SDone(SAccept(sk, p, f))
  \/ \E port \in sdoes.ports, addr \in sdoes.addrs :
       SMay("connect") /\ Len(sk.net) < sdoes.most /\ SDone(SConnect(sk, p, f, addr, port))
  \/ \E how \in {{"rd"}, {"wr"}} : SMay("shutdown") /\ SDone(SShutdown(sk, p, f, how))
SSend(p, f) ==
  \E port \in sdoes.ports \cup {0}, reqs \in sdoes.reqs :
    SMay("send") /\ sk.n < sdoes.items /\ SDone(SSendto(sk, p, f, port, reqs))
\* recvfrom and recvmsg, with MSG_DONTWAIT or without; read is a recvfrom that waits
SReceive(p, f) ==
  \E len \in sdoes.lens, wait \in sdoes.waits : SMay("recv") /\
    (SDone(SRecvfrom(sk, p, f, len, wait, TRUE).st) \/ SDone(SRecvmsg(sk, p, f, len, wait).st))
SKeep(p, f) ==
  \/ SMay("dup") /\ SFree(sk, p) # {} /\ SDone(SDup(sk, p, f))
  \/ SMay("close") /\ SDone(SClose(sk, p, f))
  \/ SMay("nonblock") /\ SDone([sk EXCEPT !.fd[p][f].nb = ~@])
SUse == \E p \in SPids : sk.life[p] = "run" /\
  (SOpenSocket(p) \/ \E f \in SFds : sk.fd[p][f].kind # "none" /\ (SName(p, f) \/ SSend(p, f) \/ SReceive(p, f) \/ SKeep(p, f)))
SForks == \E p \in SPids, c \in 2 .. sdoes.procs :
  SMay("fork") /\ sk.life[p] = "run" /\ sk.life[c] = "none" /\ (\A k \in SPids : k < c => sk.life[k] # "none")
  /\ SDone(SFork(sk, p, c))
\* exit, or a signal that kills, also of a process whose call waits
SDies == \E p \in SPids : SMay("exit") /\ sk.life[p] \in {"run", "blocked"} /\ SDone(SExit(sk, p))
SReaped == \E p \in SPids : sk.life[p] = "zombie" /\ SDone(SReap(sk, p))
\* a frame arrives at the interface: the network server's step
SFrame == SMay("frame") /\ sk.n < sdoes.items
          /\ sk' = [sk EXCEPT !.rx = Append(@, sk.n + 1), !.n = @ + 1] /\ UNCHANGED sdoes
SNext == SUse \/ SForks \/ SDies \/ SReaped \/ SFrame \/ SLoop

-----------------------------------------------------------------------------
(* What the sockets promise.                                                   *)

SocketsTypeOK ==
  /\ sdoes \in SScenarios
  /\ sk.life \in [SPids -> {"none", "run", "blocked", "zombie", "gone"}]
  /\ sk.refs \in [1 .. SMaxSocks -> 0 .. 9] /\ Len(sk.net) \in 0 .. SMaxSocks /\ sk.n \in 0 .. SMaxItems
  /\ \A p \in SPids, f \in SFds : sk.fd[p][f].off \in 0 .. 9 /\ SUsed(sk.fd[p][f].q) <= SQueue

SHolders(s) == {h \in SPids \X SFds : sk.fd[h[1]][h[2]].kind \in SCounted /\ sk.fd[h[1]][h[2]].off = s}
\* A socket of the network server is open as long as a descriptor names it and no
\* longer, and what was opened here is counted exactly
SHoldersCounted ==
  \A s \in DOMAIN sk.net \ (sk.leaked \cup sk.shared) :
    /\ SHolders(s) # {} => sk.net[s].state # "closed"
    /\ SHolders(s) = {} /\ sk.net[s].state # "closed" => ~(s \in sk.taken) /\ sk.net[s].state = "est"
    /\ s \notin sk.taken => sk.refs[s] = Cardinality(SHolders(s))
\* Once the loop has tried the waiting calls, a process waits if and only if one call of
\* it is on the list, a dead one has left it, and no call waits for what is there
SWaitsSound ==
  ~sk.turn =>
  /\ \A p \in SPids : sk.life[p] = "blocked" <=> Cardinality({i \in DOMAIN sk.waits : sk.waits[i].pid = p}) = 1
  /\ \A i \in DOMAIN sk.waits : LET w == sk.waits[i] IN
       SRecvfrom(sk, w.pid, w.fd, w.len, FALSE, FALSE).r = "again"
\* Nothing sent is received twice, and a socket's items are received in order
SOnce == \A i, j \in DOMAIN sk.got : i < j =>
  /\ sk.got[i].id # sk.got[j].id
  /\ sk.got[i].sock = sk.got[j].sock => sk.got[i].id < sk.got[j].id
\* The answers a process takes from a routing socket are the answers queued, in order;
\* every request is answered, and a dump that ends well has all its entries
SAnswersWhole == \A p \in SPids, f \in SFds : LET d == sk.fd[p][f] IN d.kind = "netlink" =>
  /\ d.heard \o SubSeq(d.q, d.off + 1, Len(d.q)) = d.whole
  /\ \A seq \in 1 .. d.asks :
       LET ms == SelectSeq(d.whole, LAMBDA m : m.seq = seq)
       IN  /\ ms # <<>> /\ Last(ms).type \in {"done", "error"}
           /\ \A i \in DOMAIN ms : ms[i].type = "done" => ms[i].n = i - 1
           /\ Last(ms).type = "error" /\ Last(ms).n = 0 /\ Len(ms) > 1 => ms[Len(ms) - 1].type = "done"
  /\ d.asks # 0 => \A i \in DOMAIN d.whole : d.whole[i].pid \in SPids
\* poll says a socket can be read exactly when a read would not have to wait: except a
\* reset stream, which it calls readable, a listening one, and the routing socket
SPollTrue == \A p \in SPids, f \in SFds : LET d == sk.fd[p][f] IN d.kind \in SCounted \cup {"packet", "raw"} =>
  LET reads == SRecvfrom(sk, p, f, 2, FALSE, FALSE).r \in {"data", "eof"}
  IN  /\ reads => "in" \in SPollfd(sk, d)
      /\ "in" \in SPollfd(sk, d) => reads \/ (d.kind = "tcp" /\ (sk.net[d.off].reset \/ sk.net[d.off].state = "listen"))
\* SO_TYPE is the type asked for, and the records of utmp come in order
SOptions == \A p \in SPids, f \in SFds : LET d == sk.fd[p][f] IN
  /\ SGetsockopt(d) = d.asked \/ d.kind = "none"
  /\ d.kind = "utmpd" => d.heard = [i \in 1 .. d.off |-> i - 1]

\* Sockets of Linux programs: descriptors and the network server agree on what is open,
\* waiting calls are neither lost nor left behind, nothing is received twice, answers of
\* the routing socket are whole, and poll and SO_TYPE tell the truth
SocketsSound == SHoldersCounted /\ SWaitsSound /\ SOnce /\ SAnswersWhole /\ SPollTrue /\ SOptions
=============================================================================
