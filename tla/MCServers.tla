----------------------------- MODULE MCServers ------------------------------
(* The servers for TLC                                                       *)
EXTENDS NetServer, TmpfsServer, VfsServer, Ext2Server, UnionServer,
        VirtioBlock, VirtioNet, DeviceBus, Xhci, UsbDrivers

VARIABLE part     \* which server: they share no state

-----------------------------------------------------------------------------
(* The net server.  Interface 2 has address 9 of the network 10xx; 10 is on it. *)

Wired == [addr |-> Address(4, 9, 2, 2), route |-> Info(4, 8, 2, 2, 0, 0)]
Wired6 == [addr |-> Address(6, 9, 2, 2), route |-> Info(6, 8, 2, 2, 0, 0)]
Used == [config |-> <<Wired>>, ops |-> {}, routes |-> {}, addrs |-> {}, adds |-> 0,
         fams |-> {4}, ports |-> {3}, to |-> {10}, kinds |-> {}, iss |-> {13},
         frames |-> 2, sockets |-> 1, bytes |-> 5]

\* routes of every length that overlap, with and without gateway, come and go
Routing == [Used EXCEPT !.config = <<>>, !.ops = {"route"}, !.adds = 103,
  !.routes = {Info(4, 8, 1, 2, 0, 0), Info(4, 8, 2, 2, 0, 5), Info(4, 8, 2, 2, 10, 5),
              Info(4, 8, 3, 2, 0, 0), Info(4, 10, 3, 2, 0, 1), Info(4, 0, 0, 2, 10, 0),
              Info(6, 8, 3, 2, 0, 0), Info(6, 11, 4, 2, 0, 0)}]
Leases == [Used EXCEPT !.config = <<>>, !.adds = 103, !.addrs = {Wired.addr},
             !.ops = {"lease", "addr", "icmp", "receive"}, !.kinds = {"tell", "ask"}]
\* frames wait for neighbours that are learned, age and go; links go down
Resolving == [Used EXCEPT !.ops = {"icmp", "neighbor", "age", "receive"},
                !.kinds = {"ask", "tell"}]
Resolving6 == [Used EXCEPT !.config = <<Wired, Wired6>>, !.ops = {"icmp", "receive"},
                 !.fams = {6}, !.kinds = {"ask", "tell", "icmp"}]
Linking == [Used EXCEPT !.ops = {"icmp", "link", "attach", "receive"}, !.kinds = {"tell"}]
\* datagrams to ourselves and to others
Datagrams == [Used EXCEPT !.ops = {"udp"}, !.to = {7}, !.sockets = 2, !.frames = 1]
Looping == [Used EXCEPT !.ops = {"loop"}]
Datagrams6 == [Used EXCEPT !.config = <<Wired, Wired6>>, !.ops = {"udp", "receive"},
                 !.fams = {6}, !.kinds = {"udp"}]
Datagrams4 == [Datagrams6 EXCEPT !.fams = {4}]
\* a stream to a peer: what it reads, what it writes
Reading == [Used EXCEPT !.ops = {"tcp", "connect", "synack", "data", "read"}]
Writing == [Used EXCEPT !.ops = {"tcp", "connect", "synack", "write", "shutdown"},
              !.frames = 3]
Serving == [Used EXCEPT !.ops = {"tcp", "bind", "listen", "syn", "data", "read"},
              !.sockets = 2]
Refusing == [Used EXCEPT !.ops = {"tcp", "bind", "listen", "syn", "close"}, !.sockets = 3]
Serving6 == [Used EXCEPT !.config = <<Wired, Wired6>>, !.fams = {6}, !.sockets = 2,
               !.ops = {"tcp", "bind", "listen", "syn", "connect", "write", "close"}]
Resetting == [Used EXCEPT !.ops = {"tcp", "connect", "synack", "reset", "write", "close"}]
\* both ends here
Local == [Used EXCEPT !.config = <<>>, !.to = {7}, !.sockets = 2, !.bytes = 2,
            !.ops = {"tcp", "bind", "listen", "connect", "write", "read"}]
Ending == [Local EXCEPT !.bytes = 1, !.ops = @ \cup {"shutdown", "close"}]
Crowded == [Local EXCEPT !.sockets = 4, !.ops = {"tcp", "bind", "listen", "connect"}]
NPrograms == {Routing, Leases, Resolving, Resolving6, Linking, Looping, Datagrams, Datagrams4,
              Datagrams6, Reading, Writing, Serving, Refusing, Serving6, Resetting, Local, Ending,
              Crowded}

-----------------------------------------------------------------------------
(* tmpfs: names below two directories move; handles; contents; roots           *)

TMoving == [ops |-> {"rename"}, paths |-> {<<"a">>, <<"b">>, <<"a", "c">>, <<"b", "c">>},
            kinds |-> {"file", "dir"}, tasks |-> {1}, opens |-> 0]
THolding == [TMoving EXCEPT !.ops = {"link", "rename"}, !.kinds = {"file"},
               !.paths = {<<"a">>, <<"b">>}, !.opens = 2]
TFilling == [TMoving EXCEPT !.paths = {<<"a">>}, !.ops = {"write", "symlink"}, !.opens = 1,
               !.kinds = {"file"}]
TRooting == [TMoving EXCEPT !.ops = {"mount", "mkdirp", "meta"}, !.tasks = {1, 2}, !.opens = 1,
               !.paths = {<<"a">>, <<"a", "c">>}, !.kinds = {"dir", "fifo"}]
TPrograms == {TMoving, THolding, TFilling, TRooting}

-----------------------------------------------------------------------------
(* The VFS: a root file system, another at /t                                  *)

VAbs(names) == [abs |-> TRUE, names |-> names]
VWalking == [ops |-> {"grant", "unmount", "stat"}, svcs |-> {"rootfs", "tmpfs"}, tasks |-> {1},
  subjects |-> {1}, mounts |-> {<< <<>>, "rootfs">>, << <<"t">>, "tmpfs">>}, numbers |-> 3,
  makes |-> {<<"l">>, <<"t", "l">>},
  texts |-> {VAbs(<<"t", "l">>), VAbs(<<"l">>), [abs |-> FALSE, names |-> <<"..", "t">>]}]
VRouting == [VWalking EXCEPT !.ops = {"grant", "unmount", "pin"}, !.numbers = 4,
  !.mounts = @ \cup {<< <<"t">>, "unionfs">>}, !.svcs = @ \cup {"unionfs"},
  !.texts = {VAbs(<<"t">>)}, !.makes = {<<"t", "l">>}]
VIssuing == [VWalking EXCEPT !.ops = {"grant", "issue", "stat", "behind"}, !.tasks = {1, 2},
  !.subjects = {2, 3}, !.texts = {VAbs(<<"l">>)}, !.makes = {<<"l">>}, !.numbers = 2]
VLinking == [VWalking EXCEPT !.ops = {"grant", "rename", "stat"}, !.svcs = {"rootfs", "procfs"},
  !.mounts = {<< <<>>, "rootfs">>, << <<"p">>, "procfs">>},
  !.makes = {<<"l">>, <<"m">>, <<"p", "m">>}, !.texts = {VAbs(<<"l">>), VAbs(<<"p", "m">>)}]
VPrograms == {VWalking, VRouting, VIssuing, VLinking}

-----------------------------------------------------------------------------
(* ext2: directories move; links and full directories; files are written        *)

XMoving == [ops |-> {"rename"}, paths |-> {<<"a">>, <<"b">>, <<"a", "c">>, <<"b", "c">>},
            kinds |-> {"dir"}, tasks |-> {1}, opens |-> 0, lens |-> {}]
XLinking == [XMoving EXCEPT !.paths = {<<"a">>, <<"b">>, <<"c">>}, !.ops = {"link", "rename"},
               !.kinds = {"file", "dir"}]
XFilling == [XLinking EXCEPT !.ops = {"link"}, !.kinds = {"dir", "link"}]
XWriting == [XMoving EXCEPT !.paths = {<<"a">>, <<"b">>}, !.ops = {}, !.kinds = {"file"},
               !.opens = 2, !.lens = {3}]
XKeeping == [XWriting EXCEPT !.paths = {<<"a">>}, !.ops = {"chmod"}, !.tasks = {1, 2},
               !.opens = 1, !.lens = {1, 2}]
XPrograms == {XMoving, XLinking, XFilling, XWriting, XKeeping}

-----------------------------------------------------------------------------
(* unionfs: over a file, a directory with a file in it, and a symlink          *)

ULower == [p \in {<<"f">>, <<"d">>, <<"d", "f">>, <<"l">>} |->
             [kind |-> CASE p = <<"l">> -> "link" [] p = <<"d">> -> "dir" [] OTHER -> "file",
              to |-> IF p = <<"l">> THEN <<"f">> ELSE <<>>]]
UMoving == [lower |-> ULower, ops |-> {"rename"}, kinds |-> {"file", "dir"}, tasks |-> {1},
  paths |-> {<<"f">>, <<"d">>, <<"d", "f">>, <<"g">>}, routes |-> {1, 2}, opens |-> 0,
  tokens |-> {}, target |-> <<"f">>]
ULinking == [UMoving EXCEPT !.ops = {"link", "set"}, !.kinds = {"file"},
               !.paths = {<<"f">>, <<"d", "f">>, <<"g">>}]
UWriting == [UMoving EXCEPT !.kinds = {}, !.paths = {<<"f">>, <<"g">>}, !.opens = 2,
               !.tokens = {"new"}]
UFollowing == [UWriting EXCEPT !.ops = {}, !.kinds = {"link"}, !.opens = 1, !.tasks = {1, 2},
                 !.routes = {1, 2, 3}, !.paths = {<<"f">>, <<"l">>, <<"g">>, <<"d">>}]
UListing == [UWriting EXCEPT !.ops = {"set"}, !.kinds = {"file"}, !.opens = 1, !.tokens = {},
               !.paths = {<<"d">>, <<"d", "f">>, <<"d", "g">>}]
UPrograms == {UMoving, ULinking, UWriting, UFollowing, UListing}

-----------------------------------------------------------------------------
(* The block driver: calls of every alignment, served by interrupts; a device  *)
(* that fails; one that is slow for a driver that polls; the indexes run over  *)

DCalls == [irq |-> TRUE, flush |-> TRUE, slow |-> FALSE, faulty |-> FALSE, count |-> 2,
  ops |-> {<<"read", 1, 2>>, <<"read", 3, 1>>, <<"buffer", 1, 5>>, <<"buffer", 0, 9>>,
           <<"write", 1, 4>>, <<"write", 2, 2>>, <<"write", 5, 2>>, <<"write", 3, 1>>,
           <<"flush", 0, 0>>}]
DFailing == [DCalls EXCEPT !.faulty = TRUE, !.irq = FALSE, !.flush = FALSE,
  !.ops = {<<"read", 2, 1>>, <<"buffer", 1, 5>>, <<"write", 1, 4>>, <<"read", 6, 1>>}]
DSlow == [DCalls EXCEPT !.irq = FALSE, !.slow = TRUE, !.flush = FALSE,
  !.ops = {<<"read", 2, 2>>, <<"write", 1, 2>>}]
DLasting == [DCalls EXCEPT !.irq = FALSE, !.flush = FALSE, !.count = 9,
  !.ops = {<<"buffer", 0, 2>>, <<"write", 0, 2>>}]
DCaching == [DCalls EXCEPT !.count = 4, !.irq = FALSE,
  !.ops = {<<"read", 2, 1>>, <<"write", 3, 1>>, <<"write", 2, 2>>}]
DPrograms == {DCalls, DFailing, DSlow, DLasting, DCaching}

(* The network driver                                                          *)
KFrames == [arrive |-> 5, kinds |-> {"good", "big"}, send |-> 3, fails |-> {}]
KHurt == [KFrames EXCEPT !.kinds = {"good", "runt"}, !.send = 1, !.arrive = 4,
                         !.fails = {"submit", "memory"}]
KStuck == [KFrames EXCEPT !.arrive = 0, !.fails = {"complete"}]
KPrograms == {KFrames, KHurt, KStuck}

(* The buses: a driver's calls in any order; functions of every shape          *)
BBar(kind, base, size) == [kind |-> kind, base |-> base, size |-> size]
BCap(flag, bar, off, len) == [flag |-> flag, bar |-> bar, off |-> off, len |-> len]
BServing == [
  hw |-> (0 :> BBar("mem64", 32, 8) @@ 1 :> BNone @@ 2 :> BBar("io", 4, 4)),
  caps |-> <<BCap("other", 0, 0, 1), BCap("common", 0, 0, 2), BCap("notify", 0, 2, 2),
             BCap("isr", 2, 0, 1)>>,
  offered |-> {"v1", "flush"}, asks |-> {<<{"v1"}, {"flush", "mac"}>>, <<{"other"}, {}>>},
  refuses |-> TRUE, memory |-> FALSE, junk |-> 0, count |-> 6]
BShapes ==
  {[BServing EXCEPT !.hw = (0 :> a @@ 1 :> b @@ 2 :> c), !.count = 1,
                    !.caps = <<BCap("common", 0, 4, 4), BCap("notify", 1, 0, 8)>>]:
     a \in {BNone, BBar("mem32", 8, 8), BBar("mem64", 64, 32), BBar("mem64", 48, 4),
            BBar("io", 12, 4), BBar("io16", 4, 4)},
     b \in {BNone, BBar("mem32", 4, 4), BBar("mem64", 16, 16)},
     c \in {BNone, BBar("io", 8, 8)}}
BPrograms == {BServing, [BServing EXCEPT !.junk = 2, !.count = 3]} \cup
  {s \in BShapes: \A i \in BIndexes: s.hw[i].kind = "mem64" =>
                    i + 1 \in BIndexes /\ s.hw[i + 1].kind = "none"}

-----------------------------------------------------------------------------
(* USB: two drivers want a disk, one of them resets it, two controllers, devices *)
(* of every shape                                                              *)
GIf(n, c) == [type |-> "if", num |-> n, class |-> c]
GEp(a, k) == [type |-> "ep", addr |-> a, kind |-> k]
GDev == [type |-> "device"]
GCfg == [type |-> "config", over |-> FALSE, value |-> 1]
GBad == [type |-> "bad"]
GDisk == <<GDev, GCfg, GIf(0, "storage"), GEp(1, "out"), GEp(2, "in")>>
GClaimOf(d) == [op |-> "claim", dev |-> d, num |-> 0]
GReleaseOf(d) == [op |-> "release", dev |-> d, num |-> 0]
GOpenOf(d, a, k) == [op |-> "open", dev |-> d, num |-> 0, addr |-> a, want |-> k]
GControlOf(what, a) == [op |-> "control", what |-> what, dev |-> 1, num |-> 0, addr |-> a]
GSharing == [attach |-> {8}, blobs |-> {GDisk}, lens |-> {1}, count |-> 5, results |-> {"ok"},
  fails |-> {}, asks |-> {GClaimOf(1), GOpenOf(1, 1, "any"), GReleaseOf(1)}]
GResetting == [GSharing EXCEPT !.lens = {}, !.count = 4, !.results = {"ok", "unsupported"},
  !.asks = {GClaimOf(1), GOpenOf(1, 1, "out"), GControlOf("reset", 0), GControlOf("clear", 1)}]
GFailing == [GSharing EXCEPT !.fails = {FALSE}, !.lens = {0, 1}, !.count = 4,
  !.results = {"ok", "unsupported"}, !.asks = {GClaimOf(1), GOpenOf(1, 2, "out"), GOpenOf(1, 1, "out")}]
GTwo == [GSharing EXCEPT !.attach = {8, 9}, !.count = 3,
  !.asks = {GClaimOf(1), GClaimOf(2), GOpenOf(1, 1, "any"), GOpenOf(2, 2, "in")}]
GShapes == [GSharing EXCEPT !.count = 1, !.lens = {}, !.asks = {GOpenOf(1, 1, "any")},
  !.blobs = {<<GDev>> \o b: b \in UNION {[1..n -> {GCfg, [GCfg EXCEPT !.over = TRUE],
              GIf(0, "storage"), GIf(1, "storage"), GEp(1, "in"), GBad}]: n \in 0..3}}]
GPrograms == {GSharing, GResetting, GFailing, GTwo, GShapes}

(* The controller: it serves; it is slow, fails, runs out; an endpoint is listed twice *)
HAddr(n, in, k) == [n |-> n, in |-> in, kind |-> k]
HWorkOf(a) == [kind |-> "transfer", mine |-> TRUE, addr |-> a]
HControl == [kind |-> "control", mine |-> TRUE]
HServing == [ports |-> {2}, running |-> TRUE, unplug |-> FALSE, codes |-> {"success"},
  config |-> <<HAddr(1, FALSE, "bulk"), HAddr(1, TRUE, "bulk")>>, slow |-> FALSE, events |-> 2,
  works |-> {HWorkOf(HAddr(1, TRUE, "bulk")), HControl}, count |-> 4, memory |-> {}]
HHurt == [HServing EXCEPT !.codes = {"success", "short", "stall"}, !.events = 0, !.count = 3,
  !.slow = TRUE, !.unplug = TRUE, !.memory = {TRUE},
  !.works = @ \cup {[HControl EXCEPT !.mine = FALSE], HWorkOf(HAddr(3, TRUE, "bulk"))}]
HLate == [HServing EXCEPT !.slow = TRUE, !.events = 1, !.running = FALSE, !.ports = {1, 2},
                          !.count = 3]
HDouble == [HServing EXCEPT !.slow = TRUE, !.events = 0,
  !.config = <<HAddr(1, TRUE, "bulk"), HAddr(1, FALSE, "intr"), HAddr(1, TRUE, "bulk")>>]
HPrograms == {HServing, HHurt, HLate, HDouble, [HServing EXCEPT !.ports = {}],
              [HServing EXCEPT !.config = <<>>]}

(* The disk and the keyboard: requests of every alignment; faults of every kind *)
JPlain == [blob |-> GDisk, faults |-> {}, hurts |-> 0, count |-> 2, reports |-> {},
  ops |-> {<<"read", 1, 3>>, <<"read", 3, 4>>, <<"write", 0, 2>>, <<"write", 1, 2>>,
           <<"write", 1, 1>>, <<"write", 3, 2>>, <<"read", 4, 1>>}]
JFaulty == [JPlain EXCEPT !.hurts = 2, !.ops = {<<"write", 1, 1>>, <<"read", 0, 3>>},
  !.faults = {"lost", "late", "refuse", "old", "empty", "control", "short"}]
JTyping == [JPlain EXCEPT !.ops = {}, !.count = 3,
  !.blob = <<GDev, GCfg, GIf(0, "keyboard"), GEp(1, "intr")>>,
  !.reports = [keys: {<<0, 0>>, <<4, 0>>, <<4, 5>>, <<5, 4>>, <<1, 1>>},
               mods: {{}, {0}, {0, 1}}]]
JBlobs == {[JPlain EXCEPT !.count = 0, !.blob = <<GDev, GCfg>> \o b]:
  b \in UNION {[1..n -> {GIf(0, "storage"), GIf(1, "storage"), GIf(1, "keyboard"),
                         GEp(1, "in"), GEp(2, "out"), GEp(3, "intr"), GBad}]: n \in 3..4}}
JPrograms == {JPlain, JFaulty, JTyping} \cup {j \in JBlobs: JStorageWalk(j.blob).ok}

-----------------------------------------------------------------------------
ServersInit ==
  /\ part \in {"net", "tmpfs", "vfs", "ext2", "unionfs", "block", "nic", "bus",
               "usb", "xhci", "usbdisk"}
  /\ NInit /\ (part # "net" => ndoes = Routing)
  /\ TInit /\ (part # "tmpfs" => tdoes = TMoving)
  /\ VInit /\ (part # "vfs" => vdoes = VWalking)
  /\ XInit /\ (part # "ext2" => xdoes = XMoving)
  /\ UInit /\ (part # "unionfs" => udoes = UMoving)
  /\ DInit /\ (part # "block" => ddoes = DSlow)
  /\ KInit /\ (part # "nic" => kdoes = KStuck)
  /\ BInit /\ (part # "bus" => bdoes = BServing)
  /\ GInit /\ (part # "usb" => gdoes = GTwo)
  /\ HInit /\ (part # "xhci" => hdoes = HServing)
  /\ JInit /\ (part # "usbdisk" => jdoes = JPlain)
ServersNext ==
  \/ /\ part = "net" /\ NNext
     /\ UNCHANGED <<tvars, vvars, xvars, uvars, dvars, kvars, bvars, gvars, hvars, jvars, part>>
  \/ /\ part = "tmpfs" /\ TNext
     /\ UNCHANGED <<nvars, vvars, xvars, uvars, dvars, kvars, bvars, gvars, hvars, jvars, part>>
  \/ /\ part = "vfs" /\ VNext
     /\ UNCHANGED <<nvars, tvars, xvars, uvars, dvars, kvars, bvars, gvars, hvars, jvars, part>>
  \/ /\ part = "ext2" /\ XNext
     /\ UNCHANGED <<nvars, tvars, vvars, uvars, dvars, kvars, bvars, gvars, hvars, jvars, part>>
  \/ /\ part = "unionfs" /\ UNext
     /\ UNCHANGED <<nvars, tvars, vvars, xvars, dvars, kvars, bvars, gvars, hvars, jvars, part>>
  \/ /\ part = "block" /\ DNext
     /\ UNCHANGED <<nvars, tvars, vvars, xvars, uvars, kvars, bvars, gvars, hvars, jvars, part>>
  \/ /\ part = "nic" /\ KNext
     /\ UNCHANGED <<nvars, tvars, vvars, xvars, uvars, dvars, bvars, gvars, hvars, jvars, part>>
  \/ /\ part = "bus" /\ BNext
     /\ UNCHANGED <<nvars, tvars, vvars, xvars, uvars, dvars, kvars, gvars, hvars, jvars, part>>
  \/ /\ part = "usb" /\ GNext
     /\ UNCHANGED <<nvars, tvars, vvars, xvars, uvars, dvars, kvars, bvars, hvars, jvars, part>>
  \/ /\ part = "xhci" /\ HNext
     /\ UNCHANGED <<nvars, tvars, vvars, xvars, uvars, dvars, kvars, bvars, gvars, jvars, part>>
  \/ /\ part = "usbdisk" /\ JNext
     /\ UNCHANGED <<nvars, tvars, vvars, xvars, uvars, dvars, kvars, bvars, gvars, hvars, part>>
ServersSpec ==
  ServersInit
  /\ [][ServersNext]_<<nvars, tvars, vvars, xvars, uvars, dvars, kvars, bvars, gvars, hvars,
                      jvars, part>>

\* The type invariants of the servers and the drivers
ServersTypeOK ==
  CASE part = "net" -> NetTypeOK
    [] part = "tmpfs" -> TmpfsTypeOK
    [] part = "vfs" -> VfsTypeOK
    [] part = "ext2" -> Ext2TypeOK
    [] part = "unionfs" -> UnionTypeOK
    [] part = "block" -> BlockTypeOK
    [] part = "nic" -> NicTypeOK
    [] part = "bus" -> BusTypeOK
    [] part = "usb" -> UsbTypeOK
    [] part = "xhci" -> XhciTypeOK
    [] part = "usbdisk" -> UsbDriversTypeOK

\* A stream is read as the peer sent it, and sent as it was written
StreamsSound == part = "net" => ReadsTheStream /\ SendsInOrder

\* What the file servers promise of names, inodes, handles, blocks, layers, mounts
\* and the resolution of paths
FilesSound ==
  /\ part = "tmpfs" => TmpfsSound
  /\ part = "vfs" => VfsSound
  /\ part = "ext2" => Ext2Sound
  /\ part = "unionfs" => UnionSound

\* What the drivers promise: a block read returns what was written and a completion is
\* not slept through; frames and receive buffers are neither lost nor doubled; devices
\* are sized, granted and reset without leaving them an address that was given back; a USB
\* transfer is told once, to the driver that submitted it, and as it went; a USB disk holds
\* what was written to it, through commands that fail and are repeated
DevicesSound ==
  /\ part = "block" => BlockSound
  /\ part = "nic" => NicSound
  /\ part = "bus" => BusSound
  /\ part = "usb" => UsbSound
  /\ part = "xhci" => XhciSound
  /\ part = "usbdisk" => UsbDriversSound
=============================================================================
