----------------------------- MODULE UsbDrivers -----------------------------
(* The drivers behind the USB bus: mass storage (user/usb-storage), which wraps *)
(* each command of a disk in a command block, its data and a status, and serves *)
(* blocks; and the keyboard (user/usb-hid-kbd).  The disk, with the stack that  *)
(* carries a transfer to it, is external.                                       *)
EXTENDS UsbBus

CONSTANTS
  JBlock,       \* the block size
  JMost,        \* sizeof(storage_buffer)
  JScenarios    \* [blob, faults, hurts, ops, count, reports]

VARIABLES
  disk,         \* the storage driver
  unit,         \* the disk
  kbd,          \* the keyboard driver
  jdoes         \* the scenario
jvars == <<disk, unit, kbd, jdoes>>

JBytes == 0..2 * JBlock - 1              \* the disk has two blocks
JIdle == [op |-> "none"]
JZero == [i \in 0..JBlock - 1 |-> 0]

-----------------------------------------------------------------------------
(* Finding a device: both drivers walk the descriptors                          *)

\* claim_storage_from_descriptor: the last interface of the class, and the last bulk
\* endpoint each way of any interface of the class
JStorageStep(s, e) ==
  CASE ~s.ok \/ e.type = "bad" -> [s EXCEPT !.ok = FALSE]
    [] e.type = "if" -> [s EXCEPT !.mine = e.class = "storage",
                                  !.num = IF e.class = "storage" THEN e.num ELSE @]
    [] e.type = "ep" /\ s.mine /\ e.kind = "in" -> [s EXCEPT !.in = e.addr]
    [] e.type = "ep" /\ s.mine /\ e.kind = "out" -> [s EXCEPT !.out = e.addr]
    [] OTHER -> s
JStorageWalk(blob) ==
  LET s == FoldLeft(JStorageStep, [ok |-> TRUE, mine |-> FALSE, num |-> -1, in |-> 0, out |-> 0],
                    blob)
  IN  [s EXCEPT !.ok = @ /\ s.num # -1 /\ s.in # 0 /\ s.out # 0]
\* claim_keyboard_from_descriptor
JKeyboardStep(s, e) ==
  CASE ~s.ok \/ e.type = "bad" -> [s EXCEPT !.ok = FALSE]
    [] e.type = "if" -> [s EXCEPT !.mine = e.class = "keyboard",
                                  !.num = IF e.class = "keyboard" THEN e.num ELSE @]
    [] e.type = "ep" /\ s.mine /\ e.kind = "intr" -> [s EXCEPT !.in = e.addr]
    [] OTHER -> s
JKeyboardWalk(blob) ==
  LET s == FoldLeft(JKeyboardStep, [ok |-> TRUE, mine |-> FALSE, num |-> -1, in |-> 0], blob)
  IN  [s EXCEPT !.ok = @ /\ s.num # -1 /\ s.in # 0]
\* what the bus would make of the opening of an endpoint of the claimed interface
JOpens(blob, num, addr, kind) ==
  LET d == GParse(blob, 0)
      e == GFirst({i \in DOMAIN d.eps: d.eps[i].num = num /\ d.eps[i].addr = addr})
  IN  e # 0 /\ d.eps[e].kind = kind

JInit ==
  /\ jdoes \in JScenarios
  /\ disk = [pc |-> "scan", ready |-> FALSE, tag |-> 1, step |-> 0, req |-> JIdle, done |-> 0,
             got |-> <<>>, main |-> JZero, scratch |-> JZero, size |-> 0,
             cmd |-> JIdle, try |-> 0, phase |-> "cbw", served |-> 0, astray |-> FALSE]
  /\ unit = [bytes |-> [b \in JBytes |-> 1], phase |-> "cbw", cmd |-> JIdle, hurt |-> 0,
             sure |-> [b \in JBytes |-> 1], fooled |-> FALSE, wrong |-> FALSE]   \* ghosts
  /\ kbd = [pc |-> "scan", keys |-> <<0, 0>>, mods |-> {}, down |-> {}, seen |-> 0,
            last |-> [keys |-> <<0, 0>>, mods |-> {}]]

-----------------------------------------------------------------------------
(* A command of the disk: bot_command                                          *)

JStart(d, cmd) == [d EXCEPT !.pc = "command", !.cmd = cmd, !.try = 1, !.phase = "cbw"]
JRecover(d) == [d EXCEPT !.pc = "recover", !.phase = "reset"]

\* scsi_inquiry, scsi_read_capacity, scsi_read_blocks, scsi_write_blocks
JInquiry == [op |-> "inquiry"]
JCapacity == [op |-> "capacity"]
JRead(lba) == [op |-> "read", lba |-> lba]
JWrite(lba, block) == [op |-> "write", lba |-> lba, block |-> block]

JAnswer(d, u, ok) ==
  LET r == d.req
      range == {b \in JBytes: r.off <= b /\ b < r.off + r.len}
      told == [u EXCEPT
        !.wrong = @ \/ (ok /\ r.op # "write" /\
                        \E b \in range: u.sure[b] \notin {-1, d.got[b - r.off + 1]}),
        !.sure = [b \in JBytes |-> IF r.op # "write" \/ b \notin range THEN @[b]
                                   ELSE IF ok THEN r.value ELSE -1]]
  IN  <<[d EXCEPT !.pc = "idle", !.req = JIdle, !.cmd = JIdle, !.got = <<>>], told>>

\* storage_read_bytes and storage_write_bytes: the next piece of a request, which for a
\* write is read first when it is less than a block
JAt(d) == (d.req.off + d.done) \div JBlock
JIn(d) == (d.req.off + d.done) % JBlock
JChunk(d) == Min({JBlock - JIn(d), d.req.len - d.done})
JMerged(d) ==
  [i \in 0..JBlock - 1 |-> IF JIn(d) <= i /\ i < JIn(d) + JChunk(d) THEN d.req.value
                           ELSE d.scratch[i]]
\* a block is written without what is around the piece
JPiece_NotRead(d, u) ==
  IF d.done >= d.req.len THEN JAnswer(d, u, TRUE)
  ELSE IF d.req.op = "write" THEN <<JStart(d, JWrite(JAt(d), JMerged(d))), u>>
  ELSE <<JStart(d, JRead(JAt(d))), u>>
JPiece(d, u) ==
  IF d.done >= d.req.len THEN JAnswer(d, u, TRUE)
  ELSE IF d.req.op = "write" /\ JChunk(d) = JBlock
  THEN <<JStart([d EXCEPT !.scratch = JMerged(d)], JWrite(JAt(d), JMerged(d))), u>>
  ELSE <<JStart(d, JRead(JAt(d))), u>>
\* a command of a request is over
JPieceDone(d, u) ==
  IF d.req.op = "write" /\ d.cmd.op = "read"
  THEN <<JStart([d EXCEPT !.scratch = JMerged(d)], JWrite(JAt(d), JMerged(d))), u>>
  ELSE IF d.req.op = "write" THEN JPiece([d EXCEPT !.done = @ + JChunk(d)], u)
  ELSE JPiece([d EXCEPT !.done = @ + JChunk(d),
                        !.got = @ \o [i \in 1..JChunk(d) |-> d.scratch[JIn(d) + i - 1]]], u)

\* initialize_storage and storage_smoke: block 0 is read, changed, read back and restored
JFlip(block) == [block EXCEPT ![0] = @ + 10]
JInitialize(d, u) ==
  LET e == [d EXCEPT !.step = @ + 1] IN
  CASE d.step = 0 -> <<JStart(e, JInquiry), u>>
    [] d.step = 1 -> <<JStart(e, JCapacity), u>>
    [] d.step = 2 -> IF d.size = 0 THEN <<[d EXCEPT !.pc = "dead"], u>>
                     ELSE <<JStart(e, JRead(0)), u>>
    [] d.step = 3 -> <<JStart([e EXCEPT !.scratch = d.main, !.main = JFlip(d.main)],
                              JWrite(0, JFlip(d.main))), u>>
    [] d.step = 4 -> <<JStart(e, JRead(0)), u>>
    [] d.step = 5 -> IF d.main[0] = JFlip(d.scratch)[0] THEN <<JStart(e, JWrite(0, d.scratch)), u>>
                     ELSE <<[d EXCEPT !.pc = "dead"], [u EXCEPT !.sure[0] = -1]>>
    [] d.step = 6 -> <<JRecover([e EXCEPT !.try = 3]), u>>
    [] d.step = 7 -> <<JStart(e, JInquiry), u>>
    [] OTHER -> <<[d EXCEPT !.pc = "idle", !.ready = TRUE, !.req = JIdle, !.cmd = JIdle], u>>

JOver(d, u, ok) ==
  IF d.req.op = "init"
  THEN IF ok THEN JInitialize(d, u)
       ELSE <<[d EXCEPT !.pc = "dead"], [u EXCEPT !.sure[0] = IF d.step \in 4..6 THEN -1 ELSE @]>>
  ELSE IF ok THEN JPieceDone(d, u) ELSE JAnswer(d, u, FALSE)

-----------------------------------------------------------------------------
(* Transfers                                                                   *)

JBuffer(d, block) ==
  CASE d.cmd.op = "capacity" -> [d EXCEPT !.size = block[0]]
    [] d.cmd.op = "read" /\ d.req.op = "init" -> [d EXCEPT !.main = block]
    [] d.cmd.op = "read" /\ d.req.op # "init" -> [d EXCEPT !.scratch = block]
    [] OTHER -> d
JOld(d) == IF d.req.op = "init" THEN d.main ELSE d.scratch
JFault(f) == f \in jdoes.faults /\ unit.hurt < jdoes.hurts
JHurt(u) == [u EXCEPT !.hurt = @ + 1]

\* the disk takes a command block, if it expects one
JTaken(u, c) == [u EXCEPT !.phase = "data", !.cmd = c]
\* bot_command_once, the command block
JCbw ==
  /\ disk.pc = "command" /\ disk.phase = "cbw"
  /\ LET d == [disk EXCEPT !.tag = @ + 1] IN
     \/ /\ unit.phase = "cbw"
        /\ disk' = [d EXCEPT !.phase = "data"] /\ unit' = JTaken(unit, d.cmd)
     \/ /\ unit.phase # "cbw" /\ disk' = JRecover(d) /\ UNCHANGED unit
     \/ /\ JFault("lost") /\ disk' = JRecover(d) /\ unit' = JHurt(unit)
     \/ /\ JFault("late") /\ unit.phase = "cbw"
        /\ disk' = JRecover(d) /\ unit' = JHurt(JTaken(unit, d.cmd))
  /\ UNCHANGED <<kbd, jdoes>>

\* the data, as the disk has it and as it leaves it
JBlockAt(u, c) ==
  [i \in 0..JBlock - 1 |-> IF c.op = "read" THEN u.bytes[c.lba * JBlock + i] ELSE JBlock]
JMoved(u, c) ==
  [u EXCEPT !.phase = "csw",
            !.bytes = [b \in JBytes |-> IF c.op = "write" /\ b \div JBlock = c.lba
                                        THEN c.block[b % JBlock] ELSE @[b]]]
\* bot_command_once, the data: a short read passes, a short write does not; a transfer
\* may be said to be over that did not happen
JData ==
  /\ disk.pc = "command" /\ disk.phase = "data"
  /\ LET c == disk.cmd  d == [disk EXCEPT !.phase = "csw"]  in == c.op # "write" IN
     \/ /\ unit.phase = "data" /\ unit' = JMoved(unit, c)
        /\ disk' = JBuffer(d, JBlockAt(unit, c))
     \/ /\ JFault("lost") /\ disk' = JRecover(disk) /\ unit' = JHurt(unit)
     \/ /\ JFault("late") /\ disk' = JRecover(disk) /\ unit' = JHurt(JMoved(unit, c))
     \/ /\ JFault("short") /\ c.op = "read"
        /\ disk' = JBuffer(d, [JOld(disk) EXCEPT ![0] = JBlockAt(unit, c)[0]])
        /\ unit' = [JHurt(JMoved(unit, c)) EXCEPT !.fooled = TRUE]
     \/ /\ JFault("short") /\ c.op = "write"
        /\ disk' = JRecover(disk) /\ unit' = JHurt(unit)
     \/ /\ JFault("empty") /\ in
        /\ disk' = JBuffer(d, JZero) /\ unit' = [JHurt(JMoved(unit, c)) EXCEPT !.fooled = TRUE]
  /\ UNCHANGED <<kbd, jdoes>>

\* bot_command_once, the status: its signature, its tag, that it is good
JGood_AnyTag(csw) == csw.signed /\ csw.good
JGood(csw) == csw.signed /\ csw.tag + 1 = disk.tag /\ csw.good
JGotStatus(csw, u) ==
  LET o == JOver(disk, u, TRUE) IN
  IF JGood(csw) THEN disk' = o[1] /\ unit' = o[2] ELSE disk' = JRecover(disk) /\ unit' = u
JStatus ==
  /\ disk.pc = "command" /\ disk.phase = "csw" /\ UNCHANGED <<kbd, jdoes>>
  /\ LET good == [signed |-> TRUE, tag |-> disk.tag - 1, good |-> TRUE]
         after == [unit EXCEPT !.phase = "cbw"]
     IN  \/ unit.phase = "csw" /\ JGotStatus(good, after)
         \/ JFault("refuse") /\ JGotStatus([good EXCEPT !.good = FALSE], JHurt(after))
         \/ JFault("old") /\ JGotStatus([good EXCEPT !.tag = @ - 1], JHurt(unit))
         \/ JFault("empty") /\ JGotStatus([good EXCEPT !.signed = FALSE], JHurt(unit))
         \/ JFault("lost") /\ disk' = JRecover(disk) /\ unit' = JHurt(unit)
         \/ JFault("late") /\ disk' = JRecover(disk) /\ unit' = JHurt(after)

\* bot_recover: the reset, then the halts of both endpoints
JAfterReset == [reset |-> "clearin", clearin |-> "clearout", clearout |-> "over"]
JRecovering ==
  /\ disk.pc = "recover" /\ UNCHANGED <<kbd, jdoes>>
  /\ \/ LET next == JAfterReset[disk.phase]
            u == IF disk.phase = "reset" THEN [unit EXCEPT !.phase = "cbw"] ELSE unit
            well == [disk EXCEPT !.astray = FALSE]
            o == IF disk.try = 3 THEN JOver(well, u, TRUE) ELSE JOver(well, u, FALSE)
        IN  IF next # "over" THEN disk' = [disk EXCEPT !.phase = next] /\ unit' = u
            ELSE IF disk.try = 1
            THEN disk' = [well EXCEPT !.pc = "command", !.phase = "cbw", !.try = 2] /\ unit' = u
            ELSE disk' = o[1] /\ unit' = o[2]
     \/ /\ JFault("control")
        /\ LET o == JOver([disk EXCEPT !.astray = TRUE], JHurt(unit), FALSE) IN
           disk' = o[1] /\ unit' = o[2]

-----------------------------------------------------------------------------
(* main of the storage driver                                                  *)

\* scan_for_storage: a handle that could not be had is -1, not 0, and is not tried again
JScan ==
  /\ disk.pc = "scan" /\ UNCHANGED <<kbd, jdoes>>
  /\ LET w == JStorageWalk(jdoes.blob)
         opened == /\ JOpens(jdoes.blob, w.num, w.in, "in")
                   /\ JOpens(jdoes.blob, w.num, w.out, "out")
         o == JInitialize([disk EXCEPT !.req = [op |-> "init"]], unit)
     IN  /\ GParse(jdoes.blob, 0).ok /\ w.ok
         /\ IF opened THEN disk' = o[1] /\ unit' = o[2]
            ELSE disk' = [disk EXCEPT !.pc = "dead"] /\ UNCHANGED unit

\* maybe_register_block, handle_block_message: lengths are cut to the disk and the buffer,
\* but a write beyond the disk is refused
JCut(off, len) == Min({IF off >= 2 * JBlock THEN 0 ELSE Min({len, 2 * JBlock - off}), JMost})
JServe ==
  /\ disk.pc = "idle" /\ disk.ready /\ disk.served < jdoes.count /\ UNCHANGED <<kbd, jdoes>>
  /\ \E q \in jdoes.ops:
       LET r == [op |-> q[1], off |-> q[2], value |-> disk.served + 2,
                 len |-> IF q[1] = "write" THEN Min({q[3], JMost}) ELSE JCut(q[2], q[3])]
           d == [disk EXCEPT !.served = @ + 1]
           o == JPiece([d EXCEPT !.req = r, !.done = 0], unit)
       IN  IF q[1] = "write" /\ q[2] + q[3] > 2 * JBlock THEN disk' = d /\ UNCHANGED unit
           ELSE disk' = o[1] /\ unit' = o[2]

-----------------------------------------------------------------------------
(* The keyboard                                                                *)

\* scan_for_keyboard
JFindKeyboard ==
  /\ kbd.pc = "scan" /\ UNCHANGED <<disk, unit, jdoes>>
  /\ GParse(jdoes.blob, 0).ok /\ JKeyboardWalk(jdoes.blob).ok
  /\ kbd' = [kbd EXCEPT !.pc = "poll"]

\* send_key_event, as the input server keeps count of the keys that are down
JSend(down, e) == IF e[2] THEN down \cup {e[1]} ELSE down \ {e[1]}
\* parse_boot_report: modifiers, then the keys let go, then the keys pressed
JEvents(k, r) ==
  SetToSeq({<<100 + b, b \in r.mods>>: b \in SymDiff(k.mods, r.mods)})
  \o [i \in DOMAIN SelectSeq(k.keys, LAMBDA u: u # 0 /\ u \notin Range(r.keys)) |->
        <<SelectSeq(k.keys, LAMBDA u: u # 0 /\ u \notin Range(r.keys))[i], FALSE>>]
  \o [i \in DOMAIN SelectSeq(r.keys, LAMBDA u: u # 0 /\ u \notin Range(k.keys)) |->
        <<SelectSeq(r.keys, LAMBDA u: u # 0 /\ u \notin Range(k.keys))[i], TRUE>>]
JParseReport_KeepsModifiers(k, r) ==
  [k EXCEPT !.down = FoldLeft(JSend, @, JEvents(k, r)), !.keys = r.keys, !.last = r]
JParseReport(k, r) ==
  [k EXCEPT !.down = FoldLeft(JSend, @, JEvents(k, r)), !.keys = r.keys, !.mods = r.mods,
            !.last = r]
\* poll_keyboard_endpoint: a transfer that failed or is short changes nothing
JPollKeyboard ==
  /\ kbd.pc = "poll" /\ kbd.seen < jdoes.count /\ UNCHANGED <<disk, unit, jdoes>>
  /\ \E r \in jdoes.reports: kbd' = [JParseReport(kbd, r) EXCEPT !.seen = @ + 1]

JNext ==
  \/ JScan \/ JCbw \/ JData \/ JStatus \/ JRecovering \/ JServe
  \/ JFindKeyboard \/ JPollKeyboard
JSpec == JInit /\ [][JNext]_jvars

-----------------------------------------------------------------------------
(* What could go wrong                                                         *)

\* Type invariant of the USB drivers
UsbDriversTypeOK ==
  /\ disk.try \in 0..3 /\ disk.step \in 0..8 /\ disk.tag \in Nat /\ disk.done \in Nat
  /\ unit.phase \in {"cbw", "data", "csw"} /\ DOMAIN unit.bytes = JBytes
  /\ kbd.mods \subseteq {0, 1} /\ Len(kbd.keys) = 2

JClassed(class) == {i \in DOMAIN jdoes.blob: jdoes.blob[i].type = "if" /\ jdoes.blob[i].class = class}
JNumbered(class) ==
  /\ Cardinality(JClassed(class)) = 1
  /\ \A i, j \in DOMAIN jdoes.blob:
       jdoes.blob[i].type = "if" /\ jdoes.blob[j].type = "if" /\ i # j
         => jdoes.blob[i].num # jdoes.blob[j].num

\* What the drivers promise.  (1) Between requests the disk holds what the writes that
\* were answered well put there, and the test of initialize_storage has put back what it
\* changed; a write that failed may have changed its own bytes and no others, for all that
\* a block is read and written whole.  (2) A read answers what the disk holds.  Both but
\* for data said to have come that did not: bot_command_once checks no length of a read.
\* (3) A command is over for the driver only when it is for the disk, unless it could not
\* recover.  (4) The keys the input server takes to be down are those of the last report.
\* (5) A driver that found its interface in the descriptors the bus accepted can open its
\* endpoints there, if the interface is the only one of its class and number.
UsbDriversSound ==
  /\ disk.pc \in {"idle", "dead"} /\ ~unit.fooled =>
       \A b \in JBytes: unit.sure[b] \in {-1, unit.bytes[b]}
  /\ ~unit.fooled => ~unit.wrong
  /\ disk.pc = "idle" /\ ~disk.astray => unit.phase = "cbw"
  /\ kbd.down = (Range(kbd.last.keys) \ {0}) \cup {100 + b: b \in kbd.last.mods}
  /\ LET b == jdoes.blob  w == JStorageWalk(b)  k == JKeyboardWalk(b) IN
     GParse(b, 0).ok =>
       /\ w.ok /\ JNumbered("storage") => JOpens(b, w.num, w.in, "in") /\ JOpens(b, w.num, w.out, "out")
       /\ k.ok /\ JNumbered("keyboard") => JOpens(b, k.num, k.in, "intr")
=============================================================================
