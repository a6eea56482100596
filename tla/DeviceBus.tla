----------------------------- MODULE DeviceBus ------------------------------
(* The PCI server (user/pci), the kernel's grants of device resources          *)
(* (arch/x86_64/user.c) and the virtio bus (user/virtio-bus), which scans a    *)
(* function and then serves its driver: negotiation, queues, notification,     *)
(* reset.  A register has BWord values, its two lowest bits the flags of a     *)
(* base address register (BAR): 1 for ports, 2 for a 64-bit memory BAR, whose  *)
(* upper half is the next register.  The function itself is external.          *)
EXTENDS Integers, Sequences, SequencesExt

CONSTANTS
  BWord,        \* 2^32
  BPorts,       \* 2^16, what a function that decodes 16 bits of ports implements
  BBars,        \* PCI_MAX_BARS
  BMaxResources,  \* VIRTIO_BUS_MAX_RESOURCES
  BQueues,      \* VIRTIO_BUS_MAX_QUEUES, as a set
  BScenarios    \* [hw, caps, offered, asks, refuses, junk, memory, count]

VARIABLES
  bus,          \* the function's registers, the servers and the handles
  bdoes         \* the scenario
bvars == <<bus, bdoes>>

BIndexes == 0..BBars - 1
BNone == [kind |-> "none", base |-> 0, size |-> 0]

-----------------------------------------------------------------------------
(* The function: what its registers hold, and what they keep of all ones       *)

BFlags == [none |-> 0, mem32 |-> 0, mem64 |-> 2, io |-> 1, io16 |-> 1]
BUpper(hw, i) == i > 0 /\ hw[i - 1].kind = "mem64"
BRegister(hw, i) ==
  IF BUpper(hw, i) THEN hw[i - 1].base \div BWord
  ELSE (hw[i].base % BWord) + BFlags[hw[i].kind]
BOnes(hw, i) ==
  CASE BUpper(hw, i) -> (BWord * BWord - hw[i - 1].size) \div BWord
    [] ~BUpper(hw, i) /\ hw[i].kind = "none" -> 0
    [] hw[i].kind = "mem64" -> ((BWord * BWord - hw[i].size) % BWord) + 2
    [] hw[i].kind = "io16" -> BPorts - hw[i].size + 1
    [] OTHER -> BWord - hw[i].size + BFlags[hw[i].kind]
\* pci_config_write32_raw: all ones, or the value that was there
BWrite(regs, i, value) ==
  [regs EXCEPT ![i] = IF value = BWord - 1 THEN BOnes(bdoes.hw, i) ELSE value]

-----------------------------------------------------------------------------
(* BARs                                                                        *)

BIs64(raw) == raw % 4 = 2
BBase(value) == value - (value % 4)
BSized_UpperLost(regs, i) ==
  LET raw == regs[i]
      wide == BIs64(raw)
      up == IF wide THEN BWrite(regs, i + 1, BWord - 1) ELSE regs
      ones == BWrite(up, i, BWord - 1) IN
  [raw |-> raw, high |-> IF wide THEN regs[i + 1] ELSE 0,
   mask |-> ones[i], maskHigh |-> IF wide THEN ones[i + 1] ELSE 0,
   regs |-> BWrite(ones, i, raw)]
\* All ones are written, upper half first, the masks read, and what was there is put
\* back, lower half first
BSized(regs, i) ==
  LET raw == regs[i]
      wide == BIs64(raw)
      up == IF wide THEN BWrite(regs, i + 1, BWord - 1) ELSE regs
      ones == BWrite(up, i, BWord - 1)
      back == BWrite(ones, i, raw) IN
  [raw |-> raw, high |-> IF wide THEN regs[i + 1] ELSE 0,
   mask |-> ones[i], maskHigh |-> IF wide THEN ones[i + 1] ELSE 0,
   regs |-> IF wide THEN BWrite(back, i + 1, regs[i + 1]) ELSE back]
BRange_KeepsFlags(p) ==
  [type |-> IF p.raw % 2 = 1 THEN "port" ELSE "mmio", base |-> BBase(p.raw),
   len |-> (BWord - p.mask) % BWord]
\* The range a BAR decodes, from its value and its mask
BRange(p) ==
  IF BIs64(p.raw)
  THEN [type |-> "mmio", base |-> p.high * BWord + BBase(p.raw),
        len |-> (BWord * BWord - (p.maskHigh * BWord + BBase(p.mask))) % (BWord * BWord)]
  ELSE [type |-> IF p.raw % 2 = 1 THEN "port" ELSE "mmio", base |-> BBase(p.raw),
        len |-> (BWord - BBase(p.mask)) % BWord]
BNoRange == [type |-> "none", base |-> 0, len |-> 0]

\* scan_bars of the PCI server, over a function's registers
BScanBar(s, i) ==
  IF s.skip THEN [s EXCEPT !.skip = FALSE]
  ELSE IF s.regs[i] = 0 \/ (BIs64(s.regs[i]) /\ i + 1 >= BBars) THEN s
  ELSE LET p == BSized(s.regs, i) IN
       IF p.mask = 0 THEN [s EXCEPT !.regs = p.regs]
       ELSE [regs |-> p.regs, skip |-> BIs64(p.raw), bars |-> [s.bars EXCEPT ![i] = BRange(p)]]
BScanBars(regs) ==
  FoldLeft(BScanBar, [regs |-> regs, skip |-> FALSE, bars |-> [i \in BIndexes |-> BNoRange]],
           [n \in 1..BBars |-> n - 1])

\* pci_bar_info of the kernel, for each grant
BBarInfo(regs, i) ==
  IF regs[i] = 0 \/ (BIs64(regs[i]) /\ i + 1 >= BBars)
  THEN [regs |-> regs, range |-> BNoRange]
  ELSE LET p == BSized(regs, i) IN
       [regs |-> p.regs,
        range |-> IF p.mask \in {0, BWord - 1} \/ BRange(p).len = 0 THEN BNoRange
                  ELSE BRange(p)]

\* native_sys_hw_pci_bar_grant: a handle for part of a BAR, or 0
BBarGrant(b, i, off, len) ==
  LET info == BBarInfo(b.regs, i)
      s == [b EXCEPT !.regs = info.regs] IN
  IF len = 0 \/ info.range.type = "none" \/ off > info.range.len \/ len > info.range.len - off
  THEN [s EXCEPT !.last = 0]
  ELSE [s EXCEPT !.last = b.next, !.next = @ + 1, !.open = @ \cup {b.next},
                 !.granted = @ \cup {[info.range EXCEPT !.base = @ + off, !.len = len]}]

\* reply_bar of the PCI server: within the BAR as scanned; a failed grant is a reply
\* without a handle
BBarOK(b, i, off, len) ==
  /\ i \in BIndexes /\ b.bars[i].type # "none"
  /\ off <= b.bars[i].len /\ len <= b.bars[i].len - off
BReplyBar(b, i, off, len) == BBarGrant(b, i, off, len)

-----------------------------------------------------------------------------
(* The scan of a virtio function                                               *)

\* resource_add
BAdd(b, i, flag, range) ==
  IF range.len = 0 \/ Len(b.res) >= BMaxResources THEN b
  ELSE [b EXCEPT !.res = Append(@, [index |-> i, flag |-> flag, handle |-> b.last,
                                    range |-> range])]
\* scan_pci_bars
BAddBar(b, i) ==
  IF ~BBarOK(b, i, 0, b.bars[i].len) THEN b
  ELSE BAdd(BReplyBar(b, i, 0, b.bars[i].len), i, "bar", b.bars[i])
\* scan_virtio_capabilities: a configuration structure in a BAR that was found
BAddCap(b, cap) ==
  LET at == {k \in DOMAIN b.res: b.res[k].index = cap.bar}
      first == b.res[CHOOSE k \in at: \A l \in at: k <= l] IN
  IF cap.flag = "other" \/ at = {} \/ ~BBarOK(b, cap.bar, cap.off, cap.len) THEN b
  ELSE BAdd(BReplyBar(b, cap.bar, cap.off, cap.len), cap.bar, cap.flag,
            [type |-> first.range.type, base |-> first.range.base + cap.off,
             len |-> cap.len])
\* scan_pci_function; the record's queues are not initialised
BScanFunction(b) ==
  LET bars == FoldLeft(BAddBar, b, [n \in 1..BBars |-> n - 1]) IN
  [FoldLeft(BAddCap, bars, bdoes.caps) EXCEPT !.pc = "serve",
     !.queues = [q \in BQueues |-> bdoes.junk]]

BInit ==
  /\ bdoes \in BScenarios
  /\ bus = [regs |-> [i \in BIndexes |-> BRegister(bdoes.hw, i)],
            bars |-> [i \in BIndexes |-> BNoRange], res |-> <<>>, granted |-> {},
            open |-> {}, next |-> 1, last |-> 0, pc |-> "pci", count |-> 0,
            queues |-> [q \in BQueues |-> 0], negotiated |-> {},
            status |-> {}, features |-> {}, enabled |-> [q \in BQueues |-> 0],
            rung |-> {}]

-----------------------------------------------------------------------------
(* The virtio bus's service                                                    *)

\* resource_find_flag, and that the handle still opens the registers
BHas(b, flag) ==
  LET at == {k \in DOMAIN b.res: b.res[k].flag = flag} IN
  at # {} /\ b.res[CHOOSE k \in at: \A l \in at: k <= l].handle \in b.open

\* virtio_common_set_status; a device whose status becomes 0 is reset
BSetStatus(b, status) ==
  IF status # {} THEN [b EXCEPT !.status = status]
  ELSE [b EXCEPT !.status = {}, !.features = {}, !.enabled = [q \in BQueues |-> 0], !.rung = {}]
BStarted == {"acknowledge", "driver"}
\* bunix_virtio_negotiate_features
BChosen(required, optional) == required \cup (bdoes.offered \cap optional)

\* reply_negotiate_features: reset, announce, choose, and see whether the device agrees
BNegotiate(b, required, optional, agrees) ==
  LET s == BSetStatus(BSetStatus(b, {}), BStarted)
      chosen == BChosen(required, optional) IN
  IF ~BHas(b, "common") THEN b
  ELSE IF ~(required \subseteq bdoes.offered) THEN BSetStatus(s, {"failed"})
  ELSE IF ~agrees THEN BSetStatus([s EXCEPT !.features = chosen], BStarted \cup {"failed"})
  ELSE [BSetStatus([s EXCEPT !.features = chosen], BStarted \cup {"features_ok"})
          EXCEPT !.negotiated = chosen]

BClose(b, handle) == IF handle = 0 THEN b ELSE [b EXCEPT !.open = @ \ {handle}]
\* reply_setup_queue: a buffer, its address in the device, the old buffer closed
BSetupQueue(b, q, memory) ==
  IF ~BHas(b, "common") \/ ~memory THEN b
  ELSE LET s == [b EXCEPT !.open = @ \cup {b.next}, !.next = @ + 1, !.enabled[q] = b.next] IN
       [BClose(s, b.queues[q]) EXCEPT !.queues[q] = b.next]
\* reply_notify_queue
BNotify(b, q) ==
  IF BHas(b, "notify") /\ b.queues[q] # 0 THEN [b EXCEPT !.rung = @ \cup {q}] ELSE b
\* reply_bind_driver
BBind(b) ==
  IF BHas(b, "common") /\ "features_ok" \in b.status
  THEN BSetStatus(b, BStarted \cup {"features_ok", "driver_ok"}) ELSE b
BReset_BuffersOnly(b) ==
  LET closed == FoldLeft(BClose, b, SetToSeq({b.queues[q]: q \in BQueues})) IN
  [closed EXCEPT !.queues = [q \in BQueues |-> 0], !.negotiated = {}]
\* reply_reset: the device first, then its queues' buffers
BReset(b) ==
  IF ~BHas(b, "common") THEN b
  ELSE LET s == BSetStatus(b, {})
           closed == FoldLeft(BClose, s, SetToSeq({b.queues[q]: q \in BQueues})) IN
       [closed EXCEPT !.queues = [q \in BQueues |-> 0], !.negotiated = {}]

BPciScan ==
  /\ bus.pc = "pci"
  /\ LET s == BScanBars(bus.regs) IN
     bus' = [bus EXCEPT !.regs = s.regs, !.bars = s.bars, !.pc = "virtio"]
BVirtioScan == bus.pc = "virtio" /\ bus' = BScanFunction(bus)
\* another server asks for a BAR while the function works
BGrantAgain ==
  \E i \in BIndexes:
    /\ BBarOK(bus, i, 0, bus.bars[i].len)
    /\ bus' = [BReplyBar(bus, i, 0, bus.bars[i].len) EXCEPT !.open = bus.open,
                 !.next = bus.next, !.count = @ + 1]
BServe ==
  /\ bus.pc = "serve" /\ bus.count < bdoes.count
  /\ \/ BGrantAgain
     \/ \E b \in
          {BNegotiate(bus, ask[1], ask[2], agrees):
             ask \in bdoes.asks, agrees \in {TRUE, ~bdoes.refuses}}
          \cup {BSetupQueue(bus, q, memory): q \in BQueues, memory \in {TRUE, bdoes.memory}}
          \cup {BNotify(bus, q): q \in BQueues} \cup {BBind(bus), BReset(bus)}:
          bus' = [b EXCEPT !.count = @ + 1]

BNext == (BPciScan \/ BVirtioScan \/ BServe) /\ UNCHANGED bdoes
BSpec == BInit /\ [][BNext]_bvars

-----------------------------------------------------------------------------

\* The servers and the device have their types
BusTypeOK ==
  /\ bdoes \in BScenarios /\ bus.pc \in {"pci", "virtio", "serve"}
  /\ bus.regs \in [BIndexes -> 0..BWord - 1]
  /\ bus.open \subseteq 1..bus.next - 1 /\ Len(bus.res) <= BMaxResources

\* Sizing leaves every register as it was (scan_bars, pci_bar_info); the ranges found are
\* those the function decodes, and no handle reaches beyond them, but for a function
\* that decodes 16 bits of its ports; the device has no address of a buffer the bus has
\* closed (reply_setup_queue, reply_reset); the bus's handles are those of its resources
\* and queues; a driver runs with the features the device agreed to
BusSound ==
  LET hw == bdoes.hw
      plain == \A i \in BIndexes: hw[i].kind # "io16"
      decodes(r) == \E i \in BIndexes:
        r.base >= hw[i].base /\ r.base + r.len <= hw[i].base + hw[i].size IN
  /\ \A i \in BIndexes: bus.regs[i] = BRegister(hw, i)
  /\ plain =>
       /\ \A i \in BIndexes: bus.pc # "pci" /\ ~BUpper(hw, i) /\ hw[i].kind # "none" =>
            bus.bars[i] = [type |-> IF hw[i].kind = "io" THEN "port" ELSE "mmio",
                           base |-> hw[i].base, len |-> hw[i].size]
       /\ \A r \in bus.granted: decodes(r)
  /\ bdoes.junk = 0 =>
       /\ \A q \in BQueues: bus.enabled[q] # 0 => bus.enabled[q] \in bus.open
       /\ bus.open = ({bus.res[k].handle: k \in DOMAIN bus.res}
                       \cup {bus.queues[q]: q \in BQueues}) \ {0}
  /\ "driver_ok" \in bus.status =>
       bus.features = bus.negotiated /\ bus.features \subseteq bdoes.offered
=============================================================================
