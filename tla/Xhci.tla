-------------------------------- MODULE Xhci --------------------------------
(* The xHCI driver (user/xhci): it resets the controller, brings up the first   *)
(* connected device and then serves the USB bus's requests one after another,   *)
(* each queued on a ring and awaited on the event ring.  The controller, with   *)
(* the device behind it, and the bus are external.                              *)
EXTENDS Integers, Sequences, SequencesExt, FiniteSetsExt

CONSTANTS
  HTrbs,        \* XHCI_RING_TRBS, of the rings of requests
  HEvents,      \* XHCI_RING_TRBS, of the event ring
  HMost,        \* XHCI_MAX_ENDPOINTS
  HScenarios    \* [ports, running, unplug, config, codes, slow, events, works, count, memory]

VARIABLES
  hc,           \* the driver, and the rings it shares with the controller
  dev,          \* the controller
  hdoes         \* the scenario
hvars == <<hc, dev, hdoes>>

HCmd == "cmd"
HEp0 == "ep0"
\* a ring of an endpoint is named by the place of the endpoint in the driver's table
HRings == {<<HCmd, 0>>, <<HEp0, 0>>} \cup {<<"ep", i>>: i \in 1..HMost}
HNoTd == [td |-> 0]

HInit ==
  /\ hdoes \in HScenarios
  /\ hc = [pc |-> "map", trbs |-> [r \in HRings |-> <<>>], rung |-> [r \in HRings |-> 0],
           at |-> 0, cycle |-> 1, port |-> 0, eps |-> <<>>, whole |-> TRUE,
           ready |-> FALSE, active |-> FALSE, for |-> HNoTd, work |-> "none", turn |-> "control",
           tds |-> 0, done |-> 0,
           told |-> <<>>, taken |-> <<>>, quit |-> {}, held |-> {}]        \* ghosts
  /\ dev = [run |-> hdoes.running, halted |-> ~hdoes.running, reset |-> FALSE,
            ports |-> hdoes.ports, resetting |-> 0,
            seen |-> [r \in HRings |-> 0], stalled |-> {}, ctx |-> <<>>,
            ring |-> [i \in 0..HEvents - 1 |-> [cycle |-> 0, ev |-> HNoTd]],
            at |-> 0, cycle |-> 1, erdp |-> 0, armed |-> FALSE, port |-> 0,
            made |-> <<>>, finished |-> {}, blind |-> FALSE]               \* ghosts

-----------------------------------------------------------------------------
(* Rings: a ring is filled once, from its first slot to the one before the link *)

\* xhci_write_command_trb, xhci_write_ep0_trb, xhci_write_endpoint_trb: n of them, as
\* many as there is room for
HWrite(h, r, n, td) ==
  LET room == HTrbs - 1 - Len(h.trbs[r])
      k == IF n < room THEN n ELSE room
  IN  [h EXCEPT !.trbs[r] = @ \o [i \in 1..k |-> [td |-> td, last |-> i = n]]]
HFits(h, r, n) == Len(h.trbs[r]) + n <= HTrbs - 1
\* xhci_ring_command_doorbell, xhci_ring_ep0_doorbell, xhci_ring_endpoint_doorbell
HRing(h, r) == [h EXCEPT !.rung[r] = Len(h.trbs[r])]

-----------------------------------------------------------------------------
(* Bringing the controller up                                                  *)

HOff(h) == [h EXCEPT !.pc = "loop", !.active = FALSE]
\* xhci_map_controller
HMap ==
  /\ hc.pc = "map" /\ UNCHANGED <<dev, hdoes>>
  /\ hc' \in {[hc EXCEPT !.pc = "halt"]} \cup {HOff(hc): f \in hdoes.memory}
\* xhci_reset_controller: the run bit is cleared, the halt awaited ...
HHalt ==
  /\ hc.pc = "halt" /\ hc' = [hc EXCEPT !.pc = "halting"]
  /\ dev' = [dev EXCEPT !.run = FALSE] /\ UNCHANGED hdoes
HHalted ==
  /\ hc.pc = "halting" /\ dev.halted
  /\ hc' = [hc EXCEPT !.pc = "resetting"]
  /\ dev' = [dev EXCEPT !.reset = TRUE] /\ UNCHANGED hdoes
\* ... and the reset, and that it is halted after it
HWasReset ==
  /\ hc.pc = "resetting" /\ ~dev.reset /\ dev.halted
  /\ hc' = [hc EXCEPT !.pc = "rings"] /\ UNCHANGED <<dev, hdoes>>

\* xhci_setup_rings, with the scratchpads, the command ring and the event ring: the
\* controller gets their addresses
HSetupRings ==
  /\ hc.pc = "rings" /\ UNCHANGED hdoes
  /\ \/ hdoes.memory # {} /\ hc' = HOff(hc) /\ UNCHANGED dev
     \/ /\ hc' = [hc EXCEPT !.pc = "start", !.at = 0, !.cycle = 1]
        /\ dev' = [dev EXCEPT !.at = 0, !.cycle = 1, !.erdp = 0, !.armed = TRUE,
                               !.blind = @ \/ ~dev.halted]
\* xhci_start_controller
HStart ==
  /\ hc.pc = "start" /\ hc' = [hc EXCEPT !.pc = "starting"]
  /\ dev' = [dev EXCEPT !.run = TRUE] /\ UNCHANGED hdoes
\* xhci_find_connected_port, and xhci_reset_port begun
HPort ==
  /\ hc.pc = "starting" /\ ~dev.halted /\ UNCHANGED hdoes
  /\ IF dev.ports = {} THEN hc' = HOff(hc) /\ UNCHANGED dev
     ELSE /\ hc' = [hc EXCEPT !.pc = "port", !.port = Min(dev.ports)]
          /\ dev' = [dev EXCEPT !.resetting = Min(dev.ports)]
\* xhci_reset_port: over, and the port still connected
HPortReset ==
  /\ hc.pc = "port" /\ dev.resetting = 0 /\ hc.port \in dev.ports
  /\ hc' = [hc EXCEPT !.pc = "enable"] /\ UNCHANGED <<dev, hdoes>>
\* wait_status_bits and xhci_reset_port, when the controller is too slow
HGiveUp ==
  /\ \/ hc.pc = "halting" /\ ~dev.halted
     \/ hc.pc = "resetting" /\ (dev.reset \/ ~dev.halted)
     \/ hc.pc = "starting" /\ dev.halted
     \/ hc.pc = "port" /\ (dev.resetting # 0 \/ hc.port \notin dev.ports)
  /\ hdoes.slow /\ hc' = HOff(hc) /\ UNCHANGED <<dev, hdoes>>

-----------------------------------------------------------------------------
(* The device: commands and control transfers in their order                   *)

HStages == <<"enable", "address", "devdesc", "confhead", "conf", "setconf", "register",
             "configure">>
HAfter(s) == HStages[CHOOSE i \in 2..Len(HStages): HStages[i - 1] = s]
\* the ring a stage uses, and its TRBs: xhci_enable_slot, xhci_address_device and the
\* configure command have one; xhci_control_read three; xhci_control_no_data two
HRingOf(s) == IF s \in {"enable", "address", "configure"} THEN <<HCmd, 0>> ELSE <<HEp0, 0>>
HTrbsOf(s) == CASE s \in {"enable", "address", "configure"} -> 1
                [] s \in {"devdesc", "confhead", "conf"} -> 3
                [] OTHER -> 2

\* a request of the bus ends, one way or the other: usb_complete_transfer and
\* usb_complete_control, and the buffer is closed
HTell(h, st, by) ==
  [h EXCEPT !.pc = "loop", !.for = HNoTd, !.work = "none", !.held = {},
            !.told = Append(@, [work |-> h.done, st |-> st, own |-> h.tds, by |-> by])]
\* what comes of a stage that failed, and of one that went well
HFailed(h, s) == IF s = "work" THEN HTell(h, "unsupported", 0) ELSE HOff(h)
HWent(h, s, by) ==
  CASE s = "work" -> HTell(h, "ok", by)
    [] s = "configure" -> [h EXCEPT !.pc = "loop", !.for = HNoTd, !.active = TRUE,
         !.eps = [i \in DOMAIN @ |-> [@[i] EXCEPT !.configured = TRUE]]]
    [] OTHER -> [h EXCEPT !.pc = HAfter(s), !.for = HNoTd]

\* the doorbell is rung for what fits
HIssue_RingsShort(h, s, r, n) ==
  [HRing(HWrite([h EXCEPT !.tds = @ + 1], r, n, h.tds + 1), r) EXCEPT
     !.pc = "wait", !.for = [td |-> h.tds + 1, ring |-> r, stage |-> s]]
\* a request is queued on r, the doorbell rung, and the completion awaited; one that
\* does not fit is left half written and not rung for
HIssue(h, s, r, n) ==
  LET w == HWrite([h EXCEPT !.tds = @ + 1], r, n, h.tds + 1) IN
  IF ~HFits(h, r, n) THEN HFailed(w, s)
  ELSE [HRing(w, r) EXCEPT !.pc = "wait", !.for = [td |-> h.tds + 1, ring |-> r, stage |-> s]]

\* xhci_enable_slot, xhci_address_device with xhci_prepare_address_device,
\* xhci_get_device_descriptor, xhci_get_config_descriptor, xhci_set_configuration
HBringUp ==
  /\ hc.pc \in {"enable", "address", "devdesc", "confhead", "conf", "setconf"}
  /\ \/ hdoes.memory # {} /\ hc.pc = "address" /\ hc' = HOff(hc)
     \/ hc' = HIssue(hc, hc.pc, HRingOf(hc.pc), HTrbsOf(hc.pc))
  /\ UNCHANGED <<dev, hdoes>>

\* xhci_register_usb_device: the whole of the device descriptor is wanted
HRegister ==
  /\ hc.pc = "register" /\ UNCHANGED <<dev, hdoes>>
  /\ \/ ~hc.whole /\ hc' = HOff(hc)
     \/ hdoes.memory # {} /\ hc' = HOff(hc)
     \/ hc.whole /\ hc' = [hc EXCEPT !.pc = "configure", !.ready = TRUE]

\* xhci_collect_supported_endpoints: the endpoints of the kinds the driver knows
\* (xhci_endpoint_context_type), with the controller's number for each
HDci(addr) == addr.n * 2 + (IF addr.in THEN 1 ELSE 0)
HCollect(config) ==
  LET known == SelectSeq(config, LAMBDA e: e.kind \in {"bulk", "intr"} /\ (e.kind = "intr" => e.in)) IN
  [i \in DOMAIN known |-> [addr |-> known[i], dci |-> HDci(known[i]), configured |-> FALSE]]
\* xhci_configure_supported_endpoints: rings for them, and the command
HConfigure ==
  /\ hc.pc = "configure" /\ UNCHANGED hdoes
  /\ LET eps == HCollect(hdoes.config) IN
     IF eps = <<>> \/ Len(eps) > HMost
     THEN hc' = HOff(hc) /\ UNCHANGED dev
     ELSE \/ hdoes.memory # {} /\ hc' = HOff(hc) /\ UNCHANGED dev
          \/ /\ hc' = HIssue([hc EXCEPT !.eps = eps], "configure", <<HCmd, 0>>, 1)
             /\ dev' = [dev EXCEPT !.ctx = eps]

-----------------------------------------------------------------------------
(* Waiting: xhci_wait_command_completion, xhci_wait_transfer_completion         *)

HEvent == dev.ring[hc.at]
HReady == HEvent.cycle = hc.cycle
\* the cycle is not changed at the end of the ring
HConsumed_SameCycle(h, e) == [h EXCEPT !.at = (@ + 1) % HEvents, !.taken = Append(@, e.n)]
\* the event is consumed, and the controller told (ERDP)
HConsumed(h, e) ==
  [h EXCEPT !.at = (@ + 1) % HEvents, !.taken = Append(@, e.n),
            !.cycle = IF h.at + 1 = HEvents THEN 1 - @ ELSE @]
\* the codes that will do: a read of a descriptor and a transfer may be short, but not
\* the read of the head of the configuration
HEnough ==
  IF hc.for.stage \in {"devdesc", "conf"} \/ hc.work = "transfer"
  THEN {"success", "short"} ELSE {"success"}
\* what the event says of what is awaited: a port change is passed over, another kind or
\* another endpoint's fails the wait
HVerdict(e) ==
  LET mine == IF hc.for.ring[1] = HCmd THEN e.kind = "command"
              ELSE e.kind = "transfer" /\ e.ring = hc.for.ring
  IN  IF e.kind = "port" THEN "wait"
      ELSE IF mine /\ e.code \in HEnough THEN "went" ELSE "failed"
HQuit(h) == [h EXCEPT !.quit = @ \cup {h.for.td}]
HTake ==
  /\ hc.pc = "wait" /\ HReady /\ UNCHANGED hdoes
  /\ LET e == HEvent.ev
         h == HConsumed(hc, e)
         v == HVerdict(e)
         w == [(IF e.td = hc.for.td THEN h ELSE HQuit(h)) EXCEPT
                 !.whole = @ /\ ~(e.code = "short" /\ hc.for.stage \in {"devdesc", "conf"})]
     IN  hc' = CASE v = "wait" -> h
                 [] v = "went" -> HWent(w, hc.for.stage, e.td)
                 [] OTHER -> HFailed(w, hc.for.stage)
  /\ dev' = [dev EXCEPT !.erdp = (hc.at + 1) % HEvents]
\* XHCI_COMMAND_POLLS looks, and nothing there
HTimeout ==
  /\ hc.pc = "wait" /\ ~HReady /\ hdoes.slow
  /\ hc' = HFailed(HQuit(hc), hc.for.stage)
  /\ UNCHANGED <<dev, hdoes>>

-----------------------------------------------------------------------------
(* main's loop: a control request, then a transfer, are asked for by turns      *)

HTurn(h) == [h EXCEPT !.turn = IF @ = "control" THEN "transfer" ELSE "control"]
\* xhci_find_endpoint
HFind(addr) ==
  LET S == {i \in DOMAIN hc.eps: hc.eps[i].configured /\ hc.eps[i].addr = addr} IN
  IF S = {} THEN 0 ELSE Min(S)
\* xhci_handle_usb_control, xhci_handle_usb_transfer with xhci_endpoint_transfer: w is
\* what the bus hands over; one for another device, or an endpoint unknown, is refused
HHandled(w) ==
  LET h == [HTurn(hc) EXCEPT !.done = @ + 1, !.work = w.kind, !.held = {hc.tds + 1}] IN
  CASE w.kind = "control" -> IF w.mine THEN HIssue(h, "work", <<HEp0, 0>>, 2)
                             ELSE HTell(h, "unsupported", 0)
    [] OTHER -> IF ~w.mine \/ HFind(w.addr) = 0 THEN HTell(h, "inval", 0)
                ELSE HIssue(h, "work", <<"ep", HFind(w.addr)>>, 1)
HHandle ==
  /\ hc.pc = "loop" /\ hc.active /\ hc.done < hdoes.count
  /\ \E w \in hdoes.works: w.kind = hc.turn /\ hc' = HHandled(w)
  /\ UNCHANGED <<dev, hdoes>>
\* usb_poll_control, usb_poll_transfer: nothing to do
HNothing ==
  /\ hc.pc = "loop" /\ hc.active /\ hc.done < hdoes.count
  /\ hc' = HTurn(hc) /\ UNCHANGED <<dev, hdoes>>

-----------------------------------------------------------------------------
(* The controller                                                              *)

HFollows ==
  /\ UNCHANGED <<hc, hdoes>>
  /\ \/ dev.run = dev.halted /\ ~dev.reset /\ dev' = [dev EXCEPT !.halted = ~dev.run]
     \/ dev.reset /\ dev' = [dev EXCEPT !.reset = FALSE, !.halted = TRUE]
     \/ dev.resetting # 0 /\ dev' = [dev EXCEPT !.resetting = 0]
     \/ hdoes.unplug /\ dev.ports # {} /\ hc.pc = "port" /\ dev' = [dev EXCEPT !.ports = {}]
\* an event is posted where the driver has been, with the controller's cycle
HFull(d) == (d.at + 1) % HEvents = d.erdp
HPost(d, ev) ==
  LET n == Len(d.made) + 1 IN
  [d EXCEPT !.ring[d.at] = [cycle |-> d.cycle, ev |-> ev @@ [n |-> n]],
            !.at = (@ + 1) % HEvents, !.made = Append(@, n),
            !.cycle = IF d.at + 1 = HEvents THEN 1 - @ ELSE @]
HPortEvent ==
  /\ dev.armed /\ ~dev.halted /\ ~HFull(dev) /\ dev.port < hdoes.events
  /\ dev' = [HPost(dev, [kind |-> "port", td |-> 0, code |-> "success"]) EXCEPT !.port = @ + 1]
  /\ UNCHANGED <<hc, hdoes>>
\* the ring the controller serves for an endpoint is the last that was configured for it
HServes(r) ==
  r[1] = "ep" => /\ r[2] \in DOMAIN dev.ctx
                 /\ \A i \in DOMAIN dev.ctx: dev.ctx[i].dci = dev.ctx[r[2]].dci => i <= r[2]
\* a request that was rung for is carried out to its end; an endpoint that stalls stops
HWork ==
  \E r \in HRings, code \in hdoes.codes:
    /\ ~dev.halted /\ ~HFull(dev) /\ HServes(r) /\ r \notin dev.stalled
    /\ dev.seen[r] < hc.rung[r]
    /\ LET rest == SubSeq(hc.trbs[r], dev.seen[r] + 1, hc.rung[r])
           td == rest[1].td
           ends == {i \in DOMAIN rest: rest[i].last}
       IN  dev' = [HPost(dev, [kind |-> IF r[1] = HCmd THEN "command" ELSE "transfer",
                               ring |-> r, td |-> td, code |-> code]) EXCEPT
              !.seen[r] = @ + (IF ends = {} THEN 1 ELSE Min(ends)),
              !.blind = @ \/ ends = {} \/ rest[Min(ends)].td # td,
              !.stalled = IF code = "stall" /\ r[1] = "ep" THEN @ \cup {r} ELSE @,
              !.finished = @ \cup {td}]
    /\ UNCHANGED <<hc, hdoes>>

HNext ==
  \/ HMap \/ HHalt \/ HHalted \/ HWasReset \/ HSetupRings \/ HStart \/ HPort \/ HPortReset
  \/ HGiveUp \/ HBringUp \/ HRegister \/ HConfigure \/ HTake \/ HTimeout \/ HHandle \/ HNothing
  \/ HFollows \/ HPortEvent \/ HWork
HSpec == HInit /\ [][HNext]_hvars

-----------------------------------------------------------------------------
(* What could go wrong                                                         *)

\* Type invariant of the xHCI driver
XhciTypeOK ==
  /\ hc.at \in 0..HEvents - 1 /\ hc.cycle \in {0, 1}
  /\ \A r \in HRings: Len(hc.trbs[r]) < HTrbs /\ hc.rung[r] <= Len(hc.trbs[r])
  /\ Len(hc.eps) <= HMost

\* What the driver promises.  (1) The event ring is read in order, each event once, past
\* the end of the ring and the change of cycle.  (2) The controller's registers are set
\* while it is halted, and it never meets half a request.  (3) A request the bus is told
\* went well did: its event, or that of an earlier request on the same ring the driver
\* had given up (xhci_wait_transfer_completion does not look at which request an event
\* is of).  (4) A request is told of exactly once.  (5) Requests are taken from the bus
\* only for a device that is registered, and endpoints that were configured.  (6) The
\* buffers the controller may still use are held, but for requests given up.
XhciSound ==
  /\ IsPrefix(hc.taken, dev.made)
  /\ ~dev.blind
  /\ \A i \in DOMAIN hc.told:
       hc.told[i].st = "ok" => \/ hc.told[i].by = hc.told[i].own
                               \/ hc.told[i].by \in hc.quit
  /\ \A i \in DOMAIN hc.told: hc.told[i].work = i
  /\ Len(hc.told) = (IF hc.work = "none" THEN hc.done ELSE hc.done - 1)
  /\ hc.active => hc.ready /\ \A i \in DOMAIN hc.eps: hc.eps[i].configured
  /\ \A r \in HRings: r[1] = "ep" => \A k \in dev.seen[r] + 1..hc.rung[r]:
       hc.trbs[r][k].td \in hc.held \cup hc.quit
=============================================================================
