------------------------------- MODULE UsbBus -------------------------------
(* The USB bus server (user/usb-bus): controllers register devices and take    *)
(* work by polling; drivers claim interfaces, open endpoints, and submit and    *)
(* wait for transfers on the ports they were given.  Drivers and controllers,   *)
(* one call under way each, are the environment.                                *)
EXTENDS Integers, Sequences, SequencesExt, FiniteSetsExt, Functions

CONSTANTS
  GDrivers,      \* the tasks of drivers (naturals above 0: owner 0 is nobody)
  GControllers,  \* the tasks of controllers
  GLimit,        \* USB_BUS_MAX_INTERFACES and USB_BUS_MAX_ENDPOINTS
  GScenarios     \* [attach, blobs, asks, lens, count, results, fails]

VARIABLES
  usb,           \* the server, the calls under way and what the callers hold
  gdoes          \* the scenario
gvars == <<usb, gdoes>>

GTasks == GDrivers \cup GControllers
GIdle == [op |-> "none"]
GNoControl == [active |-> FALSE]

GInit ==
  /\ gdoes \in GScenarios
  /\ usb = [devs |-> <<>>, xfers |-> <<>>, ctl |-> GNoControl,
            nextid |-> 1, nextport |-> 1, held |-> {},
            mail |-> [t \in GTasks |-> GIdle], blocked |-> {},
            ports |-> [t \in GTasks |-> {}], work |-> [t \in GTasks |-> <<>>],
            calls |-> [t \in GTasks |-> 0],
            ended |-> <<>>, took |-> <<>>, gave |-> {}, left |-> {}]     \* ghosts

-----------------------------------------------------------------------------
(* Devices                                                                     *)

\* parse_usb_descriptors, one descriptor: a "bad" one has a length that cannot be, an
\* "other" one is of a kind, or too short, to matter
GParsed(dev, e) ==
  CASE ~dev.ok \/ e.type = "bad" -> [dev EXCEPT !.ok = FALSE]
    [] e.type = "config" -> [dev EXCEPT !.ok = ~e.over, !.value = e.value]
    [] e.type = "if" -> IF Len(dev.ifs) >= GLimit THEN [dev EXCEPT !.ok = FALSE]
                        ELSE [dev EXCEPT !.ifs = Append(@, [num |-> e.num, owner |-> 0])]
    [] e.type = "ep" ->
         IF dev.ifs = <<>> \/ Len(dev.eps) >= GLimit THEN [dev EXCEPT !.ok = FALSE]
         ELSE [dev EXCEPT !.eps = Append(@, [num |-> Last(dev.ifs).num, addr |-> e.addr,
                                              kind |-> e.kind, port |-> 0, owner |-> 0])]
    [] OTHER -> dev
GParse(blob, t) ==
  LET new == [ok |-> blob # <<>> /\ blob[1].type = "device", value |-> 0, ctrl |-> t,
              ifs |-> <<>>, eps |-> <<>>]
      dev == FoldLeft(GParsed, new, blob)
  IN  [dev EXCEPT !.ok = @ /\ dev.value # 0]

\* find_interface and find_endpoint: the first of that number and address, 0 if none
GFirst(S) == IF S = {} THEN 0 ELSE Min(S)
GInterface(u, d, num) ==
  IF d > Len(u.devs) THEN 0
  ELSE GFirst({i \in DOMAIN u.devs[d].ifs: u.devs[d].ifs[i].num = num})
GEndpoint(u, d, num, addr) ==
  IF d > Len(u.devs) THEN 0
  ELSE GFirst({e \in DOMAIN u.devs[d].eps:
                 u.devs[d].eps[e].num = num /\ u.devs[d].eps[e].addr = addr})

-----------------------------------------------------------------------------
(* Answers: the caller m.who runs again with them                              *)

GAnswer(u, m, st, val) ==
  LET t == m.who  r == [u EXCEPT !.mail[t] = GIdle, !.blocked = @ \ {t}] IN
  CASE m.op = "open" /\ st = "ok" -> [r EXCEPT !.ports[t] = @ \cup {val}]
    [] m.op = "release" /\ st = "ok" -> [r EXCEPT !.ports[t] = {}]
    [] m.op \in {"tpoll", "cpoll"} /\ st = "ok" -> [r EXCEPT !.work[t] = <<m.op, val>>]
    [] m.op \in {"tdone", "cdone"} -> [r EXCEPT !.work[t] = <<>>]
    [] m.op = "wait" /\ val # 0 -> [r EXCEPT !.took = Append(@, [who |-> t, id |-> val, st |-> st])]
    [] OTHER -> r

\* reply_register_controller and device_push
GRegister(u, m, ok) ==
  LET dev == GParse(m.blob, m.who) IN
  IF ~dev.ok \/ ~ok THEN GAnswer(u, m, "inval", 0)
  ELSE GAnswer([u EXCEPT !.devs = Append(@, dev)], m, "ok", Len(u.devs) + 1)

\* the endpoints stay open
GCloseEndpoints_Not(dev, num, owner) == dev
\* close_interface_endpoints
GCloseEndpoints(dev, num, owner) ==
  [dev EXCEPT !.eps = [e \in DOMAIN @ |->
     IF @[e].num = num /\ @[e].owner = owner THEN [@[e] EXCEPT !.port = 0, !.owner = 0]
     ELSE @[e]]]

\* reply_claim_interface
GClaim(u, m) ==
  LET i == GInterface(u, m.dev, m.num)
      owner == u.devs[m.dev].ifs[i].owner
  IN  CASE i = 0 -> GAnswer(u, m, "noent", 0)
        [] i # 0 /\ owner \notin {0, m.who} -> GAnswer(u, m, "busy", 0)
        [] i # 0 /\ owner \in {0, m.who} /\ m.op = "claim" ->
             GAnswer([u EXCEPT !.devs[m.dev].ifs[i].owner = m.who], m, "ok", 0)
        [] OTHER ->
             LET closed == [u EXCEPT
                   !.devs[m.dev] = GCloseEndpoints(u.devs[m.dev], m.num, owner),
                   !.left = @ \cup {u.xfers[x].id: x \in {y \in DOMAIN u.xfers:
                                      u.xfers[y].dev = m.dev /\ u.xfers[y].num = m.num}}]
             IN  GAnswer([closed EXCEPT !.devs[m.dev].ifs[i].owner = 0], m, "ok", 0)

\* reply_open_endpoint; a port cannot be made when memory is out
GOpen(u, m, ok) ==
  LET i == GInterface(u, m.dev, m.num)
      e == GEndpoint(u, m.dev, m.num, m.addr)
      ep == u.devs[m.dev].eps[e]
  IN  CASE i = 0 \/ e = 0 -> GAnswer(u, m, "noent", 0)
        [] i # 0 /\ e # 0 /\ u.devs[m.dev].ifs[i].owner # m.who -> GAnswer(u, m, "busy", 0)
        [] i # 0 /\ e # 0 /\ m.want \notin {"any", ep.kind} -> GAnswer(u, m, "inval", 0)
        [] i # 0 /\ e # 0 /\ ep.owner \notin {0, m.who} -> GAnswer(u, m, "busy", 0)
        [] i # 0 /\ e # 0 /\ ep.port # 0 -> GAnswer(u, m, "ok", ep.port)
        [] OTHER ->
             IF ~ok THEN GAnswer(u, m, "inval", 0)
             ELSE GAnswer([u EXCEPT !.devs[m.dev].eps[e].port = u.nextport,
                                    !.devs[m.dev].eps[e].owner = m.who,
                                    !.nextport = @ + 1], m, "ok", u.nextport)

-----------------------------------------------------------------------------
(* Control requests: one at a time                                             *)

\* control_allowed: the class reset of an interface one claimed, or the clearing of the
\* halt of an endpoint one opened
GAllowed(u, m) ==
  IF m.what = "reset"
  THEN LET i == GInterface(u, m.dev, m.num) IN i # 0 /\ u.devs[m.dev].ifs[i].owner = m.who
  ELSE \E e \in DOMAIN u.devs[m.dev].eps:
         u.devs[m.dev].eps[e].addr = m.addr /\ u.devs[m.dev].eps[e].owner = m.who

\* reply_control_no_data
GControl(u, m) ==
  IF m.dev > Len(u.devs) THEN GAnswer(u, m, "noent", 0)
  ELSE IF u.ctl.active THEN GAnswer(u, m, "busy", 0)
  ELSE IF ~GAllowed(u, m) THEN GAnswer(u, m, "inval", 0)
  ELSE [u EXCEPT !.ctl = [active |-> TRUE, flying |-> FALSE, id |-> u.nextid,
                          ctrl |-> u.devs[m.dev].ctrl, waiter |-> m.who, dev |-> m.dev],
                 !.nextid = @ + 1, !.blocked = @ \cup {m.who}]

\* reply_controller_control_poll and reply_controller_control_complete
GControlPoll(u, m) ==
  IF ~u.ctl.active THEN GAnswer(u, m, "noent", 0)
  ELSE IF u.ctl.flying \/ u.ctl.ctrl # m.who THEN GAnswer(u, m, "noent", 0)
  ELSE GAnswer([u EXCEPT !.ctl.flying = TRUE], m, "ok", u.ctl.id)
GControlComplete(u, m) ==
  IF ~u.ctl.active THEN GAnswer(u, m, "noent", 0)
  ELSE IF u.ctl.id # m.id \/ u.ctl.ctrl # m.who THEN GAnswer(u, m, "noent", 0)
  ELSE GAnswer(GAnswer([u EXCEPT !.ctl = GNoControl], u.mail[u.ctl.waiter], m.st, 0),
               m, "ok", 0)

-----------------------------------------------------------------------------
(* Transfers: a table in order of arrival, one to an endpoint                  *)

\* find_transfer_for_endpoint
GTransfer(u, d, e) ==
  GFirst({x \in DOMAIN u.xfers: /\ u.xfers[x].dev = d /\ u.xfers[x].num = u.devs[d].eps[e].num
                                /\ u.xfers[x].addr = u.devs[d].eps[e].addr})
\* transfer_remove: the buffer is closed with it
GRemove(u, x) ==
  [u EXCEPT !.xfers = RemoveAt(@, x), !.held = @ \ {u.xfers[x].buf}]

\* reply_endpoint_submit and transfer_push: the server keeps the buffer it was given
GSubmit(u, m, d, e, ok) ==
  IF m.len = 0 THEN GAnswer(u, m, "inval", 0)
  ELSE IF GTransfer(u, d, e) # 0 \/ ~ok THEN GAnswer(u, m, "busy", 0)
  ELSE GAnswer([u EXCEPT !.nextid = @ + 1, !.held = @ \cup {u.nextid},
         !.gave = @ \cup {<<u.nextid, m.who>>},
         !.xfers = Append(@, [id |-> u.nextid, ctrl |-> u.devs[d].ctrl, dev |-> d,
                              num |-> u.devs[d].eps[e].num, addr |-> u.devs[d].eps[e].addr,
                              buf |-> u.nextid, flying |-> FALSE, done |-> FALSE,
                              st |-> "unsupported", waiter |-> 0])],
         m, "ok", u.nextid)

\* the waiter is noted although the transfer is over
GWait_NotesAnyway(u, m, d, e) ==
  LET x == GTransfer(u, d, e) IN
  IF x = 0 THEN GAnswer(u, m, "noent", 0)
  ELSE [u EXCEPT !.xfers[x].waiter = m.who, !.blocked = @ \cup {m.who}]
\* reply_endpoint_wait
GWait(u, m, d, e) ==
  LET x == GTransfer(u, d, e) IN
  CASE x = 0 -> GAnswer(u, m, "noent", 0)
    [] x # 0 /\ u.xfers[x].done ->
         GAnswer(GRemove(u, x), m, u.xfers[x].st, u.xfers[x].id)
    [] OTHER -> [u EXCEPT !.xfers[x].waiter = m.who, !.blocked = @ \cup {m.who}]

\* reply_controller_transfer_poll: the first of the caller's that is not under way
GTransferPoll(u, m) ==
  LET x == GFirst({y \in DOMAIN u.xfers: /\ ~u.xfers[y].done /\ ~u.xfers[y].flying
                                         /\ u.xfers[y].ctrl = m.who})
  IN  IF x = 0 THEN GAnswer(u, m, "noent", 0)
      ELSE GAnswer([u EXCEPT !.xfers[x].flying = TRUE], m, "ok", u.xfers[x].id)

\* send_transfer_waiter
GSendWaiter(u, x) ==
  IF u.xfers[x].waiter = 0 \/ ~u.xfers[x].done THEN u
  ELSE GAnswer(GRemove(u, x), u.mail[u.xfers[x].waiter], u.xfers[x].st, u.xfers[x].id)
\* reply_controller_transfer_complete, with find_transfer_by_id
GTransferComplete(u, m) ==
  LET x == GFirst({y \in DOMAIN u.xfers: u.xfers[y].id = m.id}) IN
  IF x = 0 \/ u.xfers[x].ctrl # m.who THEN GAnswer(u, m, "noent", 0)
  ELSE GAnswer(GSendWaiter([u EXCEPT !.xfers[x].st = m.st, !.xfers[x].done = TRUE,
                                     !.ended = Append(@, <<m.id, m.st>>)], x), m, "ok", 0)

-----------------------------------------------------------------------------
(* The server's loop                                                           *)

\* the endpoints with a message at their port
GRinging(u) ==
  {<<d, e>> \in (DOMAIN u.devs) \X (1..GLimit):
     /\ e \in DOMAIN u.devs[d].eps /\ u.devs[d].eps[e].port # 0
     /\ \E t \in GTasks \ u.blocked: /\ u.mail[t].op \in {"submit", "wait"}
                                     /\ u.mail[t].port = u.devs[d].eps[e].port}
\* handle_endpoint_message: the first of the first device
GEndpointFirst(u) ==
  CHOOSE p \in GRinging(u):
    \A q \in GRinging(u): p[1] < q[1] \/ (p[1] = q[1] /\ p[2] <= q[2])

\* reply_endpoint_message
GServeEndpoint ==
  /\ GRinging(usb) # {}
  /\ LET p == GEndpointFirst(usb) IN
     \E t \in GTasks \ usb.blocked, ok \in {TRUE} \cup gdoes.fails:
       /\ usb.mail[t].op \in {"submit", "wait"}
       /\ usb.mail[t].port = usb.devs[p[1]].eps[p[2]].port
       /\ usb' = IF usb.mail[t].op = "submit" THEN GSubmit(usb, usb.mail[t], p[1], p[2], ok)
                 ELSE GWait(usb, usb.mail[t], p[1], p[2])
  /\ UNCHANGED gdoes

\* main: the server's own port, when no endpoint has a message
GHandled(u, m, ok) ==
  CASE m.op = "register" -> GRegister(u, m, ok)
    [] m.op \in {"claim", "release"} -> GClaim(u, m)
    [] m.op = "open" -> GOpen(u, m, ok)
    [] m.op = "control" -> GControl(u, m)
    [] m.op = "tpoll" -> GTransferPoll(u, m)
    [] m.op = "tdone" -> GTransferComplete(u, m)
    [] m.op = "cpoll" -> GControlPoll(u, m)
    [] m.op = "cdone" -> GControlComplete(u, m)
GServe ==
  /\ GRinging(usb) = {}
  /\ \E t \in GTasks \ usb.blocked, ok \in {TRUE} \cup gdoes.fails:
       /\ usb.mail[t].op \notin {"none", "submit", "wait"}
       /\ usb' = GHandled(usb, usb.mail[t], ok)
  /\ UNCHANGED gdoes

-----------------------------------------------------------------------------
(* The callers                                                                 *)

GCall(t, m) ==
  /\ usb.mail[t] = GIdle
  /\ usb' = [usb EXCEPT !.mail[t] = m @@ [who |-> t],
                         !.calls[t] = IF t \in GDrivers THEN @ + 1 ELSE 1]
  /\ UNCHANGED gdoes
\* a driver asks the server, or uses a port it holds
GAsk ==
  \E t \in GDrivers:
    /\ usb.calls[t] < gdoes.count
    /\ \/ \E m \in gdoes.asks: GCall(t, m)
       \/ \E p \in usb.ports[t], n \in gdoes.lens:
            GCall(t, [op |-> "submit", port |-> p, len |-> n])
       \/ \E p \in usb.ports[t]: GCall(t, [op |-> "wait", port |-> p])
\* a controller registers its device once
GAttach ==
  \E t \in gdoes.attach, b \in gdoes.blobs:
    usb.calls[t] = 0 /\ GCall(t, [op |-> "register", blob |-> b])
\* usb_poll_transfer and usb_poll_control, when there is something to find
GPoll ==
  \E t \in GControllers:
    /\ usb.calls[t] > 0 /\ usb.work[t] = <<>>
    /\ \/ /\ \E x \in DOMAIN usb.xfers: ~usb.xfers[x].done
          /\ GCall(t, [op |-> "tpoll"])
       \/ usb.ctl.active /\ GCall(t, [op |-> "cpoll"])
\* usb_complete_transfer and usb_complete_control
GComplete ==
  \E t \in GControllers, st \in gdoes.results:
    /\ usb.work[t] # <<>>
    /\ GCall(t, [op |-> IF usb.work[t][1] = "tpoll" THEN "tdone" ELSE "cdone",
                 id |-> usb.work[t][2], st |-> st])

GNext == GServeEndpoint \/ GServe \/ GAsk \/ GAttach \/ GPoll \/ GComplete
GSpec == GInit /\ [][GNext]_gvars

-----------------------------------------------------------------------------
(* What could go wrong                                                         *)

\* Type invariant of the USB bus
UsbTypeOK ==
  /\ usb.blocked \subseteq GDrivers
  /\ \A d \in DOMAIN usb.devs:
       /\ usb.devs[d].ctrl \in GControllers
       /\ Len(usb.devs[d].ifs) <= GLimit /\ Len(usb.devs[d].eps) <= GLimit
       /\ \A i \in DOMAIN usb.devs[d].ifs: usb.devs[d].ifs[i].owner \in GDrivers \cup {0}

\* What the bus promises its callers.  (1) What a driver is told of a transfer is what
\* the controller reported of it, and no transfer is told twice.  (2) It is told to the
\* driver that submitted it, unless the interface was given up with the transfer under
\* way (reply_claim_interface forgets no transfer).  (3) An open endpoint belongs to
\* the driver that holds its interface.  (4) The server holds the buffers of the
\* transfers in its table and no others.  (5) No two transfers are at one endpoint.
\* (6) A driver that waits is known to what it waits for: nobody sleeps for good on a
\* transfer or a control request that is over.  (7) A transfer is with one controller,
\* that of its device, from the poll to the completion.
UsbSound ==
  /\ \A i \in DOMAIN usb.took:
       /\ \E j \in DOMAIN usb.ended: usb.ended[j] = <<usb.took[i].id, usb.took[i].st>>
       /\ \A k \in DOMAIN usb.took: k # i => usb.took[k].id # usb.took[i].id
  /\ \A i \in DOMAIN usb.took:
       usb.took[i].id \in usb.left \/ <<usb.took[i].id, usb.took[i].who>> \in usb.gave
  /\ \A d \in DOMAIN usb.devs: \A e \in DOMAIN usb.devs[d].eps:
       LET ep == usb.devs[d].eps[e] IN
       /\ (ep.port = 0) <=> (ep.owner = 0)
       /\ ep.owner # 0 => usb.devs[d].ifs[GInterface(usb, d, ep.num)].owner = ep.owner
  /\ usb.held = {usb.xfers[x].buf: x \in DOMAIN usb.xfers}
  /\ \A x, y \in DOMAIN usb.xfers:
       x # y => \/ usb.xfers[x].dev # usb.xfers[y].dev
                \/ usb.xfers[x].num # usb.xfers[y].num \/ usb.xfers[x].addr # usb.xfers[y].addr
  /\ \A t \in usb.blocked:
       IF usb.mail[t].op = "wait"
       THEN \E x \in DOMAIN usb.xfers: usb.xfers[x].waiter = t /\ ~usb.xfers[x].done
       ELSE usb.ctl.active /\ usb.ctl.waiter = t
  /\ \A x \in DOMAIN usb.xfers:
       usb.xfers[x].flying /\ ~usb.xfers[x].done =>
         {t \in GControllers: usb.work[t] = <<"tpoll", usb.xfers[x].id>>} = {usb.xfers[x].ctrl}
=============================================================================
