---------------------------- MODULE MCSchedRules ----------------------------
(* The rules of scheduling for TLC: policies, with the sched server, a      *)
(* program and a second one that may be forked, with a thread each and one  *)
(* to create; the run queue of one CPU with three threads; and threads   *)
(* that sleep, are created and exit on two CPUs.                            *)
EXTENDS Sched, SchedPolicy, Eevdf, TLC

VARIABLE part   \* which of the three a behaviour exercises

CONSTANTS e1, e2, e3, srv, prg, kid, t1, t2, t3, cpu0, cpu1

\* a capability for the receiving task, one for a thread that may not be
\* passed down further, one for a thread that does not exist at first, and one
\* whose weight is out of range
RequestSet ==
  { [SystemCap EXCEPT !.kind = "task", !.depth = 1, !.classes = {"user", "idle"}],
    [SystemCap EXCEPT !.kind = "thread", !.id = t2, !.depth = 0, !.cpus = {cpu0}],
    [SystemCap EXCEPT !.kind = "thread", !.id = t3, !.depth = 0, !.classes = {"user"}],
    [SystemCap EXCEPT !.kind = "task", !.id = kid, !.depth = 0, !.whi = MaxWeight + 1] }
StateSet ==
  { [kind |-> "task", id |-> prg, class |-> "user", prio |-> 1, weight |-> 2,
     cpus |-> {cpu0}],
    [kind |-> "other", id |-> 0, class |-> "idle", prio |-> 0, weight |-> 1,
     cpus |-> {}] }
StartedThreads ==
  [k \in PTasks |-> IF k = srv THEN <<t1>> ELSE IF k = prg THEN <<t2>> ELSE <<>>]

Derive == {"grant", "pass", "close", "set", "exit", "thread"}
Inherit == {"grant", "close", "set", "fork", "exit"}
Linux == {"linux", "set", "thread", "fork", "exit"}
Serve == {"serve", "grant", "exit"}
AllScenarios == {Derive, Inherit, Linux, Serve}

\* e1 starts heavy, the others light; one may be re-weighed
Light == {w \in [EThreads -> Weights] : w[e1] = 2 /\ w[e2] = 1 /\ w[e3] = 1}

\* t1 may run anywhere, t2 only on the first CPU, t3 only on the second; t1
\* sleeps, t2 creates t3 and exits, t3 sleeps and exits
Masks == [t \in PThreads |-> IF t = t1 THEN Online ELSE IF t = t2 THEN {cpu0} ELSE {cpu1}]
LifeCalls == t1 :> {"sleep"} @@ t2 :> {"create", "exit"} @@ t3 :> {"sleep", "exit"}
OwnTask == [t \in PThreads |-> IF t = t2 THEN srv ELSE prg]

\* Policies, the order of a queue and the life of threads do not touch each
\* other in the model, so a behaviour exercises one of them.
AtRest == SchedInit /\ cpuOf[t1] = cpu0

PolicyOnly ==
  PInit /\ EInit /\ AtRest /\ weight[e2] = 1 /\ part = "policy"
QueueOnly == EInit /\ PInit /\ AtRest /\ uses = Serve /\ part = "queue"
LifeOnly ==
  SchedInit /\ PInit /\ EInit /\ uses = Serve /\ weight[e2] = 1 /\ part = "life"

RulesInit == PolicyOnly \/ QueueOnly \/ LifeOnly
RulesNext ==
  \/ part = "policy" /\ PNext /\ UNCHANGED <<eVars, schedVars, part>>
  \/ part = "queue" /\ ENext /\ UNCHANGED <<pVars, schedVars, part>>
  \/ part = "life" /\ SchedNext /\ UNCHANGED <<pVars, eVars, part>>

RulesSpec ==
  /\ RulesInit /\ [][RulesNext]_<<pVars, eVars, schedVars, part>>
  /\ WF_eVars(part = "queue" /\ EDispatch /\ UNCHANGED <<pVars, schedVars, part>>)
  /\ WF_eVars(part = "queue" /\ TickShared /\ UNCHANGED <<pVars, schedVars, part>>)

\* The variables of policies and of the queue have their types.
RulesTypeOK == PTypeOK /\ ETypeOK
=============================================================================
