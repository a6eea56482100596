---------------------------- MODULE SchedPolicy ----------------------------
(***************************************************************************)
(* Scheduler-policy capabilities: who may change the class, priority,      *)
(* weight and CPU mask of whom.  sched_policy_grant derives capabilities,  *)
(* handles and messages spread them, sched_policy_set applies them.  The   *)
(* sched server and the Linux system calls both read a policy, change a    *)
(* field and write all of it back, in two steps.                           *)
(*                                                                         *)
(* Masks are sets.  A task's handles are a set of capabilities, each with  *)
(* or without the DUP right that passing it on needs.                      *)
(***************************************************************************)
EXTENDS Naturals, FiniteSets, Sequences

CONSTANTS
  PTasks, PThreads,
  Server,            \* the task of user/sched
  LinuxTasks,        \* tasks that make Linux system calls
  Online,            \* sched_online_cpu_mask
  MaxPriority, MaxWeight, BaseWeight, MaxDepth,
  Requests,          \* the capabilities programs ask for
  PolicyStates,      \* the states programs set
  PStarted,          \* task->threads at boot
  HeldBound,         \* a task with this many capabilities is given no more
  PScenarios,        \* the sets of operations that programs use
  NoCall

Classes == {"kernel", "server", "user", "batch", "idle"}
Tuning == {"class", "priority", "weight", "affinity"}
PolicyRights == Tuning \cup {"observe", "delegate"}
Targets == PTasks \cup PThreads \cup {0}
PolicyCap ==
  [kind : {"task", "thread", "system", "other"}, id : Targets,
   rights : SUBSET PolicyRights, depth : Nat, classes : SUBSET Classes,
   lo : Nat, hi : Nat, wlo : Nat, whi : Nat, cpus : SUBSET Online]
PolicyState ==
  [kind : {"task", "thread", "system", "other"}, id : Targets, class : Classes,
   prio : Nat, weight : Nat, cpus : SUBSET Online]

PolicyHandle == [cap : PolicyCap, dup : BOOLEAN]

\* sched_policy_cap_create_system
SystemCap ==
  [kind |-> "system", id |-> 0, rights |-> PolicyRights, depth |-> MaxDepth,
   classes |-> Classes, lo |-> 0, hi |-> MaxPriority, wlo |-> 1,
   whi |-> MaxWeight, cpus |-> Online]

ASSUME PolicyConstants ==
  /\ MaxPriority \in Nat /\ MaxWeight \in Nat /\ BaseWeight \in 1..MaxWeight
  /\ MaxDepth \in Nat /\ HeldBound \in Nat /\ Online # {}
  /\ Requests \subseteq PolicyCap /\ PolicyStates \subseteq PolicyState
  /\ Server \in PTasks /\ LinuxTasks \subseteq PTasks \ {Server}
  /\ PStarted \in [PTasks -> Seq(PThreads)]
  /\ \A k, l \in PTasks : \A i \in DOMAIN PStarted[k] : \A j \in DOMAIN PStarted[l] :
       k # l => PStarted[k][i] # PStarted[l][j]
  /\ 0 \notin PTasks \cup PThreads /\ PTasks \cap PThreads = {}

ASSUME NoCallFresh == NoCall \notin [handle : PolicyHandle, state : PolicyState]

VARIABLES
  uses,      \* the member of PScenarios this behaviour follows
  held,      \* the handles of a task
  taskPol,   \* task->sched_class, _priority, _affinity_mask
  thrPol,    \* the same of a thread, and its weight
  threads,   \* task->threads, the newest first
  spawned,   \* tasks and threads that have existed
  call       \* the policy a task has read and is about to write back

pVars == <<uses, held, taskPol, thrPol, threads, spawned, call>>

PRange(s) == {s[i] : i \in DOMAIN s}
Live(k) == threads[k] # <<>>

-----------------------------------------------------------------------------
\* sched_policy_cap_allows_target
AllowsTarget(c, kind, id) ==
  IF c.kind = "system" THEN kind \in {"task", "thread", "system"}
                       ELSE c.kind = kind /\ c.id = id

\* Mutant: the target of the derived capability is not compared
Attenuated_AnyTarget(p, c) ==
  /\ "delegate" \in p.rights /\ c.depth < p.depth
  /\ c.rights \subseteq p.rights /\ c.classes \subseteq p.classes
  /\ p.lo <= c.lo /\ c.lo <= c.hi /\ c.hi <= p.hi
  /\ p.wlo <= c.wlo /\ c.wlo <= c.whi /\ c.whi <= p.whi
  /\ c.cpus \subseteq p.cpus /\ c.classes # {} /\ c.cpus # {}

\* Mutant: a derived capability may have a wider weight range
Attenuated_Heavier(p, c) ==
  /\ "delegate" \in p.rights /\ c.depth < p.depth
  /\ c.rights \subseteq p.rights /\ c.classes \subseteq p.classes
  /\ p.lo <= c.lo /\ c.lo <= c.hi /\ c.hi <= p.hi
  /\ c.wlo <= c.whi
  /\ c.cpus \subseteq p.cpus /\ c.classes # {} /\ c.cpus # {}
  /\ AllowsTarget(p, c.kind, c.id)

\* sched_policy_is_attenuated
Attenuated(p, c) ==
  /\ "delegate" \in p.rights /\ c.depth < p.depth
  /\ c.rights \subseteq p.rights /\ c.classes \subseteq p.classes
  /\ p.lo <= c.lo /\ c.lo <= c.hi /\ c.hi <= p.hi
  /\ p.wlo <= c.wlo /\ c.wlo <= c.whi /\ c.whi <= p.whi
  /\ c.cpus \subseteq p.cpus /\ c.classes # {} /\ c.cpus # {}
  /\ AllowsTarget(p, c.kind, c.id)


\* sched_policy_state_allowed
StateAllowed(c, s) ==
  /\ AllowsTarget(c, s.kind, s.id)
  /\ s.class \in c.classes
  /\ c.lo <= s.prio /\ s.prio <= c.hi
  /\ c.wlo <= s.weight /\ s.weight <= c.whi
  /\ s.cpus # {} /\ s.cpus \subseteq c.cpus

\* sched_policy_get, of a task or a thread that exists
Found(kind, id) ==
  \/ kind = "task" /\ id \in PTasks /\ Live(id)
  \/ kind = "thread" /\ \E k \in PTasks : id \in PRange(threads[k])

\* Mutant: priorities count from one
Got_FromOne(kind, id) ==
  [kind |-> kind, id |-> id, class |-> taskPol[id].class,
   prio |-> taskPol[id].prio - 1, weight |-> BaseWeight, cpus |-> taskPol[id].cpus]

Got(kind, id) ==
  IF kind = "task"
  THEN [kind |-> kind, id |-> id, class |-> taskPol[id].class,
        prio |-> taskPol[id].prio, weight |-> thrPol[Head(threads[id])].weight,
        cpus |-> taskPol[id].cpus]
  ELSE [kind |-> kind, id |-> id, class |-> thrPol[id].class,
        prio |-> thrPol[id].prio, weight |-> thrPol[id].weight,
        cpus |-> thrPol[id].cpus]

MayGet(c, kind, id) == "observe" \in c.rights /\ AllowsTarget(c, kind, id)

\* sched_policy_set with capability c: all four tuning rights are needed; a
\* task's policy goes to all of its threads; a system target is refused
MaySet(c, s) == Tuning \subseteq c.rights /\ StateAllowed(c, s) /\ Found(s.kind, s.id)
Applied(s) ==
  LET touched == IF s.kind = "task" THEN PRange(threads[s.id]) ELSE {s.id} IN
    /\ taskPol' = [k \in PTasks |->
                     IF s.kind = "task" /\ s.id = k
                     THEN [class |-> s.class, prio |-> s.prio, cpus |-> s.cpus]
                     ELSE taskPol[k]]
    /\ thrPol' = [t \in PThreads |->
                    IF t \in touched
                    THEN [class |-> s.class, prio |-> s.prio,
                          weight |-> s.weight, cpus |-> s.cpus]
                    ELSE thrPol[t]]

-----------------------------------------------------------------------------
(* Capabilities travel.                                                    *)

\* sched_policy_grant: a task target of zero means the receiving task
Grant(o, h, k, request) ==
  LET child == IF request.kind = "task" /\ request.id = 0
               THEN [request EXCEPT !.id = k] ELSE request
  IN /\ Live(o) /\ Live(k) /\ h \in held[o]
     /\ Attenuated(h.cap, child) /\ Cardinality(held[k]) < HeldBound
     /\ held' = [held EXCEPT ![k] = @ \cup {[cap |-> child, dup |-> TRUE]}]
     /\ UNCHANGED <<uses, taskPol, thrPol, threads, spawned, call>>

\* task_grant_inherited_handle, or a message: the copy may lack DUP
Pass(o, k, h, dup) ==
  /\ Live(o) /\ Live(k) /\ h \in held[o] /\ h.dup /\ Cardinality(held[k]) < HeldBound
  /\ held' = [held EXCEPT ![k] = @ \cup {[h EXCEPT !.dup = dup]}]
  /\ UNCHANGED <<uses, taskPol, thrPol, threads, spawned, call>>

\* handle_close.  The sched server closes none.
CloseCap(o, h) ==
  /\ Live(o) /\ o # Server /\ h \in held[o]
  /\ held' = [held EXCEPT ![o] = @ \ {h}]
  /\ UNCHANGED <<uses, taskPol, thrPol, threads, spawned, call>>

\* native_sys_sched_policy_set.  A target kind of zero means the capability's
\* own target.
SetPolicy(o, h, s) ==
  LET c == h.cap
      st == IF s.kind = "other" THEN [s EXCEPT !.kind = c.kind, !.id = c.id] ELSE s
  IN /\ Live(o) /\ h \in held[o]
     /\ MaySet(c, st)
     /\ Applied(st)
     /\ UNCHANGED <<uses, held, threads, spawned, call>>

-----------------------------------------------------------------------------
(* Reading, changing and writing back.                                     *)

\* handle_setp of the sched server, up to its bunix_sched_policy_get.  The
\* handle that came with the message is never closed.
ServeGet(o, h, kind, id) ==
  /\ Live(o) /\ Live(Server) /\ h \in held[o] /\ h.dup /\ call[Server] = NoCall
  /\ held' = [held EXCEPT ![Server] = @ \cup {h}]
  /\ call' = IF MayGet(h.cap, kind, id) /\ Found(kind, id)
             THEN [call EXCEPT ![Server] = [handle |-> h, state |-> Got(kind, id)]]
             ELSE call
  /\ UNCHANGED <<uses, taskPol, thrPol, threads, spawned>>

\* linux_sched_get_task_state: a fresh system capability for this call
LinuxGet(o, k) ==
  LET h == [cap |-> SystemCap, dup |-> FALSE] IN
    /\ o \in LinuxTasks /\ Live(o) /\ Live(k) /\ call[o] = NoCall
    /\ held' = [held EXCEPT ![o] = @ \cup {h}]
    /\ call' = [call EXCEPT ![o] = [handle |-> h, state |-> Got("task", k)]]
    /\ UNCHANGED <<uses, taskPol, thrPol, threads, spawned>>

\* The rest of handle_setp: a new mask, and a new class unless that is zero
ServeChanges(s, n) == {[s EXCEPT !.cpus = n.cpus],
                       [s EXCEPT !.cpus = n.cpus, !.class = n.class]}

\* sched_setaffinity, sched_setparam, setpriority and sched_setscheduler: one
\* or two fields changed, the others as they were read
LinuxChanges(s, n) == {[s EXCEPT !.cpus = n.cpus], [s EXCEPT !.prio = n.prio],
                       [s EXCEPT !.class = n.class, !.prio = n.prio]}

\* The policy is written back through the handle it was read with, if that is
\* still there
WriteBack(o, s) ==
  IF call[o].handle \in held[o] /\ MaySet(call[o].handle.cap, s)
  THEN Applied(s) ELSE UNCHANGED <<taskPol, thrPol>>

ServeSet(s) ==
  /\ Live(Server) /\ call[Server] # NoCall
  /\ WriteBack(Server, s)
  /\ call' = [call EXCEPT ![Server] = NoCall]
  /\ UNCHANGED <<uses, held, threads, spawned>>

\* then the Linux call closes its handle
LinuxSet(o, s) ==
  /\ o \in LinuxTasks /\ Live(o) /\ call[o] # NoCall
  /\ WriteBack(o, s)
  /\ held' = [held EXCEPT ![o] = @ \ {call[o].handle}]
  /\ call' = [call EXCEPT ![o] = NoCall]
  /\ UNCHANGED <<uses, threads, spawned>>

-----------------------------------------------------------------------------
(* Tasks and threads.                                                      *)

\* thread_create_placed: the task's policy and the base weight
NewThread(pol) ==
  [class |-> pol.class, prio |-> pol.prio, weight |-> BaseWeight,
   cpus |-> IF pol.cpus # {} THEN pol.cpus ELSE Online]

CreateThread(k, t) ==
  /\ Live(k) /\ t \notin spawned
  /\ threads' = [threads EXCEPT ![k] = <<t>> \o @]
  /\ thrPol' = [thrPol EXCEPT ![t] = NewThread(taskPol[k])]
  /\ spawned' = spawned \cup {t}
  /\ UNCHANGED <<uses, held, taskPol, call>>

\* server_task_fork_current_stopped and start_fork: the child gets the
\* handles (task_clone_handles) and the policy (task_inherit_sched_policy)
ForkTask(o, k, t) ==
  /\ Live(o) /\ k \notin spawned /\ t \notin spawned
  /\ held' = [held EXCEPT ![k] = held[o]]
  /\ taskPol' = [taskPol EXCEPT ![k] = taskPol[o]]
  /\ threads' = [threads EXCEPT ![k] = <<t>>]
  /\ thrPol' = [thrPol EXCEPT ![t] = NewThread(taskPol[o])]
  /\ spawned' = spawned \cup {k, t}
  /\ UNCHANGED <<uses, call>>

\* A task exits with its threads, and its handles go
ExitTask(k) ==
  /\ Live(k)
  /\ threads' = [threads EXCEPT ![k] = <<>>]
  /\ held' = [held EXCEPT ![k] = {}]
  /\ call' = [call EXCEPT ![k] = NoCall]
  /\ UNCHANGED <<uses, taskPol, thrPol, spawned>>

\* launch_user_image starts the servers; grant_bootstrap_caps hands the sched
\* server the system capability
PInit ==
  /\ uses \in PScenarios
  /\ held = [k \in PTasks |-> 
             IF k = Server THEN {[cap |-> SystemCap, dup |-> TRUE]} ELSE {}]
  /\ taskPol = [k \in PTasks |-> [class |-> "server", prio |-> 0, cpus |-> Online]]
  /\ thrPol = [t \in PThreads |->
                 NewThread([class |-> "server", prio |-> 0, cpus |-> Online])]
  /\ threads = PStarted
  /\ spawned = {k \in PTasks : PStarted[k] # <<>>}
                 \cup UNION {PRange(PStarted[k]) : k \in PTasks}
  /\ call = [k \in PTasks |-> NoCall]

TravelStep ==
  \E o \in PTasks : \E h \in held[o] :
    \/ \E k \in PTasks : \E dup \in BOOLEAN : "pass" \in uses /\ Pass(o, k, h, dup)
    \/ \E k \in PTasks : \E r \in Requests : "grant" \in uses /\ Grant(o, h, k, r)
    \/ "close" \in uses /\ CloseCap(o, h)
    \/ \E s \in PolicyStates : "set" \in uses /\ SetPolicy(o, h, s)

ServeStep ==
  /\ "serve" \in uses
  /\ \/ \E o \in PTasks : \E h \in held[o] :
          \/ \E k \in PTasks : ServeGet(o, h, "task", k)
          \/ \E t \in PThreads : ServeGet(o, h, "thread", t)
     \/ /\ call[Server] # NoCall
        /\ \E n \in PolicyStates : \E s \in ServeChanges(call[Server].state, n) : ServeSet(s)

LinuxStep ==
  /\ "linux" \in uses
  /\ \/ \E o, k \in PTasks : LinuxGet(o, k)
     \/ \E o \in LinuxTasks :
          /\ call[o] # NoCall
          /\ \E n \in PolicyStates : \E s \in LinuxChanges(call[o].state, n) : LinuxSet(o, s)

LifeStep ==
  \/ \E k \in PTasks : "exit" \in uses /\ ExitTask(k)
  \/ \E k \in PTasks : \E t \in PThreads : "thread" \in uses /\ CreateThread(k, t)
  \/ \E o, k \in PTasks : \E t \in PThreads : "fork" \in uses /\ ForkTask(o, k, t)

PNext == TravelStep \/ ServeStep \/ LinuxStep \/ LifeStep

PSpec == PInit /\ [][PNext]_pVars

-----------------------------------------------------------------------------
(* Properties.                                                             *)

\* Every variable holds a value the code's types allow.
PTypeOK ==
  /\ uses \in PScenarios
  /\ held \in [PTasks -> SUBSET PolicyHandle]
  /\ taskPol \in [PTasks -> [class : Classes, prio : Nat, cpus : SUBSET Online]]
  /\ thrPol \in [PThreads -> [class : Classes, prio : Nat, weight : Nat,
                              cpus : SUBSET Online]]
  /\ threads \in [PTasks -> Seq(PThreads)]
  /\ spawned \subseteq PTasks \cup PThreads
  /\ call \in [PTasks -> [handle : PolicyHandle, state : PolicyState] \cup {NoCall}]

\* What a derived capability may be
Within(c) ==
  /\ c.depth <= MaxDepth /\ 0 <= c.lo /\ c.hi <= MaxPriority
  /\ 1 <= c.wlo /\ c.whi <= MaxWeight
  /\ c.cpus # {} /\ c.cpus \subseteq Online

\* No chain of sched_policy_grant calls, handle copies and forks ever produces a
\* capability that allows more than the system capability at its root.
AuthorityNeverWidens == \A k \in PTasks : \A h \in held[k] : Within(h.cap)

Legal(p) == p.class \in Classes /\ p.prio <= MaxPriority /\ p.cpus # {}

\* Whatever was set, inherited or written back from a stale read, every task and
\* thread has a policy that the scheduler can act on: a priority and a weight in
\* range and at least one online CPU.
PoliciesLegal ==
  /\ \A k \in PTasks : Legal(taskPol[k])
  /\ \A t \in PThreads : Legal(thrPol[t]) /\ thrPol[t].weight \in 1..MaxWeight

\* Authority does not grow, and what it allows keeps every policy usable.
PolicySound == AuthorityNeverWidens /\ PoliciesLegal

\* Authority over task y, or over one of its threads
CoversTask(c, y) ==
  \/ c.kind = "system"
  \/ c.kind = "task" /\ c.id = y
  \/ c.kind = "thread" /\ c.id \in PRange(threads[y])
Covered(y) ==
  \E k \in PTasks : \E h \in held[k] : CoversTask(h.cap, y)

\* While nobody has a capability that covers task y, nobody changes its policy,
\* and authority over it comes into being only with a Linux system call, or when
\* y gets the thread that a thread capability named in advance.
Confined ==
  [][\A y \in PTasks : Live(y) /\ ~Covered(y) =>
       /\ taskPol'[y] = taskPol[y]
       /\ \A t \in PRange(threads[y]) : thrPol'[t] = thrPol[t]
       /\ Covered(y)' => \/ \E k \in LinuxTasks : call[k] = NoCall /\ call'[k] # NoCall
                         \/ threads'[y] # threads[y]]_pVars

\* "Priority changes should not silently change weight": setpriority, which
\* writes back everything it read, leaves every weight as it is.
PriorityKeepsWeight ==
  [][\A o \in LinuxTasks : \A n \in PolicyStates :
       call[o] # NoCall /\ LinuxSet(o, [call[o].state EXCEPT !.prio = n.prio]) =>
         \A t \in PThreads : thrPol'[t].weight = thrPol[t].weight]_pVars
=============================================================================
