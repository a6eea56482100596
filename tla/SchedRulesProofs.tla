------------------------- MODULE SchedRulesProofs --------------------------
(***************************************************************************)
(* The rules of the scheduler, proved for any tasks, threads and CPUs.     *)
(*                                                                         *)
(* The policies (SchedPolicy): capabilities never widen, policies stay     *)
(* legal, and a task that no capability covers keeps its policy.           *)
(*                                                                         *)
(* The run queue (Eevdf) stays in order for any weights, slice, quantum    *)
(* and wake-up credit.  runq_push walks the queue to the first thread that *)
(* is not to go ahead; that the order survives rests on times being        *)
(* lowered together and on no policy change touching the deadline of a     *)
(* queued thread.                                                          *)
(***************************************************************************)
EXTENDS SchedPolicy, Eevdf, WellFoundedInduction, TLAPS

-----------------------------------------------------------------------------
(* The policies                                                              *)

\* The inductive invariant of the policies.
PolicyInv == PTypeOK /\ AuthorityNeverWidens /\ PoliciesLegal

\* A system capability is within its own bounds.
LEMMA SystemCapFine == SystemCap \in PolicyCap /\ Within(SystemCap)
  BY PolicyConstants DEF SystemCap, PolicyCap, Within, Targets, PolicyRights

\* What is derived from a capability within the system's bounds is within them.
LEMMA AttenuatedFine ==
  ASSUME NEW p \in PolicyCap, Within(p), NEW c \in PolicyCap, Attenuated(p, c)
  PROVE  Within(c)
  BY SMTT(30), PolicyConstants DEF Within, Attenuated, PolicyCap

\* A request for task 0 names the task it is granted to, and is a capability still.
LEMMA RetargetedFine ==
  ASSUME NEW r \in PolicyCap, NEW k \in PTasks PROVE [r EXCEPT !.id = k] \in PolicyCap
  BY ZenonT(30) DEF PolicyCap, Targets

\* Applying a state that a capability allows leaves every policy legal.
LEMMA AppliedFine ==
  ASSUME PTypeOK, PoliciesLegal, NEW c \in PolicyCap, Within(c),
         NEW s \in PolicyState, MaySet(c, s), Applied(s)
  PROVE  /\ taskPol' \in [PTasks -> [class : Classes, prio : Nat, cpus : SUBSET Online]]
         /\ thrPol' \in [PThreads -> [class : Classes, prio : Nat, weight : Nat,
                                      cpus : SUBSET Online]]
         /\ PoliciesLegal'
<1> DEFINE New == [class |-> s.class, prio |-> s.prio, weight |-> s.weight, cpus |-> s.cpus]
           TaskNew == [class |-> s.class, prio |-> s.prio, cpus |-> s.cpus]
<1>1. /\ s.class \in Classes /\ s.prio \in Nat /\ s.weight \in Nat /\ s.cpus \subseteq Online
      /\ s.cpus # {} /\ s.prio <= MaxPriority /\ s.weight \in 1..MaxWeight
  BY PolicyConstants DEF MaySet, StateAllowed, Within, PolicyCap, PolicyState
<1>2. /\ taskPol' \in [PTasks -> [class : Classes, prio : Nat, cpus : SUBSET Online]]
      /\ \A k \in PTasks : taskPol'[k] = taskPol[k] \/ taskPol'[k] = TaskNew
  BY ZenonT(30), <1>1 DEF Applied, PTypeOK
<1>3. /\ thrPol' \in [PThreads -> [class : Classes, prio : Nat, weight : Nat,
                                   cpus : SUBSET Online]]
      /\ \A t \in PThreads : thrPol'[t] = thrPol[t] \/ thrPol'[t] = New
  BY ZenonT(30), <1>1 DEF Applied, PTypeOK
<1>4. \A k \in PTasks : Legal(taskPol'[k])
  BY <1>1, <1>2 DEF Legal, PoliciesLegal
<1>5. \A t \in PThreads : Legal(thrPol'[t]) /\ thrPol'[t].weight \in 1..MaxWeight
  BY <1>1, <1>3 DEF Legal, PoliciesLegal
<1> QED BY ZenonT(30), <1>2, <1>3, <1>4, <1>5 DEF PoliciesLegal

\* The initial state satisfies the inductive invariant.
LEMMA PolicyInit == PInit => PolicyInv
<1> SUFFICES ASSUME PInit PROVE PolicyInv  BY ZenonT(30)
<1>1. held \in [PTasks -> SUBSET PolicyHandle] /\ AuthorityNeverWidens
  BY SystemCapFine DEF PInit, PolicyHandle, AuthorityNeverWidens
<1>2. /\ taskPol \in [PTasks -> [class : Classes, prio : Nat, cpus : SUBSET Online]]
      /\ thrPol \in [PThreads -> [class : Classes, prio : Nat, weight : Nat,
                                  cpus : SUBSET Online]]
      /\ PoliciesLegal
  BY PolicyConstants DEF PInit, NewThread, PoliciesLegal, Legal, Classes
<1>3. threads \in [PTasks -> Seq(PThreads)] /\ uses \in PScenarios
      /\ call \in [PTasks -> [handle : PolicyHandle, state : PolicyState] \cup {NoCall}]
  BY ZenonT(30), PolicyConstants DEF PInit
<1>4. spawned \subseteq PTasks \cup PThreads
  <2>1. \A k \in PTasks : PRange(PStarted[k]) \subseteq PThreads
    BY PolicyConstants DEF PRange
  <2> QED BY ZenonT(30), <2>1 DEF PInit
<1> QED BY ZenonT(30), <1>1, <1>2, <1>3, <1>4 DEF PolicyInv, PTypeOK

\* Steps that move capabilities or apply one.
LEMMA TravelKeeps ==
  ASSUME PolicyInv, TravelStep PROVE PolicyInv'
<1> USE DEF PolicyInv
<1>0. PICK o \in PTasks : \E h \in held[o] :
        \/ \E k \in PTasks : \E dup \in BOOLEAN : Pass(o, k, h, dup)
        \/ \E k \in PTasks : \E r \in Requests : Grant(o, h, k, r)
        \/ CloseCap(o, h)
        \/ \E s \in PolicyStates : SetPolicy(o, h, s)
  BY ZenonT(30) DEF TravelStep
<1>1. PICK h \in held[o] :
        \/ \E k \in PTasks : \E dup \in BOOLEAN : Pass(o, k, h, dup)
        \/ \E k \in PTasks : \E r \in Requests : Grant(o, h, k, r)
        \/ CloseCap(o, h)
        \/ \E s \in PolicyStates : SetPolicy(o, h, s)
  BY ZenonT(30), <1>0
<1>2. h \in PolicyHandle /\ h.cap \in PolicyCap /\ Within(h.cap)
  BY DEF PTypeOK, AuthorityNeverWidens, PolicyHandle
<1>3. ASSUME NEW k \in PTasks, NEW dup \in BOOLEAN, Pass(o, k, h, dup) PROVE PolicyInv'
  <2>1. held' \in [PTasks -> SUBSET PolicyHandle] /\ AuthorityNeverWidens'
    BY ZenonT(30), <1>2, <1>3 DEF Pass, PTypeOK, AuthorityNeverWidens, PolicyHandle
  <2> QED BY ZenonT(30), <2>1, <1>3 DEF Pass, PTypeOK, PoliciesLegal
<1>4. ASSUME NEW k \in PTasks, NEW r \in Requests, Grant(o, h, k, r) PROVE PolicyInv'
  <2> DEFINE child == IF r.kind = "task" /\ r.id = 0 THEN [r EXCEPT !.id = k] ELSE r
  <2>1. child \in PolicyCap
    <3>1. r \in PolicyCap  BY ZenonT(30), PolicyConstants
    <3>2. [r EXCEPT !.id = k] \in PolicyCap  BY ZenonT(30), <3>1, RetargetedFine
    <3> QED BY ZenonT(30), <3>1, <3>2
  <2>2. Attenuated(h.cap, child)
       /\ held' = [held EXCEPT ![k] = @ \cup {[cap |-> child, dup |-> TRUE]}]
       /\ UNCHANGED <<uses, taskPol, thrPol, threads, spawned, call>>
    BY ZenonT(30), <1>4 DEF Grant
  <2>3. Within(child)
    BY ZenonT(30), <1>2, <2>1, <2>2, AttenuatedFine
  <2> HIDE DEF child
  <2> DEFINE g == [cap |-> child, dup |-> TRUE]
  <2>4. g \in PolicyHandle /\ Within(g.cap) /\ held' = [held EXCEPT ![k] = @ \cup {g}]
    BY ZenonT(30), <2>1, <2>2, <2>3 DEF PolicyHandle
  <2> HIDE DEF g
  <2>5. held' \in [PTasks -> SUBSET PolicyHandle] /\ AuthorityNeverWidens'
    BY ZenonT(30), <2>4 DEF PTypeOK, AuthorityNeverWidens
  <2> QED BY ZenonT(30), <2>2, <2>5 DEF PTypeOK, PoliciesLegal
<1>5. CASE CloseCap(o, h)
  <2>1. held' \in [PTasks -> SUBSET PolicyHandle] /\ AuthorityNeverWidens'
    BY ZenonT(30), <1>5 DEF CloseCap, PTypeOK, AuthorityNeverWidens
  <2> QED BY ZenonT(30), <2>1, <1>5 DEF CloseCap, PTypeOK, PoliciesLegal
<1>6. ASSUME NEW s \in PolicyStates, SetPolicy(o, h, s) PROVE PolicyInv'
  <2> DEFINE st == IF s.kind = "other"
                   THEN [s EXCEPT !.kind = h.cap.kind, !.id = h.cap.id] ELSE s
  <2>1. st \in PolicyState
    BY ZenonT(30), <1>2, PolicyConstants DEF PolicyState, PolicyCap
  <2>2. MaySet(h.cap, st) /\ Applied(st) /\ UNCHANGED <<uses, held, threads, spawned, call>>
    BY ZenonT(30), <1>6 DEF SetPolicy
  <2> HIDE DEF st
  <2> QED BY ZenonT(30), <1>2, <2>1, <2>2, AppliedFine DEF PTypeOK, AuthorityNeverWidens
<1> QED BY ZenonT(30), <1>1, <1>3, <1>4, <1>5, <1>6

\* What sched_policy_get reads is a policy state.
LEMMA GotFine ==
  ASSUME PTypeOK, NEW kind \in {"task", "thread"}, NEW id, Found(kind, id)
  PROVE  Got(kind, id) \in PolicyState
<1>1. CASE kind = "task"
  <2>1. id \in PTasks /\ threads[id] \in Seq(PThreads) /\ threads[id] # <<>>
    BY ZenonT(30), <1>1 DEF Found, Live, PTypeOK
  <2>2. Head(threads[id]) \in PThreads
    BY <2>1
  <2> QED BY ZenonT(30), <1>1, <2>1, <2>2 DEF Got, PolicyState, PTypeOK, Targets
<1>2. CASE kind = "thread"
  <2>1. PICK k \in PTasks : id \in PRange(threads[k])
    BY ZenonT(30), <1>2 DEF Found
  <2>2. id \in PThreads
    BY <2>1 DEF PRange, PTypeOK
  <2> QED BY ZenonT(30), <1>2, <2>2 DEF Got, PolicyState, PTypeOK, Targets
<1> QED BY ZenonT(30), <1>1, <1>2

\* Writing a policy back leaves every policy legal, whether or not it is applied.
LEMMA WriteBackFine ==
  ASSUME PolicyInv, NEW o \in PTasks, call[o] # NoCall, NEW s \in PolicyState,
         WriteBack(o, s)
  PROVE  /\ taskPol' \in [PTasks -> [class : Classes, prio : Nat, cpus : SUBSET Online]]
         /\ thrPol' \in [PThreads -> [class : Classes, prio : Nat, weight : Nat,
                                      cpus : SUBSET Online]]
         /\ PoliciesLegal'
<1>1. CASE call[o].handle \in held[o] /\ MaySet(call[o].handle.cap, s)
  <2>1. Applied(s) BY ZenonT(30), <1>1 DEF WriteBack
  <2>2. call[o].handle.cap \in PolicyCap /\ Within(call[o].handle.cap)
    BY ZenonT(30), <1>1 DEF PolicyInv, PTypeOK, AuthorityNeverWidens, PolicyHandle
  <2> QED BY ZenonT(30), <1>1, <2>1, <2>2, AppliedFine DEF PolicyInv
<1>2. CASE ~(call[o].handle \in held[o] /\ MaySet(call[o].handle.cap, s))
  <2>1. UNCHANGED <<taskPol, thrPol>> BY ZenonT(30), <1>2 DEF WriteBack
  <2> QED BY ZenonT(30), <2>1 DEF PolicyInv, PTypeOK, PoliciesLegal
<1> QED BY ZenonT(30), <1>1, <1>2

\* Steps of the sched server.
LEMMA ServeKeeps ==
  ASSUME PolicyInv, ServeStep PROVE PolicyInv'
<1> USE DEF PolicyInv
<1>1. ASSUME NEW o \in PTasks, NEW h \in held[o], NEW kind \in {"task", "thread"},
             NEW id, ServeGet(o, h, kind, id)
      PROVE  PolicyInv'
  <2>1. h \in PolicyHandle /\ Within(h.cap)
    BY ZenonT(30) DEF PTypeOK, AuthorityNeverWidens
  <2>2. held' \in [PTasks -> SUBSET PolicyHandle] /\ AuthorityNeverWidens'
    BY ZenonT(30), <1>1, <2>1, PolicyConstants DEF ServeGet, PTypeOK, AuthorityNeverWidens
  <2>3. call' \in [PTasks -> [handle : PolicyHandle, state : PolicyState] \cup {NoCall}]
    BY ZenonT(30), <1>1, <2>1, GotFine, PolicyConstants DEF ServeGet, PTypeOK
  <2> QED BY ZenonT(30), <1>1, <2>2, <2>3 DEF ServeGet, PTypeOK, PoliciesLegal
<1>2. ASSUME call[Server] # NoCall, NEW n \in PolicyStates,
             NEW s \in ServeChanges(call[Server].state, n), ServeSet(s)
      PROVE  PolicyInv'
  <2>1. call[Server].state \in PolicyState /\ n \in PolicyState
    BY ZenonT(30), <1>2, PolicyConstants DEF PTypeOK
  <2>2. s \in PolicyState
    BY ZenonT(30), <2>1 DEF ServeChanges, PolicyState
  <2>3. call' \in [PTasks -> [handle : PolicyHandle, state : PolicyState] \cup {NoCall}]
    BY ZenonT(30), <1>2 DEF ServeSet, PTypeOK
  <2>4. WriteBack(Server, s) /\ UNCHANGED <<uses, held, threads, spawned>>
    BY ZenonT(30), <1>2 DEF ServeSet
  <2> QED BY ZenonT(30), <1>2, <2>2, <2>3, <2>4, WriteBackFine, PolicyConstants
          DEF PTypeOK, AuthorityNeverWidens
<1> QED BY ZenonT(30), <1>1, <1>2 DEF ServeStep

\* Steps of Linux system calls.
LEMMA LinuxKeeps ==
  ASSUME PolicyInv, LinuxStep PROVE PolicyInv'
<1> USE DEF PolicyInv
<1>1. ASSUME NEW o \in PTasks, NEW k \in PTasks, LinuxGet(o, k) PROVE PolicyInv'
  <2> DEFINE h == [cap |-> SystemCap, dup |-> FALSE]
  <2>1. h \in PolicyHandle /\ Within(h.cap)
    BY ZenonT(30), SystemCapFine DEF PolicyHandle
  <2>2. /\ held' = [held EXCEPT ![o] = @ \cup {h}]
        /\ call' = [call EXCEPT ![o] = [handle |-> h, state |-> Got("task", k)]]
        /\ Live(k) /\ UNCHANGED <<uses, taskPol, thrPol, threads, spawned>>
    BY ZenonT(30), <1>1 DEF LinuxGet
  <2> HIDE DEF h
  <2>3. Got("task", k) \in PolicyState
    BY ZenonT(30), <2>2, GotFine DEF Found
  <2>4. held' \in [PTasks -> SUBSET PolicyHandle] /\ AuthorityNeverWidens'
    BY ZenonT(30), <2>1, <2>2 DEF PTypeOK, AuthorityNeverWidens
  <2> QED BY ZenonT(30), <2>1, <2>2, <2>3, <2>4 DEF PTypeOK, PoliciesLegal
<1>2. ASSUME NEW o \in LinuxTasks, call[o] # NoCall, NEW n \in PolicyStates,
             NEW s \in LinuxChanges(call[o].state, n), LinuxSet(o, s)
      PROVE  PolicyInv'
  <2>1. o \in PTasks /\ call[o].state \in PolicyState /\ n \in PolicyState
    BY ZenonT(30), <1>2, PolicyConstants DEF PTypeOK
  <2>2. s \in PolicyState
    BY ZenonT(30), <2>1 DEF LinuxChanges, PolicyState
  <2>3. call' \in [PTasks -> [handle : PolicyHandle, state : PolicyState] \cup {NoCall}]
    BY ZenonT(30), <1>2 DEF LinuxSet, PTypeOK
  <2>4. WriteBack(o, s) /\ UNCHANGED <<uses, threads, spawned>>
    BY ZenonT(30), <1>2 DEF LinuxSet
  <2>5. held' \in [PTasks -> SUBSET PolicyHandle] /\ AuthorityNeverWidens'
    BY ZenonT(30), <1>2, <2>1 DEF LinuxSet, PTypeOK, AuthorityNeverWidens
  <2> QED BY ZenonT(30), <1>2, <2>1, <2>2, <2>3, <2>4, <2>5, WriteBackFine DEF PTypeOK
<1> QED BY ZenonT(30), <1>1, <1>2 DEF LinuxStep

\* Steps that make and end tasks and threads.
LEMMA LifeKeeps ==
  ASSUME PolicyInv, LifeStep PROVE PolicyInv'
<1> USE DEF PolicyInv
<1>0. ASSUME NEW k \in PTasks
      PROVE  /\ NewThread(taskPol[k]) \in [class : Classes, prio : Nat, weight : Nat,
                                           cpus : SUBSET Online]
             /\ Legal(NewThread(taskPol[k])) /\ NewThread(taskPol[k]).weight \in 1..MaxWeight
  BY PolicyConstants DEF NewThread, Legal, PTypeOK, PoliciesLegal
<1>1. ASSUME NEW k \in PTasks, ExitTask(k) PROVE PolicyInv'
  <2>1. held' \in [PTasks -> SUBSET PolicyHandle] /\ AuthorityNeverWidens'
    BY ZenonT(30), <1>1 DEF ExitTask, PTypeOK, AuthorityNeverWidens
  <2> QED BY <1>1, <2>1 DEF ExitTask, PTypeOK, PoliciesLegal
<1>2. ASSUME NEW k \in PTasks, NEW t \in PThreads, CreateThread(k, t) PROVE PolicyInv'
  <2>1. thrPol' \in [PThreads -> [class : Classes, prio : Nat, weight : Nat,
                                  cpus : SUBSET Online]] /\ PoliciesLegal'
    BY ZenonT(30), <1>0, <1>2 DEF CreateThread, PTypeOK, PoliciesLegal
  <2>2. threads' \in [PTasks -> Seq(PThreads)]
    BY <1>2 DEF CreateThread, PTypeOK
  <2> QED BY ZenonT(30), <1>2, <2>1, <2>2 DEF CreateThread, PTypeOK, AuthorityNeverWidens
<1>3. ASSUME NEW o \in PTasks, NEW k \in PTasks, NEW t \in PThreads, ForkTask(o, k, t)
      PROVE  PolicyInv'
  <2>1. /\ thrPol' \in [PThreads -> [class : Classes, prio : Nat, weight : Nat,
                                     cpus : SUBSET Online]]
        /\ taskPol' \in [PTasks -> [class : Classes, prio : Nat, cpus : SUBSET Online]]
        /\ PoliciesLegal'
    BY ZenonT(30), <1>0, <1>3 DEF ForkTask, PTypeOK, PoliciesLegal
  <2>2. threads' \in [PTasks -> Seq(PThreads)]
    BY <1>3 DEF ForkTask, PTypeOK
  <2>3. held' \in [PTasks -> SUBSET PolicyHandle] /\ AuthorityNeverWidens'
    BY ZenonT(30), <1>3 DEF ForkTask, PTypeOK, AuthorityNeverWidens
  <2> QED BY ZenonT(30), <1>3, <2>1, <2>2, <2>3 DEF ForkTask, PTypeOK
<1> QED BY ZenonT(30), <1>1, <1>2, <1>3 DEF LifeStep

\* Every capability in any handle table is within the system capability that
\* grant_bootstrap_caps made, and every policy in force is legal, for any number
\* of tasks and any requests.
THEOREM PolicySafe == PSpec => []PolicySound
<1>1. PolicyInv /\ [PNext]_pVars => PolicyInv'
  <2> SUFFICES ASSUME PolicyInv, [PNext]_pVars PROVE PolicyInv'  BY ZenonT(30)
  <2>1. CASE UNCHANGED pVars
    BY ZenonT(30), <2>1 DEF pVars, PolicyInv, PTypeOK, AuthorityNeverWidens, PoliciesLegal
  <2> QED BY ZenonT(30), <2>1, TravelKeeps, ServeKeeps, LinuxKeeps, LifeKeeps DEF PNext
<1>2. PolicyInv => PolicySound
  BY ZenonT(30) DEF PolicyInv, PolicySound
<1> QED BY <1>1, <1>2, PolicyInit, PTL DEF PSpec
-----------------------------------------------------------------------------
\* A thread belongs to one task, and identifiers are not used again.
OneOwner ==
  /\ \A k \in PTasks : PRange(threads[k]) \subseteq spawned /\ (Live(k) => k \in spawned)
  /\ \A k, l \in PTasks : k # l => PRange(threads[k]) \cap PRange(threads[l]) = {}

\* Putting a thread at the head of a list adds just that thread.
LEMMA RangeOfCons ==
  ASSUME NEW s \in Seq(PThreads), NEW t \in PThreads
  PROVE  PRange(<<t>> \o s) = PRange(s) \cup {t} /\ PRange(<<t>>) = {t}
<1> DEFINE u == <<t>> \o s
<1>1. /\ DOMAIN s = 1..Len(s) /\ Len(s) \in Nat
      /\ DOMAIN u = 1..(Len(s) + 1) /\ u[1] = t
      /\ \A i \in 1..Len(s) : u[i + 1] = s[i]
  OBVIOUS
<1> HIDE DEF u
<1>2. PRange(u) \subseteq PRange(s) \cup {t}
  <2> SUFFICES ASSUME NEW i \in 1..(Len(s) + 1) PROVE u[i] \in PRange(s) \cup {t}
    BY ZenonT(30), <1>1 DEF PRange
  <2>1. CASE i = 1  BY ZenonT(30), <1>1, <2>1
  <2>2. CASE i # 1
    <3>1. i - 1 \in 1..Len(s) /\ (i - 1) + 1 = i  BY <1>1, <2>2
    <3> QED BY ZenonT(30), <1>1, <3>1 DEF PRange
  <2> QED BY ZenonT(30), <2>1, <2>2
<1>3. t \in PRange(u)
  BY <1>1 DEF PRange
<1>4. PRange(s) \subseteq PRange(u)
  <2> SUFFICES ASSUME NEW i \in 1..Len(s) PROVE s[i] \in PRange(u)
    BY ZenonT(30), <1>1 DEF PRange
  <2>1. i + 1 \in 1..(Len(s) + 1)  BY <1>1
  <2> QED BY ZenonT(30), <1>1, <2>1 DEF PRange
<1>5. PRange(<<t>>) = {t}
  BY DEF PRange
<1> QED BY ZenonT(30), <1>2, <1>3, <1>4, <1>5 DEF u

\* The thread lists keep their shape in every step.
LEMMA OneOwnerStep ==
  ASSUME PTypeOK, OneOwner, [PNext]_pVars PROVE OneOwner'
<1>1. CASE UNCHANGED <<threads, spawned>>
  BY ZenonT(30), <1>1 DEF OneOwner, Live
<1>2. ASSUME NEW k \in PTasks, ExitTask(k) PROVE OneOwner'
  <2>1. spawned' = spawned /\ threads' = [threads EXCEPT ![k] = <<>>]
    BY ZenonT(30), <1>2 DEF ExitTask
  <2>2. \A l \in PTasks : threads'[l] = threads[l] \/ threads'[l] = <<>>
    BY ZenonT(30), <2>1 DEF PTypeOK
  <2>3. PRange(<<>>) = {}
    BY DEF PRange
  <2> QED BY ZenonT(30), <2>1, <2>2, <2>3 DEF OneOwner, Live
<1>3. ASSUME NEW k \in PTasks, NEW t \in PThreads, CreateThread(k, t) PROVE OneOwner'
  <2>1. /\ Live(k) /\ t \notin spawned /\ spawned' = spawned \cup {t}
        /\ threads'[k] = <<t>> \o threads[k]
        /\ \A l \in PTasks \ {k} : threads'[l] = threads[l]
    BY ZenonT(30), <1>3 DEF CreateThread, PTypeOK
  <2>2. PRange(threads'[k]) = PRange(threads[k]) \cup {t}
    BY ZenonT(30), <2>1, RangeOfCons DEF PTypeOK
  <2>3. \A l \in PTasks : PRange(threads'[l]) \subseteq PRange(threads[l]) \cup {t}
                         /\ (l # k => PRange(threads'[l]) = PRange(threads[l]))
    BY ZenonT(30), <2>1, <2>2
  <2>4. \A l \in PTasks : PRange(threads'[l]) \subseteq spawned'
                         /\ (threads'[l] # <<>> => l \in spawned')
    BY ZenonT(30), <2>1, <2>3 DEF OneOwner, Live
  <2>5. ASSUME NEW a \in PTasks, NEW b \in PTasks, a # b
        PROVE  PRange(threads'[a]) \cap PRange(threads'[b]) = {}
    <3>1. PRange(threads[a]) \cap PRange(threads[b]) = {} /\ t \notin PRange(threads[a])
          /\ t \notin PRange(threads[b])
      BY ZenonT(30), <2>1, <2>5 DEF OneOwner
    <3>2. CASE a = k  BY ZenonT(30), <2>2, <2>3, <2>5, <3>1, <3>2
    <3>3. CASE b = k  BY ZenonT(30), <2>2, <2>3, <2>5, <3>1, <3>3
    <3>4. CASE a # k /\ b # k  BY ZenonT(30), <2>3, <3>1, <3>4
    <3> QED BY ZenonT(30), <3>2, <3>3, <3>4
  <2> QED BY ZenonT(30), <2>4, <2>5 DEF OneOwner, Live
<1>4. ASSUME NEW o \in PTasks, NEW k \in PTasks, NEW t \in PThreads, ForkTask(o, k, t)
      PROVE  OneOwner'
  <2>1. /\ t \notin spawned /\ spawned' = spawned \cup {k, t}
        /\ threads'[k] = <<t>>
        /\ \A l \in PTasks \ {k} : threads'[l] = threads[l]
    BY ZenonT(30), <1>4 DEF ForkTask, PTypeOK
  <2>2. PRange(threads'[k]) = {t}
    BY ZenonT(30), <2>1, RangeOfCons DEF PTypeOK
  <2>3. \A l \in PTasks : PRange(threads'[l]) \subseteq PRange(threads[l]) \cup {t}
                         /\ (l # k => PRange(threads'[l]) = PRange(threads[l]))
    BY ZenonT(30), <2>1, <2>2
  <2>4. \A l \in PTasks : PRange(threads'[l]) \subseteq spawned'
                         /\ (threads'[l] # <<>> => l \in spawned')
    BY ZenonT(30), <2>1, <2>3 DEF OneOwner, Live
  <2>5. \A a, b \in PTasks : a # b => PRange(threads'[a]) \cap PRange(threads'[b]) = {}
    BY <2>1, <2>2, <2>3 DEF OneOwner
  <2> QED BY ZenonT(30), <2>4, <2>5 DEF OneOwner, Live
<1>5. CASE TravelStep
  <2>1. ASSUME NEW o \in PTasks, NEW k \in PTasks, NEW h \in held[o], NEW dup \in BOOLEAN,
               Pass(o, k, h, dup)
        PROVE  UNCHANGED <<threads, spawned>>
    BY ZenonT(30), <2>1 DEF Pass
  <2>2. ASSUME NEW o \in PTasks, NEW k \in PTasks, NEW h \in held[o], NEW r \in Requests,
               Grant(o, h, k, r)
        PROVE  UNCHANGED <<threads, spawned>>
    BY ZenonT(30), <2>2 DEF Grant
  <2>3. ASSUME NEW o \in PTasks, NEW h \in held[o], CloseCap(o, h)
        PROVE  UNCHANGED <<threads, spawned>>
    BY ZenonT(30), <2>3 DEF CloseCap
  <2>4. ASSUME NEW o \in PTasks, NEW h \in held[o], NEW s \in PolicyStates,
               SetPolicy(o, h, s)
        PROVE  UNCHANGED <<threads, spawned>>
    BY ZenonT(30), <2>4 DEF SetPolicy
  <2>5. UNCHANGED <<threads, spawned>>
    BY <1>5, <2>1, <2>2, <2>3, <2>4, Zenon DEF TravelStep
  <2> QED BY ZenonT(30), <1>1, <2>5
<1>6. CASE ServeStep
  BY ZenonT(30), <1>1, <1>6 DEF ServeStep, ServeGet, ServeSet
<1>7. CASE LinuxStep
  BY ZenonT(30), <1>1, <1>7 DEF LinuxStep, LinuxGet, LinuxSet
<1>8. CASE LifeStep
  BY ZenonT(30), <1>2, <1>3, <1>4, <1>8 DEF LifeStep
<1>9. CASE UNCHANGED pVars
  BY ZenonT(30), <1>1, <1>9 DEF pVars
<1> QED BY ZenonT(30), <1>5, <1>6, <1>7, <1>8, <1>9 DEF PNext
Kept(y) == /\ taskPol'[y] = taskPol[y]
           /\ \A t \in PRange(threads[y]) : thrPol'[t] = thrPol[t]

\* A capability that does not cover y cannot change the policy of y.
LEMMA AppliedOutside ==
  ASSUME PTypeOK, OneOwner, NEW y \in PTasks, NEW c \in PolicyCap, ~CoversTask(c, y),
         NEW s \in PolicyState, MaySet(c, s), Applied(s)
  PROVE  Kept(y)
<1>1. /\ PRange(threads[y]) \subseteq PThreads
      /\ c.kind = s.kind /\ c.id = s.id /\ s.kind \in {"task", "thread"}
  BY SMTT(30) DEF CoversTask, MaySet, StateAllowed, AllowsTarget, Found, PRange, PTypeOK
<1>2. CASE s.kind = "task"
  <2>1. s.id \in PTasks /\ s.id # y
    BY ZenonT(30), <1>1, <1>2 DEF CoversTask, MaySet, Found
  <2>2. PRange(threads[s.id]) \cap PRange(threads[y]) = {}
    BY ZenonT(30), <2>1 DEF OneOwner
  <2> QED BY ZenonT(30), <1>1, <1>2, <2>1, <2>2 DEF Applied, Kept
<1>3. CASE s.kind = "thread"
  <2>1. s.id \notin PRange(threads[y])
    BY ZenonT(30), <1>1, <1>3 DEF CoversTask
  <2> QED BY ZenonT(30), <1>1, <1>3, <2>1 DEF Applied, Kept
<1> QED BY ZenonT(30), <1>1, <1>2, <1>3

\* A derived capability covers no task that its parent does not.
LEMMA DerivedCovers ==
  ASSUME NEW y \in PTasks, NEW p, NEW c, Attenuated(p, c), CoversTask(c, y)
  PROVE  CoversTask(p, y)
  BY ZenonT(30) DEF Attenuated, AllowsTarget, CoversTask

\* Handles that move without a new thread do not bring new cover.
LEMMA NoNewCover ==
  ASSUME NEW y \in PTasks, ~Covered(y), threads'[y] = threads[y],
         \A k \in PTasks : \A h \in held'[k] :
           CoversTask(h.cap, y) => \E l \in PTasks : \E g \in held[l] : CoversTask(g.cap, y)
  PROVE  ~Covered(y)'
<1> SUFFICES ASSUME NEW k \in PTasks, NEW h \in held'[k], CoversTask(h.cap, y)'
             PROVE  FALSE
  BY ZenonT(30) DEF Covered
<1>1. CoversTask(h.cap, y)
  BY ZenonT(30) DEF CoversTask
<1> QED BY ZenonT(30), <1>1 DEF Covered

\* Steps that move or apply capabilities.
LEMMA TravelConfined ==
  ASSUME PolicyInv, OneOwner, TravelStep, NEW y \in PTasks, ~Covered(y)
  PROVE  Kept(y) /\ ~Covered(y)'
<1>0. PICK o \in PTasks : \E h \in held[o] :
        \/ \E k \in PTasks : \E dup \in BOOLEAN : Pass(o, k, h, dup)
        \/ \E k \in PTasks : \E r \in Requests : Grant(o, h, k, r)
        \/ CloseCap(o, h)
        \/ \E s \in PolicyStates : SetPolicy(o, h, s)
  BY ZenonT(30) DEF TravelStep
<1>1. PICK h \in held[o] :
        \/ \E k \in PTasks : \E dup \in BOOLEAN : Pass(o, k, h, dup)
        \/ \E k \in PTasks : \E r \in Requests : Grant(o, h, k, r)
        \/ CloseCap(o, h)
        \/ \E s \in PolicyStates : SetPolicy(o, h, s)
  BY ZenonT(30), <1>0
<1>2. h \in PolicyHandle /\ h.cap \in PolicyCap /\ ~CoversTask(h.cap, y)
  BY DEF PolicyInv, PTypeOK, PolicyHandle, Covered
<1>3. ASSUME NEW k \in PTasks, NEW dup \in BOOLEAN, Pass(o, k, h, dup)
      PROVE  Kept(y) /\ ~Covered(y)'
  <2>1. /\ UNCHANGED <<taskPol, thrPol, threads>>
        /\ held' = [held EXCEPT ![k] = @ \cup {[h EXCEPT !.dup = dup]}]
    BY ZenonT(30), <1>3 DEF Pass
  <2>2. [h EXCEPT !.dup = dup].cap = h.cap
    BY ZenonT(30), <1>2 DEF PolicyHandle
  <2>3. \A l \in PTasks : \A g \in held'[l] : g \in held[l] \/ g.cap = h.cap
    BY ZenonT(30), <2>1, <2>2 DEF PolicyInv, PTypeOK
  <2> QED BY ZenonT(30), <1>2, <2>1, <2>3, NoNewCover DEF Kept
<1>4. ASSUME NEW k \in PTasks, NEW r \in Requests, Grant(o, h, k, r)
      PROVE  Kept(y) /\ ~Covered(y)'
  <2> DEFINE child == IF r.kind = "task" /\ r.id = 0 THEN [r EXCEPT !.id = k] ELSE r
             g == [cap |-> child, dup |-> TRUE]
  <2>1. /\ UNCHANGED <<taskPol, thrPol, threads>> /\ Attenuated(h.cap, child)
        /\ held' = [held EXCEPT ![k] = @ \cup {g}]
    BY ZenonT(30), <1>4 DEF Grant
  <2>2. ~CoversTask(child, y)
    BY ZenonT(30), <1>2, <2>1, DerivedCovers
  <2>3. g.cap = child
    BY ZenonT(30)
  <2> HIDE DEF child, g
  <2>4. \A l \in PTasks : \A f \in held'[l] : f \in held[l] \/ f = g
    BY ZenonT(30), <2>1 DEF PolicyInv, PTypeOK
  <2> QED BY ZenonT(30), <2>1, <2>2, <2>3, <2>4, NoNewCover DEF Kept
<1>5. CASE CloseCap(o, h)
  <2>1. \A l \in PTasks : \A g \in held'[l] : g \in held[l]
    BY ZenonT(30), <1>5 DEF CloseCap, PolicyInv, PTypeOK
  <2> QED BY ZenonT(30), <1>5, <2>1, NoNewCover DEF CloseCap, Kept
<1>6. ASSUME NEW s \in PolicyStates, SetPolicy(o, h, s)
      PROVE  Kept(y) /\ ~Covered(y)'
  <2> DEFINE st == IF s.kind = "other"
                   THEN [s EXCEPT !.kind = h.cap.kind, !.id = h.cap.id] ELSE s
  <2>1. st \in PolicyState
    BY ZenonT(30), <1>2, PolicyConstants DEF PolicyState, PolicyCap
  <2>2. MaySet(h.cap, st) /\ Applied(st) /\ UNCHANGED <<held, threads>>
    BY ZenonT(30), <1>6 DEF SetPolicy
  <2> HIDE DEF st
  <2> QED BY ZenonT(30), <1>2, <2>1, <2>2, AppliedOutside, NoNewCover DEF PolicyInv
<1> QED BY ZenonT(30), <1>1, <1>3, <1>4, <1>5, <1>6

\* Steps of the sched server.
LEMMA ServeConfined ==
  ASSUME PolicyInv, OneOwner, ServeStep, NEW y \in PTasks, ~Covered(y)
  PROVE  Kept(y) /\ ~Covered(y)'
<1>1. ASSUME NEW o \in PTasks, NEW h \in held[o], NEW kind, NEW id, ServeGet(o, h, kind, id)
      PROVE  Kept(y) /\ ~Covered(y)'
  <2>1. \A l \in PTasks : \A g \in held'[l] : g \in held[l] \/ g = h
    BY ZenonT(30), <1>1 DEF ServeGet, PolicyInv, PTypeOK
  <2> QED BY ZenonT(30), <1>1, <2>1, NoNewCover DEF ServeGet, Kept
<1>2. ASSUME call[Server] # NoCall, NEW n \in PolicyStates,
             NEW s \in ServeChanges(call[Server].state, n), ServeSet(s)
      PROVE  Kept(y) /\ ~Covered(y)'
  <2>1. call[Server].state \in PolicyState /\ n \in PolicyState
    BY ZenonT(30), <1>2, PolicyConstants DEF PolicyInv, PTypeOK
  <2>2. s \in PolicyState
    BY ZenonT(30), <2>1 DEF ServeChanges, PolicyState
  <2>3. WriteBack(Server, s) /\ UNCHANGED <<held, threads>>
    BY ZenonT(30), <1>2 DEF ServeSet
  <2>4. CASE call[Server].handle \in held[Server] /\ MaySet(call[Server].handle.cap, s)
    <3>1. /\ call[Server].handle.cap \in PolicyCap
          /\ ~CoversTask(call[Server].handle.cap, y) /\ Applied(s)
      BY <2>3, <2>4, PolicyConstants DEF PolicyInv, PTypeOK, PolicyHandle, Covered, WriteBack
    <3> QED BY ZenonT(30), <2>2, <2>3, <2>4, <3>1, AppliedOutside, NoNewCover DEF PolicyInv
  <2>5. CASE ~(call[Server].handle \in held[Server] /\ MaySet(call[Server].handle.cap, s))
    BY ZenonT(30), <2>3, <2>5, NoNewCover DEF WriteBack, Kept
  <2> QED BY ZenonT(30), <2>4, <2>5
<1> QED BY ZenonT(30), <1>1, <1>2 DEF ServeStep

\* Steps of Linux system calls: the first of them may bring cover.
LEMMA LinuxConfined ==
  ASSUME PolicyInv, OneOwner, LinuxStep, NEW y \in PTasks, ~Covered(y)
  PROVE  /\ Kept(y)
         /\ Covered(y)' => \E k \in LinuxTasks : call[k] = NoCall /\ call'[k] # NoCall
<1>1. ASSUME NEW o \in PTasks, NEW k \in PTasks, LinuxGet(o, k)
      PROVE  Kept(y) /\ o \in LinuxTasks /\ call[o] = NoCall /\ call'[o] # NoCall
  <2>1. call'[o] = [handle |-> [cap |-> SystemCap, dup |-> FALSE], state |-> Got("task", k)]
    BY ZenonT(30), <1>1 DEF LinuxGet, PolicyInv, PTypeOK
  <2>2. call'[o] # NoCall
    <3>1. [cap |-> SystemCap, dup |-> FALSE] \in PolicyHandle
      BY ZenonT(30), SystemCapFine DEF PolicyHandle
    <3>2. Got("task", k) \in PolicyState
      BY ZenonT(30), <1>1, GotFine DEF LinuxGet, Found, PolicyInv
    <3>3. call'[o] \in [handle : PolicyHandle, state : PolicyState]
      BY SMTT(30), <2>1, <3>1, <3>2
    <3> QED BY ZenonT(30), <3>3, NoCallFresh
  <2> QED BY ZenonT(30), <1>1, <2>2 DEF LinuxGet, Kept
<1>2. ASSUME NEW o \in LinuxTasks, call[o] # NoCall, NEW n \in PolicyStates,
             NEW s \in LinuxChanges(call[o].state, n), LinuxSet(o, s)
      PROVE  Kept(y) /\ ~Covered(y)'
  <2>1. o \in PTasks /\ call[o].state \in PolicyState /\ n \in PolicyState
    BY ZenonT(30), <1>2, PolicyConstants DEF PolicyInv, PTypeOK
  <2>2. s \in PolicyState
    BY ZenonT(30), <2>1 DEF LinuxChanges, PolicyState
  <2>3. WriteBack(o, s) /\ UNCHANGED threads
    BY ZenonT(30), <1>2 DEF LinuxSet
  <2>4. \A l \in PTasks : \A g \in held'[l] : g \in held[l]
    BY ZenonT(30), <1>2 DEF LinuxSet, PolicyInv, PTypeOK
  <2>5. CASE call[o].handle \in held[o] /\ MaySet(call[o].handle.cap, s)
    <3>1. /\ call[o].handle.cap \in PolicyCap
          /\ ~CoversTask(call[o].handle.cap, y) /\ Applied(s)
      BY SMTT(30), <2>1, <2>3, <2>5 DEF PolicyInv, PTypeOK, PolicyHandle, Covered, WriteBack
    <3> QED BY ZenonT(30), <2>2, <2>3, <2>4, <2>5, <3>1, AppliedOutside, NoNewCover DEF PolicyInv
  <2>6. CASE ~(call[o].handle \in held[o] /\ MaySet(call[o].handle.cap, s))
    BY ZenonT(30), <2>3, <2>4, <2>6, NoNewCover DEF WriteBack, Kept
  <2> QED BY ZenonT(30), <2>5, <2>6
<1> QED BY ZenonT(30), <1>1, <1>2 DEF LinuxStep
\* Steps that make and end tasks and threads.
LEMMA LifeConfined ==
  ASSUME PolicyInv, OneOwner, LifeStep, NEW y \in PTasks, Live(y), ~Covered(y)
  PROVE  Kept(y) /\ (Covered(y)' => threads'[y] # threads[y])
<1>0. PRange(threads[y]) \subseteq spawned /\ y \in spawned
  BY ZenonT(30) DEF OneOwner
<1>1. ASSUME NEW k \in PTasks, ExitTask(k)
      PROVE  Kept(y) /\ (Covered(y)' => threads'[y] # threads[y])
  <2>1. \A l \in PTasks : \A g \in held'[l] : g \in held[l]
    BY ZenonT(30), <1>1 DEF ExitTask, PolicyInv, PTypeOK
  <2> QED BY ZenonT(30), <1>1, <2>1, NoNewCover DEF ExitTask, Kept
<1>2. ASSUME NEW k \in PTasks, NEW t \in PThreads, CreateThread(k, t)
      PROVE  Kept(y) /\ (Covered(y)' => threads'[y] # threads[y])
  <2>1. Kept(y)
    BY SMTT(30), <1>0, <1>2 DEF CreateThread, Kept, PolicyInv, PTypeOK
  <2> QED BY ZenonT(30), <1>2, <2>1, NoNewCover DEF CreateThread
<1>3. ASSUME NEW o \in PTasks, NEW k \in PTasks, NEW t \in PThreads, ForkTask(o, k, t)
      PROVE  Kept(y) /\ (Covered(y)' => threads'[y] # threads[y])
  <2>1. k # y /\ t \notin PRange(threads[y])
    BY ZenonT(30), <1>0, <1>3 DEF ForkTask
  <2>2. Kept(y)
    BY <1>3, <2>1 DEF ForkTask, Kept, PolicyInv, PTypeOK
  <2>3. \A l \in PTasks : \A g \in held'[l] : \E j \in PTasks : g \in held[j]
    BY ZenonT(30), <1>3 DEF ForkTask, PolicyInv, PTypeOK
  <2> QED BY ZenonT(30), <2>2, <2>3, NoNewCover
<1> QED BY ZenonT(30), <1>1, <1>2, <1>3 DEF LifeStep

\* Whatever programs do with the capabilities they have, a task that none of them
\* covers keeps its class, priority, weight and CPU mask.
THEOREM PolicyConfined == PSpec => Confined
<1> DEFINE Step == \A y \in PTasks : Live(y) /\ ~Covered(y) =>
                     /\ taskPol'[y] = taskPol[y]
                     /\ \A t \in PRange(threads[y]) : thrPol'[t] = thrPol[t]
                     /\ Covered(y)' =>
                          \/ \E k \in LinuxTasks : call[k] = NoCall /\ call'[k] # NoCall
                          \/ threads'[y] # threads[y]
<1>1. PInit => PolicyInv /\ OneOwner
  <2> SUFFICES ASSUME PInit PROVE PolicyInv /\ OneOwner  BY ZenonT(30)
  <2>1. PolicyInv BY ZenonT(30), PolicyInit
  <2>2. \A k \in PTasks : PRange(threads[k]) \subseteq spawned /\ (Live(k) => k \in spawned)
    BY ZenonT(30) DEF PInit, Live
  <2>3. \A k, l \in PTasks : k # l => PRange(threads[k]) \cap PRange(threads[l]) = {}
    BY PolicyConstants DEF PInit, PRange
  <2> QED BY ZenonT(30), <2>1, <2>2, <2>3 DEF OneOwner
<1>2. PolicyInv /\ OneOwner /\ [PNext]_pVars => PolicyInv' /\ OneOwner'
  <2> SUFFICES ASSUME PolicyInv, OneOwner, [PNext]_pVars PROVE PolicyInv' /\ OneOwner'
    BY ZenonT(30)
  <2>1. PolicyInv'
    <3>1. CASE UNCHANGED pVars
      BY ZenonT(30), <3>1 DEF pVars, PolicyInv, PTypeOK, AuthorityNeverWidens, PoliciesLegal
    <3> QED BY ZenonT(30), <3>1, TravelKeeps, ServeKeeps, LinuxKeeps, LifeKeeps DEF PNext
  <2>2. OneOwner'
    BY ZenonT(30), OneOwnerStep DEF PolicyInv
  <2> QED BY ZenonT(30), <2>1, <2>2
<1>3. PolicyInv /\ OneOwner /\ [PNext]_pVars => [Step]_pVars
  <2> SUFFICES ASSUME PolicyInv, OneOwner, PNext PROVE Step
    BY ZenonT(30)
  <2> QED BY ZenonT(30), TravelConfined, ServeConfined, LinuxConfined, LifeConfined DEF PNext, Kept
<1>4. ([][Step]_pVars) => Confined
  BY ZenonT(30) DEF Confined
<1> QED BY <1>1, <1>2, <1>3, <1>4, PTL DEF PSpec

-----------------------------------------------------------------------------
(* The run queue                                                             *)

\* The inductive invariant of the run queue: times are integers, the running
\* thread is not queued, and the queue is in order.
OrderInv ==
  /\ queue \in Seq(EThreads) /\ cur \in EThreads \cup {NoOne} /\ cur \notin Queued
  /\ weight \in [EThreads -> Weights] /\ ran \in Nat /\ slept \in [EThreads -> Nat]
  /\ vr \in [EThreads -> Int] /\ dl \in [EThreads -> Int]
  /\ QueueInOrder

\* Every non-empty set of natural numbers has a least one.
LEMMA LeastOf ==
  ASSUME NEW S \in SUBSET Nat, S # {}
  PROVE  \E m \in S : \A k \in S : m <= k
  <1>1. \E m \in S : \A k \in S : ~(<<k, m>> \in OpToRel(<, Nat))
    BY ZenonT(30), NatLessThanWellFounded, WFMin
  <1>2. \A k \in S, m \in S : ~(<<k, m>> \in OpToRel(<, Nat)) => m <= k
    BY DEF OpToRel
  <1> QED
    BY ZenonT(30), <1>1, <1>2

\* runq_push stops at a place before which all threads go ahead of the new one
\* and at which none or one that does not.
LEMMA PushPlace ==
  ASSUME NEW n \in Nat, NEW ahead
  PROVE  \E k \in 0..n : (\A i \in 1..k : i \in ahead) /\ (k < n => (k + 1) \notin ahead)
  <1>1. CASE \A i \in 1..n : i \in ahead
    BY <1>1
  <1>2. CASE \E i \in 1..n : i \notin ahead
    <2> DEFINE S == {i \in 1..n : i \notin ahead}
    <2>1. PICK m \in S : \A k \in S : m <= k
      <3>1. S \in SUBSET Nat /\ S # {}
        BY <1>2
      <3> QED
        BY ZenonT(30), <3>1, LeastOf
    <2>2. m - 1 \in 0..n /\ (\A i \in 1..(m - 1) : i \in ahead) /\ (m - 1) + 1 \notin ahead
      BY <2>1
    <2> QED
      BY ZenonT(30), <2>2
  <1> QED
    BY ZenonT(30), <1>1, <1>2

\* Sequence r is q with t put in after the first n: every other place of r
\* comes from a place of q, in the same order.
Inserted(r, q, t, n) ==
  /\ Len(r) = Len(q) + 1
  /\ \A i \in 1..n : r[i] = q[i]
  /\ r[n + 1] = t
  /\ \A i \in (n + 1)..Len(q) : r[i + 1] = q[i]

\* What a concatenation holds at each place.
LEMMA Concatenated ==
  ASSUME NEW T, NEW a \in Seq(T), NEW b \in Seq(T)
  PROVE  /\ a \o b \in Seq(T) /\ Len(a \o b) = Len(a) + Len(b)
         /\ \A i \in 1..Len(a) : (a \o b)[i] = a[i]
         /\ \A i \in 1..Len(b) : (a \o b)[Len(a) + i] = b[i]
  OBVIOUS

\* runq_push puts a thread in and moves no other past another.
LEMMA InsertFacts ==
  ASSUME NEW T, NEW q \in Seq(T), NEW t \in T, NEW n \in 0..Len(q), NEW r,
         r = SubSeq(q, 1, n) \o <<t>> \o SubSeq(q, n + 1, Len(q))
  PROVE  r \in Seq(T) /\ Inserted(r, q, t, n)
  <1>1. PICK a \in Seq(T) : a = SubSeq(q, 1, n) /\ Len(a) = n /\ \A i \in 1..n : a[i] = q[i]
    <2>1. /\ SubSeq(q, 1, n) \in Seq(T) /\ Len(SubSeq(q, 1, n)) = n
          /\ \A i \in 1..n : SubSeq(q, 1, n)[i] = q[i]
      OBVIOUS
    <2> QED
      BY ZenonT(30), <2>1
  <1>2. PICK b \in Seq(T) : /\ b = SubSeq(q, n + 1, Len(q)) /\ Len(b) = Len(q) - n
                            /\ \A i \in 1..(Len(q) - n) : b[i] = q[n + i]
    <2>1. /\ SubSeq(q, n + 1, Len(q)) \in Seq(T) /\ Len(SubSeq(q, n + 1, Len(q))) = Len(q) - n
          /\ \A i \in 1..(Len(q) - n) : SubSeq(q, n + 1, Len(q))[i] = q[n + i]
      OBVIOUS
    <2> QED
      BY ZenonT(30), <2>1
  <1>3. PICK w \in Seq(T) : w = <<t>> /\ Len(w) = 1 /\ w[1] = t
    <2>1. <<t>> \in Seq(T) /\ Len(<<t>>) = 1 /\ <<t>>[1] = t
      OBVIOUS
    <2> QED
      BY ZenonT(30), <2>1
  <1>4. PICK c \in Seq(T) : /\ c = a \o w /\ Len(c) = Len(a) + Len(w)
                            /\ \A i \in 1..Len(a) : c[i] = a[i]
                            /\ \A i \in 1..Len(w) : c[Len(a) + i] = w[i]
    <2>1. /\ a \o w \in Seq(T) /\ Len(a \o w) = Len(a) + Len(w)
          /\ \A i \in 1..Len(a) : (a \o w)[i] = a[i]
          /\ \A i \in 1..Len(w) : (a \o w)[Len(a) + i] = w[i]
      BY Concatenated
    <2> QED
      BY ZenonT(30), <2>1
  <1>5. /\ r \in Seq(T) /\ Len(r) = Len(c) + Len(b)
        /\ \A i \in 1..Len(c) : r[i] = c[i]
        /\ \A i \in 1..Len(b) : r[Len(c) + i] = b[i]
    <2>1. r = c \o b
      BY ZenonT(30), <1>1, <1>2, <1>3, <1>4
    <2>2. /\ c \o b \in Seq(T) /\ Len(c \o b) = Len(c) + Len(b)
          /\ \A i \in 1..Len(c) : (c \o b)[i] = c[i]
          /\ \A i \in 1..Len(b) : (c \o b)[Len(c) + i] = b[i]
      BY Concatenated
    <2> QED
      BY ZenonT(30), <2>1, <2>2
  <1>6. Len(q) \in Nat /\ Len(a) = n /\ Len(c) = n + 1 /\ Len(b) = Len(q) - n
    BY <1>1, <1>2, <1>3, <1>4
  <1>7. Len(r) = Len(q) + 1
    <2>1. Len(r) = Len(c) + Len(b)
      BY ZenonT(30), <1>5
    <2>2. \A x \in Nat : \A y \in 0..x : (y + 1) + (x - y) = x + 1
      OBVIOUS
    <2> QED
      BY ZenonT(30), <1>6, <2>1, <2>2
  <1>8. r[n + 1] = t
    <2>1. 1 \in 1..Len(w) /\ n + 1 \in 1..Len(c)
      BY <1>3, <1>6
    <2>2. c[n + 1] = t
      BY ZenonT(30), <1>3, <1>4, <1>6, <2>1
    <2> QED
      BY ZenonT(30), <1>5, <2>1, <2>2
  <1>9. ASSUME NEW i \in 1..n PROVE r[i] = q[i]
    <2>1. i \in 1..Len(a) /\ i \in 1..Len(c)
      BY <1>6
    <2> QED
      BY ZenonT(30), <1>1, <1>4, <1>5, <2>1
  <1>10. ASSUME NEW i \in (n + 1)..Len(q) PROVE r[i + 1] = q[i]
    <2>1. /\ i - n \in 1..Len(b) /\ i - n \in 1..(Len(q) - n)
          /\ Len(c) + (i - n) = i + 1 /\ n + (i - n) = i
      BY <1>6
    <2>2. r[Len(c) + (i - n)] = b[i - n] /\ b[i - n] = q[n + (i - n)]
      BY ZenonT(30), <1>2, <1>5, <2>1
    <2> QED
      BY ZenonT(30), <2>1, <2>2
  <1> QED
    BY ZenonT(30), <1>5, <1>7, <1>8, <1>9, <1>10 DEF Inserted

\* Where two places of the new queue come from.
PlacesFrom(r, q, t, n) ==
  \A i, j \in 1..(Len(q) + 1) : i < j =>
    \/ \E x, y \in 1..Len(q) : x < y /\ r[i] = q[x] /\ r[j] = q[y]
    \/ r[i] = t /\ \E y \in (n + 1)..Len(q) : r[j] = q[y]
    \/ r[j] = t /\ \E x \in 1..n : r[i] = q[x]

\* Two places of the new queue come from there.
LEMMA InsertPlaces ==
  ASSUME NEW q, Len(q) \in Nat, NEW r, NEW t, NEW n \in 0..Len(q), Inserted(r, q, t, n)
  PROVE  PlacesFrom(r, q, t, n)
  <1> SUFFICES ASSUME NEW i \in 1..(Len(q) + 1), NEW j \in 1..(Len(q) + 1), i < j
               PROVE  \/ \E x, y \in 1..Len(q) : x < y /\ r[i] = q[x] /\ r[j] = q[y]
                      \/ r[i] = t /\ \E y \in (n + 1)..Len(q) : r[j] = q[y]
                      \/ r[j] = t /\ \E x \in 1..n : r[i] = q[x]
    BY ZenonT(30) DEF PlacesFrom
  <1>1. CASE j <= n
    BY <1>1 DEF Inserted
  <1>2. CASE j = n + 1
    BY <1>2 DEF Inserted
  <1>3. CASE j > n + 1
    <2>1. j - 1 \in (n + 1)..Len(q) /\ (j - 1) + 1 = j
      BY <1>3
    <2>2. r[j] = q[j - 1]
      BY ZenonT(30), <2>1 DEF Inserted
    <2>3. CASE i <= n
      <3>1. i \in 1..Len(q) /\ j - 1 \in 1..Len(q) /\ i < j - 1 /\ r[i] = q[i]
        BY <1>3, <2>3 DEF Inserted
      <3> QED
        BY ZenonT(30), <2>2, <3>1
    <2>4. CASE i = n + 1
      BY ZenonT(30), <2>1, <2>2, <2>4 DEF Inserted
    <2>5. CASE i > n + 1
      <3>1. i - 1 \in (n + 1)..Len(q) /\ (i - 1) + 1 = i
        BY <1>3, <2>5
      <3>2. r[i] = q[i - 1]
        BY ZenonT(30), <3>1 DEF Inserted
      <3>3. i - 1 \in 1..Len(q) /\ j - 1 \in 1..Len(q) /\ i - 1 < j - 1
        BY <1>3, <2>5
      <3> QED
        BY ZenonT(30), <2>2, <3>2, <3>3
    <2>6. i <= n \/ i = n + 1 \/ i > n + 1
      OBVIOUS
    <2> QED
      BY ZenonT(30), <2>3, <2>4, <2>5, <2>6
  <1>4. j <= n \/ j = n + 1 \/ j > n + 1
    OBVIOUS
  <1> QED
    BY ZenonT(30), <1>1, <1>2, <1>3, <1>4

\* The order of the run queue: by deadline, then by eligible time.
Precedes(d, v, e, w) == d < e \/ (d = e /\ v <= w)

\* Lowering all times by s changes nothing.
LEMMA LoweredOrder ==
  \A d, v, e, w, s \in Int :
    Precedes(d, v, e, w) => Precedes(d - s, v - s, e - s, w - s)
  BY DEF Precedes

\* The queue in terms of its order, and back.
LEMMA QueueOrder ==
  ASSUME queue \in Seq(EThreads)
  PROVE  QueueInOrder <=> \A i, j \in 1..Len(queue) : i < j =>
           /\ queue[i] # queue[j]
           /\ Precedes(dl[queue[i]], vr[queue[i]], dl[queue[j]], vr[queue[j]])
  <1>1. DOMAIN queue = 1..Len(queue)
    OBVIOUS
  <1> QED
    BY ZenonT(30), <1>1 DEF QueueInOrder, Precedes

\* What is at the places of a sequence with t put in.
LEMMA InsertRange ==
  ASSUME NEW q, Len(q) \in Nat, NEW r, NEW t, NEW n \in 0..Len(q), Inserted(r, q, t, n)
  PROVE  /\ \A i \in 1..(Len(q) + 1) : r[i] = t \/ \E x \in 1..Len(q) : r[i] = q[x]
         /\ \E i \in 1..(Len(q) + 1) : r[i] = t
         /\ \A x \in 1..Len(q) : \E i \in 1..(Len(q) + 1) : r[i] = q[x]
  <1>1. ASSUME NEW x \in 1..Len(q) PROVE \E i \in 1..(Len(q) + 1) : r[i] = q[x]
    <2>1. CASE x <= n
      BY <2>1 DEF Inserted
    <2>2. CASE x > n
      <3>1. x \in (n + 1)..Len(q) /\ x + 1 \in 1..(Len(q) + 1)
        BY <2>2
      <3> QED
        BY ZenonT(30), <3>1 DEF Inserted
    <2> QED
      BY <2>1, <2>2
  <1>2. n + 1 \in 1..(Len(q) + 1) /\ r[n + 1] = t
    BY DEF Inserted
  <1>3. ASSUME NEW i \in 1..(Len(q) + 1), i # n + 1 PROVE \E x \in 1..Len(q) : r[i] = q[x]
    <2>1. CASE i <= n
      BY <2>1 DEF Inserted
    <2>2. CASE i > n
      <3>1. i - 1 \in (n + 1)..Len(q) /\ i - 1 \in 1..Len(q) /\ (i - 1) + 1 = i
        BY <1>3, <2>2
      <3> QED
        BY ZenonT(30), <3>1 DEF Inserted
    <2> QED
      BY <2>1, <2>2
  <1> QED
    BY ZenonT(30), <1>1, <1>2, <1>3

\* A thread pushed onto the queue stands where its deadline puts it, whatever
\* rise of min_vruntime the times of the queue are lowered by.
LEMMA Pushed ==
  ASSUME OrderInv, NEW t \in EThreads, t \notin Queued, NEW v \in Int, NEW d \in Int,
         NEW rise \in Int, queue' = Push(queue, t, v + rise, d + rise),
         vr'[t] = v, dl'[t] = d,
         \A u \in Queued : vr'[u] = vr[u] - rise /\ dl'[u] = dl[u] - rise
  PROVE  queue' \in Seq(EThreads) /\ Queued' = Queued \cup {t} /\ QueueInOrder'
  <1> DEFINE ahead == {i \in DOMAIN queue :
                         \/ dl[queue[i]] < d + rise
                         \/ dl[queue[i]] = d + rise /\ vr[queue[i]] <= v + rise}
             Place(k) == /\ \A i \in 1..k : i \in ahead
                         /\ k < Len(queue) => (k + 1) \notin ahead
             n == CHOOSE k \in 0..Len(queue) : Place(k)
  <1>0. /\ queue \in Seq(EThreads) /\ Len(queue) \in Nat /\ DOMAIN queue = 1..Len(queue)
        /\ \A x \in 1..Len(queue) : queue[x] \in EThreads
    BY SMTT(30) DEF OrderInv
  <1>1. n \in 0..Len(queue) /\ Place(n)
    <2> HIDE DEF ahead
    <2>1. \E k \in 0..Len(queue) : Place(k)
      BY ZenonT(30), <1>0, PushPlace
    <2> HIDE DEF Place
    <2> QED
      BY ZenonT(30), <2>1
  <1>2. queue' = SubSeq(queue, 1, n) \o <<t>> \o SubSeq(queue, n + 1, Len(queue))
    BY ZenonT(30) DEF Push
  <1>3. PICK m \in 0..Len(queue) : m = n /\ Place(m)
    BY ZenonT(30), <1>1
  <1>4. PICK r \in Seq(EThreads) : r = queue' /\ Inserted(r, queue, t, m)
    <2> HIDE DEF n, Place, ahead
    <2> QED
      BY ZenonT(30), <1>0, <1>2, <1>3, InsertFacts
  <1>5. Len(r) = Len(queue) + 1 /\ DOMAIN r = 1..(Len(queue) + 1)
    BY <1>4 DEF Inserted
  <1>6. Queued' = Queued \cup {t}
    <2>1. /\ \A i \in 1..(Len(queue) + 1) :
               r[i] = t \/ \E x \in 1..Len(queue) : r[i] = queue[x]
          /\ \E i \in 1..(Len(queue) + 1) : r[i] = t
          /\ \A x \in 1..Len(queue) : \E i \in 1..(Len(queue) + 1) : r[i] = queue[x]
      <3> HIDE DEF n, Place, ahead
      <3> QED
        BY SMTT(30), <1>0, <1>4, InsertRange
    <2>2. Queued' = {r[i] : i \in 1..(Len(queue) + 1)}
      BY ZenonT(30), <1>4, <1>5 DEF Queued
    <2>3. Queued = {queue[i] : i \in 1..Len(queue)}
      BY ZenonT(30), <1>0 DEF Queued
    <2>4. Queued' \subseteq Queued \cup {t}
      <3> SUFFICES ASSUME NEW u \in Queued' PROVE u \in Queued \cup {t}
        BY ZenonT(30)
      <3>1. PICK i \in 1..(Len(queue) + 1) : u = r[i]
        BY ZenonT(30), <2>2
      <3>2. u = t \/ \E x \in 1..Len(queue) : u = queue[x]
        BY ZenonT(30), <2>1, <3>1
      <3> QED
        BY ZenonT(30), <2>3, <3>2
    <2>5. Queued \cup {t} \subseteq Queued'
      BY ZenonT(30), <2>1, <2>2, <2>3
    <2> QED
      BY ZenonT(30), <2>4, <2>5
  <1>7. \A x \in 1..Len(queue) :
          /\ queue[x] \in EThreads /\ queue[x] # t
          /\ vr[queue[x]] \in Int /\ dl[queue[x]] \in Int
          /\ vr'[queue[x]] = vr[queue[x]] - rise /\ dl'[queue[x]] = dl[queue[x]] - rise
    <2>1. \A x \in 1..Len(queue) : queue[x] \in EThreads /\ queue[x] \in Queued
      BY ZenonT(30), <1>0 DEF Queued
    <2>2. \A u \in EThreads : vr[u] \in Int /\ dl[u] \in Int
      BY ZenonT(30) DEF OrderInv
    <2> QED
      BY ZenonT(30), <2>1, <2>2
  <1>8. \A x, y \in 1..Len(queue) : x < y =>
          /\ queue[x] # queue[y]
          /\ Precedes(dl[queue[x]], vr[queue[x]], dl[queue[y]], vr[queue[y]])
    BY ZenonT(30), <1>0, QueueOrder DEF OrderInv
  <1>9. \A x \in 1..m : Precedes(dl[queue[x]], vr[queue[x]], d + rise, v + rise)
    BY ZenonT(30), <1>3 DEF Precedes
  <1>10. m < Len(queue) => Precedes(d + rise, v + rise, dl[queue[m + 1]], vr[queue[m + 1]])
    <2> SUFFICES ASSUME m < Len(queue)
                 PROVE  Precedes(d + rise, v + rise, dl[queue[m + 1]], vr[queue[m + 1]])
      BY ZenonT(30)
    <2>1. m + 1 \in 1..Len(queue) /\ d + rise \in Int /\ v + rise \in Int
      BY <1>0
    <2>2. ~Precedes(dl[queue[m + 1]], vr[queue[m + 1]], d + rise, v + rise)
      BY ZenonT(30), <1>0, <1>3, <2>1 DEF Precedes
    <2>3. dl[queue[m + 1]] \in Int /\ vr[queue[m + 1]] \in Int
      BY ZenonT(30), <1>7, <2>1
    <2> QED
      BY SMTT(30), <2>1, <2>2, <2>3 DEF Precedes
  <1> HIDE DEF n, Place, ahead
  <1>11. ASSUME NEW y \in (m + 1)..Len(queue)
         PROVE  Precedes(d + rise, v + rise, dl[queue[y]], vr[queue[y]])
    <2>1. /\ m < Len(queue) /\ m + 1 \in 1..Len(queue) /\ y \in 1..Len(queue)
          /\ d + rise \in Int /\ v + rise \in Int /\ (y = m + 1 \/ m + 1 < y)
      BY SMTT(30), <1>0
    <2>2. CASE y = m + 1
      BY ZenonT(30), <1>10, <2>1, <2>2
    <2>3. CASE m + 1 < y
      <3>1. Precedes(dl[queue[m + 1]], vr[queue[m + 1]], dl[queue[y]], vr[queue[y]])
        BY ZenonT(30), <1>8, <2>1, <2>3
      <3>2. /\ dl[queue[m + 1]] \in Int /\ vr[queue[m + 1]] \in Int
            /\ dl[queue[y]] \in Int /\ vr[queue[y]] \in Int
        BY ZenonT(30), <1>7, <2>1
      <3>3. Precedes(d + rise, v + rise, dl[queue[m + 1]], vr[queue[m + 1]])
        BY ZenonT(30), <1>10, <2>1
      <3> QED
        BY SMTT(30), <2>1, <3>1, <3>2, <3>3 DEF Precedes
    <2> QED
      BY ZenonT(30), <2>1, <2>2, <2>3
  <1>14. d + rise \in Int /\ v + rise \in Int /\ d = (d + rise) - rise /\ v = (v + rise) - rise
    OBVIOUS
  <1>15. PlacesFrom(r, queue, t, m)
    BY ZenonT(30), <1>0, <1>4, InsertPlaces
  <1>12. ASSUME NEW i \in 1..(Len(queue) + 1), NEW j \in 1..(Len(queue) + 1), i < j
         PROVE  r[i] # r[j] /\ Precedes(dl'[r[i]], vr'[r[i]], dl'[r[j]], vr'[r[j]])
    <2>1. ASSUME NEW x \in 1..Len(queue), NEW y \in 1..Len(queue), x < y,
                 r[i] = queue[x], r[j] = queue[y]
          PROVE  r[i] # r[j] /\ Precedes(dl'[r[i]], vr'[r[i]], dl'[r[j]], vr'[r[j]])
      <3>1. r[i] # r[j] /\ Precedes(dl[r[i]], vr[r[i]], dl[r[j]], vr[r[j]])
        BY ZenonT(30), <1>8, <2>1
      <3>2. /\ dl[r[i]] \in Int /\ vr[r[i]] \in Int /\ dl[r[j]] \in Int /\ vr[r[j]] \in Int
            /\ dl'[r[i]] = dl[r[i]] - rise /\ vr'[r[i]] = vr[r[i]] - rise
            /\ dl'[r[j]] = dl[r[j]] - rise /\ vr'[r[j]] = vr[r[j]] - rise
        BY ZenonT(30), <1>7, <2>1
      <3> QED
        <4>1. Precedes(dl[r[i]] - rise, vr[r[i]] - rise, dl[r[j]] - rise, vr[r[j]] - rise)
          BY ZenonT(30), <3>1, <3>2, LoweredOrder
        <4> QED
          BY ZenonT(30), <3>1, <3>2, <4>1
    <2>2. ASSUME r[i] = t, NEW y \in (m + 1)..Len(queue), r[j] = queue[y]
          PROVE  r[i] # r[j] /\ Precedes(dl'[r[i]], vr'[r[i]], dl'[r[j]], vr'[r[j]])
      <3>1. y \in 1..Len(queue)
        BY SMTT(30), <1>0
      <3>2. /\ dl[r[j]] \in Int /\ vr[r[j]] \in Int /\ r[j] # t
            /\ dl'[r[j]] = dl[r[j]] - rise /\ vr'[r[j]] = vr[r[j]] - rise
        BY ZenonT(30), <1>7, <2>2, <3>1
      <3>3. Precedes(d + rise, v + rise, dl[r[j]], vr[r[j]])
        BY ZenonT(30), <1>11, <2>2
      <3> QED
        <4>1. Precedes((d + rise) - rise, (v + rise) - rise, dl[r[j]] - rise, vr[r[j]] - rise)
          BY ZenonT(30), <1>14, <3>2, <3>3, LoweredOrder
        <4> QED
          BY ZenonT(30), <1>14, <2>2, <3>2, <4>1
    <2>3. ASSUME r[j] = t, NEW x \in 1..m, r[i] = queue[x]
          PROVE  r[i] # r[j] /\ Precedes(dl'[r[i]], vr'[r[i]], dl'[r[j]], vr'[r[j]])
      <3>1. x \in 1..Len(queue)
        BY <1>0
      <3>2. /\ dl[r[i]] \in Int /\ vr[r[i]] \in Int /\ r[i] # t
            /\ dl'[r[i]] = dl[r[i]] - rise /\ vr'[r[i]] = vr[r[i]] - rise
        BY ZenonT(30), <1>7, <2>3, <3>1
      <3>3. Precedes(dl[r[i]], vr[r[i]], d + rise, v + rise)
        BY ZenonT(30), <1>9, <2>3
      <3> QED
        <4>1. Precedes(dl[r[i]] - rise, vr[r[i]] - rise, (d + rise) - rise, (v + rise) - rise)
          BY ZenonT(30), <1>14, <3>2, <3>3, LoweredOrder
        <4> QED
          BY ZenonT(30), <1>14, <2>3, <3>2, <4>1
    <2>4. \/ \E x, y \in 1..Len(queue) : x < y /\ r[i] = queue[x] /\ r[j] = queue[y]
          \/ r[i] = t /\ \E y \in (m + 1)..Len(queue) : r[j] = queue[y]
          \/ r[j] = t /\ \E x \in 1..m : r[i] = queue[x]
      BY ZenonT(30), <1>12, <1>15 DEF PlacesFrom
    <2> QED
      BY ZenonT(30), <2>1, <2>2, <2>3, <2>4
  <1>13. QueueInOrder'
    <2>1. \A i, j \in DOMAIN r : i < j =>
            /\ r[i] # r[j]
            /\ \/ dl'[r[i]] < dl'[r[j]]
               \/ dl'[r[i]] = dl'[r[j]] /\ vr'[r[i]] <= vr'[r[j]]
      BY ZenonT(30), <1>5, <1>12 DEF Precedes
    <2> QED
      BY <1>4, <2>1 DEF QueueInOrder
  <1> QED
    BY ZenonT(30), <1>4, <1>6, <1>13

\* A queue that lost its first k threads is still in order, whatever rise its
\* times are lowered by.
LEMMA Shortened ==
  ASSUME OrderInv, NEW k \in Nat, NEW r \in Seq(EThreads), r = queue', Len(queue) = Len(r) + k,
         \A i \in 1..Len(r) : r[i] = queue[i + k],
         NEW rise \in Int,
         \A i \in 1..Len(r) : vr'[r[i]] = vr[r[i]] - rise /\ dl'[r[i]] = dl[r[i]] - rise
  PROVE  QueueInOrder'
  <1>0. /\ queue \in Seq(EThreads) /\ Len(queue) \in Nat /\ Len(r) \in Nat
        /\ DOMAIN r = 1..Len(r) /\ \A i \in 1..Len(r) : r[i] \in EThreads
    BY DEF OrderInv
  <1>1. \A x, y \in 1..Len(queue) : x < y =>
          /\ queue[x] # queue[y]
          /\ Precedes(dl[queue[x]], vr[queue[x]], dl[queue[y]], vr[queue[y]])
    BY ZenonT(30), <1>0, QueueOrder DEF OrderInv
  <1>2. ASSUME NEW i \in 1..Len(r), NEW j \in 1..Len(r), i < j
        PROVE  r[i] # r[j] /\ Precedes(dl'[r[i]], vr'[r[i]], dl'[r[j]], vr'[r[j]])
    <2>1. i + k \in 1..Len(queue) /\ j + k \in 1..Len(queue) /\ i + k < j + k
      BY <1>0, <1>2
    <2>2. r[i] # r[j] /\ Precedes(dl[r[i]], vr[r[i]], dl[r[j]], vr[r[j]])
      BY ZenonT(30), <1>1, <2>1
    <2>3. /\ dl[r[i]] \in Int /\ vr[r[i]] \in Int /\ dl[r[j]] \in Int /\ vr[r[j]] \in Int
      BY ZenonT(30), <1>0 DEF OrderInv
    <2>4. Precedes(dl[r[i]] - rise, vr[r[i]] - rise, dl[r[j]] - rise, vr[r[j]] - rise)
      BY ZenonT(30), <2>2, <2>3, LoweredOrder
    <2> QED
      BY ZenonT(30), <2>2, <2>4
  <1>3. \A i, j \in DOMAIN r : i < j =>
          /\ r[i] # r[j]
          /\ \/ dl'[r[i]] < dl'[r[j]]
             \/ dl'[r[i]] = dl'[r[j]] /\ vr'[r[i]] <= vr'[r[j]]
    BY <1>0, <1>2 DEF Precedes
  <1> QED
    BY SMTT(30), <1>3 DEF QueueInOrder

\* The virtual times the scheduler computes are integers.
LEMMA Times ==
  ASSUME NEW w \in Weights, NEW v \in Int, NEW b \in Nat
  PROVE  Scaled(b, w) \in Int /\ Deadline(v, w) \in Int /\ Entered(v, w, b) \in Int
  <1>1. w \in Nat \ {0} /\ BaseWeightE \in Nat /\ Slice \in Nat
    BY ZenonT(30), EevdfConstants
  <1>2. \A x \in Nat : Scaled(x, w) \in Int
    BY <1>1 DEF Scaled
  <1>3. \A x, y \in Int : Higher(x, y) \in Int
    BY ZenonT(30) DEF Higher
  <1>4. Deadline(v, w) \in Int
    <2>1. Higher(Scaled(Slice, w), 1) \in Int
      <3>1. Scaled(Slice, w) \in Int /\ 1 \in Int
        BY <1>1, <1>2
      <3> QED
        BY ZenonT(30), <1>3, <3>1
    <2>2. PICK x \in Int : x = Higher(Scaled(Slice, w), 1)
      BY ZenonT(30), <2>1
    <2>3. Deadline(v, w) = v + x
      BY ZenonT(30), <2>2 DEF Deadline
    <2> QED
      BY <2>3
  <1>5. Entered(v, w, b) \in Int
    BY <1>2, <1>3 DEF Entered
  <1> QED
    BY ZenonT(30), <1>2, <1>4, <1>5

\* A rise of min_vruntime lowers the times of the queue by it.
LEMMA Lowered ==
  ASSUME OrderInv, NEW rise \in Int
  PROVE  /\ Rebased(rise) \in [EThreads -> Int] /\ Shifted(rise) \in [EThreads -> Int]
         /\ \A u \in Queued : u \in EThreads
         /\ \A u \in Queued : Rebased(rise)[u] = vr[u] - rise /\ Shifted(rise)[u] = dl[u] - rise
  <1>1. \A u \in Queued : u \in EThreads
    BY DEF OrderInv, Queued
  <1>2. /\ \A u \in EThreads : vr[u] - rise \in Int /\ dl[u] - rise \in Int
        /\ \A u \in EThreads : Higher(vr[u] - rise, -LagBound) \in Int
    BY SMTT(30), EevdfConstants DEF OrderInv, Higher
  <1>3. Rebased(rise) \in [EThreads -> Int]
    BY ZenonT(30), <1>2 DEF Rebased
  <1>4. Shifted(rise) \in [EThreads -> Int]
    BY <1>2 DEF Shifted
  <1>5. \A u \in Queued : Rebased(rise)[u] = vr[u] - rise
    BY ZenonT(30), <1>1 DEF Rebased
  <1>6. \A u \in Queued : Shifted(rise)[u] = dl[u] - rise
    BY ZenonT(30), <1>1 DEF Shifted
  <1> QED
    BY ZenonT(30), <1>1, <1>3, <1>4, <1>5, <1>6

\* Charging the running thread leaves the queue in order.
LEMMA ChargedSafe ==
  ASSUME OrderInv, cur \in EThreads, NEW v \in Int, Charged(v), queue' = queue
  PROVE  /\ vr' \in [EThreads -> Int] /\ dl' \in [EThreads -> Int]
         /\ QueueInOrder' /\ Queued' = Queued
  <1>1. PICK rise \in Int : rise = Higher(v, 0)
    BY DEF Higher
  <1>2. PICK x \in Int : x = Higher(v - rise, -LagBound)
    BY EevdfConstants DEF Higher
  <1>3. vr' = [Rebased(rise) EXCEPT ![cur] = x] /\ dl' = Shifted(rise)
    BY ZenonT(30), <1>1, <1>2 DEF Charged
  <1>4. /\ Rebased(rise) \in [EThreads -> Int] /\ Shifted(rise) \in [EThreads -> Int]
        /\ \A u \in Queued : u \in EThreads
        /\ \A u \in Queued : Rebased(rise)[u] = vr[u] - rise /\ Shifted(rise)[u] = dl[u] - rise
    BY ZenonT(30), Lowered
  <1>5. vr' \in [EThreads -> Int] /\ dl' \in [EThreads -> Int]
    BY ZenonT(30), <1>3, <1>4
  <1>6. cur \notin Queued
    BY ZenonT(30) DEF OrderInv
  <1>7. \A u \in Queued : vr'[u] = vr[u] - rise /\ dl'[u] = dl[u] - rise
    BY ZenonT(30), <1>3, <1>4, <1>6
  <1>8. queue \in Seq(EThreads) /\ \A i \in 1..Len(queue) : queue[i] \in Queued
    BY SMTT(30) DEF OrderInv, Queued
  <1>9. QueueInOrder'
    <2>1. 0 \in Nat /\ Len(queue) = Len(queue) + 0
          /\ \A i \in 1..Len(queue) : queue[i] = queue[i + 0]
      BY <1>8
    <2> QED
      BY ZenonT(30), <1>7, <1>8, <2>1, Shortened
  <1> QED
    BY ZenonT(30), <1>5, <1>9 DEF Queued

\* The running thread goes back to its place in the queue.
LEMMA RequeuedSafe ==
  ASSUME OrderInv, cur \in EThreads, NEW v \in Int, Requeued(v)
  PROVE  /\ vr' \in [EThreads -> Int] /\ dl' \in [EThreads -> Int]
         /\ queue' \in Seq(EThreads) /\ Queued' = Queued \cup {cur} /\ QueueInOrder'
  <1>1. PICK rise \in Int : rise = Higher(v, 0)
    BY DEF Higher
  <1>2. weight[cur] \in Weights /\ cur \notin Queued
    BY ZenonT(30) DEF OrderInv
  <1>3. PICK enter \in Int : enter = Entered(v - rise, weight[cur], 0)
    BY <1>2, Times
  <1>4. PICK due \in Int : due = Deadline(enter, weight[cur])
    BY ZenonT(30), <1>2, Times
  <1>5. /\ queue' = Push(queue, cur, enter + rise, due + rise)
        /\ vr' = [Rebased(rise) EXCEPT ![cur] = enter]
        /\ dl' = [Shifted(rise) EXCEPT ![cur] = due]
    BY ZenonT(30), <1>1, <1>3, <1>4 DEF Requeued
  <1>6. /\ Rebased(rise) \in [EThreads -> Int] /\ Shifted(rise) \in [EThreads -> Int]
        /\ \A u \in Queued : u \in EThreads
        /\ \A u \in Queued : Rebased(rise)[u] = vr[u] - rise /\ Shifted(rise)[u] = dl[u] - rise
    BY ZenonT(30), Lowered
  <1>7. /\ vr' \in [EThreads -> Int] /\ dl' \in [EThreads -> Int]
        /\ vr'[cur] = enter /\ dl'[cur] = due
    BY ZenonT(30), <1>5, <1>6
  <1>8. \A u \in Queued : vr'[u] = vr[u] - rise /\ dl'[u] = dl[u] - rise
    BY ZenonT(30), <1>2, <1>5, <1>6
  <1> QED
    BY ZenonT(30), <1>2, <1>5, <1>7, <1>8, Pushed

\* What a step must leave behind.
LEMMA OrderNext ==
  ASSUME weight' \in [EThreads -> Weights], ran' \in Nat, slept' \in [EThreads -> Nat],
         vr' \in [EThreads -> Int], dl' \in [EThreads -> Int],
         queue' \in Seq(EThreads), cur' \in EThreads \cup {NoOne}, cur' \notin Queued',
         QueueInOrder'
  PROVE  OrderInv'
  BY ZenonT(30) DEF OrderInv

\* A queue that is not touched stays in order.
LEMMA Untouched ==
  ASSUME OrderInv, UNCHANGED <<queue, cur, dl>>, vr' \in [EThreads -> Int],
         \A u \in Queued : vr'[u] = vr[u],
         weight' \in [EThreads -> Weights], ran' \in Nat, slept' \in [EThreads -> Nat]
  PROVE  OrderInv'
  <1>1. \A i \in DOMAIN queue : vr'[queue[i]] = vr[queue[i]]
    BY ZenonT(30) DEF Queued
  <1>2. QueueInOrder'
    BY SMTT(30), <1>1 DEF OrderInv, QueueInOrder
  <1>3. Queued' = Queued
    BY ZenonT(30) DEF Queued
  <1> QED
    BY ZenonT(30), <1>2, <1>3 DEF OrderInv

\* The times of threads in terms of the invariant.
LEMMA OrderTypes ==
  ASSUME OrderInv
  PROVE  /\ queue \in Seq(EThreads) /\ cur \in EThreads \cup {NoOne} /\ cur \notin Queued
         /\ weight \in [EThreads -> Weights] /\ ran \in Nat /\ slept \in [EThreads -> Nat]
         /\ vr \in [EThreads -> Int] /\ dl \in [EThreads -> Int]
         /\ Queued \subseteq EThreads /\ NoOne \notin EThreads
  <1>1. Queued \subseteq EThreads
    BY DEF OrderInv, Queued
  <1> QED
    BY ZenonT(30), <1>1, EevdfConstants DEF OrderInv

\* Sleeping threads have slept a natural number of ticks.
LEMMA LongerTypes ==
  ASSUME OrderInv
  PROVE  Longer \in [EThreads -> Nat]
  <1>1. \A u \in EThreads : slept[u] \in Nat
    BY ZenonT(30), OrderTypes
  <1> QED
    BY <1>1 DEF Longer

\* What the running thread is charged is an integer.
LEMMA ChargeTypes ==
  ASSUME OrderInv, cur \in EThreads
  PROVE  /\ vr[cur] + Charge(weight[cur]) \in Int
         /\ vr[cur] + Scaled(ran + 1, weight[cur]) \in Int
  <1>1. weight[cur] \in Weights /\ vr[cur] \in Int /\ ran \in Nat
    BY ZenonT(30), OrderTypes
  <1>2. Higher(ran, 1) \in Nat /\ ran + 1 \in Nat
    BY <1>1 DEF Higher
  <1>3. Charge(weight[cur]) \in Int
    BY ZenonT(30), <1>1, <1>2, Times DEF Charge
  <1>4. Scaled(ran + 1, weight[cur]) \in Int
    BY ZenonT(30), <1>1, <1>2, Times
  <1> HIDE DEF Charge
  <1> QED
    BY <1>1, <1>3, <1>4

\* sched_run takes the first thread of the queue.
LEMMA DispatchOrder == ASSUME OrderInv, EDispatch PROVE OrderInv'
  <1>1. PICK h : h = Head(queue)
    BY ZenonT(30)
  <1>2. PICK r : r = Tail(queue)
    BY Zenon
  <1>3. /\ queue \in Seq(EThreads) /\ queue # <<>> /\ vr \in [EThreads -> Int]
    BY ZenonT(30), OrderTypes DEF EDispatch
  <1>4. /\ h \in EThreads /\ r \in Seq(EThreads) /\ Len(queue) = Len(r) + 1 /\ h = queue[1]
        /\ \A i \in 1..Len(r) : r[i] = queue[i + 1] /\ r[i] \in EThreads /\ i + 1 \in DOMAIN queue
        /\ 1 \in DOMAIN queue /\ \A i \in 1..Len(r) : 1 < i + 1
        /\ DOMAIN r = 1..Len(r)
    BY SMTT(30), <1>1, <1>2, <1>3
  <1>5. PICK rise \in Int : rise = Higher(vr[h], 0)
    BY <1>3, <1>4 DEF Higher
  <1>6. /\ cur' = h /\ queue' = r /\ ran' = 0 /\ vr' = Rebased(rise)
        /\ dl' = [Shifted(rise) EXCEPT ![h] = 0] /\ weight' = weight /\ slept' = slept
    BY ZenonT(30), <1>1, <1>2, <1>5 DEF EDispatch
  <1>7. /\ Rebased(rise) \in [EThreads -> Int] /\ Shifted(rise) \in [EThreads -> Int]
        /\ \A u \in Queued : Rebased(rise)[u] = vr[u] - rise /\ Shifted(rise)[u] = dl[u] - rise
    BY ZenonT(30), Lowered
  <1>8. vr' \in [EThreads -> Int] /\ dl' \in [EThreads -> Int]
    BY <1>4, <1>6, <1>7
  <1>9. \A i \in 1..Len(r) : r[i] # h /\ r[i] \in Queued
    <2>1. \A i \in 1..Len(r) : queue[1] # queue[i + 1]
      BY ZenonT(30), <1>4 DEF OrderInv, QueueInOrder
    <2> QED
      BY ZenonT(30), <1>4, <2>1 DEF Queued
  <1>10. \A i \in 1..Len(r) : vr'[r[i]] = vr[r[i]] - rise /\ dl'[r[i]] = dl[r[i]] - rise
    BY ZenonT(30), <1>4, <1>6, <1>7, <1>9
  <1>11. QueueInOrder'
    <2>1. 1 \in Nat /\ r = queue'
      BY ZenonT(30), <1>6
    <2> QED
      BY ZenonT(30), <1>4, <1>10, <2>1, Shortened
  <1>12. cur' \notin Queued'
    BY ZenonT(30), <1>4, <1>6, <1>9 DEF Queued
  <1>13. ran' \in Nat /\ weight' \in [EThreads -> Weights] /\ slept' \in [EThreads -> Nat]
         /\ queue' \in Seq(EThreads) /\ cur' \in EThreads \cup {NoOne}
    <2>1. 0 \in Nat
      BY ZenonT(30)
    <2> QED
      BY ZenonT(30), <1>4, <1>6, <2>1, OrderTypes
  <1> QED
    BY ZenonT(30), <1>8, <1>11, <1>12, <1>13, OrderNext

\* sched_tick on a thread that is alone.
LEMMA AloneOrder == ASSUME OrderInv, TickAlone PROVE OrderInv'
  <1>1. ran' \in Nat
    BY OrderTypes DEF TickAlone
  <1>2. slept' \in [EThreads -> Nat]
    BY ZenonT(30), LongerTypes DEF TickAlone
  <1> QED
    BY ZenonT(30), <1>1, <1>2, OrderTypes, Untouched DEF TickAlone

\* sched_tick on a thread that others wait for.
LEMMA SharedOrder == ASSUME OrderInv, TickShared PROVE OrderInv'
  <1>1. cur \in EThreads /\ weight' = weight /\ ran' = 0 /\ slept' = Longer
    BY ZenonT(30), OrderTypes DEF TickShared
  <1>2. PICK v \in Int : v = vr[cur] + Scaled(ran + 1, weight[cur])
    BY ZenonT(30), <1>1, ChargeTypes
  <1>3. /\ weight' \in [EThreads -> Weights] /\ ran' \in Nat /\ slept' \in [EThreads -> Nat]
    <2>1. 0 \in Nat
      BY ZenonT(30)
    <2> QED
      BY ZenonT(30), <1>1, <2>1, OrderTypes, LongerTypes
  <1>4. CASE Charged(v) /\ UNCHANGED <<queue, cur>>
    <2>1. /\ vr' \in [EThreads -> Int] /\ dl' \in [EThreads -> Int]
          /\ QueueInOrder' /\ Queued' = Queued
      BY ZenonT(30), <1>1, <1>4, ChargedSafe
    <2> QED
      BY ZenonT(30), <1>3, <1>4, <2>1, OrderTypes, OrderNext
  <1>5. CASE Requeued(v) /\ cur' = NoOne
    <2>1. /\ vr' \in [EThreads -> Int] /\ dl' \in [EThreads -> Int]
          /\ queue' \in Seq(EThreads) /\ Queued' = Queued \cup {cur} /\ QueueInOrder'
      BY ZenonT(30), <1>1, <1>5, RequeuedSafe
    <2>2. cur' \notin Queued'
      BY ZenonT(30), <1>1, <1>5, <2>1, OrderTypes
    <2> QED
      BY ZenonT(30), <1>3, <1>5, <2>1, <2>2, OrderNext
  <1> QED
    BY ZenonT(30), <1>2, <1>4, <1>5 DEF TickShared

\* thread_yield.
LEMMA YieldOrder == ASSUME OrderInv, EYield PROVE OrderInv'
  <1>1. cur \in EThreads /\ weight' = weight /\ ran' = 0 /\ slept' = slept /\ cur' = NoOne
    BY ZenonT(30), OrderTypes DEF EYield
  <1>2. PICK v \in Int : v = vr[cur] + Charge(weight[cur])
    BY ZenonT(30), <1>1, ChargeTypes
  <1>3. Requeued(v)
    BY ZenonT(30), <1>2 DEF EYield
  <1>4. /\ vr' \in [EThreads -> Int] /\ dl' \in [EThreads -> Int]
        /\ queue' \in Seq(EThreads) /\ Queued' = Queued \cup {cur} /\ QueueInOrder'
    BY ZenonT(30), <1>1, <1>3, RequeuedSafe
  <1>5. cur' \notin Queued'
    BY ZenonT(30), <1>1, <1>4, OrderTypes
  <1>6. 0 \in Nat
    BY ZenonT(30)
  <1> QED
    BY ZenonT(30), <1>1, <1>4, <1>5, <1>6, OrderTypes, OrderNext

\* thread_prepare_block and thread_sleep_ticks.
LEMMA BlockOrder == ASSUME OrderInv, EBlock PROVE OrderInv'
  <1>1. /\ cur \in EThreads /\ weight' = weight /\ ran' = 0 /\ queue' = queue /\ cur' = NoOne
        /\ slept' = [slept EXCEPT ![cur] = 0]
    BY ZenonT(30), OrderTypes DEF EBlock
  <1>2. PICK v \in Int : v = vr[cur] + Charge(weight[cur])
    BY ZenonT(30), <1>1, ChargeTypes
  <1>3. Charged(v)
    BY ZenonT(30), <1>2 DEF EBlock
  <1>4. /\ vr' \in [EThreads -> Int] /\ dl' \in [EThreads -> Int]
        /\ QueueInOrder' /\ Queued' = Queued
    BY ZenonT(30), <1>1, <1>3, ChargedSafe
  <1>5. slept' \in [EThreads -> Nat] /\ ran' \in Nat
    BY ZenonT(30), <1>1, OrderTypes
  <1> QED
    BY ZenonT(30), <1>1, <1>4, <1>5, OrderTypes, OrderNext

\* thread_unblock.
LEMMA WakeOrder == ASSUME OrderInv, NEW t \in EThreads, EWake(t) PROVE OrderInv'
  <1>1. t \notin Queued /\ t # cur
    BY ZenonT(30) DEF EWake, Blocked
  <1>2. weight[t] \in Weights /\ vr[t] \in Int /\ slept[t] \in Nat
    BY ZenonT(30), OrderTypes
  <1>3. PICK v \in Int : v = Entered(vr[t], weight[t], slept[t])
    BY ZenonT(30), <1>2, Times
  <1>4. PICK d \in Int : d = Deadline(v, weight[t])
    BY ZenonT(30), <1>2, Times
  <1>5. /\ queue' = Push(queue, t, v, d) /\ vr' = [vr EXCEPT ![t] = v]
        /\ dl' = [dl EXCEPT ![t] = d] /\ slept' = [slept EXCEPT ![t] = 0]
        /\ weight' = weight /\ ran' = ran /\ cur' = cur
    BY ZenonT(30), <1>3, <1>4 DEF EWake
  <1>6. /\ vr' \in [EThreads -> Int] /\ dl' \in [EThreads -> Int]
        /\ slept' \in [EThreads -> Nat] /\ vr'[t] = v /\ dl'[t] = d
    BY ZenonT(30), <1>5, OrderTypes
  <1>7. v + 0 = v /\ d + 0 = d /\ 0 \in Int
    OBVIOUS
  <1>8. queue' = Push(queue, t, v + 0, d + 0)
    BY ZenonT(30), <1>5, <1>7
  <1>9. \A u \in Queued : vr'[u] = vr[u] - 0 /\ dl'[u] = dl[u] - 0
    <2>1. \A x \in Int : x - 0 = x
      OBVIOUS
    <2>2. \A u \in Queued : u # t /\ u \in EThreads /\ vr[u] \in Int /\ dl[u] \in Int
      BY ZenonT(30), <1>1, OrderTypes
    <2>3. \A u \in Queued : vr'[u] = vr[u] /\ dl'[u] = dl[u]
      BY ZenonT(30), <1>5, <2>2, OrderTypes
    <2> QED
      BY ZenonT(30), <2>1, <2>2, <2>3
  <1>10. queue' \in Seq(EThreads) /\ Queued' = Queued \cup {t} /\ QueueInOrder'
    BY ZenonT(30), <1>1, <1>6, <1>7, <1>8, <1>9, Pushed
  <1>11. cur' \notin Queued' /\ cur' \in EThreads \cup {NoOne}
    BY ZenonT(30), <1>1, <1>5, <1>10, OrderTypes
  <1> QED
    BY ZenonT(30), <1>5, <1>6, <1>10, <1>11, OrderTypes, OrderNext

\* thread_handoff.
LEMMA HandoffOrder == ASSUME OrderInv, NEW t \in EThreads, EHandoff(t) PROVE OrderInv'
  <1>1. /\ cur \in EThreads /\ weight' = weight /\ ran' = 0 /\ cur' = t
        /\ slept' = [slept EXCEPT ![t] = 0] /\ t \notin Queued /\ t # cur
    BY ZenonT(30), OrderTypes DEF EHandoff, Blocked
  <1>2. PICK v \in Int : v = vr[cur] + Charge(weight[cur])
    BY ZenonT(30), <1>1, ChargeTypes
  <1>3. Requeued(v)
    BY ZenonT(30), <1>2 DEF EHandoff
  <1>4. /\ vr' \in [EThreads -> Int] /\ dl' \in [EThreads -> Int]
        /\ queue' \in Seq(EThreads) /\ Queued' = Queued \cup {cur} /\ QueueInOrder'
    BY ZenonT(30), <1>1, <1>3, RequeuedSafe
  <1>5. slept' \in [EThreads -> Nat] /\ ran' \in Nat
    BY ZenonT(30), <1>1, OrderTypes
  <1>6. cur' \notin Queued' /\ cur' \in EThreads \cup {NoOne}
    BY ZenonT(30), <1>1, <1>4
  <1> QED
    BY ZenonT(30), <1>1, <1>4, <1>5, <1>6, OrderTypes, OrderNext

\* A blocked thread that ran elsewhere.
LEMMA AwayOrder == ASSUME OrderInv, NEW t \in EThreads, NEW v \in 1..Ahead, EAway(t, v) PROVE OrderInv'
  <1>1. v \in Int
    BY EevdfConstants
  <1>2. vr' \in [EThreads -> Int]
    BY ZenonT(30), <1>1, OrderTypes DEF EAway
  <1>3. \A u \in Queued : vr'[u] = vr[u]
    BY ZenonT(30), OrderTypes DEF EAway, Blocked
  <1> QED
    BY ZenonT(30), <1>2, <1>3, OrderTypes, Untouched DEF EAway

\* sched_policy_set.
LEMMA ReweighOrder ==
  ASSUME OrderInv, NEW t \in EThreads, NEW w \in Weights, EReweigh(t, w) PROVE OrderInv'
  <1>1. weight' \in [EThreads -> Weights]
    BY ZenonT(30), OrderTypes DEF EReweigh
  <1>2. dl' = dl
    BY ZenonT(30) DEF EReweigh, Redue
  <1>3. \A u \in Queued : vr'[u] = vr[u]
    BY ZenonT(30) DEF EReweigh
  <1> QED
    BY ZenonT(30), <1>1, <1>2, <1>3, OrderTypes, Untouched DEF EReweigh

\* The initial queue is empty.
LEMMA OrderInit == EInit => OrderInv
  <1> SUFFICES ASSUME EInit PROVE OrderInv
    BY ZenonT(30)
  <1>1. queue = <<>> /\ queue \in Seq(EThreads) /\ Queued = {} /\ QueueInOrder
    BY DEF EInit, Queued, QueueInOrder
  <1>2. /\ vr \in [EThreads -> Int] /\ dl \in [EThreads -> Int]
        /\ slept \in [EThreads -> Nat] /\ ran \in Nat
    BY DEF EInit
  <1>3. weight \in [EThreads -> Weights] /\ cur = NoOne
    BY ZenonT(30), EevdfConstants DEF EInit
  <1> QED
    BY ZenonT(30), <1>1, <1>2, <1>3 DEF OrderInv

\* Whatever threads tick, yield, block, wake, hand off or change their weight,
\* the run queue of kernel/sched.c holds no thread twice and stays in the order
\* of deadlines, then of eligible times, for any weights, quantum and credit.
THEOREM QueueOrdered == ESpec => []QueueInOrder
  <1>1. OrderInv /\ [ENext]_eVars => OrderInv'
    <2> SUFFICES ASSUME OrderInv, [ENext]_eVars PROVE OrderInv'
      BY ZenonT(30)
    <2>1. ASSUME NEW t \in EThreads, NEW v \in 1..Ahead, EAway(t, v) PROVE OrderInv'
      BY ZenonT(30), <2>1, AwayOrder
    <2>2. ASSUME NEW t \in EThreads, NEW w \in Weights, EReweigh(t, w) PROVE OrderInv'
      BY ZenonT(30), <2>2, ReweighOrder
    <2>3. CASE UNCHANGED eVars
      BY ZenonT(30), <2>3, OrderTypes, Untouched DEF eVars
    <2> QED
      BY ZenonT(30), <2>1, <2>2, <2>3, DispatchOrder, AloneOrder, SharedOrder, YieldOrder,
         BlockOrder, WakeOrder, HandoffOrder DEF ENext, ETick
  <1>2. OrderInv => QueueInOrder
    BY ZenonT(30) DEF OrderInv
  <1> QED
    BY <1>1, <1>2, OrderInit, PTL DEF ESpec
=============================================================================
