------------------------------- MODULE MCTask -------------------------------
(* What a task owns, for TLC: its handles, its memory, its threads' CPUs.   *)
(* Handles: a server and a client with two threads, a child task, the       *)
(* server's port svc, a port and a buffer that programs may create.         *)
(* Memory: an image page, a heap page and two mmap pages on four frames, so *)
(* that allocation fails too.                                               *)
(* Threads: two CPUs, and idle CPUs that pull.                              *)
EXTENDS Handles, Memory, Sched

VARIABLE part   \* which of the three a behaviour exercises

CONSTANTS srv, cli, kid, s1, c1, c2, k1, svc, rep, buf, p1, p2, p3, cpu0, cpu1

OwnerOf == s1 :> srv @@ c1 :> cli @@ c2 :> cli @@ k1 :> kid

Cell(o, R) == [obj |-> o, rights |-> R]
BootTables ==
  srv :> <<Cell(svc, AllRights), Cell(cli, {"send", "dup"}), Empty>>
    @@ cli :> <<Cell(svc, {"send", "dup"}), Empty, Empty>>
    @@ kid :> <<Empty, Empty, Empty>>

Does(sv, cl, cl2, ch) == s1 :> sv @@ c1 :> cl @@ c2 :> cl2 @@ k1 :> ch

\* a buffer travels to the server, which uses and closes it, while a thread of
\* the client closes handles under the sender's feet
Lend == Does({"recv", "use", "close"}, {"buffer", "lend"}, {"close"}, {})
\* the server hands a buffer it was lent on to the client's task,
\* which may have discarded it
Regrant == Does({"recv", "grant"}, {"buffer", "lend", "discard"}, {}, {})
\* the server answers on a port the client made
Answer == Does({"recv", "send"}, {"port", "ask", "recv"}, {}, {})
\* the server kills the client, whose threads ask, wait and close
Murder == Does({"kill"}, {"port", "ask", "recv"}, {}, {})
\* the client forks, and parent and child come and go
Forks == Does({"close"}, {"buffer", "fork", "exit"}, {"exit"}, {"close", "exit"})
\* the client makes a task, gives it handles, starts and kills it
Spawn == Does({}, {"create", "grant", "start", "kill", "close"}, {"exit"}, {"exit", "close"})

AllScenarios == {Lend, Regrant, Answer, Murder, Forks, Spawn}
LendOnly == {Lend}

Program(made_, most, procs) ==
  [calls |-> {"mmap", "fork", "store"} \cup made_, most |-> most, procs |-> procs]

\* Programs of a parent and a child that differ in the calls they make, and a
\* family of three that shares one mapping
Programs ==
  {Program({"munmap"}, 3, {p1, p2}),
   Program({"brk"}, 3, {p1, p2}),
   Program({"fixed", "ro"}, 3, {p1, p2}),
   Program({"file", "short", "exec"}, 2, {p1, p2}),
   Program({"mprotect", "ro"}, 2, {p1, p2}),
   Program({"hint"}, 1, {p1, p2, p3})}

\* A parent or child that makes what it shares writable
Widening == {Program({"mprotect", "widen"}, 2, {p1, p2})}

\* c1 may run anywhere, c2 only on cpu0, k1 only on cpu1; c1 sleeps, c2 creates
\* k1 and exits, k1 sleeps and exits
Pinned == c1 :> Cpus @@ c2 :> {cpu0} @@ k1 :> {cpu1}
PullTasks == c1 :> cli @@ c2 :> srv @@ k1 :> cli
PullCalls == c1 :> {"sleep"} @@ c2 :> {"create", "exit"} @@ k1 :> {"sleep", "exit"}

\* Handles, memory and CPUs do not touch each other in the model, so a behaviour
\* exercises one of them.
AtRest == SchedInit /\ cpuOf[c1] = cpu0
HandlesOnly ==
  /\ HInit /\ MInit /\ AtRest
  /\ does = CHOOSE m \in MScenarios : TRUE
  /\ part = "handles"
MemoryOnly == MInit /\ HInit /\ AtRest /\ calls = Lend /\ part = "memory"
PullOnly ==
  /\ SchedInit /\ HInit /\ MInit /\ calls = Lend
  /\ does = CHOOSE m \in MScenarios : TRUE
  /\ part = "pull"

TaskInit == HandlesOnly \/ MemoryOnly \/ PullOnly
TaskNext ==
  \/ part = "handles" /\ HNext /\ UNCHANGED <<mVars, schedVars, part>>
  \/ part = "memory" /\ MNext /\ UNCHANGED <<hVars, schedVars, part>>
  \/ part = "pull" /\ SchedNext /\ UNCHANGED <<hVars, mVars, part>>

TaskSpec == TaskInit /\ [][TaskNext]_<<hVars, mVars, schedVars, part>>

\* The variables of handles and memory have their types.
TaskTypeOK == (part = "handles" => HTypeOK) /\ (part = "memory" => MTypeOK)
=============================================================================
