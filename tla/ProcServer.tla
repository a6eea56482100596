----------------------------- MODULE ProcServer -----------------------------
(* The process server with the parties it keeps in step: the Linux server     *)
(* (which has its own pids), the credentials of the user server, procfs' copy  *)
(* of the process and mount tables, and the kernel's execve.  Proc reads two   *)
(* ports, the management port first.                                          *)
EXTENDS Integers, Sequences, FiniteSets, SequencesExt, Functions

CONSTANTS
  PScenarios,       \* among their fields: pids, the processes made on request,
                    \* and lag, how many messages procfs may have unread
  PMaxTask          \* tasks ever created

VARIABLES prc, pdoes
pvars == <<prc, pdoes>>

PTasks == 1 .. PMaxTask
PNone == [x \in {} |-> 0]
PPut(f, k, v) == [x \in DOMAIN f \cup {k} |-> IF x = k THEN v ELSE f[x]]
PCut(f, S) == Restrict(f, DOMAIN f \ S)

-----------------------------------------------------------------------------
(* Telling procfs.                                                            *)

\* procfs_notify_handle: resolved once procfs has registered its name
PTell(s, msg) == IF s.up THEN [s EXCEPT !.toq = Append(@, msg)] ELSE s
PMsg(op, pid, p) ==
  [op |-> op, pid |-> pid, task |-> p.task, lpid |-> p.lpid, ppid |-> p.ppid, cmd |-> p.cmd]
PTellInfo(s, pid) == PTell(s, PMsg("upsert", pid, s.procs[pid]))
PTellUpsert(s, pid) ==
  PTell(PTellInfo(s, pid), PMsg("cmdline", pid, s.procs[pid]))
PTellRemove(s, pid) == PTell(s, PMsg("remove", pid, s.procs[pid]))

\* procfs_process_upsert, procfs_process_remove, procfs_process_set_cmdline
QUpsert(view, m) ==
  PPut(view, m.pid, [task |-> m.task, lpid |-> m.lpid, ppid |-> m.ppid,
                     cmd |-> IF m.pid \in DOMAIN view THEN view[m.pid].cmd ELSE ""])
QRemove(view, m) == PCut(view, {m.pid})
QSetCmdline(view, m) ==
  IF m.pid \in DOMAIN view THEN [view EXCEPT ![m.pid].cmd = m.cmd] ELSE view
QApply(view, m) ==
  CASE m.op = "upsert" -> QUpsert(view, m)
    [] m.op = "remove" -> QRemove(view, m)
    [] m.op = "cmdline" -> QSetCmdline(view, m)
    [] OTHER -> view
\* mount_cache_insert, mount_cache_remove
QMountInsert(mounts, m) == mounts \cup {m.cmd}
QMountRemove(mounts, m) == mounts \ {m.cmd}
QApplyMount(mounts, m) ==
  CASE m.op = "mount" -> QMountInsert(mounts, m)
    [] m.op = "unmount" -> QMountRemove(mounts, m)
    [] OTHER -> mounts

\* proc_path_pid: /proc/<n> is a Linux pid first, then a pid of proc; what the
\* copy does not hold is asked of proc
QByLinux(s, n) == {p \in DOMAIN s.view : s.view[p].lpid = n}
QLeast(S) == CHOOSE p \in S : \A q \in S : p <= q
QAskLinux(s, n) ==
  IF QByLinux(s, n) # {} THEN QLeast(QByLinux(s, n))
  ELSE IF n \in DOMAIN s.byLinux THEN s.byLinux[n] ELSE 0
QAsk(s, n) == IF n \in DOMAIN s.view \/ n \in DOMAIN s.procs THEN n ELSE 0
QPathPid_PidFirst(s, n) ==
  IF QAsk(s, n) # 0 THEN QAsk(s, n) ELSE QAskLinux(s, n)
QPathPid(s, n) ==
  IF QAskLinux(s, n) # 0 THEN QAskLinux(s, n) ELSE QAsk(s, n)
-----------------------------------------------------------------------------
(* The records of proc.                                                       *)

PRecord(task, lpid, ppid, handle, cmd) ==
  [task |-> task, lpid |-> lpid, ppid |-> ppid, handle |-> handle, cmd |-> cmd,
   exited |-> FALSE, waiter |-> FALSE]
PPidOf(s, lpid) == IF lpid \in DOMAIN s.byLinux THEN s.byLinux[lpid] ELSE 0

PReset_KeepsLinux(s, pid) ==
  LET p == s.procs[pid]
      t == PTellRemove(s, pid)
  IN [t EXCEPT !.procs = PCut(@, {pid}), !.byTask = PCut(@, {p.task}),
               !.creds = @ \ {p.task}]

\* process_reset: procfs, the user server and the three maps forget the process
PReset(s, pid) ==
  LET p == s.procs[pid]
      t == PTellRemove(s, pid)
  IN [t EXCEPT !.procs = PCut(@, {pid}), !.byTask = PCut(@, {p.task}),
               !.byLinux = PCut(@, {p.lpid}), !.creds = @ \ {p.task}]
\* spawn_process and exec_path, up to the step that fails; the Linux server
\* registers a Linux program under proc's pid unless it has that pid already
PSpawnParent(s, linux) == IF linux /\ s.first # 0 THEN PPidOf(s, s.first) ELSE 0
PSpawnTask(s, linux, cmd) ==
  LET pid == s.nextPid
      task == s.nextTask
  IN [s EXCEPT !.procs = PPut(@, pid, PRecord(task, 0, PSpawnParent(s, linux), TRUE, cmd)),
               !.byTask = PPut(@, task, pid), !.creds = @ \cup (IF linux THEN {} ELSE {task}),
               !.nextTask = @ + 1]
PLinuxRegister(s, pid, task) ==
  IF pid \in DOMAIN s.lx THEN s
  ELSE [s EXCEPT !.lx = PPut(@, pid, [task |-> task, exited |-> FALSE]), !.creds = @ \cup {task},
                 !.nextL = IF pid >= @ THEN pid + 1 ELSE @]
PSpawned(s, linux, pid) ==
  LET l == [s EXCEPT !.procs[pid].lpid = pid, !.byLinux = PPut(@, pid, pid),
                     !.first = IF @ = 0 THEN pid ELSE @]
      r == IF linux THEN l ELSE s
  IN PTellUpsert([r EXCEPT !.run[s.procs[pid].task] = "run"], pid)
PSpawnFrom(s, linux, cmd, fail) ==
  LET pid == s.nextPid
      a == [PSpawnTask(s, linux, cmd) EXCEPT !.nextPid = @ + 1]
      b == IF linux THEN PLinuxRegister(a, pid, s.nextTask) ELSE a
      dup == linux /\ pid \in DOMAIN s.lx
      none == [s EXCEPT !.procs = PPut(@, pid, PRecord(0, 0, 0, FALSE, cmd)), !.nextPid = @ + 1]
  IN IF fail = "task" THEN PReset(none, pid)
     ELSE IF fail = "register" \/ dup THEN PReset(a, pid)
     ELSE IF fail = "load"
       THEN [PReset(b, pid) EXCEPT !.orphan = @ \cup (IF linux THEN {pid} ELSE {})]
     ELSE PSpawned(b, linux, pid)

\* register_linux_child_process
PChild(s, lpid, task, plpid) ==
  LET pid == s.nextPid
      parent == IF plpid = 0 THEN 0 ELSE PPidOf(s, plpid)
      c == IF parent # 0 THEN s.procs[parent].cmd ELSE ""
      n == [s EXCEPT !.procs = PPut(@, pid, PRecord(task, lpid, parent, FALSE, c)),
                     !.byTask = PPut(@, task, pid), !.byLinux = PPut(@, lpid, pid),
                     !.nextPid = @ + 1]
  IN IF lpid \in DOMAIN s.byLinux THEN s
     ELSE IF lpid \in s.pend THEN [s EXCEPT !.pend = @ \ {lpid}]
     ELSE IF c = "" THEN PTellInfo(n, pid)
     ELSE PTellUpsert(n, pid)

-----------------------------------------------------------------------------
(* The state.                                                                 *)

\* run is where a task stands in its execve; told records the answer of a wait
PStart ==
  [procs |-> PNone, byTask |-> PNone, byLinux |-> PNone, pend |-> {}, nextPid |-> 1, first |-> 0,
   tokens |-> PNone, nextTok |-> 1, creds |-> {}, lx |-> PNone, nextL |-> 1, call |-> 0,
   nextTask |-> 1, run |-> [t \in PTasks |-> "none"], mq |-> <<>>, sq |-> <<>>,
   up |-> FALSE, view |-> PNone, toq |-> <<>>, mounted |-> {"/"}, shown |-> {"/"},
   waits |-> PNone, orphan |-> {}, late |-> {}, lost |-> {}, blind |-> {}, stuck |-> FALSE]
PInit == pdoes \in PScenarios /\ prc = [PStart EXCEPT !.up = pdoes.up]

PDoes(op) == op \in pdoes.ops
PBecomes(s) == prc' = s /\ UNCHANGED pdoes
PLive(l) == l \in DOMAIN prc.lx /\ ~prc.lx[l].exited
PRoom == prc.nextPid <= pdoes.pids /\ prc.nextTask <= PMaxTask

-----------------------------------------------------------------------------
(* Bootstrap: spawning and waiting.                                           *)

\* BUNIX_PROC_SPAWN_BUFFER.  Proc calls the Linux server for a Linux program: if
\* that is itself calling proc, both wait for ever.
PSpawn ==
  /\ PRoom
  /\ \E prog \in pdoes.progs, fail \in pdoes.fails :
       IF prog = "linux" /\ prc.call # 0
       THEN PBecomes([prc EXCEPT !.stuck = TRUE])
       ELSE PBecomes(PSpawnFrom(prc, prog = "linux", prog, fail))

\* BUNIX_PROC_WAIT: of a process that is gone, that has exited, or that will
PWait(pid) ==
  /\ PDoes("wait") /\ pid \notin DOMAIN prc.waits /\ pid \in DOMAIN prc.procs
  /\ IF prc.procs[pid].exited
     THEN PBecomes([PReset(prc, pid) EXCEPT !.waits = PPut(@, pid, "told")])
     ELSE PBecomes([prc EXCEPT !.waits = PPut(@, pid, "waiting"), !.procs[pid].waiter = TRUE])

-----------------------------------------------------------------------------
(* The Linux server.                                                          *)

\* linux_fork_process, up to the call notify_proc_register_linux
PFork(l) ==
  /\ PDoes("fork") /\ PLive(l) /\ PRoom /\ prc.call = 0
  /\ prc.run[prc.lx[l].task] = "run"
  /\ LET child == prc.nextL
         t == prc.nextTask
     IN PBecomes([prc EXCEPT
          !.lx = PPut(@, child, [task |-> t, exited |-> FALSE]), !.nextL = @ + 1,
          !.nextTask = @ + 1, !.creds = @ \cup {t}, !.call = child,
          !.mq = Append(@, [op |-> "register", lpid |-> child, task |-> t, of |-> l])])

\* linux_process_exit_status: notify_proc_exit does not wait.  A killed process
\* dies in the middle of its execve.
PExits(l) ==
  /\ PDoes("exit") /\ PLive(l) /\ prc.call = 0
  /\ prc.run[prc.lx[l].task] # "run" => PDoes("kill")
  /\ PBecomes([prc EXCEPT !.lx[l].exited = TRUE, !.run[prc.lx[l].task] = "dead",
                          !.mq = Append(@, [op |-> "exit", lpid |-> l, task |-> prc.lx[l].task,
                                            of |-> 0])])

\* linux_process_reset of a zombie its parent has waited for
PReap(l) ==
  /\ PDoes("reap") /\ l \in DOMAIN prc.lx /\ prc.lx[l].exited /\ prc.call = 0
  /\ PBecomes([prc EXCEPT !.lx = PCut(@, {l}), !.creds = @ \ {prc.lx[l].task}])

-----------------------------------------------------------------------------
(* Proc, the management port.                                                 *)

\* BUNIX_PROC_REGISTER_LINUX and its answer to linux_fork_process
PRegistered(s, m) ==
  LET r == PChild(s, m.lpid, m.task, m.of)
      ok == r.nextPid # s.nextPid
  IN IF ok THEN [r EXCEPT !.call = 0, !.run[m.task] = "run"]
     ELSE [r EXCEPT !.call = 0, !.lx = PCut(@, {m.lpid}), !.creds = @ \ {m.task}]
PExited_NoWaiter(s, m) ==
  LET pid == PPidOf(s, m.lpid)
      e == [s EXCEPT !.procs[pid].exited = TRUE]
  IN IF pid = 0 THEN [s EXCEPT !.pend = @ \cup {m.lpid}]
     ELSE IF m.lpid # s.first THEN PReset(e, pid)
     ELSE e
\* BUNIX_PROC_EXIT from the Linux server
PExited(s, m) ==
  LET pid == PPidOf(s, m.lpid)
      e == [s EXCEPT !.procs[pid].exited = TRUE]
  IN IF pid = 0 THEN [s EXCEPT !.pend = @ \cup {m.lpid}]
     ELSE IF s.procs[pid].waiter THEN [PReset(e, pid) EXCEPT !.waits[pid] = "told"]
     ELSE IF m.lpid # s.first THEN PReset(e, pid)
     ELSE e
PManage ==
  /\ prc.mq # <<>>
  /\ LET m == Head(prc.mq)
         s == [prc EXCEPT !.mq = Tail(@)]
     IN PBecomes(IF m.op = "register" THEN PRegistered(s, m) ELSE PExited(s, m))

-----------------------------------------------------------------------------
(* The kernel's execve and proc's own port.                                   *)

PSend(s, t, op, lpid, tok, next) ==
  [s EXCEPT !.sq = Append(@, [op |-> op, task |-> t, lpid |-> lpid, tok |-> tok]), !.run[t] = next]
PTokenOf(t) == CHOOSE k \in DOMAIN prc.tokens : prc.tokens[k] = t
PLinuxOf(t) == {l \in DOMAIN prc.lx : prc.lx[l].task = t /\ ~prc.lx[l].exited}
\* linux_proc_exec_replace, linux_exec_process and linux_proc_set_cmdline
PExecve(t) ==
  /\ PDoes("exec")
  /\ \/ prc.run[t] = "run" /\ PLinuxOf(t) # {} /\ prc.nextTok <= pdoes.execs
        /\ PBecomes(PSend(prc, t, "token", 0, 0, "asked"))
     \/ prc.run[t] = "got" /\ PBecomes(PSend(prc, t, "load", 0, PTokenOf(t), "loading"))
     \/ prc.run[t] = "loaded" /\ prc.call = 0
        /\ \E l \in PLinuxOf(t) : PBecomes(PSend(prc, t, "cmdline", l, 0, "naming"))

PReply(s, t, at, next) == IF s.run[t] = at THEN [s EXCEPT !.run[t] = next] ELSE s
\* BUNIX_PROC_EXEC_REPLACE_TASK, exec_replace_begin
PToken(s, m) ==
  PReply([s EXCEPT !.tokens = PPut(@, s.nextTok, m.task), !.nextTok = @ + 1], m.task, "asked", "got")
PReplace_KeepsToken(s, m, ok) ==
  PReply(IF ok THEN [s EXCEPT !.tokens = PCut(@, {m.tok})] ELSE s, m.task, "loading",
         IF ok THEN "loaded" ELSE "run")
\* BUNIX_PROC_EXEC_REPLACE_BUFFER: the token is taken whether the load succeeds
PReplace(s, m, ok) ==
  PReply([s EXCEPT !.tokens = PCut(@, {m.tok})], m.task, "loading", IF ok THEN "loaded" ELSE "run")
\* BUNIX_PROC_SET_CMDLINE_BUFFER: a process that is not known is registered
PSetCmdline(s, m) ==
  LET pid == PPidOf(s, m.lpid)
      n == IF pid = 0 /\ m.lpid \notin s.pend THEN PChild(s, m.lpid, m.task, 0) ELSE s
      c == IF pid # 0 THEN PTellUpsert([s EXCEPT !.procs[pid].cmd = "exec"], pid)
           ELSE IF n.nextPid # s.nextPid
             THEN PTellUpsert([n EXCEPT !.late = @ \cup {m.lpid}, !.procs[n.byLinux[m.lpid]].cmd = "exec"],
                              n.byLinux[m.lpid])
           ELSE s
  IN PReply(c, m.task, "naming", "run")
\* BUNIX_PROC_EXIT of a native process by itself
PSelfExit(s, m) ==
  LET pid == IF m.task \in DOMAIN s.byTask THEN s.byTask[m.task] ELSE 0
      e == [s EXCEPT !.procs[pid].exited = TRUE]
  IN IF pid = 0 THEN s
     ELSE IF s.procs[pid].waiter THEN [PReset(e, pid) EXCEPT !.waits[pid] = "told"]
     ELSE e
PServe ==
  /\ prc.mq = <<>> /\ prc.sq # <<>>
  /\ LET m == Head(prc.sq)
         s == [prc EXCEPT !.sq = Tail(@)]
     IN \/ m.op = "token" /\ PBecomes(PToken(s, m))
        \/ m.op = "load" /\ \E ok \in BOOLEAN : PBecomes(PReplace(s, m, ok))
        \/ m.op = "cmdline" /\ PBecomes(PSetCmdline(s, m))
        \/ m.op = "selfexit" /\ PBecomes(PSelfExit(s, m))
PNativeExit(t) ==
  /\ PDoes("selfexit") /\ prc.run[t] = "run" /\ t \in DOMAIN prc.byTask /\ PLinuxOf(t) = {}
  /\ prc.procs[prc.byTask[t]].lpid = 0
  /\ PBecomes(PSend(prc, t, "selfexit", 0, 0, "dead"))

-----------------------------------------------------------------------------
(* procfs and the mounts the VFS tells it of.                                 *)

PUp == PDoes("late") /\ ~prc.up /\ PBecomes([prc EXCEPT !.up = TRUE])
QReceive ==
  /\ prc.toq # <<>>
  /\ LET m == Head(prc.toq)
     IN PBecomes([prc EXCEPT !.toq = Tail(@), !.view = QApply(@, m), !.shown = QApplyMount(@, m)])
\* a notification that could not be sent is not sent again
QLose ==
  /\ PDoes("lose") /\ prc.toq # <<>> /\ prc.lost = {}
  /\ PBecomes([prc EXCEPT !.toq = Tail(@), !.lost = {Head(prc.toq).pid}])
\* notify_procfs_mount_event goes to whatever is mounted on /proc
PMountMsg(op, path) ==
  [op |-> op, pid |-> 0, task |-> 0, lpid |-> 0, ppid |-> 0, cmd |-> path]
PMount(path) ==
  /\ PDoes("mount") /\ path \notin prc.mounted
  /\ LET s == [prc EXCEPT !.mounted = @ \cup {path}, !.blind = @ \ {path}]
     IN PBecomes(IF "/proc" \in s.mounted THEN PTell(s, PMountMsg("mount", path)) ELSE s)
PUnmount(path) ==
  /\ PDoes("mount") /\ path \in prc.mounted \ {"/"}
  /\ LET s == [prc EXCEPT !.mounted = @ \ {path}]
     IN PBecomes(IF "/proc" \in s.mounted THEN PTell(s, PMountMsg("unmount", path))
                 ELSE [s EXCEPT !.blind = @ \cup {path}])

PPaths == {"/proc", "/dev"}
PNext ==
  \/ QReceive \/ QLose
  \/ /\ ~prc.stuck /\ Len(prc.toq) <= pdoes.lag
     /\ \/ PSpawn \/ PManage \/ PServe \/ PUp
        \/ \E pid \in DOMAIN prc.procs : PWait(pid)
        \/ \E l \in DOMAIN prc.lx : PFork(l) \/ PExits(l) \/ PReap(l)
        \/ \E t \in PTasks : PExecve(t) \/ PNativeExit(t)
        \/ \E path \in PPaths : PMount(path) \/ PUnmount(path)

-----------------------------------------------------------------------------
ProcTypeOK ==
  /\ prc.nextPid \in Nat \ {0} /\ DOMAIN prc.procs \subseteq 1 .. prc.nextPid - 1
  /\ DOMAIN prc.byTask \subseteq PTasks /\ prc.creds \subseteq PTasks
  /\ DOMAIN prc.tokens \subseteq 1 .. prc.nextTok - 1

\* The maps by task and by Linux pid are exactly the records reached by pid.
PMapsAgree ==
  /\ DOMAIN prc.byTask = {prc.procs[p].task : p \in DOMAIN prc.procs}
  /\ DOMAIN prc.byLinux = {prc.procs[p].lpid : p \in DOMAIN prc.procs} \ {0}
  /\ \A t \in DOMAIN prc.byTask :
       prc.byTask[t] \in DOMAIN prc.procs /\ prc.procs[prc.byTask[t]].task = t
  /\ \A l \in DOMAIN prc.byLinux :
       prc.byLinux[l] \in DOMAIN prc.procs /\ prc.procs[prc.byLinux[l]].lpid = l
\* The Linux server and proc know the same processes, but for exits still in the
\* queue, the first process, the registration of a spawn that failed, and a
\* process killed before its command line arrived.
PExitOwed(l) == \E i \in DOMAIN prc.mq : prc.mq[i].op = "exit" /\ prc.mq[i].lpid = l
PServersAgree ==
  /\ \A l \in DOMAIN prc.byLinux :
       PLive(l) \/ PExitOwed(l) \/ l = prc.first \/ l \in prc.late
  /\ \A l \in DOMAIN prc.lx :
       PLive(l) => l \in DOMAIN prc.byLinux \/ l = prc.call \/ l \in prc.orphan
\* A running process has credentials, and no task keeps them after its exit.
PCredsExact ==
  /\ \A l \in DOMAIN prc.lx :
       PLive(l) /\ l \notin prc.orphan => prc.lx[l].task \in prc.creds
  /\ \A t \in prc.creds :
       t \in DOMAIN prc.byTask \/ \E l \in DOMAIN prc.lx : prc.lx[l].task = t
\* Once it has read its messages, procfs shows exactly the processes of proc.
QCaughtUp == FoldLeft(QApply, prc.view, prc.toq)
QMirrors ==
  /\ \A p \in DOMAIN QCaughtUp \ prc.lost :
       /\ p \in DOMAIN prc.procs
       /\ \A f \in {"task", "lpid", "ppid"} : QCaughtUp[p][f] = prc.procs[p][f]
  /\ pdoes.up => \A p \in DOMAIN prc.procs \ prc.lost :
                   p \in DOMAIN QCaughtUp /\ QCaughtUp[p].cmd = prc.procs[p].cmd
  /\ prc.lost = {} =>
       FoldLeft(QApplyMount, prc.shown, prc.toq) \subseteq prc.mounted \cup prc.blind
\* Whatever is still on its way, /proc/<pid> of a Linux process is that process.
QFinds ==
  \A l \in DOMAIN prc.byLinux :
    prc.lost = {} /\ l \notin prc.late => QPathPid(prc, l) = prc.byLinux[l]
\* A token lives only while the execve that asked for it does, or its task died.
PTokensHeld ==
  \A k \in DOMAIN prc.tokens : prc.run[prc.tokens[k]] \in {"got", "loading", "dead"}
\* Whoever waits for a process waits for one that has not exited.
PWaitersServed ==
  \A p \in DOMAIN prc.waits :
    prc.waits[p] = "waiting" =>
      p \in DOMAIN prc.procs /\ prc.procs[p].waiter /\ ~prc.procs[p].exited
ProcSound ==
  /\ PMapsAgree /\ PServersAgree /\ PCredsExact /\ QMirrors /\ QFinds
  /\ PTokensHeld /\ PWaitersServed
=============================================================================
