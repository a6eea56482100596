---------------------------- MODULE LinuxServer -----------------------------
(* Processes of the Linux server (user/linux/main.c): fork, exit and wait4, *)
(* signals and process groups, descriptors of pipes and the console, and    *)
(* the console's line discipline.  A message is one step; the order of      *)
(* messages is the order in which the tasks of the processes run.           *)
EXTENDS LinuxPipes, FiniteSets, FiniteSetsExt

CONSTANTS
  MaxPid,       \* pids are 1 .. MaxPid, never reused
  MaxPipe,      \* pipes at a time
  FdCount,      \* slots of a descriptor table
  Lengths,      \* lengths of reads and writes
  MaxBytes,     \* bytes through one pipe
  TtyQueue,     \* sizeof(read_queue) of the console
  TtyLine,      \* sizeof(line)
  LScenarios    \* what processes do: their calls, the signals, keys, flags and
                \* selectors of waits in them, and how many there may be

VARIABLES
  srv,      \* the server's state and the tasks of its processes
  makes     \* the scenario of this behaviour

lvars == <<srv, makes>>

Pids == 1 .. MaxPid
Init1 == 1
Fds == 0 .. FdCount - 1
Pipes == 1 .. MaxPipe
Signals == {"INT", "KILL", "CHLD"}
Fatal == {"INT", "KILL"}       \* linux_signal_default_terminates

NoFd == [kind |-> "none", pipe |-> 0, cloexec |-> FALSE, nonblock |-> FALSE]
Console == [NoFd EXCEPT !.kind = "console"]

\* struct linux_process; linked is the parent pointer, waits the selector of
\* a blocked wait4.  late: forked by a process that had already exited.
NoProcess ==
  [st |-> "none", ppid |-> Nobody, linked |-> Nobody, kids |-> <<>>,
   pgid |-> 0, sid |-> 0, waits |-> {}, pending |-> {}, mask |-> {},
   ignored |-> {}, handled |-> {}, fds |-> [fd \in Fds |-> NoFd], late |-> FALSE]

Exists(s, p) == p \in Pids /\ s.proc[p].st # "none"
Live(s, p) == p \in Pids /\ s.proc[p].st = "live"

\* process_by_pid in the order of bunix_map_at
Table(s) == SetToSortSeq({p \in Pids : Exists(s, p)}, <)

-----------------------------------------------------------------------------
(* Descriptors *)

\* linux_close on an open descriptor
CloseFd(s, p, n) ==
  LET fd == s.proc[p].fds[n]
      closed == IF fd.kind \in {"pipe_read", "pipe_write"}
                THEN PipeClose(s, fd) ELSE s
  IN [closed EXCEPT !.proc[p].fds[n] = NoFd]

CloseWhere(s, p, Which(_)) ==
  FoldLeft(LAMBDA t, i : IF /\ t.proc[p].fds[i - 1].kind # "none"
                            /\ Which(t.proc[p].fds[i - 1])
                         THEN CloseFd(t, p, i - 1) ELSE t,
           s, [i \in 1 .. FdCount |-> i])

CloseProcessFds(s, p) == CloseWhere(s, p, LAMBDA fd : TRUE)

FreeFds(s, p) == {n \in Fds : s.proc[p].fds[n].kind = "none"}

-----------------------------------------------------------------------------
(* Parents and children *)

\* linux_child_link: at the head of the list
ChildLink(s, p, c) ==
  [s EXCEPT !.proc[c].linked = p, !.proc[c].ppid = p,
            !.proc[p].kids = <<c>> \o @]

ChildUnlink(s, c) ==
  LET p == s.proc[c].linked
  IN IF p # Nobody /\ c \in ToSet(s.proc[p].kids)
     THEN [s EXCEPT !.proc[p].kids = Remove(@, c), !.proc[c].linked = Nobody]
     ELSE s

ProcessReset(s, p) ==
  [CloseProcessFds(ChildUnlink(s, p), p) EXCEPT !.proc[p] = NoProcess]

ChildMatches(s, p, c, sel) ==
  /\ s.proc[c].linked = p
  /\ \/ sel = -1
     \/ sel = 0 /\ s.proc[c].pgid = s.proc[p].pgid
     \/ sel < -1 /\ s.proc[c].pgid = -sel
     \/ sel > 0 /\ c = sel

\* Mutant: a zombie is unlinked from its dead parent and left
Reparent_Skips(s, p, c) ==
  LET loose == [s EXCEPT !.proc[c].linked = Nobody]
  IN IF s.proc[c].st # "zombie" /\ Exists(s, Init1) /\ p # Init1
     THEN ChildLink(loose, Init1, c)
     ELSE [loose EXCEPT !.proc[c].ppid = Nobody]
\* One turn of linux_reparent_children
Reparent(s, p, c) ==
  LET loose == [s EXCEPT !.proc[c].linked = Nobody]
  IN CASE s.proc[c].st = "zombie" -> ProcessReset(loose, c)
       [] s.proc[c].st # "zombie" /\ Exists(s, Init1) /\ p # Init1 ->
            ChildLink(loose, Init1, c)
       [] OTHER -> [loose EXCEPT !.proc[c].ppid = Nobody]

ReparentChildren(s, p) ==
  FoldLeft(LAMBDA t, c : Reparent(t, p, c),
           [s EXCEPT !.proc[p].kids = <<>>], s.proc[p].kids)

\* Mutant: only a wait for any child is answered
WakeParent_AnyOnly(s, c) ==
  LET p == s.proc[c].ppid
  IN IF Exists(s, p) /\ -1 \in s.proc[p].waits /\ s.proc[c].linked = p
     THEN Answer(ProcessReset([s EXCEPT !.proc[p].waits = {}], c), p)
     ELSE s
\* Mutant: the wait stays registered after its answer
WakeParent_KeepsWait(s, c) ==
  LET p == s.proc[c].ppid
  IN IF /\ Exists(s, p)
        /\ \E sel \in s.proc[p].waits : ChildMatches(s, p, c, sel)
     THEN Answer(ProcessReset(s, c), p)
     ELSE s
\* linux_wake_parent: the parent's wait4 is answered and the child forgotten
WakeParent(s, c) ==
  LET p == s.proc[c].ppid
  IN IF /\ Exists(s, p)
        /\ \E sel \in s.proc[p].waits : ChildMatches(s, p, c, sel)
     THEN Answer(ProcessReset([s EXCEPT !.proc[p].waits = {}], c), p)
     ELSE s

TtyCancelReader(s, p) ==
  IF s.tty.reader = p
  THEN [s EXCEPT !.tty.reader = Nobody, !.tty.readerLen = 0] ELSE s

\* linux_signal_process for a signal that does not end the process
Post(s, p, sig) ==
  IF Live(s, p) /\ sig \notin s.proc[p].ignored
  THEN [s EXCEPT !.proc[p].pending = @ \cup {sig}] ELSE s

\* linux_process_exit_status.  The notice to proc ends the task only if proc
\* has a handle to it, which it has for the process it spawned.
ProcessExit(s, p, killTask) ==
  LET closed == CloseProcessFds(TtyCancelReader(s, p), p)
      ended == [ReparentChildren(closed, p) EXCEPT
                  !.proc[p].st = "zombie",
                  !.doomed = IF killTask /\ p = Init1 THEN @ \cup {p} ELSE @]
  IN IF Live(s, p)
     THEN WakeParent(Post(ended, ended.proc[p].ppid, "CHLD"), p) ELSE s

-----------------------------------------------------------------------------
(* Signals and process groups *)

\* A pending signal that must end the process
MustEnd(s, p) ==
  {sig \in s.proc[p].pending \cap Fatal :
     sig \notin s.proc[p].mask \cup s.proc[p].ignored \cup s.proc[p].handled}

\* linux_apply_pending_default_signals
ApplyPending(s, p) ==
  IF Live(s, p) /\ MustEnd(s, p) # {} THEN ProcessExit(s, p, TRUE) ELSE s

\* linux_signal_process
SignalProcess(s, p, sig) ==
  LET posted == Post(s, p, sig)
  IN IF Live(s, p) /\ (sig = "KILL" \/ sig \in MustEnd(posted, p))
     THEN ProcessExit(IF sig = "KILL" THEN s ELSE posted, p, TRUE)
     ELSE posted

\* linux_signal_pgrp goes through the table by index while processes leave it.
\* Once the source itself is freed its session is whatever its memory holds:
\* luck says whether the comparison still succeeds.
SignalPgrp(s, source, g, sig, luck) ==
  LET InSession(t, q) ==
        \/ source = Nobody
        \/ Exists(t, source) /\ t.proc[source].sid = t.proc[q].sid
        \/ ~Exists(t, source) /\ luck
      Turn(t, i) ==
        IF /\ i <= Len(Table(t))
           /\ Live(t, Table(t)[i])
           /\ t.proc[Table(t)[i]].pgid = g
           /\ InSession(t, Table(t)[i])
        THEN SignalProcess(t, Table(t)[i], sig) ELSE t
  IN FoldLeft(Turn, s, [i \in 1 .. MaxPid |-> i])

\* linux_tty_interrupt_foreground: the reader, or the first live child that
\* somebody waits for, or the foreground group
TtyInterrupt(s) ==
  LET Awaited(p) == SelectSeq(s.proc[p].kids, LAMBDA c :
                      /\ Live(s, c)
                      /\ \E sel \in s.proc[p].waits : ChildMatches(s, p, c, sel))
      waiting == SelectSeq(Table(s), LAMBDA p : Live(s, p) /\ Awaited(p) # <<>>)
  IN CASE Exists(s, s.tty.reader) -> SignalProcess(s, s.tty.reader, "INT")
       [] ~Exists(s, s.tty.reader) /\ waiting # <<>> ->
            SignalProcess(s, Head(Awaited(Head(waiting))), "INT")
       [] OTHER -> SignalPgrp(s, Nobody, s.tty.fg, "INT", FALSE)

-----------------------------------------------------------------------------
(* The console *)

\* linux_tty_wake_reader
TtyWakeReader(s) ==
  IF s.tty.reader # Nobody /\ s.tty.queue # 0
  THEN Answer([s EXCEPT !.tty.queue = @ - Lesser(s.tty.readerLen, @),
                        !.tty.reader = Nobody, !.tty.readerLen = 0],
              s.tty.reader)
  ELSE s

\* Mutant: the queue is not checked for room
TtyPush_Overrun(s, n) ==
  TtyWakeReader([s EXCEPT !.tty.queue = @ + n, !.tty.line = 0])
\* n characters enter the read queue as far as it has room
TtyPush(s, n) ==
  TtyWakeReader([s EXCEPT !.tty.queue = Lesser(@ + n, TtyQueue), !.tty.line = 0])

\* linux_tty_input_event; ISIG and ECHO are set
TtyInputEvent(s, c) ==
  LET line == s.tty.line
  IN CASE c = "intr" -> TtyInterrupt([s EXCEPT !.tty.line = 0])
       [] c # "intr" /\ ~s.tty.canon -> TtyPush(s, 1)
       [] c = "erase" /\ s.tty.canon /\ line # 0 -> [s EXCEPT !.tty.line = @ - 1]
       [] s.tty.canon /\ (c = "char" \/ (c = "erase" /\ line = 0)) ->
            [s EXCEPT !.tty.line = IF @ + 1 < TtyLine THEN @ + 1 ELSE @]
       [] c = "newline" /\ s.tty.canon ->
            TtyPush(s, IF line < TtyLine THEN line + 1 ELSE line)
       [] c = "eof" /\ s.tty.canon -> TtyPush(s, line)

TtyRead(s, p, len) ==
  CASE s.tty.queue # 0 -> [s EXCEPT !.tty.queue = @ - Lesser(len, @)]
    [] s.tty.queue = 0 /\ s.tty.reader = Nobody ->
         [s EXCEPT !.tty.reader = p, !.tty.readerLen = len, !.task[p] = "call"]
    [] OTHER -> s     \* EAGAIN

-----------------------------------------------------------------------------
(* Messages *)

LInit ==
  /\ srv = [proc |-> [p \in Pids |->
                        IF p = Init1
                        THEN [NoProcess EXCEPT !.st = "live", !.pgid = Init1,
                                !.sid = Init1, !.fds[0] = Console]
                        ELSE NoProcess],
             task |-> [p \in Pids |-> IF p = Init1 THEN "run" ELSE "none"],
             pipe |-> [i \in Pipes |-> NoPipe],
             tty |-> [reader |-> Nobody, readerLen |-> 0, queue |-> 0, line |-> 0,
                      fg |-> Init1, canon |-> TRUE],
             next |-> 2, doomed |-> {}]
  /\ makes \in LScenarios

\* linux_process_for: the sender is in the table, exited or not
Asks(p, call) ==
  /\ call \in makes.calls /\ UNCHANGED makes
  /\ Exists(srv, p) /\ srv.task[p] = "run"

\* linux_fork_process up to the calls that may still fail
Forked(s, p, c) ==
  LET parent == s.proc[p]
      child == [NoProcess EXCEPT
                  !.st = "live", !.pgid = parent.pgid, !.sid = parent.sid,
                  !.mask = parent.mask, !.ignored = parent.ignored,
                  !.handled = parent.handled, !.fds = parent.fds,
                  !.late = parent.st # "live"]
      linked == ChildLink([s EXCEPT !.proc[c] = child, !.next = @ + 1], p, c)
  IN FoldLeft(LAMBDA t, i : PipeRefAdd(t, parent.fds[i - 1]),
              linked, [i \in 1 .. FdCount |-> i])

Fork(p) ==
  /\ Asks(p, "fork")
  /\ srv.next <= makes.procs
  /\ LET c == srv.next
     IN srv' = [Forked(srv, p, c) EXCEPT !.task[c] = "run"]

ForkFails(p) ==
  /\ Asks(p, "forkfail")
  /\ srv.next <= makes.procs
  /\ srv' = ProcessReset(Forked(srv, p, srv.next), srv.next)

ExitGroup(p) ==
  /\ Asks(p, "exit")
  /\ srv' = [ProcessExit(srv, p, FALSE) EXCEPT !.task[p] = "gone"]

\* proc ends the task of the process that it spawned
TaskKilled(p) ==
  /\ p \in srv.doomed
  /\ srv' = [srv EXCEPT !.doomed = @ \ {p}, !.task[p] = "gone"]
  /\ UNCHANGED makes

\* linux_wait4: the first zombie in the list that matches, else wait for one
Wait4(p) ==
  /\ Asks(p, "wait")
  /\ \E sel \in makes.selectors, nohang \in BOOLEAN :
       LET matching == SelectSeq(srv.proc[p].kids,
                                 LAMBDA c : ChildMatches(srv, p, c, sel))
           zombies == SelectSeq(matching, LAMBDA c : srv.proc[c].st = "zombie")
       IN \/ zombies # <<>> /\ srv' = ProcessReset(srv, Head(zombies))
          \/ /\ zombies = <<>> /\ matching # <<>> /\ ~nohang
             /\ srv' = [srv EXCEPT !.proc[p].waits = {sel}, !.task[p] = "call"]
          \/ /\ zombies = <<>> /\ (matching = <<>> \/ nohang)
             /\ srv' = srv

Kill(p) ==
  /\ Asks(p, "kill")
  /\ \E q \in Pids, sig \in makes.signals : srv' = SignalProcess(srv, q, sig)

\* kill with pid 0 or below -1
KillGroup(p) ==
  /\ Asks(p, "killpg")
  /\ \E g \in {srv.proc[p].pgid} \cup (Pids \ {1}), luck \in BOOLEAN,
        sig \in makes.signals :
       srv' = SignalPgrp(srv, p, g, sig, luck)

RtSigaction(p) ==
  /\ Asks(p, "sigaction")
  /\ \E sig \in makes.signals \ {"KILL"} :
       \/ srv' = [srv EXCEPT !.proc[p].ignored = @ \cup {sig},
                             !.proc[p].handled = @ \ {sig}]
       \/ srv' = [srv EXCEPT !.proc[p].ignored = @ \ {sig},
                             !.proc[p].handled = @ \ {sig}]
       \/ srv' = [srv EXCEPT !.proc[p].ignored = @ \ {sig},
                             !.proc[p].handled = @ \cup {sig}]

\* Mutant: unblocking does not look at what is pending
Masked_Quiet(s, p, set) == [s EXCEPT !.proc[p].mask = set \ {"KILL"}]
Masked(s, p, set) == ApplyPending([s EXCEPT !.proc[p].mask = set \ {"KILL"}], p)

RtSigprocmask(p) ==
  /\ Asks(p, "sigmask")
  /\ \E set \in SUBSET makes.signals : srv' = Masked(srv, p, set)

\* linux_signal_dequeue: the lowest signal that has a handler and may be taken
SignalDequeue(p) ==
  /\ Asks(p, "dequeue")
  /\ LET ready == (srv.proc[p].pending \cap srv.proc[p].handled)
                  \ (srv.proc[p].mask \cup srv.proc[p].ignored)
         sig == IF "INT" \in ready THEN "INT" ELSE "CHLD"
     IN /\ ready # {}
        /\ srv' = [srv EXCEPT !.proc[p].pending = @ \ {sig},
                              !.proc[p].mask = @ \cup {sig}]

RtSigtimedwait(p) ==
  /\ Asks(p, "sigwait")
  /\ \E sig \in srv.proc[p].pending :
       srv' = [srv EXCEPT !.proc[p].pending = @ \ {sig}]

Setpgid(p) ==
  /\ Asks(p, "setpgid")
  /\ \E q \in Pids, g \in Pids :
       /\ Exists(srv, q) /\ (q = p \/ srv.proc[q].linked = p)
       /\ srv.proc[q].sid = srv.proc[p].sid /\ srv.proc[q].sid # q
       /\ \/ ~Exists(srv, g) \/ g = q
          \/ srv.proc[g].pgid = g /\ srv.proc[g].sid = srv.proc[q].sid
       /\ srv' = [srv EXCEPT !.proc[q].pgid = g]

Setsid(p) ==
  /\ Asks(p, "setsid")
  /\ \A q \in Pids : Live(srv, q) => srv.proc[q].pgid # p
  /\ srv' = [srv EXCEPT !.proc[p].sid = p, !.proc[p].pgid = p]

\* TIOCSPGRP: linux_set_foreground_pgid; the console belongs to init's session
SetForeground(p) ==
  /\ Asks(p, "foreground")
  /\ srv.proc[p].sid = Init1
  /\ \E g \in Pids :
       /\ \E q \in Pids : /\ Live(srv, q) /\ srv.proc[q].pgid = g
                          /\ srv.proc[q].sid = srv.proc[p].sid
       /\ srv' = [srv EXCEPT !.tty.fg = g]

ExecProcess(p) ==
  /\ Asks(p, "exec")
  /\ srv' = CloseWhere([srv EXCEPT !.proc[p].handled = {}], p,
                       LAMBDA fd : fd.cloexec)

PipeCreate(p) ==
  /\ Asks(p, "pipe")
  /\ Cardinality(FreeFds(srv, p)) >= 2
  /\ \E cloexec, nonblock \in makes.flags :
       LET left == Min(FreeFds(srv, p))
           right == Min(FreeFds(srv, p) \ {left})
           unused == {i \in Pipes : srv.pipe[i].readRefs + srv.pipe[i].writeRefs = 0}
           End(kind) == [kind |-> kind, pipe |-> Min(unused),
                         cloexec |-> cloexec, nonblock |-> nonblock]
       IN /\ unused # {}
          /\ srv' = [srv EXCEPT !.pipe[Min(unused)] = NewPipe,
                                !.proc[p].fds[left] = End("pipe_read"),
                                !.proc[p].fds[right] = End("pipe_write")]

Read(p) ==
  /\ Asks(p, "read")
  /\ \E n \in Fds, len \in Lengths :
       LET fd == srv.proc[p].fds[n]
       IN \/ fd.kind = "console" /\ srv' = TtyRead(srv, p, len)
          \/ fd.kind = "pipe_read" /\ srv' = PipeRead(srv, p, fd, len)

Write(p) ==
  /\ Asks(p, "write")
  /\ \E n \in Fds, len \in Lengths :
       LET fd == srv.proc[p].fds[n]
       IN /\ fd.kind = "pipe_write"
          /\ srv.pipe[fd.pipe].sent + len <= MaxBytes
          /\ srv' = PipeWrite(srv, p, fd, len)

Close(p) ==
  /\ Asks(p, "close")
  /\ \E n \in Fds : /\ srv.proc[p].fds[n].kind # "none"
                    /\ srv' = CloseFd(srv, p, n)

\* Mutant: the new descriptor is not counted
DupTo_Uncounted(s, p, old, new, cloexec) ==
  LET closed == IF s.proc[p].fds[new].kind # "none" THEN CloseFd(s, p, new) ELSE s
      copy == [s.proc[p].fds[old] EXCEPT !.cloexec = cloexec]
  IN [closed EXCEPT !.proc[p].fds[new] = copy]
\* linux_dup_to between different descriptors
DupTo(s, p, old, new, cloexec) ==
  LET closed == IF s.proc[p].fds[new].kind # "none" THEN CloseFd(s, p, new) ELSE s
      copy == [s.proc[p].fds[old] EXCEPT !.cloexec = cloexec]
  IN PipeRefAdd([closed EXCEPT !.proc[p].fds[new] = copy], copy)

Dup(p) ==
  /\ Asks(p, "dup")
  /\ \E old, new \in Fds, cloexec \in makes.flags :
       /\ old # new /\ srv.proc[p].fds[old].kind # "none"
       /\ srv' = DupTo(srv, p, old, new, cloexec)

\* F_SETFD and F_SETFL
Fcntl(p) ==
  /\ Asks(p, "fcntl")
  /\ \E n \in Fds, b \in BOOLEAN :
       /\ srv.proc[p].fds[n].kind # "none"
       /\ \/ srv' = [srv EXCEPT !.proc[p].fds[n].cloexec = b]
          \/ srv' = [srv EXCEPT !.proc[p].fds[n].nonblock = b]

\* linux_tty_termios_set
TcSet(p) ==
  /\ Asks(p, "termios")
  /\ \E canon \in BOOLEAN :
       srv' = [srv EXCEPT !.tty.canon = canon, !.tty.line = 0]

\* BUNIX_LINUX_TTY_INPUT from the console server
TtyInput ==
  /\ "tty" \in makes.calls /\ UNCHANGED makes
  /\ \E c \in makes.keys :
       srv' = TtyInputEvent(srv, c)

LNext ==
  \/ \E p \in Pids :
       \/ Fork(p) \/ ForkFails(p) \/ ExitGroup(p) \/ TaskKilled(p) \/ Wait4(p)
       \/ Kill(p) \/ KillGroup(p) \/ RtSigaction(p) \/ RtSigprocmask(p)
       \/ SignalDequeue(p) \/ RtSigtimedwait(p) \/ Setpgid(p) \/ Setsid(p)
       \/ SetForeground(p) \/ ExecProcess(p) \/ PipeCreate(p) \/ Read(p)
       \/ Write(p) \/ Close(p) \/ Dup(p) \/ Fcntl(p) \/ TcSet(p)
  \/ TtyInput

LSpec == LInit /\ [][LNext]_lvars

-----------------------------------------------------------------------------
(* Properties *)

\* The tables of the server keep their shape: reference counts, queue lengths
\* and list members stay in range.
LTypeOK ==
  /\ \A p \in Pids :
       /\ srv.task[p] \in {"none", "run", "call", "gone"}
       /\ srv.proc[p].st \in {"none", "live", "zombie"}
       /\ ToSet(srv.proc[p].kids) \subseteq Pids
       /\ Cardinality(srv.proc[p].waits) <= 1
       /\ srv.proc[p].mask \subseteq Signals \ {"KILL"}
       /\ "KILL" \notin srv.proc[p].pending
  /\ \A i \in Pipes : /\ srv.pipe[i].len \in 0 .. Capacity
                       /\ srv.pipe[i].start \in 0 .. Capacity - 1
  /\ srv.tty.queue \in 0 .. TtyQueue /\ srv.tty.line \in 0 .. TtyLine

EndsOf(i, kind) ==
  {<<p, n>> \in Pids \X Fds : srv.proc[p].fds[n].kind = kind
                              /\ srv.proc[p].fds[n].pipe = i}

\* read_refs and write_refs of a pipe are the numbers of descriptors of its
\* ends in all processes, over fork, failed forks, dup, exec, exit and reaping.
RefsAreDescriptors ==
  \A i \in Pipes :
    /\ srv.pipe[i].readRefs = Cardinality(EndsOf(i, "pipe_read"))
    /\ srv.pipe[i].writeRefs = Cardinality(EndsOf(i, "pipe_write"))

\* Nobody sleeps for what is already there: a kept reader means an empty pipe
\* that can still be written, a kept writer a full one that can be read, and the
\* reader kept by the console is alive and has nothing to read.
NoLostWakeup ==
  /\ \A i \in Pipes :
       LET pipe == srv.pipe[i]
       IN /\ pipe.reader # Nobody => pipe.len = 0 /\ pipe.writeRefs # 0
          /\ pipe.writer # Nobody => pipe.len = Capacity /\ pipe.readRefs # 0
  /\ srv.tty.reader # Nobody => Live(srv, srv.tty.reader) /\ srv.tty.queue = 0

\* The ring holds, in order, exactly the bytes that were written and not yet
\* read, whatever mixture of reads, writes and wake-ups moved it.
StreamInOrder ==
  \A i \in Pipes :
    LET pipe == srv.pipe[i]
    IN /\ pipe.sent = pipe.got + pipe.len
       /\ \A k \in 1 .. pipe.len :
            pipe.data[(pipe.start + k - 1) % Capacity] = pipe.got + k

\* A process blocked in wait4 for any child or for one pid has such a child
\* alive, and none that has exited: it will be answered when one exits.
WaitHasCause ==
  \A p \in Pids : Live(srv, p) =>
    \A sel \in {w \in srv.proc[p].waits : w = -1 \/ w > 0} :
      /\ \E c \in Pids : Live(srv, c) /\ ChildMatches(srv, p, c, sel)
      /\ \A c \in ToSet(srv.proc[p].kids) :
           ChildMatches(srv, p, c, sel) => Live(srv, c)

\* A live process that waits for a reply is registered for exactly one, in a
\* wait, a pipe or the console; one that runs is registered for none.
OwedOneReply ==
  \A p \in Pids : Live(srv, p) =>
    LET owed == Cardinality(srv.proc[p].waits)
                + Cardinality({i \in Pipes : srv.pipe[i].reader = p})
                + Cardinality({i \in Pipes : srv.pipe[i].writer = p})
                + (IF srv.tty.reader = p THEN 1 ELSE 0)
    IN owed = IF srv.task[p] = "call" THEN 1 ELSE 0

\* A blocked process is owed exactly one reply, and a wait has what will cause it.
RepliesOwed == OwedOneReply /\ WaitHasCause

\* The child lists and parent pointers of processes in the table agree.
LinksAgree ==
  \A p, c \in Pids : Exists(srv, p) =>
    /\ c \in ToSet(srv.proc[p].kids)
         <=> Exists(srv, c) /\ srv.proc[c].linked = p
    /\ Cardinality(ToSet(srv.proc[p].kids)) = Len(srv.proc[p].kids)

\* Child lists and parent pointers agree, and while init lives a zombie is in
\* the list of a live parent that can wait for it, unless it was forked by a
\* process that had already exited.
ZombieCanBeReaped ==
  /\ LinksAgree
  /\ Live(srv, Init1) =>
       \A z \in Pids : srv.proc[z].st = "zombie" /\ ~srv.proc[z].late =>
         /\ Live(srv, srv.proc[z].linked)
         /\ z \in ToSet(srv.proc[srv.proc[z].linked].kids)



\* A live process comes to have a fatal signal pending, unblocked and with the
\* default action only by changing its own dispositions: kill, the console and
\* rt_sigprocmask end it instead.
FatalOnlyByDisposition ==
  [][\A p \in Pids :
       /\ Live(srv, p) /\ Live(srv', p)
       /\ MustEnd(srv, p) = {} /\ MustEnd(srv', p) # {}
       => \/ srv.proc[p].ignored # srv'.proc[p].ignored
          \/ srv.proc[p].handled # srv'.proc[p].handled]_lvars

=============================================================================
