------------------------------ MODULE MCLinux -------------------------------
(* The Linux server and the servers that keep processes with it, for TLC:    *)
(* programs that differ in the calls they make.                             *)
EXTENDS LinuxServer, LinuxFiles, UserServer, ProcServer, ExecLoader, LinuxSockets

VARIABLE part     \* which of the modules takes steps: they share no state

Scenario(procs, made, signals, selectors, keys, flags) ==
  [procs |-> procs, calls |-> made, signals |-> signals, selectors |-> selectors,
   keys |-> keys, flags |-> flags]

\* families: forks, exits, kills and waits for any child or for one
Family == Scenario(4, {"fork", "exit", "kill", "wait"}, {"KILL"}, {-1, 3}, {}, {})
\* signals that are masked, ignored and handled
Signalled == Scenario(2, {"fork", "exit", "kill", "sigaction", "sigmask", "dequeue",
                          "sigwait", "exec"}, {"INT"}, {}, {}, {})
\* groups and sessions: kills of a group, waits for a group
Groups == Scenario(3, {"fork", "forkfail", "wait", "killpg", "setpgid", "setsid"},
                   {"KILL"}, {-1, 0, -2}, {}, {})
\* the console: lines typed while readers come and go
Lines == Scenario(2, {"fork", "exit", "read", "tty", "termios"}, {}, {},
                  {"char", "newline", "erase", "eof", "intr"}, {})
\* Ctrl-C among readers, waiting parents and the foreground group
Interrupts == Scenario(3, {"fork", "wait", "setsid", "foreground",
                           "read", "tty"}, {}, {-1}, {"intr", "newline"}, {})
\* who holds the ends of a pipe
Plumbing == Scenario(2, {"fork", "forkfail", "exit", "pipe", "close", "dup"},
                     {}, {}, {}, {FALSE})
Inherited == Scenario(2, {"fork", "exec", "pipe", "fcntl"}, {}, {}, {}, BOOLEAN)
\* a pipe in use, and processes that die using it
Stream2 == Scenario(2, {"fork", "kill", "pipe", "read", "write", "close"},
                    {"KILL"}, {}, {}, {FALSE})
Stream3 == Scenario(3, {"fork", "pipe", "read", "write", "exit"}, {}, {}, {}, {FALSE})
Alone == Scenario(1, {"pipe", "read", "write", "close", "fcntl"}, {}, {}, {}, BOOLEAN)
LPrograms ==
  {Family, Signalled, Groups, Lines, Interrupts, Plumbing, Inherited, Stream2,
   Stream3, Alone}

-----------------------------------------------------------------------------
(* Files.  cwd, dir and handle are few, so that every program is small.     *)

FileScenario(made, dirs, bases, hows, asks, handles) ==
  [calls |-> made, dirs |-> dirs, bases |-> bases, hows |-> hows, asks |-> asks,
   handles |-> handles]
Creating == {{"creat"}}

\* who holds handles, open files and hidden names
Owning == FileScenario({"open", "tmpfile", "close", "dup", "chdir", "fork", "exit"},
                       {"etc"}, {"cwd"}, {{"creat", "trunc"}, {"creat", "excl"}}, {}, 4)
\* questions by working directory, by directory descriptor, by several processes
AskCwd == FileScenario({"ask", "make", "unlink", "chdir"}, {"etc", "run"},
                       {"abs", "cwd"}, {}, {"access"}, 2)
AskFd == FileScenario({"opendir", "ask", "make", "unlink", "chmod"}, {"etc"},
                      {"abs", "fd"}, {}, {"stat"}, 3)
AskMany == FileScenario({"fork", "ask", "make", "mount"}, {"etc", "run"}, {"abs"},
                        {}, {"stat", "access"}, 2)
\* files with several names, and descriptors that outlive their names
Renamed == FileScenario({"ask", "open", "rename", "fchmod", "write"}, {"etc", "run"},
                        {"abs"}, Creating, {"stat"}, 3)
Linked == FileScenario({"ask", "make", "link", "chmod", "unlink"}, {"etc", "run"},
                       {"abs"}, {}, {"stat"}, 2)
\* contents, read through one descriptor and written through another
Reading == FileScenario({"open", "read", "write", "mmap", "unlink"}, {"usr"}, {"abs"},
                        Creating, {}, 3)
Copying == FileScenario({"open", "read", "sendfile", "write", "truncate"}, {"etc"},
                        {"abs"}, Creating, {}, 3)
Listed == FileScenario({"opendir", "list", "make", "unlink", "rename", "tmpfile", "close"},
                       {"etc", "run"}, {"abs"}, {}, {}, 4)
FPrograms ==
  {Owning, AskCwd, AskFd, AskMany, Renamed, Linked, Reading, Copying, Listed}
Hidden == <<"hidden1">>

-----------------------------------------------------------------------------
(* Identities and sessions.                                                  *)

IPasswd == [n \in {"root", "kaniini", "long"} |->
   IF n = "root" THEN [uid |-> 0, gid |-> 0, password |-> "p"]
   ELSE IF n = "kaniini" THEN [uid |-> 10, gid |-> 10, password |-> "q"]
   ELSE [uid |-> 0, gid |-> 0, password |-> "r"]]
IGroupLines == << [gid |-> 0, members |-> {"long"}], [gid |-> 1, members |-> {"root", "kaniini"}],
   [gid |-> 10, members |-> {"kaniini"}], [gid |-> 20, members |-> {"kaniini"}],
   [gid |-> 21, members |-> {}] >>
ITry(n, p) == [name |-> n, password |-> p]
\* logins, right and wrong, shells that end, homes that are missing
ILogins == [ops |-> {"spawn", "fork", "exit", "again", "nohome"}, uids |-> {},
            tries |-> {ITry("root", "p"), ITry("kaniini", "q"), ITry("root", "q"), ITry("nobody", "p")}]
\* programs that change their identity
IChanging == [ops |-> {"spawn", "fork", "setids"}, uids |-> {0, 10, IKeep},
              tries |-> {ITry("kaniini", "q"), ITry("long", "r")}]
IPrograms == {ILogins, IChanging}

-----------------------------------------------------------------------------
(* Processes as the process server and procfs see them.                      *)

PBase == [ops |-> {}, progs |-> {"linux"}, fails |-> {"no"}, up |-> TRUE, execs |-> 0, pids |-> 3, lag |-> 0]
\* families and waits; spawns that fail, and a late procfs; execve; mounts
PForking == [PBase EXCEPT !.ops = {"fork", "exit", "reap", "wait"}, !.progs = {"linux", "native"}, !.lag = 1]
PFailing == [PBase EXCEPT !.ops = {"fork", "exit", "selfexit", "late"}, !.up = FALSE,
             !.progs = {"linux", "native"}, !.fails = {"no", "task", "register", "load"}]
PExecing == [PBase EXCEPT !.ops = {"fork", "exit", "kill", "exec"}, !.execs = 2, !.pids = 2]
PMounting == [PBase EXCEPT !.ops = {"mount", "lose", "exit"}, !.lag = 1, !.pids = 2]
PPrograms == {PForking, PFailing, PExecing, PMounting}

-----------------------------------------------------------------------------
(* Programs being started.                                                   *)

ESeg(vaddr, offset, filesz, memsz) == [vaddr |-> vaddr, offset |-> offset, filesz |-> filesz, memsz |-> memsz]
EElf(name, segs, interp) ==
  [kind |-> "elf", name |-> name, segs |-> segs, interp |-> interp, arg |-> ENoString, dyn |-> FALSE,
   bias |-> 0, size |-> 12, phoff |-> 1, phsize |-> 2, entry |-> 5]
EScript(name, interp, arg) == [EElf(name, <<>>, interp) EXCEPT !.kind = "script", !.arg = arg]
EOther(kind) == [EElf(0, <<>>, ENoString) EXCEPT !.kind = kind]
ETwo == <<ESeg(4, 0, 3, 3), ESeg(9, 5, 4, 8)>>
EWords == {<<9, 0>>, <<10, 1>>, <<11, 3>>}
EVectors(n) == UNION {[1 .. k -> EWords] : k \in 0 .. n}
EFiles ==
  << EElf(1, ETwo, ENoString),
     EElf(2, ETwo, <<3, 1>>),
     [EElf(3, <<ESeg(1, 1, 5, 6)>>, ENoString) EXCEPT !.dyn = TRUE, !.bias = 32],
     EScript(4, <<1, 1>>, ENoString), EScript(5, <<4, 1>>, <<10, 1>>), EScript(6, <<5, 1>>, ENoString),
     EOther("dir"), EOther("empty") >>
\* scripts of scripts; argument vectors; failures at every stage
EBase ==
  [files |-> EFiles, missing |-> EOther("missing"), argvs |-> EVectors(2), envs |-> {<<>>, <<<<12, 1>>>>},
   paths |-> {<<n, 1>> : n \in {1, 4, 5, 6}}, hows |-> {"exec"}, faults |-> {"no"}]
EArguing == [EBase EXCEPT !.envs = EVectors(2), !.paths = {<<1, 1>>, <<4, 1>>}]
EFailing == [EBase EXCEPT !.argvs = {<<>>, <<<<10, 1>>>>}, !.paths = {<<n, 1>> : n \in 1 .. 9},
             !.hows = {"exec", "vfork", "spawn"},
             !.faults = {"no", "prefix", "token", "main", "interp", "clear", "map", "stack", "enter"}]
\* images of every shape: two segments anywhere
EShapes == {EElf(1, <<ESeg(v, o, fs, 3), ESeg(w, 3, 2, ms)>>, ENoString) :
             v \in 4 .. 6, o \in 0 .. 2, fs \in 0 .. 4, w \in 6 .. 11, ms \in 1 .. 4}
EOne(f) == [EBase EXCEPT !.files = <<f>>, !.argvs = {<<>>}, !.envs = {<<>>}, !.paths = {<<1, 1>>}]
ESimple == EOne(EElf(1, ETwo, ENoString))
EPrograms == {EBase, EArguing, EFailing, ESimple} \cup {EOne(f) : f \in EShapes}

-----------------------------------------------------------------------------
(* Sockets.                                                                    *)

SBase == [ops |-> {}, socks |-> {}, ports |-> {2}, root |-> {1}, lens |-> {2}, addrs |-> {"port"}, reqs |-> {<<>>}, fds |-> 2, most |-> 2, procs |-> 2, items |-> 2, waits |-> BOOLEAN]
SReq(op, val, ack) == [op |-> op, val |-> val, ack |-> ack]
SStream == <<"inet", "stream", "any">>
SDgram == <<"inet", "dgram", "any">>
\* two datagram sockets, shared and read by several processes, some killed
SDatagrams == [SBase EXCEPT !.ops = {"socket", "bind", "send", "recv", "fork", "exit"}, !.socks = {SDgram}]
\* a connection: listening, accepting, writing, shutting down
SStreams == [SBase EXCEPT !.ops = {"socket", "bind", "listen", "accept", "connect", "send", "recv", "shutdown"},
             !.socks = {SStream}, !.fds = 3, !.most = 3]
\* who holds a socket
SHolding == [SBase EXCEPT !.ops = {"socket", "bind", "listen", "accept", "connect", "close", "fork"},
             !.socks = {SStream}, !.most = 3]
SAsked == {<<"unix", "stream", "any">>, <<"unix", "dgram", "any">>, <<"netlink", "raw", "route">>, <<"packet", "dgram", "ip">>,
           <<"inet", "dgram", "udp">>, <<"inet6", "stream", "any">>, <<"inet", "raw", "icmp">>, <<"inet", "dgram", "icmp">>,
           <<"inet", "raw", "raw">>, <<"other", "raw", "any">>}
\* every kind of socket, opened and asked about
SKinds == [SBase EXCEPT !.ops = {"socket", "send", "recv", "connect", "bind", "nonblock", "frame", "shutdown", "accept", "listen"},
             !.socks = SAsked, !.ports = {0, 1, 2}, !.root = {}, !.most = 1, !.fds = 1, !.lens = {1, 2}, !.addrs = {"port", "utmps", "path"}]
\* the routing socket
SRouting == [SBase EXCEPT !.ops = {"socket", "send", "recv"}, !.fds = 1, !.socks = {<<"netlink", "raw", "route">>},
   !.ports = {},
   !.reqs = {<<SReq("newaddr", 2, FALSE), SReq("getlink", 0, FALSE)>>, <<SReq("getaddr", 0, TRUE)>>,
             <<SReq("deladdr", 1, FALSE), SReq("deladdr", 1, FALSE)>>, <<SReq("newroute", 1, FALSE), SReq("getroute", 0, FALSE)>>,
             <<SReq("linkdown", 2, FALSE), SReq("short", 0, FALSE)>>, <<SReq("getlink", 0, FALSE)>>,
             <<SReq("linkup", 2, FALSE), SReq("linkup", 3, FALSE)>>, <<SReq("delroute", 1, TRUE), SReq("getaddr", 2, FALSE)>>, <<SReq("odd", 2, FALSE), SReq("getlink", 2, FALSE)>>}]
\* frames taken by several descriptors; readers that compete for two sockets
SFrames == [SBase EXCEPT !.ops = {"socket", "bind", "send", "recv", "frame", "dup"},
            !.socks = {<<"packet", "dgram", "ip">>, <<"inet", "raw", "raw">>}]
SRivals == [SBase EXCEPT !.ops = {"socket", "bind", "send", "recv", "fork"}, !.socks = {SDgram}, !.procs = 3,
            !.items = 1, !.waits = {TRUE}]
SPrograms == {SFrames, SRivals, SDatagrams, SStreams, SHolding, SKinds, SRouting}

-----------------------------------------------------------------------------
LinuxInit ==
  /\ part \in {"processes", "files", "user", "proc", "exec", "sockets"}
  /\ LInit /\ (part # "processes" => makes = Alone)
  /\ FInit /\ (part # "files" => fmakes = Listed)
  /\ IInit /\ (part # "user" => idoes = IChanging)
  /\ PInit /\ (part # "proc" => pdoes = PExecing)
  /\ EInit /\ (part # "exec" => edoes = ESimple)
  /\ SInit /\ (part # "sockets" => sdoes = SFrames)
LinuxNext ==
  \/ part = "processes" /\ LNext /\ UNCHANGED <<fvars, ivars, pvars, evars, svars, part>>
  \/ part = "files" /\ FNext /\ UNCHANGED <<lvars, ivars, pvars, evars, svars, part>>
  \/ part = "user" /\ INext /\ UNCHANGED <<lvars, fvars, pvars, evars, svars, part>>
  \/ part = "proc" /\ PNext /\ UNCHANGED <<lvars, fvars, ivars, evars, svars, part>>
  \/ part = "exec" /\ ENext /\ UNCHANGED <<lvars, fvars, ivars, pvars, svars, part>>
  \/ part = "sockets" /\ SNext /\ UNCHANGED <<lvars, fvars, ivars, pvars, evars, part>>
LinuxSpec == LinuxInit /\ [][LinuxNext]_<<lvars, fvars, ivars, pvars, evars, svars, part>>

\* Every variable of these servers holds a value its types allow
LinuxTypeOK ==
  /\ part = "processes" => LTypeOK
  /\ part = "files" => FilesTypeOK
  /\ part = "user" => UserTypeOK
  /\ part = "proc" => ProcTypeOK
  /\ part = "exec" => LoaderTypeOK
  /\ part = "sockets" => SocketsTypeOK

\* What the servers that keep processes promise together: identities and sessions
\* (user server and login), the tables of the process server, of procfs and of the
\* Linux server, and what a started program finds in its memory
ProcessesSound ==
  /\ part = "user" => UserSound
  /\ part = "proc" => ProcSound
  /\ part = "exec" => LoaderSound

\* Sockets of Linux programs: descriptors and the network server agree on what is open,
\* waiting calls are neither lost nor left behind, nothing is received twice, answers of
\* the routing socket are whole, and poll and SO_TYPE tell the truth
SocketsHold == part = "sockets" => SocketsSound
=============================================================================
