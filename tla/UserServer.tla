----------------------------- MODULE UserServer -----------------------------
(* The user server and its clients: credentials by task, login sessions, the  *)
(* account files, and the login program that authenticates a name, begins a   *)
(* session and drops to the account's identity before it runs the shell.      *)
EXTENDS Integers, Sequences, FiniteSets, SequencesExt

CONSTANTS
  IScenarios,
  IMaxTask,         \* tasks ever registered
  IMaxSession,      \* sessions ever begun
  IAccounts,        \* /etc/passwd and /etc/shadow: name -> [uid, gid, password]
  IGroupFile        \* /etc/group: its lines, [gid, members]

VARIABLES ids, idoes
ivars == <<ids, idoes>>

-----------------------------------------------------------------------------
(* Accounts.                                                                  *)

ITasks == 1 .. IMaxTask
IConsole == 1
IKeep == 99

\* account_lookup_name, shadow_authenticate, credential_auth_login_text
IKnown(name) == name \in DOMAIN IAccounts
IShadow(name, password) == IKnown(name) /\ IAccounts[name].password = password
IAuthenticated(name, password) == IKnown(name) /\ IShadow(name, password)
\* login_groups_collect: one line after the other, each group once
ILineGrants(line, name, gid) == line.gid = gid \/ name \in line.members
IAppendGroup(groups, gid) == IF gid \in ToSet(groups) THEN groups ELSE Append(groups, gid)
ILoginGroups(name, gid) ==
  FoldLeft(LAMBDA acc, line :
             IF ILineGrants(line, name, gid) THEN IAppendGroup(acc, line.gid) ELSE acc,
           <<>>, IGroupFile)

-----------------------------------------------------------------------------
(* Credentials.                                                               *)

IIdentity(u, g, groups) ==
  [uid |-> u, gid |-> g, euid |-> u, egid |-> g, suid |-> u, sgid |-> g, groups |-> groups]
IHas(s, t) == t \in DOMAIN s.creds
ISetCred(s, t, c) ==
  [s EXCEPT !.creds = [x \in DOMAIN @ \cup {t} |-> IF x = t THEN c ELSE @[x]]]
IDropCred(s, t) == [s EXCEPT !.creds = [x \in DOMAIN @ \ {t} |-> @[x]]]
\* credential_register, credential_fork, credential_exit
IRegistered(s, t) ==
  IF IHas(s, t) THEN s ELSE ISetCred(s, t, IIdentity(0, 0, <<0, 1>>))
IForked(s, t, c) ==
  IF IHas(s, c) \/ ~IHas(s, t) THEN s ELSE ISetCred(s, c, s.creds[t])
ICanMutate(s, t) == IHas(s, t) /\ s.creds[t].euid = 0
INew(old, new) == IF new = IKeep THEN old ELSE new
\* credential_setresuid, credential_setresgid, credential_setgroups
ISetResUid(s, t, r, e, v) ==
  IF ~ICanMutate(s, t) THEN s
  ELSE [s EXCEPT !.creds[t].uid = INew(@, r), !.creds[t].euid = INew(@, e),
                 !.creds[t].suid = INew(@, v)]
ISetResGid(s, t, r, e, v) ==
  IF ~ICanMutate(s, t) THEN s
  ELSE [s EXCEPT !.creds[t].gid = INew(@, r), !.creds[t].egid = INew(@, e),
                 !.creds[t].sgid = INew(@, v)]
ISetGroups(s, t, groups) ==
  IF ~ICanMutate(s, t) THEN s ELSE [s EXCEPT !.creds[t].groups = groups]
\* credential_has_group and credential_can_access for one permission bit of the
\* owner, the group and the others
IHasGroup(c, g) == c.gid = g \/ g \in ToSet(c.groups)
ICanAccess_Any(c, owner, group, mode) ==
  \/ c.euid = 0 \/ (c.euid = owner /\ mode.u)
  \/ ((c.egid = group \/ IHasGroup(c, group)) /\ mode.g) \/ mode.o

ICanAccess(c, owner, group, mode) ==
  \/ c.euid = 0
  \/ /\ c.euid # 0
     /\ IF c.euid = owner THEN mode.u
        ELSE IF c.egid = group \/ IHasGroup(c, group) THEN mode.g
        ELSE mode.o
-----------------------------------------------------------------------------
(* Sessions.                                                                  *)

ISessionEnd(s, x) == [s EXCEPT !.sess = [y \in DOMAIN @ \ {x} |-> @[y]]]
\* session_end_tty, then the new session
IEndTty(s, tty) ==
  [s EXCEPT !.sess = [y \in {z \in DOMAIN @ : @[z].tty # tty} |-> @[y]]]
ISessionBegin_Keeps(s, u, g, tty) ==
  [s EXCEPT !.next = @ + 1,
            !.sess = [y \in DOMAIN @ \cup {s.next} |->
              IF y = s.next THEN [uid |-> u, gid |-> g, tty |-> tty, fg |-> 0] ELSE @[y]]]
ISessionBegin(s, u, g, tty) ==
  LET e == IEndTty(s, tty)
  IN [e EXCEPT !.next = @ + 1,
               !.sess = [y \in DOMAIN @ \cup {s.next} |->
                 IF y = s.next THEN [uid |-> u, gid |-> g, tty |-> tty, fg |-> 0] ELSE @[y]]]
\* session_find, session_set_foreground, linux_attach_session
IHasSession(s, x) == x \in DOMAIN s.sess
ISetForeground(s, x, t) == [s EXCEPT !.sess[x].fg = t]
IAttached(s, t, x) ==
  [ISetForeground(s, x, t) EXCEPT !.at[t].session = x, !.at[t].owner = TRUE]

-----------------------------------------------------------------------------
(* The tasks.  pc is where the program of a task stands; name and gid are what *)
(* login holds in its variables; who is the account the task acts for, as the  *)
(* specification sees it, and free is set by calls that change it on purpose.  *)

IIdle == [pc |-> "none", session |-> 0, owner |-> FALSE, held |-> 0, name |-> "", who |-> "root",
          free |-> FALSE]
IStart == [creds |-> [t \in {} |-> 0], sess |-> [x \in {} |-> 0], next |-> 1,
           at |-> [t \in ITasks |-> IIdle], lost |-> {}]
IInit == idoes \in IScenarios /\ ids = IStart

IDoes(op) == op \in idoes.ops
IBecomes(s) == ids' = s /\ UNCHANGED idoes
IGo(s, t, pc) == [s EXCEPT !.at[t].pc = pc]
IAt(t, pc) == ids.at[t].pc = pc

\* proc registers the task of a program it spawns
ISpawn(t) ==
  /\ IDoes("spawn") /\ IAt(t, "none") /\ \A x \in 1 .. t - 1 : ~IAt(x, "none")
  /\ IBecomes(IGo(IRegistered(ids, t), t, "login"))

\* linux_fork_process: the child shares the session and does not own it
IFork(t, c) ==
  /\ IDoes("fork") /\ IAt(t, "shell") /\ IAt(c, "none")
  /\ \A x \in 1 .. c - 1 : ~IAt(x, "none")
  /\ IBecomes([IForked(ids, t, c) EXCEPT !.at[c] = [ids.at[t] EXCEPT !.owner = FALSE]])

\* linux_process_exit_status and linux_process_reset
IExit(t) ==
  /\ IDoes("exit") /\ ids.at[t].pc \notin {"none", "dead"}
  /\ LET a == ids.at[t]
         s == IF a.owner THEN ISessionEnd(ids, a.session) ELSE ids
     IN IBecomes([IGo(IDropCred(s, t), t, "dead") EXCEPT
                    !.lost = IF a.pc = "begun" THEN @ \cup {a.held} ELSE @,
                    !.at[t].owner = FALSE])

\* a shell runs login again
IRunLogin(t) == IDoes("again") /\ IAt(t, "shell") /\ IBecomes(IGo(ids, t, "login"))

\* authenticate: a wrong name or password prompts again
IAuth(t) ==
  /\ IAt(t, "login")
  /\ \E try \in idoes.tries :
       IF IAuthenticated(try.name, try.password)
       THEN IBecomes([IGo(ids, t, "authed") EXCEPT !.at[t].name = try.name])
       ELSE IBecomes(ids)

\* session_begin of the login program, after login_groups
IBegin(t) ==
  /\ IAt(t, "authed") /\ ids.next <= IMaxSession
  /\ LET a == IAccounts[ids.at[t].name]
         s == ISessionBegin(ids, a.uid, a.gid, IConsole)
     IN IBecomes([IGo(s, t, "begun") EXCEPT !.at[t].held = ids.next])

\* attach_session: another login may have ended the session meanwhile
IAttach(t) ==
  /\ IAt(t, "begun")
  /\ LET x == ids.at[t].held
     IN IF IHasSession(ids, x) THEN IBecomes(IGo(IAttached(ids, t, x), t, "attached"))
        ELSE IBecomes(IGo(ids, t, "login"))

IApplied_UidFirst(s, t) ==
  LET a == IAccounts[s.at[t].name]
      h == ISetResUid(s, t, a.uid, a.uid, a.uid)
      g == ISetGroups(h, t, ILoginGroups(s.at[t].name, a.gid))
  IN ISetResGid(g, t, a.gid, a.gid, a.gid)
\* apply_login: setgroups, setgid, setuid; the first that fails ends the session
IApplied(s, t) ==
  LET a == IAccounts[s.at[t].name]
      g == ISetGroups(s, t, ILoginGroups(s.at[t].name, a.gid))
      h == ISetResGid(g, t, a.gid, a.gid, a.gid)
  IN ISetResUid(h, t, a.uid, a.uid, a.uid)
IApply(t) ==
  /\ IAt(t, "attached")
  /\ IF ICanMutate(ids, t)
     THEN IBecomes([IGo(IApplied(ids, t), t, "applied") EXCEPT
                      !.at[t].who = ids.at[t].name, !.at[t].free = FALSE])
     ELSE IBecomes(IGo(ISessionEnd(ids, ids.at[t].held), t, "login"))

\* exec_shell: no home directory, and login asks again
IShell(t) == IAt(t, "applied") /\ IBecomes(IGo(ids, t, "shell"))
INoShell(t) ==
  /\ IAt(t, "applied") /\ IDoes("nohome")
  /\ IBecomes(IGo(ISessionEnd(ids, ids.at[t].held), t, "login"))

\* setresuid and setgroups of a program: only one with effective uid 0 changes
ISetIds(t) ==
  /\ IDoes("setids") /\ IAt(t, "shell")
  /\ \E r, e, v \in idoes.uids :
       IBecomes([ISetResUid(ids, t, r, e, v) EXCEPT
                   !.at[t].free = @ \/ ids.creds[t].euid = 0])

INext ==
  \E t \in ITasks :
    \/ ISpawn(t) \/ IExit(t) \/ IRunLogin(t) \/ IAuth(t) \/ IBegin(t)
    \/ IAttach(t) \/ IApply(t) \/ IShell(t) \/ INoShell(t) \/ ISetIds(t)
    \/ \E c \in ITasks : IFork(t, c)

-----------------------------------------------------------------------------
(* What the account files say a name may do.                                  *)

IMemberOf(name) ==
  {IAccounts[name].gid} \cup {l.gid : l \in {x \in ToSet(IGroupFile) : name \in x.members}}
IModes == [u : BOOLEAN, g : BOOLEAN, o : BOOLEAN]
IGids == {l.gid : l \in ToSet(IGroupFile)} \cup {IAccounts[n].gid : n \in DOMAIN IAccounts}
IUids == {IAccounts[n].uid : n \in DOMAIN IAccounts}
IMayAccess(name, owner, group, mode) ==
  LET u == IAccounts[name].uid
  IN u = 0 \/ (IF owner = u THEN mode.u ELSE IF group \in IMemberOf(name) THEN mode.g ELSE mode.o)

UserTypeOK ==
  /\ DOMAIN ids.creds \subseteq ITasks
  /\ DOMAIN ids.sess \subseteq 1 .. IMaxSession
  /\ ids.next \in 1 .. IMaxSession + 1

\* A task has credentials from its registration to its exit; a console has one
\* session at most, and every session belongs to a task that will end it.
ISessionsSound ==
  /\ \A t \in ITasks : IHas(ids, t) <=> ids.at[t].pc \notin {"none", "dead"}
  /\ \A x, y \in DOMAIN ids.sess : ids.sess[x].tty = ids.sess[y].tty => x = y
  /\ \A x \in DOMAIN ids.sess :
       \/ x \in ids.lost
       \/ \E t \in ITasks : \/ ids.at[t].owner /\ ids.at[t].session = x
                            \/ IAt(t, "begun") /\ ids.at[t].held = x
\* A shell and the programs it starts act with the identity of the account that
\* logged in: every access decision is the one /etc/passwd and /etc/group give.
IIdentitySound ==
  \A t \in ITasks :
    (ids.at[t].pc = "shell" /\ ~ids.at[t].free) =>
      \A owner \in IUids, group \in IGids, mode \in IModes :
        ICanAccess(ids.creds[t], owner, group, mode)
          <=> IMayAccess(ids.at[t].who, owner, group, mode)
UserSound == ISessionsSound /\ IIdentitySound
=============================================================================
