------------------------------ MODULE Handles ------------------------------
(***************************************************************************)
(* Capabilities: the handle tables of kernel/sched.c, the reference counts *)
(* of ports, shared buffers and tasks, the references that messages and    *)
(* system calls in progress hold, fork, and the life of a task from        *)
(* task_create to task_teardown.                                           *)
(*                                                                         *)
(* One step is what the code does under one lock.  hold is the list of     *)
(* references in the local variables of a thread's system call.  lost and  *)
(* the pool of objects to create are the model's own: lost counts the      *)
(* references of threads that were reaped inside a system call and of      *)
(* refused exports, which nothing will ever drop.                          *)
(***************************************************************************)
EXTENDS Naturals, FiniteSets, Sequences

CONSTANTS
  Ports, Buffers, HTasks,
  HThreads, Owner,   \* threads and thread->task
  SlotCount,         \* the table size at which task_grow_handles_locked fails
  CapRights,         \* the cap_rights values that programs pass
  CapKinds,          \* the objects that programs send in messages
  Scenarios,         \* the system calls each thread's program makes
  Immortal,          \* ports made by ipc_port_create, which are never freed
  QueueBound,        \* at most this many messages wait on a port
  LostBound,         \* at most this many refused exports of an object
  Boot,              \* the handles the boot servers start with
  HStarted,          \* threads that exist at boot
  Nil

Objects == Ports \cup Buffers \cup HTasks
Slots == 1..SlotCount
Empty == [obj |-> Nil, rights |-> {}]
AllRights == {"send", "recv", "dup"}

ASSUME HandleConstants ==
  /\ Owner \in [HThreads -> HTasks]
  /\ SlotCount \in Nat \ {0} /\ QueueBound \in Nat /\ LostBound \in Nat
  /\ CapRights \subseteq SUBSET AllRights /\ CapKinds \subseteq Objects
  /\ Boot \in [HTasks -> [Slots -> [obj : Objects \cup {Nil}, rights : SUBSET AllRights]]]
  /\ HStarted \subseteq HThreads /\ Immortal \subseteq Ports /\ Nil \notin Objects

VARIABLES
  calls,     \* the member of Scenarios this behaviour follows
  table,     \* task->handles
  refs,      \* ref_count
  made,      \* objects that have been created
  freed,     \* objects given back to the slab
  doomed,    \* task->killing
  hdead,     \* task->dead
  torn,      \* task_teardown has taken the table: what it still has to drop
  mail,      \* port->head ... port->tail
  waiter,    \* port->receiver
  at,        \* where a thread is
  hold,      \* references in its local variables
  msg,       \* the message it sends or has received
  lost       \* references that nobody will drop

hVars == <<calls, table, refs, made, freed, doomed, hdead, torn, mail, waiter, at,
           hold, msg, lost>>

NoMsg == [reply |-> Nil, cap |-> Nil, rights |-> {}]
Messages == [reply : Ports \cup {Nil}, cap : Objects \cup {Nil}, rights : SUBSET AllRights]

-----------------------------------------------------------------------------
Times(s, o) == Cardinality({i \in DOMAIN s : s[i] = o})
InTable(tab, o) == Cardinality({h \in Slots : tab[h].obj = o})
Carried(m) == <<m.reply, m.cap>>

\* task_handle_retain of every object of s
Retained(s) == [o \in Objects |-> refs[o] + Times(s, o)]


\* What ipc_port_release, buffer_release and task_release ask before they free
Unused(o) ==
  \/ o \in Ports \ Immortal /\ mail[o] = <<>> /\ waiter[o] = Nil
  \/ o \in Buffers

Lowered(s) ==
  [o \in Objects |-> IF refs[o] > Times(s, o) THEN refs[o] - Times(s, o) ELSE 0]

\* task_handle_release of every object of s, by whoever tab' = tables says: the
\* last release of a dead task hands its table to task_teardown.
Release(s, tables, deaths) ==
  LET zero == {o \in Objects : Times(s, o) > 0 /\ Lowered(s)[o] = 0}
      over == {k \in zero : k \in deaths}
  IN /\ refs' = Lowered(s)
     /\ freed' = freed \cup {o \in zero : Unused(o)}
     /\ torn' = [k \in HTasks |-> IF k \in over
                                  THEN [h \in Slots |-> tables[k][h].obj] ELSE torn[k]]
     /\ table' = [k \in HTasks |-> IF k \in over THEN [h \in Slots |-> Empty]
                                                 ELSE tables[k]]

\* The handle an equal grant already has
Entry(tab, o, R) == {h \in Slots : tab[h] = [obj |-> o, rights |-> R]}

\* task_grant_port, _buffer, _task: an equal handle is shared, otherwise the
\* first free slot is taken, and a full table refuses
Granted(tab, o, R) ==
  LET room == {h \in Slots : tab[h] = Empty} IN
    IF \/ o = Nil \/ Entry(tab, o, R) # {} \/ room = {}
       \/ o \in HTasks /\ (R = {} \/ o \in hdead)
    THEN tab
    ELSE [tab EXCEPT ![CHOOSE h \in room : \A g \in room : h <= g] =
                       [obj |-> o, rights |-> R]]


\* The references a changed table adds
Added(new, old) ==
  [o \in Objects |-> refs[o] + InTable(new, o) - InTable(old, o)]

\* task_port_from_handle, task_buffer_from_handle, task_from_handle and
\* task_export_cap: the object, if the handle carries the rights
Has(t, h, R) ==
  LET e == table[Owner[t]][h] IN
    e.obj # Nil /\ R \subseteq e.rights /\ e.obj \notin hdead
ObjectAt(t, h) == table[Owner[t]][h].obj

At(t, l) == at[t] = l
User(t, verb) == At(t, "user") /\ verb \in calls[t] /\ Owner[t] \notin doomed
Go(t, l) == at' = [at EXCEPT ![t] = l]

-----------------------------------------------------------------------------
(* Sending: native_sys_ipc_send.  A program sends plain messages, asks with *)
(* a reply port, or lends a capability.                                    *)

SendStart(t, h) ==
  /\ \E verb \in {"send", "ask", "lend"} : User(t, verb)
  /\ ObjectAt(t, h) \in Ports /\ Has(t, h, {"send"})
  /\ refs' = Retained(<<ObjectAt(t, h)>>)
  /\ hold' = [hold EXCEPT ![t] = <<ObjectAt(t, h)>>]
  /\ Go(t, "compose")
  /\ UNCHANGED <<calls, table, made, freed, doomed, hdead, torn, mail, waiter, msg, lost>>

\* The reply handle, if it is one to send to
ReplyAt(t, r) ==
  IF r \in Slots /\ ObjectAt(t, r) \in Ports /\ Has(t, r, {"send"})
  THEN ObjectAt(t, r) ELSE Nil

\* The handles a program that makes this call may give; 0 is none
Given(t, verb) ==
  IF At(t, "compose") /\ verb \in calls[t] THEN Slots ELSE {0}

Exports(t, h, R) ==
  h \in Slots /\ Has(t, h, R \cup {"dup"})

\* user_message_to_ipc: a capability needs DUP and the rights it is sent with.
\* An export with no rights is refused after the object has been retained.
Compose(t, r, h, R) ==
  /\ At(t, "compose")
  /\ h \in Slots => ObjectAt(t, h) \in CapKinds \cup {Nil}
  /\ \/ LET m == [reply |-> ReplyAt(t, r), cap |-> Nil, rights |-> {}] IN
          /\ h = 0 /\ R = {}
          /\ msg' = [msg EXCEPT ![t] = m]
          /\ refs' = Retained(Carried(m))
          /\ hold' = [hold EXCEPT ![t] = @ \o Carried(m)]
          /\ Go(t, "post")
          /\ UNCHANGED lost
     \/ LET m == [reply |-> ReplyAt(t, r), cap |-> ObjectAt(t, h), rights |-> R] IN
          /\ Exports(t, h, R) /\ R # {}
          /\ msg' = [msg EXCEPT ![t] = m]
          /\ refs' = Retained(Carried(m))
          /\ hold' = [hold EXCEPT ![t] = @ \o Carried(m)]
          /\ Go(t, "post")
          /\ UNCHANGED lost
     \/ /\ h \in Slots /\ (~Exports(t, h, R) \/ R = {})
        /\ LET kept == IF Exports(t, h, R) THEN <<ObjectAt(t, h)>> ELSE <<>> IN
             /\ \A o \in Objects : lost[o] + Times(kept, o) <= LostBound
             /\ refs' = Retained(kept)
             /\ lost' = [o \in Objects |-> lost[o] + Times(kept, o)]
        /\ Go(t, "drop")
        /\ UNCHANGED <<msg, hold>>
  /\ UNCHANGED <<calls, table, made, freed, doomed, hdead, torn, mail, waiter>>

\* Mutant: the queued copy shares the sender's references
CopyRefs_Shared(m) == <<>>

\* ipc_message_retain: task_retain fails for a dead task, and nobody looks
CopyRefs(m) == <<m.reply, IF m.cap \in hdead THEN Nil ELSE m.cap>>

\* ipc_send: straight to a waiting receiver, or a copy on the queue after the
\* references of the first copy have been dropped again
Post(t) ==
  LET p == hold[t][1]
      m == msg[t]
      orphan == m.cap \in hdead
  IN /\ At(t, "post")
     /\ \/ /\ waiter[p] # Nil
           /\ msg' = [msg EXCEPT ![waiter[p]] = m, ![t] = NoMsg]
           /\ hold' = [hold EXCEPT ![waiter[p]] = @ \o Carried(m)]
           /\ waiter' = [waiter EXCEPT ![p] = Nil]
           /\ at' = [at EXCEPT ![waiter[p]] = "given", ![t] = "drop"]
           /\ refs' = Retained(CopyRefs(m))
           /\ UNCHANGED mail
        \/ /\ waiter[p] = Nil /\ Len(mail[p]) < QueueBound
           /\ mail' = [mail EXCEPT ![p] = Append(@, m)]
           /\ msg' = [msg EXCEPT ![t] = NoMsg]
           /\ Go(t, "drop")
           /\ refs' = IF orphan THEN [Retained(CopyRefs(m)) EXCEPT ![m.cap] = @ - 1]
                                ELSE Retained(CopyRefs(m))
           /\ UNCHANGED <<hold, waiter>>
     /\ UNCHANGED <<calls, table, made, freed, doomed, hdead, torn, lost>>

\* ipc_message_release and the other releases at the end of a system call
Drop(t) ==
  /\ At(t, "drop")
  /\ Release(hold[t], table, hdead)
  /\ hold' = [hold EXCEPT ![t] = <<>>]
  /\ Go(t, "user")
  /\ UNCHANGED <<calls, made, doomed, hdead, mail, waiter, msg, lost>>

-----------------------------------------------------------------------------
(* Receiving: native_sys_ipc_recv.                                         *)

RecvStart(t, h) ==
  /\ User(t, "recv")
  /\ ObjectAt(t, h) \in Ports /\ Has(t, h, {"recv"})
  /\ refs' = Retained(<<ObjectAt(t, h)>>)
  /\ hold' = [hold EXCEPT ![t] = <<ObjectAt(t, h)>>]
  /\ Go(t, "recv")
  /\ UNCHANGED <<calls, table, made, freed, doomed, hdead, torn, mail, waiter, msg, lost>>

\* ipc_recv: the references of the queued message pass to the receiver
Recv(t) ==
  LET p == hold[t][1] IN
    /\ At(t, "recv")
    /\ \/ /\ mail[p] # <<>>
          /\ msg' = [msg EXCEPT ![t] = Head(mail[p])]
          /\ hold' = [hold EXCEPT ![t] = @ \o Carried(Head(mail[p]))]
          /\ mail' = [mail EXCEPT ![p] = Tail(@)]
          /\ Go(t, "got")
          /\ UNCHANGED waiter
       \/ /\ mail[p] = <<>> /\ Owner[t] \notin doomed
          /\ waiter' = [waiter EXCEPT ![p] = t]
          /\ Go(t, "blocked")
          /\ UNCHANGED <<msg, hold, mail>>
    /\ UNCHANGED <<calls, table, refs, made, freed, doomed, hdead, torn, lost>>

\* The receiver was given a message directly and runs again
Resume(t) ==
  /\ At(t, "given") /\ Owner[t] \notin doomed
  /\ Go(t, "got")
  /\ UNCHANGED <<calls, table, refs, made, freed, doomed, hdead, torn, mail, waiter,
                 hold, msg, lost>>

\* ipc_message_to_user: handles for the reply port and for the capability
Got(t) ==
  LET k == Owner[t]
      new == Granted(Granted(table[k], msg[t].reply, {"send"}),
                     msg[t].cap, msg[t].rights)
  IN /\ At(t, "got")
     /\ table' = [table EXCEPT ![k] = new]
     /\ refs' = Added(new, table[k])
     /\ msg' = [msg EXCEPT ![t] = NoMsg]
     /\ Go(t, "drop")
     /\ UNCHANGED <<calls, made, freed, doomed, hdead, torn, mail, waiter, hold, lost>>

-----------------------------------------------------------------------------
(* Creating and closing.                                                   *)

\* native_sys_port_create: the handle is the port's only reference.  A port
\* that gets no handle, because the table is full, is never seen again.
PortCreate(t, p) ==
  LET k == Owner[t]
      new == Granted(table[k], p, AllRights)
  IN /\ User(t, "port") /\ p \notin made /\ new # table[k]
     /\ made' = made \cup {p}
     /\ table' = [table EXCEPT ![k] = new]
     /\ refs' = Added(new, table[k])
     /\ UNCHANGED <<calls, freed, doomed, hdead, torn, mail, waiter, at, hold, msg, lost>>

\* native_sys_buffer_create: the creator's own reference goes at the end
BufferCreate(t, b) ==
  LET k == Owner[t]
      new == Granted(table[k], b, AllRights)
  IN /\ User(t, "buffer") /\ b \notin made
     /\ made' = made \cup {b}
     /\ table' = [table EXCEPT ![k] = new]
     /\ refs' = [Added(new, table[k]) EXCEPT ![b] = @ + 1]
     /\ hold' = [hold EXCEPT ![t] = <<b>>]
     /\ Go(t, "drop")
     /\ UNCHANGED <<calls, freed, doomed, hdead, torn, mail, waiter, msg, lost>>

\* native_sys_buffer_read, _write and _phys look the buffer up, use it and drop it
BufferUse(t, h) ==
  /\ User(t, "use")
  /\ ObjectAt(t, h) \in Buffers /\ \E r \in {"send", "recv"} : Has(t, h, {r})
  /\ refs' = Retained(<<ObjectAt(t, h)>>)
  /\ hold' = [hold EXCEPT ![t] = <<ObjectAt(t, h)>>]
  /\ Go(t, "drop")
  /\ UNCHANGED <<calls, table, made, freed, doomed, hdead, torn, mail, waiter, msg, lost>>

\* Mutant: the object is released but its handle stays in the table
Cleared_Not(tab, h) == tab

Cleared(tab, h) == [tab EXCEPT ![h] = Empty]

\* task_close_handle: the slot is cleared under the lock, the release follows
Close(t, h) ==
  /\ User(t, "close") \/ (User(t, "discard") /\ ObjectAt(t, h) \in Buffers)
  /\ ObjectAt(t, h) # Nil
  /\ hold' = [hold EXCEPT ![t] = <<ObjectAt(t, h)>>]
  /\ table' = [table EXCEPT ![Owner[t]] = Cleared(@, h)]
  /\ Go(t, "drop")
  /\ UNCHANGED <<calls, refs, made, freed, doomed, hdead, torn, mail, waiter, msg, lost>>

-----------------------------------------------------------------------------
(* Granting to a task: server_task_grant_tagged.                           *)

TaskFind(t, h, verb, next) ==
  /\ User(t, verb)
  /\ ObjectAt(t, h) \in HTasks /\ Has(t, h, {"send"})
  /\ refs' = Retained(<<ObjectAt(t, h)>>)
  /\ hold' = [hold EXCEPT ![t] = <<ObjectAt(t, h)>>]
  /\ Go(t, next)
  /\ UNCHANGED <<calls, table, made, freed, doomed, hdead, torn, mail, waiter, msg, lost>>

\* Mutant: a handle may be passed on without the DUP right
Inheritable_NoDup(t, h, R) == ObjectAt(t, h) # Nil /\ R # {} /\ Has(t, h, R)

Inheritable(t, h, R) == ObjectAt(t, h) # Nil /\ R # {} /\ Has(t, h, R \cup {"dup"})

\* task_grant_inherited_handle, under the source's lock
InheritFrom(t, h, R) ==
  /\ At(t, "inherit")
  /\ \/ /\ Inheritable(t, h, R)
        /\ refs' = Retained(<<ObjectAt(t, h)>>)
        /\ hold' = [hold EXCEPT ![t] = Append(@, ObjectAt(t, h))]
        /\ msg' = [msg EXCEPT ![t].rights = R]
        /\ Go(t, "insert")
     \/ /\ ~Inheritable(t, h, R)
        /\ Go(t, "drop")
        /\ UNCHANGED <<refs, hold, msg>>
  /\ UNCHANGED <<calls, table, made, freed, doomed, hdead, torn, mail, waiter, lost>>

\* then under the destination's
InheritInto(t) ==
  LET k == hold[t][1]
      new == Granted(table[k], hold[t][2], msg[t].rights)
  IN /\ At(t, "insert")
     /\ table' = [table EXCEPT ![k] = new]
     /\ refs' = Added(new, table[k])
     /\ msg' = [msg EXCEPT ![t] = NoMsg]
     /\ Go(t, "drop")
     /\ UNCHANGED <<calls, made, freed, doomed, hdead, torn, mail, waiter, hold, lost>>

-----------------------------------------------------------------------------
(* Tasks.                                                                  *)

Alive(k) == {u \in HThreads : Owner[u] = k /\ at[u] \notin {"new", "gone"}}

\* task_clone_handles: dead tasks are skipped, a handle to the parent itself
\* becomes one to the child
Cloned(tab, k, c) ==
  [h \in Slots |->
     IF tab[h].obj \in hdead THEN Empty
     ELSE IF tab[h].obj = k THEN [tab[h] EXCEPT !.obj = c] ELSE tab[h]]

\* server_task_fork_current_stopped and its vfork twin, up to the point where
\* the child has its handles and no thread
Fork(t, u) ==
  LET k == Owner[t]  c == Owner[u]
      new == Cloned(table[k], k, c)
  IN /\ User(t, "fork") /\ At(u, "new") /\ c \notin made
     /\ made' = made \cup {c}
     /\ table' = [table EXCEPT ![c] = new]
     /\ refs' = [Added(new, table[c]) EXCEPT ![c] = @ + 1]
     /\ at' = [at EXCEPT ![t] = "forked", ![u] = "stopped"]
     /\ UNCHANGED <<calls, freed, doomed, hdead, torn, mail, waiter, hold, msg, lost>>

\* server_task_start_fork, or task_discard_unstarted when there is no thread
ForkEnd(t, u) ==
  /\ At(t, "forked") /\ At(u, "stopped")
  /\ \/ /\ at' = [at EXCEPT ![t] = "user", ![u] = "user"]
        /\ UNCHANGED <<table, refs, freed, doomed, hdead, torn>>
     \/ LET c == Owner[u] IN
          /\ at' = [at EXCEPT ![t] = "user", ![u] = "gone"]
          /\ doomed' = doomed \cup {c}
          /\ hdead' = hdead \cup {c}
          /\ Release(<<c>>, table, hdead \cup {c})
  /\ UNCHANGED <<calls, made, mail, waiter, hold, msg, lost>>

\* server_task_create: a task without threads that its creator holds
TaskCreate(t, u) ==
  LET k == Owner[t]  c == Owner[u]
      new == Granted(table[k], c, {"send", "dup"})
  IN /\ User(t, "create") /\ At(u, "new") /\ c \notin made
     /\ made' = made \cup {c}
     /\ table' = [table EXCEPT ![k] = new]
     /\ refs' = [Added(new, table[k]) EXCEPT ![c] = @ + 1]
     /\ at' = [at EXCEPT ![u] = "stopped"]
     /\ UNCHANGED <<calls, freed, doomed, hdead, torn, mail, waiter, hold, msg, lost>>

\* server_task_start: thread_create refuses a dead or killed task
TaskStart(t, u) ==
  /\ At(t, "start") /\ Owner[u] = hold[t][1]
  /\ at' = [at EXCEPT ![t] = "drop",
                      ![u] = IF @ = "stopped" /\ Owner[u] \notin hdead \cup doomed
                             THEN "user" ELSE @]
  /\ UNCHANGED <<calls, table, refs, made, freed, doomed, hdead, torn, mail, waiter,
                 hold, msg, lost>>

\* task_kill: the task is marked, ipc_cancel_thread takes its threads off their
\* ports.  The extra reference it takes is dropped before it returns.
TaskKill(t) ==
  LET k == hold[t][1] IN
    /\ At(t, "kill")
    /\ doomed' = IF k \in hdead THEN doomed ELSE doomed \cup {k}
    /\ waiter' = [p \in Ports |->
                    IF waiter[p] # Nil /\ Owner[waiter[p]] = k THEN Nil ELSE waiter[p]]
    /\ Go(t, "drop")
    /\ UNCHANGED <<calls, table, refs, made, freed, hdead, torn, mail, hold, msg, lost>>

LastThread(u) == Alive(Owner[u]) = {u}

\* sched_reap_thread: a thread that exits, or one of a killed task found in user
\* mode or blocked, whose local references are gone with it
Reap(u) ==
  LET k == Owner[u]
      rest == [hold EXCEPT ![u] = <<>>]
  IN /\ \/ At(u, "user") /\ ("exit" \in calls[u] \/ k \in doomed)
        \/ k \in doomed /\ at[u] \in {"blocked", "given"} /\ \A p \in Ports : waiter[p] # u
        \/ k \in doomed /\ At(u, "recv") /\ mail[hold[u][1]] = <<>>
     /\ Go(u, "gone")
     /\ hold' = rest
     /\ msg' = [msg EXCEPT ![u] = NoMsg]
     /\ lost' = [o \in Objects |-> lost[o] + Times(hold[u], o)]
     /\ IF LastThread(u)
        THEN /\ hdead' = hdead \cup {k}
             /\ Release(<<k>>, table, hdead \cup {k})
        ELSE UNCHANGED <<hdead, refs, freed, torn, table>>
     /\ UNCHANGED <<calls, made, doomed, mail, waiter>>

\* task_teardown: the handles are dropped one by one, then the task is freed
Teardown(k) ==
  LET left == {h \in Slots : torn[k][h] # Nil} IN
    /\ torn[k] # <<>> /\ k \notin freed
    /\ \/ \E h \in left :
            LET o == torn[k][h]
                more == [torn EXCEPT ![k][h] = Nil]
                over == o \in hdead /\ refs[o] <= 1
            IN /\ refs' = Lowered(<<o>>)
               /\ freed' = freed \cup (IF refs[o] <= 1 /\ Unused(o) THEN {o} ELSE {})
               /\ torn' = IF over
                          THEN [more EXCEPT ![o] = [g \in Slots |-> table[o][g].obj]]
                          ELSE more
               /\ table' = IF over THEN [table EXCEPT ![o] = [g \in Slots |-> Empty]]
                                   ELSE table
       \/ /\ left = {}
          /\ freed' = freed \cup {k}
          /\ UNCHANGED <<refs, torn, table>>
    /\ UNCHANGED <<calls, made, doomed, hdead, mail, waiter, at, hold, msg, lost>>

-----------------------------------------------------------------------------
HInit ==
  /\ calls \in Scenarios
  /\ table = Boot
  /\ made = {o \in Objects : \E k \in HTasks : \E h \in Slots : Boot[k][h].obj = o}
              \cup {Owner[u] : u \in HStarted}
  /\ refs = [o \in Objects |->
               Cardinality({e \in HTasks \X Slots : Boot[e[1]][e[2]].obj = o})
                 + IF o \in HTasks /\ o \in made THEN 1 ELSE 0]
  /\ freed = {} /\ doomed = {} /\ hdead = {}
  /\ torn = [k \in HTasks |-> <<>>]
  /\ mail = [p \in Ports |-> <<>>]
  /\ waiter = [p \in Ports |-> Nil]
  /\ at = [u \in HThreads |-> IF u \in HStarted THEN "user" ELSE "new"]
  /\ hold = [u \in HThreads |-> <<>>]
  /\ msg = [u \in HThreads |-> NoMsg]
  /\ lost = [o \in Objects |-> 0]

HandleCall(t) ==
  \/ \E h \in Slots : \/ SendStart(t, h) \/ RecvStart(t, h) \/ Close(t, h)
                      \/ BufferUse(t, h)
                      \/ TaskFind(t, h, "grant", "inherit")
                      \/ TaskFind(t, h, "start", "start")
                      \/ TaskFind(t, h, "kill", "kill")
                      \/ \E R \in CapRights : InheritFrom(t, h, R)
  \/ \E r \in Given(t, "ask"), h \in Given(t, "lend"), R \in CapRights \cup {{}} :
       Compose(t, r, h, R)
  \/ Post(t) \/ Drop(t) \/ Recv(t) \/ Resume(t) \/ Got(t) \/ InheritInto(t)
  \/ \E p \in Ports : PortCreate(t, p)
  \/ \E b \in Buffers : BufferCreate(t, b)

TaskCall(t) ==
  \/ TaskKill(t) \/ Reap(t)
  \/ \E u \in HThreads : Fork(t, u) \/ ForkEnd(t, u) \/ TaskCreate(t, u) \/ TaskStart(t, u)

HNext ==
  \/ \E t \in HThreads : HandleCall(t) \/ TaskCall(t)
  \/ \E k \in HTasks : Teardown(k)

HSpec == HInit /\ [][HNext]_hVars

-----------------------------------------------------------------------------
(* Properties.                                                             *)

\* Every variable holds a value the code's types allow.
HTypeOK ==
  /\ table \in [HTasks -> [Slots -> [obj : Objects \cup {Nil}, rights : SUBSET AllRights]]]
  /\ refs \in [Objects -> Nat] /\ lost \in [Objects -> Nat]
  /\ made \subseteq Objects /\ freed \subseteq made
  /\ doomed \subseteq HTasks /\ hdead \subseteq HTasks
  /\ mail \in [Ports -> Seq(Messages)]
  /\ waiter \in [Ports -> HThreads \cup {Nil}]
  /\ msg \in [HThreads -> Messages]

\* Everything that points at o
References(o) ==
  LET tables == {e \in HTasks \X Slots : table[e[1]][e[2]].obj = o}
      dying == {e \in HTasks \X Slots : torn[e[1]] # <<>> /\ torn[e[1]][e[2]] = o}
      local == {e \in HThreads \X (1..3) :
                  e[2] \in DOMAIN hold[e[1]] /\ hold[e[1]][e[2]] = o}
      queued == {e \in Ports \X (1..QueueBound) \X (1..2) :
                   /\ e[1] \notin freed /\ e[2] \in DOMAIN mail[e[1]]
                   /\ Carried(mail[e[1]][e[2]])[e[3]] = o}
      own == IF o \in HTasks /\ o \in made \ hdead THEN 1 ELSE 0
  IN Cardinality(tables) + Cardinality(dying) + Cardinality(local)
       + Cardinality(queued) + own

\* The reference count of an object is exactly the number of handles, queued
\* messages, system calls in progress and unfinished teardowns that refer to
\* it, plus the references lost with threads reaped inside the kernel.
CountsExact ==
  \A o \in made \ freed : refs[o] = References(o) + lost[o]

\* Nothing refers to an object that has been freed: no handle, message, system
\* call or teardown can touch freed memory.
NoDangling == \A o \in freed : References(o) = 0

\* An object with no references left has been freed, or is a task being torn
\* down.  Only a port that still had messages when its last reference went
\* stays behind, with those messages.
NothingLingers ==
  \A o \in made \ freed : refs[o] = 0 =>
    \/ o \in HTasks /\ torn[o] # <<>>
    \/ o \in Immortal
    \/ o \in Ports /\ mail[o] # <<>>

\* References are counted exactly, and an object is allocated as long as
\* something refers to it, and no longer.
RefsExact == CountsExact /\ NoDangling /\ NothingLingers

Holders(o) == {k \in HTasks : \E h \in Slots : table[k][h].obj = o}

\* A handle with DUP, or a message or grant under way, can make new holders
Spreads(o) ==
  \/ \E k \in HTasks : \E h \in Slots :
       table[k][h].obj = o /\ "dup" \in table[k][h].rights
  \/ \E p \in Ports : \E i \in DOMAIN mail[p] : mail[p][i].cap = o
  \/ \E u \in HThreads : msg[u].cap = o \/ (At(u, "insert") /\ hold[u][2] = o)

\* Authority over a buffer or a task does not spread without DUP: once no handle
\* carries DUP and nothing is under way, that stays so, and no task gets its first
\* handle to the object except by being forked from a holder.
NoSpreadWithoutDup ==
  [][\A o \in made \ Ports : ~Spreads(o) =>
       ~Spreads(o)' /\ Holders(o)' \subseteq Holders(o) \cup (made' \ made)]_hVars
=============================================================================
