--------------------------- MODULE HandleProofs ---------------------------
(***************************************************************************)
(* Authority does not spread without DUP, for any number of tasks, threads *)
(* and objects, tables of any size and any programs.                       *)
(***************************************************************************)
EXTENDS Handles, TLAPS

Entries == [obj : Objects \cup {Nil}, rights : SUBSET AllRights]

\* What tables and messages hold.
Typed ==
  /\ made \subseteq Objects
  /\ table \in [HTasks -> [Slots -> Entries]]
  /\ msg \in [HThreads -> Messages]
  /\ mail \in [Ports -> Seq(Messages)]

\* Where a thread has the port of its system call as its first reference.
PortCalls == {"compose", "post", "recv", "blocked"}

\* What the references s of a thread are at point l of a system call.
CallShape(l, s) ==
  /\ l \in PortCalls => s # <<>> /\ s[1] \in Ports
  /\ l = "inherit" => \E k \in HTasks : s = <<k>>
  /\ l = "insert" => s[1] \in HTasks /\ s[2] \in Objects

\* Threads have those references, and a port's receiver is blocked on that port.
Located ==
  /\ DOMAIN at = HThreads
  /\ hold \in [HThreads -> Seq(Objects \cup {Nil})]
  /\ waiter \in [Ports -> HThreads \cup {Nil}]
  /\ \A t \in HThreads : CallShape(at[t], hold[t])
  /\ \A p \in Ports : waiter[p] # Nil =>
       at[waiter[p]] = "blocked" /\ hold[waiter[p]][1] = p

\* The inductive invariant.
HandleInv == Typed /\ Located

-----------------------------------------------------------------------------
\* What a step must leave of an object o that does not spread: no new holder
\* but a task that was just made, and nothing under way.
TableSafe(o) ==
  \A k \in HTasks, h \in Slots : table'[k][h].obj = o =>
    "dup" \notin table'[k][h].rights /\ k \in Holders(o) \cup (made' \ made)
MailSafe(o) == \A p \in Ports : \A i \in DOMAIN mail'[p] : mail'[p][i].cap # o
CallSafe(o) ==
  \A u \in HThreads : msg'[u].cap # o /\ ~(at'[u] = "insert" /\ hold'[u][2] = o)

StepSafe ==
  HandleInv' /\ \A o \in made \ Ports :
                  ~Spreads(o) => TableSafe(o) /\ MailSafe(o) /\ CallSafe(o)

\* Table entries that stay, or name another object, give o no new holder.
LEMMA TableFrame ==
  ASSUME NEW o, ~Spreads(o),
         \A k \in HTasks, h \in Slots :
           table'[k][h] = table[k][h] \/ table'[k][h].obj # o
  PROVE  TableSafe(o)
  BY ZenonT(30) DEF TableSafe, Spreads, Holders

\* A step of t's system call that sends o nowhere leaves nothing under way.
LEMMA CallFrame ==
  ASSUME NEW o \in Objects, ~Spreads(o), NEW t \in HThreads,
         \A u \in HThreads : msg'[u] = msg[u] \/ msg'[u].cap # o,
         \A u \in HThreads : at'[u] # "insert" \/ (at'[u] = at[u] /\ hold'[u] = hold[u])
  PROVE  CallSafe(o)
  BY ZenonT(30) DEF CallSafe, Spreads, At

\* Thread t, for which no port waits, moves on with the references s.
LEMMA MoveOn ==
  ASSUME Located, NEW t \in HThreads, NEW l, NEW s \in Seq(Objects \cup {Nil}),
         at[t] # "blocked" \/ \A p \in Ports : waiter[p] # t,
         at' = [at EXCEPT ![t] = l], hold' = [hold EXCEPT ![t] = s], CallShape(l, s),
         \/ waiter' = waiter
         \/ /\ waiter' \in [Ports -> HThreads \cup {Nil}]
            /\ \A p \in Ports : waiter'[p] \in {waiter[p], Nil}
  PROVE  Located'
  <1>1. /\ DOMAIN at' = HThreads /\ hold' \in [HThreads -> Seq(Objects \cup {Nil})]
        /\ waiter' \in [Ports -> HThreads \cup {Nil}]
    BY ZenonT(30) DEF Located
  <1>2. ASSUME NEW u \in HThreads
        PROVE  CallShape(at'[u], hold'[u])
    <2>1. CASE u = t
      <3>1. at'[u] = l /\ hold'[u] = s
        BY ZenonT(30), <2>1 DEF Located
      <3> QED
        BY ZenonT(30), <3>1
    <2>2. CASE u # t
      <3>1. at'[u] = at[u] /\ hold'[u] = hold[u]
        BY ZenonT(30), <2>2 DEF Located
      <3> QED
        BY ZenonT(30), <3>1 DEF Located
    <2> QED
      BY ZenonT(30), <2>1, <2>2
  <1>3. ASSUME NEW p \in Ports, waiter'[p] # Nil
        PROVE  at'[waiter'[p]] = "blocked" /\ hold'[waiter'[p]][1] = p
    <2>0. waiter'[p] = waiter[p]
      BY ZenonT(30), <1>3
    <2>1. waiter[p] \in HThreads /\ at[waiter[p]] = "blocked" /\ hold[waiter[p]][1] = p
      BY ZenonT(30), <1>3, <2>0 DEF Located
    <2>2. waiter[p] # t
      BY ZenonT(30), <2>1
    <2>3. at'[waiter[p]] = at[waiter[p]] /\ hold'[waiter[p]] = hold[waiter[p]]
      BY ZenonT(30), <2>1, <2>2 DEF Located
    <2> QED
      BY ZenonT(30), <2>0, <2>1, <2>3
  <1> QED
    BY ZenonT(30), <1>1, <1>2, <1>3 DEF Located

-----------------------------------------------------------------------------
\* A system call that only looks an object up.
LEMMA Lookups ==
  ASSUME HandleInv, NEW t \in HThreads, NEW h \in Slots, NEW l,
         at[t] = "user", at' = [at EXCEPT ![t] = l],
         hold' = [hold EXCEPT ![t] = <<ObjectAt(t, h)>>],
         \/ l \in {"compose", "recv"} /\ ObjectAt(t, h) \in Ports
         \/ l = "inherit" /\ ObjectAt(t, h) \in HTasks
         \/ l \in {"drop", "start", "kill"},
         UNCHANGED <<made, table, msg, mail, waiter>>
  PROVE  StepSafe
  <1>1. Typed'
    BY ZenonT(30) DEF HandleInv, Typed
  <1>2. ObjectAt(t, h) \in Objects \cup {Nil}
    BY HandleConstants DEF HandleInv, Typed, Entries, ObjectAt
  <1>3. Located'
    <2>1. <<ObjectAt(t, h)>> \in Seq(Objects \cup {Nil})
      BY <1>2
    <2>2. CallShape(l, <<ObjectAt(t, h)>>)
      BY ZenonT(30) DEF CallShape, PortCalls
    <2> QED
      BY ZenonT(30), <2>1, <2>2, MoveOn DEF HandleInv
  <1>4. ASSUME NEW o \in made \ Ports, ~Spreads(o)
        PROVE  TableSafe(o) /\ MailSafe(o) /\ CallSafe(o)
    <2>1. TableSafe(o)
      BY ZenonT(30), <1>4, TableFrame
    <2>2. MailSafe(o)
      BY ZenonT(30), <1>4 DEF Spreads, MailSafe
    <2>3. o \in Objects /\ \A u \in HThreads :
            at'[u] # "insert" \/ (at'[u] = at[u] /\ hold'[u] = hold[u])
      BY ZenonT(30) DEF HandleInv, Typed, Located
    <2> QED
      BY ZenonT(30), <1>4, <2>1, <2>2, <2>3, CallFrame
  <1> QED
    BY ZenonT(30), <1>1, <1>3, <1>4 DEF StepSafe, HandleInv

\* Threads for which no port waits move on with the references they have, to
\* points that ask nothing of them.
LEMMA MoveSame ==
  ASSUME Located, DOMAIN at' = HThreads, hold' = hold, waiter' = waiter,
         \A u \in HThreads :
           \/ at'[u] = at[u]
           \/ at[u] # "blocked" /\ at'[u] \notin PortCalls \cup {"inherit", "insert"}
  PROVE  Located'
  <1>1. ASSUME NEW u \in HThreads
        PROVE  CallShape(at'[u], hold'[u])
    <2>1. CallShape(at[u], hold[u])
      BY ZenonT(30) DEF Located
    <2> QED
      BY ZenonT(30), <2>1 DEF CallShape
  <1>2. ASSUME NEW p \in Ports, waiter'[p] # Nil
        PROVE  at'[waiter'[p]] = "blocked" /\ hold'[waiter'[p]][1] = p
    BY <1>2 DEF Located
  <1> QED
    BY ZenonT(30), <1>1, <1>2 DEF Located

\* The points of a system call that ask nothing of a thread's references.
LEMMA PlainPoints ==
  \A l \in {"drop", "got", "user", "gone", "given", "forked", "stopped", "new"} :
    l \notin PortCalls \cup {"inherit", "insert"} /\ l # "blocked" /\ \A s : CallShape(l, s)
  BY ZenonT(30) DEF PortCalls, CallShape

\* A message carries an object of the tables and a port.
LEMMA MessageFacts ==
  ASSUME NEW m \in Messages
  PROVE  /\ Carried(m) \in Seq(Objects \cup {Nil})
         /\ m.reply \in Ports \cup {Nil} /\ m.cap \in Objects \cup {Nil}
         /\ m.rights \in SUBSET AllRights
  BY DEF Messages, Carried, Objects

\* A message that t puts together carries no object that does not spread.
LEMMA Composes ==
  ASSUME HandleInv, NEW t \in HThreads, NEW m \in Messages, at[t] = "compose",
         m.cap = Nil \/ Spreads(m.cap),
         msg' = [msg EXCEPT ![t] = m], hold' = [hold EXCEPT ![t] = @ \o Carried(m)],
         at' = [at EXCEPT ![t] = "post"],
         UNCHANGED <<made, table, mail, waiter>>
  PROVE  StepSafe
  <1>1. Typed'
    BY ZenonT(30) DEF HandleInv, Typed
  <1>2. Located'
    <2> DEFINE s == hold[t] \o Carried(m)
    <2>1. hold[t] \in Seq(Objects \cup {Nil}) /\ hold[t] # <<>> /\ hold[t][1] \in Ports
      BY ZenonT(30) DEF HandleInv, Located, CallShape, PortCalls
    <2>2. Carried(m) \in Seq(Objects \cup {Nil})
      BY ZenonT(30), MessageFacts
    <2>3. s \in Seq(Objects \cup {Nil}) /\ s # <<>> /\ s[1] \in Ports
      BY <2>1, <2>2
    <2>5. CallShape("post", s)
      BY ZenonT(30), <2>3 DEF CallShape
    <2>4. hold' = [hold EXCEPT ![t] = s]
      BY ZenonT(30)
    <2> HIDE DEF s
    <2> QED
      BY ZenonT(30), <2>3, <2>4, <2>5, MoveOn DEF HandleInv
  <1>3. ASSUME NEW o \in made \ Ports, ~Spreads(o)
        PROVE  TableSafe(o) /\ MailSafe(o) /\ CallSafe(o)
    <2>1. TableSafe(o)
      BY ZenonT(30), <1>3, TableFrame
    <2>2. MailSafe(o)
      BY ZenonT(30), <1>3 DEF Spreads, MailSafe
    <2>3. o \in Objects
      BY ZenonT(30) DEF HandleInv, Typed
    <2>4. m.cap # o
      BY ZenonT(30), <1>3, <2>3, HandleConstants
    <2>5. /\ \A u \in HThreads : msg'[u] = msg[u] \/ msg'[u].cap # o
          /\ \A u \in HThreads : at'[u] # "insert" \/ (at'[u] = at[u] /\ hold'[u] = hold[u])
      BY ZenonT(30), <2>4 DEF HandleInv, Typed, Located
    <2> QED
      BY ZenonT(30), <1>3, <2>1, <2>2, <2>3, <2>5, CallFrame
  <1> QED
    BY ZenonT(30), <1>1, <1>2, <1>3 DEF StepSafe, HandleInv

\* A step that only moves t on, to a point that asks nothing, and perhaps
\* empties its message.
LEMMA Moves ==
  ASSUME HandleInv, NEW t \in HThreads, NEW l,
         at[t] # "blocked" \/ \A p \in Ports : waiter[p] # t,
         at' = [at EXCEPT ![t] = l], l \notin PortCalls \cup {"inherit", "insert"},
         hold' = hold \/ \E s \in Seq(Objects \cup {Nil}) : hold' = [hold EXCEPT ![t] = s],
         msg' = msg \/ msg' = [msg EXCEPT ![t] = NoMsg], mail' = mail,
         \/ waiter' = waiter
         \/ /\ waiter' \in [Ports -> HThreads \cup {Nil}]
            /\ \A p \in Ports : waiter'[p] \in {waiter[p], Nil}
  PROVE  /\ Located' /\ msg' \in [HThreads -> Messages]
         /\ \A o \in made \ Ports : ~Spreads(o) => MailSafe(o) /\ CallSafe(o)
  <1>1. Located'
    <2>1. PICK s \in Seq(Objects \cup {Nil}) : hold' = [hold EXCEPT ![t] = s]
      <3>1. hold[t] \in Seq(Objects \cup {Nil}) /\ hold = [hold EXCEPT ![t] = hold[t]]
        BY ZenonT(30) DEF HandleInv, Located
      <3> QED
        BY ZenonT(30), <3>1
    <2>2. CallShape(l, s)
      BY ZenonT(30) DEF CallShape
    <2> QED
      BY ZenonT(30), <2>1, <2>2, MoveOn DEF HandleInv
  <1>2. NoMsg \in Messages
    BY ZenonT(30) DEF NoMsg, Messages
  <1>3. msg' \in [HThreads -> Messages]
    BY ZenonT(30), <1>2 DEF HandleInv, Typed
  <1>4. ASSUME NEW o \in made \ Ports, ~Spreads(o)
        PROVE  MailSafe(o) /\ CallSafe(o)
    <2>1. MailSafe(o)
      BY ZenonT(30), <1>4 DEF Spreads, MailSafe
    <2>2. o \in Objects /\ NoMsg.cap # o
      BY ZenonT(30), HandleConstants DEF HandleInv, Typed, NoMsg
    <2>3. /\ \A u \in HThreads : msg'[u] = msg[u] \/ msg'[u].cap # o
          /\ \A u \in HThreads : at'[u] # "insert" \/ (at'[u] = at[u] /\ hold'[u] = hold[u])
      BY ZenonT(30), <2>2 DEF HandleInv, Typed, Located
    <2> QED
      BY ZenonT(30), <1>4, <2>1, <2>2, <2>3, CallFrame
  <1> QED
    BY ZenonT(30), <1>1, <1>3, <1>4

-----------------------------------------------------------------------------
\* user_message_to_ipc: a capability is put into a message only with DUP.
LEMMA ComposeSafe ==
  ASSUME HandleInv, NEW t \in HThreads, NEW r \in Slots \cup {0}, NEW h \in Slots \cup {0},
         NEW R \in CapRights \cup {{}}, Compose(t, r, h, R)
  PROVE  StepSafe
  <1>0. R \in SUBSET AllRights /\ Owner[t] \in HTasks /\ 0 \notin Slots
    BY HandleConstants DEF Slots
  <1>1. ReplyAt(t, r) \in Ports \cup {Nil}
    BY ZenonT(30) DEF ReplyAt
  <1>2. ASSUME h \in Slots
        PROVE  ObjectAt(t, h) \in Objects \cup {Nil}
    BY <1>0, <1>2 DEF HandleInv, Typed, Entries, ObjectAt
  <1>3. at[t] = "compose" /\ UNCHANGED <<made, table, mail, waiter>>
    BY ZenonT(30) DEF Compose, At
  <1>4. ASSUME NEW m, m = [reply |-> ReplyAt(t, r), cap |-> Nil, rights |-> {}],
               msg' = [msg EXCEPT ![t] = m],
               hold' = [hold EXCEPT ![t] = @ \o Carried(m)], Go(t, "post")
        PROVE  StepSafe
    <2>1. m \in Messages /\ m.cap = Nil
      BY ZenonT(30), <1>1, <1>4 DEF Messages
    <2> QED
      BY ZenonT(30), <1>3, <1>4, <2>1, Composes DEF Go
  <1>5. ASSUME NEW m, m = [reply |-> ReplyAt(t, r), cap |-> ObjectAt(t, h), rights |-> R],
               Exports(t, h, R), msg' = [msg EXCEPT ![t] = m],
               hold' = [hold EXCEPT ![t] = @ \o Carried(m)], Go(t, "post")
        PROVE  StepSafe
    <2>1. h \in Slots /\ "dup" \in table[Owner[t]][h].rights
      BY ZenonT(30), <1>5 DEF Exports, Has
    <2>2. m \in Messages /\ m.cap = table[Owner[t]][h].obj
      BY ZenonT(30), <1>0, <1>1, <1>2, <1>5, <2>1 DEF Messages, ObjectAt
    <2>3. Spreads(m.cap)
      BY ZenonT(30), <1>0, <2>1, <2>2 DEF Spreads
    <2> QED
      BY ZenonT(30), <1>3, <1>5, <2>2, <2>3, Composes DEF Go
  <1>6. ASSUME Go(t, "drop"), UNCHANGED <<msg, hold>>
        PROVE  StepSafe
    <2>1. /\ Located' /\ \A o \in made \ Ports : ~Spreads(o) => MailSafe(o) /\ CallSafe(o)
      <3>1. at[t] # "blocked" /\ "drop" \notin PortCalls \cup {"inherit", "insert"}
        BY ZenonT(30), <1>3 DEF PortCalls
      <3> QED
        BY ZenonT(30), <1>3, <1>6, <3>1, Moves DEF Go
    <2>2. Typed'
      BY ZenonT(30), <1>3, <1>6 DEF HandleInv, Typed
    <2> QED
      BY ZenonT(30), <1>3, <2>1, <2>2, TableFrame DEF StepSafe, HandleInv
  <1> QED
    BY ZenonT(30), <1>4, <1>5, <1>6 DEF Compose

\* ipc_send straight to the receiver, which is blocked on that port alone.
LEMMA PostDirect ==
  ASSUME HandleInv, NEW t \in HThreads, NEW p \in Ports, NEW m, m = msg[t], at[t] = "post",
         waiter[p] # Nil, msg' = [msg EXCEPT ![waiter[p]] = m, ![t] = NoMsg],
         hold' = [hold EXCEPT ![waiter[p]] = @ \o Carried(m)],
         waiter' = [waiter EXCEPT ![p] = Nil],
         at' = [at EXCEPT ![waiter[p]] = "given", ![t] = "drop"],
         UNCHANGED <<made, table, mail>>
  PROVE  StepSafe
  <1>1. PICK w \in HThreads : w = waiter[p]
    BY DEF HandleInv, Located
  <1>2. at[w] = "blocked" /\ hold[w][1] = p /\ w # t
    BY ZenonT(30), <1>1 DEF HandleInv, Located
  <1>3. m \in Messages /\ NoMsg \in Messages
    BY ZenonT(30) DEF HandleInv, Typed, NoMsg, Messages
  <1>4. Typed'
    BY ZenonT(30), <1>1, <1>3 DEF HandleInv, Typed
  <1>5. /\ DOMAIN at' = HThreads /\ at'[w] = "given" /\ at'[t] = "drop"
        /\ \A u \in HThreads \ {w, t} : at'[u] = at[u]
        /\ \A u \in HThreads \ {w} : hold'[u] = hold[u]
        /\ DOMAIN hold' = HThreads /\ hold'[w] = hold[w] \o Carried(m)
    BY ZenonT(30), <1>1, <1>2 DEF HandleInv, Located
  <1>6. Located'
    <2>1. hold' \in [HThreads -> Seq(Objects \cup {Nil})]
      <3>1. hold[w] \o Carried(m) \in Seq(Objects \cup {Nil})
        BY <1>3, MessageFacts DEF HandleInv, Located
      <3> QED
        BY ZenonT(30), <1>1, <3>1 DEF HandleInv, Located
    <2>2. waiter' \in [Ports -> HThreads \cup {Nil}]
      BY ZenonT(30) DEF HandleInv, Located
    <2>3. ASSUME NEW u \in HThreads
          PROVE  CallShape(at'[u], hold'[u])
      <3>1. CASE u \in {w, t}
        <4>1. at'[u] \in {"given", "drop"}
          BY ZenonT(30), <1>5, <3>1
        <4> QED
          BY ZenonT(30), <4>1, PlainPoints
      <3>2. CASE u \notin {w, t}
        <4>1. at'[u] = at[u] /\ hold'[u] = hold[u]
          BY ZenonT(30), <1>5, <3>2
        <4> QED
          BY ZenonT(30), <4>1 DEF HandleInv, Located
      <3> QED
        BY ZenonT(30), <3>1, <3>2
    <2>4. ASSUME NEW q \in Ports, waiter'[q] # Nil
          PROVE  at'[waiter'[q]] = "blocked" /\ hold'[waiter'[q]][1] = q
      <3>1. q # p /\ waiter'[q] = waiter[q] /\ waiter[q] \in HThreads
        BY ZenonT(30), <2>4 DEF HandleInv, Located
      <3>2. at[waiter[q]] = "blocked" /\ hold[waiter[q]][1] = q
        BY ZenonT(30), <2>4, <3>1 DEF HandleInv, Located
      <3>3. waiter[q] # w /\ waiter[q] # t
        BY ZenonT(30), <1>2, <3>1, <3>2
      <3> QED
        BY ZenonT(30), <1>5, <3>1, <3>2, <3>3
    <2> QED
      BY ZenonT(30), <1>5, <2>1, <2>2, <2>3, <2>4 DEF Located
  <1>7. ASSUME NEW o \in made \ Ports, ~Spreads(o)
        PROVE  TableSafe(o) /\ MailSafe(o) /\ CallSafe(o)
    <2>1. TableSafe(o)
      BY ZenonT(30), <1>7, TableFrame
    <2>2. MailSafe(o)
      BY ZenonT(30), <1>7 DEF Spreads, MailSafe
    <2>3. o \in Objects /\ m.cap # o /\ NoMsg.cap # o
      BY ZenonT(30), <1>7, HandleConstants DEF HandleInv, Typed, NoMsg, Spreads
    <2>4. \A u \in HThreads : msg'[u] = msg[u] \/ msg'[u].cap # o
      <3>1. /\ msg'[t] = NoMsg /\ msg'[w] = m
            /\ \A u \in HThreads : u \notin {w, t} => msg'[u] = msg[u]
        BY ZenonT(30), <1>1, <1>2 DEF HandleInv, Typed
      <3> QED
        BY ZenonT(30), <2>3, <3>1
    <2>5. \A u \in HThreads : at'[u] # "insert" \/ (at'[u] = at[u] /\ hold'[u] = hold[u])
      BY ZenonT(30), <1>5
    <2> QED
      BY ZenonT(30), <1>7, <2>1, <2>2, <2>3, <2>4, <2>5, CallFrame
  <1> QED
    BY ZenonT(30), <1>4, <1>6, <1>7 DEF StepSafe, HandleInv

\* ipc_send: to the receiver or onto the queue.
LEMMA PostSafe ==
  ASSUME HandleInv, NEW t \in HThreads, Post(t)
  PROVE  StepSafe
  <1>1. PICK p \in Ports : p = hold[t][1]
    <2>1. CallShape(at[t], hold[t]) /\ at[t] = "post"
      BY ZenonT(30) DEF HandleInv, Located, Post, At
    <2> QED
      BY ZenonT(30), <2>1 DEF CallShape, PortCalls
  <1>2. at[t] = "post" /\ UNCHANGED <<made, table>>
    BY ZenonT(30) DEF Post, At
  <1>3. CASE waiter[p] # Nil
    <2>1. /\ msg' = [msg EXCEPT ![waiter[p]] = msg[t], ![t] = NoMsg]
          /\ hold' = [hold EXCEPT ![waiter[p]] = @ \o Carried(msg[t])]
          /\ waiter' = [waiter EXCEPT ![p] = Nil]
          /\ at' = [at EXCEPT ![waiter[p]] = "given", ![t] = "drop"]
          /\ mail' = mail
      BY ZenonT(30), <1>1, <1>3 DEF Post
    <2> QED
      BY ZenonT(30), <1>2, <1>3, <2>1, PostDirect
  <1>4. CASE waiter[p] = Nil
    <2>1. /\ mail' = [mail EXCEPT ![p] = Append(@, msg[t])]
          /\ msg' = [msg EXCEPT ![t] = NoMsg] /\ at' = [at EXCEPT ![t] = "drop"]
          /\ UNCHANGED <<hold, waiter>>
      BY ZenonT(30), <1>1, <1>4 DEF Post, Go
    <2>2. NoMsg \in Messages
      BY ZenonT(30) DEF NoMsg, Messages
    <2>3. Typed'
      BY <1>2, <2>1, <2>2 DEF HandleInv, Typed
    <2>4. Located'
      <3>1. /\ DOMAIN at' = HThreads /\ at[t] # "blocked" /\ at'[t] = "drop"
            /\ \A u \in HThreads : u # t => at'[u] = at[u]
        BY ZenonT(30), <1>2, <2>1 DEF HandleInv, Located
      <3> QED
        BY ZenonT(30), <2>1, <3>1, PlainPoints, MoveSame DEF HandleInv
    <2>5. ASSUME NEW o \in made \ Ports, ~Spreads(o)
          PROVE  TableSafe(o) /\ MailSafe(o) /\ CallSafe(o)
      <3>1. TableSafe(o)
        BY ZenonT(30), <1>2, <2>5, TableFrame
      <3>2. o \in Objects /\ msg[t].cap # o /\ NoMsg.cap # o
        BY ZenonT(30), <2>5, HandleConstants DEF HandleInv, Typed, NoMsg, Spreads
      <3>3. MailSafe(o)
        <4>1. \A q \in Ports : \A i \in DOMAIN mail[q] : mail[q][i].cap # o
          BY ZenonT(30), <2>5 DEF Spreads
        <4>2. \A q \in Ports : \A i \in DOMAIN mail'[q] :
                mail'[q][i] = msg[t] \/ (i \in DOMAIN mail[q] /\ mail'[q][i] = mail[q][i])
          BY <2>1 DEF HandleInv, Typed
        <4> QED
          BY <3>2, <4>1, <4>2 DEF MailSafe
      <3>4. \A u \in HThreads : msg'[u] = msg[u] \/ msg'[u].cap # o
        BY ZenonT(30), <2>1, <3>2 DEF HandleInv, Typed
      <3>5. \A u \in HThreads : at'[u] # "insert" \/ (at'[u] = at[u] /\ hold'[u] = hold[u])
        BY ZenonT(30), <2>1 DEF HandleInv, Located
      <3> QED
        BY ZenonT(30), <2>5, <3>1, <3>2, <3>3, <3>4, <3>5, CallFrame
    <2> QED
      BY ZenonT(30), <2>3, <2>4, <2>5 DEF StepSafe, HandleInv
  <1> QED
    BY ZenonT(30), <1>3, <1>4

-----------------------------------------------------------------------------
\* ipc_recv: the head of the queue, or a registration on the port.
LEMMA RecvSafe ==
  ASSUME HandleInv, NEW t \in HThreads, Recv(t)
  PROVE  StepSafe
  <1>1. PICK p \in Ports : p = hold[t][1]
    <2>1. CallShape(at[t], hold[t]) /\ at[t] = "recv"
      BY ZenonT(30) DEF HandleInv, Located, Recv, At
    <2> QED
      BY ZenonT(30), <2>1 DEF CallShape, PortCalls
  <1>2. at[t] = "recv" /\ UNCHANGED <<made, table>>
    BY ZenonT(30) DEF Recv, At
  <1>3. ASSUME mail[p] # <<>>, msg' = [msg EXCEPT ![t] = Head(mail[p])],
               hold' = [hold EXCEPT ![t] = @ \o Carried(Head(mail[p]))],
               mail' = [mail EXCEPT ![p] = Tail(@)], at' = [at EXCEPT ![t] = "got"],
               waiter' = waiter
        PROVE  StepSafe
    <2>1. PICK m \in Messages : m = Head(mail[p]) /\ m = mail[p][1]
      BY <1>3 DEF HandleInv, Typed
    <2>2. Typed'
      BY <1>2, <1>3, <2>1 DEF HandleInv, Typed
    <2>3. Located'
      <3> DEFINE s == hold[t] \o Carried(m)
      <3>1. s \in Seq(Objects \cup {Nil})
        BY MessageFacts DEF HandleInv, Located
      <3>2. hold' = [hold EXCEPT ![t] = s]
        BY ZenonT(30), <1>3, <2>1
      <3> HIDE DEF s
      <3> QED
        BY ZenonT(30), <1>2, <1>3, <3>1, <3>2, PlainPoints, MoveOn DEF HandleInv
    <2>4. ASSUME NEW o \in made \ Ports, ~Spreads(o)
          PROVE  TableSafe(o) /\ MailSafe(o) /\ CallSafe(o)
      <3>1. TableSafe(o)
        BY ZenonT(30), <1>2, <2>4, TableFrame
      <3>2. \A q \in Ports : \A i \in DOMAIN mail[q] : mail[q][i].cap # o
        BY ZenonT(30), <2>4 DEF Spreads
      <3>3. m.cap # o
        <4>1. 1 \in DOMAIN mail[p]
          BY <1>3 DEF HandleInv, Typed
        <4> QED
          BY ZenonT(30), <2>1, <3>2, <4>1
      <3>4. MailSafe(o)
        <4>1. \A q \in Ports : \A i \in DOMAIN mail'[q] :
                \E j \in DOMAIN mail[q] : mail'[q][i] = mail[q][j]
          <5> SUFFICES ASSUME NEW q \in Ports, NEW i \in DOMAIN mail'[q]
                       PROVE  \E j \in DOMAIN mail[q] : mail'[q][i] = mail[q][j]
            BY ZenonT(30)
          <5>1. CASE q = p
            <6>1. mail'[q] = Tail(mail[q]) /\ mail[q] \in Seq(Messages) /\ mail[q] # <<>>
              BY ZenonT(30), <1>3, <5>1 DEF HandleInv, Typed
            <6>2. i + 1 \in DOMAIN mail[q] /\ mail'[q][i] = mail[q][i + 1]
              BY <6>1
            <6> QED
              BY ZenonT(30), <6>2
          <5>2. CASE q # p
            <6>1. mail'[q] = mail[q]
              BY ZenonT(30), <1>3, <5>2 DEF HandleInv, Typed
            <6> QED
              BY ZenonT(30), <6>1
          <5> QED
            BY ZenonT(30), <5>1, <5>2
        <4> QED
          BY <3>2, <4>1 DEF MailSafe
      <3>5. o \in Objects
        BY ZenonT(30) DEF HandleInv, Typed
      <3>6. \A u \in HThreads : msg'[u] = msg[u] \/ msg'[u].cap # o
        BY ZenonT(30), <1>3, <2>1, <3>3 DEF HandleInv, Typed
      <3>7. \A u \in HThreads : at'[u] # "insert" \/ (at'[u] = at[u] /\ hold'[u] = hold[u])
        BY ZenonT(30), <1>3 DEF HandleInv, Located
      <3> QED
        BY ZenonT(30), <2>4, <3>1, <3>4, <3>5, <3>6, <3>7, CallFrame
    <2> QED
      BY ZenonT(30), <2>2, <2>3, <2>4 DEF StepSafe, HandleInv
  <1>4. ASSUME waiter' = [waiter EXCEPT ![p] = t], at' = [at EXCEPT ![t] = "blocked"],
               UNCHANGED <<msg, hold, mail>>
        PROVE  StepSafe
    <2>1. Typed'
      BY ZenonT(30), <1>2, <1>4 DEF HandleInv, Typed
    <2>2. /\ DOMAIN at' = HThreads /\ at'[t] = "blocked"
          /\ \A u \in HThreads : u # t => at'[u] = at[u]
      BY ZenonT(30), <1>4 DEF HandleInv, Located
    <2>3. /\ waiter' \in [Ports -> HThreads \cup {Nil}] /\ waiter'[p] = t
          /\ \A q \in Ports : q # p => waiter'[q] = waiter[q]
      BY ZenonT(30), <1>4 DEF HandleInv, Located
    <2>4. hold[t] # <<>> /\ hold[t][1] = p
      <3>1. CallShape(at[t], hold[t])
        BY ZenonT(30) DEF HandleInv, Located
      <3> QED
        BY ZenonT(30), <1>1, <1>2, <3>1 DEF CallShape, PortCalls
    <2>5. \A q \in Ports : waiter[q] # Nil =>
            /\ waiter[q] \in HThreads /\ waiter[q] # t
            /\ at[waiter[q]] = "blocked" /\ hold[waiter[q]][1] = q
      BY ZenonT(30), <1>2 DEF HandleInv, Located
    <2>6. ASSUME NEW u \in HThreads
          PROVE  CallShape(at'[u], hold'[u])
      <3>1. CASE u = t
        BY ZenonT(30), <1>1, <1>4, <2>2, <2>4, <3>1 DEF CallShape
      <3>2. CASE u # t
        BY ZenonT(30), <1>4, <2>2, <3>2 DEF HandleInv, Located
      <3> QED
        BY ZenonT(30), <3>1, <3>2
    <2>7. ASSUME NEW q \in Ports, waiter'[q] # Nil
          PROVE  at'[waiter'[q]] = "blocked" /\ hold'[waiter'[q]][1] = q
      <3>1. CASE q = p
        BY ZenonT(30), <1>4, <2>2, <2>3, <2>4, <3>1
      <3>2. CASE q # p
        BY ZenonT(30), <1>4, <2>2, <2>3, <2>5, <2>7, <3>2
      <3> QED
        BY ZenonT(30), <3>1, <3>2
    <2>8. Located'
      <3>1. hold' \in [HThreads -> Seq(Objects \cup {Nil})]
        BY ZenonT(30), <1>4 DEF HandleInv, Located
      <3> QED
        BY ZenonT(30), <2>2, <2>3, <2>6, <2>7, <3>1 DEF Located
    <2>9. ASSUME NEW o \in made \ Ports, ~Spreads(o)
          PROVE  TableSafe(o) /\ MailSafe(o) /\ CallSafe(o)
      <3>1. TableSafe(o)
        BY ZenonT(30), <1>2, <2>9, TableFrame
      <3>2. MailSafe(o)
        BY ZenonT(30), <1>4, <2>9 DEF Spreads, MailSafe
      <3>3. o \in Objects /\ \A u \in HThreads :
              at'[u] # "insert" \/ (at'[u] = at[u] /\ hold'[u] = hold[u])
        BY ZenonT(30), <1>4, <2>2 DEF HandleInv, Typed
      <3> QED
        BY ZenonT(30), <1>4, <2>9, <3>1, <3>2, <3>3, CallFrame
    <2> QED
      BY ZenonT(30), <2>1, <2>8, <2>9 DEF StepSafe, HandleInv
  <1> QED
    BY ZenonT(30), <1>1, <1>3, <1>4 DEF Recv, Go

-----------------------------------------------------------------------------
\* Releases take handles away and add none.
LEMMA ReleaseTables ==
  ASSUME Typed, NEW s, NEW deaths, Release(s, table, deaths)
  PROVE  /\ table' \in [HTasks -> [Slots -> Entries]]
         /\ \A k \in HTasks, h \in Slots : table'[k][h] = table[k][h] \/ table'[k][h].obj = Nil
  <1>1. Empty \in Entries /\ Empty.obj = Nil
    BY ZenonT(30) DEF Empty, Entries
  <1>2. PICK over : table' = [k \in HTasks |-> IF k \in over THEN [h \in Slots |-> Empty]
                                                              ELSE table[k]]
    BY ZenonT(30) DEF Release
  <1> QED
    BY ZenonT(30), <1>1, <1>2 DEF Typed

\* A step that only takes handles away, and moves t on to a point that asks
\* nothing.
LEMMA Removes ==
  ASSUME HandleInv, made' \subseteq Objects, table' \in [HTasks -> [Slots -> Entries]],
         \A k \in HTasks, h \in Slots : table'[k][h] = table[k][h] \/ table'[k][h].obj = Nil,
         Located', mail' = mail, msg' \in [HThreads -> Messages],
         \A o \in made \ Ports : ~Spreads(o) => MailSafe(o) /\ CallSafe(o)
  PROVE  StepSafe
  <1>1. Typed'
    BY ZenonT(30) DEF HandleInv, Typed
  <1>2. ASSUME NEW o \in made \ Ports, ~Spreads(o)
        PROVE  TableSafe(o)
    <2>1. o # Nil
      BY ZenonT(30), HandleConstants DEF HandleInv, Typed
    <2> QED
      BY ZenonT(30), <1>2, <2>1, TableFrame
  <1> QED
    BY ZenonT(30), <1>1, <1>2 DEF StepSafe, HandleInv

\* The end of a system call, a receiver that runs again, task_kill and
\* server_task_start leave handles and messages alone.
LEMMA CallEnds ==
  ASSUME HandleInv, NEW t \in HThreads
  PROVE  (Drop(t) => StepSafe) /\ (Resume(t) => StepSafe)
  <1>1. ASSUME Drop(t) PROVE StepSafe
    <2>1. /\ at[t] = "drop" /\ at' = [at EXCEPT ![t] = "user"]
          /\ hold' = [hold EXCEPT ![t] = <<>>] /\ UNCHANGED <<made, mail, waiter, msg>>
          /\ Release(hold[t], table, hdead)
      BY ZenonT(30), <1>1 DEF Drop, At, Go
    <2>2. /\ Located' /\ msg' \in [HThreads -> Messages]
          /\ \A o \in made \ Ports : ~Spreads(o) => MailSafe(o) /\ CallSafe(o)
      <3>1. /\ at[t] # "blocked" /\ at'[t] \notin PortCalls \cup {"inherit", "insert"}
            /\ <<>> \in Seq(Objects \cup {Nil})
        BY <2>1 DEF HandleInv, Located, PortCalls
      <3> QED
        BY ZenonT(30), <2>1, <3>1, PlainPoints, Moves
    <2>3. /\ table' \in [HTasks -> [Slots -> Entries]]
          /\ \A k \in HTasks, h \in Slots :
               table'[k][h] = table[k][h] \/ table'[k][h].obj = Nil
      BY ZenonT(30), <2>1, ReleaseTables DEF HandleInv
    <2>4. made' \subseteq Objects
      BY ZenonT(30), <2>1 DEF HandleInv, Typed
    <2> QED
      BY ZenonT(30), <2>1, <2>2, <2>3, <2>4, Removes
  <1>2. ASSUME Resume(t) PROVE StepSafe
    <2>1. /\ at[t] = "given" /\ at' = [at EXCEPT ![t] = "got"]
          /\ UNCHANGED <<hold, made, mail, waiter, msg, table>>
      BY ZenonT(30), <1>2 DEF Resume, At, Go
    <2>2. /\ Located' /\ msg' \in [HThreads -> Messages]
          /\ \A o \in made \ Ports : ~Spreads(o) => MailSafe(o) /\ CallSafe(o)
      <3>1. /\ at[t] # "blocked" /\ at'[t] \notin PortCalls \cup {"inherit", "insert"}
            /\ <<>> \in Seq(Objects \cup {Nil})
        BY <2>1 DEF HandleInv, Located, PortCalls
      <3> QED
        BY ZenonT(30), <2>1, <3>1, PlainPoints, Moves
    <2>3. made' \subseteq Objects /\ table' \in [HTasks -> [Slots -> Entries]]
      BY ZenonT(30), <2>1 DEF HandleInv, Typed
    <2> QED
      BY ZenonT(30), <2>1, <2>2, <2>3, Removes
  <1> QED
    BY ZenonT(30), <1>1, <1>2

-----------------------------------------------------------------------------
\* A grant changes at most one entry of the table, to what is granted.
LEMMA GrantFacts ==
  ASSUME NEW tab \in [Slots -> Entries], NEW x \in Objects \cup {Nil},
         NEW R \in SUBSET AllRights
  PROVE  /\ Granted(tab, x, R) \in [Slots -> Entries]
         /\ \A h \in Slots : \/ Granted(tab, x, R)[h] = tab[h]
                             \/ Granted(tab, x, R)[h].obj = x
  <1>1. [obj |-> x, rights |-> R] \in Entries
    BY ZenonT(30) DEF Entries
  <1>2. PICK h : \/ Granted(tab, x, R) = tab
                 \/ Granted(tab, x, R) = [tab EXCEPT ![h] = [obj |-> x, rights |-> R]]
    BY ZenonT(30) DEF Granted
  <1> QED
    BY <1>1, <1>2

\* A grant of x to task k by a step of t that sends nothing: safe when x is a
\* port, has just been made, or already spreads.
LEMMA Grants ==
  ASSUME HandleInv, NEW k \in HTasks, NEW x \in Objects \cup {Nil}, NEW R \in SUBSET AllRights,
         x \in Ports \cup {Nil} \/ x \notin made \/ Spreads(x),
         made' \subseteq Objects, table' = [table EXCEPT ![k] = Granted(table[k], x, R)],
         Located', mail' = mail, msg' \in [HThreads -> Messages],
         \A o \in made \ Ports : ~Spreads(o) => MailSafe(o) /\ CallSafe(o)
  PROVE  StepSafe
  <1>1. table[k] \in [Slots -> Entries]
    BY ZenonT(30) DEF HandleInv, Typed
  <1>2. /\ Granted(table[k], x, R) \in [Slots -> Entries]
        /\ \A h \in Slots : \/ Granted(table[k], x, R)[h] = table[k][h]
                            \/ Granted(table[k], x, R)[h].obj = x
    BY ZenonT(30), <1>1, GrantFacts
  <1>3. /\ table' \in [HTasks -> [Slots -> Entries]]
        /\ \A j \in HTasks, h \in Slots :
             table'[j][h] = table[j][h] \/ table'[j][h].obj = x
    BY ZenonT(30), <1>2 DEF HandleInv, Typed
  <1>4. Typed'
    BY ZenonT(30), <1>3 DEF HandleInv, Typed
  <1>5. ASSUME NEW o \in made \ Ports, ~Spreads(o)
        PROVE  TableSafe(o)
    <2>1. o # Nil
      BY ZenonT(30), HandleConstants DEF HandleInv, Typed
    <2>2. o # x
      BY ZenonT(30), <1>5, <2>1
    <2> QED
      BY ZenonT(30), <1>3, <1>5, <2>2, TableFrame
  <1> QED
    BY ZenonT(30), <1>4, <1>5 DEF StepSafe, HandleInv

\* Threads move on without references changing, to points that ask nothing.
LEMMA Still ==
  ASSUME HandleInv, DOMAIN at' = HThreads, UNCHANGED <<hold, waiter, mail, msg>>,
         \A u \in HThreads :
           \/ at'[u] = at[u]
           \/ at[u] # "blocked" /\ at'[u] \notin PortCalls \cup {"inherit", "insert"}
  PROVE  /\ Located' /\ msg' \in [HThreads -> Messages]
         /\ \A o \in made \ Ports : ~Spreads(o) => MailSafe(o) /\ CallSafe(o)
  <1>1. Located'
    BY ZenonT(30), MoveSame DEF HandleInv
  <1>2. msg' \in [HThreads -> Messages]
    BY ZenonT(30) DEF HandleInv, Typed
  <1>3. ASSUME NEW o \in made \ Ports, ~Spreads(o)
        PROVE  MailSafe(o) /\ CallSafe(o)
    BY ZenonT(30), <1>3 DEF Spreads, MailSafe, CallSafe, At
  <1> QED
    BY ZenonT(30), <1>1, <1>2, <1>3

-----------------------------------------------------------------------------
\* ipc_message_to_user: what is granted is a port, or was under way.
LEMMA GotSafe ==
  ASSUME HandleInv, NEW t \in HThreads, Got(t)
  PROVE  StepSafe
  <1> DEFINE k == Owner[t]
             m == msg[t]
             one == Granted(table[k], m.reply, {"send"})
             two == Granted(one, m.cap, m.rights)
  <1>1. /\ at[t] = "got" /\ table' = [table EXCEPT ![k] = two]
        /\ msg' = [msg EXCEPT ![t] = NoMsg] /\ at' = [at EXCEPT ![t] = "drop"]
        /\ UNCHANGED <<made, mail, waiter, hold>>
    BY ZenonT(30) DEF Got, At, Go
  <1>2. k \in HTasks /\ table[k] \in [Slots -> Entries] /\ m \in Messages
    BY ZenonT(30), HandleConstants DEF HandleInv, Typed
  <1>3. /\ m.reply \in Ports \cup {Nil} /\ m.cap \in Objects \cup {Nil}
        /\ m.rights \in SUBSET AllRights /\ {"send"} \in SUBSET AllRights
        /\ m.reply \in Objects \cup {Nil}
    BY ZenonT(30), <1>2, MessageFacts DEF AllRights, Objects
  <1>4. one \in [Slots -> Entries] /\ \A h \in Slots : one[h] = table[k][h] \/ one[h].obj = m.reply
    <2> HIDE DEF k, m
    <2> QED
      BY ZenonT(30), <1>2, <1>3, GrantFacts
  <1>5. two \in [Slots -> Entries] /\ \A h \in Slots : two[h] = one[h] \/ two[h].obj = m.cap
    <2> HIDE DEF k, m, one
    <2> QED
      BY ZenonT(30), <1>3, <1>4, GrantFacts
  <1>6. /\ table' \in [HTasks -> [Slots -> Entries]]
        /\ \A j \in HTasks, h \in Slots :
             table'[j][h] = table[j][h] \/ table'[j][h].obj \in {m.reply, m.cap}
    <2> HIDE DEF k, m, one, two
    <2> QED
      BY ZenonT(30), <1>1, <1>2, <1>4, <1>5 DEF HandleInv, Typed
  <1>7. /\ Located' /\ msg' \in [HThreads -> Messages]
        /\ \A o \in made \ Ports : ~Spreads(o) => MailSafe(o) /\ CallSafe(o)
    <2>1. at[t] # "blocked"
      BY ZenonT(30), <1>1
    <2> QED
      BY ZenonT(30), <1>1, <2>1, PlainPoints, Moves
  <1>8. Typed'
    BY ZenonT(30), <1>1, <1>6, <1>7 DEF HandleInv, Typed
  <1>9. ASSUME NEW o \in made \ Ports, ~Spreads(o)
        PROVE  TableSafe(o)
    <2>1. o # Nil
      BY ZenonT(30), HandleConstants DEF HandleInv, Typed
    <2>2. o # m.reply /\ o # m.cap
      BY ZenonT(30), <1>3, <1>9, <2>1 DEF Spreads
    <2> QED
      BY ZenonT(30), <1>6, <1>9, <2>2, TableFrame
  <1> QED
    BY ZenonT(30), <1>7, <1>8, <1>9 DEF StepSafe, HandleInv

\* native_sys_port_create, native_sys_buffer_create and server_task_create grant
\* what they have just made.
LEMMA CreateSafe ==
  ASSUME HandleInv, NEW t \in HThreads
  PROVE  /\ \A p \in Ports : PortCreate(t, p) => StepSafe
         /\ \A b \in Buffers : BufferCreate(t, b) => StepSafe
         /\ \A u \in HThreads : TaskCreate(t, u) => StepSafe
  <1>0. Owner[t] \in HTasks /\ AllRights \in SUBSET AllRights /\ made \subseteq Objects
    BY ZenonT(30), HandleConstants DEF HandleInv, Typed
  <1>1. ASSUME NEW p \in Ports, PortCreate(t, p) PROVE StepSafe
    <2>1. /\ p \notin made /\ made' = made \cup {p}
          /\ table' = [table EXCEPT ![Owner[t]] = Granted(table[Owner[t]], p, AllRights)]
          /\ UNCHANGED <<at, mail, waiter, hold, msg>>
      BY ZenonT(30), <1>1 DEF PortCreate
    <2>2. /\ Located' /\ msg' \in [HThreads -> Messages]
          /\ \A o \in made \ Ports : ~Spreads(o) => MailSafe(o) /\ CallSafe(o)
      <3>1. DOMAIN at' = HThreads
        BY ZenonT(30), <2>1 DEF HandleInv, Located
      <3> QED
        BY ZenonT(30), <2>1, <3>1, Still
    <2>3. p \in Objects \cup {Nil} /\ made' \subseteq Objects
      BY ZenonT(30), <1>0, <2>1 DEF Objects
    <2> QED
      BY ZenonT(30), <1>0, <2>1, <2>2, <2>3, Grants
  <1>2. ASSUME NEW b \in Buffers, BufferCreate(t, b) PROVE StepSafe
    <2>1. /\ b \notin made /\ made' = made \cup {b} /\ at[t] = "user"
          /\ table' = [table EXCEPT ![Owner[t]] = Granted(table[Owner[t]], b, AllRights)]
          /\ hold' = [hold EXCEPT ![t] = <<b>>] /\ at' = [at EXCEPT ![t] = "drop"]
          /\ UNCHANGED <<mail, waiter, msg>>
      BY ZenonT(30), <1>2 DEF BufferCreate, User, At, Go
    <2>2. b \in Objects \cup {Nil} /\ made' \subseteq Objects
      BY ZenonT(30), <1>0, <2>1 DEF Objects
    <2>3. /\ Located' /\ msg' \in [HThreads -> Messages]
          /\ \A o \in made \ Ports : ~Spreads(o) => MailSafe(o) /\ CallSafe(o)
      <3>1. at[t] # "blocked" /\ <<b>> \in Seq(Objects \cup {Nil})
        BY <2>1, <2>2
      <3> QED
        BY ZenonT(30), <2>1, <3>1, PlainPoints, Moves
    <2> QED
      BY ZenonT(30), <1>0, <2>1, <2>2, <2>3, Grants
  <1>3. ASSUME NEW u \in HThreads, TaskCreate(t, u) PROVE StepSafe
    <2>1. /\ Owner[u] \notin made /\ made' = made \cup {Owner[u]} /\ at[u] = "new"
          /\ table' = [table EXCEPT ![Owner[t]] =
                         Granted(table[Owner[t]], Owner[u], {"send", "dup"})]
          /\ at' = [at EXCEPT ![u] = "stopped"]
          /\ UNCHANGED <<mail, waiter, msg, hold>>
      BY ZenonT(30), <1>3 DEF TaskCreate, At
    <2>2. /\ Owner[u] \in Objects \cup {Nil} /\ made' \subseteq Objects
          /\ {"send", "dup"} \in SUBSET AllRights
      BY <1>0, <2>1, HandleConstants DEF Objects, AllRights
    <2>3. /\ Located' /\ msg' \in [HThreads -> Messages]
          /\ \A o \in made \ Ports : ~Spreads(o) => MailSafe(o) /\ CallSafe(o)
      <3>1. at[u] # "blocked"
        BY ZenonT(30), <2>1
      <3> QED
        BY ZenonT(30), <2>1, <3>1, PlainPoints, Moves
    <2> QED
      BY ZenonT(30), <1>0, <2>1, <2>2, <2>3, Grants
  <1> QED
    BY ZenonT(30), <1>1, <1>2, <1>3

\* task_close_handle clears the slot.
LEMMA CloseSafe ==
  ASSUME HandleInv, NEW t \in HThreads, NEW h \in Slots, Close(t, h)
  PROVE  StepSafe
  <1>1. /\ at[t] = "user" /\ table' = [table EXCEPT ![Owner[t]] = Cleared(@, h)]
        /\ hold' = [hold EXCEPT ![t] = <<ObjectAt(t, h)>>] /\ at' = [at EXCEPT ![t] = "drop"]
        /\ UNCHANGED <<made, mail, waiter, msg>>
    BY ZenonT(30) DEF Close, User, At, Go
  <1>2. Owner[t] \in HTasks /\ Empty \in Entries /\ Empty.obj = Nil
    BY ZenonT(30), HandleConstants DEF Empty, Entries
  <1>3. /\ table' \in [HTasks -> [Slots -> Entries]]
        /\ \A k \in HTasks, g \in Slots : table'[k][g] = table[k][g] \/ table'[k][g].obj = Nil
    BY ZenonT(30), <1>1, <1>2 DEF HandleInv, Typed, Cleared
  <1>4. made' \subseteq Objects
    BY ZenonT(30), <1>1 DEF HandleInv, Typed
  <1>5. /\ Located' /\ msg' \in [HThreads -> Messages]
        /\ \A o \in made \ Ports : ~Spreads(o) => MailSafe(o) /\ CallSafe(o)
    <2>1. ObjectAt(t, h) \in Objects \cup {Nil}
      BY <1>2 DEF HandleInv, Typed, Entries, ObjectAt
    <2>2. at[t] # "blocked" /\ <<ObjectAt(t, h)>> \in Seq(Objects \cup {Nil})
      BY <1>1, <2>1
    <2> QED
      BY ZenonT(30), <1>1, <2>2, PlainPoints, Moves
  <1> QED
    BY ZenonT(30), <1>1, <1>3, <1>4, <1>5, Removes

-----------------------------------------------------------------------------
\* task_grant_inherited_handle, the source's side: only a handle with DUP is
\* taken along.
LEMMA InheritFromSafe ==
  ASSUME HandleInv, NEW t \in HThreads, NEW h \in Slots, NEW R \in CapRights,
         InheritFrom(t, h, R)
  PROVE  StepSafe
  <1>1. at[t] = "inherit" /\ UNCHANGED <<made, table, mail, waiter>>
    BY ZenonT(30) DEF InheritFrom, At
  <1>2. at[t] # "blocked" /\ made' \subseteq Objects /\ table' \in [HTasks -> [Slots -> Entries]]
    BY ZenonT(30), <1>1 DEF HandleInv, Typed
  <1>3. CASE Inheritable(t, h, R)
    <2> DEFINE x == ObjectAt(t, h)
    <2>1. /\ hold' = [hold EXCEPT ![t] = Append(@, x)] /\ at' = [at EXCEPT ![t] = "insert"]
          /\ msg' = [msg EXCEPT ![t].rights = R]
      BY ZenonT(30), <1>3 DEF InheritFrom, Go
    <2>2. /\ Owner[t] \in HTasks /\ x = table[Owner[t]][h].obj /\ x # Nil
          /\ "dup" \in table[Owner[t]][h].rights
      BY ZenonT(30), <1>3, HandleConstants DEF Inheritable, Has, ObjectAt
    <2>3. x \in Objects /\ Spreads(x)
      <3>1. x \in Objects
        BY ZenonT(30), <2>2 DEF HandleInv, Typed, Entries
      <3> QED
        BY ZenonT(30), <2>2, <3>1 DEF Spreads
    <2>4. PICK k \in HTasks : hold[t] = <<k>>
      <3>1. CallShape(at[t], hold[t])
        BY ZenonT(30) DEF HandleInv, Located
      <3> QED
        BY ZenonT(30), <1>1, <3>1 DEF CallShape
    <2> HIDE DEF x
    <2>5. PICK s \in Seq(Objects \cup {Nil}) :
            s[1] \in HTasks /\ s[2] = x /\ hold' = [hold EXCEPT ![t] = s]
      <3> DEFINE s == Append(<<k>>, x)
      <3>1. s \in Seq(Objects \cup {Nil}) /\ s[1] = k /\ s[2] = x
        BY <2>3 DEF Objects
      <3> QED
        BY ZenonT(30), <2>1, <2>4, <3>1
    <2>6. Located'
      <3>1. CallShape("insert", s)
        BY ZenonT(30), <2>3, <2>5 DEF CallShape, PortCalls
      <3> QED
        BY ZenonT(30), <1>1, <1>2, <2>1, <2>5, <3>1, MoveOn DEF HandleInv
    <2>7. msg' \in [HThreads -> Messages] /\ \A u \in HThreads : msg'[u].cap = msg[u].cap
      <3>1. R \in SUBSET AllRights
        BY ZenonT(30), HandleConstants
      <3> QED
        BY ZenonT(30), <2>1, <3>1 DEF HandleInv, Typed, Messages
    <2>8. ASSUME NEW o \in made \ Ports, ~Spreads(o)
          PROVE  MailSafe(o) /\ CallSafe(o)
      <3>1. MailSafe(o)
        BY ZenonT(30), <1>1, <2>8 DEF Spreads, MailSafe
      <3>2. \A u \in HThreads : msg[u].cap # o /\ ~(at[u] = "insert" /\ hold[u][2] = o)
        BY ZenonT(30), <2>8 DEF Spreads, At
      <3>3. hold'[t][2] = x /\ \A u \in HThreads : u # t => at'[u] = at[u] /\ hold'[u] = hold[u]
        BY ZenonT(30), <2>1, <2>5 DEF HandleInv, Located
      <3>4. x # o
        BY ZenonT(30), <2>3, <2>8
      <3>5. CallSafe(o)
        BY ZenonT(30), <2>7, <3>2, <3>3, <3>4 DEF CallSafe
      <3> QED
        BY ZenonT(30), <3>1, <3>5
    <2> QED
      BY ZenonT(30), <1>1, <1>2, <2>6, <2>7, <2>8, Removes
  <1>4. CASE ~Inheritable(t, h, R)
    <2>1. at' = [at EXCEPT ![t] = "drop"] /\ hold' = hold /\ msg' = msg
      BY ZenonT(30), <1>4 DEF InheritFrom, Go
    <2>2. /\ Located' /\ msg' \in [HThreads -> Messages]
          /\ \A o \in made \ Ports : ~Spreads(o) => MailSafe(o) /\ CallSafe(o)
      BY ZenonT(30), <1>1, <1>2, <2>1, PlainPoints, Moves
    <2> QED
      BY ZenonT(30), <1>1, <1>2, <2>2, Removes
  <1> QED
    BY ZenonT(30), <1>3, <1>4

\* ... and the destination's.
LEMMA InheritIntoSafe ==
  ASSUME HandleInv, NEW t \in HThreads, InheritInto(t)
  PROVE  StepSafe
  <1>1. /\ at[t] = "insert" /\ at' = [at EXCEPT ![t] = "drop"]
        /\ table' = [table EXCEPT ![hold[t][1]] =
                       Granted(table[hold[t][1]], hold[t][2], msg[t].rights)]
        /\ msg' = [msg EXCEPT ![t] = NoMsg]
        /\ UNCHANGED <<made, mail, waiter, hold>>
    BY ZenonT(30) DEF InheritInto, At, Go
  <1>2. PICK k \in HTasks, x \in Objects : hold[t][1] = k /\ hold[t][2] = x
    <2>1. CallShape(at[t], hold[t])
      BY ZenonT(30) DEF HandleInv, Located
    <2> QED
      BY ZenonT(30), <1>1, <2>1 DEF CallShape
  <1>3. Spreads(x)
    BY ZenonT(30), <1>1, <1>2 DEF Spreads, At
  <1>4. msg[t].rights \in SUBSET AllRights /\ x \in Objects \cup {Nil} /\ made' \subseteq Objects
    BY ZenonT(30), <1>1, MessageFacts DEF HandleInv, Typed
  <1>5. /\ Located' /\ msg' \in [HThreads -> Messages]
        /\ \A o \in made \ Ports : ~Spreads(o) => MailSafe(o) /\ CallSafe(o)
    <2>1. at[t] # "blocked"
      BY ZenonT(30), <1>1
    <2> QED
      BY ZenonT(30), <1>1, <2>1, PlainPoints, Moves
  <1>6. table' = [table EXCEPT ![k] = Granted(table[k], x, msg[t].rights)]
    BY ZenonT(30), <1>1, <1>2
  <1> QED
    BY ZenonT(30), <1>1, <1>3, <1>4, <1>5, <1>6, Grants

-----------------------------------------------------------------------------
\* server_task_fork_current_stopped: the child, and nobody else, gets handles,
\* with the rights its parent has.
LEMMA ForkSafe ==
  ASSUME HandleInv, NEW t \in HThreads, NEW u \in HThreads, Fork(t, u)
  PROVE  StepSafe
  <1> DEFINE k == Owner[t]
             c == Owner[u]
             new == Cloned(table[k], k, c)
  <1>1. /\ at[t] = "user" /\ at[u] = "new" /\ c \notin made /\ made' = made \cup {c}
        /\ table' = [table EXCEPT ![c] = new]
        /\ at' = [at EXCEPT ![t] = "forked", ![u] = "stopped"]
        /\ UNCHANGED <<mail, waiter, hold, msg>>
    BY ZenonT(30) DEF Fork, User, At
  <1>2. k \in HTasks /\ c \in HTasks /\ c \in Objects /\ made' \subseteq Objects
    BY <1>1, HandleConstants DEF HandleInv, Typed, Objects
  <1>3. /\ new \in [Slots -> Entries]
        /\ \A h \in Slots : new[h].obj \in {Nil, c} \/ new[h] = table[k][h]
    <2>1. table[k] \in [Slots -> Entries] /\ Empty \in Entries /\ Empty.obj = Nil
      BY ZenonT(30), <1>2 DEF HandleInv, Typed, Entries, Empty
    <2>2. \A e \in Entries : [e EXCEPT !.obj = c] \in Entries /\ [e EXCEPT !.obj = c].obj = c
      BY ZenonT(30), <1>2 DEF Entries
    <2> HIDE DEF k, c
    <2> QED
      BY ZenonT(30), <2>1, <2>2 DEF Cloned
  <1>4. /\ table' \in [HTasks -> [Slots -> Entries]] /\ table'[c] = new
        /\ \A j \in HTasks : j # c => table'[j] = table[j]
    <2> HIDE DEF k, c, new
    <2> QED
      BY ZenonT(30), <1>1, <1>2, <1>3 DEF HandleInv, Typed
  <1>5. /\ Located' /\ msg' \in [HThreads -> Messages]
        /\ \A o \in made \ Ports : ~Spreads(o) => MailSafe(o) /\ CallSafe(o)
    <2>1. /\ DOMAIN at' = HThreads /\ at[t] # "blocked" /\ at[u] # "blocked" /\ t # u
          /\ at'[t] = "forked" /\ at'[u] = "stopped"
          /\ \A v \in HThreads : v \notin {t, u} => at'[v] = at[v]
      BY ZenonT(30), <1>1 DEF HandleInv, Located
    <2>2. \A v \in HThreads :
            \/ at'[v] = at[v]
            \/ at[v] # "blocked" /\ at'[v] \notin PortCalls \cup {"inherit", "insert"}
      BY ZenonT(30), <2>1, PlainPoints
    <2> QED
      BY ZenonT(30), <1>1, <2>1, <2>2, Still
  <1>6. Typed'
    BY ZenonT(30), <1>1, <1>2, <1>4, <1>5 DEF HandleInv, Typed
  <1>7. ASSUME NEW o \in made \ Ports, ~Spreads(o)
        PROVE  TableSafe(o)
    <2>1. o # Nil /\ o # c
      BY ZenonT(30), <1>1, HandleConstants DEF HandleInv, Typed
    <2>2. \A j \in HTasks, h \in Slots : table[j][h].obj = o =>
            "dup" \notin table[j][h].rights /\ j \in Holders(o)
      BY ZenonT(30), <1>7 DEF Spreads, Holders
    <2>3. c \in made' \ made
      BY ZenonT(30), <1>1
    <2> HIDE DEF k, c, new
    <2>4. ASSUME NEW j \in HTasks, NEW h \in Slots, table'[j][h].obj = o
          PROVE  "dup" \notin table'[j][h].rights /\ j \in Holders(o) \cup (made' \ made)
      <3>1. CASE j = c
        BY ZenonT(30), <1>2, <1>3, <1>4, <2>1, <2>2, <2>3, <2>4, <3>1
      <3>2. CASE j # c
        BY ZenonT(30), <1>4, <2>2, <2>4, <3>2
      <3> QED
        BY ZenonT(30), <3>1, <3>2
    <2> QED
      BY ZenonT(30), <2>4 DEF TableSafe
  <1> QED
    BY ZenonT(30), <1>5, <1>6, <1>7 DEF StepSafe, HandleInv

\* server_task_start_fork, task_discard_unstarted and server_task_start.
LEMMA StartSafe ==
  ASSUME HandleInv, NEW t \in HThreads, NEW u \in HThreads
  PROVE  (ForkEnd(t, u) => StepSafe) /\ (TaskStart(t, u) => StepSafe)
  <1>0. made \subseteq Objects /\ table \in [HTasks -> [Slots -> Entries]] /\ DOMAIN at = HThreads
    BY ZenonT(30) DEF HandleInv, Typed, Located
  <1>1. ASSUME ForkEnd(t, u) PROVE StepSafe
    <2>1. /\ at[t] = "forked" /\ at[u] = "stopped" /\ UNCHANGED <<made, mail, waiter, hold, msg>>
          /\ \/ at' = [at EXCEPT ![t] = "user", ![u] = "user"]
             \/ at' = [at EXCEPT ![t] = "user", ![u] = "gone"]
      BY ZenonT(30), <1>1 DEF ForkEnd, At
    <2>2. /\ table' \in [HTasks -> [Slots -> Entries]]
          /\ \A k \in HTasks, h \in Slots :
               table'[k][h] = table[k][h] \/ table'[k][h].obj = Nil
      <3>1. table' = table \/ \E s, deaths : Release(s, table, deaths)
        BY ZenonT(30), <1>1 DEF ForkEnd
      <3> QED
        BY ZenonT(30), <1>0, <3>1, ReleaseTables DEF HandleInv
    <2>3. /\ DOMAIN at' = HThreads /\ at'[t] = "user" /\ at'[u] \in {"user", "gone"}
          /\ at[t] # "blocked" /\ at[u] # "blocked"
          /\ \A v \in HThreads : v \notin {t, u} => at'[v] = at[v]
      BY ZenonT(30), <1>0, <2>1
    <2>4. \A v \in HThreads :
            \/ at'[v] = at[v]
            \/ at[v] # "blocked" /\ at'[v] \notin PortCalls \cup {"inherit", "insert"}
      BY ZenonT(30), <2>3, PlainPoints
    <2>5. /\ Located' /\ msg' \in [HThreads -> Messages]
          /\ \A o \in made \ Ports : ~Spreads(o) => MailSafe(o) /\ CallSafe(o)
      BY ZenonT(30), <2>1, <2>3, <2>4, Still
    <2> QED
      BY ZenonT(30), <1>0, <2>1, <2>2, <2>5, Removes
  <1>2. ASSUME TaskStart(t, u) PROVE StepSafe
    <2>1. /\ at[t] = "start" /\ UNCHANGED <<made, mail, waiter, hold, msg, table>>
          /\ at' = [at EXCEPT ![t] = "drop",
                              ![u] = IF @ = "stopped" /\ Owner[u] \notin hdead \cup doomed
                                     THEN "user" ELSE @]
      BY ZenonT(30), <1>2 DEF TaskStart, At
    <2>2. /\ DOMAIN at' = HThreads /\ at'[t] = "drop" /\ at[t] # "blocked"
          /\ \A v \in HThreads \ {t} :
               at'[v] = at[v] \/ (at[v] # "blocked" /\ at'[v] = "user")
      BY <1>0, <2>1
    <2>3. \A v \in HThreads :
            \/ at'[v] = at[v]
            \/ at[v] # "blocked" /\ at'[v] \notin PortCalls \cup {"inherit", "insert"}
      BY ZenonT(30), <2>2, PlainPoints
    <2>4. /\ Located' /\ msg' \in [HThreads -> Messages]
          /\ \A o \in made \ Ports : ~Spreads(o) => MailSafe(o) /\ CallSafe(o)
      BY ZenonT(30), <2>1, <2>2, <2>3, Still
    <2> QED
      BY ZenonT(30), <1>0, <2>1, <2>4, Removes
  <1> QED
    BY ZenonT(30), <1>1, <1>2

\* task_kill takes the task's threads off their ports.
LEMMA KillSafe ==
  ASSUME HandleInv, NEW t \in HThreads, TaskKill(t)
  PROVE  StepSafe
  <1>1. /\ at[t] = "kill" /\ at' = [at EXCEPT ![t] = "drop"]
        /\ waiter' = [p \in Ports |-> IF waiter[p] # Nil /\ Owner[waiter[p]] = hold[t][1]
                                      THEN Nil ELSE waiter[p]]
        /\ UNCHANGED <<made, table, mail, hold, msg>>
    BY ZenonT(30) DEF TaskKill, At, Go
  <1>2. /\ waiter' \in [Ports -> HThreads \cup {Nil}]
        /\ \A p \in Ports : waiter'[p] \in {waiter[p], Nil}
        /\ at[t] # "blocked"
    BY ZenonT(30), <1>1 DEF HandleInv, Located
  <1>3. made' \subseteq Objects /\ table' \in [HTasks -> [Slots -> Entries]]
    BY ZenonT(30), <1>1 DEF HandleInv, Typed
  <1>4. /\ Located' /\ msg' \in [HThreads -> Messages]
        /\ \A o \in made \ Ports : ~Spreads(o) => MailSafe(o) /\ CallSafe(o)
    BY ZenonT(30), <1>1, <1>2, PlainPoints, Moves
  <1> QED
    BY ZenonT(30), <1>1, <1>3, <1>4, Removes

\* sched_reap_thread: no port waits for a thread that is reaped.
LEMMA ReapSafe ==
  ASSUME HandleInv, NEW t \in HThreads, Reap(t)
  PROVE  StepSafe
  <1>1. /\ at' = [at EXCEPT ![t] = "gone"] /\ hold' = [hold EXCEPT ![t] = <<>>]
        /\ msg' = [msg EXCEPT ![t] = NoMsg] /\ UNCHANGED <<made, mail, waiter>>
    BY ZenonT(30) DEF Reap, Go
  <1>2. at[t] \in {"user", "recv"} \/ \A p \in Ports : waiter[p] # t
    BY ZenonT(30) DEF Reap, At
  <1>3. at[t] # "blocked" \/ \A p \in Ports : waiter[p] # t
    BY ZenonT(30), <1>2
  <1>4. table' = table \/ \E s, deaths : Release(s, table, deaths)
    BY ZenonT(30) DEF Reap
  <1>5. /\ table' \in [HTasks -> [Slots -> Entries]] /\ made' \subseteq Objects
        /\ \A k \in HTasks, h \in Slots : table'[k][h] = table[k][h] \/ table'[k][h].obj = Nil
    BY ZenonT(30), <1>1, <1>4, ReleaseTables DEF HandleInv, Typed
  <1>6. /\ Located' /\ msg' \in [HThreads -> Messages]
        /\ \A o \in made \ Ports : ~Spreads(o) => MailSafe(o) /\ CallSafe(o)
    <2>1. <<>> \in Seq(Objects \cup {Nil})
      OBVIOUS
    <2> QED
      BY ZenonT(30), <1>1, <1>3, <2>1, PlainPoints, Moves
  <1> QED
    BY ZenonT(30), <1>1, <1>5, <1>6, Removes

\* task_teardown only takes handles away.
LEMMA TeardownSafe ==
  ASSUME HandleInv, NEW k \in HTasks, Teardown(k)
  PROVE  StepSafe
  <1>1. UNCHANGED <<made, mail, waiter, at, hold, msg>>
    BY ZenonT(30) DEF Teardown
  <1>2. table' = table \/ \E x : table' = [table EXCEPT ![x] = [g \in Slots |-> Empty]]
    BY ZenonT(30) DEF Teardown
  <1>3. /\ table' \in [HTasks -> [Slots -> Entries]]
        /\ \A j \in HTasks, h \in Slots : table'[j][h] = table[j][h] \/ table'[j][h].obj = Nil
    <2>1. Empty \in Entries /\ Empty.obj = Nil
      BY ZenonT(30) DEF Empty, Entries
    <2> QED
      BY ZenonT(30), <1>2, <2>1 DEF HandleInv, Typed
  <1>4. made' \subseteq Objects /\ DOMAIN at' = HThreads
    BY ZenonT(30), <1>1 DEF HandleInv, Typed, Located
  <1>5. /\ Located' /\ msg' \in [HThreads -> Messages]
        /\ \A o \in made \ Ports : ~Spreads(o) => MailSafe(o) /\ CallSafe(o)
    BY ZenonT(30), <1>1, <1>4, Still
  <1> QED
    BY ZenonT(30), <1>1, <1>3, <1>4, <1>5, Removes

-----------------------------------------------------------------------------
\* The system calls on handles and messages.
LEMMA HandleCallSafe ==
  ASSUME HandleInv, NEW t \in HThreads, HandleCall(t)
  PROVE  StepSafe
  <1>1. ASSUME NEW h \in Slots, SendStart(t, h) PROVE StepSafe
    BY ZenonT(30), <1>1, Lookups DEF SendStart, User, At, Go
  <1>2. ASSUME NEW h \in Slots, RecvStart(t, h) PROVE StepSafe
    BY ZenonT(30), <1>2, Lookups DEF RecvStart, User, At, Go
  <1>3. ASSUME NEW h \in Slots, BufferUse(t, h) PROVE StepSafe
    BY ZenonT(30), <1>3, Lookups DEF BufferUse, User, At, Go
  <1>4. ASSUME NEW h \in Slots, NEW verb, NEW l \in {"inherit", "start", "kill"},
               TaskFind(t, h, verb, l)
        PROVE  StepSafe
    <2>1. /\ at[t] = "user" /\ at' = [at EXCEPT ![t] = l] /\ ObjectAt(t, h) \in HTasks
          /\ hold' = [hold EXCEPT ![t] = <<ObjectAt(t, h)>>]
          /\ UNCHANGED <<made, table, msg, mail, waiter>>
      BY ZenonT(30), <1>4 DEF TaskFind, User, At, Go
    <2> QED
      BY ZenonT(30), <2>1, Lookups
  <1>5. ASSUME NEW r \in Given(t, "ask"), NEW h \in Given(t, "lend"),
               NEW R \in CapRights \cup {{}}, Compose(t, r, h, R)
        PROVE  StepSafe
    <2>1. r \in Slots \cup {0} /\ h \in Slots \cup {0}
      BY ZenonT(30) DEF Given
    <2> QED
      BY ZenonT(30), <1>5, <2>1, ComposeSafe
  <1>6. (Post(t) \/ Drop(t) \/ Recv(t) \/ Resume(t) \/ Got(t) \/ InheritInto(t)) => StepSafe
    BY ZenonT(30), PostSafe, CallEnds, RecvSafe, GotSafe, InheritIntoSafe
  <1>7. ASSUME NEW h \in Slots
        PROVE  Close(t, h) \/ (\E R \in CapRights : InheritFrom(t, h, R)) => StepSafe
    BY ZenonT(30), CloseSafe, InheritFromSafe
  <1>8. (\E p \in Ports : PortCreate(t, p)) \/ (\E b \in Buffers : BufferCreate(t, b)) => StepSafe
    BY ZenonT(30), CreateSafe
  <1> QED
    BY ZenonT(30), <1>1, <1>2, <1>3, <1>4, <1>5, <1>6, <1>7, <1>8 DEF HandleCall

\* Every step keeps the invariant and spreads nothing.
LEMMA EveryStepSafe ==
  ASSUME HandleInv, HNext
  PROVE  StepSafe
  <1>1. ASSUME NEW t \in HThreads, TaskCall(t) PROVE StepSafe
    BY ZenonT(30), <1>1, KillSafe, ReapSafe, ForkSafe, StartSafe, CreateSafe DEF TaskCall
  <1> QED
    BY ZenonT(30), <1>1, HandleCallSafe, TeardownSafe DEF HNext

\* The initial state satisfies the invariant.
LEMMA HandleInvInit == HInit => HandleInv
  <1> SUFFICES ASSUME HInit PROVE HandleInv
    BY ZenonT(30)
  <1>1. Typed
    <2>1. made \subseteq Objects
      BY HandleConstants DEF HInit, Objects
    <2>2. NoMsg \in Messages
      BY ZenonT(30) DEF NoMsg, Messages
    <2>3. table \in [HTasks -> [Slots -> Entries]]
      BY ZenonT(30), HandleConstants DEF HInit, Entries
    <2>4. msg \in [HThreads -> Messages] /\ mail \in [Ports -> Seq(Messages)]
      BY <2>2 DEF HInit
    <2> QED
      BY ZenonT(30), <2>1, <2>3, <2>4 DEF Typed
  <1>2. Located
    <2>1. /\ DOMAIN at = HThreads /\ \A u \in HThreads : at[u] \in {"user", "new"}
          /\ hold \in [HThreads -> Seq(Objects \cup {Nil})]
          /\ waiter \in [Ports -> HThreads \cup {Nil}] /\ \A p \in Ports : waiter[p] = Nil
      BY DEF HInit
    <2> QED
      BY ZenonT(30), <2>1, PlainPoints DEF Located
  <1> QED
    BY ZenonT(30), <1>1, <1>2 DEF HandleInv

\* Authority over a buffer or a task does not spread without DUP, in any system
\* of tasks, threads, objects and programs: the checks of task_export_cap and
\* task_grant_inherited_handle are enough, whatever else runs in between.
THEOREM AuthorityConfined == HSpec => NoSpreadWithoutDup
  <1> DEFINE Kept == \A o \in made \ Ports : ~Spreads(o) =>
                       ~Spreads(o)' /\ Holders(o)' \subseteq Holders(o) \cup (made' \ made)
  <1>1. HandleInv /\ [HNext]_hVars => HandleInv'
    <2>1. ASSUME HandleInv, UNCHANGED hVars PROVE HandleInv'
      BY ZenonT(30), <2>1 DEF hVars, HandleInv, Typed, Located
    <2> QED
      BY ZenonT(30), <2>1, EveryStepSafe DEF StepSafe
  <1>2. HandleInv /\ [HNext]_hVars => [Kept]_hVars
    <2> SUFFICES ASSUME HandleInv, HNext, NEW o \in made \ Ports, ~Spreads(o)
                 PROVE  ~Spreads(o)' /\ Holders(o)' \subseteq Holders(o) \cup (made' \ made)
      BY ZenonT(30)
    <2>1. TableSafe(o) /\ MailSafe(o) /\ CallSafe(o)
      BY ZenonT(30), EveryStepSafe DEF StepSafe
    <2>2. ~Spreads(o)'
      BY ZenonT(30), <2>1 DEF Spreads, At, TableSafe, MailSafe, CallSafe
    <2>3. Holders(o)' \subseteq Holders(o) \cup (made' \ made)
      BY ZenonT(30), <2>1 DEF Holders, TableSafe
    <2> QED
      BY ZenonT(30), <2>2, <2>3
  <1> QED
    BY <1>1, <1>2, HandleInvInit, PTL DEF HSpec, NoSpreadWithoutDup
=============================================================================
