------------------------------- MODULE MCIpc -------------------------------
(* Instances of Ipc for TLC: two CPUs, and programs made of the calls the   *)
(* constants allow.                                                         *)
EXTENDS Ipc, TLC

CONSTANTS c1, c2, client, server, other, tc, ts, to, srv, reply, own, q1, q2, r1

TwoCpus == {c1, c2}
AllTasks == {tc, ts, to}
EachOwnTask == client :> tc @@ server :> ts @@ other :> to
AnyCpu == [t \in {client, server, other} |-> TwoCpus]

\* A client calls a server, which replies; a third thread posts to the server.
CallSender == q1 :> client @@ q2 :> other @@ r1 :> server
CallDest == q1 :> srv @@ q2 :> srv @@ r1 :> reply
CallReceive == client :> {<<reply>>} @@ server :> {<<srv>>} @@ other :> {}
\* the client only runs on c1
ClientPinned == [t \in {client, server, other} |-> IF t = client THEN {c1} ELSE TwoCpus]
NoTry == [t \in {client, server, other} |-> {}]
NoCalls == [t \in {client, server, other} |-> {}]
\* A client may be killed, by the other thread, while it receives or sleeps.
KillSender == q1 :> client @@ r1 :> server
KillDest == q1 :> srv @@ r1 :> reply
KillCalls == client :> {"sleep"} @@ server :> {} @@ other :> {"kill"}

\* The server waits on two ports, and polls one of them as well; the client,
\* which sleeps or receives on a third port, may be killed by the other thread.
AnySender == q1 :> client @@ q2 :> other
AnyDest == q1 :> srv @@ q2 :> reply
AnyReceive == client :> {<<own>>} @@ server :> {<<srv, reply>>} @@ other :> {}
AnyTry == client :> {} @@ server :> {reply} @@ other :> {}
AnyCalls == client :> {"sleep"} @@ server :> {} @@ other :> {"kill"}

\* The client and the server alone.
Pair == {client, server}
PairTask == client :> tc @@ server :> ts
PairCpu == [t \in Pair |-> TwoCpus]
PairReceive == client :> {<<reply>>} @@ server :> {<<srv>>}
PairNone == [t \in Pair |-> {}]
=============================================================================
