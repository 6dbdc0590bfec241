------------------------------- MODULE Session -------------------------------
(***************************************************************************)
(* Clients and the server together, each in its own process.               *)
(***************************************************************************)
EXTENDS Client, Server

vars == <<query, client, server, queue, mutex, worker,
          toServer, toClient, clientEnd, serverEnd>>

Init == WireInit /\ ClientInit /\ ServerInit

Listening == server.up /\ server.listening

CallerStep(c) == Caller(c, Listening) /\ UNCHANGED svars
WorkStep(c) == Work(c) /\ UNCHANGED svars
ServerStep == (Threads \/ \E c \in Clients : WorkerNext(c)) /\ UNCHANGED cvars

Next == ServerStep \/ \E c \in Clients : CallerStep(c) \/ WorkStep(c)

\* A thread of a client that can take a step takes one; reads are timed, and
\* nothing is expected of the server.
ClientsRun == \A c \in Clients : WF_vars(CallerStep(c)) /\ WF_vars(WorkStep(c))
Spec == Init /\ [][Next]_vars
FairSpec == Spec /\ ClientsRun
=============================================================================
