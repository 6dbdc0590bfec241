------------------------------- MODULE Server -------------------------------
(***************************************************************************)
(* MISServer: the thread that calls start(), the thread that accepts, and  *)
(* a worker for each connection.  A std::thread that is destroyed while it *)
(* can be joined ends the process, and each of start() and Worker::start() *)
(* destroys the one it has just made.                                      *)
(***************************************************************************)
EXTENDS Wire

CONSTANT Outputs    \* what a program may print: sequences of sizes of words

ASSUME OutputsAssumption == Outputs \subseteq Seq(Nat)

VARIABLES server,   \* up, listening, and the pc of the two threads
          queue,    \* workingQueue
          mutex,    \* the worker that is in garbage(), or ""
          worker    \* pc, length read, text parsed, size of the answer and
                    \* whether its header was written in part (a history)

svars == <<server, queue, mutex, worker>>

ServerInit ==
    /\ server \in [up : {TRUE}, listening : BOOLEAN, main : {"starting"}, acceptor : {"none"}]
    /\ queue = {} /\ mutex = ""
    /\ worker = [c \in Clients |-> [pc |-> "none", length |-> 0, text |-> <<>>,
                                    answer |-> 0, cut |-> FALSE]]

ServerEnds ==
    /\ server' = [server EXCEPT !.up = FALSE]
    /\ serverEnd' = [c \in Clients |->
                        IF serverEnd[c] \in {"backlog", "open"} THEN "closed" ELSE serverEnd[c]]
    /\ UNCHANGED <<queue, mutex, worker, toServer, toClient, clientEnd>>

Main(pc) == server.up /\ server.main = pc
Acceptor(pc) == server.up /\ server.acceptor = pc
At(c, pc) == server.up /\ worker[c].pc = pc

-----------------------------------------------------------------------------
Start ==
    /\ Main("starting")
    /\ server' = [server EXCEPT !.main = "leaving", !.acceptor = "accepting"]
    /\ UNCHANGED <<queue, mutex, worker, wire>>

StartLeaves == Main("leaving") /\ ServerEnds

Accept(c) ==
    /\ Acceptor("accepting") /\ server.listening
    /\ serverEnd[c] = "backlog"
    /\ serverEnd' = [serverEnd EXCEPT ![c] = "open"]
    /\ server' = [server EXCEPT !.acceptor = "pushing"]
    /\ worker' = [worker EXCEPT ![c].pc = "created"]
    /\ UNCHANGED <<queue, mutex, toServer, toClient, clientEnd>>

\* accept() fails for a socket that does not listen, and may for the size of
\* the address it is given, which nothing sets; the null socket is used.
AcceptFails == Acceptor("accepting") /\ ServerEnds

\* Mutated: the thread of a worker is detached.
StartWorkerDetached(c) ==
    /\ Acceptor("pushing") /\ worker[c].pc = "created"
    /\ queue' = queue \cup {c}
    /\ worker' = [worker EXCEPT ![c].pc = "readLength"]
    /\ server' = [server EXCEPT !.acceptor = "accepting"]
    /\ UNCHANGED <<mutex, wire>>

\* workingQueue grows without the mutex, and the worker starts.
StartWorker(c) ==
    /\ Acceptor("pushing") /\ worker[c].pc = "created"
    /\ queue' = queue \cup {c}
    /\ worker' = [worker EXCEPT ![c].pc = "readLength"]
    /\ server' = [server EXCEPT !.acceptor = "leaving"]
    /\ UNCHANGED <<mutex, wire>>

WorkerLeaves == Acceptor("leaving") /\ ServerEnds

-----------------------------------------------------------------------------
ServerReads(c, max) == Reads(toServer[c], max, clientEnd[c] = "closed")

WorkerReceiveLength(c) ==
    /\ At(c, "readLength")
    /\ \E r \in ServerReads(c, 4) :
         /\ toServer' = [toServer EXCEPT ![c] = SubSeq(@, Len(r.bytes) + 1, Len(@))]
         /\ \/ /\ r.count # 4
               /\ worker' = [worker EXCEPT ![c].pc = "callback"]
            \/ /\ r.count = 4
               /\ \E n \in LengthsIn(r.bytes) :
                    worker' = [worker EXCEPT ![c].pc = "readText", ![c].length = n]
    /\ UNCHANGED <<server, queue, mutex, toClient, clientEnd, serverEnd>>

\* Mutated: a text of any length will do.
WholeTextAny(c, r) == r.count >= 0
WholeText(c, r) == r.count = worker[c].length

WorkerReceiveText(c) ==
    /\ At(c, "readText")
    /\ \/ /\ \E r \in ServerReads(c, Room(worker[c].length, toServer[c])) :
               /\ toServer' = [toServer EXCEPT ![c] = SubSeq(@, Len(r.bytes) + 1, Len(@))]
               /\ \/ /\ ~WholeText(c, r)
                     /\ worker' = [worker EXCEPT ![c].pc = "callback"]
                  \/ /\ WholeText(c, r)
                     /\ \E s \in Strings(r.bytes) :
                          worker' = [worker EXCEPT ![c].pc = "run", ![c].text = s]
          /\ UNCHANGED <<server, queue, mutex, toClient, clientEnd, serverEnd>>
       \/ worker[c].length < 0 /\ ServerEnds

\* parse() and run() come to an end, or an exception leaves them and ends the
\* process.  Only the first word of the output is taken from its stream.
FirstWord(words) == IF words = <<>> THEN 0 ELSE Head(words)
Run(c) ==
    /\ At(c, "run")
    /\ \/ /\ \E words \in Outputs :
               worker' = [worker EXCEPT ![c].pc = "writeLength", ![c].answer = FirstWord(words)]
          /\ UNCHANGED <<server, queue, mutex, wire>>
       \/ ServerEnds

\* Nobody looks at what was written.
WorkerSend(c, pc, bytes, next) ==
    /\ At(c, pc)
    /\ \E w \in Writes(toClient[c], bytes, IF clientEnd[c] = "closed" THEN "closed" ELSE "open") :
         IF w.killed THEN ServerEnds
         ELSE /\ toClient' = [toClient EXCEPT ![c] = w.bytes]
              /\ worker' = [worker EXCEPT ![c].pc = next,
                               ![c].cut = @ \/ (pc = "writeLength" /\ w.count < 4)]
              /\ UNCHANGED <<server, queue, mutex, toServer, clientEnd, serverEnd>>

WorkerSendLength(c) ==
    WorkerSend(c, "writeLength", Header(worker[c].answer), "writeText")
WorkerSendText(c) ==
    WorkerSend(c, "writeText", [k \in 1..worker[c].answer |-> <<"answer", k>>], "callback")

\* garbage(): with the mutex, the worker leaves the queue and is deleted with
\* its socket, by its own thread.
Callback(c) ==
    /\ At(c, "callback") /\ mutex = ""
    /\ mutex' = c
    /\ worker' = [worker EXCEPT ![c].pc = "erasing"]
    /\ UNCHANGED <<server, queue, wire>>

\* Mutated: the worker stays in the queue.
ErasedKept(left, c) == left
Erased(left, c) == left \ {c}

Erase(c) ==
    /\ At(c, "erasing")
    /\ mutex' = "" /\ queue' = Erased(queue, c)
    /\ worker' = [worker EXCEPT ![c].pc = "gone"]
    /\ serverEnd' = [serverEnd EXCEPT ![c] = "closed"]
    /\ UNCHANGED <<server, toServer, toClient, clientEnd>>

Threads == \/ Start \/ StartLeaves \/ AcceptFails \/ WorkerLeaves
           \/ \E c \in Clients : Accept(c) \/ StartWorker(c)
WorkerNext(c) == \/ WorkerReceiveLength(c) \/ WorkerReceiveText(c) \/ Run(c)
                 \/ WorkerSendLength(c) \/ WorkerSendText(c) \/ Callback(c) \/ Erase(c)
=============================================================================
