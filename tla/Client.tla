------------------------------- MODULE Client -------------------------------
(***************************************************************************)
(* MISClient: one query of one process.  The caller and, when the query    *)
(* does not block, the thread that works for it.                           *)
(***************************************************************************)
EXTENDS Wire

CONSTANT Queries    \* records [size, blocking]: what each client may ask for

\* The length of a text is converted to an int.
ASSUME QueriesAssumption == \A c \in Clients : \A q \in Queries[c] : q.size \in Nat /\ Fits(q.size)

VARIABLES query,    \* the query of each client
          client    \* its caller, pc of its work, bytes written, length read,
                    \* and what it printed

cvars == <<query, client>>

ClientInit ==
    /\ query \in {q \in [Clients -> UNION {Queries[c] : c \in Clients}] :
                    \A c \in Clients : q[c] \in Queries[c]}
    /\ client = [c \in Clients |-> [caller |-> "calling", pc |-> "idle", wrote |-> 0,
                                    length |-> 0, printed |-> <<>>]]

Content(c) == [k \in 1..query[c].size |-> <<c, k>>]
ServerGone(c) == serverEnd[c] = "closed"

Working(c, pc) == /\ client[c].caller \in {"waiting", "leaving"}
                  /\ client[c].pc = pc
CloseClient(c) == clientEnd' = [clientEnd EXCEPT ![c] = IF @ = "open" THEN "closed" ELSE @]
ClientKilled(c) == /\ client' = [client EXCEPT ![c].caller = "killed"]
                   /\ CloseClient(c)

-----------------------------------------------------------------------------
\* The host that is looked up is the content of the query.  When there is no
\* such host the socket is not connected, and nothing says so.
Connect(c, listening) ==
    \/ /\ listening
       /\ clientEnd' = [clientEnd EXCEPT ![c] = "open"]
       /\ serverEnd' = [serverEnd EXCEPT ![c] = "backlog"]
       /\ UNCHANGED <<toServer, toClient>>
    \/ UNCHANGED wire

\* The caller waits for the work, or destroys the std::thread that does it.
Query(c, listening) ==
    /\ client[c].caller = "calling"
    /\ client' = [client EXCEPT ![c].pc = "writeLength",
                     ![c].caller = IF query[c].blocking THEN "waiting" ELSE "leaving"]
    /\ Connect(c, listening)
    /\ UNCHANGED query

Refused(c) ==
    /\ client[c].caller = "calling"
    /\ client' = [client EXCEPT ![c].caller = "false"]
    /\ UNCHANGED <<query, wire>>

\* The text is copied without the zero at its end and then, up to some zero
\* behind it, into the 128 bytes of an address, which may end the process.
Overrun(c) ==
    /\ client[c].caller = "calling"
    /\ ClientKilled(c)
    /\ UNCHANGED <<query, toServer, toClient, serverEnd>>

\* The destructor of a thread that can be joined ends the process.
Leave(c) ==
    /\ client[c].caller = "leaving"
    /\ ClientKilled(c)
    /\ UNCHANGED <<query, toServer, toClient, serverEnd>>

Return(c) ==
    /\ client[c].caller = "waiting" /\ client[c].pc = "done"
    /\ client' = [client EXCEPT ![c].caller = "true"]
    /\ UNCHANGED <<query, wire>>

-----------------------------------------------------------------------------
\* One write and what follows it: the next step, the end, or the loop that
\* writes the rest.
Send(c, pc, bytes, repeat, next) ==
    /\ Working(c, pc)
    /\ \E w \in Writes(toServer[c], bytes, serverEnd[c]) :
         /\ toServer' = [toServer EXCEPT ![c] = w.bytes]
         /\ IF w.killed THEN ClientKilled(c)
            ELSE /\ client' = [client EXCEPT ![c].wrote = w.count,
                                  ![c].pc = CASE w.count = -1 -> "garbage"
                                              [] w.count \in 0..(Len(bytes) - 1) -> repeat
                                              [] OTHER -> next]
                 /\ UNCHANGED clientEnd
    /\ UNCHANGED <<query, toClient, serverEnd>>

\* The loop writes what the first write left, forgets how much of it was
\* taken, and writes it again.
Repeat(c, pc, bytes) ==
    /\ Working(c, pc)
    /\ \E w \in Writes(toServer[c], SubSeq(bytes, client[c].wrote + 1, Len(bytes)),
                       serverEnd[c]) :
         /\ toServer' = [toServer EXCEPT ![c] = w.bytes]
         /\ IF w.killed THEN ClientKilled(c) ELSE UNCHANGED <<client, clientEnd>>
    /\ UNCHANGED <<query, toClient, serverEnd>>

SendLength(c) == Send(c, "writeLength", Header(query[c].size), "repeatLength", "writeText")
RepeatLength(c) == Repeat(c, "repeatLength", Header(query[c].size))
SendText(c) == Send(c, "writeText", Content(c), "repeatText", "readLength")
RepeatText(c) == Repeat(c, "repeatText", Content(c))

\* Mutated: without a limit of time; without the test of what was read.
PatientReads(c, max) == {r \in Reads(toClient[c], max, ServerGone(c)) :
                            r.count # 0 \/ ServerGone(c)}
UncheckedReads(c, max) == {[r EXCEPT !.count = max] : r \in
                              Reads(toClient[c], max, ServerGone(c))}

ClientReads(c, max) == Reads(toClient[c], max, ServerGone(c))

\* The rest of the stream after a read.
Rest(bytes, read) == SubSeq(bytes, Len(read.bytes) + 1, Len(bytes))

ReceiveLength(c) ==
    /\ Working(c, "readLength")
    /\ \E r \in ClientReads(c, 4) :
         /\ toClient' = [toClient EXCEPT ![c] = Rest(@, r)]
         /\ \/ /\ r.count # 4
               /\ client' = [client EXCEPT ![c].pc = "garbage"]
            \/ /\ r.count = 4
               /\ \E n \in LengthsIn(r.bytes) :
                    client' = [client EXCEPT ![c].pc = "readText", ![c].length = n]
    /\ UNCHANGED <<query, toServer, clientEnd, serverEnd>>

\* What is read of the answer is printed if it is four bytes.
ReceiveText(c) ==
    /\ Working(c, "readText")
    /\ \/ /\ \E r \in ClientReads(c, Room(client[c].length, toClient[c])) :
               /\ toClient' = [toClient EXCEPT ![c] = Rest(@, r)]
               /\ \/ /\ r.count # 4
                     /\ client' = [client EXCEPT ![c].pc = "garbage"]
                  \/ /\ r.count = 4
                     /\ \E s \in Strings(r.bytes) :
                          client' = [client EXCEPT ![c].pc = "garbage", ![c].printed = s]
          /\ UNCHANGED clientEnd
       \/ /\ client[c].length < 0
          /\ ClientKilled(c)
          /\ UNCHANGED toClient
    /\ UNCHANGED <<query, toServer, serverEnd>>

\* The worker leaves the queue and is deleted with its socket.
Garbage(c) ==
    /\ Working(c, "garbage")
    /\ client' = [client EXCEPT ![c].pc = "done"]
    /\ CloseClient(c)
    /\ UNCHANGED <<query, toServer, toClient, serverEnd>>

Caller(c, listening) ==
    Query(c, listening) \/ Refused(c) \/ Overrun(c) \/ Leave(c) \/ Return(c)
Work(c) == \/ SendLength(c) \/ RepeatLength(c) \/ SendText(c) \/ RepeatText(c)
           \/ ReceiveLength(c) \/ ReceiveText(c) \/ Garbage(c)
=============================================================================
