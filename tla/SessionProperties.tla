-------------------------- MODULE SessionProperties --------------------------
(***************************************************************************)
(* What a client and the server can rely on, and what the header says that *)
(* they cannot.                                                            *)
(***************************************************************************)
EXTENDS Session

HeaderPcs == {"idle", "writeLength", "repeatLength"}
ClientPcs == HeaderPcs \cup {"writeText", "repeatText", "readLength", "readText",
                             "garbage", "done"}
Serving == {"readLength", "readText", "run", "writeLength", "writeText", "callback", "erasing"}

\* The workers in the queue are those that were started and not deleted, and
\* the mutex is held by one of them exactly while it is in garbage().
SessionOK ==
    /\ \A c \in Clients :
         /\ client[c].caller \in {"calling", "waiting", "leaving", "true", "false", "killed"}
         /\ client[c].pc \in ClientPcs
         /\ worker[c].pc \in Serving \cup {"none", "created", "gone"}
         /\ worker[c].pc # "none" => serverEnd[c] \in {"open", "closed"}
    /\ queue = {c \in Clients : worker[c].pc \in Serving}
    /\ \A c \in Clients : mutex = c <=> worker[c].pc = "erasing"

-----------------------------------------------------------------------------
\* What the server parses is the text of the client with perhaps something
\* after it, whatever was timed out or reset on the way, but for what the cut
\* writes of the client do: a header that was cut is repeated for ever, and a
\* text that was cut is right up to the place where it was cut first.  And a
\* length may be misread as -1, which is what a failed read returns
\* (MISServer.cpp:76-90, MISClient.cpp:82-94).
SafelySent(c) == IF client[c].pc = "repeatText" THEN client[c].wrote ELSE query[c].size
RightText ==
    \A c \in Clients : worker[c].pc \in {"run", "writeLength", "writeText"} =>
        \/ client[c].pc = "repeatLength"
        \/ worker[c].length = -1
        \/ /\ worker[c].length = query[c].size
           /\ IsPrefix(SubSeq(Content(c), 1, SafelySent(c)), worker[c].text)

\* What a client prints begins with the first four bytes of its answer: it
\* never takes a length for text, unless the server's header was cut
\* (MISClient.cpp:96-110, MISServer.cpp:97-99).
PrintsTheAnswer ==
    \A c \in Clients : client[c].printed # <<>> =>
        \/ worker[c].cut
        \/ /\ worker[c].answer >= 4
           /\ IsPrefix([k \in 1..4 |-> <<"answer", k>>], client[c].printed)

\* The queue does not grow while a worker is taken out of it, though only one
\* of the two holds the mutex: the process ends before it accepts a second
\* connection (MISServer.cpp:35, 43-56, 75).
QueueNotRaced == ~(server.up /\ server.acceptor = "pushing" /\ mutex # "")

\* A query comes to an end whatever the server does, with its caller or with
\* its process, unless a write was cut, a loop that only the end of the process
\* ends, or waits for room that the server never makes (MISClient.cpp:73-115).
WaitsForRoom(c) == /\ client[c].pc = "writeText" /\ serverEnd[c] \in {"backlog", "open"}
                   /\ Len(toServer[c]) + query[c].size > BufferBytes
QueryEnds ==
    \A c \in Clients :
        <>(\/ client[c].caller \in {"true", "false", "killed"}
           \/ client[c].pc \in {"repeatLength", "repeatText"}
           \/ []WaitsForRoom(c))

\* MISClient.h:19: "flase means this compilation failed", so that after true
\* the server has taken the text.
TrueMeansCompiled ==
    \A c \in Clients : client[c].caller = "true" => worker[c].text # <<>>
=============================================================================
