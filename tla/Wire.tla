-------------------------------- MODULE Wire --------------------------------
(***************************************************************************)
(* The connection of a client and the server as TCPSocket and bit.cpp use  *)
(* it: bytes in each direction, reads that wait a while and take what is   *)
(* there, writes that may take a part, and the header that carries a       *)
(* length.  A byte of a header is <<"length", bits>>, a byte of a text     *)
(* <<whose, position>>.                                                    *)
(***************************************************************************)
EXTENDS LengthEncoding, SequencesExt

CONSTANTS Clients,      \* the clients, strings
          Cuts,         \* where a read or a write may stop early
          BufferBytes,  \* the bytes that a direction holds: a write waits for room
          Misaligned    \* what four bytes that are not a header may be read as

\* The clients are told from what else a byte may be of.
ASSUME NamesAssumption == {"", "length", "answer", "junk"} \cap Clients = {}

VARIABLES toServer, toClient,   \* the bytes on their way, for each client
          clientEnd,    \* none, open, closed
          serverEnd     \* none, backlog, open, closed

wire == <<toServer, toClient, clientEnd, serverEnd>>

WireInit == /\ toServer = [c \in Clients |-> <<>>] /\ toClient = [c \in Clients |-> <<>>]
            /\ clientEnd = [c \in Clients |-> "none"]
            /\ serverEnd = [c \in Clients |-> "none"]

\* How many bytes are taken at once: all there are, up to max, or fewer.
Chunks(bytes, max) ==
    LET some == {n \in 0..Len(bytes) : n <= max}
    IN {n \in some : n \in Cuts \/ \A m \in some : m <= n}

\* readFromSocketWithTimeout: what recv takes of what is there; 0 when the
\* time is up or the other end is closed; -1 after a reset, which may lose
\* what was on its way.
Reads(bytes, max, gone) ==
    {[count |-> k, bytes |-> SubSeq(bytes, 1, k)] : k \in Chunks(bytes, max)}
      \cup IF gone THEN {[count |-> -1, bytes |-> <<>>]} ELSE {}

\* writeToSocket, one send.  To an end that is gone it is lost, fails, or
\* raises SIGPIPE, which nobody handles.  On a socket that was never connected
\* POSIX lets it fail with ENOTCONN; Linux raises SIGPIPE.
Sent(bytes, count, more) ==
    [count |-> count, bytes |-> bytes \o SubSeq(more, 1, count), killed |-> FALSE]
Writes(bytes, more, end) ==
    LET failed == {[count |-> -1, bytes |-> bytes, killed |-> k] : k \in BOOLEAN}
        lost == [count |-> Len(more), bytes |-> bytes, killed |-> FALSE]
    IN CASE end = "none"   -> failed
         [] end = "closed" -> failed \cup {lost}
         [] OTHER -> {Sent(bytes, k, more) : k \in
                         {n \in Chunks(more, Len(more)) : Len(bytes) + Len(more) <= BufferBytes}}

-----------------------------------------------------------------------------
Header(n) ==
    LET cha == WriteInt(BitsOf(n)) IN [i \in 1..4 |-> <<"length", cha[i - 1]>>]

LengthsIn(bytes) ==
    IF Len(bytes) = 4 /\ (\A i \in 1..4 : bytes[i][1] = "length")
    THEN {NumberOf(ReadInt([i \in 0..3 |-> bytes[i + 1][2]]))}
    ELSE Misaligned

\* std::string(buffer): up to the first zero, which may be beyond what was
\* read into the buffer.
Zero == <<"length", [j \in 0..(ByteBits - 1) |-> FALSE]>>
Junk == <<"junk", 0>>
Strings(bytes) ==
    LET zeros == {i \in DOMAIN bytes : bytes[i] = Zero}
    IN IF zeros = {} THEN {bytes, Append(bytes, Junk)}
       ELSE {SubSeq(bytes, 1, CHOOSE i \in zeros : \A z \in zeros : i <= z)}

\* The bytes of an array of a negative size, to recv: any number.
Room(length, bytes) == IF length < 0 THEN Len(bytes) ELSE length
=============================================================================
