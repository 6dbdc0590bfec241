------------------------------ MODULE MCSession ------------------------------
(***************************************************************************)
(* Two clients, bytes of two bits: a length of 5 is read back, as are 0    *)
(* and 4, and four bytes that are no header are read as -1 or as 4.  A     *)
(* direction does not hold a header and the text of c1.                    *)
(***************************************************************************)
EXTENDS SessionProperties

TwoClients == {"c1", "c2"}
SomeQueries ==
    [c \in TwoClients |-> IF c = "c1" THEN {[size |-> 5, blocking |-> TRUE]}
                          ELSE {[size |-> 0, blocking |-> FALSE]}]
SomeOutputs == {<<>>, <<4, 1>>}
SomeLengths == {-1, 4}
=============================================================================
