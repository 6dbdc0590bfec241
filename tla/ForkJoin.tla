------------------------------ MODULE ForkJoin ------------------------------
(***************************************************************************)
(* What a caller of VirtualMachine::run may rely on: the threads started   *)
(* for a program live inside the call.  A call that returns leaves no      *)
(* thread behind, or the process ends.                                     *)
(***************************************************************************)
CONSTANT Worker

VARIABLES active,   \* the threads that run
          started,  \* the threads that have been started
          call      \* running, returned, aborted

fvars == <<active, started, call>>

FInit == active = {} /\ started = {} /\ call = "running"

Spawn(u) == /\ call = "running" /\ u \in Worker \ started
            /\ started' = started \cup {u}
            /\ active' = active \cup {u}
            /\ UNCHANGED call

End(u) == /\ call = "running" /\ u \in active
          /\ active' = active \ {u}
          /\ UNCHANGED <<started, call>>

Return == call = "running" /\ active = {} /\ call' = "returned" /\ UNCHANGED <<active, started>>

Abort == call = "running" /\ call' = "aborted" /\ UNCHANGED <<active, started>>

FNext == (\E u \in Worker : Spawn(u) \/ End(u)) \/ Return \/ Abort

FSpec == FInit /\ [][FNext]_fvars
=============================================================================
