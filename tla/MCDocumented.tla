---------------------------- MODULE MCDocumented ----------------------------
(***************************************************************************)
(* What the README and the comments say an instruction does, on the        *)
(* smallest programs that use it.                                          *)
(***************************************************************************)
EXTENDS MCVirtualMachine

\* A block that waits for threads while the main program starts another.
WaitingBlock == Build({<<Begin, Wait, End, Begin, End>>})

\* VirtualMachine.cpp:94: the vector of threads is used by the main thread
\* alone, so it needs no lock.
ThreadsVectorSafe == "threads" \notin ub

NotZeroOnZero ==
    Build({<<Goto("JMPNZ", "a", <<Const(0)>>), Declare("i", 1), Label("a")>>})

\* README.md:77: JMPNZ jumps when its second parameter is not zero.
JumpsIfNotZero ==
    [][\A t \in Thread :
         (AtStep(t, "jump") /\ Cur(t).how = "JMPNZ" /\ Jump(t) /\ regs[t].last = 0)
             => pc'[t] = NextWork(pc[t])]_vars

JumpInBlock ==
    Build({<<Begin, Label("a"), Goto("JMP", "a", <<>>), End, Wait>>})

\* README.md:76: JMP sets the execution pointer to the first instruction
\* after the label, here the second work of the block.
LandsAfterLabel ==
    [][\A t \in Child :
         (AtStep(t, "jump") /\ Jump(t)) => phase'[t] = "live" /\ pc'[t].itr = 2]_vars
=============================================================================
