# A verification project for the Machine Instructions Simulator

MIS is a small assembly language with threads. A client sends a source to a
server; the server parses it into *works*, links them, and runs them on a
virtual machine whose output goes back over the socket. This directory holds
TLA+ modules that model the way of a source from the client to its output, TLC
configurations that check them, and TLAPS proofs about the parts of it for every
program, every number of clients and every bound. Paths below are relative to
the repository (`src/mis-core/...` is the repository's own `src` directory).

Contents: 1 inventory, 2 the modules and the code, 3 runs, 4 proofs, 5 where
code and documents disagree, 6 what is not modelled, 7 plan.

## 1. Inventory

| Part | State it keeps | Operations | Talks to |
|---|---|---|---|
| Virtual machine (`src/mis-core/VirtualMachine.cpp`, `VirtualMachine.h`) | number and character pools and their mutex, the vector of threads, the output stream, one iterator for each thread | `run`, `start`, `allocate`, `getNumber`, `getChars`, `thread`, `barrier`, `out`, destructor | works call it through `Runtime` |
| Instructions (`src/mis-instructions/Work*.cpp`, `instruction_impl.cpp`) | the operands (`Getter`), the mutex of an OUT or LOCK, the jump target | one `performance()` each | runtime; other threads through shared variables |
| Parser (`src/mis-core/parser.cpp`) | the context (types of the declared variables) during one `parse` | filters, `parseUnit`, `parse`, destructor | instruction builders, linkers |
| Linkers (`WorkMultiThread.cpp`, `WorkJump.cpp`) | none between calls; maps of locks and labels during one | threads, locks, jumps, in this order; the first calls all of them on each block | each other, recursively |
| Type matcher (`src/mis-core/restriction.cpp`) | none | `match` | parser |
| Numbers (`src/mis-core/lang.cpp`) | a union of a long and a double with a tag | arithmetic, assignment, comparison | instructions |
| Strings and characters (`lang.cpp`, `WorkString.cpp`) | characters | `get`, `set` | instructions |
| String helpers (`src/mis-core/strutil.cpp`) | none | `split`, `splitDetectStringChar`, `get_type`, `trim` | parser, server, client |
| Length encoding (`src/mis-core/bit.cpp`) | none | `readInt`, `writeInt` | server, client |
| Server (`src/mis-server/MISServer.cpp`) | queue of workers and its mutex, the parser, the machine, the socket | `start`, `garbage`, `terminated`, `Worker::start` | one machine run for each connection |
| Client (`src/mis-client/MISClient.cpp`) | queue of workers | `queryCompile`, `garbage`, `work` | server |
| Sockets (`socket/`) | a descriptor | read, write, accept, shutdown | kernel |
| Start-up (`ServerBoost.cpp`, `ClientBoost.cpp`) | none | `main` | server, client |

Where it is hard:

* **Threads.** A THREAD block is a `std::thread`. Variables are looked up under
  a mutex, then read and written without it. Threads are appended to an
  unprotected vector that BARRIER iterates, possibly in another thread. The
  destructor frees the variables first and looks at the threads afterwards.
* **Ends of a process.** An exception in a block, a join that throws, and the
  deletion of a joinable `std::thread` all end the process. A run can also
  deadlock.
* **Undefined behaviour**: races on the vector and on the stream, an iterator
  into a dead vector, use after free, unlocking another thread's mutex, reading
  the other member of a union, writing beyond a string.
* **Linking.** Linkers rewrite the vector they are given and call each other on
  parts of it; scopes of locks and labels follow from that.
* **Partial failure of parsing.** A bad line is reported and left out, and
  parsing goes on with the context as that line left it; but some texts end
  `parse` itself.
* **Server and client.** Queues touched with and without their mutex, workers
  deleted by their own callbacks, short reads and writes, time limits, ends that
  go away, and threads that are destroyed as soon as they are started.

What makes each part correct:

* *machine*: a call that returns leaves no thread behind and used no freed
  variable; BARRIER waits for all threads started so far; no two threads own a
  mutex; one OUT is not cut by another execution of itself; locked updates are
  not lost; a program that keeps to a reasonable discipline never ends the
  process, and finishes if it also locks its mutexes in one order;
* *parser and linkers*: whatever is left out, a surviving work uses variables
  declared before it and operands it can evaluate; a source is refused exactly
  when its structure is wrong; no work is lost or moved; a lock name means one
  mutex in its segment, a label its last occurrence;
* *tokeniser*: a text is cut outside of quotes and nowhere else; parsing ends
  early only on texts that are known, whatever variables their lines declare;
* *numbers and strings*: the tag and the content of a variable follow its
  declared type, and an index stays in its string, for programs that give them
  the chance;
* *lengths*: what is read back is what was written, or recognisably not;
* *server and client*: what is parsed is what was sent, what is printed is what
  was answered, the queue holds living workers only, and a query ends.

`PROJECT.json` lists the hazards with the line where each one bites.

## 2. The modules and the code

```
RuntimeSteps <- VirtualMachine <- RunProperties <- VirtualMachineProofs <- ThreadTheorems
  ^     ^                            |   ^  \
  |     |                     ForkJoin   |   (INSTANCE)
  |     |                                |
Works <-+- TypeMatcher <- Linker <-------+- MCVirtualMachine <- MCDocumented
  |     |                   ^   \
Operands|                Parser  \ <- ParserReference <- MCParser
  ^     |                         \ (INSTANCE)   ^
  |     |                                   ParserTheorems <- CodeTheorems
  +-- Values <- ValueProperties <- MCValues
                    ^
              ValueTheorems

Tokeniser <- TokeniserReference <- MCTokeniser
                    ^
            TokeniserTheorems

LengthEncoding <- Wire <- Client  \
                      <- Server  <- Session <- SessionProperties <- MCSession
                                                       ^
                              IterationTheorems <- SessionTheorems
                                      ^
                      ParserTheorems, TokeniserTheorems
```

| Module | Models |
|---|---|
| `RuntimeSteps` | The vocabulary: the atomic steps of a `performance()` as other threads see them, machine words, and `IsCode`, what the linkers hand to the machine |
| `Operands` | The kinds of tokens a line may have, and which types of variable each instruction takes |
| `Works` | Every `Work::performance` on numeric variables as the sequence of steps it takes |
| `TypeMatcher` | Filters, `TypeMatcher::match`, the matcher each instruction is registered with, and the wrapping of operands |
| `Linker` | Acceptance of one line, and the three linkers, as operators |
| `Parser` | `Parser::parse` as a state machine over a source read line by line |
| `ParserReference` | What parsing and linking should compute, by another route: counting block delimiters before a line |
| `VirtualMachine` | `run`: main loop, children, pool, mutexes, output, barrier, destructor |
| `ForkJoin` | The abstract specification of `run`: threads live inside the call |
| `RunProperties` | Properties of runs, the discipline of programs, the refinement mapping |
| `Values` | The objects behind variables of every type, and the instructions that declare, change and print them, one thread at a time |
| `ValueProperties` | Which programs may rely on what about their values |
| `Tokeniser` | From a text to the arguments of its lines, with every way `parse` ends |
| `TokeniserReference` | The same by counting the quotes before a position |
| `LengthEncoding` | `writeInt` and `readInt` on bits, and the bits of a number |
| `Wire` | A connection: bytes in each direction, timed reads, partial writes, resets, signals |
| `Client`, `Server` | One process each: `MISClient` with the worker of one query, `MISServer` with its threads, queue and workers |
| `Session` | Any number of clients and the server composed, fairness |
| `SessionProperties` | What both sides can rely on |
| `VirtualMachineProofs`, `ThreadTheorems`, `ValueTheorems`, `ParserTheorems`, `CodeTheorems`, `TokeniserTheorems`, `SessionTheorems` | Proofs |
| `IterationTheorems` | Induction over the turns of a loop, which the proofs about linkers, tokeniser and lengths share |
| `MC*` | Instances for TLC |

**Parser.** A line is a record of the instruction, the name it is about and its
operands. `ParseLine` is one pass of the loop of `parse` with the whole of
`parseUnit`: filters, matcher, builder, and the `catch` that drops a line that
threw; it changes `works` and `context` as the code does. `Link` is the linker
loop at its end. `LinkThreads`, `LinkLocks` and `LabelMap` are functions of how
many works a lambda has seen: `VisitWork`, `VisitLock` and `VisitLabel` are one
pass of its loop, and a thrown exception makes the passes after it idle. The
recursion of the thread linker into all linkers has depth one, because a buffer
never holds a delimiter, and is unfolded in `CloseBlock`.

Two odd loops are kept as they are. The loop over a variadic instruction's
tokens looks at the first one each time (`Fits`), so the others are refused, if
at all, by `wrap` (`Wraps`). And tokens after a matcher's last part are ignored
(`Match`): `SUB $i,1,2,text` becomes a work.

**Machine.** State and code correspond as follows.

| Variable | Code |
|---|---|
| `code` | the linked works; segment 1 is the main program, segment g+1 block g |
| `phase[t]` | where thread t is: not started, in its loop, following a dead iterator (`wild`), in `catch`, in the destructor (`destroy`, `freed`), ended |
| `pc[t]` | the iterator of the loop and the step inside the work |
| `regs[t]` | locals of a `performance()`: the destination's pointer, the operand's pointer, the read half of `+=`, the last two operands |
| `pool`, `heap`, `used` | `numberPool`, and the Number objects it points to; a second VAR of a name replaces the pointer |
| `locked`, `held` | the mutexes; `held` is a history variable |
| `threads`, `th` | `RuntimeImpl::threads` and the local of `thread()` before its `push_back` |
| `bar[t]` | the range-for of `barrier()`: next index, the end it took at the start, whether it is inside `join` |
| `joined` | std::thread objects that are no longer joinable |
| `out`, `ub` | chunks on the stream; history of undefined behaviour |

Every step another thread can observe is an action: `Lookup` (under the pool's
mutex) and `Copy` (after it) are two, so are `Load` and `Store` of `+=`, and
`Create` and `PushBack` of `thread()`. A `lookup` step covers the lock, the
search and the unlock of `getNumber`, which no other access of the pool can
interleave. Operands of one expression are evaluated from the last to the
first, as g++ does for the calls and operators used here; the language leaves
the order open. The wait of SLEEP is a `nop`: interleaving stands for any
duration.

Undefined behaviour is a choice. A race on the stream may lose a chunk; a freed
object reads as any word; a thread that follows an iterator into a dead vector
stops being described by the program (`wild`); after any of these, or after a
race on the vector of threads, the process may crash at any time (`Crash`).
Unlocking a mutex one does not own releases it, as the mutexes of the build do,
and is recorded.

**Values.** A Number is its tag, whether the union holds a double, and the long.
A long keeps its value and wraps; a double only keeps that it is one, so a
comparison of one with zero goes both ways. Reading the member that was not
written gives any word and is recorded in `ub`. A string is the sequence of its
characters; what lies behind it is any character. `Accumulate` is one operand of
ADD or MUL: what an exception leaves behind is the sum of the operands before
it. The index test of SET_STR_CHAR and GET_STR_CHAR is a guard of its own: it
admits the length of the string and negative numbers, and the index is then
narrowed to an `int` of another width (`IntHalf`). The tokens of VAR keep their
order, so that `VAR $s,STRING,2,"ab"` declares the text `2`.

**Tokeniser.** A character is one of the classes that splitting and filters
tell apart. `Split` visits the characters of a text as `splitDetectStringChar`
does (`VisitChar`), as a function of how many it has seen;
`SplitSource` is the first call of `parse`, `ReadLine` one pass of its loop.
`Refused` is the first filter: a name behind a `$` that is not in the context is
a new one after VAR and throws after any other instruction, and the entry under
which the context keeps the current instruction (`CurrentInst`) throws always.
`Arguments` is the loop over the arguments, which stops at the first that
throws: a refused name drops the line, an empty argument ends `parse`, so that
which of them comes first matters, and with it what `context` holds. `Declared`
is what the builder of VAR adds to it. What the builders of the other
instructions make of their arguments leaves the context alone and is
`TypeMatcher`'s and `Linker`'s. A matcher looks at `Arity` tokens, whether they
are there or not: on a shorter line both continuations are in the model, that
it stops before (a token of another type) and that it reads on.
`status` ends as `read`, or as what ended `parse`: `bad_exception` from an
unpaired quote, `out_of_range` from an empty argument, `undefined` from an
empty line, whose first word is read though there is none, or from a line that
is shorter than its matcher.

**Client, server and wire.**

| Variable | Code |
|---|---|
| `toServer`, `toClient` | the bytes on their way on each connection, at most `BufferBytes` |
| `clientEnd`, `serverEnd` | the descriptors: not connected, in the backlog of `listen`, open, closed |
| `query` | what each client asks for: the size of its source, and whether it blocks |
| `client[c]` | `caller`: where `queryCompile` is; `pc`, `wrote`, `length`: the locals of `Worker::work`; `printed` |
| `server` | whether the process runs, whether its socket listens, the thread in `start()` and the accepting thread |
| `queue`, `mutex` | `workingQueue` and the mutex of `garbage()` |
| `worker[c]` | the locals of `Worker::start`'s thread; `cut` is a history of a header written in part |

`Reads` is `readFromSocketWithTimeout`: some of what is there, 0 when the time is
up or the other end closed, -1 after a reset. `Writes` is one `send`: all or a
part of the bytes; to an end that is gone they are lost, refused, or raise
SIGPIPE, which nobody handles. A header travels as the bits of `LengthEncoding`,
so that a length is misread exactly when the code misreads it.

Several things in the code look like slips and are modelled as they are.
`queryCompile` looks the source text up as a host (`MISClient.cpp:14`), so the
connection may or may not come about. The retry loops send the rest of a short
write again and again. Only an answer of which exactly four bytes are read is
printed. `main` of the server calls `start()`, which destroys a joinable
`std::thread` (`StartLeaves`), as `Worker::start` does (`WorkerLeaves`): the
process ends as soon as one of them leaves, and what happens until then depends
on the schedule. Whether the server's socket listens is left open, because
`createDefaultServer` never calls `initializeSocket`; `accept` may fail at any
time because the size it is given for the address is not set.

## 3. Runs

| Run | Instance | Distinct states | Question |
|---|---|---|---|
| `parser` | sources of up to 6 of 7 lines with block delimiters, two locks, an unlock, a label, a jump; of up to 5 of 15 lines with declarations, uses, operands of the wrong type or number; of up to 4 of 18 lines with strings, characters, reals, or an instruction that there is not | 2 124 048 | Do the linkers refuse exactly the ill-formed sources, keep order, and scope mutexes and labels by segment? Do surviving works have declared variables and operands they can evaluate? Is the result a program the machine accepts (`LinkedIsCode`)? |
| `vm_threads` | `VAR i` followed by up to 6 of THREAD_BEGIN, THREAD_END, BARRIER, SUB, OUT, and some jumps in blocks; declarations in blocks, jumped over or missing; 3 threads | 416 325 | Which programs are safe under every schedule? Is a run a fork and join? Does every pointer pass its own null check? |
| `vm_locks` | a loop that starts one block twice, with every body of up to 3 locks, unlocks, updates or outputs but the one of three bare updates, and bodies of up to 8 that take two mutexes in either order or again; terminating programs of locks and joins; main programs that jump over an UNLOCK, with a mutex held, or for ever; fairness | 70 184 | Exclusion, lost updates, interleaved output; do disciplined programs finish? |
| `values` | declarations of the four types with every kind of literal, followed by up to three instructions; declarations jumped over | 370 299 | Do tags follow types, are variables found, do indices stay in strings? |
| `tokeniser` | every text of up to 5 characters of 7 classes; two lines, one that declares a variable or nearly does, above or below one that names it or another among up to three arguments, empty ones too | 97 940 | Is a text cut where it should be, do builders get what stands in the lines, and does `parse` end early only where it must? |
| `session` | two clients and the server over streams that are cut and full; fairness of the clients | 247 219 | What can each side rely on? Does a query end? |
| `doc_vector`, `doc_jmpnz`, `doc_jump_in_block`, `doc_content`, `doc_values`, `doc_client` | one small program, or the clients above | | Section 5: violations expected |

The programs of the `vm_` and `values` runs are not written by hand: TLC builds
every sequence of lines over the alphabet, keeps those whose lines are all
accepted by the model of the parser, and links them with the model of the
linkers.

**Properties.** `RefusesExactly`: a source fails to link iff blocks are nested
or unpaired, a linked segment unlocks a name it did not lock above, or jumps to
a label it lacks. `KeepsOrder`: segments hold exactly the works between the
delimiters, in order. `OneMutexPerScope`, `JumpsToLastLabel`: what names mean.
`DeclaredBeforeUse`, `OperandsTyped`: the works left after dropping lines.
`LinkedIsCode`: what the linkers and the instructions make of a source whose
variables are numeric and whose literals are words (`Representable`, the sources
that the machine's model covers) satisfies the assumption of the machine's
proofs, in particular that each `copy` follows its own lookup, each update its
own target.

`CleanExit`: a run that returned has no living thread. `NoReturnAfterFree`: if
a thread touched a freed object the run does not return. `NoJoinCycle`: threads
never wait in `join` in a circle of any length; `join` itself only detects
circles of one, and the order of the vector excludes the longer ones.
`NoNullDereference`: between a lookup and the use of its pointer other threads
declare what they like, and the pointer still is one that was checked.
`BarrierJoinsAll`: BARRIER of the main program
returns when every thread started so far has ended and been joined; a BARRIER
inside a block promises less, because it iterates the vector as it was when it
began. `MutualExclusion`, `OutNotInterleaved`: what LOCK and
the mutex of OUT give. `CountsUpdates`: a variable that is declared once, before
any thread starts, and that blocks change only by `SUB x,x,1` while they hold one
mutex, at every moment is what it was declared as less the decrements made so
far. A LOCK's mutex belongs to its segment, so this is about one block that
several threads run: the same name in two blocks protects nothing. `DisciplinedIsSafe`: a program that declares variables
before threads use them, neither jumps nor joins in blocks, joins once after
its last THREAD, and writes from one OUT while threads run, never ends the
process, and of the undefined behaviour that `ub` records (races on the stream and
on the vector of threads, dead iterators, freed objects, foreign unlocks) meets
only a foreign unlock. Two kinds are not recorded and not part of the claim: a
race on the value of a Number, which reads and writes as the machine words of the
build do, and a LOCK of a mutex that the thread itself holds, which waits for ever.
`DisciplinedEnds`: if each of its segments also unlocks only what it holds, holds
nothing at its end, and never locks one mutex under another that it elsewhere
locks under the first (`Ordered`: the nesting of its locks has no circle, so that
LOCK 1, LOCK 2, UNLOCK 1, LOCK 1 is none, where two threads can wait for each
other), and its main program takes no lock if it jumps, it finishes, unless the
main program jumps for ever.
`IsForkJoin`: `Spec` implements `ForkJoin` with the living, the started and the
call's status read off `phase` and `status`.

`TagsFollowTypes`: in a program that keeps reals and numerics apart (`Separated`,
a condition on its text) every Number has the tag and content of its declared
type, nothing is read as the other member of the union, and no index is a real.
`FindsVariables`: without jumps no instruction misses a variable, though the
parser only looked at the order of lines. `StaysInStrings`: if all indices are
literals below the length of the declared text, no instruction leaves its
string or is stopped by the index test, whatever was written before.

`CutsOutsideQuotes`: where a text is cut. `ArgumentsWhole`: what a builder is
given is the text of a line of its instruction, cut at all commas outside of
quotes, none of the arguments is empty, and a variable among them is declared by
a line above (`DeclaredAbove`, a condition on the text alone) or new after VAR.
`ReadsExactly`: how `parse` ends against conditions on the text. `VAR $x,,1`
throws `out_of_range`, `ADD $x,,1` does below a line that declares `$x`, and
without one is only left out: `EmptyArgument` asks for an empty argument before
which all variables are known. For a line shorter than its matcher `ReadsExactly`
says only that nothing else leads to `undefined`.

`SessionOK` relates the queue, the mutex and the workers' positions.
`RightText`: what is parsed is the client's text, perhaps with something behind
it, unless the client is in the loop that repeats its header, or the length was
misread as -1, the result of a failed read. While the client is in the loop that
repeats its text this holds up to where the first write was cut (`SafelySent`)
and no further: the loop begins at the same byte each time, so that a text cut
twice has a part of it in it twice, at the promised length. `PrintsTheAnswer`: what is printed
are the first four bytes of the answer, never a length, unless the server's
header was cut. `QueueNotRaced`: `garbage()` and the accepting thread, of which
only one holds the mutex, do not meet, because the process ends before it
accepts a second connection. `QueryEnds`: a query ends whatever the server
does, unless a write was cut, or waits for ever for room in a connection that
the server does not read: the reads are timed, the writes are not.

**Bounds.** Six lines hold two blocks with something in each, a block and a
lock, label and jump in and outside it, and every mispairing of three
delimiters. Three threads are what a circle of joins longer than two, or a
thread started during a barrier, needs. `Half` (half the range of a word) is 2
to 8: wide enough to count to the values used, and in `vm_threads` narrow
enough for repeated SUBs to wrap. `MaxAllocs` and `MaxOut` bound the objects
and the chunks of a run; the step that would exceed them is disabled. With
`MaxThreads`, these are the only artificial limits of the machine, and the
disciplined programs of `vm_locks` do not reach them. Three instructions after the declarations are
what it takes to spoil a variable, use it as an index, and read the result.
Five characters hold two lines, a quoted delimiter, or an instruction with an
empty argument behind another one; the longer texts of two lines hold a
declaration and what nearly is one (a wrong type, no literal, a fourth argument
that is refused or empty) above or below a line with a known, an unknown, a
reserved or a plain name and empty arguments in every order. In `vm_locks` the two
mutexes and the two threads are what a circle of waiting needs: the bodies that
lock again contain the shortest that deadlocks although its locks alternate with
its unlocks.

In `session` a byte has two bits, so that an int has eight, and the lengths used
are read back as they were sent; four bytes that are no header are read as -1,
what a failed read returns, or as 4, the number a client looks for.
`LengthsRead` covers what becomes of each length for every width. One client
blocks and sends 5 bytes, the other does not block and sends an empty text.
`Cuts` are the places where a read or write may stop: 2, which cuts a header, a
text, and a second time what is left of the text where it is repeated. A
direction holds 7 bytes: a header and a text of 5 do not fit, so that a text
waits until its header was read, or for ever, and the repeating loops are
finite; and a text of 5 cut twice does fit, so that the server may read it with
a part of it repeated. Outputs are empty, or as long as what is printed.

**Deadlock** is not checked (`CHECK_DEADLOCK FALSE`). Programs may deadlock
(LOCK twice, or a BARRIER that waits for a thread that waits for a lock), the
bounds above disable steps, a finished parser or program has no step, and
clients and server come to an end. That disciplined programs do not deadlock is
what `DisciplinedEnds` says, that clients do not, `QueryEnds`.

**Fairness.** `FairSpec` of the machine is weak fairness of each thread's steps:
the operating system runs every runnable thread. Nothing stronger is assumed:
mutexes are not fair, so a thread may wait for ever for a mutex that others keep
taking. In the programs of `vm_locks` that `DisciplinedEnds` is about every thread
takes a mutex a bounded number of times: blocks have no jumps, and a main program
that jumps takes no lock. `FairSpec` of a session is weak fairness of the caller and of
the worker of each client. Nothing is assumed of the server: a client's reads
are timed, so that its next step does not depend on the other side, except for
a write that waits for room, which `QueryEnds` excludes by name.

## 4. Proofs

`VirtualMachineProofs` and `ThreadTheorems` prove, for every set of
programs that satisfies `IsCode`, every number of threads and every word size:

| Theorem | States |
|---|---|
| `TypeCorrect` | `Spec => []TypeOK` |
| `Exclusion` | `Spec => []MutualExclusion` |
| `CleanRun` | `Spec => []CleanExit` |
| `FreeNeverReturns` | `Spec => []NoReturnAfterFree` |
| `BarrierReturns` | `Spec => BarrierJoinsAll` |
| `Refinement` | `Spec => IsForkJoin` |
| `NoCircle` | `Spec => []NoJoinCycle` |
| `NoNull` | `Spec => []NoNullDereference` |
| `OutContiguous` | `Spec => []OutNotInterleaved` |
| `DisciplinePays` | `Spec => []DisciplinedIsSafe` |
| `NothingLost` | `Spec => []CountsUpdates` |

Assumptions are three: `HalfAssumption` (a word has positive range),
`BoundsAssumption` (bounds are naturals) and `ProgramsAssumption` (programs are
code). The last one is what `LinkedProgramsAreCode` proves of every program that
the parser makes of a source of numeric variables, so the proofs start where the
parser's end. `IsCode` says what the linkers do: the
steps of a work come in the order in which its `performance()` takes them,
starting and joining are works of their own and only the main program starts,
each OUT locks a mutex of its own before it writes and releases it at its end,
no other work touches that mutex, and a jump of the main program lands on one of
its works.

The argument. `IInv` is inductive: `TypeOK` plus `PcOK` (iterators stay inside
their segment, a child never runs segment 1), `PhaseOK` (only the main thread
destroys), `BarOK` (a barrier's end never exceeds the vector) and `FamilyOK`
(every started child is in the vector or is `th`, `th` is set only while the
main thread stands at a THREAD, a joined thread has ended). `TypeOK` alone is
not inductive: a join must not read past the vector, and `PushBack` must append
a child. The lemmas of `VirtualMachineProofs` take the actions in groups:
`DataStep`, `ThrowStep`, `LookupStep`, `FlowStep`, `CreateStep`,
`PushBackStep`, `BarrierStep`, `EndStep`.

* *CleanRun*: the run becomes `done` only in `DeleteThreads`, when each thread
  of the vector is joined; by `FamilyOK` these are all children and have ended.
* *FreeNeverReturns*: a thread that touches a freed object is a child, because
  the main thread has left its loop, and it is not joined, because it runs. The
  invariant `FreeInv` is that from then on some started thread is not joined:
  when a thread returns from `join`, it is itself running and not the one it
  joined. With one thread not joined, `DeleteThreads` terminates the process.
* *BarrierReturns*: while the main thread iterates, no thread is started, so
  the vector is the one whose end it took; the invariant is that all entries
  before its index are joined.
* *Refinement*: with `Active`, `Started` and `Call`, each action is a `Spawn`,
  `End`, `Return`, `Abort` or a stutter; `Return` needs `CleanRun`'s argument.
* *NoCircle*: the threads stand in the vector in the order of their numbers
  (`InOrder`), and what a barrier has passed is joined (`JoinOK`). Of two threads
  in a circle each waits for the first that is not joined, hence for the same
  one; that one would wait for itself, which `join` refuses.
* *NoNull*: the pool names objects that exist, which are only added to
  (`PoolOK`); a thread that has passed a `target` step of its work holds one, and
  so does a thread whose last step was a `lookup` (`RegsOK`). That the steps
  which dereference come after those is the shape of works in `IsCode`.
* *OutContiguous*: a thread between the lock and the unlock of an OUT is alone in
  it (`OneInOut`), and a child's iterator only moves on, because a jump in a
  block leads nowhere the program describes. So a child whose chunk is followed
  by that of another thread has left that OUT for good (`HandedOn`, with
  `ChunkOK` for where the writer of each chunk is by now). Neither
  is enough alone: the mutex says nothing about a thread that comes back.
* *DisciplinePays*: the invariant of a disciplined program is `Kept`. `Calm`: the
  main program leaves its works only by their end, no child is in `barrier()` or
  behind a dead iterator. `DeclaredInOrder` and `BlocksReady`: the declarations
  that no jump can skip are made, and made before a block that needs them was
  started. `Staged`: before the one BARRIER nothing is joined but what its loop
  has passed, and after it everything is. `Safe`: the process runs or has
  returned. Each way the process can end, an exception, a join of what is joined,
  a joinable thread in the destructor, two OUTs at once, contradicts one of them.
* *NothingLost*: the invariant is `CounterInv`. No two names share an object
  (`PoolInj`), and a thread that is past a `target` step and holds the object of a
  name is in a work that changes that name (`HoldsChanged`), so only a declaration
  or a decrement of the counter writes to it. A child holds the mutexes that guard
  its work (`HoldsGuards`), so by `MutualExclusion` at most one is in a decrement,
  and between its `copy` and its `store` the value it read still is the counter's
  (`Midway`). The main program neither skips the declaration nor starts a thread
  before it (`DeclaredFirst`). Each store therefore takes one from the counter and
  adds one element to `Made`, the set of the decrements that threads have passed;
  `Wrap(Wrap(a) - 1) = Wrap(a - 1)` carries this through overflow. Neither the
  mutex alone nor the count alone is inductive.

`ValueTheorems` proves, for every set of programs that is typed as the parser
leaves it (`ProgramsAssumption` of `ValueProperties`), every word size, width of
an int (`IntAssumption`) and alphabet (`CharAssumption`):

| Theorem | States | Invariant |
|---|---|---|
| `ValuesTyped` | `Spec => []TypeOK` | `TypeOK` is inductive itself |
| `StraightFinds` | `Spec => []FindsVariables` | `FoundInv`: without jumps the pools hold everything declared above the iterator |
| `TagsKept` | `Spec => []TagsFollowTypes` | `TagsInv`: tag and content of every Number in a separated program, and no mixed reads so far |
| `StringsSafe` | `Spec => []StaysInStrings` | `StringsInv`: a string keeps the length of its declared text, since a write replaces one character |

`ParserTheorems` proves, for every source and every set of shapes with lines
long enough for their matchers (`ShapesAssumption`):

| Theorem | States |
|---|---|
| `ContextFollowsWorks` | `PSpec => []ParserTypeOK` |
| `DeclaredFirst` | `PSpec => []DeclaredBeforeUse` |
| `OperandsFit` | `PSpec => []OperandsTyped` |

The invariant `ParserInv` is their conjunction with the types of the variables.
A step adds at most one work. `Builds` collects what acceptance has shown of a
line when it does: its filters found its variables in the context, `Match`
looked at the operands it looks at, and `Wraps` evaluated the others. What is
written later does not change the declarations before a work, and a dropped line
changes neither context nor works. Without the exact relation of context and
works, `DeclaredBeforeUse` is not inductive.

Of the linkers it proves, for the same sources:

| Theorem | States |
|---|---|
| `LinkerInvariant` | `PSpec => []LinkInv`: the segments are what `LinkAll` makes of the works |
| `RefusedExactly` | `PSpec => []RefusesExactly` |
| `OrderIsKept` | `PSpec => []KeepsOrder` |
| `MutexesAreScoped` | `PSpec => []OneMutexPerScope` |
| `JumpsAreLinked` | `PSpec => []JumpsToLastLabel` |

Each linker is a loop, and each loop has an invariant of its own over the turns
it has taken. `LabelMapIs`: labelMap holds the last label seen so far of each
name. `LockInv`: the names in the lock map are those locked so far, each with a
place that is one of its own, and the linker has thrown exactly if an UNLOCK so
far came before its LOCK. `ThreadInv`: the works seen so far pair up if nothing
was thrown, the rebuilt main program and each closed block list their members
among them in order (`Lists`, with `Rank` for the place of a work), the open
buffer those of the block to come, and each closed block was linked without error
(`IsSegment`). What counting delimiters before a line says of the line and what
the flag of the lambda says of it are then the same thing, turn by turn.

`CodeTheorems` proves, for the same sources:

| Theorem | States |
|---|---|
| `LinkedProgramsAreCode` | `PSpec => []LinkedIsCode` |

It joins three arguments. A script is like its work (`Scripted`): `Reads` is kept
by putting sequences of steps together and by flattening a sequence of them, so
that each `copy` follows its lookup wherever the operands stand, and each kind of
work adds its own steps around them. A work of a representable source can be given
a script (`Represented`): its variables are declared and its operands are words,
by `OperandsTyped`, and it has as many as its script takes, by `CountInv`, which
matching implies. And what a linker places in a work is in the program
(`PlacedIn`): the segment of a THREAD exists because its block was closed, the
mutex of a LOCK is the place of a lock work, hence never that of an OUT, and the
target of a jump is in the main program or nowhere.

`TokeniserTheorems` proves, for texts of every length over every set of
characters and for every set of instruction names and types
(`TokeniserAssumption`: texts are sequences of characters, and so is the key of
the current instruction):

| Theorem | States |
|---|---|
| `CutWhereFree` | `TSpec => []CutsOutsideQuotes` |
| `ArgumentsStandInText` | `TSpec => []ArgumentsWhole` |
| `ReadToTheEnd` | `TSpec => []ReadsExactly` |

The code keeps one flag, and the properties count the quotes before a position.
Two invariants of the loop bring these together. `QuotesSeen`: nothing is embraced
exactly where the count is even; otherwise the open quote is the last one seen, and
the loop has failed exactly if a quote so far met one of the other kind. A quote
changes `Free`, any other character keeps it. `PiecesSeen`: the pieces so far are
those that end at the cuts so far, in order, and `last` is where the next one
starts. Together they give what `Split` returns (`Splits`). Then `Parts`: a part of
a text between two free positions has the quotes, the pairing and the cuts that
the text has there, shifted; a piece is such a part (`PieceFree`), and a split
after the first one cannot throw. `Units` says what `parseUnit` makes of a line,
given the context: `ArgumentsOf` that its first bad argument is empty exactly when
some argument is and the filter takes every variable before it (`EmptyIn`),
`DeclaredIs` that VAR adds exactly the name that the line declares. `NextLine`
counts: the line that is read is the piece whose number follows those read, and
the lines above it are those read.

The invariant `TokeniserInv` adds to `ArgumentsWhole` that the lines left are the
last pieces of the text and, of the lines before them (`ReadUpTo`), that none is
blank or has an empty argument that is reached, and that what they declare is
exactly the context. Without the first part `ReadsExactly` says nothing of the
lines that are gone when `read` is reached; without the second neither property is
inductive, because whether a variable is known to the filter is a matter of the
context, and in the properties a matter of the text.

`SessionTheorems` proves of lengths, for every width of a byte (`ByteBitsAssumption`):

| Theorem | States |
|---|---|
| `ReadsBack` | `ReadInt(WriteInt(v)) = v` iff above every byte of v whose sign bit is set there are ones only (`Survives`) |
| `MisreadIsNegative` | what does not come back has its sign bit set |
| `BitsGiveBack` | `NumberOf(BitsOf(n)) = n` for every n that an int holds (`Fits`) |
| `NegativeIsBelow` | bits with the sign bit set are a number below zero |
| `LengthsRead` | a length that is written and read comes back as it was, or below zero |

The first two are about functions from places to bits. The others connect them
with numbers: `Halves` and `NumberAbove` are recursive functions over the places,
from the low end and from the high end, so that no powers of two are needed. That
such a function exists is itself proved (`Iterated` in `IterationTheorems`, and
`Loop` for the linkers and the tokeniser), with induction from the well-foundedness of the naturals
(`NatSet`); the induction theorems of the library cannot be used, since they take
an operator as a parameter.

`SessionTheorems` proves of clients and server, for any number of clients, any queries whose sizes an
int holds (`QueriesAssumption`), outputs (`OutputsAssumption`: sequences of
sizes), buffers and cuts, whatever four misaligned bytes may be read as
(`NamesAssumption`: clients have none of the four names that mean something
else):

| Theorem | States |
|---|---|
| `QueueFollowsWorkers` | `Spec => []SessionOK` |
| `QueueSafe` | `Spec => []QueueNotRaced` |
| `AnswerPrinted` | `Spec => []PrintsTheAnswer` |
| `TextParsed` | `Spec => []RightText` |

* *QueueFollowsWorkers, QueueSafe*: `IInv` is `ClientHalf` (the positions of
  callers and workers) with `EndsFollow` (a worker's descriptor is open or closed)
  and `ServerHalf` (the queue and the mutex follow the workers; as long as the
  acceptor has not left its first `Worker::start`, no worker has begun to serve).
  `QueueNotRaced` is not inductive without the last one.
* *AnswerPrinted*: the stream invariant `StreamInv` says what is on its way to a
  client: nothing before the worker writes; then, unless the header was cut, a
  header and a beginning of the answer (`Unread`), and after the header was read a
  beginning of the answer alone (`HeaderRead`). A client that has closed its end
  reads no more (`ClosedEnds`), so bytes lost to it do not matter. Hence a read
  of four bytes is first the header, then the first four of the answer.
* *TextParsed*: `InInv` says the same of the other direction. As long as the
  server's end is open and no header was cut (`Live`), there is nothing on the
  way before the client's header, then the header followed by what was sent of
  the text, then, when the header was taken, what was sent of the text alone
  (`Incoming`). What was sent of a text (`SentText`) is nothing, a beginning up to
  the first cut with pieces of the rest behind it, or all. The length that the
  worker holds is the text's or negative, by `LengthsRead`; a read of that many
  bytes either fails and returns -1, or takes exactly the text. `Parsed` adds to
  `RightText` that the client is past its header, and, if it has not begun to
  send its text, that the text is empty: otherwise `SendText` could set `wrote`
  after the text was taken.

Only model-checked:

* `DisciplinedEnds` and `QueryEnds`: liveness under fairness is outside the
  proof system.

Every safety invariant, action property and refinement that a passing run checks
is the statement of a theorem.

## 5. Where code and documents disagree

Six runs expect a violation; `PROJECT.json` quotes the lines.

1. `doc_vector`: `RuntimeImpl::thread` says it may only be called by the main
   thread and is thread-safe for that reason, but a block that runs BARRIER
   iterates the vector while the main program appends to it.
2. `doc_jmpnz`: JMPNZ always jumps.
3. `doc_jump_in_block`: a jump in a block follows an iterator into the linker's
   buffer, not into the works that the thread runs.
4. `doc_content`: not all content becomes works. ASSIGN between two different
   variables is refused, because the map entries are compared with their keys,
   and a block without THREAD_END disappears without an error. `RefusesExactly`
   does not show that: an unclosed block is not among what the linkers refuse.
5. `doc_values`: DIV multiplies, ADD adds to the old value of its first
   parameter, a string's value is the size given before its text, and a
   character's is whatever was there.
6. `doc_client`: `queryCompile` returns true for a query that no server saw.

Further ones, seen while modelling and kept in the model, have no run of their
own: a division by zero is skipped without a report (`README.md:70`) and the
operand tested is the dividend; ASSIGN takes no constant (`README.md:71`); a
negative literal is no number.

## 6. What is not modelled

* In `Parser`, lines shorter than their matcher (`ShapesAssumption`): `match`
  reads past the tokens, and what follows depends on the memory behind them. In
  `Tokeniser` such a line may end the run as `undefined` or be read like another.
* In `Tokeniser`, works and what builders other than VAR's refuse: `Parser`
  starts from lines already cut and models these.
* What an overflow does. `queryCompile` copies the text without the zero at its
  end (`MISClient.cpp:12-13`), and the constructor of the socket copies on, up to
  some zero, into 128 bytes (`TCPSocket.cpp:44`): the model lets the client's
  process end there (`Overrun`) or go on as if the address had fitted.
* Which error a `send` on a socket that was never connected meets: POSIX's
  ENOTCONN is a return of -1, Linux raises SIGPIPE, and `Writes` allows both. The
  trace of `doc_client` may take the first; with a connection that was reset, or a
  worker of the server that failed, `queryCompile` returns the same wrong true.
* `~Parser`: its loop deletes the same builder again and again and is undefined
  from the second pass on. Who owns works and tokens is left out with it.
* `MISServer::terminated`: `main` reaches it only after `start()`, which ends the
  process. For the same reason at most one worker ever starts, and `getHistory`
  and the console are left out.
* The second overload of `queryCompile`, which is the same code, and several
  queries of one client object.
* What two doubles compare to, and threads together with strings and reals:
  `VirtualMachine` has threads and numeric variables, `Values` has all types and
  one thread.
* `trim`, whose result is not used, and the templates of `bit.cpp` and `bit.h`,
  which nothing calls.
* Options, addresses and statistics of sockets; reading files, command lines and
  `Log`: pure I/O.

## 7. Plan

What could come next, in this order.

1. Strings and reals as objects of `VirtualMachine`, whose lookups are the same
   two steps, so that `values` and `vm_threads` become one model.
