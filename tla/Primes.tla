-------------------------------- MODULE Primes --------------------------------
(***************************************************************************)
(* The prime sieve of lab 1: a chain of processes joined by pipes.  The    *)
(* first writes 2 .. N; every other one prints the first number it reads   *)
(* and passes on those that the number does not divide.                    *)
(*                                                                         *)
(* Process 0 is main() and process k + 1 the child of process k.  Process  *)
(* k creates pipe k, writes to it, and its child reads from it.  A step is *)
(* one system call, or closes that follow one another.  fork copies every  *)
(* open descriptor: who has closed what decides when a reader meets the    *)
(* end of the file, and so whether the chain ends.                         *)
(***************************************************************************)
EXTENDS Integers, Sequences

CONSTANTS
    N,          \* the last number: 280 in the program
    MaxProc,    \* the last process the process table has room for
    Cap,        \* numbers that fit into a pipe: 128
    ForkFails   \* whether fork may fail for want of memory

ASSUME SieveAssumption ==
    /\ N \in Nat /\ N >= 2
    /\ MaxProc \in Nat /\ Cap \in Nat \ {0}
    /\ ForkFails \in BOOLEAN

Procs == 0 .. MaxProc

\* The two ends of the pipe that process k creates.
R(k) == <<k, "read">>
W(k) == <<k, "write">>

VARIABLES
    pc,         \* where each process is
    fds,        \* the pipe ends each process has open
    pipe,       \* the numbers in each pipe
    next,       \* i in main()
    prime, num, \* the variables of handle()
    printed,    \* what has appeared on the console
    failed,     \* some fork has failed
    lost        \* some write has found no reader

vars == <<pc, fds, pipe, next, prime, num, printed, failed, lost>>

Init ==
    /\ pc = [k \in Procs |-> IF k = 0 THEN "pipe" ELSE "none"]
    /\ fds = [k \in Procs |-> {}]
    /\ pipe = [k \in Procs |-> <<>>]
    /\ next = 2
    /\ prime = [k \in Procs |-> 0] /\ num = [k \in Procs |-> 0]
    /\ printed = <<>>
    /\ failed = FALSE /\ lost = FALSE

Goto(k, l) == pc' = [pc EXCEPT ![k] = l]

-----------------------------------------------------------------------------
(* Pipes, as the kernel implements them.                                   *)

Open(end) == \E k \in Procs : end \in fds[k]

\* read() returns a number ...
Read(j) == pipe[j] # <<>> /\ pipe' = [pipe EXCEPT ![j] = Tail(@)]

\* ... or 0, once the pipe is empty and every write end is closed.
AtEnd(j) == pipe[j] = <<>> /\ ~Open(W(j))

\* write() waits for room, or fails when every read end is closed; the
\* program does not look at its result.
Write(j, n) ==
    \/ /\ Open(R(j)) /\ Len(pipe[j]) < Cap
       /\ pipe' = [pipe EXCEPT ![j] = Append(@, n)]
       /\ UNCHANGED lost
    \/ /\ ~Open(R(j))
       /\ lost' = TRUE
       /\ UNCHANGED pipe

-----------------------------------------------------------------------------
(* What main() and handle() have in common.                                *)

Pipe(k) ==
    /\ pc[k] = "pipe"
    /\ fds' = [fds EXCEPT ![k] = @ \cup {R(k), W(k)}]
    /\ Goto(k, "fork")
    /\ UNCHANGED <<pipe, next, prime, num, printed, failed, lost>>

Fork(k) ==
    /\ pc[k] = "fork"
    /\ k < MaxProc
    /\ fds' = [fds EXCEPT ![k + 1] = fds[k]]
    /\ pc' = [pc EXCEPT ![k] = "drop", ![k + 1] = "start"]
    /\ UNCHANGED <<pipe, next, prime, num, printed, failed, lost>>

\* fork returns -1: exit(1), which closes everything.
ForkFail(k) ==
    /\ pc[k] = "fork"
    /\ ForkFails \/ k = MaxProc
    /\ fds' = [fds EXCEPT ![k] = {}]
    /\ Goto(k, "done")
    /\ failed' = TRUE
    /\ UNCHANGED <<pipe, next, prime, num, printed, lost>>

\* The parent closes the read end of its pipe.
Drop(k) ==
    /\ pc[k] = "drop"
    /\ fds' = [fds EXCEPT ![k] = @ \ {R(k)}]
    /\ Goto(k, IF k = 0 THEN "send" ELSE "read")
    /\ UNCHANGED <<pipe, next, prime, num, printed, failed, lost>>

Close(k) ==
    /\ pc[k] = "close"
    /\ fds' = [fds EXCEPT ![k] = @ \ {W(k)}]
    /\ Goto(k, "wait")
    /\ UNCHANGED <<pipe, next, prime, num, printed, failed, lost>>

\* The slip of not waiting, and what wait(0) waits for.
NoWait(k) == TRUE
ChildDone(k) == pc[k + 1] = "done"

\* wait(0), then exit(0).
Wait(k) ==
    /\ pc[k] = "wait"
    /\ ChildDone(k)
    /\ fds' = [fds EXCEPT ![k] = {}]
    /\ Goto(k, "done")
    /\ UNCHANGED <<pipe, next, prime, num, printed, failed, lost>>

-----------------------------------------------------------------------------
(* main() of the parent.                                                   *)

\* The condition of the for loop.
More(i) == i <= N

Send ==
    /\ pc[0] = "send"
    /\ More(next)
    /\ Write(0, next)
    /\ next' = next + 1
    /\ UNCHANGED <<pc, fds, prime, num, printed, failed>>

Sent ==
    /\ pc[0] = "send"
    /\ ~More(next)
    /\ Goto(0, "close")
    /\ UNCHANGED <<fds, pipe, next, prime, num, printed, failed, lost>>

-----------------------------------------------------------------------------
(* handle() of process k, which reads from pipe k - 1.                     *)

\* The slips of keeping the write end of the pipe it reads from, and of
\* closing the end it reads from in its place.
KeepWriteEnd(k) == {R(k - 2)}
CloseInput(k) == {R(k - 1), R(k - 2)}

\* What a child closes first: the write end of the pipe it reads from, and
\* its parent's input.
NotNeeded(k) == {W(k - 1), R(k - 2)}

Start(k) ==
    /\ pc[k] = "start"
    /\ fds' = [fds EXCEPT ![k] = @ \ NotNeeded(k)]
    /\ Goto(k, "first")
    /\ UNCHANGED <<pipe, next, prime, num, printed, failed, lost>>

First(k) ==
    /\ pc[k] = "first"
    /\ Read(k - 1)
    /\ prime' = [prime EXCEPT ![k] = Head(pipe[k - 1])]
    /\ Goto(k, "print")
    /\ UNCHANGED <<fds, next, num, printed, failed, lost>>

\* Nothing to sieve: close(nums), return, exit(0).
Nothing(k) ==
    /\ pc[k] = "first"
    /\ AtEnd(k - 1)
    /\ fds' = [fds EXCEPT ![k] = {}]
    /\ Goto(k, "done")
    /\ UNCHANGED <<pipe, next, prime, num, printed, failed, lost>>

ShowPrime(k) ==
    /\ pc[k] = "print"
    /\ printed' = Append(printed, prime[k])
    /\ Goto(k, "pipe")
    /\ UNCHANGED <<fds, pipe, next, prime, num, failed, lost>>

\* The slip of passing everything on, and the sieve.
PassAll(n, p) == TRUE
Passes(n, p) == n % p # 0

Receive(k) ==
    /\ pc[k] = "read"
    /\ Read(k - 1)
    /\ LET n == Head(pipe[k - 1])
       IN  /\ num' = [num EXCEPT ![k] = n]
           /\ Goto(k, IF Passes(n, prime[k]) THEN "write" ELSE "read")
    /\ UNCHANGED <<fds, next, prime, printed, failed, lost>>

EndOfInput(k) ==
    /\ pc[k] = "read"
    /\ AtEnd(k - 1)
    /\ fds' = [fds EXCEPT ![k] = @ \ {R(k - 1)}]
    /\ Goto(k, "close")
    /\ UNCHANGED <<pipe, next, prime, num, printed, failed, lost>>

PassOn(k) ==
    /\ pc[k] = "write"
    /\ Write(k, num[k])
    /\ Goto(k, "read")
    /\ UNCHANGED <<fds, next, prime, num, printed, failed>>

-----------------------------------------------------------------------------
Parent == Send \/ Sent

Handle(k) ==
    \/ Start(k) \/ First(k) \/ Nothing(k) \/ ShowPrime(k)
    \/ Receive(k) \/ EndOfInput(k) \/ PassOn(k)

Both(k) == Pipe(k) \/ Fork(k) \/ ForkFail(k) \/ Drop(k) \/ Close(k) \/ Wait(k)

Step(k) == Both(k) \/ (k = 0 /\ Parent) \/ (k > 0 /\ Handle(k))

Next == \E k \in Procs : Step(k)

Spec == Init /\ [][Next]_vars

\* xv6 schedules every runnable process; a process waiting for a pipe or a
\* child is woken when it can go on.
FairSpec == Spec /\ \A k \in Procs : WF_vars(Step(k))

-----------------------------------------------------------------------------
(* Properties.                                                             *)

IsPrime(n) == n > 1 /\ \A d \in 2 .. n - 1 : n % d # 0

PrimesBelow(n) == {q \in 2 .. n - 1 : IsPrime(q)}

Shown(n) == {printed[i] : i \in 1 .. n}

\* The console shows primes only, in ascending order and without a gap,
\* although every one is printed by a process of its own; also when a fork
\* has failed and the chain is cut short.
InOrder ==
    \A i \in 1 .. Len(printed) :
        IsPrime(printed[i]) /\ Shown(i - 1) = PrimesBelow(printed[i])

\* When main() exits, and the shell prints its prompt, all the primes have
\* been printed, unless a fork has failed.
AllPrintedAtExit == pc[0] = "done" /\ ~failed => Shown(Len(printed)) = PrimesBelow(N + 1)

\* A number is written to a pipe without a reader only when a fork has
\* failed: no process closes the end it reads from, or leaves, while its
\* input may still bring numbers.
NothingLost == lost => failed

\* Every process ends, and main() with it: no reader waits for the end of a
\* pipe of which somebody has kept a write end, no writer for room in a pipe
\* that nobody reads, also when a fork has failed somewhere in the chain.
AllEnd == <>[](pc[0] = "done" /\ \A k \in Procs : pc[k] \in {"none", "done"})
=============================================================================
