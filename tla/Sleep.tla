-------------------------------- MODULE Sleep --------------------------------
(***************************************************************************)
(* The program sleep of lab 1, and the system call under it as lab 4 has   *)
(* it: sys_sleep waits for n ticks of the clock, then prints the return    *)
(* addresses on its kernel stack with backtrace().                         *)
(*                                                                         *)
(* ticks is an unsigned int that wraps, shared with the clock interrupt,   *)
(* which runs on another CPU and wakes the sleepers; tickslock protects    *)
(* it.  Every slot of the process table runs one sleep after another.      *)
(***************************************************************************)
EXTENDS Integers, Sequences

CONSTANTS
    Procs,      \* slots of the process table
    NoProc,     \* nobody holds the lock
    W,          \* number of values of an unsigned int
    LAG,        \* ticks a woken process may wait for a CPU and for tickslock
    PGSIZE,     \* words of the kernel stack
    Layouts,    \* frame pointers of Calls, as a compiler may lay the frames out
    S0          \* what user programs have in register s0

\* The calls on the kernel stack while backtrace runs, innermost first.
Calls == <<"backtrace", "sys_sleep", "syscall", "usertrap">>

Ints == -(W \div 2) .. W \div 2 - 1

ASSUME NoProcAssumption == NoProc \notin Procs
ASSUME TickAssumption == W \in Nat /\ W >= 2 /\ LAG \in Nat /\ LAG <= W \div 2

\* The kernel stack is the page from PGSIZE to TOP.
TOP == 2 * PGSIZE

\* It is entered at the top; a frame has room for ra and the caller's fp,
\* and all fit into the page.
ASSUME FrameAssumption ==
    /\ PGSIZE \in Nat /\ S0 \in Nat
    /\ Layouts \subseteq [1 .. 4 -> Nat]
    /\ \A f \in Layouts :
         /\ f[4] = TOP /\ \A k \in 1 .. 3 : f[k] + 2 <= f[k + 1]
         /\ PGSIZE + 2 <= f[1]

VARIABLES
    ticks,
    lock,       \* the holder of tickslock
    pc,
    n, ticks0,  \* locals of sys_sleep
    killed,     \* p->killed
    \* History, for the properties only:
    slept,      \* ticks since ticks0 was read, at most W
    late,       \* ticks since the process was woken, while it waits for a CPU
    printed     \* the lines of this backtrace

time == <<ticks, lock, n, ticks0, killed, slept, late>>
vars == <<time, pc, printed>>

Init ==
    /\ ticks = 0 /\ lock = NoProc
    /\ pc = [p \in Procs |-> "user"]
    /\ n = [p \in Procs |-> 0] /\ ticks0 = [p \in Procs |-> 0]
    /\ killed = [p \in Procs |-> FALSE]
    /\ slept = [p \in Procs |-> 0] /\ late = [p \in Procs |-> 0]
    /\ printed = [p \in Procs |-> <<>>]

Goto(p, where) == pc' = [pc EXCEPT ![p] = where]

-----------------------------------------------------------------------------
(* sys_sleep.                                                              *)

\* The argument as it is used.
Clamped(arg) == IF arg < 0 THEN 0 ELSE arg

\* The program calls sleep(arg).
Start(p, arg) ==
    /\ pc[p] = "user"
    /\ n' = [n EXCEPT ![p] = Clamped(arg)]
    /\ Goto(p, "acquire")
    /\ UNCHANGED <<ticks, lock, ticks0, killed, slept, late, printed>>

Acquire(p) ==
    /\ pc[p] = "acquire" /\ lock = NoProc
    /\ lock' = p
    /\ ticks0' = [ticks0 EXCEPT ![p] = ticks]
    /\ slept' = [slept EXCEPT ![p] = 0]
    /\ Goto(p, "test")
    /\ UNCHANGED <<ticks, n, killed, late, printed>>

\* The slip of comparing points in time, and the test on the time elapsed:
\* unsigned, so right across the wrap of ticks.
Before(p) == ticks < (ticks0[p] + n[p]) % W
TooEarly(p) == (ticks - ticks0[p]) % W < n[p]

Wait(p) ==
    /\ pc[p] = "test" /\ TooEarly(p)
    /\ Goto(p, "check")
    /\ UNCHANGED <<time, printed>>

\* The loop ends: release.
Woken(p) ==
    /\ pc[p] = "test" /\ ~TooEarly(p)
    /\ lock' = NoProc
    /\ Goto(p, "trace")
    /\ UNCHANGED <<ticks, n, ticks0, killed, slept, late, printed>>

\* The locals of sys_sleep are gone.
Forget(p) ==
    /\ n' = [n EXCEPT ![p] = 0] /\ ticks0' = [ticks0 EXCEPT ![p] = 0]
    /\ slept' = [slept EXCEPT ![p] = 0] /\ late' = [late EXCEPT ![p] = 0]

\* return -1: usertrap will find killed set, and the process exits.
GiveUp(p) ==
    /\ pc[p] = "check" /\ killed[p]
    /\ lock' = NoProc
    /\ Forget(p)
    /\ Goto(p, "returned")
    /\ UNCHANGED <<ticks, killed, printed>>

\* The slip of releasing tickslock before sleep.
Dropped == NoProc
StillHeld == lock

\* killed() has returned 0; another CPU may set it before p sleeps.
NotKilled(p) ==
    /\ pc[p] = "check" /\ ~killed[p]
    /\ lock' = StillHeld
    /\ Goto(p, "sleep")
    /\ UNCHANGED <<ticks, n, ticks0, killed, slept, late, printed>>

\* sleep(&ticks, &tickslock) takes p->lock before it releases tickslock.
Suspend(p) ==
    /\ pc[p] = "sleep"
    /\ lock' = NoProc
    /\ Goto(p, "asleep")
    /\ UNCHANGED <<ticks, n, ticks0, killed, slept, late, printed>>

\* sleep returns when it has tickslock again.
Resume(p) ==
    /\ pc[p] = "woken" /\ lock = NoProc
    /\ lock' = p
    /\ late' = [late EXCEPT ![p] = 0]
    /\ Goto(p, "test")
    /\ UNCHANGED <<ticks, n, ticks0, killed, slept, printed>>

-----------------------------------------------------------------------------
(* The clock interrupt, which waits for tickslock, and kill().             *)

InSleep == {p \in Procs : pc[p] \in {"test", "check", "sleep", "asleep", "woken"}}

Clock ==
    /\ lock = NoProc
    /\ \A p \in Procs : pc[p] = "woken" => late[p] < LAG
    /\ ticks' = (ticks + 1) % W
    /\ slept' = [p \in Procs |-> IF p \in InSleep /\ slept[p] < W THEN slept[p] + 1 ELSE slept[p]]
    /\ late' = [p \in Procs |-> IF pc[p] = "woken" THEN late[p] + 1 ELSE 0]
    /\ pc' = [p \in Procs |-> IF pc[p] = "asleep" THEN "woken" ELSE pc[p]]
    /\ UNCHANGED <<lock, n, ticks0, killed, printed>>

kill(p) ==
    /\ pc[p] # "user" /\ ~killed[p]
    /\ killed' = [killed EXCEPT ![p] = TRUE]
    /\ late' = [late EXCEPT ![p] = IF pc[p] = "asleep" THEN 0 ELSE @]
    /\ Goto(p, IF pc[p] = "asleep" THEN "woken" ELSE pc[p])
    /\ UNCHANGED <<ticks, lock, n, ticks0, slept, printed>>

-----------------------------------------------------------------------------
(* backtrace() reads the process's own kernel stack, which nobody else     *)
(* writes.  The word below a frame pointer is the return address, the one  *)
(* below that the frame pointer of the caller; usertrap is entered from    *)
(* the trampoline, with the s0 of the user program.                        *)

PGROUNDDOWN(a) == a - (a % PGSIZE)

\* The call whose frame pointer is a, 0 for an address that is none's, and
\* the frame pointer saved in the frame of call k.
CallAt(f, a) == IF \E k \in 1 .. 4 : f[k] = a THEN CHOOSE k \in 1 .. 4 : f[k] = a ELSE 0
CallersFp(f, k) == CASE k = 0 -> 0 [] k \in 1 .. 3 -> f[k + 1] [] k = 4 -> S0

\* The slip of >=, and the test of the loop.
ToTheTop(a) == a >= PGROUNDDOWN(a) /\ a > 0
InPage(a) == a > PGROUNDDOWN(a)

\* The frame pointer in register s0 inside backtrace.
r_fp(f) == f[1]

\* The lines printed, as the calls whose return addresses they are.
Lines(f) ==
    LET From[a \in Nat] == IF InPage(a) THEN <<CallAt(f, a)>> \o From[CallersFp(f, CallAt(f, a))]
                           ELSE <<>>
    IN  From[r_fp(f)]

\* sys_sleep calls backtrace and returns 0.
Backtrace(p) ==
    /\ pc[p] = "trace"
    /\ \E f \in Layouts : printed' = [printed EXCEPT ![p] = Lines(f)]
    /\ Forget(p)
    /\ Goto(p, "returned")
    /\ UNCHANGED <<ticks, lock, killed>>

\* The program exits, or usertrap sees killed and ends it; the slot gets
\* another process.
Exit(p) ==
    /\ pc[p] = "returned"
    /\ killed' = [killed EXCEPT ![p] = FALSE]
    /\ printed' = [printed EXCEPT ![p] = <<>>]
    /\ Goto(p, "user")
    /\ UNCHANGED <<ticks, lock, n, ticks0, slept, late>>

-----------------------------------------------------------------------------
Run(p) ==
    \/ Wait(p) \/ Woken(p) \/ GiveUp(p) \/ NotKilled(p) \/ Suspend(p)
    \/ Backtrace(p) \/ Exit(p)

Next ==
    \/ Clock
    \/ \E p \in Procs :
         \/ Acquire(p) \/ Resume(p) \/ Run(p) \/ kill(p)
         \/ \E arg \in Ints : Start(p, arg)

Spec == Init /\ [][Next]_vars

\* The clock keeps ticking and a process keeps getting a CPU.  tickslock is
\* free again and again, and whoever spins for it gets it at some time.
FairSpec ==
    /\ Spec
    /\ SF_vars(Clock)
    /\ \A p \in Procs : WF_vars(Run(p)) /\ SF_vars(Acquire(p) \/ Resume(p))

-----------------------------------------------------------------------------
(* Properties.                                                             *)

\* sleep(n) returns after n ticks or more, never before, also when ticks has
\* wrapped in between; and it is late by no more than the time the process
\* waited for a CPU.
SleepsOnTime ==
    \A p \in Procs :
      pc[p] = "trace" => n[p] <= slept[p] /\ slept[p] <= n[p] + LAG

\* No wakeup is lost: a process that is asleep has ticks left to wait for,
\* because the test, the going to sleep and the clock exclude each other.
NeverAsleepDue ==
    \A p \in Procs : pc[p] = "asleep" => slept[p] < n[p]

\* backtrace prints the return addresses of backtrace, sys_sleep and syscall,
\* in this order, and stops at usertrap, whose saved s0 belongs to the user
\* program: it never follows it out of the kernel stack.
BacktraceExact ==
    \A p \in Procs : pc[p] = "returned" =>
      printed[p] = <<1, 2, 3>> \/ (killed[p] /\ printed[p] = <<>>)

\* Every sleep ends, with or without kill, and whatever its argument is.
SleepEnds == \A p \in Procs : pc[p] = "acquire" ~> pc[p] = "user"
=============================================================================
