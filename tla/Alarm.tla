-------------------------------- MODULE Alarm --------------------------------
(***************************************************************************)
(* The alarm of lab 4: sigalarm(n, fn) asks the kernel to call fn in the   *)
(* process after every n ticks of CPU time, sigreturn() ends fn and puts   *)
(* the interrupted registers back.                                         *)
(*                                                                         *)
(* One process slot over any number of lives: allocproc, running in user   *)
(* space, exit, freeproc, and again.  The alarm fields are private to the  *)
(* process, and a timer interrupt from user space or a system call runs to *)
(* its end before the process takes another step in user space, so each is *)
(* one action; allocproc's allocations are steps of their own, because the *)
(* rest of the kernel takes and returns pages in between.                  *)
(*                                                                         *)
(* A user context is what the trapframe holds while the process is in the  *)
(* kernel: the program counter, a0, and all other registers as one value.  *)
(***************************************************************************)
EXTENDS Integers, FiniteSets

CONSTANTS
    Main,       \* code addresses of the program proper
    Handlers,   \* code addresses of alarm handlers
    Vals,       \* contents of the registers
    Junk,       \* what a page holds that kalloc has just handed out
    Intervals,  \* arguments of sigalarm
    MaxCount,   \* bound on tickcount, for an alarm that is counted past
    NPages      \* physical pages

ASSUME CodeAssumption == Main # {} /\ Handlers # {} /\ Main \cap Handlers = {}
ASSUME ValsAssumption == {0, -1} \subseteq Vals /\ Junk \notin Vals \cup Main \cup Handlers
ASSUME IntervalAssumption == Intervals \subseteq Int /\ NPages \in Nat /\ MaxCount \in Nat

VARIABLES
    state,              \* p->state, with allocproc's progress
    hastf, hasorig,     \* trapframe and originaltrapframe are not null
    tf,                 \* *p->trapframe: the user context
    orig,               \* *p->originaltrapframe
    ticks, tickcount,   \* p->ticks, p->tickcount
    handler, run,       \* p->handler, p->run
    free,               \* pages on kmem.freelist
    others,             \* pages the rest of the kernel has
    \* History, for the properties only:
    depth,              \* alarms delivered and not yet ended by sigreturn
    saved,              \* the context the outermost of them interrupted
    asked,              \* this life of the process has called sigalarm
    since,              \* ticks that counted since sigalarm or the last alarm
    cut                 \* sigalarm chose an interval that tickcount had reached

alarm == <<ticks, tickcount, handler, run>>
memory == <<state, hastf, hasorig, free, others>>
history == <<depth, saved, asked, since, cut>>
vars == <<memory, tf, orig, alarm, history>>

Contexts == [epc : Main \cup Handlers, a0 : Vals, regs : Vals]

JunkContext == [epc |-> Junk, a0 |-> Junk, regs |-> Junk]

States == {"unused", "tf", "orig", "pagetable", "running", "zombie"}

TypeOK ==
    /\ state \in States
    /\ hastf \in BOOLEAN /\ hasorig \in BOOLEAN
    /\ tf \in Contexts \cup {JunkContext}
    /\ orig \in Contexts \cup {JunkContext}
    /\ ticks \in Nat /\ tickcount \in Nat
    /\ handler \in Handlers
    /\ run \in {0, 1}
    /\ free \in Nat /\ others \in Nat
    /\ depth \in Nat
    /\ saved \in Contexts \cup {JunkContext}
    /\ asked \in BOOLEAN
    /\ since \in Nat
    /\ cut \in BOOLEAN

Init ==
    /\ state = "unused"
    /\ hastf = FALSE /\ hasorig = FALSE
    /\ tf = JunkContext /\ orig = JunkContext
    /\ ticks = 0 /\ tickcount = 0 /\ run = 0
    /\ handler \in Handlers
    /\ free = NPages /\ others = 0
    /\ depth = 0 /\ saved = JunkContext /\ asked = FALSE /\ since = 0
    /\ cut = FALSE

-----------------------------------------------------------------------------
(* allocproc and freeproc.                                                 *)

\* The rest of the kernel calls kalloc and kfree.
OthersAlloc ==
    /\ free > 0
    /\ free' = free - 1 /\ others' = others + 1
    /\ UNCHANGED <<state, hastf, hasorig, tf, orig, alarm, history>>

OthersFree ==
    /\ others > 0
    /\ free' = free + 1 /\ others' = others - 1
    /\ UNCHANGED <<state, hastf, hasorig, tf, orig, alarm, history>>

\* The slip of returning only the trapframe.
TrapframeOnly == IF hastf THEN 1 ELSE 0

\* The pages freeproc returns.
FreedPages == (IF hastf THEN 1 ELSE 0) + (IF hasorig THEN 1 ELSE 0)

\* freeproc: both pages go back; ticks, tickcount, handler and run stay.
freeproc ==
    /\ free' = free + FreedPages
    /\ hastf' = FALSE /\ hasorig' = FALSE
    /\ tf' = JunkContext /\ orig' = JunkContext
    /\ state' = "unused"
    /\ UNCHANGED <<others, alarm>>

\* allocproc finds the slot: state USED, no page yet.
AllocSlot ==
    /\ state = "unused"
    /\ state' = "tf"
    /\ UNCHANGED <<hastf, hasorig, free, others, tf, orig, alarm, history>>

AllocTrapframe ==
    /\ state = "tf"
    /\ free > 0
    /\ free' = free - 1 /\ hastf' = TRUE
    /\ state' = "orig"
    /\ UNCHANGED <<hasorig, others, tf, orig, alarm, history>>

AllocOriginal ==
    /\ state = "orig"
    /\ free > 0
    /\ free' = free - 1 /\ hasorig' = TRUE
    /\ state' = "pagetable"
    /\ UNCHANGED <<hastf, others, tf, orig, alarm, history>>

\* kalloc returns 0, or proc_pagetable fails: undo with freeproc.
AllocFail ==
    /\ \/ state \in {"tf", "orig"} /\ free = 0
       \/ state = "pagetable"
    /\ freeproc
    /\ UNCHANGED history

\* Slips: the interval, or the running flag, of the slot's last life stays.
ResetCounters == run' = 0 /\ tickcount' = 0 /\ UNCHANGED ticks
ResetTicks == ticks' = 0 /\ tickcount' = 0 /\ UNCHANGED run

\* allocproc's initialisation of the alarm.
ResetAlarm == ticks' = 0 /\ tickcount' = 0 /\ run' = 0

\* The rest of allocproc, and fork or userinit filling the trapframe.  A
\* child starts with its parent's registers, in a handler if fork was
\* called there, but without the parent's originaltrapframe.
AllocDone(c) ==
    /\ state = "pagetable"
    /\ state' = "running"
    /\ tf' = c
    /\ ResetAlarm
    /\ depth' = 0 /\ saved' = JunkContext /\ asked' = FALSE /\ since' = 0 /\ cut' = FALSE
    /\ UNCHANGED <<hastf, hasorig, free, others, orig, handler>>

Exit ==
    /\ state = "running"
    /\ state' = "zombie"
    /\ UNCHANGED <<hastf, hasorig, free, others, tf, orig, alarm, history>>

\* wait() of the parent.
Reap == state = "zombie" /\ freeproc /\ UNCHANGED history

-----------------------------------------------------------------------------
(* User space and system calls.                                            *)

\* The program can run: its registers are not garbage.
Runs == state = "running" /\ tf # JunkContext

\* The code around address a: control stays there until a trap.
CodeOf(a) == IF a \in Main THEN Main ELSE Handlers

\* Instructions of the program: any registers, control stays in its function.
UserStep(c) ==
    /\ Runs
    /\ c.epc \in CodeOf(tf.epc)
    /\ tf' = c
    /\ UNCHANGED <<memory, orig, alarm, history>>

\* exec starts another program.  The alarm of the old one stays: ticks,
\* handler and, when a handler called exec, run.
Exec(c) ==
    /\ Runs
    /\ c.epc \in Main
    /\ tf' = c
    /\ UNCHANGED <<memory, orig, alarm, history>>

\* usertrap moves epc past the ecall, syscall() stores the result in a0.
Return(c, value, next) == [c EXCEPT !.epc = next, !.a0 = value]

\* The slip of arming the alarm with any number, and the test of the code.
AcceptAll(n) == FALSE
Rejected(n) == n < 0

\* The slip of starting the count afresh, and the assignments of the code.
ArmAfresh(n, fn) == ticks' = n /\ handler' = fn /\ tickcount' = 0
Arm(n, fn) == ticks' = n /\ handler' = fn /\ UNCHANGED tickcount

sys_sigalarm(n, fn) ==
    /\ Runs
    /\ \E next \in CodeOf(tf.epc) :
         IF Rejected(n)
           THEN /\ tf' = Return(tf, -1, next)
                /\ UNCHANGED <<alarm, history>>
           ELSE /\ tf' = Return(tf, 0, next)
                /\ Arm(n, fn)
                /\ asked' = TRUE /\ since' = 0 /\ cut' = (n > 0 /\ tickcount >= n)
                /\ UNCHANGED <<run, depth, saved>>
    /\ UNCHANGED <<memory, orig>>

\* The slip of returning 0 like other system calls.
SigreturnZero == 0

\* What sys_sigreturn returns, which syscall() stores in the a0 of the
\* trapframe just restored.
SigreturnValue == orig.a0

sys_sigreturn ==
    /\ Runs
    /\ tf' = [orig EXCEPT !.a0 = SigreturnValue]
    /\ run' = 0
    /\ depth' = 0 /\ since' = 0
    /\ UNCHANGED <<memory, orig, ticks, tickcount, handler, saved, asked, cut>>

\* A process whose registers are garbage faults: usertrap kills it.
Crash ==
    /\ state = "running" /\ tf = JunkContext
    /\ state' = "zombie"
    /\ UNCHANGED <<hastf, hasorig, free, others, tf, orig, alarm, history>>

-----------------------------------------------------------------------------
(* usertrap for a timer interrupt from user space.                         *)

\* The slip of counting in a handler too.
CountsAlways == ticks > 0

\* The test under which a tick counts.
Counts == ticks > 0 /\ run = 0

\* The slip of comparing before the increment.
DueLate == tickcount = ticks

\* The test, after tickcount += 1, under which the alarm goes off.
Due == tickcount + 1 = ticks

\* An alarm that is counted past takes 2^32 ticks to come round; the model
\* stops counting at MaxCount.
Timer ==
    /\ Runs
    /\ Counts => tickcount < MaxCount
    /\ IF Counts
         THEN IF Due
                THEN /\ run' = 1
                     /\ tickcount' = 0
                     /\ orig' = tf
                     /\ tf' = [tf EXCEPT !.epc = handler]
                     /\ depth' = depth + 1
                     /\ saved' = IF depth = 0 THEN tf ELSE saved
                     /\ since' = 0
                ELSE /\ tickcount' = tickcount + 1
                     /\ since' = since + 1
                     /\ UNCHANGED <<run, orig, tf, depth, saved>>
         ELSE UNCHANGED <<run, tickcount, orig, tf, depth, saved, since>>
    /\ UNCHANGED <<memory, ticks, handler, asked, cut>>

Next ==
    \/ OthersAlloc \/ OthersFree
    \/ AllocSlot \/ AllocTrapframe \/ AllocOriginal \/ AllocFail
    \/ \E c \in Contexts : AllocDone(c)
    \/ Exit \/ Reap
    \/ \E c \in Contexts : UserStep(c)
    \/ \E c \in Contexts : Exec(c)
    \/ \E n \in Intervals, fn \in Handlers : sys_sigalarm(n, fn)
    \/ sys_sigreturn
    \/ Crash
    \/ Timer

Spec == Init /\ [][Next]_vars

\* The timer keeps interrupting, and the scheduler keeps giving the process
\* its share of the CPU after yield().
FairSpec == Spec /\ WF_vars(Timer)

-----------------------------------------------------------------------------
(* Properties.                                                             *)

\* While a handler runs no second alarm is delivered, whatever the handler
\* asks of sigalarm and however long it takes (test2 of alarmtest).
NotReentered == depth <= 1

\* The sigreturn that ends a handler puts back every register as the alarm
\* found it, a0 included, whatever the handler did before (test1, test3).
SigreturnRestores ==
    [][sys_sigreturn /\ depth > 0 => tf' = saved]_vars

\* An alarm reaches only a process that asked for one in this life: a slot
\* that is used again inherits no armed timer and no running handler.
AlarmAsked == state = "running" /\ (depth > 0 \/ ticks > 0) => asked

\* p->run says that a handler is running: it is neither left set, which
\* would silence the alarm for good, nor cleared early.
RunExact == state = "running" => (run = 1 <=> depth > 0)

\* Every page is on the free list, with the rest of the kernel, or held by
\* the process, also after a failed allocproc.
PagesConserved ==
    NPages = free + others + (IF hastf THEN 1 ELSE 0) + (IF hasorig THEN 1 ELSE 0)

\* The alarm is never overdue: fewer than n ticks have counted since
\* sigalarm(n) or since the last handler ended.  The one exception is a
\* program that shortens its alarm to an interval that tickcount has reached
\* already: sigalarm keeps the count, and the test is for equality.
OnTime == state = "running" /\ Counts => since < ticks \/ cut

\* An armed alarm goes off, unless the program disarms it, cuts it short or
\* exits first; calling sigalarm again and again does not put it off.
AlarmComes ==
    (Runs /\ Counts /\ ~cut)
      ~> (run = 1 \/ ticks = 0 \/ cut \/ state # "running" \/ tf = JunkContext)
=============================================================================
