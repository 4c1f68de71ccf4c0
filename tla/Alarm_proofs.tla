---------------------------- MODULE Alarm_proofs ----------------------------
(***************************************************************************)
(* Proofs about Alarm, for any intervals, handlers, registers and memory.  *)
(***************************************************************************)
EXTENDS Alarm, TLAPS

\* The fields of the alarm agree with the history of the process: at most
\* one handler runs, p->run says whether one does, and originaltrapframe is
\* what it interrupted.
Delivered ==
    /\ depth \in {0, 1}
    /\ state = "running" => (run = 1 <=> depth > 0)
    /\ state = "running" /\ depth > 0 => orig = saved
    /\ state = "running" /\ (depth > 0 \/ ticks > 0) => asked

\* Which pages allocproc has by now.
Held ==
    /\ state \in {"unused", "tf"} => ~hastf /\ ~hasorig
    /\ state = "orig" => hastf /\ ~hasorig
    /\ state \in {"pagetable", "running", "zombie"} => hastf /\ hasorig

\* The count stays below the interval unless the program cut the alarm short.
Counted ==
    state = "running" =>
      /\ since <= tickcount
      /\ ticks > 0 /\ ~cut => tickcount < ticks

Inv == TypeOK /\ Delivered /\ Counted /\ Held /\ PagesConserved

LEMMA InitInv == Init => Inv
<1> SUFFICES ASSUME Init PROVE Inv
  OBVIOUS
<1>1. TypeOK
  BY IntervalAssumption DEF Init, TypeOK, States
<1>2. Delivered /\ Counted /\ Held
  BY DEF Init, Delivered, Counted, Held
<1>3. PagesConserved
  BY IntervalAssumption DEF Init, PagesConserved
<1> QED
  BY <1>1, <1>2, <1>3 DEF Inv

\* freeproc returns the pages it has, however far allocproc got.
LEMMA FreeprocInv ==
    ASSUME Inv, freeproc, UNCHANGED history
    PROVE  Inv'
<1>1. TypeOK'
  <2>1. free' \in Nat
    BY DEF Inv, TypeOK, freeproc, FreedPages
  <2>2. UNCHANGED <<others, ticks, tickcount, handler, run, depth, saved, asked, since, cut>>
    BY DEF freeproc, alarm, history
  <2>3. hastf' = FALSE /\ hasorig' = FALSE /\ tf' = JunkContext /\ orig' = JunkContext
        /\ state' = "unused"
    BY DEF freeproc
  <2> QED
    BY <2>1, <2>2, <2>3 DEF Inv, TypeOK, States
<1>2. Delivered' /\ Counted' /\ Held'
  BY DEF Inv, Delivered, Counted, Held, freeproc, history
<1>3. PagesConserved'
  BY IntervalAssumption DEF Inv, TypeOK, PagesConserved, freeproc, FreedPages
<1> QED
  BY <1>1, <1>2, <1>3 DEF Inv

\* The allocation side: allocproc, freeproc, exit and the other users of
\* memory.
LEMMA MemoryStep ==
    ASSUME Inv,
           \/ OthersAlloc \/ OthersFree \/ AllocSlot \/ AllocTrapframe \/ AllocOriginal
           \/ AllocFail \/ (\E c \in Contexts : AllocDone(c)) \/ Exit \/ Reap \/ Crash
    PROVE  Inv'
<1> USE DEF Inv, TypeOK, States, Delivered, Counted, Held, PagesConserved, alarm, history
<1>1. CASE OthersAlloc
  BY <1>1 DEF OthersAlloc
<1>2. CASE OthersFree
  BY <1>2 DEF OthersFree
<1>3. CASE AllocSlot
  BY <1>3 DEF AllocSlot
<1>4. CASE AllocTrapframe
  <2>1. TypeOK'
    BY <1>4 DEF AllocTrapframe
  <2>2. Delivered' /\ Counted' /\ Held'
    BY <1>4 DEF AllocTrapframe
  <2>3. PagesConserved'
    BY <1>4 DEF AllocTrapframe
  <2> QED
    BY <2>1, <2>2, <2>3
<1>5. CASE AllocOriginal
  <2>1. TypeOK'
    BY <1>5 DEF AllocOriginal
  <2>2. Delivered' /\ Counted' /\ Held'
    BY <1>5 DEF AllocOriginal
  <2>3. PagesConserved'
    BY <1>5 DEF AllocOriginal
  <2> QED
    BY <2>1, <2>2, <2>3
<1>6. CASE AllocFail
  <2>1. freeproc /\ UNCHANGED history
    BY <1>6 DEF AllocFail
  <2> QED
    BY <2>1, FreeprocInv
<1>7. CASE \E c \in Contexts : AllocDone(c)
  <2> PICK c \in Contexts : AllocDone(c)
    BY <1>7
  <2>1. TypeOK'
    BY DEF AllocDone, ResetAlarm
  <2>2. Delivered' /\ Counted' /\ Held' /\ PagesConserved'
    BY DEF AllocDone, ResetAlarm
  <2> QED
    BY <2>1, <2>2
<1>8. CASE Exit
  BY <1>8 DEF Exit
<1>9. CASE Reap
  <2>1. freeproc /\ UNCHANGED history
    BY <1>9 DEF Reap
  <2> QED
    BY <2>1, FreeprocInv
<1>10. CASE Crash
  BY <1>10 DEF Crash
<1> QED
  BY <1>1, <1>2, <1>3, <1>4, <1>5, <1>6, <1>7, <1>8, <1>9, <1>10

\* The user side: instructions, system calls and timer interrupts.
LEMMA UserSideStep ==
    ASSUME Inv,
           \/ \E c \in Contexts : UserStep(c) \/ Exec(c)
           \/ \E n \in Intervals, fn \in Handlers : sys_sigalarm(n, fn)
           \/ sys_sigreturn
           \/ Timer
    PROVE  Inv'
<1>1. CASE \E c \in Contexts : UserStep(c) \/ Exec(c)
  <2>1. UNCHANGED <<memory, orig, alarm, history>> /\ tf' \in Contexts
    BY <1>1 DEF UserStep, Exec
  <2>2. TypeOK'
    BY <2>1 DEF Inv, TypeOK, alarm, history, memory
  <2>3. Delivered' /\ Counted' /\ Held' /\ PagesConserved'
    BY <2>1 DEF Inv, Delivered, Counted, Held, PagesConserved, alarm, history, memory
  <2> QED
    BY <2>2, <2>3 DEF Inv
<1>2. CASE \E n \in Intervals, fn \in Handlers : sys_sigalarm(n, fn)
  <2> PICK n \in Intervals, fn \in Handlers : sys_sigalarm(n, fn)
    BY <1>2
  <2> PICK next \in CodeOf(tf.epc) :
        IF Rejected(n)
          THEN /\ tf' = Return(tf, -1, next)
               /\ UNCHANGED <<alarm, history>>
          ELSE /\ tf' = Return(tf, 0, next)
               /\ Arm(n, fn)
               /\ asked' = TRUE /\ since' = 0 /\ cut' = (n > 0 /\ tickcount >= n)
               /\ UNCHANGED <<run, depth, saved>>
    BY DEF sys_sigalarm
  <2>1. tf \in Contexts /\ state = "running" /\ UNCHANGED <<memory, orig>>
    BY DEF sys_sigalarm, Runs, Inv, TypeOK
  <2>2. next \in Main \cup Handlers
    BY DEF CodeOf
  <2>3. tf' \in Contexts
    BY <2>1, <2>2, ValsAssumption DEF Return, Contexts
  <2>4. ticks' \in Nat /\ handler' \in Handlers /\ asked' \in BOOLEAN /\ since' \in Nat
        /\ cut' \in BOOLEAN /\ UNCHANGED <<tickcount, run, depth, saved>>
    <3>1. CASE n < 0
      BY <3>1 DEF Rejected, Inv, TypeOK, alarm, history
    <3>2. CASE ~(n < 0)
      <4>1. n \in Nat
        BY <3>2, IntervalAssumption
      <4> QED
        BY <3>2, <4>1 DEF Rejected, Arm
    <3> QED
      BY <3>1, <3>2
  <2>5. TypeOK'
    BY <2>1, <2>3, <2>4 DEF Inv, TypeOK, memory
  <2>6. Delivered'
    BY <2>1, <2>4 DEF Inv, TypeOK, Delivered, memory, alarm, history
  <2>7. Held' /\ PagesConserved'
    BY <2>1 DEF Inv, Held, PagesConserved, memory
  <2>8. Counted'
    <3>1. CASE n < 0
      BY <2>1, <3>1 DEF Rejected, Inv, Counted, memory, alarm, history
    <3>2. CASE ~(n < 0)
      <4>1. n \in Nat /\ tickcount \in Nat
        BY <3>2, IntervalAssumption DEF Inv, TypeOK
      <4>2. ticks' = n /\ tickcount' = tickcount /\ since' = 0
            /\ cut' = (n > 0 /\ tickcount >= n)
        BY <3>2 DEF Rejected, Arm
      <4>3. ~cut' => ~(n > 0 /\ tickcount >= n)
        BY <4>2, Zenon
      <4>4. since' <= tickcount'
        BY <4>1, <4>2
      <4>5. ticks' > 0 /\ ~cut' => tickcount' < ticks'
        BY <4>1, <4>2, <4>3
      <4> QED
        BY <4>4, <4>5, Zenon DEF Counted
    <3> QED
      BY <3>1, <3>2
  <2> QED
    BY <2>5, <2>6, <2>7, <2>8 DEF Inv
<1>3. CASE sys_sigreturn
  BY <1>3 DEF sys_sigreturn, SigreturnValue, Runs, Contexts, JunkContext,
      Inv, TypeOK, States, Delivered, Counted, Held, PagesConserved, alarm, history, memory
<1>4. CASE Timer
  BY <1>4 DEF Timer, Counts, Due, Runs, Contexts,
      Inv, TypeOK, States, Delivered, Counted, Held, PagesConserved, alarm, history, memory
<1> QED
  BY <1>1, <1>2, <1>3, <1>4

LEMMA NextInv == Inv /\ [Next]_vars => Inv'
<1> SUFFICES ASSUME Inv, [Next]_vars PROVE Inv'
  OBVIOUS
<1>1. CASE UNCHANGED vars
  BY <1>1 DEF vars, memory, alarm, history, Inv, TypeOK, Delivered, Counted, Held, PagesConserved
<1>2. CASE Next
  BY <1>2, MemoryStep, UserSideStep DEF Next
<1> QED
  BY <1>1, <1>2

\* The invariant holds in every life of the slot, wherever the timer
\* interrupts and whichever allocation of allocproc fails.
THEOREM Invariance == Spec => []Inv
BY InitInv, NextInv, PTL DEF Spec

\* Every field keeps its type, whatever arguments sigalarm gets.
THEOREM TypeCorrect == Spec => []TypeOK
<1>1. Inv => TypeOK
  BY DEF Inv
<1> QED
  BY <1>1, Invariance, PTL

\* For every interval and every program, no alarm is delivered while a
\* handler runs, ...
THEOREM NeverReentered == Spec => []NotReentered
<1>1. Inv => NotReentered
  BY DEF Inv, Delivered, NotReentered
<1> QED
  BY <1>1, Invariance, PTL

\* ... p->run is set exactly while a handler runs, ...
THEOREM RunFlagExact == Spec => []RunExact
<1>1. Inv => RunExact
  BY DEF Inv, Delivered, RunExact
<1> QED
  BY <1>1, Invariance, PTL

\* ... and no process gets an alarm that it did not ask for.
THEOREM OnlyAskedAlarms == Spec => []AlarmAsked
<1>1. Inv => AlarmAsked
  BY DEF Inv, Delivered, AlarmAsked
<1> QED
  BY <1>1, Invariance, PTL

\* For every sequence of sigalarm calls the alarm is never overdue, unless the
\* program shortened its interval to a count already reached.
THEOREM AlarmOnTime == Spec => []OnTime
<1>1. Inv => OnTime
  BY DEF Inv, TypeOK, Counted, OnTime, Counts
<1> QED
  BY <1>1, Invariance, PTL

\* allocproc and freeproc lose no page, on the failure paths too.
THEOREM NoPageLost == Spec => []PagesConserved
<1>1. Inv => PagesConserved
  BY DEF Inv
<1> QED
  BY <1>1, Invariance, PTL

\* sigreturn puts back the interrupted registers, a0 included.
THEOREM RegistersRestored == Spec => SigreturnRestores
<1>1. Inv /\ [Next]_vars => [sys_sigreturn /\ depth > 0 => tf' = saved]_vars
  <2> SUFFICES ASSUME Inv, sys_sigreturn, depth > 0 PROVE tf' = saved
    OBVIOUS
  <2>1. orig = saved /\ tf' = [orig EXCEPT !.a0 = orig.a0]
    BY DEF Inv, Delivered, sys_sigreturn, SigreturnValue, Runs
  <2>2. orig \in Contexts \/ orig = JunkContext
    BY DEF Inv, TypeOK
  <2>3. [orig EXCEPT !.a0 = orig.a0] = orig
    BY <2>2 DEF Contexts, JunkContext
  <2> QED
    BY <2>1, <2>3
<1> QED
  BY <1>1, Invariance, PTL DEF Spec, SigreturnRestores
=============================================================================
