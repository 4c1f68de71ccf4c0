---------------------------- MODULE Sleep_proofs ----------------------------
(***************************************************************************)
(* Proofs about Sleep, for any number of processes, any width of ticks,    *)
(* any delay of woken processes up to half the range of ticks, and any     *)
(* layout of the kernel stack.                                             *)
(***************************************************************************)
EXTENDS Sleep, SequenceTheorems, TLAPS

PCs == {"user", "acquire", "test", "check", "sleep", "asleep", "woken", "trace", "returned"}

TypeOK ==
    /\ ticks \in 0 .. W - 1
    /\ lock \in Procs \cup {NoProc}
    /\ pc \in [Procs -> PCs]
    /\ n \in [Procs -> 0 .. W \div 2 - 1]
    /\ ticks0 \in [Procs -> 0 .. W - 1]
    /\ killed \in [Procs -> BOOLEAN]
    /\ slept \in [Procs -> 0 .. W]
    /\ late \in [Procs -> 0 .. LAG]
    /\ DOMAIN printed = Procs

\* tickslock is held from the reading of ticks0, or the return of sleep(), to
\* the going to sleep or the end of the loop.
Exclusion == \A p \in Procs : pc[p] \in {"test", "check", "sleep"} <=> lock = p

\* The unsigned difference that the loop tests is the time slept.
Elapsed == \A p \in InSleep : slept[p] < W /\ slept[p] = (ticks - ticks0[p]) % W

\* How long p may have slept, by the place it is at.
Bounded ==
    \A p \in Procs :
        /\ pc[p] \in {"check", "sleep", "asleep"} => slept[p] < n[p]
        /\ pc[p] = "woken" => slept[p] <= n[p] + late[p]
        /\ pc[p] = "test" => slept[p] <= n[p] + LAG
        /\ pc[p] = "trace" => n[p] <= slept[p] /\ slept[p] <= n[p] + LAG

Inv == TypeOK /\ Exclusion /\ Elapsed /\ Bounded

-----------------------------------------------------------------------------
(* Arithmetic on ticks.                                                    *)

LEMMA Half == W \in Nat /\ W \div 2 \in Nat /\ W \div 2 >= 1 /\ W \div 2 + W \div 2 <= W
  BY TickAssumption

LEMMA ModSmall == ASSUME NEW a \in 0 .. W - 1 PROVE a % W = a
  BY TickAssumption

LEMMA ModBelow == ASSUME NEW a \in Int, -W <= a, a < 0 PROVE a % W = a + W
  BY TickAssumption

LEMMA ModSelf == W % W = 0
  BY TickAssumption

\* The difference of two readings of ticks.
LEMMA Difference ==
    ASSUME NEW a \in 0 .. W - 1, NEW b \in 0 .. W - 1
    PROVE  (a - b) % W = IF a >= b THEN a - b ELSE a - b + W
<1>1. W \in Nat
  BY TickAssumption
<1>2. CASE a >= b
  <2>1. a - b \in 0 .. W - 1
    BY <1>1, <1>2
  <2> QED
    BY <1>2, <2>1, ModSmall
<1>3. CASE a < b
  <2>1. a - b \in Int /\ -W <= a - b /\ a - b < 0
    BY <1>1, <1>3
  <2> QED
    BY <1>1, <1>3, <2>1, ModBelow
<1> QED
  BY <1>1, <1>2, <1>3

\* The next value of ticks.
LEMMA Successor ==
    ASSUME NEW a \in 0 .. W - 1
    PROVE  (a + 1) % W = IF a = W - 1 THEN 0 ELSE a + 1
<1>1. W \in Nat
  BY TickAssumption
<1>2. CASE a = W - 1
  BY <1>1, <1>2, ModSelf
<1>3. CASE a # W - 1
  <2>1. a + 1 \in 0 .. W - 1
    BY <1>1, <1>3
  <2> QED
    BY <1>3, <2>1, ModSmall
<1> QED
  BY <1>2, <1>3

-----------------------------------------------------------------------------
(* What backtrace prints.                                                  *)

\* The frames lie inside the page, one below the other.
LEMMA FrameBounds ==
    ASSUME NEW f \in Layouts
    PROVE  /\ f[1] \in Nat /\ f[2] \in Nat /\ f[3] \in Nat /\ f[4] \in Nat /\ PGSIZE \in Nat
           /\ PGSIZE < f[1] /\ f[1] < f[2] /\ f[2] < f[3] /\ f[3] < f[4] /\ f[4] = TOP
<1>1. f \in [1 .. 4 -> Nat]
  BY FrameAssumption
<1>2. f[1] + 2 <= f[2] /\ f[2] + 2 <= f[3] /\ f[3] + 2 <= f[4]
  <2>1. \A k \in 1 .. 3 : f[k] + 2 <= f[k + 1]
    BY FrameAssumption
  <2>2. f[1] + 2 <= f[1 + 1] /\ f[2] + 2 <= f[2 + 1] /\ f[3] + 2 <= f[3 + 1]
    BY <2>1
  <2> QED
    BY <2>2
<1> QED
  BY <1>1, <1>2, FrameAssumption DEF TOP

\* The loop of backtrace goes on inside the page and stops at its ends.
LEMMA PageTest ==
    ASSUME PGSIZE \in Nat \ {0}
    PROVE  /\ \A a \in Nat : PGSIZE < a /\ a < TOP => InPage(a)
           /\ ~InPage(0) /\ ~InPage(TOP)
<1>1. ASSUME NEW a \in Nat, PGSIZE < a, a < TOP PROVE InPage(a)
  <2>1. a - PGSIZE \in 1 .. PGSIZE - 1
    BY <1>1 DEF TOP
  <2>2. a % PGSIZE = a - PGSIZE
    BY <1>1, <2>1
  <2> QED
    BY <2>1, <2>2 DEF InPage, PGROUNDDOWN
<1>2. 0 % PGSIZE = 0 /\ TOP % PGSIZE = 0
  BY DEF TOP
<1> QED
  BY <1>1, <1>2 DEF InPage, PGROUNDDOWN, TOP

\* A frame pointer tells the call, and what is no frame pointer tells 0.
LEMMA CallAtExact ==
    ASSUME NEW f \in Layouts
    PROVE  /\ \A k \in 1 .. 4 : CallAt(f, f[k]) = k
           /\ \A a : CallAt(f, a) \in 0 .. 4 /\ (CallAt(f, a) # 0 => f[CallAt(f, a)] = a)
<1>1. \A k, m \in 1 .. 4 : f[k] = f[m] => k = m
  <2>1. \A k \in 1 .. 4 : k = 1 \/ k = 2 \/ k = 3 \/ k = 4
    OBVIOUS
  <2> QED
    BY <2>1, FrameBounds
<1>2. \A a : CallAt(f, a) \in 0 .. 4 /\ (CallAt(f, a) # 0 => f[CallAt(f, a)] = a)
  BY DEF CallAt
<1>3. \A k \in 1 .. 4 : CallAt(f, f[k]) \in 1 .. 4 /\ f[CallAt(f, f[k])] = f[k]
  BY DEF CallAt
<1> QED
  BY <1>1, <1>2, <1>3

\* What the loop prints, from the innermost frame on: the return addresses of
\* the first three calls.  At usertrap's frame, which begins at the end of the
\* page, it stops, so that what the user had in s0 is never followed.
LEMMA LinesExact == ASSUME NEW f \in Layouts PROVE Lines(f) = <<1, 2, 3>>
<1> DEFINE C(a) == CallAt(f, a)
           E(F) == [a \in Nat |-> IF InPage(a) THEN <<CallAt(f, a)>> \o F[CallersFp(f, CallAt(f, a))]
                                  ELSE <<>>]
           From == CHOOSE F : F = E(F)
           G == [a \in Nat |-> IF ~InPage(a) THEN <<>>
                               ELSE IF C(a) = 0 THEN <<0>>
                               ELSE IF C(a) = 3 THEN <<3>>
                               ELSE IF C(a) = 2 THEN <<2, 3>> ELSE <<1, 2, 3>>]
<1>1. /\ f[1] \in Nat /\ f[2] \in Nat /\ f[3] \in Nat /\ f[4] \in Nat
      /\ InPage(f[1]) /\ InPage(f[2]) /\ InPage(f[3]) /\ ~InPage(f[4]) /\ ~InPage(0)
  <2>1. PGSIZE \in Nat \ {0}
    BY FrameBounds DEF TOP
  <2> QED
    BY <2>1, FrameBounds, PageTest
<1>2. C(f[1]) = 1 /\ C(f[2]) = 2 /\ C(f[3]) = 3 /\ C(f[4]) = 4
  BY CallAtExact
<1>3. /\ CallersFp(f, 0) = 0 /\ CallersFp(f, 1) = f[2] /\ CallersFp(f, 2) = f[3]
      /\ CallersFp(f, 3) = f[4]
  BY DEF CallersFp
<1>4. /\ <<0>> \o <<>> = <<0>> /\ <<3>> \o <<>> = <<3>>
      /\ <<2>> \o <<3>> = <<2, 3>> /\ <<1>> \o <<2, 3>> = <<1, 2, 3>>
  <2>1. <<0>> \in Seq(Nat) /\ <<3>> \in Seq(Nat) /\ <<2>> \in Seq(Nat) /\ <<1>> \in Seq(Nat)
    OBVIOUS
  <2>2. <<2, 3>> \in Seq(Nat) /\ <<1, 2, 3>> \in Seq(Nat)
    OBVIOUS
  <2>3. <<0>> \o <<>> = <<0>> /\ <<3>> \o <<>> = <<3>>
    BY <2>1, ConcatEmptySeq
  <2>4. <<2>> \o <<3>> = <<2, 3>>
    <3>1. <<2>> \o <<3>> \in Seq(Nat) /\ Len(<<2>> \o <<3>>) = 2 /\ Len(<<2, 3>>) = 2
      BY <2>1
    <3>2. \A i \in 1 .. 2 : (<<2>> \o <<3>>)[i] = <<2, 3>>[i]
      OBVIOUS
    <3> QED
      BY <2>2, <3>1, <3>2, SeqEqual
  <2>5. <<1>> \o <<2, 3>> = <<1, 2, 3>>
    <3>1. <<1>> \o <<2, 3>> \in Seq(Nat) /\ Len(<<1>> \o <<2, 3>>) = 3 /\ Len(<<1, 2, 3>>) = 3
      BY <2>1, <2>2
    <3>2. \A i \in 1 .. 3 : (<<1>> \o <<2, 3>>)[i] = <<1, 2, 3>>[i]
      OBVIOUS
    <3> QED
      BY <2>2, <3>1, <3>2, SeqEqual
  <2> QED
    BY <2>3, <2>4, <2>5
<1>5. G[0] = <<>> /\ G[f[4]] = <<>> /\ G[f[3]] = <<3>> /\ G[f[2]] = <<2, 3>>
  BY <1>1, <1>2
<1>6. ASSUME NEW a \in Nat, InPage(a)
      PROVE  G[a] = <<C(a)>> \o G[CallersFp(f, C(a))]
  <2>1. C(a) \in {0, 1, 2, 3}
    <3>1. C(a) \in 0 .. 4 /\ (C(a) # 0 => f[C(a)] = a)
      BY CallAtExact
    <3> HIDE DEF C
    <3>2. C(a) # 4
      BY <1>1, <1>6, <3>1
    <3> QED
      BY <3>1, <3>2
  <2>2. G[a] = IF C(a) = 0 THEN <<0>> ELSE IF C(a) = 3 THEN <<3>>
               ELSE IF C(a) = 2 THEN <<2, 3>> ELSE <<1, 2, 3>>
    BY <1>6
  <2> HIDE DEF C, G
  <2> QED
    BY <1>3, <1>4, <1>5, <2>1, <2>2
<1>7. G = E(G)
  <2>1. \A a \in Nat : ~InPage(a) => G[a] = <<>>
    OBVIOUS
  <2>2. \A a \in Nat : G[a] = E(G)[a]
    <3> HIDE DEF G
    <3> QED
      BY <1>6, <2>1
  <2> QED
    BY <2>2
<1>8. From = E(From)
  <2> HIDE DEF G, E
  <2> QED
    BY <1>7
<1>9. \A a \in Nat : From[a] = IF InPage(a) THEN <<C(a)>> \o From[CallersFp(f, C(a))] ELSE <<>>
  <2> HIDE DEF From
  <2> QED
    BY <1>8
<1>10. Lines(f) = From[f[1]]
  BY DEF Lines, r_fp
<1> HIDE DEF From, C
<1>11. From[f[4]] = <<>>
  BY <1>1, <1>9
<1>12. From[f[3]] = <<3>>
  BY ZenonT(60), <1>1, <1>2, <1>3, <1>4, <1>9, <1>11
<1>13. From[f[2]] = <<2, 3>>
  BY <1>1, <1>2, <1>3, <1>4, <1>9, <1>12
<1>14. From[f[1]] = <<1, 2, 3>>
  BY <1>1, <1>2, <1>3, <1>4, <1>9, <1>13
<1> QED
  BY <1>10, <1>14

-----------------------------------------------------------------------------
(* The loop of sys_sleep, the clock and kill.                              *)

\* Only a process that has returned has printed something.
Quiet == \A p \in Procs : pc[p] # "returned" => printed[p] = <<>>

FullInv == Inv /\ Quiet /\ BacktraceExact

LEMMA InitInv == Init => FullInv
<1> SUFFICES ASSUME Init PROVE FullInv
  OBVIOUS
<1>1. TypeOK
  BY Half, TickAssumption DEF Init, TypeOK, PCs
<1>2. Exclusion /\ Elapsed /\ Bounded /\ Quiet /\ BacktraceExact
  BY NoProcAssumption DEF Init, Exclusion, Elapsed, InSleep, Bounded, Quiet, BacktraceExact
<1> QED
  BY <1>1, <1>2 DEF FullInv, Inv

\* The clock advances ticks and the time slept together.
LEMMA ClockStep ==
    ASSUME Inv, Clock
    PROVE  Inv'
<1> USE DEF Inv, TypeOK
<1>1. TypeOK'
  <2>1. ticks' \in 0 .. W - 1
    BY Half, Successor DEF Clock
  <2>2. slept' \in [Procs -> 0 .. W]
    BY Half DEF Clock
  <2>3. late' \in [Procs -> 0 .. LAG]
    BY TickAssumption DEF Clock
  <2>4. pc' \in [Procs -> PCs]
    BY DEF Clock, PCs
  <2> QED
    BY <2>1, <2>2, <2>3, <2>4 DEF Clock
<1>2. Exclusion'
  BY DEF Clock, Exclusion
<1>3. ASSUME NEW p \in Procs, pc'[p] \in {"test", "check", "sleep", "asleep", "woken"}
      PROVE  /\ pc'[p] = "woken" /\ slept'[p] = slept[p] + 1 /\ slept'[p] < W
             /\ slept'[p] = (ticks' - ticks0'[p]) % W
             /\ slept'[p] <= n[p] + late'[p]
  <2>1. pc'[p] = "woken" /\ pc[p] \in {"asleep", "woken"}
    BY <1>3, NoProcAssumption DEF Clock, Exclusion
  <2>2. slept[p] < W /\ slept[p] = (ticks - ticks0[p]) % W /\ slept[p] \in Nat
    BY <2>1, Half DEF Elapsed, InSleep
  <2>3. slept'[p] = slept[p] + 1
    BY <2>1, <2>2 DEF Clock, InSleep
  <2>4. slept'[p] <= n[p] + late'[p] /\ late'[p] \in 0 .. LAG
    <3>1. n[p] \in Nat /\ late[p] \in Nat
      BY Half, TickAssumption
    <3> QED
      BY <1>1, <2>1, <2>2, <2>3, <3>1 DEF Bounded, Clock
  <2>5. slept'[p] < W
    BY <2>2, <2>3, <2>4, Half, TickAssumption
  <2>6. slept'[p] = (ticks' - ticks0[p]) % W
    <3>1. ticks \in 0 .. W - 1 /\ ticks0[p] \in 0 .. W - 1 /\ ticks' \in 0 .. W - 1
      BY <1>1
    <3>2. ticks' = IF ticks = W - 1 THEN 0 ELSE ticks + 1
      BY <3>1, Successor DEF Clock
    <3>3. slept[p] = IF ticks >= ticks0[p] THEN ticks - ticks0[p] ELSE ticks - ticks0[p] + W
      BY <2>2, <3>1, Difference
    <3>4. (ticks' - ticks0[p]) % W = IF ticks' >= ticks0[p] THEN ticks' - ticks0[p] ELSE ticks' - ticks0[p] + W
      BY <3>1, Difference
    <3> QED
      BY <2>3, <2>5, <3>1, <3>2, <3>3, <3>4, Half
  <2> QED
    BY <2>1, <2>3, <2>4, <2>5, <2>6 DEF Clock
<1>4. Elapsed'
  BY <1>3 DEF Elapsed, InSleep
<1>5. Bounded'
  <2>1. \A p \in Procs : pc'[p] = "trace" => pc[p] = "trace" /\ slept'[p] = slept[p]
    BY DEF Clock, InSleep
  <2> QED
    BY <1>3, <2>1 DEF Bounded, Clock
<1> QED
  BY <1>1, <1>2, <1>4, <1>5

\* The steps of a process.
ProcStep(p) ==
    \/ Acquire(p) \/ Resume(p) \/ Run(p) \/ kill(p)
    \/ \E arg \in Ints : Start(p, arg)

LEMMA ProcType ==
    ASSUME Inv, NEW p \in Procs, ProcStep(p)
    PROVE  TypeOK'
<1> USE DEF Inv, TypeOK, Goto, PCs
<1>1. CASE Acquire(p)
  BY <1>1, Half DEF Acquire
<1>2. CASE Resume(p)
  BY <1>2, TickAssumption DEF Resume
<1>3. CASE Wait(p) \/ Woken(p) \/ NotKilled(p) \/ Suspend(p)
  BY <1>3 DEF Wait, Woken, NotKilled, StillHeld, Suspend, time
<1>4. CASE GiveUp(p) \/ Backtrace(p)
  BY <1>4, Half, TickAssumption DEF GiveUp, Backtrace, Forget
<1>5. CASE Exit(p)
  BY <1>5 DEF Exit
<1>6. CASE kill(p)
  BY <1>6, TickAssumption DEF kill
<1>7. CASE \E arg \in Ints : Start(p, arg)
  <2>1. PICK arg \in Ints : Start(p, arg)
    BY <1>7
  <2>2. Clamped(arg) \in 0 .. W \div 2 - 1
    BY Half DEF Clamped, Ints
  <2> QED
    BY <2>1, <2>2 DEF Start
<1> QED
  BY <1>1, <1>2, <1>3, <1>4, <1>5, <1>6, <1>7 DEF ProcStep, Run

\* Whoever holds tickslock is at one of the places where it is held.
LEMMA ProcExclusion ==
    ASSUME Inv, NEW p \in Procs, ProcStep(p)
    PROVE  Exclusion'
<1> USE NoProcAssumption DEF Inv, TypeOK, Goto, PCs, Exclusion
<1>1. CASE Acquire(p)
  BY <1>1 DEF Acquire
<1>2. CASE Resume(p)
  BY <1>2 DEF Resume
<1>3. CASE Wait(p) \/ Woken(p) \/ NotKilled(p) \/ Suspend(p)
  BY <1>3 DEF Wait, Woken, NotKilled, StillHeld, Suspend, time
<1>4. CASE GiveUp(p) \/ Backtrace(p) \/ Exit(p)
  BY <1>4 DEF GiveUp, Backtrace, Exit
<1>5. CASE kill(p)
  BY <1>5 DEF kill
<1>6. CASE \E arg \in Ints : Start(p, arg)
  BY <1>6 DEF Start
<1> QED
  BY <1>1, <1>2, <1>3, <1>4, <1>5, <1>6 DEF ProcStep, Run

\* The time slept, and its bounds, are right after the step.
LEMMA ProcElapsed ==
    ASSUME Inv, NEW p \in Procs, ProcStep(p)
    PROVE  Elapsed'
<1> USE DEF Inv, TypeOK, Goto, PCs, Elapsed, InSleep
<1>1. CASE Acquire(p)
  <2>1. (ticks - ticks) % W = 0
    BY Difference
  <2> QED
    BY <1>1, <2>1, Half DEF Acquire
<1>2. CASE Resume(p)
  BY <1>2 DEF Resume
<1>3. CASE Wait(p) \/ Woken(p) \/ NotKilled(p) \/ Suspend(p)
  BY <1>3 DEF Wait, Woken, NotKilled, Suspend, time
<1>4. CASE GiveUp(p) \/ Backtrace(p) \/ Exit(p)
  BY <1>4 DEF GiveUp, Backtrace, Exit, Forget
<1>5. CASE kill(p)
  BY <1>5 DEF kill
<1>6. CASE \E arg \in Ints : Start(p, arg)
  BY <1>6 DEF Start
<1> QED
  BY <1>1, <1>2, <1>3, <1>4, <1>5, <1>6 DEF ProcStep, Run

LEMMA ProcBounded ==
    ASSUME Inv, NEW p \in Procs, ProcStep(p)
    PROVE  Bounded'
<1>0. TypeOK'
  BY ProcType
<1> USE DEF Inv, TypeOK, Goto, Bounded
<1>1. CASE Acquire(p)
  BY <1>0, <1>1, Half, TickAssumption DEF Acquire
<1>2. CASE Resume(p)
  BY <1>0, <1>2, Half, TickAssumption DEF Resume
<1>3. CASE Wait(p) \/ Woken(p)
  <2>1. TooEarly(p) <=> slept[p] < n[p]
    BY <1>3 DEF Wait, Woken, TooEarly, Elapsed, InSleep
  <2>2. slept[p] \in Int /\ n[p] \in Int
    BY Half
  <2> QED
    BY <1>3, <2>1, <2>2 DEF Wait, Woken, time
<1>4. CASE NotKilled(p) \/ Suspend(p)
  BY <1>4 DEF NotKilled, Suspend
<1>5. CASE GiveUp(p) \/ Backtrace(p) \/ Exit(p)
  BY <1>5 DEF GiveUp, Backtrace, Exit, Forget
<1>6. CASE kill(p)
  BY <1>6, Half, TickAssumption DEF kill
<1>7. CASE \E arg \in Ints : Start(p, arg)
  BY <1>7 DEF Start
<1> QED
  BY <1>1, <1>2, <1>3, <1>4, <1>5, <1>6, <1>7 DEF ProcStep, Run

\* What has been printed is a complete backtrace.
LEMMA ProcTraced ==
    ASSUME FullInv, NEW p \in Procs, ProcStep(p)
    PROVE  Quiet' /\ BacktraceExact'
<1> USE DEF FullInv, Inv, TypeOK, Goto, Quiet, BacktraceExact
<1>1. CASE Acquire(p) \/ Resume(p)
  BY <1>1 DEF Acquire, Resume
<1>2. CASE Wait(p) \/ Woken(p) \/ NotKilled(p) \/ Suspend(p)
  BY <1>2 DEF Wait, Woken, NotKilled, Suspend, time
<1>3. CASE GiveUp(p)
  BY <1>3 DEF GiveUp
<1>4. CASE Backtrace(p)
  BY <1>4, LinesExact DEF Backtrace
<1>5. CASE Exit(p)
  BY <1>5 DEF Exit
<1>6. CASE kill(p)
  BY <1>6 DEF kill
<1>7. CASE \E arg \in Ints : Start(p, arg)
  BY <1>7 DEF Start
<1> QED
  BY <1>1, <1>2, <1>3, <1>4, <1>5, <1>6, <1>7 DEF ProcStep, Run

LEMMA NextInv == FullInv /\ [Next]_vars => FullInv'
<1> SUFFICES ASSUME FullInv, [Next]_vars PROVE FullInv'
  OBVIOUS
<1>1. CASE UNCHANGED vars
  BY <1>1 DEF vars, time, FullInv, Inv, TypeOK, Exclusion, Elapsed, InSleep, Bounded, Quiet, BacktraceExact
<1>2. CASE Clock
  <2>1. Inv'
    BY <1>2, ClockStep DEF FullInv
  <2>2. Quiet' /\ BacktraceExact'
    BY <1>2 DEF FullInv, Inv, TypeOK, Clock, Quiet, BacktraceExact
  <2> QED
    BY <2>1, <2>2 DEF FullInv
<1>3. CASE \E p \in Procs : ProcStep(p)
  BY <1>3, ProcType, ProcExclusion, ProcElapsed, ProcBounded, ProcTraced DEF FullInv, Inv
<1> QED
  BY <1>1, <1>2, <1>3 DEF Next, ProcStep

\* The invariant of the sleep loop.
THEOREM Correct == Spec => []FullInv
  BY InitInv, NextInv, PTL DEF Spec

\* sleep(n) returns after n ticks or more, and late by no more than the time
\* the process waited for a CPU, across every wrap of ticks: the unsigned
\* difference of sys_sleep is right as long as a woken process gets a CPU
\* within half the range of ticks.
THEOREM NeverEarly == Spec => []SleepsOnTime
<1>1. FullInv => SleepsOnTime
  BY DEF FullInv, Inv, Bounded, SleepsOnTime
<1> QED
  BY <1>1, Correct, PTL

\* No wakeup is lost between the test of the loop and the going to sleep.
THEOREM NoLostWakeup == Spec => []NeverAsleepDue
<1>1. FullInv => NeverAsleepDue
  BY DEF FullInv, Inv, Bounded, NeverAsleepDue
<1> QED
  BY <1>1, Correct, PTL

\* backtrace prints the three return addresses of the kernel stack, for
\* every layout of the frames, and stops there.
THEOREM BacktraceStops == Spec => []BacktraceExact
<1>1. FullInv => BacktraceExact
  BY DEF FullInv
<1> QED
  BY <1>1, Correct, PTL
=============================================================================
