---------------------------- MODULE Primes_proofs ----------------------------
(***************************************************************************)
(* Proofs about Primes, for every last number, every capacity of the pipes *)
(* and every number of processes: the console shows the primes, in order   *)
(* and without a gap; all of them when no fork has failed; and a number is *)
(* lost only when one has.                                                 *)
(***************************************************************************)
EXTENDS Primes, SequenceTheorems, TLAPS

PCs == {"none", "start", "first", "print", "pipe", "fork", "drop", "send", "read", "write",
        "close", "wait", "done"}

TypeOK ==
    /\ pc \in [Procs -> PCs]
    /\ fds \in [Procs -> SUBSET (Int \X {"read", "write"})]
    /\ pipe \in [Procs -> Seq(Nat)]
    /\ next \in 2 .. N + 1
    /\ prime \in [Procs -> Nat] /\ num \in [Procs -> Nat]
    /\ printed \in Seq(Nat)

\* Places before the fork of a process, and those after it.
Childless == {"none", "start", "first", "print", "pipe", "fork"}
Parental == {"drop", "send", "read", "write", "close", "wait"}

\* How far the chain has grown, and which processes have read their prime.
Chain ==
    /\ pc[0] \in {"pipe", "fork", "drop", "send", "close", "wait", "done"} /\ prime[0] = 0
    /\ \A k \in Procs :
         /\ k > 0 => pc[k] # "send"
         /\ pc[k] \in Childless => \A j \in Procs : j > k => pc[j] = "none"
         /\ pc[k] \in Parental => k < MaxProc /\ pc[k + 1] # "none"
         /\ pc[k] # "none" => \A j \in 1 .. k - 1 : prime[j] # 0
         /\ pc[k] \in {"none", "start", "first"} => prime[k] = 0
         /\ k > 0 /\ pc[k] \notin {"none", "start", "first", "done"} => prime[k] # 0

\* The pipe ends a process needs are open.
Ends ==
    \A k \in Procs :
        /\ pc[k] \in {"fork", "drop", "send", "read", "write", "close"} => W(k) \in fds[k]
        /\ pc[k] \in {"fork", "drop"} => R(k) \in fds[k]
        /\ k > 0 /\ pc[k] \in {"start", "first", "print", "pipe", "fork", "drop", "read", "write"}
             => R(k - 1) \in fds[k]

\* The numbers that the first k primes leave.
Surv(k) == {m \in 2 .. N : \A j \in 1 .. k : m % prime[j] # 0}

\* Process k has read the numbers of its input below Got(k), and has written
\* those of its output below Put(k).
Got(k) == IF prime[k] = 0 THEN 2 ELSE IF num[k] = 0 THEN prime[k] + 1 ELSE num[k] + 1
Put(k) == IF k = 0 THEN next ELSE IF pc[k] = "write" THEN num[k] ELSE Got(k)

\* Process k takes part in the sieve.
Sieving(k) == k = 0 \/ prime[k] # 0

Ascending(s) == \A i, j \in 1 .. Len(s) : i < j => s[i] < s[j]

Elems(s) == {s[i] : i \in 1 .. Len(s)}

\* A pipe holds what its writer has written and its reader has not read yet,
\* in ascending order; nothing is said once the reader has left.
Stream ==
    \A k \in Procs : k < MaxProc =>
        /\ ~Sieving(k) => pipe[k] = <<>>
        /\ Sieving(k) /\ pc[k + 1] # "done" =>
             /\ Ascending(pipe[k])
             /\ Elems(pipe[k]) = {m \in Surv(k) : Got(k + 1) <= m /\ m < Put(k)}
             /\ Got(k + 1) <= Put(k)

\* A process prints the least number that the primes before it leave.
Least ==
    \A k \in Procs : prime[k] # 0 => prime[k] \in Surv(k - 1) /\ \A m \in Surv(k - 1) : prime[k] <= m

\* What process k has read last.
Last ==
    \A k \in Procs :
        /\ num[k] # 0 => prime[k] # 0 /\ num[k] > prime[k]
        /\ pc[k] = "write" => num[k] \in Surv(k)
        /\ pc[k] \in Childless \cup {"drop"} => num[k] = 0

\* A process that has closed its pipe has written everything, one that found
\* its input empty got nothing.
Complete ==
    /\ \A k \in Procs : k < MaxProc /\ pc[k] \in {"close", "wait", "done"} /\ pc[k + 1] # "none"
         => \A m \in Surv(k) : m < Put(k)
    /\ \A k \in Procs : k > 0 /\ pc[k] = "done" /\ prime[k] = 0 => Surv(k - 1) = {}

\* Without a failed fork the chain ends from its end.
Order ==
    /\ \A k \in Procs : k < MaxProc =>
         /\ pc[k + 1] \in {"close", "wait"} => pc[k] \in {"wait", "done"}
         /\ pc[k + 1] = "done" => pc[k] \in {"wait", "done"} \/ failed
    /\ ~failed => \A k \in Procs : pc[k] = "done" =>
         /\ \A j \in Procs : j > k => pc[j] \in {"done", "none"}
         /\ Sieving(k) => k < MaxProc /\ pc[k + 1] = "done"

\* The console shows the primes of the processes that have printed.
Console ==
    /\ Len(printed) <= MaxProc
    /\ \A k \in Procs : k > 0 =>
         (k <= Len(printed) <=> prime[k] # 0 /\ pc[k] # "print")
    /\ \A k \in 1 .. Len(printed) : printed[k] = prime[k]

Inv == TypeOK /\ Chain /\ Ends /\ Stream /\ Least /\ Last /\ Complete /\ Order /\ Console /\ NothingLost

-----------------------------------------------------------------------------
(* Ascending sequences of numbers.                                         *)

\* What a read takes from a pipe.
LEMMA TailAscending ==
    ASSUME NEW s \in Seq(Nat), s # <<>>, Ascending(s)
    PROVE  /\ Head(s) \in Nat /\ Tail(s) \in Seq(Nat)
           /\ Ascending(Tail(s))
           /\ Head(s) \in Elems(s) /\ \A m \in Elems(s) : Head(s) <= m
           /\ Elems(Tail(s)) = Elems(s) \ {Head(s)}
<1>1. /\ Len(s) \in Nat \ {0} /\ Tail(s) \in Seq(Nat) /\ Len(Tail(s)) = Len(s) - 1
      /\ Head(s) = s[1] /\ s[1] \in Nat
  OBVIOUS
<1>2. \A i \in 1 .. Len(s) - 1 : Tail(s)[i] = s[i + 1]
  OBVIOUS
<1>3. \A i \in 1 .. Len(s) : s[i] \in Nat
  OBVIOUS
<1>4. \A i \in 1 .. Len(s) : i # 1 => s[1] < s[i]
  BY <1>1 DEF Ascending
<1>5. Ascending(Tail(s))
  <2> SUFFICES ASSUME NEW i \in 1 .. Len(s) - 1, NEW j \in 1 .. Len(s) - 1, i < j
               PROVE  s[i + 1] < s[j + 1]
    BY <1>1, <1>2 DEF Ascending
  <2>1. i + 1 \in 1 .. Len(s) /\ j + 1 \in 1 .. Len(s) /\ i + 1 < j + 1
    BY <1>1
  <2> QED
    BY <2>1 DEF Ascending
<1>6. Head(s) \in Elems(s) /\ \A m \in Elems(s) : Head(s) <= m
  BY <1>1, <1>3, <1>4 DEF Elems
<1>7. Elems(Tail(s)) \subseteq Elems(s) \ {Head(s)}
  <2> SUFFICES ASSUME NEW i \in 1 .. Len(s) - 1 PROVE s[i + 1] \in Elems(s) \ {Head(s)}
    BY <1>1, <1>2 DEF Elems
  <2>1. i + 1 \in 1 .. Len(s) /\ i + 1 # 1
    BY <1>1
  <2> QED
    BY <1>1, <1>3, <1>4, <2>1 DEF Elems
<1>8. Elems(s) \ {Head(s)} \subseteq Elems(Tail(s))
  <2> SUFFICES ASSUME NEW i \in 1 .. Len(s), i # 1 PROVE s[i] \in Elems(Tail(s))
    BY <1>1 DEF Elems
  <2>1. i - 1 \in 1 .. Len(Tail(s)) /\ Tail(s)[i - 1] = s[i]
    BY <1>1, <1>2
  <2> QED
    BY <2>1 DEF Elems
<1> QED
  BY <1>1, <1>5, <1>6, <1>7, <1>8

\* What a write adds to a pipe.
LEMMA AppendAscending ==
    ASSUME NEW s \in Seq(Nat), NEW n \in Nat, Ascending(s), \A m \in Elems(s) : m < n
    PROVE  /\ Append(s, n) \in Seq(Nat)
           /\ Ascending(Append(s, n))
           /\ Elems(Append(s, n)) = Elems(s) \cup {n}
<1> DEFINE t == Append(s, n)
<1>1. t \in Seq(Nat) /\ Len(s) \in Nat /\ Len(t) = Len(s) + 1
  OBVIOUS
<1>2. \A i \in 1 .. Len(t) : t[i] = IF i = Len(s) + 1 THEN n ELSE s[i]
  OBVIOUS
<1> HIDE DEF t
<1>3. \A i \in 1 .. Len(s) : s[i] \in Elems(s) /\ s[i] < n
  BY DEF Elems
<1>4. Ascending(t)
  <2> SUFFICES ASSUME NEW i \in 1 .. Len(t), NEW j \in 1 .. Len(t), i < j
               PROVE  t[i] < t[j]
    BY DEF Ascending
  <2>1. i \in 1 .. Len(s) /\ t[i] = s[i]
    BY <1>1, <1>2
  <2>2. CASE j = Len(s) + 1
    BY <1>1, <1>2, <1>3, <2>1, <2>2
  <2>3. CASE j # Len(s) + 1
    <3>1. j \in 1 .. Len(s) /\ t[j] = s[j]
      BY SMTT(30), <1>1, <1>2, <2>3
    <3> QED
      BY <2>1, <3>1 DEF Ascending
  <2> QED
    BY <2>2, <2>3
<1>5. Elems(t) = Elems(s) \cup {n}
  <2>1. \A i \in 1 .. Len(t) : t[i] \in Elems(s) \cup {n}
    BY SMTT(30), <1>1, <1>2, <1>3
  <2>2. \A i \in 1 .. Len(s) : i \in 1 .. Len(t) /\ t[i] = s[i]
    BY <1>1, <1>2
  <2>3. Len(t) \in 1 .. Len(t) /\ t[Len(t)] = n
    BY <1>1, <1>2
  <2>4. Elems(t) \subseteq Elems(s) \cup {n}
    BY <2>1 DEF Elems
  <2>5. Elems(s) \subseteq Elems(t)
    BY <2>2 DEF Elems
  <2>6. n \in Elems(t)
    BY <2>3 DEF Elems
  <2> QED
    BY <2>4, <2>5, <2>6
<1> QED
  BY <1>1, <1>4, <1>5 DEF t

-----------------------------------------------------------------------------
(* Divisors.                                                               *)

LEMMA Multiple ==
    ASSUME NEW a \in Nat, NEW b \in Nat \ {0}
    PROVE  a % b = 0 <=> \E x \in Nat : a = b * x
<1>1. a % b = 0 => \E x \in Nat : a = b * x
  <2>1. a \div b \in Nat /\ a = b * (a \div b) + (a % b)
    OBVIOUS
  <2> QED
    BY <2>1
<1>2. ASSUME NEW x \in Nat, a = b * x PROVE a % b = 0
  BY <1>2
<1> QED
  BY <1>1, <1>2

LEMMA DividesTransitive ==
    ASSUME NEW a \in Nat, NEW b \in Nat \ {0}, NEW c \in Nat \ {0}, a % b = 0, b % c = 0
    PROVE  a % c = 0
<1>1. PICK x \in Nat : a = b * x
  BY Multiple
<1>2. PICK y \in Nat : b = c * y
  BY Multiple
<1>3. a = c * (y * x) /\ y * x \in Nat
  BY <1>1, <1>2
<1> QED
  BY <1>3, Multiple

LEMMA DividesSmaller ==
    ASSUME NEW a \in Nat \ {0}, NEW b \in Nat \ {0}, a % b = 0
    PROVE  b <= a
<1>1. PICK x \in Nat : a = b * x
  BY Multiple
<1>2. x >= 1
  BY <1>1
<1> QED
  BY <1>1, <1>2

LEMMA DividesSelf == ASSUME NEW a \in Nat \ {0} PROVE a % a = 0
  OBVIOUS

-----------------------------------------------------------------------------
(* The chain of processes.                                                 *)

LEMMA ProcFacts ==
    /\ MaxProc \in Nat /\ 0 \in Procs
    /\ \A k \in Procs : k \in Nat /\ (k > 0 => k - 1 \in Procs) /\ (k < MaxProc => k + 1 \in Procs)
    /\ \A k \in Procs : k < MaxProc \/ k = MaxProc
  BY SieveAssumption DEF Procs

LEMMA InitChain == Init => TypeOK /\ Chain /\ Ends
<1> SUFFICES ASSUME Init PROVE TypeOK /\ Chain /\ Ends
  OBVIOUS
<1>1. TypeOK
  BY SieveAssumption DEF Init, TypeOK, PCs
<1>2. Chain
  BY ProcFacts DEF Init, Chain, Childless, Parental
<1>3. Ends
  BY ProcFacts DEF Init, Ends
<1> QED
  BY <1>1, <1>2, <1>3

\* The types after a read and a write.
LEMMA ReadType ==
    ASSUME TypeOK, NEW j \in Procs, Read(j)
    PROVE  pipe' \in [Procs -> Seq(Nat)] /\ Head(pipe[j]) \in Nat /\ pipe[j] \in Seq(Nat)
<1>1. pipe[j] \in Seq(Nat) /\ pipe[j] # <<>>
  BY DEF TypeOK, Read
<1>2. Head(pipe[j]) \in Nat /\ Tail(pipe[j]) \in Seq(Nat)
  BY <1>1
<1> QED
  BY <1>1, <1>2 DEF TypeOK, Read

LEMMA WriteType ==
    ASSUME TypeOK, NEW j \in Procs, NEW n \in Nat, Write(j, n)
    PROVE  pipe' \in [Procs -> Seq(Nat)]
<1>1. Append(pipe[j], n) \in Seq(Nat)
  BY DEF TypeOK
<1> QED
  BY <1>1 DEF TypeOK, Write

LEMMA StepType ==
    ASSUME TypeOK, Chain, NEW k \in Procs, Step(k)
    PROVE  TypeOK'
<1> USE ProcFacts DEF TypeOK, PCs, Goto
<1>1. CASE Pipe(k)
  BY <1>1 DEF Pipe, R, W
<1>2. CASE Fork(k) \/ ForkFail(k)
  <2>1. CASE Fork(k)
    BY <2>1 DEF Fork
  <2>2. CASE ForkFail(k)
    BY <2>2 DEF ForkFail
  <2> QED
    BY <1>2, <2>1, <2>2
<1>3. CASE Drop(k) \/ Close(k) \/ Wait(k)
  <2>1. CASE Drop(k)
    BY <2>1 DEF Drop
  <2>2. CASE Close(k)
    BY <2>2 DEF Close
  <2>3. CASE Wait(k)
    BY <2>3 DEF Wait
  <2> QED
    BY <1>3, <2>1, <2>2, <2>3
<1>4. CASE k = 0 /\ Send
  <2>1. next \in Nat /\ next' \in 2 .. N + 1
    BY <1>4, SieveAssumption DEF Send, More
  <2>2. pipe' \in [Procs -> Seq(Nat)]
    BY <1>4, <2>1, WriteType DEF Send
  <2> QED
    BY <1>4, <2>1, <2>2 DEF Send
<1>5. CASE k = 0 /\ Sent
  BY <1>5 DEF Sent
<1>6. CASE k > 0 /\ Start(k)
  BY <1>6 DEF Start
<1>7. CASE k > 0 /\ First(k)
  <2>1. pipe' \in [Procs -> Seq(Nat)] /\ Head(pipe[k - 1]) \in Nat
    BY <1>7, ReadType DEF First
  <2> QED
    BY <1>7, <2>1 DEF First
<1>8. CASE k > 0 /\ Nothing(k)
  BY <1>8 DEF Nothing
<1>9. CASE k > 0 /\ ShowPrime(k)
  <2>1. Append(printed, prime[k]) \in Seq(Nat)
    OBVIOUS
  <2> QED
    BY <1>9, <2>1 DEF ShowPrime
<1>10. CASE k > 0 /\ Receive(k)
  <2>1. pipe' \in [Procs -> Seq(Nat)] /\ Head(pipe[k - 1]) \in Nat
    BY <1>10, ReadType DEF Receive
  <2> QED
    BY <1>10, <2>1 DEF Receive
<1>11. CASE k > 0 /\ EndOfInput(k)
  BY <1>11 DEF EndOfInput
<1>12. CASE k > 0 /\ PassOn(k)
  <2>1. pipe' \in [Procs -> Seq(Nat)]
    BY <1>12, WriteType DEF PassOn
  <2> QED
    BY <1>12, <2>1 DEF PassOn
<1> QED
  BY <1>1, <1>2, <1>3, <1>4, <1>5, <1>6, <1>7, <1>8, <1>9, <1>10, <1>11, <1>12
     DEF Step, Both, Parent, Handle

\* What a process reads next: the least number of its input above those it
\* has read.
LEMMA HeadIsNext ==
    ASSUME TypeOK, Stream, NEW k \in Procs, k > 0, pc[k] # "done", pipe[k - 1] # <<>>
    PROVE  LET h == Head(pipe[k - 1])
           IN  /\ Sieving(k - 1) /\ h \in Surv(k - 1)
               /\ Got(k) <= h /\ h < Put(k - 1)
               /\ \A m \in Surv(k - 1) : Got(k) <= m /\ m < Put(k - 1) => h <= m
               /\ Ascending(Tail(pipe[k - 1]))
               /\ Elems(Tail(pipe[k - 1])) = Elems(pipe[k - 1]) \ {h}
<1>1. k - 1 \in Procs /\ k - 1 < MaxProc /\ (k - 1) + 1 = k
  BY ProcFacts DEF Procs
<1>2. Sieving(k - 1)
  BY <1>1 DEF Stream
<1>3. /\ Ascending(pipe[k - 1])
      /\ Elems(pipe[k - 1]) = {m \in Surv(k - 1) : Got(k) <= m /\ m < Put(k - 1)}
  BY <1>1, <1>2 DEF Stream
<1>4. pipe[k - 1] \in Seq(Nat)
  BY <1>1 DEF TypeOK
<1> QED
  BY <1>2, <1>3, <1>4, TailAscending

LEMMA StepChain ==
    ASSUME TypeOK, Chain, Stream, NEW k \in Procs, Step(k)
    PROVE  Chain'
<1> USE ProcFacts DEF TypeOK, Goto, Chain, Childless, Parental
<1>1. CASE Pipe(k)
  BY <1>1 DEF Pipe
<1>2. CASE Fork(k)
  <2>1. /\ prime' = prime
        /\ \A i \in Procs : pc'[i] = IF i = k + 1 THEN "start" ELSE IF i = k THEN "drop" ELSE pc[i]
    BY <1>2 DEF Fork
  <2>2. k < MaxProc /\ k \in Nat /\ k + 1 \in Procs /\ k + 1 > k /\ pc[k] = "fork"
    BY <1>2 DEF Fork
  <2>3. \A i \in Procs : i > k => pc[i] = "none"
    BY <2>2
  <2>4. pc[k + 1] = "none" /\ prime[k + 1] = 0
    BY <2>2, <2>3
  <2>5. \A i \in Procs : i < k => pc[i] \notin Childless
    BY <2>2
  <2>6. pc'[0] \in {"pipe", "fork", "drop", "send", "close", "wait", "done"} /\ prime'[0] = 0
    <3>1. 0 # k + 1
      BY <2>2
    <3> QED
      BY <2>1, <3>1
  <2>7. ASSUME NEW i \in Procs, pc'[i] \in Childless, NEW j \in Procs, j > i PROVE pc'[j] = "none"
    <3>1. i # k /\ ~(i < k)
      BY <2>1, <2>2, <2>5, <2>7
    <3>0. i \in Nat /\ j \in Nat /\ k \in Nat
      OBVIOUS
    <3>2. i > k /\ j > k /\ j # k + 1 /\ j # k
      BY ONLY <2>7, <3>1, <3>0
    <3> QED
      BY <2>1, <2>3, <3>2
  <2>8. ASSUME NEW i \in Procs, pc'[i] \in Parental PROVE i < MaxProc /\ pc'[i + 1] # "none"
    <3>1. CASE i = k
      BY <2>1, <2>2, <3>1
    <3>2. CASE i # k
      <4>1. i # k + 1 /\ pc[i] \in Parental
        BY <2>1, <2>8, <3>2
      <4>2. i < MaxProc /\ pc[i + 1] # "none" /\ i + 1 \in Procs
        BY <4>1
      <4> QED
        BY <2>1, <4>2
    <3> QED
      BY <3>1, <3>2
  <2>9. ASSUME NEW i \in Procs, pc'[i] # "none", NEW j \in 1 .. i - 1 PROVE prime'[j] # 0
    <3>1. CASE i = k + 1
      <4>1. j \in 1 .. k - 1 \/ (j = k /\ k > 0)
        BY <2>2, <3>1
      <4>2. (k > 0 => prime[k] # 0) /\ \A x \in 1 .. k - 1 : prime[x] # 0
        BY <2>2
      <4> QED
        BY <2>1, <4>1, <4>2
    <3>2. CASE i # k + 1
      <4>1. pc[i] # "none"
        BY <2>1, <2>2, <2>9, <3>2
      <4> QED
        BY <2>1, <4>1
    <3> QED
      BY <3>1, <3>2
  <2>10. \A i \in Procs : /\ i > 0 => pc'[i] # "send"
                          /\ pc'[i] \in {"none", "start", "first"} => prime'[i] = 0
                          /\ i > 0 /\ pc'[i] \notin {"none", "start", "first", "done"} => prime'[i] # 0
    BY <2>1, <2>2, <2>4
  <2> QED
    BY <2>6, <2>7, <2>8, <2>9, <2>10
<1>3. CASE ForkFail(k)
  BY <1>3 DEF ForkFail
<1>4. CASE Drop(k) \/ Close(k)
  <2>1. CASE Drop(k)
    BY <2>1 DEF Drop
  <2>2. CASE Close(k)
    BY <2>2 DEF Close
  <2> QED
    BY <1>4, <2>1, <2>2
<1>5. CASE Wait(k)
  BY <1>5 DEF Wait
<1>6. CASE k = 0 /\ (Send \/ Sent)
  BY ZenonT(60), <1>6 DEF Send, Sent
<1>7. CASE k > 0 /\ (Start(k) \/ ShowPrime(k) \/ EndOfInput(k))
  <2>1. CASE Start(k)
    BY ZenonT(60), <1>7, <2>1 DEF Start
  <2>2. CASE ShowPrime(k)
    BY ZenonT(60), <1>7, <2>2 DEF ShowPrime
  <2>3. CASE EndOfInput(k)
    BY ZenonT(60), <1>7, <2>3 DEF EndOfInput
  <2> QED
    BY <1>7, <2>1, <2>2, <2>3
<1>8. CASE k > 0 /\ First(k)
  <2>1. /\ \A i \in Procs : pc'[i] = IF i = k THEN "print" ELSE pc[i]
        /\ \A i \in Procs : prime'[i] = IF i = k THEN Head(pipe[k - 1]) ELSE prime[i]
        /\ pc[k] = "first" /\ pipe[k - 1] # <<>> /\ k # 0
    BY <1>8 DEF First, Read
  <2>2. Head(pipe[k - 1]) \in Surv(k - 1)
    BY <1>8, <2>1, HeadIsNext
  <2>3. Head(pipe[k - 1]) # 0
    BY SMTT(30), <2>2 DEF Surv
  <2>4. \A i \in Procs : \A j \in 1 .. i - 1 : j \in Procs
    BY DEF Procs
  <2>5. \A i \in Procs : pc[i] # "none" => \A j \in 1 .. i - 1 : prime'[j] # 0
    BY <2>1, <2>3, <2>4
  <2>6. pc'[0] \in {"pipe", "fork", "drop", "send", "close", "wait", "done"} /\ prime'[0] = 0
    BY <2>1
  <2>7. \A i \in Procs : pc'[i] \in Childless => \A j \in Procs : j > i => pc'[j] = "none"
    BY ZenonT(60), <2>1
  <2>8. ASSUME NEW i \in Procs, pc'[i] \in Parental PROVE i < MaxProc /\ pc'[i + 1] # "none"
    <3>1. pc[i] \in Parental
      BY <2>1, <2>8
    <3>2. i < MaxProc /\ pc[i + 1] # "none" /\ i + 1 \in Procs
      BY <3>1
    <3> QED
      BY <2>1, <3>2
  <2>9. \A i \in Procs : pc'[i] # "none" => \A j \in 1 .. i - 1 : prime'[j] # 0
    BY <2>1, <2>5
  <2>10. \A i \in Procs : /\ i > 0 => pc'[i] # "send"
                          /\ pc'[i] \in {"none", "start", "first"} => prime'[i] = 0
                          /\ i > 0 /\ pc'[i] \notin {"none", "start", "first", "done"} => prime'[i] # 0
    BY <2>1, <2>3
  <2> QED
    BY <2>6, <2>7, <2>8, <2>9, <2>10
<1>9. CASE k > 0 /\ Nothing(k)
  BY <1>9 DEF Nothing
<1>10. CASE k > 0 /\ Receive(k)
  BY <1>10 DEF Receive
<1>11. CASE k > 0 /\ PassOn(k)
  BY <1>11 DEF PassOn
<1> QED
  BY <1>1, <1>2, <1>3, <1>4, <1>5, <1>6, <1>7, <1>8, <1>9, <1>10, <1>11
     DEF Step, Both, Parent, Handle

-----------------------------------------------------------------------------
(* The ends of the pipes.                                                  *)

LEMMA EndFacts ==
    /\ \A i, j : R(i) # W(j)
    /\ \A i, j : (R(i) = R(j) <=> i = j) /\ (W(i) = W(j) <=> i = j)
  BY DEF R, W

LEMMA StepEnds ==
    ASSUME TypeOK, Chain, Ends, NEW k \in Procs, Step(k)
    PROVE  Ends'
<1> USE ProcFacts, EndFacts DEF TypeOK, Goto
<1> DEFINE Need(i, l, f) ==
             /\ l \in {"fork", "drop", "send", "read", "write", "close"} => W(i) \in f
             /\ l \in {"fork", "drop"} => R(i) \in f
             /\ i > 0 /\ l \in {"start", "first", "print", "pipe", "fork", "drop", "read", "write"}
                  => R(i - 1) \in f
<1>0. \A i \in Procs : Need(i, pc[i], fds[i])
  BY DEF Ends
<1> SUFFICES \A i \in Procs : Need(i, pc'[i], fds'[i])
  BY DEF Ends
<1>1. CASE Pipe(k)
  BY <1>0, <1>1 DEF Pipe
<1>2. CASE Fork(k)
  <2>1. /\ \A i \in Procs : pc'[i] = IF i = k + 1 THEN "start" ELSE IF i = k THEN "drop" ELSE pc[i]
        /\ \A i \in Procs : fds'[i] = IF i = k + 1 THEN fds[k] ELSE fds[i]
    BY <1>2 DEF Fork
  <2>2. pc[k] = "fork" /\ k + 1 \in Procs /\ (k + 1) - 1 = k /\ k # k + 1
    BY SMTT(30), <1>2 DEF Fork
  <2>3. Need(k + 1, pc'[k + 1], fds'[k + 1])
    BY <1>0, <2>1, <2>2
  <2>4. Need(k, pc'[k], fds'[k])
    BY <1>0, <2>1, <2>2
  <2> QED
    BY <1>0, <2>1, <2>3, <2>4
<1>3. CASE ForkFail(k) \/ Wait(k)
  <2>1. /\ \A i \in Procs : pc'[i] = IF i = k THEN "done" ELSE pc[i]
        /\ \A i \in Procs : i # k => fds'[i] = fds[i]
    <3>1. CASE ForkFail(k)
      BY <3>1 DEF ForkFail
    <3>2. CASE Wait(k)
      BY <3>2 DEF Wait
    <3> QED
      BY <1>3, <3>1, <3>2
  <2> QED
    BY <1>0, <2>1
<1>4. CASE Drop(k)
  <2>1. /\ \A i \in Procs : i # k => pc'[i] = pc[i] /\ fds'[i] = fds[i]
        /\ pc'[k] = IF k = 0 THEN "send" ELSE "read"
        /\ fds'[k] = fds[k] \ {R(k)} /\ pc[k] = "drop"
    BY <1>4 DEF Drop
  <2>2. k > 0 => k - 1 # k
    OBVIOUS
  <2>3. Need(k, pc'[k], fds'[k])
    BY <1>0, <2>1, <2>2
  <2> QED
    BY <1>0, <2>1, <2>3
<1>5. CASE Close(k)
  BY <1>0, <1>5 DEF Close
<1>6. CASE k = 0 /\ Send
  BY <1>0, <1>6 DEF Send
<1>7. CASE k = 0 /\ Sent
  BY ZenonT(60), <1>0, <1>7 DEF Sent
<1>8. CASE k > 0 /\ Start(k)
  <2>1. /\ \A i \in Procs : i # k => pc'[i] = pc[i] /\ fds'[i] = fds[i]
        /\ pc'[k] = "first" /\ pc[k] = "start"
        /\ fds'[k] = fds[k] \ {W(k - 1), R(k - 2)}
    BY <1>8 DEF Start, NotNeeded
  <2>2. k - 1 # k - 2
    OBVIOUS
  <2>3. Need(k, pc'[k], fds'[k])
    BY <1>0, <1>8, <2>1, <2>2
  <2> QED
    BY <1>0, <2>1, <2>3
<1>9. CASE k > 0 /\ First(k)
  BY <1>0, <1>9 DEF First
<1>10. CASE k > 0 /\ Nothing(k)
  BY <1>0, <1>10 DEF Nothing
<1>11. CASE k > 0 /\ ShowPrime(k)
  BY <1>0, <1>11 DEF ShowPrime
<1>12. CASE k > 0 /\ Receive(k)
  <2>1. /\ \A i \in Procs : i # k => pc'[i] = pc[i]
        /\ pc'[k] \in {"write", "read"} /\ pc[k] = "read" /\ fds' = fds
    BY <1>12 DEF Receive
  <2> QED
    BY <1>0, <2>1
<1>13. CASE k > 0 /\ EndOfInput(k)
  BY <1>0, <1>13 DEF EndOfInput
<1>14. CASE k > 0 /\ PassOn(k)
  BY SMTT(30), <1>0, <1>14 DEF PassOn
<1> QED
  BY <1>1, <1>2, <1>3, <1>4, <1>5, <1>6, <1>7, <1>8, <1>9, <1>10, <1>11, <1>12, <1>13, <1>14
     DEF Step, Both, Parent, Handle

\* A reader meets the end of its input only after its parent has closed the
\* pipe, or has left.
LEMMA EndedInput ==
    ASSUME TypeOK, Chain, Ends, NEW k \in Procs, k > 0, pc[k] # "none", AtEnd(k - 1)
    PROVE  pc[k - 1] \in {"wait", "done"}
<1>1. k - 1 \in Procs /\ k > k - 1
  BY ProcFacts
<1>2. pc[k - 1] \notin Childless
  BY <1>1 DEF Chain
<1>3. W(k - 1) \notin fds[k - 1]
  BY <1>1 DEF AtEnd, Open
<1>4. pc[k - 1] \notin {"fork", "drop", "send", "read", "write", "close"}
  BY <1>1, <1>3 DEF Ends
<1> QED
  BY <1>1, <1>2, <1>4 DEF TypeOK, PCs, Childless

\* A writer finds no reader only after a failed fork.
LEMMA GoneReader ==
    ASSUME TypeOK, Chain, Ends, Order, NEW k \in Procs, pc[k] \in {"send", "write"}, ~Open(R(k))
    PROVE  failed /\ k < MaxProc /\ pc[k + 1] = "done"
<1>1. k < MaxProc /\ k + 1 \in Procs /\ pc[k + 1] # "none"
  BY ProcFacts DEF Chain, Parental
<1>2. k + 1 > 0 /\ (k + 1) - 1 = k
  BY ProcFacts
<1>3. R(k) \notin fds[k + 1]
  BY <1>1 DEF Open
<1>4. pc[k + 1] \notin {"start", "first", "print", "pipe", "fork", "drop", "read", "write"}
  BY <1>1, <1>2, <1>3 DEF Ends
<1>5. pc[k + 1] \in {"close", "wait", "done"}
  BY <1>1, <1>2, <1>4 DEF TypeOK, PCs, Chain
<1> QED
  BY <1>1, <1>5 DEF Order

\* Steps after which process k is still there.
LEMMA OrderGoesOn ==
    ASSUME TypeOK, Order, NEW k \in Procs, NEW l,
           pc[k] \notin {"wait", "done", "none"}, l \notin {"done", "none"},
           l = "close" => (k > 0 => pc[k - 1] \in {"wait", "done"}),
           l = "wait" => pc[k] = "close",
           \A i \in Procs : pc'[i] = IF i = k THEN l ELSE pc[i],
           \A i \in Procs : i # k => prime'[i] = prime[i],
           failed' = failed
    PROVE  Order'
<1> USE ProcFacts
<1>1. ASSUME NEW i \in Procs, i < MaxProc
      PROVE  /\ pc'[i + 1] \in {"close", "wait"} => pc'[i] \in {"wait", "done"}
             /\ pc'[i + 1] = "done" => pc'[i] \in {"wait", "done"} \/ failed
  <2>1. /\ i + 1 \in Procs /\ i + 1 # i /\ (i + 1) - 1 = i /\ i + 1 > 0
        /\ pc[i + 1] \in {"close", "wait"} => pc[i] \in {"wait", "done"}
        /\ pc[i + 1] = "done" => pc[i] \in {"wait", "done"} \/ failed
    BY <1>1 DEF Order
  <2>2. CASE i + 1 = k
    BY <2>1, <2>2
  <2>3. CASE i + 1 # k
    BY <2>1, <2>3
  <2> QED
    BY <2>2, <2>3
<1>2. ASSUME ~failed, NEW i \in Procs, pc'[i] = "done"
      PROVE  /\ \A j \in Procs : j > i => pc'[j] \in {"done", "none"}
             /\ Sieving(i)' => i < MaxProc /\ pc'[i + 1] = "done"
  <2>1. i # k /\ pc[i] = "done"
    BY <1>2
  <2>2. /\ \A j \in Procs : j > i => pc[j] \in {"done", "none"}
        /\ Sieving(i) => i < MaxProc /\ pc[i + 1] = "done"
    BY <1>2, <2>1 DEF Order
  <2> QED
    BY <2>1, <2>2 DEF Sieving
<1> QED
  BY <1>1, <1>2 DEF Order

\* Steps with which process k ends.
LEMMA OrderEnds ==
    ASSUME TypeOK, Chain, Order, NEW k \in Procs,
           pc[k] \notin {"done", "none"},
           k > 0 => pc[k - 1] \in {"wait", "done"} \/ failed',
           ~failed' =>
               /\ ~failed
               /\ \A j \in Procs : j > k => pc[j] \in {"done", "none"}
               /\ Sieving(k) => k < MaxProc /\ pc[k + 1] = "done",
           \A i \in Procs : pc'[i] = IF i = k THEN "done" ELSE pc[i],
           prime' = prime
    PROVE  Order'
<1> USE ProcFacts
<1>1. ASSUME NEW i \in Procs, i < MaxProc
      PROVE  /\ pc'[i + 1] \in {"close", "wait"} => pc'[i] \in {"wait", "done"}
             /\ pc'[i + 1] = "done" => pc'[i] \in {"wait", "done"} \/ failed'
  <2>1. /\ i + 1 \in Procs /\ i + 1 # i /\ (i + 1) - 1 = i /\ i + 1 > 0
        /\ pc[i + 1] \in {"close", "wait"} => pc[i] \in {"wait", "done"}
        /\ pc[i + 1] = "done" => pc[i] \in {"wait", "done"} \/ failed
    BY <1>1 DEF Order
  <2>2. CASE i + 1 = k
    BY <2>1, <2>2
  <2>3. CASE i + 1 # k
    BY <2>1, <2>3
  <2> QED
    BY <2>2, <2>3
<1>2. ASSUME ~failed', NEW i \in Procs, pc'[i] = "done"
      PROVE  /\ \A j \in Procs : j > i => pc'[j] \in {"done", "none"}
             /\ Sieving(i)' => i < MaxProc /\ pc'[i + 1] = "done"
  <2>1. Sieving(i)' = Sieving(i)
    BY DEF Sieving
  <2>2. CASE i = k
    BY <1>2, <2>1, <2>2
  <2>3. CASE i # k
    <3>1. /\ \A j \in Procs : j > i => pc[j] \in {"done", "none"}
          /\ Sieving(i) => i < MaxProc /\ pc[i + 1] = "done" /\ i + 1 \in Procs
      BY <1>2, <2>3 DEF Order
    <3> QED
      BY <2>1, <3>1
  <2> QED
    BY <2>2, <2>3
<1> QED
  BY <1>1, <1>2 DEF Order

LEMMA StepOrder ==
    ASSUME TypeOK, Chain, Ends, Order, NEW k \in Procs, Step(k)
    PROVE  Order'
<1> USE ProcFacts DEF Goto
<1>0. pc \in [Procs -> PCs] /\ prime \in [Procs -> Nat]
  BY DEF TypeOK
<1>1. CASE Pipe(k)
  <2>1. /\ \A i \in Procs : pc'[i] = IF i = k THEN "fork" ELSE pc[i]
        /\ pc[k] = "pipe" /\ prime' = prime /\ failed' = failed
    BY <1>0, <1>1 DEF Pipe
  <2> QED
    BY <2>1, OrderGoesOn
<1>2. CASE Fork(k)
  <2>1. /\ \A i \in Procs : pc'[i] = IF i = k + 1 THEN "start" ELSE IF i = k THEN "drop" ELSE pc[i]
        /\ pc[k] = "fork" /\ prime' = prime /\ failed' = failed
    BY <1>0, <1>2 DEF Fork
  <2>2. \A i \in Procs : i > k => pc[i] = "none"
    BY <2>1 DEF Chain, Childless
  <2>3. ASSUME NEW i \in Procs, i < MaxProc
        PROVE  /\ pc'[i + 1] \in {"close", "wait"} => pc'[i] \in {"wait", "done"}
               /\ pc'[i + 1] = "done" => pc'[i] \in {"wait", "done"} \/ failed'
    <3>1. /\ i + 1 \in Procs
          /\ pc[i + 1] \in {"close", "wait"} => pc[i] \in {"wait", "done"}
          /\ pc[i + 1] = "done" => pc[i] \in {"wait", "done"} \/ failed
      BY <2>3 DEF Order
    <3>2. CASE i < k
      <4>1. i # k /\ i # k + 1
        BY <3>2
      <4> QED
        BY <2>1, <3>1, <4>1
    <3>3. CASE ~(i < k)
      <4>1. i + 1 > k /\ i + 1 # k
        BY <3>3
      <4>2. pc[i + 1] = "none"
        BY <2>2, <3>1, <4>1
      <4> QED
        BY <2>1, <3>1, <4>1, <4>2
    <3> QED
      BY <3>2, <3>3
  <2>4. ASSUME ~failed', NEW i \in Procs, pc'[i] = "done"
        PROVE  /\ \A j \in Procs : j > i => pc'[j] \in {"done", "none"}
               /\ Sieving(i)' => i < MaxProc /\ pc'[i + 1] = "done"
    <3>1. i # k /\ i # k + 1 /\ pc[i] = "done"
      BY <2>1, <2>4
    <3>2. \A j \in Procs : j > i => pc[j] \in {"done", "none"}
      BY <2>1, <2>4, <3>1 DEF Order
    <3>3. ~(i > k) /\ ~(k > i)
      BY <2>1, <2>2, <3>1, <3>2
    <3> QED
      BY <3>1, <3>3
  <2> QED
    BY <2>3, <2>4 DEF Order
<1>3. CASE ForkFail(k)
  <2>1. /\ \A i \in Procs : pc'[i] = IF i = k THEN "done" ELSE pc[i]
        /\ pc[k] = "fork" /\ prime' = prime /\ failed'
    BY <1>0, <1>3 DEF ForkFail
  <2> QED
    BY <2>1, OrderEnds
<1>4. CASE Drop(k)
  <2>1. /\ \A i \in Procs : pc'[i] = IF i = k THEN IF k = 0 THEN "send" ELSE "read" ELSE pc[i]
        /\ pc[k] = "drop" /\ prime' = prime /\ failed' = failed
    BY <1>0, <1>4 DEF Drop
  <2> QED
    BY <2>1, OrderGoesOn
<1>5. CASE Close(k)
  <2>1. /\ \A i \in Procs : pc'[i] = IF i = k THEN "wait" ELSE pc[i]
        /\ pc[k] = "close" /\ prime' = prime /\ failed' = failed
    BY <1>0, <1>5 DEF Close
  <2> QED
    BY <2>1, OrderGoesOn
<1>6. CASE Wait(k)
  <2>1. /\ \A i \in Procs : pc'[i] = IF i = k THEN "done" ELSE pc[i]
        /\ pc[k] = "wait" /\ pc[k + 1] = "done" /\ prime' = prime /\ failed' = failed
    BY <1>0, <1>6 DEF Wait, ChildDone
  <2>2. k < MaxProc /\ k + 1 \in Procs
    BY <2>1 DEF Chain, Parental
  <2>3. k > 0 => pc[k - 1] \in {"wait", "done"}
    <3>1. k > 0 => k - 1 \in Procs /\ k - 1 < MaxProc /\ (k - 1) + 1 = k
      BY <2>2
    <3> QED
      BY <2>1, <3>1 DEF Order
  <2>4. ~failed => \A j \in Procs : j > k => pc[j] \in {"done", "none"}
    <3>1. ~failed => \A j \in Procs : j > k + 1 => pc[j] \in {"done", "none"}
      BY <2>1, <2>2 DEF Order
    <3>2. \A j \in Procs : j > k => j > k + 1 \/ j = k + 1
      OBVIOUS
    <3> QED
      BY <2>1, <3>1, <3>2
  <2> QED
    BY <2>1, <2>2, <2>3, <2>4, OrderEnds
<1>7. CASE k = 0 /\ Send
  <2>1. /\ \A i \in Procs : pc'[i] = IF i = k THEN "send" ELSE pc[i]
        /\ pc[k] = "send" /\ prime' = prime /\ failed' = failed
    BY <1>0, <1>7 DEF Send
  <2> QED
    BY <2>1, OrderGoesOn
<1>8. CASE k = 0 /\ Sent
  <2>1. /\ \A i \in Procs : pc'[i] = IF i = k THEN "close" ELSE pc[i]
        /\ pc[k] = "send" /\ prime' = prime /\ failed' = failed /\ ~(k > 0)
    BY <1>0, <1>8 DEF Sent
  <2> QED
    BY <2>1, OrderGoesOn
<1>9. CASE k > 0 /\ Start(k)
  <2>1. /\ \A i \in Procs : pc'[i] = IF i = k THEN "first" ELSE pc[i]
        /\ pc[k] = "start" /\ prime' = prime /\ failed' = failed
    BY <1>0, <1>9 DEF Start
  <2> QED
    BY <2>1, OrderGoesOn
<1>10. CASE k > 0 /\ First(k)
  <2>1. /\ \A i \in Procs : pc'[i] = IF i = k THEN "print" ELSE pc[i]
        /\ \A i \in Procs : i # k => prime'[i] = prime[i]
        /\ pc[k] = "first" /\ failed' = failed
    BY <1>0, <1>10 DEF First
  <2> QED
    BY <2>1, OrderGoesOn
<1>11. CASE k > 0 /\ Nothing(k)
  <2>1. /\ \A i \in Procs : pc'[i] = IF i = k THEN "done" ELSE pc[i]
        /\ pc[k] = "first" /\ prime' = prime /\ failed' = failed /\ AtEnd(k - 1)
    BY <1>0, <1>11 DEF Nothing
  <2>2. pc[k - 1] \in {"wait", "done"}
    BY <1>11, <2>1, EndedInput
  <2>3. \A j \in Procs : j > k => pc[j] \in {"done", "none"}
    BY <2>1 DEF Chain, Childless
  <2>4. ~Sieving(k)
    BY <1>11, <2>1 DEF Chain, Sieving
  <2> QED
    BY <2>1, <2>2, <2>3, <2>4, OrderEnds
<1>12. CASE k > 0 /\ ShowPrime(k)
  <2>1. /\ \A i \in Procs : pc'[i] = IF i = k THEN "pipe" ELSE pc[i]
        /\ pc[k] = "print" /\ prime' = prime /\ failed' = failed
    BY <1>0, <1>12 DEF ShowPrime
  <2> QED
    BY <2>1, OrderGoesOn
<1>13. CASE k > 0 /\ Receive(k)
  <2> DEFINE l == IF Passes(Head(pipe[k - 1]), prime[k]) THEN "write" ELSE "read"
  <2>1. /\ \A i \in Procs : pc'[i] = IF i = k THEN l ELSE pc[i]
        /\ pc[k] = "read" /\ prime' = prime /\ failed' = failed
    BY <1>0, <1>13 DEF Receive
  <2>2. l \in {"write", "read"}
    OBVIOUS
  <2> HIDE DEF l
  <2> QED
    BY <2>1, <2>2, OrderGoesOn
<1>14. CASE k > 0 /\ EndOfInput(k)
  <2>1. /\ \A i \in Procs : pc'[i] = IF i = k THEN "close" ELSE pc[i]
        /\ pc[k] = "read" /\ prime' = prime /\ failed' = failed /\ AtEnd(k - 1)
    BY <1>0, <1>14 DEF EndOfInput
  <2>2. pc[k - 1] \in {"wait", "done"}
    BY <1>14, <2>1, EndedInput
  <2> QED
    BY ZenonT(60), <2>1, <2>2, OrderGoesOn
<1>15. CASE k > 0 /\ PassOn(k)
  <2>1. /\ \A i \in Procs : pc'[i] = IF i = k THEN "read" ELSE pc[i]
        /\ pc[k] = "write" /\ prime' = prime /\ failed' = failed
    BY <1>0, <1>15 DEF PassOn
  <2> QED
    BY <2>1, OrderGoesOn
<1> QED
  BY <1>1, <1>2, <1>3, <1>4, <1>5, <1>6, <1>7, <1>8, <1>9, <1>10, <1>11, <1>12, <1>13, <1>14, <1>15
     DEF Step, Both, Parent, Handle

LEMMA StepLost ==
    ASSUME TypeOK, Chain, Ends, Order, NothingLost, NEW k \in Procs, Step(k)
    PROVE  NothingLost'
<1>1. CASE Send \/ PassOn(k)
  <2>1. failed' = failed
    BY <1>1 DEF Send, PassOn
  <2>2. CASE Send
    <3>1. ~Open(R(0)) => failed
      BY <2>2, GoneReader, ProcFacts DEF Send
    <3>2. ~Open(R(0)) \/ (lost' <=> lost)
      BY <2>2 DEF Send, Write
    <3> QED
      BY <2>1, <3>1, <3>2 DEF NothingLost
  <2>3. CASE PassOn(k)
    <3>1. ~Open(R(k)) => failed
      BY <2>3, GoneReader DEF PassOn
    <3>2. ~Open(R(k)) \/ (lost' <=> lost)
      BY <2>3 DEF PassOn, Write
    <3> QED
      BY <2>1, <3>1, <3>2 DEF NothingLost
  <2> QED
    BY <1>1, <2>2, <2>3
<1>2. CASE ForkFail(k)
  BY <1>2 DEF ForkFail, NothingLost
<1>3. CASE ~(Send \/ PassOn(k) \/ ForkFail(k))
  <2>1. lost' = lost /\ failed' = failed
    BY <1>3 DEF Step, Both, Parent, Handle, Pipe, Fork, Drop, Close, Wait, Sent, Start, First,
                Nothing, ShowPrime, Receive, EndOfInput
  <2> QED
    BY <2>1 DEF NothingLost
<1> QED
  BY <1>1, <1>2, <1>3

-----------------------------------------------------------------------------
(* The console.                                                            *)

LEMMA StepConsole ==
    ASSUME TypeOK, Chain, Console, NEW k \in Procs, Step(k)
    PROVE  Console'
<1> USE ProcFacts
<1>0. /\ pc \in [Procs -> PCs] /\ prime \in [Procs -> Nat]
      /\ printed \in Seq(Nat) /\ Len(printed) \in Nat /\ Len(printed) <= MaxProc
  BY DEF TypeOK, Console
<1>1. CASE k > 0 /\ First(k)
  <2>1. /\ \A i \in Procs : pc'[i] = IF i = k THEN "print" ELSE pc[i]
        /\ \A i \in Procs : i # k => prime'[i] = prime[i]
        /\ pc[k] = "first" /\ printed' = printed
    BY <1>0, <1>1 DEF First, Goto
  <2>2. prime[k] = 0
    BY <2>1 DEF Chain
  <2>3. ~(k <= Len(printed))
    BY <1>1, <2>2 DEF Console
  <2>4. \A i \in 1 .. Len(printed) : i \in Procs /\ i # k
    BY <1>0, <2>3 DEF Procs
  <2> QED
    BY <1>0, <2>1, <2>3, <2>4 DEF Console
<1>2. CASE k > 0 /\ ShowPrime(k)
  <2>1. /\ \A i \in Procs : pc'[i] = IF i = k THEN "pipe" ELSE pc[i]
        /\ pc[k] = "print" /\ prime' = prime /\ printed' = Append(printed, prime[k])
        /\ prime[k] # 0
    BY <1>0, <1>2 DEF ShowPrime, Goto, Chain
  <2>2. ~(k <= Len(printed))
    BY <1>2, <2>1 DEF Console
  <2>3. \A j \in 1 .. k - 1 : j \in Procs /\ prime[j] # 0 /\ pc[j] # "print"
    <3>1. \A j \in 1 .. k - 1 : j \in Procs /\ k > j
      BY DEF Procs
    <3> QED
      BY <2>1, <3>1 DEF Chain, Childless
  <2>4. \A j \in 1 .. k - 1 : j <= Len(printed)
    BY <2>3 DEF Console
  <2>5. Len(printed) = k - 1
    BY <1>0, <1>2, <2>2, <2>4
  <2>6. /\ Len(printed') = k /\ printed'[k] = prime[k]
        /\ \A i \in 1 .. k - 1 : printed'[i] = printed[i]
    BY <1>0, <1>2, <2>1, <2>5
  <2>7. k <= MaxProc
    BY DEF Procs
  <2>8. ASSUME NEW i \in Procs, i > 0
        PROVE  i <= Len(printed') <=> prime'[i] # 0 /\ pc'[i] # "print"
    <3>1. CASE i = k
      BY <2>1, <2>6, <3>1
    <3>2. CASE i # k
      <4>1. i <= Len(printed') <=> i <= Len(printed)
        BY <2>5, <2>6, <3>2
      <4> QED
        BY <2>1, <2>8, <3>2, <4>1 DEF Console
    <3> QED
      BY <3>1, <3>2
  <2>9. ASSUME NEW i \in 1 .. Len(printed') PROVE printed'[i] = prime'[i]
    <3>1. i = k \/ (i \in 1 .. k - 1 /\ i \in 1 .. Len(printed))
      BY <2>5, <2>6
    <3> QED
      BY <2>1, <2>6, <3>1 DEF Console
  <2> QED
    BY <2>6, <2>7, <2>8, <2>9 DEF Console
<1>3. CASE ~(k > 0 /\ (First(k) \/ ShowPrime(k)))
  <2>1. printed' = printed /\ prime' = prime
    BY <1>3 DEF Step, Both, Parent, Handle, Pipe, Fork, ForkFail, Drop, Close, Wait, Send, Sent,
                Start, Nothing, Receive, EndOfInput, PassOn
  <2>2. \A i \in Procs : pc'[i] = "print" <=> pc[i] = "print"
    <3>1. CASE Fork(k)
      <4>1. pc[k] = "fork" /\ k + 1 \in Procs /\ k + 1 > k
        BY <3>1 DEF Fork
      <4>2. pc[k + 1] = "none"
        BY <4>1 DEF Chain, Childless
      <4>3. \A i \in Procs : pc'[i] = IF i = k + 1 THEN "start" ELSE IF i = k THEN "drop" ELSE pc[i]
        BY <1>0, <3>1 DEF Fork
      <4> QED
        BY <4>1, <4>2, <4>3
    <3>2. CASE ~Fork(k)
      <4>1. pc[k] # "print" /\ \E l \in PCs \ {"print"} : pc' = [pc EXCEPT ![k] = l]
        <5>1. CASE Both(k)
          BY <3>2, <5>1 DEF Both, Goto, Pipe, ForkFail, Drop, Close, Wait, PCs
        <5>2. CASE k = 0 /\ Send
          BY <1>0, <5>2 DEF Send, PCs
        <5>3. CASE k = 0 /\ Sent
          BY <1>0, <5>3 DEF Sent, Goto, PCs
        <5>4. CASE k > 0 /\ (Start(k) \/ Nothing(k) \/ EndOfInput(k) \/ PassOn(k))
          BY <5>4 DEF Goto, Start, Nothing, EndOfInput, PassOn, PCs
        <5>5. CASE k > 0 /\ Receive(k)
          BY <5>5 DEF Goto, Receive, PCs
        <5> QED
          BY <1>3, <5>1, <5>2, <5>3, <5>4, <5>5 DEF Step, Parent, Handle
      <4> QED
        BY <1>0, <4>1
    <3> QED
      BY <3>1, <3>2
  <2> QED
    BY <2>1, <2>2 DEF Console
<1> QED
  BY <1>1, <1>2, <1>3

-----------------------------------------------------------------------------
(* The numbers on their way through the chain.                             *)

Data == Stream /\ Least /\ Last

\* The sieve of process k.
LEMMA SurvStep ==
    ASSUME NEW k \in Procs, k > 0
    PROVE  Surv(k) = {m \in Surv(k - 1) : m % prime[k] # 0}
<1>1. k \in Nat
  BY ProcFacts
<1>2. \A j : j \in 1 .. k <=> j \in 1 .. k - 1 \/ j = k
  BY <1>1
<1> QED
  BY <1>2 DEF Surv

LEMMA SurvNat == \A k : \A m \in Surv(k) : m \in Nat /\ 2 <= m /\ m <= N
  BY SieveAssumption DEF Surv

LEMMA SurvSame ==
    ASSUME NEW k \in Procs, \A j \in Procs : j <= k => prime'[j] = prime[j]
    PROVE  Surv(k)' = Surv(k)
<1>1. \A j \in 1 .. k : j \in Procs /\ j <= k
  BY ProcFacts DEF Procs
<1>2. \A j \in 1 .. k : prime'[j] = prime[j]
  BY <1>1
<1> QED
  BY <1>2 DEF Surv

LEMMA GotPutNat ==
    ASSUME TypeOK, NEW k \in Procs
    PROVE  Got(k) \in Nat /\ Put(k) \in Nat
  BY SieveAssumption DEF TypeOK, Got, Put

\* Steps that move no number.
LEMMA NeutralStep ==
    ASSUME TypeOK, Data, prime' = prime, num' = num, next' = next, pipe' = pipe,
           \A i \in Procs : (pc'[i] = "write" <=> pc[i] = "write"),
           \A i \in Procs : pc[i] = "done" => pc'[i] = "done",
           \A i \in Procs : pc'[i] \in Childless \cup {"drop"} => pc[i] \in Childless \cup {"drop"}
    PROVE  /\ Data'
           /\ \A i \in Procs : Surv(i)' = Surv(i) /\ Got(i)' = Got(i) /\ Put(i)' = Put(i)
<1>1. \A i : Surv(i)' = Surv(i) /\ Got(i)' = Got(i) /\ Sieving(i)' = Sieving(i)
  BY DEF Surv, Got, Sieving
<1>2. \A i \in Procs : Put(i)' = Put(i)
  BY <1>1 DEF Put
<1>3. Stream'
  BY <1>1, <1>2, ProcFacts DEF Data, Stream
<1>4. Least'
  BY <1>1 DEF Data, Least
<1>5. Last'
  BY <1>1 DEF Data, Last
<1> QED
  BY <1>1, <1>2, <1>3, <1>4, <1>5 DEF Data

\* A process that meets the end of its input has read all of it.
LEMMA AllRead ==
    ASSUME TypeOK, Chain, Ends, Data, Complete, NEW k \in Procs, k > 0,
           pc[k] \notin {"none", "done"}, AtEnd(k - 1)
    PROVE  \A m \in Surv(k - 1) : m < Got(k)
<1>1. k - 1 \in Procs /\ k - 1 < MaxProc /\ (k - 1) + 1 = k
  BY ProcFacts DEF Procs
<1>2. \A m \in Surv(k - 1) : m < Put(k - 1)
  BY <1>1, EndedInput DEF Complete
<1>3. Sieving(k - 1)
  <2>1. k - 1 = 0 \/ k - 1 \in 1 .. k - 1
    BY ProcFacts
  <2> QED
    BY <2>1 DEF Chain, Sieving
<1>4. Elems(pipe[k - 1]) = {m \in Surv(k - 1) : Got(k) <= m /\ m < Put(k - 1)}
  BY <1>1, <1>3 DEF Data, Stream
<1>5. Elems(pipe[k - 1]) = {}
  BY DEF AtEnd, Elems
<1>6. Got(k) \in Nat /\ Put(k - 1) \in Nat
  BY <1>1, GotPutNat
<1> QED
  BY <1>2, <1>4, <1>5, <1>6, SurvNat

LEMMA CompleteKeep ==
    ASSUME TypeOK, Complete, prime' = prime,
           \A i \in Procs : Surv(i)' = Surv(i) /\ Put(i)' = Put(i),
           \A i \in Procs : i < MaxProc /\ pc'[i] \in {"close", "wait", "done"} /\ pc'[i + 1] # "none" =>
               \/ pc[i] \in {"close", "wait", "done"} /\ pc[i + 1] # "none"
               \/ \A m \in Surv(i) : m < Put(i),
           \A i \in Procs : i > 0 /\ pc'[i] = "done" /\ prime[i] = 0 => pc[i] = "done" \/ Surv(i - 1) = {}
    PROVE  Complete'
<1>1. ASSUME NEW i \in Procs, i < MaxProc, pc'[i] \in {"close", "wait", "done"}, pc'[i + 1] # "none"
      PROVE  \A m \in Surv(i)' : m < Put(i)'
  BY <1>1 DEF Complete
<1>2. ASSUME NEW i \in Procs, i > 0, pc'[i] = "done", prime'[i] = 0
      PROVE  Surv(i - 1)' = {}
  <2>1. i - 1 \in Procs
    BY <1>2, ProcFacts
  <2> QED
    BY <1>2, <2>1 DEF Complete
<1> QED
  BY <1>1, <1>2 DEF Complete

\* The steps that neither read nor write a number.
Quiet(k) ==
    \/ Pipe(k) \/ Fork(k) \/ ForkFail(k) \/ Drop(k) \/ Close(k) \/ Wait(k) \/ (k = 0 /\ Sent)
    \/ (k > 0 /\ (Start(k) \/ Nothing(k) \/ ShowPrime(k) \/ EndOfInput(k)))

LEMMA QuietData ==
    ASSUME TypeOK, Chain, Ends, Data, Complete, NEW k \in Procs, Quiet(k)
    PROVE  Data' /\ Complete'
<1> USE ProcFacts
<1>0. pc \in [Procs -> PCs]
  BY DEF TypeOK
<1>1. prime' = prime /\ num' = num /\ next' = next /\ pipe' = pipe
  BY DEF Quiet, Pipe, Fork, ForkFail, Drop, Close, Wait, Sent, Start, Nothing, ShowPrime, EndOfInput
<1> DEFINE Same == /\ Data'
                   /\ \A i \in Procs : Surv(i)' = Surv(i) /\ Got(i)' = Got(i) /\ Put(i)' = Put(i)
<1>2. CASE Fork(k)
  <2>1. /\ \A i \in Procs : pc'[i] = IF i = k + 1 THEN "start" ELSE IF i = k THEN "drop" ELSE pc[i]
        /\ pc[k] = "fork" /\ k + 1 \in Procs /\ k + 1 > k /\ k + 1 # k
    BY <1>0, <1>2 DEF Fork
  <2>2. pc[k + 1] = "none"
    BY <2>1 DEF Chain, Childless
  <2>3. Same
    BY <1>1, <2>1, <2>2, NeutralStep DEF Childless
  <2>4. ASSUME NEW i \in Procs, i < MaxProc, pc'[i] \in {"close", "wait", "done"}, pc'[i + 1] # "none"
        PROVE  pc[i] \in {"close", "wait", "done"} /\ pc[i + 1] # "none"
    <3>1. i # k /\ i # k + 1 /\ i + 1 # k + 1 /\ i + 1 \in Procs
      BY <2>1, <2>4
    <3> QED
      BY <2>1, <2>4, <3>1
  <2>5. \A i \in Procs : pc'[i] = "done" => pc[i] = "done"
    BY <2>1
  <2> QED
    BY <1>1, <2>3, <2>4, <2>5, CompleteKeep
<1>3. ASSUME NEW l, \A i \in Procs : pc'[i] = IF i = k THEN l ELSE pc[i],
             pc[k] \notin {"none", "done", "write"},
             l \notin {"none", "write"},
             l \in Childless \cup {"drop"} => pc[k] \in Childless,
             l \in {"close", "wait", "done"} =>
                 pc[k] \in Childless \cup {"close", "wait"} \/ \A m \in Surv(k) : m < Put(k),
             l = "done" /\ k > 0 /\ prime[k] = 0 => Surv(k - 1) = {}
      PROVE  Data' /\ Complete'
  <2>2. Same
    BY <1>1, <1>3, NeutralStep
  <2>3. ASSUME NEW i \in Procs, i < MaxProc, pc'[i] \in {"close", "wait", "done"}, pc'[i + 1] # "none"
        PROVE  \/ pc[i] \in {"close", "wait", "done"} /\ pc[i + 1] # "none"
               \/ \A m \in Surv(i) : m < Put(i)
    <3>1. i + 1 \in Procs /\ i + 1 > i
      BY <2>3
    <3>2. pc[i + 1] # "none"
      BY <1>3, <2>3, <3>1
    <3>3. pc[i] \notin Childless
      BY <3>1, <3>2 DEF Chain
    <3> QED
      BY <1>3, <2>3, <3>2, <3>3
  <2>4. \A i \in Procs : i > 0 /\ pc'[i] = "done" /\ prime[i] = 0 => pc[i] = "done" \/ Surv(i - 1) = {}
    BY <1>3
  <2> QED
    BY <1>1, <2>2, <2>3, <2>4, CompleteKeep
<1> USE DEF Goto, Childless
<1>4. CASE Pipe(k)
  <2>1. (\A i \in Procs : pc'[i] = IF i = k THEN "fork" ELSE pc[i]) /\ pc[k] = "pipe"
    BY <1>0, <1>4 DEF Pipe
  <2> QED
    BY <2>1, <1>3
<1>5. CASE ForkFail(k)
  <2>1. k > 0 => prime[k] # 0
    BY <1>5 DEF ForkFail, Chain
  <2>2. (\A i \in Procs : pc'[i] = IF i = k THEN "done" ELSE pc[i]) /\ pc[k] = "fork"
    BY <1>0, <1>5 DEF ForkFail
  <2> QED
    BY <2>1, <2>2, <1>3
<1>6. CASE Drop(k)
  <2>1. (\A i \in Procs : pc'[i] = IF i = k THEN IF k = 0 THEN "send" ELSE "read" ELSE pc[i]) /\ pc[k] = "drop"
    BY <1>0, <1>6 DEF Drop
  <2> QED
    BY <2>1, <1>3
<1>7. CASE Close(k)
  <2>1. (\A i \in Procs : pc'[i] = IF i = k THEN "wait" ELSE pc[i]) /\ pc[k] = "close"
    BY <1>0, <1>7 DEF Close
  <2> QED
    BY <2>1, <1>3
<1>8. CASE Wait(k)
  <2>1. k > 0 => prime[k] # 0
    BY <1>8 DEF Wait, Chain
  <2>2. (\A i \in Procs : pc'[i] = IF i = k THEN "done" ELSE pc[i]) /\ pc[k] = "wait"
    BY <1>0, <1>8 DEF Wait
  <2> QED
    BY <2>1, <2>2, <1>3
<1>9. CASE k = 0 /\ Sent
  <2>1. next \in Nat /\ ~(next <= N) /\ Put(0) = next
    BY <1>9 DEF Sent, More, TypeOK, Put
  <2>2. \A m \in Surv(0) : m < Put(0)
    BY <2>1, SurvNat, SieveAssumption
  <2>3. (\A i \in Procs : pc'[i] = IF i = k THEN "close" ELSE pc[i]) /\ pc[k] = "send"
    BY <1>0, <1>9 DEF Sent
  <2> QED
    BY <1>9, <2>2, <2>3, <1>3
<1>10. CASE k > 0 /\ Start(k)
  <2>1. (\A i \in Procs : pc'[i] = IF i = k THEN "first" ELSE pc[i]) /\ pc[k] = "start"
    BY <1>0, <1>10 DEF Start
  <2> QED
    BY <2>1, <1>3
<1>11. CASE k > 0 /\ Nothing(k)
  <2>1. pc[k] = "first" /\ AtEnd(k - 1) /\ \A i \in Procs : pc'[i] = IF i = k THEN "done" ELSE pc[i]
    BY <1>0, <1>11 DEF Nothing
  <2>2. prime[k] = 0 /\ Got(k) = 2
    BY <2>1 DEF Chain, Got
  <2>3. \A m \in Surv(k - 1) : m < 2
    BY <1>11, <2>1, <2>2, AllRead
  <2>4. Surv(k - 1) = {}
    BY <2>3, SurvNat
  <2> QED
    BY <2>1, <2>4, <1>3
<1>12. CASE k > 0 /\ ShowPrime(k)
  <2>1. (\A i \in Procs : pc'[i] = IF i = k THEN "pipe" ELSE pc[i]) /\ pc[k] = "print"
    BY <1>0, <1>12 DEF ShowPrime
  <2> QED
    BY <2>1, <1>3
<1>13. CASE k > 0 /\ EndOfInput(k)
  <2>1. pc[k] = "read" /\ AtEnd(k - 1) /\ \A i \in Procs : pc'[i] = IF i = k THEN "close" ELSE pc[i]
    BY <1>0, <1>13 DEF EndOfInput
  <2>2. Put(k) = Got(k)
    BY <1>13, <2>1 DEF Put
  <2>3. \A m \in Surv(k - 1) : m < Got(k)
    BY <1>13, <2>1, AllRead
  <2>4. \A m \in Surv(k) : m < Put(k)
    BY <1>13, <2>2, <2>3, SurvStep
  <2> QED
    BY <2>1, <2>4, <1>3
<1> QED
  BY <1>2, <1>4, <1>5, <1>6, <1>7, <1>8, <1>9, <1>10, <1>11, <1>12, <1>13 DEF Quiet

\* What main() and handle() write: the next number that the primes leave.
LEMMA WriterStep ==
    ASSUME TypeOK, Chain, Ends, Order, Data, Complete, NEW k \in Procs, NEW n \in Nat,
           pc[k] \in {"send", "write"}, n = Put(k), n \in Surv(k), Sieving(k), Write(k, n),
           prime' = prime, num' = num,
           \A i \in Procs : i # k => Put(i)' = Put(i), Put(k)' = n + 1,
           \A i \in Procs : i # k => pc'[i] = pc[i], pc'[k] \in {"send", "read"}
    PROVE  Data' /\ Complete'
<1> USE ProcFacts
<1>1. \A i : Surv(i)' = Surv(i) /\ Got(i)' = Got(i) /\ Sieving(i)' = Sieving(i)
  BY DEF Surv, Got, Sieving
<1>2. \A i \in Procs : i # k => pipe'[i] = pipe[i]
  BY DEF Write, TypeOK
<1>3. ASSUME NEW i \in Procs, i < MaxProc, i # k
      PROVE  /\ ~Sieving(i)' => pipe'[i] = <<>>
             /\ Sieving(i)' /\ pc'[i + 1] # "done" =>
                  /\ Ascending(pipe'[i])
                  /\ Elems(pipe'[i]) = {m \in Surv(i)' : Got(i + 1)' <= m /\ m < Put(i)'}
                  /\ Got(i + 1)' <= Put(i)'
  <2>1. i + 1 \in Procs
    BY <1>3
  <2>2. pc'[i + 1] # "done" => pc[i + 1] # "done"
    BY <2>1
  <2> QED
    BY <1>1, <1>2, <1>3, <2>2 DEF Data, Stream
<1>4. ASSUME k < MaxProc, pc'[k + 1] # "done"
      PROVE  /\ Ascending(pipe'[k])
             /\ Elems(pipe'[k]) = {m \in Surv(k)' : Got(k + 1)' <= m /\ m < Put(k)'}
             /\ Got(k + 1)' <= Put(k)'
  <2>1. k + 1 \in Procs /\ k + 1 # k
    BY <1>4
  <2>2. pc[k + 1] # "done"
    BY <1>4, <2>1
  <2>3. /\ Ascending(pipe[k])
        /\ Elems(pipe[k]) = {m \in Surv(k) : Got(k + 1) <= m /\ m < n}
        /\ Got(k + 1) <= n
    BY <1>4, <2>2 DEF Data, Stream
  <2>4. pipe[k] \in Seq(Nat) /\ Got(k + 1) \in Nat
    BY <2>1, GotPutNat DEF TypeOK
  <2>5. pipe'[k] = Append(pipe[k], n)
    BY <2>2, GoneReader DEF Write, TypeOK
  <2>6. \A m \in Elems(pipe[k]) : m < n
    BY <2>3
  <2>7. Ascending(pipe'[k]) /\ Elems(pipe'[k]) = Elems(pipe[k]) \cup {n}
    BY <2>3, <2>4, <2>5, <2>6, AppendAscending
  <2>8. {m \in Surv(k) : Got(k + 1) <= m /\ m < n + 1} = {m \in Surv(k) : Got(k + 1) <= m /\ m < n} \cup {n}
    <3>1. \A m \in Surv(k) : m < n + 1 <=> m < n \/ m = n
      BY SurvNat
    <3> QED
      BY <2>3, <3>1
  <2> QED
    BY <1>1, <2>3, <2>4, <2>7, <2>8
<1>5. Stream'
  BY <1>1, <1>3, <1>4 DEF Stream
<1>6. Least'
  BY <1>1 DEF Data, Least
<1>7. Last'
  BY <1>1 DEF Data, Last, Childless
<1>8. Complete'
  <2>1. ASSUME NEW i \in Procs, i < MaxProc, pc'[i] \in {"close", "wait", "done"}, pc'[i + 1] # "none"
        PROVE  \A m \in Surv(i)' : m < Put(i)'
    <3>1. i # k /\ i + 1 \in Procs /\ pc[i] \in {"close", "wait", "done"}
      BY <2>1
    <3>2. pc[i + 1] # "none"
      BY <2>1, <3>1
    <3> QED
      BY <1>1, <2>1, <3>1, <3>2 DEF Complete
  <2>2. ASSUME NEW i \in Procs, i > 0, pc'[i] = "done", prime'[i] = 0
        PROVE  Surv(i - 1)' = {}
    BY <1>1, <2>2 DEF Complete
  <2> QED
    BY <2>1, <2>2 DEF Complete
<1> QED
  BY <1>5, <1>6, <1>7, <1>8 DEF Data

LEMMA SendData ==
    ASSUME TypeOK, Chain, Ends, Order, Data, Complete, Send
    PROVE  Data' /\ Complete'
<1>1. /\ pc[0] = "send" /\ next \in Nat /\ 2 <= next /\ next <= N /\ Write(0, next) /\ next' = next + 1
      /\ prime' = prime /\ num' = num /\ pc' = pc
  BY SieveAssumption DEF Send, More, TypeOK
<1>2. Put(0) = next /\ Put(0)' = next + 1 /\ Sieving(0)
  BY <1>1 DEF Put, Sieving
<1>3. \A i \in Procs : i # 0 => Put(i)' = Put(i)
  BY <1>1 DEF Put, Got
<1>4. next \in Surv(0)
  BY <1>1, SieveAssumption DEF Surv
<1> QED
  BY <1>1, <1>2, <1>3, <1>4, WriterStep, ProcFacts

LEMMA PassOnData ==
    ASSUME TypeOK, Chain, Ends, Order, Data, Complete, NEW k \in Procs, k > 0, PassOn(k)
    PROVE  Data' /\ Complete'
<1>1. /\ pc[k] = "write" /\ Write(k, num[k]) /\ next' = next /\ prime' = prime /\ num' = num
      /\ (\A i \in Procs : i # k => pc'[i] = pc[i]) /\ pc'[k] = "read"
  BY DEF PassOn, Goto, TypeOK
<1>2. num[k] \in Surv(k) /\ num[k] \in Nat
  BY <1>1 DEF Data, Last, TypeOK
<1>3. num[k] # 0 /\ prime[k] # 0 /\ Sieving(k)
  BY <1>2, SurvNat DEF Data, Last, Sieving
<1>4. Put(k) = num[k] /\ k # 0
  BY <1>1, ProcFacts DEF Put
<1>5. Put(k)' = num[k] + 1
  BY <1>1, <1>3, <1>4 DEF Put, Got
<1>6. \A i \in Procs : i # k => Put(i)' = Put(i)
  BY <1>1 DEF Put, Got
<1> QED
  BY <1>1, <1>2, <1>3, <1>4, <1>5, <1>6, WriterStep

\* What a reader gets, and what it leaves in the pipe.
LEMMA ReaderStep ==
    ASSUME TypeOK, Stream, NEW k \in Procs, k > 0, pc[k] # "done", pipe[k - 1] # <<>>,
           NEW h, h = Head(pipe[k - 1])
    PROVE  /\ h \in Nat /\ 2 <= h /\ h \in Surv(k - 1) /\ Sieving(k - 1)
           /\ Got(k) <= h /\ h + 1 <= Put(k - 1)
           /\ \A m \in Surv(k - 1) : Got(k) <= m => h <= m
           /\ Ascending(Tail(pipe[k - 1]))
           /\ Elems(Tail(pipe[k - 1])) = {m \in Surv(k - 1) : h + 1 <= m /\ m < Put(k - 1)}
<1>1. k - 1 \in Procs /\ k - 1 < MaxProc /\ (k - 1) + 1 = k
  BY ProcFacts DEF Procs
<1>2. /\ Sieving(k - 1) /\ h \in Surv(k - 1)
      /\ Got(k) <= h /\ h < Put(k - 1)
      /\ \A m \in Surv(k - 1) : Got(k) <= m /\ m < Put(k - 1) => h <= m
      /\ Ascending(Tail(pipe[k - 1]))
      /\ Elems(Tail(pipe[k - 1])) = Elems(pipe[k - 1]) \ {h}
  BY HeadIsNext
<1>3. h \in Nat /\ 2 <= h /\ Got(k) \in Nat /\ Put(k - 1) \in Nat
  BY <1>1, <1>2, SurvNat, GotPutNat
<1>4. \A m \in Surv(k - 1) : Got(k) <= m => h <= m
  BY <1>2, <1>3, SurvNat
<1>5. Elems(pipe[k - 1]) = {m \in Surv(k - 1) : Got(k) <= m /\ m < Put(k - 1)}
  BY <1>1, <1>2 DEF Stream
<1>6. \A m \in Surv(k - 1) : h + 1 <= m <=> Got(k) <= m /\ m # h
  BY <1>2, <1>3, <1>4, SurvNat
<1>7. Elems(Tail(pipe[k - 1])) = {m \in Surv(k - 1) : h + 1 <= m /\ m < Put(k - 1)}
  BY <1>2, <1>5, <1>6
<1> QED
  BY <1>2, <1>3, <1>4, <1>7

LEMMA ReceiveData ==
    ASSUME TypeOK, Chain, Data, Complete, NEW k \in Procs, k > 0, Receive(k)
    PROVE  Data' /\ Complete'
<1> USE ProcFacts
<1>1. PICK h : h = Head(pipe[k - 1])
  OBVIOUS
<1>2. /\ pc[k] = "read" /\ pipe[k - 1] # <<>> /\ k - 1 \in Procs /\ k - 1 # k /\ k # 0
      /\ prime' = prime /\ next' = next
  BY DEF Receive, Read
<1>3. /\ \A i \in Procs : num'[i] = IF i = k THEN h ELSE num[i]
      /\ \A i \in Procs : i # k - 1 => pipe'[i] = pipe[i]
      /\ pipe'[k - 1] = Tail(pipe[k - 1])
      /\ \A i \in Procs : pc'[i] = IF i = k THEN IF Passes(h, prime[k]) THEN "write" ELSE "read" ELSE pc[i]
  BY <1>1, <1>2 DEF Receive, Read, Goto, TypeOK
<1>4. /\ h \in Nat /\ 2 <= h /\ h \in Surv(k - 1) /\ Sieving(k - 1)
      /\ Got(k) <= h /\ h + 1 <= Put(k - 1)
      /\ \A m \in Surv(k - 1) : Got(k) <= m => h <= m
      /\ Ascending(Tail(pipe[k - 1]))
      /\ Elems(Tail(pipe[k - 1])) = {m \in Surv(k - 1) : h + 1 <= m /\ m < Put(k - 1)}
  BY <1>1, <1>2, ReaderStep DEF Data
<1>5. prime[k] \in Nat /\ prime[k] # 0 /\ Got(k) \in Nat /\ prime[k] < Got(k)
  <2>1. prime[k] \in Nat /\ prime[k] # 0 /\ num[k] \in Nat
    BY <1>2 DEF Chain, TypeOK
  <2>2. num[k] # 0 => num[k] > prime[k]
    BY DEF Data, Last
  <2>3. Got(k) = IF num[k] = 0 THEN prime[k] + 1 ELSE num[k] + 1
    BY <2>1 DEF Got
  <2> QED
    BY <2>1, <2>2, <2>3
<1>6. \A i : Surv(i)' = Surv(i) /\ Sieving(i)' = Sieving(i)
  BY <1>2 DEF Surv, Sieving
<1>7. \A i \in Procs : i # k => Got(i)' = Got(i) /\ Put(i)' = Put(i)
  BY <1>2, <1>3 DEF Got, Put
<1>8. Got(k)' = h + 1 /\ Put(k) = Got(k) /\ Put(k)' = IF Passes(h, prime[k]) THEN h ELSE h + 1
  BY <1>2, <1>3, <1>4, <1>5 DEF Got, Put
<1>9. Surv(k) = {m \in Surv(k - 1) : m % prime[k] # 0}
  BY SurvStep
<1>10. \A m \in Surv(k) : m < Put(k) <=> m < Put(k)'
  <2>1. ASSUME NEW m \in Surv(k) PROVE m < Got(k) <=> m < Put(k)'
    <3>1. m \in Surv(k - 1) /\ m \in Nat /\ (Got(k) <= m => h <= m) /\ m % prime[k] # 0
      BY <1>4, <1>9, SurvNat
    <3>2. CASE Passes(h, prime[k])
      BY <1>4, <1>5, <1>8, <3>1, <3>2
    <3>3. CASE ~Passes(h, prime[k])
      <4>1. m # h
        BY <3>1, <3>3 DEF Passes
      <4> QED
        BY <1>4, <1>5, <1>8, <3>1, <3>3, <4>1
    <3> QED
      BY <3>2, <3>3
  <2> QED
    BY <1>8, <2>1
<1>11. ASSUME NEW i \in Procs, i < MaxProc
       PROVE  /\ ~Sieving(i)' => pipe'[i] = <<>>
              /\ Sieving(i)' /\ pc'[i + 1] # "done" =>
                   /\ Ascending(pipe'[i])
                   /\ Elems(pipe'[i]) = {m \in Surv(i)' : Got(i + 1)' <= m /\ m < Put(i)'}
                   /\ Got(i + 1)' <= Put(i)'
  <2>1. i + 1 \in Procs /\ i \in Nat
    BY <1>11
  <2>2. pc'[i + 1] # "done" => pc[i + 1] # "done"
    BY <1>2, <1>3, <2>1
  <2>3. CASE i = k - 1
    <3>1. i + 1 = k /\ i # k
      BY <2>3
    <3> QED
      BY <1>3, <1>4, <1>6, <1>7, <1>8, <2>3, <3>1
  <2>4. CASE i = k
    <3>1. i + 1 # k /\ i # k - 1
      BY <2>4
    <3>2. Got(i + 1)' = Got(i + 1) /\ pipe'[i] = pipe[i] /\ Sieving(k)
      BY <1>3, <1>5, <1>7, <2>1, <3>1 DEF Sieving
    <3>3. pc[k + 1] # "done" =>
             /\ Ascending(pipe[k])
             /\ Elems(pipe[k]) = {m \in Surv(k) : Got(k + 1) <= m /\ m < Put(k)}
             /\ Got(k + 1) <= Put(k)
      BY <1>11, <2>4, <3>2 DEF Data, Stream
    <3>4. Got(k + 1) <= Put(k) => Got(k + 1) <= Put(k)'
      <4>1. Got(k + 1) \in Nat
        BY <2>1, <2>4, GotPutNat
      <4> QED
        BY <1>4, <1>5, <1>8, <4>1
    <3> QED
      BY <1>6, <1>10, <2>2, <2>4, <3>2, <3>3, <3>4
  <2>5. CASE i # k /\ i # k - 1
    <3>1. i + 1 # k
      BY <2>1, <2>5
    <3>2. Got(i + 1)' = Got(i + 1) /\ Put(i)' = Put(i) /\ pipe'[i] = pipe[i]
      BY <1>3, <1>7, <2>1, <2>5, <3>1
    <3>3. /\ ~Sieving(i) => pipe[i] = <<>>
          /\ Sieving(i) /\ pc[i + 1] # "done" =>
               /\ Ascending(pipe[i])
               /\ Elems(pipe[i]) = {m \in Surv(i) : Got(i + 1) <= m /\ m < Put(i)}
               /\ Got(i + 1) <= Put(i)
      BY <1>11 DEF Data, Stream
    <3> QED
      BY <1>6, <2>2, <3>2, <3>3
  <2> QED
    BY <2>3, <2>4, <2>5
<1>12. Stream'
  BY <1>11 DEF Stream
<1>13. Least'
  BY <1>2, <1>6 DEF Data, Least
<1>14. Last'
  <2>1. ASSUME NEW i \in Procs
        PROVE  /\ num'[i] # 0 => prime'[i] # 0 /\ num'[i] > prime'[i]
               /\ pc'[i] = "write" => num'[i] \in Surv(i)'
               /\ pc'[i] \in Childless \cup {"drop"} => num'[i] = 0
    <3>1. CASE i = k
      <4>1. h > prime[k]
        BY <1>4, <1>5
      <4>2. Passes(h, prime[k]) => h \in Surv(k)
        BY <1>4, <1>9 DEF Passes
      <4> QED
        BY <1>2, <1>3, <1>5, <1>6, <3>1, <4>1, <4>2 DEF Childless
    <3>2. CASE i # k
      BY <1>2, <1>3, <1>6, <3>2 DEF Data, Last
    <3> QED
      BY <3>1, <3>2
  <2> QED
    BY <2>1 DEF Last
<1>15. Complete'
  <2>1. ASSUME NEW i \in Procs, i < MaxProc, pc'[i] \in {"close", "wait", "done"}, pc'[i + 1] # "none"
        PROVE  \A m \in Surv(i)' : m < Put(i)'
    <3>1. i # k /\ i + 1 \in Procs /\ pc[i] \in {"close", "wait", "done"}
      BY <1>3, <2>1
    <3>2. pc[i + 1] # "none"
      BY <1>2, <1>3, <2>1, <3>1
    <3> QED
      BY <1>6, <1>7, <2>1, <3>1, <3>2 DEF Complete
  <2>2. ASSUME NEW i \in Procs, i > 0, pc'[i] = "done", prime'[i] = 0
        PROVE  Surv(i - 1)' = {}
    BY <1>2, <1>3, <1>6, <2>2 DEF Complete
  <2> QED
    BY <2>1, <2>2 DEF Complete
<1> QED
  BY <1>12, <1>13, <1>14, <1>15 DEF Data

LEMMA FirstData ==
    ASSUME TypeOK, Chain, Data, Complete, NEW k \in Procs, k > 0, First(k)
    PROVE  Data' /\ Complete'
<1> USE ProcFacts
<1>1. PICK h : h = Head(pipe[k - 1])
  OBVIOUS
<1>2. /\ pc[k] = "first" /\ pipe[k - 1] # <<>> /\ k - 1 \in Procs /\ k - 1 # k /\ k # 0
      /\ num' = num /\ next' = next
  BY DEF First, Read
<1>3. /\ \A i \in Procs : prime'[i] = IF i = k THEN h ELSE prime[i]
      /\ \A i \in Procs : i # k - 1 => pipe'[i] = pipe[i]
      /\ pipe'[k - 1] = Tail(pipe[k - 1])
      /\ \A i \in Procs : pc'[i] = IF i = k THEN "print" ELSE pc[i]
  BY <1>1, <1>2 DEF First, Read, Goto, TypeOK
<1>4. /\ h \in Nat /\ 2 <= h /\ h \in Surv(k - 1) /\ Sieving(k - 1)
      /\ Got(k) <= h /\ h + 1 <= Put(k - 1)
      /\ \A m \in Surv(k - 1) : Got(k) <= m => h <= m
      /\ Ascending(Tail(pipe[k - 1]))
      /\ Elems(Tail(pipe[k - 1])) = {m \in Surv(k - 1) : h + 1 <= m /\ m < Put(k - 1)}
  BY <1>1, <1>2, ReaderStep DEF Data
<1>5. prime[k] = 0 /\ num[k] = 0 /\ Got(k) = 2
  BY <1>2 DEF Chain, Data, Last, Childless, Got
\* No process follows yet.
<1>6. \A i \in Procs : i > k => pc[i] = "none" /\ prime[i] = 0 /\ num[i] = 0
  BY <1>2 DEF Chain, Data, Last, Childless
<1>7. \A i \in Procs : i < k => Surv(i)' = Surv(i)
  <2>1. ASSUME NEW i \in Procs, i < k PROVE \A j \in Procs : j <= i => prime'[j] = prime[j]
    BY <1>3, <2>1
  <2> QED
    BY <2>1, SurvSame
<1>8. \A i \in Procs : i # k => Got(i)' = Got(i) /\ Put(i)' = Put(i) /\ (Sieving(i)' <=> Sieving(i))
  BY <1>2, <1>3 DEF Got, Put, Sieving
<1>9. Got(k)' = h + 1 /\ Put(k)' = h + 1
  BY <1>2, <1>3, <1>4, <1>5 DEF Got, Put
<1>10. \A m \in Surv(k - 1) : h <= m
  BY <1>4, <1>5, SurvNat
<1>11. \A m \in Surv(k)' : h + 1 <= m
  <2>1. Surv(k)' = {m \in Surv(k - 1)' : m % prime'[k] # 0}
    <3>1. \A j : j \in 1 .. k <=> j \in 1 .. k - 1 \/ j = k
      OBVIOUS
    <3> QED
      BY <3>1 DEF Surv
  <2>2. Surv(k - 1)' = Surv(k - 1)
    BY <1>2, <1>7
  <2>3. h % h = 0
    BY <1>4, DividesSelf
  <2>4. ASSUME NEW m \in Surv(k)' PROVE h + 1 <= m
    <3>1. m \in Surv(k - 1) /\ m % h # 0
      BY <1>3, <2>1, <2>2
    <3>2. m # h
      BY <2>3, <3>1
    <3> QED
      BY <1>4, <1>10, <3>1, <3>2, SurvNat
  <2> QED
    BY <2>4
<1>12. ASSUME NEW i \in Procs, i < MaxProc
       PROVE  /\ ~Sieving(i)' => pipe'[i] = <<>>
              /\ Sieving(i)' /\ pc'[i + 1] # "done" =>
                   /\ Ascending(pipe'[i])
                   /\ Elems(pipe'[i]) = {m \in Surv(i)' : Got(i + 1)' <= m /\ m < Put(i)'}
                   /\ Got(i + 1)' <= Put(i)'
  <2>1. i + 1 \in Procs /\ i \in Nat
    BY <1>12
  <2>2. CASE i = k - 1
    <3>1. i + 1 = k /\ i # k /\ i < k
      BY <2>2
    <3>2. Surv(i)' = Surv(i) /\ (Sieving(i)' <=> Sieving(i)) /\ Put(i)' = Put(i)
      BY <1>7, <1>8, <3>1
    <3> QED
      BY <1>3, <1>4, <1>9, <2>2, <3>1, <3>2
  <2>3. CASE i = k
    <3>1. i + 1 # k /\ i # k - 1 /\ i + 1 > k
      BY <2>1, <2>3
    <3>2. ~Sieving(k)
      BY <1>2, <1>5 DEF Sieving
    <3>3. pipe'[k] = <<>>
      BY <1>3, <1>12, <2>3, <3>1, <3>2 DEF Data, Stream
    <3>4. Got(i + 1)' = 2
      BY <1>6, <1>8, <2>1, <3>1 DEF Got
    <3>5. \A m \in Surv(k)' : ~(m < h + 1)
      <4>1. \A m \in Surv(k)' : m \in Nat
        BY SieveAssumption DEF Surv
      <4> QED
        BY <1>4, <1>11, <4>1
    <3>6. Ascending(<<>>) /\ Elems(<<>>) = {}
      BY DEF Ascending, Elems
    <3> QED
      BY <1>4, <1>9, <2>3, <3>3, <3>4, <3>5, <3>6
  <2>4. CASE i < k /\ i # k - 1
    <3>1. i + 1 # k /\ i # k
      BY <2>1, <2>4
    <3>2. /\ Got(i + 1)' = Got(i + 1) /\ Put(i)' = Put(i) /\ pipe'[i] = pipe[i]
          /\ Surv(i)' = Surv(i) /\ (Sieving(i)' <=> Sieving(i)) /\ pc'[i + 1] = pc[i + 1]
      BY <1>3, <1>7, <1>8, <2>1, <2>4, <3>1
    <3>3. /\ ~Sieving(i) => pipe[i] = <<>>
          /\ Sieving(i) /\ pc[i + 1] # "done" =>
               /\ Ascending(pipe[i])
               /\ Elems(pipe[i]) = {m \in Surv(i) : Got(i + 1) <= m /\ m < Put(i)}
               /\ Got(i + 1) <= Put(i)
      BY <1>12 DEF Data, Stream
    <3> QED
      BY <3>2, <3>3
  <2>5. CASE i > k
    <3>1. i # k /\ i # k - 1 /\ i # 0
      BY <2>1, <2>5
    <3>2. ~Sieving(i) /\ ~Sieving(i)'
      BY <1>6, <1>8, <2>5, <3>1 DEF Sieving
    <3> QED
      BY <1>3, <1>12, <3>1, <3>2 DEF Data, Stream
  <2> QED
    BY <2>1, <2>2, <2>3, <2>4, <2>5
<1>13. Stream'
  BY <1>12 DEF Stream
<1>14. Least'
  <2>1. ASSUME NEW i \in Procs, prime'[i] # 0
        PROVE  prime'[i] \in Surv(i - 1)' /\ \A m \in Surv(i - 1)' : prime'[i] <= m
    <3>1. i <= k /\ i > 0
      BY <1>3, <1>6, <2>1 DEF Chain
    <3>2. i - 1 \in Procs /\ i - 1 < k
      BY <3>1
    <3>3. Surv(i - 1)' = Surv(i - 1)
      BY <1>7, <3>2
    <3>4. CASE i = k
      BY <1>3, <1>4, <1>10, <3>3, <3>4
    <3>5. CASE i # k
      BY <1>3, <2>1, <3>3, <3>5 DEF Data, Least
    <3> QED
      BY <3>4, <3>5
  <2> QED
    BY <2>1 DEF Least
<1>15. Last'
  <2>1. ASSUME NEW i \in Procs
        PROVE  /\ num'[i] # 0 => prime'[i] # 0 /\ num'[i] > prime'[i]
               /\ pc'[i] = "write" => num'[i] \in Surv(i)'
               /\ pc'[i] \in Childless \cup {"drop"} => num'[i] = 0
    <3>1. CASE i = k
      BY <1>2, <1>3, <1>5, <3>1
    <3>2. CASE i # k
      <4>1. pc[i] = "write" => i < k
        BY <1>6, <3>2
      <4> QED
        BY SMTT(30), <1>2, <1>3, <1>7, <3>2, <4>1 DEF Data, Last
    <3> QED
      BY <3>1, <3>2
  <2> QED
    BY <2>1 DEF Last
<1>16. Complete'
  <2>1. ASSUME NEW i \in Procs, i < MaxProc, pc'[i] \in {"close", "wait", "done"}, pc'[i + 1] # "none"
        PROVE  \A m \in Surv(i)' : m < Put(i)'
    <3>1. i # k /\ i + 1 \in Procs /\ pc[i] \in {"close", "wait", "done"}
      BY <1>3, <2>1
    <3>2. pc[i + 1] # "none"
      BY <1>2, <1>3, <2>1, <3>1
    <3>3. i < k
      BY <1>6, <3>1
    <3> QED
      BY <1>7, <1>8, <2>1, <3>1, <3>2, <3>3 DEF Complete
  <2>2. ASSUME NEW i \in Procs, i > 0, pc'[i] = "done", prime'[i] = 0
        PROVE  Surv(i - 1)' = {}
    <3>1. i # k /\ pc[i] = "done" /\ prime[i] = 0
      BY <1>3, <2>2
    <3>2. i < k /\ i - 1 \in Procs /\ i - 1 < k
      BY <1>6, <2>2, <3>1
    <3> QED
      BY <1>7, <2>2, <3>1, <3>2 DEF Complete
  <2> QED
    BY <2>1, <2>2 DEF Complete
<1> QED
  BY <1>13, <1>14, <1>15, <1>16 DEF Data

-----------------------------------------------------------------------------
(* The invariant, and what it says of the console.                         *)

LEMMA InitInv == Init => Inv
<1> SUFFICES ASSUME Init PROVE Inv
  OBVIOUS
<1> USE ProcFacts
<1>1. /\ \A k \in Procs : /\ pc[k] = IF k = 0 THEN "pipe" ELSE "none"
                          /\ pipe[k] = <<>> /\ prime[k] = 0 /\ num[k] = 0
      /\ next = 2 /\ printed = <<>> /\ Len(printed) = 0 /\ failed = FALSE /\ lost = FALSE
  BY DEF Init
<1>2. \A k \in Procs : k < MaxProc => pc[k + 1] = "none" /\ prime[k + 1] = 0
  BY <1>1
<1>3. Stream
  <2>1. Elems(<<>>) = {} /\ Ascending(<<>>)
    BY DEF Elems, Ascending
  <2>2. \A k \in Procs : k < MaxProc => Got(k + 1) = 2 /\ Put(k) = 2
    BY <1>1, <1>2 DEF Got, Put
  <2>3. \A k : {m \in Surv(k) : 2 <= m /\ m < 2} = {}
    BY SurvNat
  <2> QED
    BY <1>1, <2>1, <2>2, <2>3 DEF Stream
<1>4. Least /\ Last
  BY <1>1 DEF Least, Last
<1>5. Complete /\ Order
  BY <1>1, <1>2 DEF Complete, Order
<1>6. Console /\ NothingLost
  BY <1>1 DEF Console, NothingLost
<1> QED
  BY <1>3, <1>4, <1>5, <1>6, InitChain DEF Inv

LEMMA StepInv ==
    ASSUME Inv, NEW k \in Procs, Step(k)
    PROVE  Inv'
<1>1. TypeOK /\ Chain /\ Ends /\ Stream /\ Data /\ Complete /\ Order /\ Console /\ NothingLost
  BY DEF Inv, Data
<1>2. TypeOK' /\ Chain' /\ Ends'
  BY <1>1, StepType, StepChain, StepEnds
<1>3. Order' /\ Console' /\ NothingLost'
  BY <1>1, StepOrder, StepConsole, StepLost
<1>4. Data' /\ Complete'
  <2>1. CASE Quiet(k)
    BY <1>1, <2>1, QuietData
  <2>2. CASE k = 0 /\ Send
    BY <1>1, <2>2, SendData
  <2>3. CASE k > 0 /\ First(k)
    BY <1>1, <2>3, FirstData
  <2>4. CASE k > 0 /\ Receive(k)
    BY <1>1, <2>4, ReceiveData
  <2>5. CASE k > 0 /\ PassOn(k)
    BY <1>1, <2>5, PassOnData
  <2> QED
    BY <2>1, <2>2, <2>3, <2>4, <2>5 DEF Step, Both, Parent, Handle, Quiet
<1> QED
  BY <1>2, <1>3, <1>4 DEF Inv, Data

LEMMA StutterInv == Inv /\ UNCHANGED vars => Inv'
<1> SUFFICES ASSUME Inv, UNCHANGED vars PROVE Inv'
  OBVIOUS
<1>1. /\ pc' = pc /\ fds' = fds /\ pipe' = pipe /\ next' = next /\ prime' = prime /\ num' = num
      /\ printed' = printed /\ failed' = failed /\ lost' = lost
  BY DEF vars
<1>2. \A k : Surv(k)' = Surv(k) /\ Got(k)' = Got(k) /\ Put(k)' = Put(k) /\ Sieving(k)' = Sieving(k)
  BY <1>1 DEF Surv, Got, Put, Sieving
<1>3. TypeOK' /\ Chain' /\ Ends' /\ Console' /\ NothingLost'
  BY <1>1 DEF Inv, TypeOK, Chain, Ends, Console, NothingLost
<1>4. Stream' /\ Least' /\ Last'
  BY <1>1, <1>2 DEF Inv, Stream, Least, Last
<1>5. Complete' /\ Order'
  BY <1>1, <1>2 DEF Inv, Complete, Order
<1> QED
  BY <1>3, <1>4, <1>5 DEF Inv

\* Pipes, chain and console in every reachable state, whatever the order in
\* which the processes run and wherever a fork fails.
THEOREM Correct == Spec => []Inv
<1>1. Inv /\ [Next]_vars => Inv'
  BY StepInv, StutterInv DEF Next
<1> QED
  BY <1>1, InitInv, PTL DEF Spec

\* What the console shows: the primes that the processes of the chain hold.
LEMMA Shows ==
    ASSUME Inv
    PROVE  /\ Len(printed) \in Nat /\ Len(printed) <= MaxProc
           /\ \A i \in 1 .. Len(printed) :
                /\ i \in Procs /\ i > 0 /\ printed[i] = prime[i] /\ prime[i] \in Nat /\ 2 <= prime[i] /\ prime[i] <= N
                /\ prime[i] \in Surv(i - 1) /\ \A m \in Surv(i - 1) : prime[i] <= m
<1>1. Len(printed) \in Nat /\ Len(printed) <= MaxProc
  BY DEF Inv, TypeOK, Console
<1>2. \A i \in 1 .. Len(printed) : i \in Procs /\ i > 0 /\ i <= Len(printed)
  BY <1>1, ProcFacts DEF Procs
<1>3. \A i \in 1 .. Len(printed) : printed[i] = prime[i] /\ prime[i] # 0
  BY <1>2 DEF Inv, Console
<1>4. \A i \in 1 .. Len(printed) : prime[i] \in Surv(i - 1) /\ \A m \in Surv(i - 1) : prime[i] <= m
  BY <1>2, <1>3 DEF Inv, Least
<1> QED
  BY <1>1, <1>2, <1>3, <1>4, SurvNat

\* A prime that the first k processes do not leave is one of theirs.
LEMMA Sieved ==
    ASSUME Inv, NEW k \in 0 .. Len(printed), NEW q \in 2 .. N, IsPrime(q), q \notin Surv(k)
    PROVE  q \in Shown(k)
<1>1. PICK j \in 1 .. k : q % prime[j] = 0
  BY DEF Surv
<1>2. Len(printed) \in Nat
  BY Shows
<1>3. j \in 1 .. Len(printed)
  BY <1>2
<1>4. printed[j] = prime[j] /\ prime[j] \in Nat /\ 2 <= prime[j]
  BY <1>3, Shows
<1>5. q \in Nat \ {0} /\ prime[j] <= q
  <2>1. q \in Nat \ {0} /\ prime[j] \in Nat \ {0}
    BY <1>4, SieveAssumption
  <2> QED
    BY <1>1, <2>1, DividesSmaller
<1>6. prime[j] = q
  <2>1. prime[j] \in 2 .. q - 1 \/ prime[j] = q
    BY <1>4, <1>5
  <2> QED
    BY <1>1, <2>1 DEF IsPrime
<1> QED
  BY <1>4, <1>6 DEF Shown

LEMMA PrintedPrime ==
    ASSUME Inv, NEW i \in 1 .. Len(printed)
    PROVE  IsPrime(prime[i])
<1>1. /\ i \in Procs /\ prime[i] \in Nat /\ 2 <= prime[i] /\ prime[i] <= N /\ prime[i] \in Surv(i - 1)
      /\ \A m \in Surv(i - 1) : prime[i] <= m
  BY Shows
<1>2. ASSUME NEW d \in 2 .. prime[i] - 1, prime[i] % d = 0 PROVE FALSE
  <2>1. d \in Nat \ {0} /\ d \in 2 .. N /\ ~(prime[i] <= d)
    BY <1>1, SieveAssumption
  <2>2. d \notin Surv(i - 1)
    BY <1>1, <2>1
  <2>3. PICK j \in 1 .. i - 1 : d % prime[j] = 0
    BY <2>1, <2>2 DEF Surv
  <2>4. j \in 1 .. Len(printed)
    BY Shows
  <2>5. prime[j] \in Nat \ {0}
    BY <2>4, Shows
  <2>6. prime[i] % prime[j] = 0
    BY <1>1, <1>2, <2>1, <2>3, <2>5, DividesTransitive
  <2> QED
    BY <1>1, <2>6 DEF Surv
<1> QED
  BY <1>1, <1>2 DEF IsPrime

LEMMA PrintedAscending ==
    ASSUME Inv, NEW i \in 1 .. Len(printed), NEW j \in 1 .. i - 1
    PROVE  prime[j] < prime[i]
<1>1. j \in 1 .. Len(printed) /\ i \in Nat /\ j \in Nat /\ j < i
  BY Shows
<1>2. prime[i] \in Surv(i - 1) /\ prime[i] \in Nat /\ prime[j] \in Nat \ {0} /\ \A m \in Surv(j - 1) : prime[j] <= m
  BY <1>1, Shows
<1>3. prime[i] \in Surv(j - 1)
  <2>1. \A x \in 1 .. j - 1 : x \in 1 .. i - 1
    BY <1>1
  <2> QED
    BY <1>2, <2>1 DEF Surv
<1>4. prime[i] % prime[j] # 0
  BY <1>2 DEF Surv
<1>5. prime[i] # prime[j]
  BY <1>2, <1>4, DividesSelf
<1> QED
  BY <1>2, <1>3, <1>5

LEMMA InvInOrder == Inv => InOrder
<1> SUFFICES ASSUME Inv, NEW i \in 1 .. Len(printed)
             PROVE  IsPrime(printed[i]) /\ Shown(i - 1) = PrimesBelow(printed[i])
  BY DEF InOrder
<1>1. /\ i \in Nat /\ printed[i] = prime[i] /\ prime[i] \in Nat /\ 2 <= prime[i] /\ prime[i] <= N
      /\ Len(printed) \in Nat /\ \A m \in Surv(i - 1) : prime[i] <= m
  BY Shows, ProcFacts
<1>2. ASSUME NEW j \in 1 .. i - 1 PROVE printed[j] \in PrimesBelow(prime[i])
  <2>1. j \in 1 .. Len(printed)
    BY <1>1
  <2>2. printed[j] = prime[j] /\ prime[j] \in Nat /\ 2 <= prime[j]
    BY <2>1, Shows
  <2>3. prime[j] < prime[i] /\ IsPrime(prime[j])
    BY <2>1, PrintedAscending, PrintedPrime
  <2>4. prime[j] \in 2 .. prime[i] - 1
    BY <1>1, <2>2, <2>3
  <2> QED
    BY <2>2, <2>3, <2>4 DEF PrimesBelow
<1>3. ASSUME NEW q \in PrimesBelow(prime[i]) PROVE q \in Shown(i - 1)
  <2>1. q \in 2 .. prime[i] - 1 /\ IsPrime(q)
    BY DEF PrimesBelow
  <2>2. q \in 2 .. N /\ ~(prime[i] <= q) /\ i - 1 \in 0 .. Len(printed)
    BY <1>1, <2>1, SieveAssumption
  <2> QED
    BY <1>1, <2>1, <2>2, Sieved
<1>4. Shown(i - 1) \subseteq PrimesBelow(prime[i])
  BY <1>2 DEF Shown
<1> QED
  BY <1>1, <1>3, <1>4, PrintedPrime

LEMMA InvAllPrinted == Inv => AllPrintedAtExit
<1> SUFFICES ASSUME Inv, pc[0] = "done", ~failed
             PROVE  Shown(Len(printed)) = PrimesBelow(N + 1)
  BY DEF AllPrintedAtExit
<1>1. PICK l : l = Len(printed)
  OBVIOUS
<1>2. l \in Nat /\ l \in Procs
  BY <1>1, Shows, ProcFacts DEF Procs
<1>3. Sieving(l)
  BY <1>1, <1>2, ProcFacts DEF Inv, Console, Sieving
<1>4. pc[l] = "done"
  <2>1. CASE l = 0
    BY <2>1
  <2>2. CASE l > 0
    <3>1. pc[l] \in {"done", "none"}
      BY <1>2, <2>2, ProcFacts DEF Inv, Order
    <3>2. prime[l] # 0
      BY <1>3, <2>2, <1>2 DEF Sieving
    <3> QED
      BY <1>2, <3>1, <3>2 DEF Inv, Chain
  <2> QED
    BY <1>2, <2>1, <2>2
<1>5. l < MaxProc /\ pc[l + 1] = "done"
  BY <1>2, <1>3, <1>4 DEF Inv, Order
<1>6. l + 1 \in Procs /\ l + 1 > 0 /\ ~(l + 1 <= Len(printed)) /\ (l + 1) - 1 = l
  BY <1>1, <1>2, <1>5, ProcFacts
<1>7. prime[l + 1] = 0
  BY <1>5, <1>6 DEF Inv, Console
<1>8. Surv(l) = {}
  BY <1>5, <1>6, <1>7 DEF Inv, Complete
<1>9. ASSUME NEW j \in 1 .. l PROVE printed[j] \in PrimesBelow(N + 1)
  <2>1. printed[j] = prime[j] /\ prime[j] \in Nat /\ 2 <= prime[j] /\ prime[j] <= N /\ IsPrime(prime[j])
    BY <1>1, Shows, PrintedPrime
  <2>2. prime[j] \in 2 .. (N + 1) - 1
    BY <2>1, SieveAssumption
  <2> QED
    BY <2>1, <2>2 DEF PrimesBelow
<1>10. ASSUME NEW q \in PrimesBelow(N + 1) PROVE q \in Shown(l)
  <2>1. q \in 2 .. N /\ IsPrime(q)
    BY SieveAssumption DEF PrimesBelow
  <2>2. l \in 0 .. Len(printed)
    BY <1>1, <1>2
  <2> QED
    BY <1>8, <2>1, <2>2, Sieved
<1>11. Shown(l) \subseteq PrimesBelow(N + 1)
  BY <1>9 DEF Shown
<1> QED
  BY <1>1, <1>10, <1>11

\* The console shows primes only, in ascending order and without a gap.
THEOREM ConsoleInOrder == Spec => []InOrder
  BY Correct, InvInOrder, PTL

\* All of them when main() exits and no fork has failed.
THEOREM ExitComplete == Spec => []AllPrintedAtExit
  BY Correct, InvAllPrinted, PTL

\* No number is written to a pipe without a reader unless a fork has failed.
THEOREM NoneLost == Spec => []NothingLost
<1>1. Inv => NothingLost
  BY DEF Inv
<1> QED
  BY <1>1, Correct, PTL
=============================================================================
