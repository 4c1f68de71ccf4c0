---------------------------- MODULE PrivateMemory ----------------------------
(***************************************************************************)
(* What user programs are promised about their memory, whatever the kernel *)
(* does with page tables: every running process owns a private memory,     *)
(* fork gives the child a copy of the parent's, a store changes one page   *)
(* of the memory of the process that makes it, and nothing else changes    *)
(* memory.  Copy-on-write fork must not be observable at this level.       *)
(***************************************************************************)
EXTENDS Naturals

CONSTANTS
    Procs,      \* process slots
    NV,         \* the largest memory, in pages
    NI,         \* pages of a freshly loaded program image
    Val,        \* page contents
    Image,      \* content of a page as exec loads it
    Zero        \* content of a page as sbrk hands it out

VARIABLE
    mem         \* process -> its memory, a function on 0 .. size - 1

\* A process that does not run has no memory.
None == [v \in {} |-> Zero]

Memories == UNION {[0 .. n - 1 -> Val] : n \in 0 .. NV}

Size(p) == CHOOSE n \in 0 .. NV : DOMAIN mem[p] = 0 .. n - 1

Init == mem = [p \in Procs |-> None]

Load(p) ==
    /\ mem[p] = None
    /\ mem' = [mem EXCEPT ![p] = [v \in 0 .. NI - 1 |-> Image]]

Fork(p, c) ==
    /\ mem[p] # None
    /\ mem[c] = None
    /\ mem' = [mem EXCEPT ![c] = mem[p]]

Store(p, v, x) ==
    /\ v \in DOMAIN mem[p]
    /\ mem' = [mem EXCEPT ![p] = [@ EXCEPT ![v] = x]]

Grow(p) ==
    /\ mem[p] # None
    /\ Size(p) < NV
    /\ mem' = [mem EXCEPT ![p] = [v \in 0 .. Size(p) |->
                                    IF v < Size(p) THEN mem[p][v] ELSE Zero]]

Shrink(p) ==
    /\ Size(p) > 1
    /\ mem' = [mem EXCEPT ![p] = [v \in 0 .. Size(p) - 2 |-> mem[p][v]]]

Die(p) ==
    /\ mem[p] # None
    /\ mem' = [mem EXCEPT ![p] = None]

Next ==
    \E p \in Procs :
        \/ Load(p)
        \/ \E c \in Procs : Fork(p, c)
        \/ \E v \in 0 .. NV - 1, x \in Val : Store(p, v, x)
        \/ Grow(p)
        \/ Shrink(p)
        \/ Die(p)

Spec == Init /\ [][Next]_mem
=============================================================================
