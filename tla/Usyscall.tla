------------------------------ MODULE Usyscall ------------------------------
(***************************************************************************)
(* Lab 3, "speed up system calls": every process has a page at USYSCALL,   *)
(* readable from user space, that holds its pid, so that ugetpid() needs   *)
(* no system call.  allocproc allocates and fills the page, proc_pagetable *)
(* maps it (for a new process, and again for every exec), freeproc and     *)
(* proc_freepagetable take it down.                                        *)
(*                                                                         *)
(* The pages of kmem.freelist are all alike and only counted.  One kalloc  *)
(* is one step, so other processes and the rest of the kernel take and     *)
(* return pages in between, and every allocation may fail.                 *)
(***************************************************************************)
EXTENDS Integers, FiniteSets

CONSTANTS
    Procs,      \* slots of the process table
    NPages,     \* physical pages
    MaxPid      \* bound on nextpid

ASSUME UsyscallAssumption == NPages \in Nat /\ MaxPid \in Nat

VARIABLES
    pc,         \* how far allocproc, exec or freeproc has got with the slot
    pid,        \* p->pid
    tf,         \* p->trapframe is not null
    us,         \* the pid in the page p->usyscall, or None
    pt,         \* p->pagetable
    new,        \* the local variable pagetable of proc_pagetable and exec
    free,       \* length of kmem.freelist
    others,     \* pages the rest of the kernel has
    nextpid,
    panicked

vars == <<pc, pid, tf, us, pt, new, free, others, nextpid, panicked>>

-----------------------------------------------------------------------------
(* Page tables: tabs are the tables of the tree, a page each, and map the  *)
(* addresses at the top that are mapped.                                   *)

None == -1

Special == {"TRAMPOLINE", "TRAPFRAME", "USYSCALL"}

\* memlayout.h: the three pages are neighbours below MAXVA, in the range of
\* one leaf table.
LeafOf(va) == "l0"

\* The tables that walk passes through.
Path(va) == {"root", "l1", LeafOf(va)}

Tables == UNION {Path(va) : va \in Special}

NoTable == [tabs |-> {}, map |-> {}]
PageTables == [tabs : SUBSET Tables, map : SUBSET Special]

\* proc_pagetable maps TRAMPOLINE, TRAPFRAME, USYSCALL in this order.
NextVA(t) ==
    CASE "TRAMPOLINE" \notin t.map -> "TRAMPOLINE"
      [] "TRAMPOLINE" \in t.map /\ "TRAPFRAME" \notin t.map -> "TRAPFRAME"
      [] OTHER -> "USYSCALL"

-----------------------------------------------------------------------------
Init ==
    /\ pc = [p \in Procs |-> "unused"]
    /\ pid = [p \in Procs |-> 0]
    /\ tf = [p \in Procs |-> FALSE] /\ us = [p \in Procs |-> None]
    /\ pt = [p \in Procs |-> NoTable] /\ new = [p \in Procs |-> NoTable]
    /\ free = NPages /\ others = 0
    /\ nextpid = 1
    /\ panicked = FALSE

Goto(p, where) == pc' = [pc EXCEPT ![p] = where]

Panic ==
    /\ panicked' = TRUE
    /\ UNCHANGED <<pc, pid, tf, us, pt, new, free, others, nextpid>>

kalloc == free > 0 /\ free' = free - 1
kfree(n) == free' = free + n

\* The rest of the kernel takes and returns pages.
OthersAlloc ==
    /\ kalloc /\ others' = others + 1
    /\ UNCHANGED <<pc, pid, tf, us, pt, new, nextpid, panicked>>

OthersFree ==
    /\ others > 0 /\ kfree(1) /\ others' = others - 1
    /\ UNCHANGED <<pc, pid, tf, us, pt, new, nextpid, panicked>>

-----------------------------------------------------------------------------
(* allocproc.                                                              *)

\* An unused slot is found: allocpid, state USED.
AllocSlot(p) ==
    /\ pc[p] = "unused" /\ nextpid <= MaxPid
    /\ pid' = [pid EXCEPT ![p] = nextpid]
    /\ nextpid' = nextpid + 1
    /\ Goto(p, "tf")
    /\ UNCHANGED <<tf, us, pt, new, free, others, panicked>>

AllocTrapframe(p) ==
    /\ pc[p] = "tf"
    /\ kalloc /\ tf' = [tf EXCEPT ![p] = TRUE]
    /\ Goto(p, "us")
    /\ UNCHANGED <<pid, us, pt, new, others, nextpid, panicked>>

\* The slip of leaving the page as kalloc gave it.
Unwritten(p) == 0

\* p->usyscall->pid = p->pid.
UsyscallPid(p) == pid[p]

AllocUsyscall(p) ==
    /\ pc[p] = "us"
    /\ kalloc /\ us' = [us EXCEPT ![p] = UsyscallPid(p)]
    /\ Goto(p, "root")
    /\ UNCHANGED <<pid, tf, pt, new, others, nextpid, panicked>>

\* kalloc returns 0: allocproc calls freeproc.
AllocFail(p) ==
    /\ pc[p] \in {"tf", "us"} /\ free = 0
    /\ Goto(p, "free")
    /\ UNCHANGED <<pid, tf, us, pt, new, free, others, nextpid, panicked>>

-----------------------------------------------------------------------------
(* proc_pagetable, called by allocproc and by exec.  p->pagetable is still *)
(* null in the first case, the old program's in the second.                *)

\* Where a call of proc_pagetable that returns 0 leads.
ReturnZero(p) == IF pt[p] = NoTable THEN "free" ELSE "run"

uvmcreate(p) ==
    /\ pc[p] = "root"
    /\ \/ /\ kalloc
          /\ new' = [new EXCEPT ![p].tabs = {"root"}]
          /\ Goto(p, "map")
       \/ /\ free = 0
          /\ Goto(p, ReturnZero(p))
          /\ UNCHANGED <<new, free>>
    /\ UNCHANGED <<pid, tf, us, pt, others, nextpid, panicked>>

Missing(p) == Path(NextVA(new[p])) \ new[p].tabs

\* walk makes the next table on the way, from the root down.
walk(p) ==
    /\ pc[p] = "map" /\ Missing(p) # {}
    /\ kalloc
    /\ new' = [new EXCEPT ![p].tabs =
                 @ \cup {IF "l1" \in Missing(p) THEN "l1" ELSE LeafOf(NextVA(new[p]))}]
    /\ UNCHANGED <<pc, pid, tf, us, pt, others, nextpid, panicked>>

\* mappages succeeds; after the third proc_pagetable returns.
mappages(p) ==
    LET va == NextVA(new[p]) IN
    /\ pc[p] = "map" /\ Missing(p) = {}
    /\ new' = [new EXCEPT ![p].map = @ \cup {va}]
    /\ Goto(p, IF va = "USYSCALL" THEN "made" ELSE "map")
    /\ UNCHANGED <<pid, tf, us, pt, free, others, nextpid, panicked>>

\* What the failure path of each mappages unmaps.
UndoOf(va) ==
    CASE va = "TRAMPOLINE" -> {}
      [] va = "TRAPFRAME" -> {"TRAMPOLINE"}
      [] va = "USYSCALL" -> {"USYSCALL", "TRAMPOLINE"}

\* uvmunmap panics on an address that is not mapped, freewalk on a mapping
\* that is left.
TakesDown(t, unmapped) == t.map = unmapped

\* walk finds no page for a table: mappages returns -1.
MapFail(p) ==
    /\ pc[p] = "map" /\ Missing(p) # {} /\ free = 0
    /\ IF TakesDown(new[p], UndoOf(NextVA(new[p])))
         THEN /\ kfree(Cardinality(new[p].tabs))
              /\ new' = [new EXCEPT ![p] = NoTable]
              /\ Goto(p, ReturnZero(p))
              /\ UNCHANGED <<pid, tf, us, pt, others, nextpid, panicked>>
         ELSE Panic

-----------------------------------------------------------------------------
(* The callers of proc_pagetable.                                          *)

\* allocproc stores the table and returns; fork goes on with uvmcopy.
AllocDone(p) ==
    /\ pc[p] = "made" /\ pt[p] = NoTable
    /\ pt' = [pt EXCEPT ![p] = new[p]]
    /\ new' = [new EXCEPT ![p] = NoTable]
    /\ Goto(p, "copy")
    /\ UNCHANGED <<pid, tf, us, free, others, nextpid, panicked>>

\* uvmcopy succeeds, or fails and fork calls freeproc.
Forked(p) ==
    /\ pc[p] = "copy"
    /\ \E where \in {"run", "free"} : Goto(p, where)
    /\ UNCHANGED <<pid, tf, us, pt, new, free, others, nextpid, panicked>>

Exec(p) ==
    /\ pc[p] = "run"
    /\ Goto(p, "root")
    /\ UNCHANGED <<pid, tf, us, pt, new, free, others, nextpid, panicked>>

\* The slip of forgetting the new mapping when a table is taken down.
UnmapOld == {"TRAMPOLINE", "TRAPFRAME"}

\* What proc_freepagetable unmaps before uvmfree.
UnmapAll == {"TRAMPOLINE", "TRAPFRAME", "USYSCALL"}

\* exec commits to the new table and frees the old one, or something went
\* wrong while the program was loaded and it frees the new one.
ExecEnd(p) ==
    /\ pc[p] = "made" /\ pt[p] # NoTable
    /\ \E commit \in BOOLEAN :
         LET keep == IF commit THEN new[p] ELSE pt[p]
             drop == IF commit THEN pt[p] ELSE new[p]
         IN
         IF TakesDown(drop, UnmapAll)
           THEN /\ pt' = [pt EXCEPT ![p] = keep]
                /\ new' = [new EXCEPT ![p] = NoTable]
                /\ kfree(Cardinality(drop.tabs))
                /\ Goto(p, "run")
                /\ UNCHANGED <<pid, tf, us, others, nextpid, panicked>>
           ELSE Panic

Exit(p) ==
    /\ pc[p] = "run"
    /\ Goto(p, "free")
    /\ UNCHANGED <<pid, tf, us, pt, new, free, others, nextpid, panicked>>

-----------------------------------------------------------------------------
(* freeproc, after a failed allocproc or fork and in wait().               *)

\* Slips: the page is kept, or the pointer to it.
FreedNone(p) == 0
KeepUs(p) == us

FreedUs(p) == IF us[p] = None THEN 0 ELSE 1
ClearUs(p) == [us EXCEPT ![p] = None]

\* The trapframe, the usyscall page, and the page table if there is one.
freeproc(p) ==
    /\ pc[p] = "free"
    /\ IF pt[p] # NoTable /\ ~TakesDown(pt[p], UnmapAll)
         THEN Panic
         ELSE /\ kfree((IF tf[p] THEN 1 ELSE 0) + FreedUs(p) + Cardinality(pt[p].tabs))
              /\ tf' = [tf EXCEPT ![p] = FALSE]
              /\ us' = ClearUs(p)
              /\ pt' = [pt EXCEPT ![p] = NoTable]
              /\ pid' = [pid EXCEPT ![p] = 0]
              /\ Goto(p, "unused")
              /\ UNCHANGED <<new, others, nextpid, panicked>>

-----------------------------------------------------------------------------
Next ==
    /\ ~panicked
    /\ \/ OthersAlloc \/ OthersFree
       \/ \E p \in Procs :
            \/ AllocSlot(p) \/ AllocTrapframe(p) \/ AllocUsyscall(p) \/ AllocFail(p)
            \/ uvmcreate(p) \/ walk(p) \/ mappages(p) \/ MapFail(p)
            \/ AllocDone(p) \/ Forked(p) \/ Exec(p) \/ ExecEnd(p) \/ Exit(p)
            \/ freeproc(p)

Spec == Init /\ [][Next]_vars

-----------------------------------------------------------------------------
(* Properties.                                                             *)

\* Every field has its type, and an unused slot has no pointer left that a
\* later freeproc would free again.
TypeOK ==
    /\ pc \in [Procs -> {"unused", "tf", "us", "root", "map", "made", "copy", "run", "free"}]
    /\ pid \in [Procs -> 0 .. MaxPid]
    /\ tf \in [Procs -> BOOLEAN] /\ us \in [Procs -> None .. MaxPid]
    /\ pt \in [Procs -> PageTables] /\ new \in [Procs -> PageTables]
    /\ free \in 0 .. NPages /\ others \in 0 .. NPages
    /\ nextpid \in 1 .. MaxPid + 1
    /\ panicked \in BOOLEAN
    /\ \A p \in Procs :
         pc[p] = "unused" => ~tf[p] /\ us[p] = None /\ pt[p] = NoTable /\ new[p] = NoTable

\* The pages that slots hold, each named by its slot and its use.
Holds(p, use, t) ==
    \/ use = "trapframe" /\ t = "page" /\ tf[p]
    \/ use = "usyscall" /\ t = "page" /\ us[p] # None
    \/ use = "pt" /\ t \in pt[p].tabs
    \/ use = "new" /\ t \in new[p].tabs

Uses == {"trapframe", "usyscall", "pt", "new"}

Held ==
    {h \in Procs \X Uses \X (Tables \cup {"page"}) : Holds(h[1], h[2], h[3])}

\* Every page is free, with the rest of the kernel, or held by a slot: no
\* failure path of allocproc, proc_pagetable, fork or exec loses a page or
\* frees one twice.
PagesConserved == NPages = free + others + Cardinality(Held)

\* No call of uvmunmap meets an address that is not mapped, and freewalk no
\* mapping that is left.  The failure path that unmaps USYSCALL in place of
\* TRAPFRAME is never taken, because the third mapping needs no new table.
NoPanic == ~panicked

\* What ugetpid() reads, in every state in which the program can run, is
\* its own pid: the page is mapped and filled, also after exec has made the
\* page table anew, or has failed to, and no other slot has the same pid.
PidRight ==
    \A p \in Procs : pc[p] = "run" =>
      /\ pt[p].map = Special
      /\ us[p] = pid[p] /\ pid[p] > 0
      /\ \A q \in Procs \ {p} : pid[q] # pid[p]
=============================================================================
