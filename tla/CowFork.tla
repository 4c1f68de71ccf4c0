------------------------------- MODULE CowFork -------------------------------
(***************************************************************************)
(* Copy-on-write fork of lab 6: the counted physical page allocator        *)
(* (kalloc.c), the page tables that uvmcopy shares and cowhandle splits    *)
(* (vm.c, proc.c), the page-fault branch of usertrap (trap.c) and copyout. *)
(*                                                                         *)
(* Grain.  One action is one iteration of the loop of uvmcopy, copyout,    *)
(* uvmunmap or exec's loader, or one call of cowhandle; the operations of  *)
(* different processes interleave between iterations.  What happens when   *)
(* two kfree()s overlap inside an iteration is the subject of KallocRefc.  *)
(*                                                                         *)
(* A member of Procs is a process slot together with its page table.  exec *)
(* builds a new page table and then frees the old one: here a new member   *)
(* is loaded and the old one exits.  The content of a page is one token:   *)
(* a store replaces it.  The pages of the page tables themselves are not   *)
(* modelled: mappages fails or succeeds nondeterministically.              *)
(*                                                                         *)
(* fork, exec, growproc and uvmalloc are not among the files of lab 6; they *)
(* are translated from the copies in lab 2, with the memset of uvmalloc    *)
(* that lab 2 disables on purpose (#ifndef LAB_SYSCALL) in place.          *)
(***************************************************************************)
EXTENDS Integers, FiniteSets

CONSTANTS
    Procs,      \* process slots, with their page tables
    Pages,      \* physical pages between end and PHYSTOP
    NULL,       \* no physical page, no process
    NV,         \* user pages a page table can hold: the largest p->sz
    NI,         \* pages of a program image as exec leaves it
    PGSIZE,     \* bytes in a page
    MAXVA,      \* one beyond the highest virtual address
    WORD,       \* 2^64: user addresses and registers are below it
    Text,       \* pages that exec maps without PTE_W and with PTE_X
    Guard,      \* pages of which exec clears PTE_U (uvmclear)
    Val,        \* contents a store can leave in a page
    Image,      \* content of a page that exec has loaded
    Zero,       \* content of a page that sbrk has just mapped
    Junk,       \* the fill patterns of kalloc (5) and kfree (1)
    Addrs,      \* virtual addresses that programs use
    Lens,       \* lengths that system calls pass to copyout
    SPs         \* values of the user stack pointer

VPages == 0 .. NV - 1

ASSUME ProcAssumption == NULL \notin Procs \cup Pages
ASSUME FiniteAssumption == IsFiniteSet(Procs) /\ IsFiniteSet(Pages)
ASSUME SizeAssumption ==
    /\ NV \in Nat \ {0} /\ NI \in 1 .. NV
    /\ PGSIZE \in Nat \ {0}
    /\ MAXVA \in Nat /\ WORD \in Nat
    /\ NV * PGSIZE <= MAXVA /\ MAXVA <= WORD
ASSUME SegmentAssumption == Text \subseteq VPages /\ Guard \subseteq VPages
ASSUME ValueAssumption == Image \in Val /\ Zero \in Val /\ Junk \notin Val
ASSUME AddressAssumption == Addrs \subseteq 0 .. WORD - 1 /\ SPs \subseteq 0 .. WORD - 1
ASSUME LengthAssumption == Lens \subseteq Nat

\* exec gives a program one page of stack and clears PTE_U in the page below
\* it; a program whose stack pointer has left its stack page is lost anyway.
ASSUME StackAssumption ==
    \A sp \in SPs : sp \div PGSIZE - 1 \in VPages => sp \div PGSIZE - 1 \in Text \cup Guard

VARIABLES
    freelist,   \* kmem.freelist, as a set
    count,      \* memrefc.count
    data,       \* content of each physical page
    pte,        \* page tables: process -> user page -> PTE
    sz,         \* p->sz, in pages
    pc,         \* what each process is doing
    idx,        \* the loop variable of the operation in progress (in pages)
    lim,        \* the loop bound of uvmunmap
    child,      \* np of the fork in progress
    req,        \* operands of the user access or copyout in progress
    panicked    \* the kernel has called panic()

alloc == <<freelist, count, data>>
vars == <<freelist, count, data, pte, sz, pc, idx, lim, child, req, panicked>>

PTEs == [pa : Pages \cup {NULL}, w : BOOLEAN, u : BOOLEAN, cow : BOOLEAN]

\* A PTE without PTE_V.
Unmapped == [pa |-> NULL, w |-> FALSE, u |-> FALSE, cow |-> FALSE]

Accesses == {"fetch", "load", "store"}

Reqs == [acc : Accesses, va : Int, len : Nat, val : Val, sp : Int]

NoReq == [acc |-> "load", va |-> 0, len |-> 0, val |-> Zero, sp |-> 0]

PCs == {"unused", "exec", "execundo", "user", "access", "copyout", "fork",
        "forkundo", "embryo", "zombie", "free"}

\* The processes whose memory a user program can observe.
Running == {p \in Procs : pc[p] \in {"user", "access", "copyout", "fork", "forkundo"}}

\* The mappings of pa: pairs of a process and a user page.
Refs(pa) == {s \in Procs \X VPages : pte[s[1]][s[2]].pa = pa}

TypeOK ==
    /\ freelist \subseteq Pages
    /\ count \in [Pages -> Int]
    /\ data \in [Pages -> Val \cup {Junk}]
    /\ pte \in [Procs -> [VPages -> PTEs]]
    /\ sz \in [Procs -> 0 .. NV]
    /\ pc \in [Procs -> PCs]
    /\ idx \in [Procs -> 0 .. NV]
    /\ lim \in [Procs -> 0 .. NV]
    /\ child \in [Procs -> Procs \cup {NULL}]
    /\ req \in [Procs -> Reqs]
    /\ panicked \in BOOLEAN

-----------------------------------------------------------------------------
(* The allocator: kalloc and kfree as functions of its three components.   *)

\* The slip of taking no reference for the new mapping.
AddNoRef(c, pa) == c

\* refcadd
AddRef(c, pa) == [c EXCEPT ![pa] = @ + 1]

\* refcremove
RemoveRef(c, pa) == [c EXCEPT ![pa] = @ - 1]

\* The slip of testing before the decrement.
SharedBefore(c, pa) == c[pa] > 0

\* The test of kfree after refcremove: somebody else still holds the page.
StillShared(c, pa) == RemoveRef(c, pa)[pa] > 0

KfreeList(f, c, pa) == IF StillShared(c, pa) THEN f ELSE f \cup {pa}

KfreeData(d, c, pa) == IF StillShared(c, pa) THEN d ELSE [d EXCEPT ![pa] = Junk]

kfree(pa) ==
    /\ count' = RemoveRef(count, pa)
    /\ freelist' = KfreeList(freelist, count, pa)
    /\ data' = KfreeData(data, count, pa)

\* kalloc returned mem, which its caller then filled with x.
kalloc(mem, x) ==
    /\ mem \in freelist
    /\ freelist' = freelist \ {mem}
    /\ count' = AddRef(count, mem)
    /\ data' = [data EXCEPT ![mem] = x]

\* The state kinit leaves: every page free, every count reset to 0 after
\* the kfree()s of freerange have taken it to -1.
Init ==
    /\ freelist = Pages
    /\ count = [pa \in Pages |-> 0]
    /\ data = [pa \in Pages |-> Junk]
    /\ pte = [p \in Procs |-> [v \in VPages |-> Unmapped]]
    /\ sz = [p \in Procs |-> 0]
    /\ pc = [p \in Procs |-> "unused"]
    /\ idx = [p \in Procs |-> 0]
    /\ lim = [p \in Procs |-> 0]
    /\ child = [p \in Procs |-> NULL]
    /\ req = [p \in Procs |-> NoReq]
    /\ panicked = FALSE

Panic ==
    /\ panicked' = TRUE
    /\ UNCHANGED <<freelist, count, data, pte, sz, pc, idx, lim, child, req>>

PageOf(va) == va \div PGSIZE

PGROUNDDOWN(va) == PageOf(va) * PGSIZE

\* *walk(pagetable, va, 0) for va < MAXVA.  Above the user pages are only
\* the trampoline and the trapframe, which have neither PTE_U nor PTE_COW.
walk(p, va) == IF PageOf(va) \in VPages THEN pte[p][PageOf(va)] ELSE Unmapped

-----------------------------------------------------------------------------
(* uvmunmap(pagetable of q, 0, lim, 1), one page per step, on behalf of p. *)

UnmapPage(p, q) ==
    /\ idx[p] < lim[p]
    /\ IF pte[q][idx[p]].pa = NULL
         THEN Panic
         ELSE /\ kfree(pte[q][idx[p]].pa)
              /\ pte' = [pte EXCEPT ![q][idx[p]] = Unmapped]
              /\ idx' = [idx EXCEPT ![p] = @ + 1]
              /\ UNCHANGED <<sz, pc, lim, child, req, panicked>>

-----------------------------------------------------------------------------
(* exec: load an image page by page into a new page table.                 *)

ExecStart(p) ==
    /\ pc[p] = "unused"
    /\ pc' = [pc EXCEPT ![p] = "exec"]
    /\ UNCHANGED <<freelist, count, data, pte, sz, idx, lim, child, req, panicked>>

\* The PTE of page v of a program image: uvmalloc with the permissions of
\* the segment, or with PTE_W for the stack, whose guard page uvmclear
\* then makes inaccessible.
ExecPte(v, mem) == [pa |-> mem, w |-> v \notin Text, u |-> v \notin Guard, cow |-> FALSE]

ExecPage(p) ==
    /\ pc[p] = "exec"
    /\ idx[p] < NI
    /\ \E mem \in freelist :
         /\ kalloc(mem, Image)
         /\ pte' = [pte EXCEPT ![p][idx[p]] = ExecPte(idx[p], mem)]
    /\ idx' = [idx EXCEPT ![p] = @ + 1]
    /\ UNCHANGED <<sz, pc, lim, child, req, panicked>>

\* kalloc, mappages, the file system or the copying of the arguments fails:
\* the pages mapped so far are freed again.
ExecFail(p) ==
    /\ pc[p] = "exec"
    /\ pc' = [pc EXCEPT ![p] = "execundo"]
    /\ lim' = [lim EXCEPT ![p] = idx[p]]
    /\ idx' = [idx EXCEPT ![p] = 0]
    /\ UNCHANGED <<freelist, count, data, pte, sz, child, req, panicked>>

ExecUndoPage(p) == pc[p] = "execundo" /\ UnmapPage(p, p)

ExecUndone(p) ==
    /\ pc[p] = "execundo"
    /\ idx[p] = lim[p]
    /\ pc' = [pc EXCEPT ![p] = "unused"]
    /\ idx' = [idx EXCEPT ![p] = 0]
    /\ lim' = [lim EXCEPT ![p] = 0]
    /\ UNCHANGED <<freelist, count, data, pte, sz, child, req, panicked>>

ExecDone(p) ==
    /\ pc[p] = "exec"
    /\ idx[p] = NI
    /\ pc' = [pc EXCEPT ![p] = "user"]
    /\ sz' = [sz EXCEPT ![p] = NI]
    /\ idx' = [idx EXCEPT ![p] = 0]
    /\ UNCHANGED <<freelist, count, data, pte, lim, child, req, panicked>>

-----------------------------------------------------------------------------
(* fork and uvmcopy.                                                       *)

ForkStart(p, np) ==
    /\ pc[p] = "user"
    /\ pc[np] = "unused"
    /\ pc' = [pc EXCEPT ![p] = "fork", ![np] = "embryo"]
    /\ child' = [child EXCEPT ![p] = np]
    /\ UNCHANGED <<freelist, count, data, pte, sz, idx, lim, req, panicked>>

\* Slips: PTE_W stays, or PTE_COW is not set.
SharedWritable(e) == [e EXCEPT !.cow = TRUE]
SharedReadOnly(e) == [e EXCEPT !.w = FALSE]

\* What uvmcopy makes of the flags of a PTE.
Shared(e) == [e EXCEPT !.w = FALSE, !.cow = TRUE]

\* One iteration of the loop of uvmcopy.
ForkPage(p) ==
    /\ pc[p] = "fork"
    /\ idx[p] < sz[p]
    /\ LET e == pte[p][idx[p]] IN
         IF e.pa = NULL
           THEN Panic
           ELSE /\ pte' = [pte EXCEPT ![p][idx[p]] = Shared(e),
                                      ![child[p]][idx[p]] = Shared(e)]
                /\ count' = AddRef(count, e.pa)
                /\ idx' = [idx EXCEPT ![p] = @ + 1]
                /\ UNCHANGED <<freelist, data, sz, pc, lim, child, req, panicked>>

\* The slip of unmapping the page that failed, too.
UndoFailedToo(i) == i + 1

\* How many pages of the child uvmcopy unmaps when iteration i fails.
UndoPages(i) == i

\* The iteration in which mappages finds no page for the child's table:
\* the parent's PTE has already been changed.
ForkFail(p) ==
    /\ pc[p] = "fork"
    /\ idx[p] < sz[p]
    /\ pte[p][idx[p]].pa # NULL
    /\ pte' = [pte EXCEPT ![p][idx[p]] = Shared(@)]
    /\ pc' = [pc EXCEPT ![p] = "forkundo"]
    /\ lim' = [lim EXCEPT ![p] = UndoPages(idx[p])]
    /\ idx' = [idx EXCEPT ![p] = 0]
    /\ UNCHANGED <<freelist, count, data, sz, child, req, panicked>>

ForkUndoPage(p) == pc[p] = "forkundo" /\ UnmapPage(p, child[p])

\* freeproc(np), whose sz is still 0; fork returns -1.
ForkUndone(p) ==
    /\ pc[p] = "forkundo"
    /\ idx[p] = lim[p]
    /\ pc' = [pc EXCEPT ![p] = "user", ![child[p]] = "unused"]
    /\ child' = [child EXCEPT ![p] = NULL]
    /\ idx' = [idx EXCEPT ![p] = 0]
    /\ lim' = [lim EXCEPT ![p] = 0]
    /\ UNCHANGED <<freelist, count, data, pte, sz, req, panicked>>

ForkDone(p) ==
    /\ pc[p] = "fork"
    /\ idx[p] = sz[p]
    /\ sz' = [sz EXCEPT ![child[p]] = sz[p]]
    /\ pc' = [pc EXCEPT ![p] = "user", ![child[p]] = "user"]
    /\ child' = [child EXCEPT ![p] = NULL]
    /\ idx' = [idx EXCEPT ![p] = 0]
    /\ UNCHANGED <<freelist, count, data, pte, lim, req, panicked>>

-----------------------------------------------------------------------------
(* User accesses, page faults and cowhandle.                               *)

Access(p, acc, va, x, sp) ==
    /\ pc[p] = "user"
    /\ acc # "store" => x = Zero      \* only a store has a value
    /\ pc' = [pc EXCEPT ![p] = "access"]
    /\ req' = [req EXCEPT ![p] = [acc |-> acc, va |-> va, len |-> 0, val |-> x, sp |-> sp]]
    /\ UNCHANGED <<freelist, count, data, pte, sz, idx, lim, child, panicked>>

\* The hardware's check of an access.
Permitted(p) ==
    LET r == req[p]
        e == walk(p, r.va)
    IN  /\ r.va < MAXVA
        /\ e.pa # NULL
        /\ e.u
        /\ r.acc = "store" => e.w
        /\ r.acc = "fetch" => PageOf(r.va) \in Text

Perform(p) ==
    /\ pc[p] = "access"
    /\ Permitted(p)
    /\ data' = IF req[p].acc = "store"
                 THEN [data EXCEPT ![walk(p, req[p].va).pa] = req[p].val]
                 ELSE data
    /\ pc' = [pc EXCEPT ![p] = "user"]
    /\ req' = [req EXCEPT ![p] = NoReq]
    /\ UNCHANGED <<freelist, count, pte, sz, idx, lim, child, panicked>>

\* exit(-1): the memory stays until the parent's wait() frees it.
Die(p) ==
    /\ pc' = [pc EXCEPT ![p] = "zombie"]
    /\ req' = [req EXCEPT ![p] = NoReq]
    /\ UNCHANGED <<freelist, count, data, pte, sz, idx, lim, child, panicked>>

\* The slip of copying a page that is not copy-on-write.
RefuseUnmapped(p, va) == walk(p, va).pa = NULL \/ va = 0

\* cowhandle refuses: no PTE, not valid, not copy-on-write, or address 0.
CowRefuses(p, va) ==
    \/ walk(p, va).pa = NULL
    \/ ~walk(p, va).cow
    \/ va = 0

\* cowhandle gives p a copy of its own: kalloc, memmove, the new PTE, and
\* then kfree of the shared page.
CowCopy(p, va) ==
    LET e == walk(p, va)
    IN  /\ \E mem \in freelist :
             /\ freelist' = KfreeList(freelist \ {mem}, AddRef(count, mem), e.pa)
             /\ count' = RemoveRef(AddRef(count, mem), e.pa)
             /\ data' = KfreeData([data EXCEPT ![mem] = data[e.pa]],
                                  AddRef(count, mem), e.pa)
             /\ pte' = [pte EXCEPT ![p][PageOf(va)] =
                          [e EXCEPT !.pa = mem, !.w = TRUE, !.cow = FALSE]]
        /\ UNCHANGED <<sz, pc, idx, lim, child, req, panicked>>

\* The slip of refusing everything up to the stack pointer.
OutOfReachBySp(va, sp) ==
    va >= MAXVA \/ (va >= (PGROUNDDOWN(sp) - PGSIZE) % WORD /\ va <= sp)

\* usertrap's refusal: beyond the address space, or between the page below
\* the stack pointer's and the first byte of the stack pointer's page.
OutOfReach(va, sp) ==
    LET up == PGROUNDDOWN(sp)
        down == (up - PGSIZE) % WORD
    IN  \/ va >= MAXVA
        \/ va >= down /\ va <= up

\* The page-fault branch of usertrap; afterwards the access is retried.
PageFault(p) ==
    /\ pc[p] = "access"
    /\ ~Permitted(p)
    /\ \/ /\ \/ OutOfReach(req[p].va, req[p].sp)
             \/ CowRefuses(p, req[p].va)
             \/ freelist = {}
          /\ Die(p)
       \/ /\ ~OutOfReach(req[p].va, req[p].sp)
          /\ ~CowRefuses(p, req[p].va)
          /\ CowCopy(p, req[p].va)

-----------------------------------------------------------------------------
(* copyout: a system call writes len bytes to user memory at dstva.        *)

CopyOut(p, dstva, len, x) ==
    /\ pc[p] = "user"
    /\ pc' = [pc EXCEPT ![p] = "copyout"]
    /\ req' = [req EXCEPT ![p] = [acc |-> "store", va |-> dstva, len |-> len, val |-> x, sp |-> 0]]
    /\ UNCHANGED <<freelist, count, data, pte, sz, idx, lim, child, panicked>>

\* The tests of an iteration that make copyout return -1.
CopyOutRefuses(p) ==
    LET va0 == PGROUNDDOWN(req[p].va)
        e == walk(p, va0)
    IN  \/ va0 >= MAXVA
        \/ ~e.u
        \/ e.pa = NULL
        \/ e.cow /\ (CowRefuses(p, va0) \/ freelist = {})

CopyOutEnd(p) ==
    /\ pc[p] = "copyout"
    /\ req[p].len = 0 \/ CopyOutRefuses(p)
    /\ pc' = [pc EXCEPT ![p] = "user"]
    /\ req' = [req EXCEPT ![p] = NoReq]
    /\ UNCHANGED <<freelist, count, data, pte, sz, idx, lim, child, panicked>>

\* An iteration that meets a copy-on-write page splits it first ...
CopyOutSplit(p) ==
    /\ pc[p] = "copyout"
    /\ req[p].len > 0
    /\ ~CopyOutRefuses(p)
    /\ walk(p, PGROUNDDOWN(req[p].va)).cow
    /\ CowCopy(p, PGROUNDDOWN(req[p].va))

\* The bytes from dstva to the end of its page.
CopyOutRoom(p) == PGSIZE - (req[p].va - PGROUNDDOWN(req[p].va))

\* n: how many of them this iteration writes.
CopyOutBytes(p) == IF CopyOutRoom(p) > req[p].len THEN req[p].len ELSE CopyOutRoom(p)

\* ... and then writes, without looking at PTE_W.
CopyOutPage(p) ==
    LET r == req[p]
        va0 == PGROUNDDOWN(r.va)
    IN  /\ pc[p] = "copyout"
        /\ r.len > 0
        /\ ~CopyOutRefuses(p)
        /\ ~walk(p, va0).cow
        /\ data' = [data EXCEPT ![walk(p, va0).pa] = r.val]
        /\ req' = [req EXCEPT ![p].len = r.len - CopyOutBytes(p), ![p].va = va0 + PGSIZE]
        /\ UNCHANGED <<freelist, count, pte, sz, pc, idx, lim, child, panicked>>

-----------------------------------------------------------------------------
(* sbrk by one page, exit, and the parent's wait.                          *)

Grow(p) ==
    /\ pc[p] = "user"
    /\ sz[p] < NV
    /\ \E mem \in freelist :
         /\ kalloc(mem, Zero)
         /\ pte' = [pte EXCEPT ![p][sz[p]] =
                      [pa |-> mem, w |-> TRUE, u |-> TRUE, cow |-> FALSE]]
    /\ sz' = [sz EXCEPT ![p] = @ + 1]
    /\ UNCHANGED <<pc, idx, lim, child, req, panicked>>

\* A process keeps its first page, as every program that goes on running.
Shrink(p) ==
    /\ pc[p] = "user"
    /\ sz[p] > 1
    /\ IF pte[p][sz[p] - 1].pa = NULL
         THEN Panic
         ELSE /\ kfree(pte[p][sz[p] - 1].pa)
              /\ pte' = [pte EXCEPT ![p][sz[p] - 1] = Unmapped]
              /\ sz' = [sz EXCEPT ![p] = @ - 1]
              /\ UNCHANGED <<pc, idx, lim, child, req, panicked>>

Exit(p) == pc[p] = "user" /\ Die(p)

\* wait() of the parent, or of init, finds the zombie: freeproc.
Reap(p) ==
    /\ pc[p] = "zombie"
    /\ pc' = [pc EXCEPT ![p] = "free"]
    /\ lim' = [lim EXCEPT ![p] = sz[p]]
    /\ UNCHANGED <<freelist, count, data, pte, sz, idx, child, req, panicked>>

FreePage(p) == pc[p] = "free" /\ UnmapPage(p, p)

Freed(p) ==
    /\ pc[p] = "free"
    /\ idx[p] = lim[p]
    /\ pc' = [pc EXCEPT ![p] = "unused"]
    /\ sz' = [sz EXCEPT ![p] = 0]
    /\ idx' = [idx EXCEPT ![p] = 0]
    /\ lim' = [lim EXCEPT ![p] = 0]
    /\ UNCHANGED <<freelist, count, data, pte, child, req, panicked>>

-----------------------------------------------------------------------------
(* Steps of the kernel and the hardware that finish what p has started ... *)
Continue(p) ==
    \/ ExecPage(p) \/ ExecFail(p) \/ ExecUndoPage(p) \/ ExecUndone(p) \/ ExecDone(p)
    \/ ForkPage(p) \/ ForkFail(p) \/ ForkUndoPage(p) \/ ForkUndone(p) \/ ForkDone(p)
    \/ Perform(p) \/ PageFault(p)
    \/ CopyOutEnd(p) \/ CopyOutSplit(p) \/ CopyOutPage(p)
    \/ FreePage(p) \/ Freed(p)

(* ... and steps that start something, which nobody has to take.           *)
Begin(p) ==
    \/ ExecStart(p)
    \/ \E np \in Procs : ForkStart(p, np)
    \/ \E acc \in Accesses, va \in Addrs, x \in Val, sp \in SPs : Access(p, acc, va, x, sp)
    \/ \E va \in Addrs, len \in Lens, x \in Val : CopyOut(p, va, len, x)
    \/ Grow(p) \/ Shrink(p) \/ Exit(p) \/ Reap(p)

Next == ~panicked /\ \E p \in Procs : Continue(p) \/ Begin(p)

Spec == Init /\ [][Next]_vars

\* Every operation in progress keeps being scheduled: xv6's scheduler runs
\* every RUNNABLE process in turn.
FairSpec == Spec /\ \A p \in Procs : WF_vars(~panicked /\ Continue(p))

-----------------------------------------------------------------------------
(* Which entries are valid at each point of each operation: what makes the *)
(* invariants below inductive.                                             *)

\* Exactly the entries lo .. hi - 1 of p's table are valid.
Mapped(p, lo, hi) == \A v \in VPages : pte[p][v].pa # NULL <=> lo <= v /\ v < hi

\* A fork has a child of its own, which does not run yet.
Family ==
    \A p \in Procs :
        /\ child[p] # NULL <=> pc[p] \in {"fork", "forkundo"}
        /\ child[p] # NULL => pc[child[p]] = "embryo"
        /\ \A q \in Procs : child[p] # NULL /\ child[q] = child[p] => q = p

\* Loop variables start at 0.
Loops ==
    \A p \in Procs :
        /\ pc[p] \in {"unused", "user", "access", "copyout", "zombie", "embryo"} => idx[p] = 0
        /\ pc[p] \notin {"execundo", "forkundo", "free"} => lim[p] = 0

ShapeOf(p) ==
    /\ pc[p] = "unused" => Mapped(p, 0, 0)
    /\ pc[p] = "exec" => idx[p] <= NI /\ Mapped(p, 0, idx[p])
    /\ pc[p] \in {"execundo", "free"} => idx[p] <= lim[p] /\ Mapped(p, idx[p], lim[p])
    /\ p \in Running \/ pc[p] = "zombie" => Mapped(p, 0, sz[p])
    /\ pc[p] = "fork" => idx[p] <= sz[p] /\ Mapped(child[p], 0, idx[p])
    /\ pc[p] = "forkundo" => idx[p] <= lim[p] /\ Mapped(child[p], idx[p], lim[p])

TableShape == \A p \in Procs : ShapeOf(p)

-----------------------------------------------------------------------------
(* Properties.                                                             *)

\* memrefc.count[pa] is the number of page-table entries that map pa, in
\* whatever order processes fork, fault, shrink, die and fail half way.
RefExact == \A pa \in Pages : count[pa] = Cardinality(Refs(pa))

\* The free list holds exactly the pages no page table maps: no page is
\* leaked, and no page is freed while a process can still reach it.
FreeIffUnmapped == \A pa \in Pages : pa \in freelist <=> Refs(pa) = {}

\* A mapping without PTE_COW is the only mapping of its page: what makes it
\* safe that cowhandle sets PTE_W, and that copyout writes through a
\* mapping without looking at PTE_W.
PrivateUnlessCow ==
    \A p \in Procs, v \in VPages :
        pte[p][v].pa # NULL /\ ~pte[p][v].cow => Refs(pte[p][v].pa) = {<<p, v>>}

\* No panic() is reached: the loops of uvmcopy and uvmunmap only meet valid
\* entries, on the failure paths too.
NoPanic == ~panicked

\* What the program asked for is legal in its own memory as exec and sbrk
\* built it, whether or not the page is shared at the moment.
Legal(p) ==
    LET r == req[p]
        e == walk(p, r.va)
    IN  /\ e.pa # NULL /\ e.u
        /\ r.acc = "store" => PageOf(r.va) \notin Text \cup Guard
        /\ r.acc = "fetch" => PageOf(r.va) \in Text

\* A page fault kills a process only for an access that its memory does not
\* allow, for want of memory, or at one of the two addresses that usertrap
\* and cowhandle refuse whatever is mapped there: 0, and the first byte of
\* the page the stack pointer is in.
KillJustified ==
    [][\A p \in Procs :
         pc[p] = "access" /\ pc'[p] = "zombie" =>
            \/ ~Legal(p)
            \/ freelist = {}
            \/ req[p].va \in {0, PGROUNDDOWN(req[p].sp)}]_vars

\* A page that exec maps without PTE_W is never written: the README's table
\* of PTE flags calls PTE_W the write permission, and cowhandle's refusal of
\* address 0 is there for usertests' nowrite.
TextUnchanged ==
    \A p \in Running, v \in Text : v < sz[p] => data[pte[p][v].pa] = Image

\* Every operation that has started ends: a faulting access is not retried
\* for ever, and every undo and every free completes.
OpsEnd ==
    \A p \in Procs :
        pc[p] \in {"exec", "execundo", "fork", "forkundo", "access", "copyout", "free"}
            ~> pc[p] \in {"user", "zombie", "unused"}

\* The memory of the running processes, seen through their page tables.
UserMem ==
    [p \in Procs |-> IF p \in Running
                       THEN [v \in 0 .. sz[p] - 1 |-> data[pte[p][v].pa]]
                       ELSE [v \in {} |-> Zero]]

Private == INSTANCE PrivateMemory WITH mem <- UserMem

\* Copy-on-write is not observable: the memory of the running processes
\* behaves as private memory that fork copies.
ImplementsPrivateMemory == Private!Spec
=============================================================================
