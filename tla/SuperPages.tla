----------------------------- MODULE SuperPages -----------------------------
(***************************************************************************)
(* Lab 3, "use superpages": sbrk (growproc, sbrksuperuvmalloc, uvmalloc),  *)
(* fork (uvmcopy) and process teardown over a heap that mixes ordinary     *)
(* pages and superpages, the two free lists of kalloc.c, and the record    *)
(* of page kinds that growproc reads back when the heap shrinks.           *)
(*                                                                         *)
(* Sizes and addresses are in bytes, so rounding and a size in the middle  *)
(* of a page are the code's own.  The contents of a page are not kept:     *)
(* uvmalloc zeroes whatever it maps, so a page that leaves a table has     *)
(* lost its contents.  Every turn of a kernel loop is one step, and the    *)
(* steps of different processes interleave on the free lists.              *)
(*                                                                         *)
(* A program's image is smaller than a superpage, so address 0 is always   *)
(* an ordinary page and the upper-level tables exist before superwalk is   *)
(* called.  They are counted, with the trapframe and usyscall pages and    *)
(* the root, in the HEAD pages that allocproc takes.                       *)
(***************************************************************************)
EXTENDS Integers, FiniteSets

CONSTANTS
    Procs,      \* slots of the process table
    NULL,       \* no process
    PGSIZE,     \* bytes of a page
    K,          \* pages of a superpage
    BASE,       \* pages of a program's image
    LIMIT,      \* bound on a process's size, in bytes
    RECORD,     \* length of p->record
    HEAD,       \* pages a process owns besides its memory and leaf tables
    TABLES,     \* those of them that are page tables, which exec makes anew
    NPages,     \* pages the ordinary free list starts with
    NSuper,     \* superpages the other free list starts with
    Grows,      \* what sbrk may add
    Shrinks     \* what sbrk may take away

SUPERPGSIZE == K * PGSIZE

ASSUME SuperAssumption ==
    /\ NULL \notin Procs
    /\ PGSIZE \in Nat \ {0} /\ K \in Nat \ {0, 1}
    /\ BASE \in 1 .. K /\ LIMIT \in Nat /\ RECORD \in Nat
    /\ HEAD \in Nat /\ TABLES \in 0 .. HEAD /\ NPages \in Nat /\ NSuper \in Nat
    /\ HEAD + BASE + 1 =< NPages
    /\ 2 * SUPERPGSIZE =< LIMIT
    /\ Grows \subseteq Nat \ {0} /\ Shrinks \subseteq Nat \ {0}

VARIABLES
    tab,        \* page tables: ordinary pages mapped, superpages mapped, and
                \*   the regions that have a leaf table (kept when it empties)
    sz,         \* p->sz
    ones,       \* the positions of p->record that hold '1'
    next,       \* p->next
    pc,         \* what the process is doing
    op,         \* the locals of the kernel function it is in
    free,       \* length of kmem.freelist
    superfree,  \* length of superkmem.freelist
    halt,       \* "no", the panic that stopped the kernel, or "wild" once
                \*   p->record is written outside its bounds
    \* History, for the properties only:
    base        \* the size at which the process's record starts, or UNTIDY
                \*   once it asked for what the record cannot describe

vars == <<tab, sz, ones, next, pc, op, free, superfree, halt, base>>

UNTIDY == -1
Tidy(p) == base[p] # UNTIDY

-----------------------------------------------------------------------------
(* Addresses and the page table.                                           *)

PageOf(a) == a \div PGSIZE
RegionOf(a) == a \div SUPERPGSIZE
PGROUNDUP(a) == ((a + PGSIZE - 1) \div PGSIZE) * PGSIZE

NoTable == [small |-> {}, super |-> {}, l0 |-> {}]

Image == [small |-> 0 .. BASE - 1, super |-> {}, l0 |-> {0}]

(* What walk finds at address a without allocating: the level-1 entry of a *)
(* superpage, a valid or an empty leaf entry, or no leaf table.            *)
walk(t, a) ==
    CASE RegionOf(a) \in t.super -> "super"
      [] RegionOf(a) \in t.l0 /\ PageOf(a) \in t.small -> "page"
      [] RegionOf(a) \in t.l0 /\ PageOf(a) \notin t.small -> "empty"
      [] OTHER -> "none"

(* mappages of one page, and supermappages of one superpage.               *)
MapPage(t, a) ==
    [t EXCEPT !.small = @ \cup {PageOf(a)}, !.l0 = @ \cup {RegionOf(a)}]
MapSuper(t, a) == [t EXCEPT !.super = @ \cup {RegionOf(a)}]

(* The valid level-1 entry that makes supermappages panic: a superpage, or *)
(* a leaf table, whether or not it still maps a page.                      *)
Remap(t, a) == RegionOf(a) \in t.super \cup t.l0

(* Pages of kmem that mapping a takes: the page, and a leaf table if walk  *)
(* has to make one.                                                        *)
PageCost(t, a) == IF walk(t, a) = "none" THEN 2 ELSE 1

(* The pages a table maps, either way.                                     *)
Mapped(t) ==
    t.small \cup UNION {r * K .. r * K + K - 1 : r \in t.super}

(* The slip of wrapping below zero: the size is taken away unchecked.      *)
DeallocWraps(s, by) == s - by

(* The size uvmdealloc(s, s - by) returns: s - by is unsigned, so a size   *)
(* smaller than by wraps above s and nothing is released.                  *)
Dealloc(s, by) == IF by > s THEN s ELSE s - by

-----------------------------------------------------------------------------
(* kalloc.c: two independent lists, each under its lock.                   *)

kalloc(n) == free >= n /\ free' = free - n /\ UNCHANGED superfree
kfree == free' = free + 1 /\ UNCHANGED superfree

superkalloc ==
    superfree > 0 /\ superfree' = superfree - 1 /\ UNCHANGED free

(* The slip of giving a superpage back to the list of ordinary pages.      *)
FreeAsPage == kfree

superkfree == superfree' = superfree + 1 /\ UNCHANGED free

-----------------------------------------------------------------------------
Idle == [arg |-> 0, lsz |-> 0, n |-> 0, i |-> 0, a |-> 0, end |-> 0, old |-> 0,
         ret |-> "none", starts |-> 0, supers |-> 0, ends |-> 0,
         child |-> NULL, was |-> {}]

Init ==
    /\ \E first \in Procs :
         /\ tab = [p \in Procs |-> IF p = first THEN Image ELSE NoTable]
         /\ sz = [p \in Procs |-> IF p = first THEN BASE * PGSIZE ELSE 0]
         /\ pc = [p \in Procs |-> IF p = first THEN "run" ELSE "unused"]
    /\ ones = [p \in Procs |-> {}]
    /\ next = [p \in Procs |-> 0]
    /\ op = [p \in Procs |-> Idle]
    /\ free = NPages - HEAD - BASE - 1
    /\ superfree = NSuper
    /\ halt = "no"
    /\ base = [p \in Procs |-> BASE * PGSIZE]

Goto(p, where, locals) ==
    /\ pc' = [pc EXCEPT ![p] = where]
    /\ op' = [op EXCEPT ![p] = locals]

Panic(why) ==
    /\ halt' = why
    /\ UNCHANGED <<tab, sz, ones, next, pc, op, free, superfree>>

(* Requests for whole pages whose end leaves every superpage whole and     *)
(* does not reach below the record.                                        *)
TidyGrow(p, n) == n % PGSIZE = 0
TidyShrink(p, n) ==
    /\ n % PGSIZE = 0
    /\ sz[p] - n >= base[p]
    /\ \A q \in tab[p].super : ~(q * SUPERPGSIZE < sz[p] - n
                                  /\ sz[p] - n < (q + 1) * SUPERPGSIZE)

-----------------------------------------------------------------------------
(* The allocation loop shared by sbrksuperuvmalloc (ret = "grow") and      *)
(* uvmalloc (ret = "split"): from PGROUNDUP(oldsz), a superpage wherever   *)
(* one is aligned and fits, an ordinary page elsewhere.                    *)

WantSuper(o) == o.a % SUPERPGSIZE = 0 /\ o.end - o.a >= SUPERPGSIZE

(* sbrk(n), n > 0: growproc calls sbrksuperuvmalloc.                       *)
SbrkGrow(p, n) ==
    /\ pc[p] = "run" /\ sz[p] + n =< LIMIT
    /\ Goto(p, "alloc", [Idle EXCEPT !.arg = n, !.a = PGROUNDUP(sz[p]),
                              !.old = PGROUNDUP(sz[p]), !.end = sz[p] + n,
                              !.ret = "grow", !.was = Mapped(tab[p])])
    /\ base' = [base EXCEPT ![p] = IF TidyGrow(p, n) THEN @ ELSE UNTIDY]
    /\ UNCHANGED <<tab, sz, ones, next, free, superfree, halt>>

AllocSuper(p) ==
    LET o == op[p] IN
    /\ pc[p] = "alloc" /\ o.a < o.end /\ WantSuper(o) /\ superfree > 0
    /\ IF Remap(tab[p], o.a)
         THEN Panic("remap")
         ELSE /\ tab' = [tab EXCEPT ![p] = MapSuper(@, o.a)]
              /\ superkalloc
              /\ Goto(p, "alloc", [o EXCEPT !.a = @ + SUPERPGSIZE, !.supers = @ + 1])
              /\ UNCHANGED <<sz, ones, next, halt>>

AllocPage(p) ==
    LET o == op[p] IN
    /\ pc[p] = "alloc" /\ o.a < o.end /\ ~WantSuper(o)
    /\ free >= PageCost(tab[p], o.a)
    /\ IF walk(tab[p], o.a) \in {"page", "super"}
         THEN Panic("remap")
         ELSE /\ tab' = [tab EXCEPT ![p] = MapPage(@, o.a)]
              /\ kalloc(PageCost(tab[p], o.a))
              /\ Goto(p, "alloc", [o EXCEPT !.a = @ + PGSIZE,
                                     !.starts = IF o.supers = 0 THEN @ + 1 ELSE @,
                                     !.ends = IF o.supers = 0 THEN @ ELSE @ + 1])
              /\ UNCHANGED <<sz, ones, next, halt>>

(* The slip of returning without undoing when an allocation fails.         *)
UndoNothing(o) == [o EXCEPT !.end = o.a]

(* uvmdealloc(pagetable, a, oldsz): what this call mapped is unmapped.     *)
UndoAlloc(o) == [o EXCEPT !.a = o.old, !.end = o.a]

(* kalloc, superkalloc or the leaf table's kalloc returns 0.               *)
AllocFail(p) ==
    LET o == op[p] IN
    /\ pc[p] = "alloc" /\ o.a < o.end
    /\ IF WantSuper(o) THEN superfree = 0 ELSE free < PageCost(tab[p], o.a)
    /\ Goto(p, "unmap", [UndoAlloc(o) EXCEPT
                            !.ret = IF o.ret = "grow" THEN "failed" ELSE "lost"])
    /\ UNCHANGED <<tab, sz, ones, next, free, superfree, halt>>

(* growproc after a successful growth: '0' per page before the superpages, *)
(* '1' per superpage, '0' per page after, from p->record[p->next] on.      *)
GrowDone(p) ==
    LET o == op[p]
        total == o.starts + o.supers + o.ends
        first == next[p] + o.starts
        written == next[p] .. next[p] + total - 1
    IN  /\ pc[p] = "alloc" /\ o.a >= o.end /\ o.ret = "grow"
        /\ IF ~(written \subseteq 0 .. RECORD - 1)
             THEN Panic("wild")
             ELSE /\ ones' = [ones EXCEPT ![p] =
                               (@ \ written) \cup (first .. first + o.supers - 1)]
                  /\ next' = [next EXCEPT ![p] = @ + total]
                  /\ sz' = [sz EXCEPT ![p] = o.end]
                  /\ Goto(p, "run", Idle)
                  /\ UNCHANGED <<tab, free, superfree, halt>>

-----------------------------------------------------------------------------
(* uvmunmap(pagetable, a, ..., 1) up to end, for the process itself or,    *)
(* after a failed fork, for the child.                                     *)

Target(p) == IF op[p].ret = "fork" THEN op[p].child ELSE p

(* The slip of going on by a page after a superpage too, and the code's    *)
(* increment.                                                              *)
ByPages(w) == PGSIZE
UnmapInc(w) == IF w = "super" THEN SUPERPGSIZE ELSE PGSIZE

UnmapStep(p) ==
    LET o == op[p]  t == Target(p)  w == walk(tab[t], o.a) IN
    /\ pc[p] = "unmap" /\ o.a < o.end
    /\ \/ /\ w = "super"
          /\ tab' = [tab EXCEPT ![t].super = @ \ {RegionOf(o.a)}]
          /\ superkfree
          /\ Goto(p, "unmap", [o EXCEPT !.a = @ + UnmapInc(w)])
          /\ UNCHANGED <<sz, ones, next, halt>>
       \/ /\ w = "page"
          /\ tab' = [tab EXCEPT ![t].small = @ \ {PageOf(o.a)}]
          /\ kfree
          /\ Goto(p, "unmap", [o EXCEPT !.a = @ + UnmapInc(w)])
          /\ UNCHANGED <<sz, ones, next, halt>>
       \/ w \in {"none", "empty"} /\ Panic("unmap")

(* A process has left uvmunmap, called for the reason why.                 *)
Unmapped(p, why) == pc[p] = "unmap" /\ op[p].a >= op[p].end /\ op[p].ret = why

(* The rest of a failed growth: growproc returns -1.                       *)
GrowFailed(p) ==
    /\ Unmapped(p, "failed")
    /\ Goto(p, "run", Idle)
    /\ UNCHANGED <<tab, sz, ones, next, free, superfree, halt>>

-----------------------------------------------------------------------------
(* sbrk(-n), n > 0: growproc walks p->record backwards from p->next - 1.    *)

SbrkShrink(p, n) ==
    /\ pc[p] = "run"
    /\ Goto(p, "shrink", [Idle EXCEPT !.arg = -n, !.n = -n, !.lsz = sz[p],
                                      !.i = next[p] - 1])
    /\ base' = [base EXCEPT ![p] = IF TidyShrink(p, n) THEN @ ELSE UNTIDY]
    /\ UNCHANGED <<tab, sz, ones, next, free, superfree, halt>>

(* uvmdealloc(pagetable, lsz, lsz - by), to be followed by what ret says.  *)
StartDealloc(p, by, n, ret) ==
    LET o == op[p]  s == Dealloc(o.lsz, by) IN
    /\ Goto(p, "unmap", [o EXCEPT !.lsz = s, !.n = n, !.ret = ret,
                            !.a = PGROUNDUP(s), !.end = PGROUNDUP(o.lsz)])
    /\ UNCHANGED <<tab, sz, ones, next, free, superfree, halt>>

(* What growproc may read in p->record[i]: i may lie past the record's end *)
(* once a split has moved p->next there, and the byte is then any.         *)
ReadsOne(p) == op[p].i \in ones[p] \/ op[p].i >= RECORD
ReadsZero(p) == op[p].i \notin ones[p]

(* The record's entry is a superpage, and part of it is to stay.           *)
ShrinkSplit(p) ==
    /\ pc[p] = "shrink" /\ op[p].i >= 0 /\ ReadsOne(p)
    /\ op[p].n + SUPERPGSIZE > 0
    /\ StartDealloc(p, SUPERPGSIZE, op[p].n, "split")

ShrinkSuper(p) ==
    /\ pc[p] = "shrink" /\ op[p].i >= 0 /\ ReadsOne(p)
    /\ op[p].n + SUPERPGSIZE =< 0
    /\ StartDealloc(p, SUPERPGSIZE, op[p].n + SUPERPGSIZE, "shrink")

ShrinkPage(p) ==
    /\ pc[p] = "shrink" /\ op[p].i >= 0 /\ ReadsZero(p)
    /\ StartDealloc(p, PGSIZE, op[p].n + PGSIZE, "shrink")

(* The loop is left: p->sz = sz.                                           *)
Shrunk(p, s, nxt) ==
    /\ sz' = [sz EXCEPT ![p] = s]
    /\ next' = [next EXCEPT ![p] = nxt]
    /\ Goto(p, "run", Idle)
    /\ UNCHANGED <<tab, free, superfree, halt>>

(* p->next when the entries released add up to n exactly, and the slip of  *)
(* treating this case like the one in which they exceed n.                 *)
DropOneMore(i) == i - 1
FirstReleased(i) == i

(* After a whole entry was released: stop when enough is, else go on.      *)
ShrinkNext(p) ==
    LET o == op[p] IN
    /\ Unmapped(p, "shrink")
    /\ UNCHANGED ones
    /\ \/ o.n > 0 /\ Shrunk(p, o.lsz, o.i - 1)
       \/ o.n = 0 /\ Shrunk(p, o.lsz, FirstReleased(o.i))
       \/ /\ o.n < 0
          /\ Goto(p, "shrink", [o EXCEPT !.i = @ - 1])
          /\ UNCHANGED <<tab, sz, next, free, superfree, halt>>

(* The record has no more entries.                                         *)
ShrinkEnd(p) ==
    /\ pc[p] = "shrink" /\ op[p].i < 0
    /\ UNCHANGED ones
    /\ Shrunk(p, op[p].lsz, next[p])

(* A superpage was released whole; the part that stays is allocated anew   *)
(* from ordinary pages, by uvmalloc(lsz, lsz + SUPERPGSIZE + n).           *)
SplitAlloc(p) ==
    LET o == op[p] IN
    /\ Unmapped(p, "split")
    /\ Goto(p, "alloc", [o EXCEPT !.a = PGROUNDUP(o.lsz), !.old = PGROUNDUP(o.lsz),
                                  !.end = o.lsz + SUPERPGSIZE + o.n])
    /\ UNCHANGED <<tab, sz, ones, next, free, superfree, halt>>

(* uvmalloc returned newsz, or 0 after undoing what it mapped: growproc    *)
(* stores either as the size.  p->record[i] becomes '0'; p->next grows     *)
(* without a bound, and only a later access past the record's end is wild. *)
SplitDone(p) ==
    LET o == op[p]
        nxt == next[p] - 1 + (o.n + SUPERPGSIZE) \div PGSIZE
    IN  /\ \/ pc[p] = "alloc" /\ o.a >= o.end /\ o.ret = "split"
           \/ Unmapped(p, "lost")
        /\ IF o.i >= RECORD
             THEN Panic("wild")
             ELSE /\ ones' = [ones EXCEPT ![p] = @ \ {o.i}]
                  /\ Shrunk(p, IF o.ret = "split" THEN o.end ELSE 0, nxt)

-----------------------------------------------------------------------------
(* fork: allocproc, uvmcopy into the child's table, and its failure path.  *)

ForkStart(p, c) ==
    /\ pc[p] = "run" /\ pc[c] = "unused" /\ free >= HEAD
    /\ pc' = [pc EXCEPT ![p] = "copy", ![c] = "embryo"]
    /\ op' = [op EXCEPT ![p] = [Idle EXCEPT !.child = c, !.end = sz[p]]]
    /\ free' = free - HEAD
    /\ UNCHANGED <<tab, sz, ones, next, superfree, halt>>

(* The slip of copying whole pages only: a size in the middle of a page.   *)
WholePages(o) == o.a + PGSIZE =< o.end

(* uvmcopy's loop condition, i < sz.                                       *)
MoreToCopy(o) == o.a < o.end

(* uvmcopy's test of PTE_S in the entry that walk found.                   *)
PTE_S(w) == w = "super"

(* One turn of uvmcopy; the child's table maps nothing at a yet.           *)
CopyStep(p) ==
    LET o == op[p]  c == o.child  w == walk(tab[p], o.a) IN
    /\ pc[p] = "copy" /\ MoreToCopy(o)
    /\ \/ /\ PTE_S(w)
          /\ tab' = [tab EXCEPT ![c] = MapSuper(@, o.a)]
          /\ superkalloc
          /\ Goto(p, "copy", [o EXCEPT !.a = @ + SUPERPGSIZE])
          /\ UNCHANGED <<sz, ones, next, halt>>
       \/ /\ w \notin {"none", "empty"} /\ ~PTE_S(w)
          /\ tab' = [tab EXCEPT ![c] = MapPage(@, o.a)]
          /\ kalloc(PageCost(tab[c], o.a))
          /\ Goto(p, "copy", [o EXCEPT !.a = @ + PGSIZE])
          /\ UNCHANGED <<sz, ones, next, halt>>
       \/ w \in {"none", "empty"} /\ Panic("copy")

(* The err label: (i + szinc - 1) / PGSIZE pages of the child are unmapped *)
(* from 0, which for a superpage reaches past what was copied.             *)
CopyFail(p) ==
    LET o == op[p]
        w == walk(tab[p], o.a)
        szinc == IF PTE_S(w) THEN SUPERPGSIZE ELSE PGSIZE
    IN  /\ pc[p] = "copy" /\ MoreToCopy(o)
        /\ w \notin {"none", "empty"}
        /\ IF PTE_S(w) THEN superfree = 0 ELSE free < PageCost(tab[o.child], o.a)
        /\ Goto(p, "unmap", [o EXCEPT !.a = 0, !.ret = "fork",
                               !.end = PageOf(o.a + szinc - 1) * PGSIZE])
        /\ UNCHANGED <<tab, sz, ones, next, free, superfree, halt>>

(* fork after uvmcopy: the child has the parent's size; its record and     *)
(* next are those of a fresh process slot.                                 *)
ForkDone(p) ==
    LET c == op[p].child IN
    /\ pc[p] = "copy" /\ ~MoreToCopy(op[p])
    /\ sz' = [sz EXCEPT ![c] = sz[p]]
    /\ base' = [base EXCEPT ![c] = IF Tidy(p) THEN sz[p] ELSE UNTIDY]
    /\ pc' = [pc EXCEPT ![p] = "run", ![c] = "run"]
    /\ op' = [op EXCEPT ![p] = Idle]
    /\ UNCHANGED <<tab, ones, next, free, superfree, halt>>

-----------------------------------------------------------------------------
(* p runs freeproc(t), whose memory was unmapped:    freewalk panics on a  *)
(* leaf entry that is left, and gives the tables back.                     *)
freeproc(p, t) ==
    IF Mapped(tab[t]) # {}
      THEN Panic("freewalk") /\ UNCHANGED base
      ELSE /\ tab' = [tab EXCEPT ![t] = NoTable]
           /\ free' = free + Cardinality(tab[t].l0) + HEAD
           /\ sz' = [sz EXCEPT ![t] = 0]
           /\ next' = [next EXCEPT ![t] = 0]
           /\ op' = [op EXCEPT ![p] = Idle]
           /\ base' = [base EXCEPT ![t] = BASE * PGSIZE]
           /\ UNCHANGED <<ones, superfree, halt>>

(* fork returns -1 after freeing the child.                                *)
ForkFailed(p) ==
    /\ Unmapped(p, "fork")
    /\ freeproc(p, op[p].child)
    /\ pc' = IF halt' = "no" THEN [pc EXCEPT ![p] = "run", ![op[p].child] = "unused"]
                             ELSE pc

(* exec has built its new table: it takes over, and the memory of the old  *)
(* program is unmapped.  p->record and p->next stay as they are.           *)
ExecStart(p) ==
    /\ pc[p] = "run"
    /\ kalloc(TABLES + BASE + 1)
    /\ Goto(p, "unmap", [Idle EXCEPT !.end = PGROUNDUP(sz[p]), !.ret = "exec"])
    /\ UNCHANGED <<tab, sz, ones, next, halt>>

ExecDone(p) ==
    /\ Unmapped(p, "exec")
    /\ IF Mapped(tab[p]) # {}
         THEN Panic("freewalk") /\ UNCHANGED base
         ELSE /\ tab' = [tab EXCEPT ![p] = Image]
              /\ free' = free + Cardinality(tab[p].l0) + TABLES
              /\ sz' = [sz EXCEPT ![p] = BASE * PGSIZE]
              /\ Goto(p, "run", Idle)
              /\ base' = [base EXCEPT ![p] = IF next[p] = 0 THEN BASE * PGSIZE ELSE UNTIDY]
              /\ UNCHANGED <<ones, next, superfree, halt>>

(* exit and the parent's wait: uvmfree unmaps up to the size.  A program   *)
(* that loads or stores where nothing is mapped, which usertrap kills for  *)
(* either cause and on either side of KERNBASE and MAXVA, takes this step  *)
(* too.                                                                    *)
Exit(p) ==
    /\ pc[p] = "run"
    /\ Goto(p, "unmap", [Idle EXCEPT !.end = PGROUNDUP(sz[p]), !.ret = "exit"])
    /\ UNCHANGED <<tab, sz, ones, next, free, superfree, halt>>

ExitDone(p) ==
    /\ Unmapped(p, "exit")
    /\ freeproc(p, p)
    /\ pc' = IF halt' = "no" THEN [pc EXCEPT ![p] = "unused"] ELSE pc

-----------------------------------------------------------------------------
(* Steps that start or end nothing the history keeps.                      *)
Quiet(p) ==
    \/ AllocSuper(p) \/ AllocPage(p) \/ AllocFail(p)
    \/ GrowDone(p) \/ GrowFailed(p)
    \/ UnmapStep(p)
    \/ ShrinkSplit(p) \/ ShrinkSuper(p) \/ ShrinkPage(p)
    \/ ShrinkNext(p) \/ ShrinkEnd(p) \/ SplitAlloc(p) \/ SplitDone(p)
    \/ \E c \in Procs : ForkStart(p, c)
    \/ CopyStep(p) \/ CopyFail(p)
    \/ ExecStart(p)
    \/ Exit(p)

Next ==
    /\ halt = "no"
    /\ \E p \in Procs :
          \/ \E n \in Grows : SbrkGrow(p, n)
          \/ \E n \in Shrinks : SbrkShrink(p, n)
          \/ ForkDone(p) \/ ForkFailed(p) \/ ExecDone(p) \/ ExitDone(p)
          \/ Quiet(p) /\ UNCHANGED base

Spec == Init /\ [][Next]_vars

-----------------------------------------------------------------------------
(* Sizes stay natural and bounded however sbrk and fork interleave; the    *)
(* tables map pages of the address space only; a region is never both a    *)
(* superpage and a leaf table; growproc's subtractions do not wrap.        *)
TypeOK ==
    /\ tab \in [Procs -> [small : SUBSET (0 .. LIMIT \div PGSIZE),
                          super : SUBSET (0 .. LIMIT \div SUPERPGSIZE),
                          l0 : SUBSET (0 .. LIMIT \div SUPERPGSIZE)]]
    /\ sz \in [Procs -> 0 .. LIMIT]
    /\ ones \in [Procs -> SUBSET (0 .. RECORD - 1)]
    /\ next \in [Procs -> Nat \cup {-1}]
    /\ pc \in [Procs -> {"unused", "embryo", "run", "alloc", "unmap", "shrink", "copy"}]
    /\ free \in 0 .. NPages /\ superfree \in 0 .. NSuper
    /\ \A p \in Procs : tab[p].super \cap tab[p].l0 = {}

(* The pages of kmem that a process holds, named by their use: its memory, *)
(* its leaf tables, what allocproc took, and what exec took for the new    *)
(* program.                                                                *)
HeldBy(p) ==
    ({"page"} \X tab[p].small) \cup ({"leaf"} \X tab[p].l0)
      \cup ({"head"} \X (1 .. IF pc[p] = "unused" THEN 0 ELSE HEAD))
      \cup ({"exec"} \X (1 .. IF op[p].ret = "exec" THEN TABLES + BASE + 1 ELSE 0))

Held == UNION {{p} \X HeldBy(p) : p \in Procs}
HeldSuper == UNION {{p} \X tab[p].super : p \in Procs}

(* No page or superpage is lost or given back twice: each list's length    *)
(* and what the processes hold always add up to the initial memory, in     *)
(* every step of growing, splitting, undoing, forking and exiting, and in  *)
(* the state in which the kernel panics.                                   *)
PagesConserved ==
    /\ NPages = free + Cardinality(Held)
    /\ NSuper = superfree + Cardinality(HeldSuper)

(* A fork that returns gives the child exactly the parent's memory up to   *)
(* its size, page for page and superpage for superpage (uvmcopy), whatever *)
(* sbrk calls shaped the parent's heap.                                    *)
ForkExact ==
    [][\A p, c \in Procs :
          pc[p] = "copy" /\ op[p].child = c /\ pc'[p] = "run" =>
            /\ sz'[c] = sz[p]
            /\ tab[c].small = {v \in tab[p].small : v * PGSIZE < sz[p]}
            /\ tab[c].super = {r \in tab[p].super : r * SUPERPGSIZE < sz[p]}]_vars

(* sbrk(n) that returns -1 leaves the process as it was: the pages it      *)
(* mapped before either free list ran out are unmapped, no other page is,  *)
(* and neither the size nor the record's length changes.                   *)
FailedGrowUndone ==
    [][\A p \in Procs :
          Unmapped(p, "failed") /\ pc'[p] = "run" =>
            /\ Mapped(tab[p]) = op[p].was
            /\ sz'[p] = sz[p] /\ next'[p] = next[p]]_vars

(* A shrink by whole pages keeps what stays: no page that lies wholly      *)
(* below the new size leaves the table while growproc runs.                *)
KeptMemory ==
    [][\A p \in Procs :
          LET top == sz[p] + op[p].arg IN
          op[p].arg < 0 /\ op[p].arg % PGSIZE = 0 =>
            \A v \in Mapped(tab[p]) :
               (v + 1) * PGSIZE =< top => v \in Mapped(tab'[p])]_vars

(* The entries that p->record should have: one per ordinary page of the    *)
(* heap and one per superpage, in the order of their addresses.            *)
HeapPages(p) == {v \in tab[p].small : v * PGSIZE >= base[p]}
HeapSupers(p) == {q \in tab[p].super : q * SUPERPGSIZE >= base[p]}
EntryOf(p, q) ==
    Cardinality({v \in HeapPages(p) : v < q * K})
      + Cardinality({s \in HeapSupers(p) : s < q})

(* While a program asks for whole pages and never cuts a superpage in two, *)
(* its memory has no hole and p->record, which growproc updates by hand on *)
(* every call, describes the heap exactly: through any order of growing,   *)
(* failing to grow, shrinking, forking and exiting.                        *)
TidyHeap ==
    \A p \in Procs : pc[p] = "run" /\ Tidy(p) =>
      /\ Mapped(tab[p]) = 0 .. PageOf(sz[p]) - 1
      /\ next[p] = Cardinality(HeapPages(p)) + Cardinality(HeapSupers(p))
      /\ ones[p] \cap 0 .. next[p] - 1 = {EntryOf(p, q) : q \in HeapSupers(p)}

(* Such programs stop the kernel in three ways only.  The heap has more    *)
(* entries than p->record has room for: no entry is written twice or too   *)
(* far.  A superpage is mapped over the leaf table that released pages     *)
(* left behind, never over memory in use.  Or a fork that runs out of      *)
(* superpages comes, in the child, to the superpage of the parent that it  *)
(* could not copy, after it gave back all that it did copy.                *)
TidyPanics ==
    halt # "no" /\ (\A p \in Procs : Tidy(p)) =>
      \E p \in Procs :
        \/ /\ halt = "wild" /\ pc[p] = "alloc"
           /\ Cardinality(HeapPages(p)) + Cardinality(HeapSupers(p)) > RECORD
        \/ /\ halt = "remap" /\ pc[p] = "alloc" /\ WantSuper(op[p])
           /\ RegionOf(op[p].a) \in tab[p].l0
           /\ \A v \in Mapped(tab[p]) : v < PageOf(op[p].a)
        \/ /\ halt = "unmap" /\ pc[p] = "unmap" /\ op[p].ret = "fork"
           /\ walk(tab[p], op[p].a) = "super"
           /\ Mapped(tab[op[p].child]) = {}
=============================================================================
