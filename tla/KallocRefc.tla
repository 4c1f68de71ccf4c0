------------------------------ MODULE KallocRefc ------------------------------
(***************************************************************************)
(* The counted page allocator of lab 6 (kalloc.c) at the grain of its      *)
(* locks, with the callers that share pages: uvmcopy, cowhandle, uvmalloc  *)
(* and uvmunmap.  kmem.lock and memrefc.lock are two locks, each held for  *)
(* one step; between the steps of one process any other may run.  In       *)
(* particular kfree() decrements the count under the lock and reads it     *)
(* again, with refcget(), outside.                                         *)
(*                                                                         *)
(* Parallel bounds the operations in progress.  With 1 they are serial;    *)
(* with 2 there are two harts, or one hart that is preempted inside a      *)
(* system call's copyout.                                                  *)
(*                                                                         *)
(* The free list is a sequence.  A page pushed while it is still on the    *)
(* list, or in use, destroys the list: the model stops there (Corrupted).  *)
(***************************************************************************)
EXTENDS Integers, Sequences, FiniteSets, Functions

CONSTANTS
    Procs,      \* processes, with their page tables
    Pages,      \* physical pages
    NULL,       \* no page, no process
    Parallel    \* most operations in progress at a time

ASSUME RefcAssumption ==
    /\ NULL \notin Procs \cup Pages
    /\ IsFiniteSet(Procs) /\ IsFiniteSet(Pages)
    /\ Parallel \in Nat \ {0}

VARIABLES
    freelist,   \* kmem.freelist, head first
    count,      \* memrefc.count
    maps,       \* process -> pages its page table maps
    pc,         \* where each process is in the kernel
    page,       \* r of kalloc or pa of kfree
    old,        \* the shared page that cowhandle is replacing
    todo,       \* pages uvmcopy has still to share
    np,         \* the process whose table is being built or freed
    back,       \* where kfree returns to
    waitlock    \* who holds wait_lock, or NULL

vars == <<freelist, count, maps, pc, page, old, todo, np, back, waitlock>>

Busy == {p \in Procs : pc[p] \notin {"none", "embryo", "user"}}

\* p enters the kernel and finds a hart.
Enter(p) == pc[p] = "user" /\ Cardinality(Busy) < Parallel

Holders(pa) == {p \in Procs : pa \in maps[p]}

\* Somebody got the page from kalloc and has neither mapped nor freed it yet.
InFlight(pa) ==
    \E p \in Procs :
        /\ page[p] = pa
        /\ pc[p] \in {"kalloc_ref", "map", "kfree_dec", "kfree_get", "kfree_push"}

\* p can still reach pa: no uvmunmap of p's table has given up the page.
Reaches(p, pa) ==
    \/ /\ pa \in maps[p]
       /\ ~ \E t \in Procs : /\ np[t] = p /\ page[t] = pa
                             /\ pc[t] \in {"kfree_get", "kfree_push"}
    \/ page[p] = pa /\ pc[p] \in {"kalloc_ref", "map"}

\* The list holds a page twice, or a page that somebody can reach.
Corrupted ==
    \/ \E i, j \in DOMAIN freelist : i # j /\ freelist[i] = freelist[j]
    \/ \E pa \in Range(freelist), p \in Procs : Reaches(p, pa)

-----------------------------------------------------------------------------
\* The state kinit leaves.
Init ==
    /\ freelist \in {s \in [1 .. Cardinality(Pages) -> Pages] : Range(s) = Pages}
    /\ count = [pa \in Pages |-> 0]
    /\ maps = [p \in Procs |-> {}]
    /\ pc = [p \in Procs |-> "none"]
    /\ page = [p \in Procs |-> NULL]
    /\ old = [p \in Procs |-> NULL]
    /\ todo = [p \in Procs |-> {}]
    /\ np = [p \in Procs |-> NULL]
    /\ back = [p \in Procs |-> "user"]
    /\ waitlock = NULL

\* The first process (userinit): an empty memory.
Spawn(p) ==
    /\ \A q \in Procs : pc[q] = "none"
    /\ pc' = [pc EXCEPT ![p] = "user"]
    /\ UNCHANGED <<freelist, count, maps, page, old, todo, np, back>>

-----------------------------------------------------------------------------
(* The three operations on memrefc, with a slip of each.                   *)

LoseUpdate(pa) == UNCHANGED count

\* Under memrefc.lock.
refcadd(pa) == count' = [count EXCEPT ![pa] = @ + 1]

\* Under memrefc.lock.
refcremove(pa) == count' = [count EXCEPT ![pa] = @ - 1]

\* The slip of testing for a count that is not negative.
SharedByNone(pa) == count[pa] >= 0

\* kfree's test of refcget: somebody still holds the page.
StillShared(pa) == count[pa] > 0

-----------------------------------------------------------------------------
(* kalloc, called by uvmalloc (victim = NULL) or by cowhandle for victim.  *)

\* The part under kmem.lock.
KallocPop(p, victim) ==
    /\ Enter(p)
    /\ victim = NULL \/ victim \in maps[p]
    /\ freelist # <<>>
    /\ freelist' = Tail(freelist)
    /\ page' = [page EXCEPT ![p] = Head(freelist)]
    /\ old' = [old EXCEPT ![p] = victim]
    /\ pc' = [pc EXCEPT ![p] = "kalloc_ref"]
    /\ UNCHANGED <<count, maps, todo, np, back>>

KallocRef(p) ==
    /\ pc[p] = "kalloc_ref"
    /\ refcadd(page[p])
    /\ pc' = [pc EXCEPT ![p] = "map"]
    /\ UNCHANGED <<freelist, maps, page, old, todo, np, back>>

\* uvmalloc: mappages succeeds.
MapNew(p) ==
    /\ pc[p] = "map"
    /\ old[p] = NULL
    /\ maps' = [maps EXCEPT ![p] = @ \cup {page[p]}]
    /\ page' = [page EXCEPT ![p] = NULL]
    /\ pc' = [pc EXCEPT ![p] = "user"]
    /\ UNCHANGED <<freelist, count, old, todo, np, back>>

\* uvmalloc: mappages fails, and the page is freed again.
MapFail(p) ==
    /\ pc[p] = "map"
    /\ old[p] = NULL
    /\ pc' = [pc EXCEPT ![p] = "kfree_dec"]
    /\ UNCHANGED <<freelist, count, maps, page, old, todo, np, back>>

\* cowhandle: the PTE now maps the copy; kfree(pa) follows.
MapCopy(p) ==
    /\ pc[p] = "map"
    /\ old[p] # NULL
    /\ maps' = [maps EXCEPT ![p] = (@ \ {old[p]}) \cup {page[p]}]
    /\ page' = [page EXCEPT ![p] = old[p]]
    /\ old' = [old EXCEPT ![p] = NULL]
    /\ pc' = [pc EXCEPT ![p] = "kfree_dec"]
    /\ UNCHANGED <<freelist, count, todo, np, back>>

-----------------------------------------------------------------------------
(* kfree, in its three steps.                                              *)

\* kfree returns; uvmunmap then clears the PTE.
KfreeReturn(p) ==
    /\ page' = [page EXCEPT ![p] = NULL]
    /\ pc' = [pc EXCEPT ![p] = back[p]]
    /\ maps' = IF back[p] = "uvmunmap"
                 THEN [maps EXCEPT ![np[p]] = @ \ {page[p]}]
                 ELSE maps

KfreeDec(p) ==
    /\ pc[p] = "kfree_dec"
    /\ refcremove(page[p])
    /\ pc' = [pc EXCEPT ![p] = "kfree_get"]
    /\ UNCHANGED <<freelist, maps, page, old, todo, np, back>>

\* refcget, without a lock: an aligned load of the int as it is now.
KfreeGet(p) ==
    /\ pc[p] = "kfree_get"
    /\ \/ /\ StillShared(page[p])
          /\ KfreeReturn(p)
       \/ /\ ~StillShared(page[p])
          /\ pc' = [pc EXCEPT ![p] = "kfree_push"]
          /\ UNCHANGED <<maps, page>>
    /\ UNCHANGED <<freelist, count, old, todo, np, back>>

\* memset, then the push under kmem.lock.
KfreePush(p) ==
    /\ pc[p] = "kfree_push"
    /\ freelist' = <<page[p]>> \o freelist
    /\ KfreeReturn(p)
    /\ UNCHANGED <<count, old, todo, np, back>>

-----------------------------------------------------------------------------
(* fork: uvmcopy maps each page of the parent into the child, then adds a  *)
(* reference to it.                                                        *)

ForkStart(p, c) ==
    /\ Enter(p)
    /\ pc[c] = "none"
    /\ pc' = [pc EXCEPT ![p] = "uvmcopy", ![c] = "embryo"]
    /\ np' = [np EXCEPT ![p] = c]
    /\ todo' = [todo EXCEPT ![p] = maps[p]]
    /\ UNCHANGED <<freelist, count, maps, page, old, back>>

\* The part of an iteration up to mappages.
CopyMap(p) ==
    /\ pc[p] = "uvmcopy"
    /\ \E pa \in todo[p] :
         /\ maps' = [maps EXCEPT ![np[p]] = @ \cup {pa}]
         /\ page' = [page EXCEPT ![p] = pa]
         /\ todo' = [todo EXCEPT ![p] = @ \ {pa}]
    /\ pc' = [pc EXCEPT ![p] = "uvmcopy_ref"]
    /\ UNCHANGED <<freelist, count, old, np, back>>

CopyRef(p) ==
    /\ pc[p] = "uvmcopy_ref"
    /\ refcadd(page[p])
    /\ page' = [page EXCEPT ![p] = NULL]
    /\ pc' = [pc EXCEPT ![p] = "uvmcopy"]
    /\ UNCHANGED <<freelist, maps, old, todo, np, back>>

\* mappages fails: unmap what the child has got.
CopyFail(p) ==
    /\ pc[p] = "uvmcopy"
    /\ todo[p] # {}
    /\ todo' = [todo EXCEPT ![p] = {}]
    /\ back' = [back EXCEPT ![p] = "uvmunmap"]
    /\ pc' = [pc EXCEPT ![p] = "uvmunmap"]
    /\ UNCHANGED <<freelist, count, maps, page, old, np>>

ForkDone(p) ==
    /\ pc[p] = "uvmcopy"
    /\ todo[p] = {}
    /\ pc' = [pc EXCEPT ![p] = "user", ![np[p]] = "user"]
    /\ np' = [np EXCEPT ![p] = NULL]
    /\ UNCHANGED <<freelist, count, maps, page, old, todo, back>>

-----------------------------------------------------------------------------
(* uvmunmap of a whole range: of a fork that failed (CopyFail), of a       *)
(* shrinking process, or of one that has exited.  freeproc is called by    *)
(* wait, which holds wait_lock: two processes are never freed at once.     *)

Unmap(p) ==
    /\ Enter(p)
    /\ np' = [np EXCEPT ![p] = p]
    /\ back' = [back EXCEPT ![p] = "uvmunmap"]
    /\ pc' = [pc EXCEPT ![p] = "uvmunmap"]
    /\ UNCHANGED <<freelist, count, maps, page, old, todo>>

\* growproc with n < 0, or exec that gives the old image back.
Shrink(p) ==
    /\ Unmap(p)
    /\ UNCHANGED waitlock

\* exit and the parent's wait, from where wait_lock is taken.
Exit(p) ==
    /\ waitlock = NULL
    /\ Unmap(p)
    /\ waitlock' = p

UnmapPage(p) ==
    /\ pc[p] = "uvmunmap"
    /\ \E pa \in maps[np[p]] : page' = [page EXCEPT ![p] = pa]
    /\ pc' = [pc EXCEPT ![p] = "kfree_dec"]
    /\ UNCHANGED <<freelist, count, maps, old, todo, np, back>>

\* The range of a shrink ends anywhere.
Shrunk(p) ==
    /\ pc[p] = "uvmunmap"
    /\ np[p] = p
    /\ waitlock # p
    /\ pc' = [pc EXCEPT ![p] = "user"]
    /\ np' = [np EXCEPT ![p] = NULL]
    /\ back' = [back EXCEPT ![p] = "user"]
    /\ UNCHANGED <<freelist, count, maps, page, old, todo, waitlock>>

\* The table is empty, and freeproc ends: for fork's child, or for an exit.
Unmapped(p) ==
    /\ pc[p] = "uvmunmap"
    /\ maps[np[p]] = {}
    /\ np[p] = p => waitlock = p
    /\ pc' = [pc EXCEPT ![p] = "user", ![np[p]] = "none"]
    /\ np' = [np EXCEPT ![p] = NULL]
    /\ back' = [back EXCEPT ![p] = "user"]
    /\ waitlock' = IF waitlock = p THEN NULL ELSE waitlock
    /\ UNCHANGED <<freelist, count, maps, page, old, todo>>

-----------------------------------------------------------------------------
\* The steps that neither take nor release wait_lock.
PlainStep(p) ==
    \/ Spawn(p)
    \/ \E victim \in maps[p] \cup {NULL} : KallocPop(p, victim)
    \/ KallocRef(p) \/ MapNew(p) \/ MapFail(p) \/ MapCopy(p)
    \/ KfreeDec(p) \/ KfreeGet(p) \/ KfreePush(p)
    \/ \E c \in Procs : ForkStart(p, c)
    \/ CopyMap(p) \/ CopyRef(p) \/ CopyFail(p) \/ ForkDone(p)
    \/ UnmapPage(p)

Step(p) ==
    \/ PlainStep(p) /\ UNCHANGED waitlock
    \/ Shrink(p) \/ Shrunk(p)
    \/ Exit(p) \/ Unmapped(p)

Next ==
    \/ ~Corrupted /\ \E p \in Procs : Step(p)
    \/ Corrupted /\ UNCHANGED vars

Spec == Init /\ [][Next]_vars

-----------------------------------------------------------------------------
(* Properties.                                                             *)

At(pa, pcs) == {p \in Procs : pc[p] \in pcs /\ page[p] = pa}

Unmapping == {p \in Procs : back[p] = "uvmunmap"}

\* Whatever the interleaving, memrefc.count[pa] is the number of page tables
\* that map pa, corrected for the operations that are between changing a
\* page table and changing the count: no update of the count is lost.
CountExact ==
    \A pa \in Pages :
      /\ count[pa] >= 0
      /\ count[pa] = Cardinality(Holders(pa))
                      + Cardinality(At(pa, {"map"}))
                      + Cardinality(At(pa, {"kfree_dec"}) \ Unmapping)
                      - Cardinality(At(pa, {"uvmcopy_ref"}))
                      - Cardinality(At(pa, {"kfree_get", "kfree_push"}) \cap Unmapping)

\* A page that no page table maps and that nobody is working on is on the
\* free list: the unlocked refcget never loses a page.
NoLeak ==
    \A pa \in Pages : Holders(pa) = {} /\ ~InFlight(pa) => pa \in Range(freelist)

\* A page is on the free list at most once, and no page table maps it: the
\* README's picture of the last sharer, whose count reaches 0, freeing the
\* page, and of the copies that each belong to one process.
NoDoubleFree == ~Corrupted
=============================================================================
