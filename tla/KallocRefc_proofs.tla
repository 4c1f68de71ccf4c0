-------------------------- MODULE KallocRefc_proofs --------------------------
(***************************************************************************)
(* Proofs about KallocRefc, for any number of processes, pages and         *)
(* operations in progress: whatever the interleaving of kalloc, kfree and  *)
(* their callers, no update of a reference count is lost and no page leaks *)
(* - and, when operations are serial, no page is freed twice.              *)
(***************************************************************************)
EXTENDS KallocRefc, FiniteSetTheorems, SequenceTheorems, TLAPS

Kfree == {"kfree_dec", "kfree_get", "kfree_push"}

\* The places where page[p] is a page.
Handling == {"kalloc_ref", "map", "uvmcopy_ref"} \cup Kfree

PCs == {"none", "embryo", "user", "uvmcopy", "uvmunmap"} \cup Handling

TypeOK ==
    /\ freelist \in Seq(Pages)
    /\ count \in [Pages -> Int]
    /\ maps \in [Procs -> SUBSET Pages]
    /\ pc \in [Procs -> PCs]
    /\ page \in [Procs -> Pages \cup {NULL}]
    /\ old \in [Procs -> Pages \cup {NULL}]
    /\ todo \in [Procs -> SUBSET Pages]
    /\ np \in [Procs -> Procs \cup {NULL}]
    /\ back \in [Procs -> {"user", "uvmunmap"}]
    /\ waitlock \in Procs \cup {NULL}

\* What the place of a process in the kernel says of its local variables.
Locals ==
    \A p \in Procs :
        /\ pc[p] \in Handling <=> page[p] # NULL
        /\ back[p] = "uvmunmap" => pc[p] \in Kfree \cup {"uvmunmap"}
        /\ pc[p] = "uvmunmap" => back[p] = "uvmunmap"
        /\ np[p] # NULL <=> (pc[p] \in {"uvmcopy", "uvmcopy_ref"} \/ back[p] = "uvmunmap")
        /\ old[p] # NULL => pc[p] \in {"kalloc_ref", "map"}
        /\ todo[p] # {} => pc[p] \in {"uvmcopy", "uvmcopy_ref"}

\* A page table that is built or freed belongs to one operation: that of its
\* process, or that of the parent of a process that does not run yet.
Family ==
    \A p \in Procs :
        /\ np[p] = p => back[p] = "uvmunmap"
        /\ np[p] \notin {NULL, p} => pc[np[p]] = "embryo"
        /\ \A q \in Procs : np[p] # NULL /\ np[q] = np[p] => q = p

\* What the page tables hold while an operation works on a page of theirs.
Tables ==
    \A p \in Procs :
        /\ pc[p] = "none" => maps[p] = {}
        /\ pc[p] \in {"kalloc_ref", "map"} => page[p] \notin maps[p]
        /\ old[p] # NULL => old[p] \in maps[p]
        /\ pc[p] = "uvmcopy_ref" => page[p] \in maps[np[p]] /\ page[p] \in maps[p]
        /\ pc[p] \in Kfree /\ back[p] = "uvmunmap" => page[p] \in maps[np[p]]
        /\ np[p] # NULL => todo[p] \cap maps[np[p]] = {}
        /\ todo[p] \subseteq maps[p]

\* t works on the mapping of pa in the table of np[t], which the count does
\* not include: not yet (uvmcopy), or no longer (uvmunmap).
Uncounted(t, pa) ==
    /\ page[t] = pa
    /\ \/ pc[t] = "uvmcopy_ref"
       \/ pc[t] \in {"kfree_get", "kfree_push"} /\ back[t] = "uvmunmap"

\* The count includes the mapping of pa in the table of q.
Owns(q, pa) == pa \in maps[q] /\ \A t \in Procs : np[t] = q => ~Uncounted(t, pa)

Owners(pa) == {q \in Procs : Owns(q, pa)}

\* The count includes the page pa that p got from kalloc, or took out of its
\* table, and has neither mapped nor freed yet.
Carries(p, pa) ==
    /\ page[p] = pa
    /\ \/ pc[p] = "map"
       \/ pc[p] = "kfree_dec" /\ back[p] # "uvmunmap"

Carriers(pa) == {p \in Procs : Carries(p, pa)}

Counted == \A pa \in Pages : count[pa] = Cardinality(Owners(pa)) + Cardinality(Carriers(pa))

Structure == TypeOK /\ Locals /\ Family /\ Tables

Inv == Structure /\ Counted /\ NoLeak

-----------------------------------------------------------------------------
(* The structure of the state is invariant.                                *)

LEMMA InitStructure == Init => Structure
<1> SUFFICES ASSUME Init PROVE Structure
  OBVIOUS
<1>1. freelist \in Seq(Pages)
  <2>1. Cardinality(Pages) \in Nat
    BY RefcAssumption, FS_CardinalityType
  <2>2. freelist \in [1 .. Cardinality(Pages) -> Pages]
    BY DEF Init
  <2> QED
    BY <2>1, <2>2
<1>2. TypeOK
  BY <1>1 DEF Init, TypeOK, PCs
<1>3. Locals /\ Family /\ Tables
  BY RefcAssumption DEF Init, Locals, Family, Tables, Kfree, Handling
<1> QED
  BY <1>2, <1>3 DEF Structure

\* In the kernel, page[p] is a page where the code uses it, and np[p] is a
\* process.
LEMMA Operands ==
    ASSUME Structure, NEW p \in Procs
    PROVE  /\ pc[p] \in Handling => page[p] \in Pages
           /\ pc[p] \in {"uvmcopy", "uvmcopy_ref", "uvmunmap"} \/ back[p] = "uvmunmap" => np[p] \in Procs
  BY DEF Structure, TypeOK, Locals

\* Nobody builds or frees the table of a process that runs or does not exist.
LEMMA Untouched ==
    ASSUME Structure, NEW p \in Procs, pc[p] # "embryo", back[p] # "uvmunmap", NEW t \in Procs
    PROVE  np[t] # p
<1> SUFFICES ASSUME np[t] = p PROVE FALSE
  OBVIOUS
<1>1. p # NULL
  BY RefcAssumption
<1> QED
  BY <1>1 DEF Structure, Family

\* The places that an operation leaves and enters when it lets go of a table.
LEMMA Release ==
    ASSUME Structure, NEW p \in Procs, ForkDone(p) \/ Shrunk(p) \/ Unmapped(p), NEW t \in Procs, pc'[t] # pc[t]
    PROVE  pc[t] \in {"uvmcopy", "uvmunmap", "embryo"} /\ pc'[t] \in {"user", "none"}
<1>1. np[p] \in Procs
  BY Operands DEF ForkDone, Shrunk, Unmapped
<1>2. t \in {p, np[p]} /\ pc'[t] \in {"user", "none"} /\ pc[p] \in {"uvmcopy", "uvmunmap"}
  BY <1>1 DEF Structure, TypeOK, ForkDone, Shrunk, Unmapped
<1>3. np[p] # p => pc[np[p]] = "embryo"
  BY <1>1, RefcAssumption DEF Structure, Family
<1> QED
  BY <1>2, <1>3

\* Every step keeps the types of the variables.
LEMMA StepType ==
    ASSUME Structure, NEW p \in Procs, Step(p)
    PROVE  TypeOK'
<1> USE RefcAssumption DEF Structure, TypeOK
<1>0. waitlock' \in Procs \cup {NULL}
  BY DEF Step, Shrink, Shrunk, Exit, Unmapped
<1> USE <1>0
<1>1. CASE Spawn(p)
  BY <1>1 DEF Spawn, PCs
<1>2. CASE \E victim \in maps[p] \cup {NULL} : KallocPop(p, victim)
  BY <1>2 DEF KallocPop, PCs, Handling
<1>3. CASE KallocRef(p)
  <2>1. page[p] \in Pages
    BY <1>3, Operands DEF KallocRef, Handling
  <2> QED
    BY <1>3, <2>1 DEF KallocRef, refcadd, PCs, Handling
<1>4. CASE MapNew(p)
  BY <1>4 DEF MapNew, PCs, Handling, Locals
<1>5. CASE MapFail(p)
  BY <1>5 DEF MapFail, PCs, Handling, Kfree
<1>6. CASE MapCopy(p)
  BY <1>6 DEF MapCopy, PCs, Handling, Kfree, Locals
<1>7. CASE KfreeDec(p)
  <2>1. page[p] \in Pages
    BY <1>7, Operands DEF KfreeDec, Handling, Kfree
  <2> QED
    BY <1>7, <2>1 DEF KfreeDec, refcremove, PCs, Handling, Kfree
<1>8. CASE KfreeGet(p)
  <2>1. CASE KfreeReturn(p)
    BY <1>8, <2>1, Operands DEF KfreeGet, KfreeReturn, PCs, Handling, Kfree
  <2> QED
    BY <1>8, <2>1 DEF KfreeGet, PCs, Handling, Kfree
<1>9. CASE KfreePush(p)
  <2>1. page[p] \in Pages
    BY <1>9, Operands DEF KfreePush, Handling, Kfree
  <2>2. freelist' \in Seq(Pages)
    BY <1>9, <2>1 DEF KfreePush
  <2> QED
    BY <1>9, <2>2 DEF KfreePush, KfreeReturn, PCs, Handling, Kfree
<1>10. CASE \E c \in Procs : ForkStart(p, c)
  BY SMTT(30), <1>10 DEF ForkStart, PCs
<1>11. CASE CopyMap(p)
  <2>1. np[p] \in Procs
    BY <1>11, Operands DEF CopyMap
  <2> QED
    BY <1>11, <2>1 DEF CopyMap, PCs, Handling
<1>12. CASE CopyRef(p)
  <2>1. page[p] \in Pages
    BY <1>12, Operands DEF CopyRef, Handling
  <2> QED
    BY <1>12, <2>1 DEF CopyRef, refcadd, PCs
<1>13. CASE CopyFail(p)
  BY <1>13 DEF CopyFail, PCs
<1>14. CASE ForkDone(p)
  BY <1>14 DEF ForkDone, PCs
<1>15. CASE Unmap(p)
  BY <1>15 DEF Unmap, PCs
<1>16. CASE UnmapPage(p)
  <2>1. np[p] \in Procs
    BY <1>16, Operands DEF UnmapPage
  <2> QED
    BY <1>16, <2>1 DEF UnmapPage, PCs, Handling, Kfree
<1>17. CASE Unmapped(p)
  BY <1>17 DEF Unmapped, PCs
<1>18. CASE Shrunk(p)
  BY <1>18 DEF Shrunk, PCs
<1> QED
  BY <1>1, <1>2, <1>3, <1>4, <1>5, <1>6, <1>7, <1>8, <1>9, <1>10, <1>11, <1>12, <1>13,
     <1>14, <1>15, <1>16, <1>17, <1>18 DEF Step, PlainStep, Shrink, Exit

\* Every step keeps what Locals says.
LEMMA StepLocals ==
    ASSUME Structure, NEW p \in Procs, Step(p)
    PROVE  Locals'
<1> USE RefcAssumption DEF Structure, TypeOK, Locals, Handling, Kfree
<1>1. CASE Spawn(p)
  BY <1>1 DEF Spawn
<1>2. CASE \E victim \in maps[p] \cup {NULL} : KallocPop(p, victim)
  BY <1>2 DEF KallocPop, Enter
<1>3. CASE KallocRef(p)
  BY <1>3 DEF KallocRef
<1>4. CASE MapNew(p)
  BY <1>4 DEF MapNew
<1>5. CASE MapFail(p)
  BY <1>5 DEF MapFail
<1>6. CASE MapCopy(p)
  BY <1>6 DEF MapCopy
<1>7. CASE KfreeDec(p)
  BY <1>7 DEF KfreeDec
<1>8. CASE KfreeGet(p)
  BY <1>8 DEF KfreeGet, KfreeReturn
<1>9. CASE KfreePush(p)
  BY <1>9 DEF KfreePush, KfreeReturn
<1>10. CASE \E c \in Procs : ForkStart(p, c)
  BY <1>10 DEF ForkStart, Enter
<1>11. CASE CopyMap(p)
  BY <1>11 DEF CopyMap
<1>12. CASE CopyRef(p)
  BY <1>12 DEF CopyRef
<1>13. CASE CopyFail(p)
  BY <1>13 DEF CopyFail
<1>14. CASE ForkDone(p)
  BY <1>14 DEF ForkDone, Family
<1>15. CASE Unmap(p)
  BY <1>15 DEF Unmap, Enter
<1>16. CASE UnmapPage(p)
  BY <1>16 DEF UnmapPage
<1>17. CASE Unmapped(p)
  BY <1>17 DEF Unmapped, Family
<1>18. CASE Shrunk(p)
  BY <1>18 DEF Shrunk
<1> QED
  BY <1>1, <1>2, <1>3, <1>4, <1>5, <1>6, <1>7, <1>8, <1>9, <1>10, <1>11, <1>12, <1>13,
     <1>14, <1>15, <1>16, <1>17, <1>18 DEF Step, PlainStep, Shrink, Exit

\* Every step keeps what Family says.
LEMMA StepFamily ==
    ASSUME Structure, NEW p \in Procs, Step(p)
    PROVE  Family'
<1> USE RefcAssumption DEF Structure, TypeOK, Family
<1>1. CASE Spawn(p)
  BY <1>1 DEF Spawn, Locals
<1>2. CASE \E victim \in maps[p] \cup {NULL} : KallocPop(p, victim)
  BY <1>2 DEF KallocPop, Enter
<1>3. CASE \/ KallocRef(p) \/ MapNew(p) \/ MapFail(p) \/ MapCopy(p) \/ KfreeDec(p)
           \/ CopyMap(p) \/ CopyRef(p) \/ UnmapPage(p)
  BY <1>3 DEF KallocRef, MapNew, MapFail, MapCopy, KfreeDec, CopyMap, CopyRef, UnmapPage
<1>4. CASE KfreeGet(p) \/ KfreePush(p)
  BY <1>4 DEF KfreeGet, KfreePush, KfreeReturn
<1>5. CASE \E c \in Procs : ForkStart(p, c)
  <2>1. PICK c \in Procs : ForkStart(p, c)
    BY <1>5
  <2>2. /\ pc[p] = "user" /\ pc[c] = "none" /\ back[c] # "uvmunmap"
        /\ np[p] = NULL /\ np[c] = NULL /\ p # c
    BY <2>1 DEF ForkStart, Enter, Locals, Kfree
  <2>3. \A t \in Procs : np[t] # c
    BY <2>2, Untouched
  <2> QED
    BY <2>1, <2>2, <2>3 DEF ForkStart
<1>6. CASE CopyFail(p)
  BY <1>6 DEF CopyFail
<1>7. CASE ForkDone(p)
  BY <1>7 DEF ForkDone
<1>8. CASE Unmap(p)
  BY <1>8 DEF Unmap, Enter, Locals
<1>9. CASE Unmapped(p)
  BY <1>9 DEF Unmapped
<1>10. CASE Shrunk(p)
  BY <1>10 DEF Shrunk
<1> QED
  BY <1>1, <1>2, <1>3, <1>4, <1>5, <1>6, <1>7, <1>8, <1>9, <1>10 DEF Step, PlainStep, Shrink, Exit

\* Every step keeps what Tables says.
LEMMA StepTables ==
    ASSUME Structure, ~Corrupted, NEW p \in Procs, Step(p)
    PROVE  Tables'
<1> USE RefcAssumption DEF Structure, TypeOK, Tables
<1>1. CASE Spawn(p)
  BY <1>1 DEF Spawn, Kfree
<1>2. CASE \E victim \in maps[p] \cup {NULL} : KallocPop(p, victim)
  <2>1. PICK victim \in maps[p] \cup {NULL} : KallocPop(p, victim)
    BY <1>2
  <2>2. Head(freelist) \in Range(freelist)
    BY <2>1 DEF KallocPop, Range
  <2>3. pc[p] = "user" /\ \A t \in Procs : np[t] # p
    <3>1. pc[p] = "user" /\ back[p] # "uvmunmap"
      BY <2>1 DEF KallocPop, Enter, Locals, Kfree
    <3> QED
      BY <3>1, Untouched
  <2>4. Head(freelist) \notin maps[p]
    BY <2>2, <2>3 DEF Corrupted, Reaches
  <2> QED
    BY <2>1, <2>3, <2>4 DEF KallocPop, Kfree
<1>3. CASE KallocRef(p)
  BY <1>3 DEF KallocRef, Kfree
<1>4. CASE MapNew(p)
  BY <1>4 DEF MapNew, Kfree, Family, Locals
<1>5. CASE MapFail(p)
  BY <1>5 DEF MapFail, Kfree, Locals
<1>6. CASE MapCopy(p)
  BY <1>6 DEF MapCopy, Kfree, Family, Locals
<1>7. CASE KfreeDec(p)
  BY <1>7 DEF KfreeDec, Kfree
<1>8. CASE KfreeGet(p)
  <2>1. CASE KfreeReturn(p)
    BY <1>8, <2>1 DEF KfreeGet, KfreeReturn, Kfree, Locals, Family
  <2>2. CASE pc' = [pc EXCEPT ![p] = "kfree_push"] /\ UNCHANGED <<maps, page>>
    BY <1>8, <2>2 DEF KfreeGet, Kfree
  <2> QED
    BY <1>8, <2>1, <2>2 DEF KfreeGet
<1>9. CASE KfreePush(p)
  BY <1>9 DEF KfreePush, KfreeReturn, Kfree, Locals, Family
<1>10. CASE \E c \in Procs : ForkStart(p, c)
  <2>1. PICK c \in Procs : ForkStart(p, c)
    BY <1>10
  <2>2. pc[p] = "user" /\ pc[c] = "none" /\ np[c] = NULL /\ maps[c] = {} /\ p # c
    BY <2>1 DEF ForkStart, Enter, Locals, Kfree
  <2> QED
    BY <2>1, <2>2 DEF ForkStart, Kfree
<1>11. CASE CopyMap(p)
  BY <1>11 DEF CopyMap, Kfree, Locals, Family
<1>12. CASE CopyRef(p)
  BY <1>12 DEF CopyRef, Kfree
<1>13. CASE CopyFail(p)
  BY <1>13 DEF CopyFail, Kfree
<1>14. CASE ForkDone(p)
  BY <1>14 DEF ForkDone, Kfree
<1>15. CASE Unmap(p)
  BY <1>15 DEF Unmap, Enter, Kfree, Locals
<1>16. CASE UnmapPage(p)
  BY <1>16 DEF UnmapPage, Kfree, Locals
<1>17. CASE Unmapped(p)
  BY <1>17 DEF Unmapped, Kfree, Locals, Family
<1>18. CASE Shrunk(p)
  BY <1>18 DEF Shrunk, Kfree, Locals
<1> QED
  BY <1>1, <1>2, <1>3, <1>4, <1>5, <1>6, <1>7, <1>8, <1>9, <1>10, <1>11, <1>12, <1>13,
     <1>14, <1>15, <1>16, <1>17, <1>18 DEF Step, PlainStep, Shrink, Exit

-----------------------------------------------------------------------------
(* No update of a count is lost.                                           *)

LEMMA SetsFinite ==
    ASSUME NEW pa
    PROVE  /\ IsFiniteSet(Owners(pa)) /\ IsFiniteSet(Carriers(pa))
           /\ Cardinality(Owners(pa)) \in Nat /\ Cardinality(Carriers(pa)) \in Nat
<1>1. Owners(pa) \in SUBSET Procs /\ Carriers(pa) \in SUBSET Procs
  BY DEF Owners, Carriers
<1> QED
  BY <1>1, RefcAssumption, FS_Subset, FS_CardinalityType

\* The step adds q to the owners of pa, takes it away, or leaves them alone.
OwnerJoins(q, pa) == ~Owns(q, pa) /\ Owners(pa)' = Owners(pa) \cup {q}
OwnerLeaves(q, pa) == Owns(q, pa) /\ Owners(pa)' = Owners(pa) \ {q}
CarrierJoins(q, pa) == ~Carries(q, pa) /\ Carriers(pa)' = Carriers(pa) \cup {q}
CarrierLeaves(q, pa) == Carries(q, pa) /\ Carriers(pa)' = Carriers(pa) \ {q}

\* How the sizes of the two sets change.
LEMMA OwnersChange ==
    ASSUME NEW pa, NEW q \in Procs
    PROVE  /\ OwnerJoins(q, pa) => Cardinality(Owners(pa)') = Cardinality(Owners(pa)) + 1
           /\ OwnerLeaves(q, pa) => Cardinality(Owners(pa)') = Cardinality(Owners(pa)) - 1
<1>1. q \in Owners(pa) <=> Owns(q, pa)
  BY DEF Owners
<1>2. IsFiniteSet(Owners(pa))
  BY SetsFinite
<1>3. Cardinality(Owners(pa) \cup {q}) = IF q \in Owners(pa) THEN Cardinality(Owners(pa)) ELSE Cardinality(Owners(pa)) + 1
  BY <1>2, FS_AddElement
<1>4. Cardinality(Owners(pa) \ {q}) = IF q \in Owners(pa) THEN Cardinality(Owners(pa)) - 1 ELSE Cardinality(Owners(pa))
  BY <1>2, FS_RemoveElement
<1> QED
  BY <1>1, <1>3, <1>4 DEF OwnerJoins, OwnerLeaves

LEMMA CarriersChange ==
    ASSUME NEW pa, NEW q \in Procs
    PROVE  /\ CarrierJoins(q, pa) => Cardinality(Carriers(pa)') = Cardinality(Carriers(pa)) + 1
           /\ CarrierLeaves(q, pa) => Cardinality(Carriers(pa)') = Cardinality(Carriers(pa)) - 1
<1>1. q \in Carriers(pa) <=> Carries(q, pa)
  BY DEF Carriers
<1>2. IsFiniteSet(Carriers(pa))
  BY SetsFinite
<1>3. Cardinality(Carriers(pa) \cup {q}) = IF q \in Carriers(pa) THEN Cardinality(Carriers(pa)) ELSE Cardinality(Carriers(pa)) + 1
  BY <1>2, FS_AddElement
<1>4. Cardinality(Carriers(pa) \ {q}) = IF q \in Carriers(pa) THEN Cardinality(Carriers(pa)) - 1 ELSE Cardinality(Carriers(pa))
  BY <1>2, FS_RemoveElement
<1> QED
  BY <1>1, <1>3, <1>4 DEF CarrierJoins, CarrierLeaves

\* The step leaves owners and carriers of pa alone.
Same(pa) == Owners(pa)' = Owners(pa) /\ Carriers(pa)' = Carriers(pa)

\* The same, one process at a time.
LEMMA SamePointwise ==
    ASSUME NEW pa,
           \A q \in Procs : (Owns(q, pa)' <=> Owns(q, pa)) /\ (Carries(q, pa)' <=> Carries(q, pa))
    PROVE  Same(pa)
<1>1. Owners(pa)' = {q \in Procs : Owns(q, pa)'} /\ Carriers(pa)' = {q \in Procs : Carries(q, pa)'}
  BY DEF Owners, Carriers
<1>2. {q \in Procs : Owns(q, pa)'} = Owners(pa) /\ {q \in Procs : Carries(q, pa)'} = Carriers(pa)
  BY DEF Owners, Carriers
<1> QED
  BY <1>1, <1>2 DEF Same

\* The steps that neither change a count nor what it has to include.
LEMMA QuietCounts ==
    ASSUME Structure, NEW p \in Procs, NEW pa \in Pages,
           \/ Spawn(p)
           \/ \E victim \in maps[p] \cup {NULL} : KallocPop(p, victim)
           \/ MapFail(p) \/ KfreeGet(p) \/ KfreePush(p)
           \/ \E c \in Procs : ForkStart(p, c)
           \/ CopyMap(p) \/ CopyFail(p) \/ ForkDone(p)
           \/ Unmap(p) \/ UnmapPage(p) \/ Shrunk(p) \/ Unmapped(p)
    PROVE  count' = count /\ Same(pa)
<1>1. SUFFICES /\ count' = count
               /\ \A q \in Procs : Owns(q, pa)' <=> Owns(q, pa)
               /\ \A q \in Procs : Carries(q, pa)' <=> Carries(q, pa)
  BY SamePointwise
<1> USE RefcAssumption DEF Structure, TypeOK, Locals, Handling, Kfree, Owns, Carries, Uncounted
<1>2. CASE Spawn(p)
  BY <1>2 DEF Spawn
<1>3. CASE \E victim \in maps[p] \cup {NULL} : KallocPop(p, victim)
  <2>1. /\ count' = count /\ maps' = maps /\ np' = np /\ back' = back /\ pc[p] = "user"
        /\ pc' = [pc EXCEPT ![p] = "kalloc_ref"]
        /\ \A t \in Procs \ {p} : page'[t] = page[t]
    BY <1>3 DEF KallocPop, Enter
  <2>2. \A t \in Procs : Uncounted(t, pa)' <=> Uncounted(t, pa)
    BY <2>1
  <2>3. \A q \in Procs : Carries(q, pa)' <=> Carries(q, pa)
    BY <2>1
  <2> QED
    BY <2>1, <2>2, <2>3
<1>4. CASE MapFail(p)
  BY <1>4 DEF MapFail
<1>5. CASE KfreeGet(p)
  BY <1>5 DEF KfreeGet, KfreeReturn, Family, Tables
<1>6. CASE KfreePush(p)
  <2>1. count' = count /\ \A q \in Procs : Carries(q, pa)' <=> Carries(q, pa)
    BY <1>6 DEF KfreePush, KfreeReturn
  <2>2. \A q \in Procs : Owns(q, pa)' <=> Owns(q, pa)
    BY <1>6 DEF KfreePush, KfreeReturn, Family, Tables
  <2> QED
    BY <2>1, <2>2
<1>7. CASE \E c \in Procs : ForkStart(p, c)
  BY <1>7 DEF ForkStart, Enter, Tables
<1>8. CASE CopyMap(p)
  <2>1. PICK x \in todo[p] :
          /\ maps' = [maps EXCEPT ![np[p]] = @ \cup {x}]
          /\ page' = [page EXCEPT ![p] = x]
    BY <1>8 DEF CopyMap
  <2>2. np[p] \in Procs /\ x \notin maps[np[p]] /\ \A t \in Procs : np[t] = np[p] => t = p
    BY <1>8, <2>1, Operands DEF CopyMap, Tables, Family
  <2>3. \A q \in Procs : Owns(q, pa)' <=> Owns(q, pa)
    BY <1>8, <2>1, <2>2 DEF CopyMap
  <2> QED
    BY <1>8, <2>1, <2>3 DEF CopyMap
<1>9. CASE CopyFail(p)
  BY <1>9 DEF CopyFail
<1>10. CASE ForkDone(p)
  <2>1. \A t \in Procs : pc'[t] # pc[t] => /\ pc[t] \in {"uvmcopy", "uvmunmap", "embryo"}
                                         /\ pc'[t] \in {"user", "none"}
    BY <1>10, Release
  <2>2. ~Uncounted(p, pa) /\ \A t \in Procs : Uncounted(t, pa)' <=> Uncounted(t, pa)
    BY <1>10, <2>1 DEF ForkDone
  <2>3. \A q \in Procs : Owns(q, pa)' <=> Owns(q, pa)
    <3> USE DEF ForkDone
    <3> HIDE DEF Uncounted
    <3> QED
      BY <1>10, <2>2
  <2>4. count' = count /\ \A q \in Procs : Carries(q, pa)' <=> Carries(q, pa)
    BY <1>10, <2>1 DEF ForkDone
  <2> QED
    BY <2>3, <2>4
<1>11. CASE Unmap(p)
  BY <1>11 DEF Unmap, Enter
<1>12. CASE UnmapPage(p)
  BY ZenonT(60), <1>12 DEF UnmapPage
<1>13. CASE Shrunk(p) \/ Unmapped(p)
  <2>1. \A t \in Procs : pc'[t] # pc[t] => /\ pc[t] \in {"uvmcopy", "uvmunmap", "embryo"}
                                         /\ pc'[t] \in {"user", "none"}
    BY <1>13, Release
  <2>2. ~Uncounted(p, pa) /\ \A t \in Procs : Uncounted(t, pa)' <=> Uncounted(t, pa)
    BY <1>13, <2>1 DEF Shrunk, Unmapped
  <2>3. \A q \in Procs : Owns(q, pa)' <=> Owns(q, pa)
    <3> USE DEF Shrunk, Unmapped
    <3> HIDE DEF Uncounted
    <3> QED
      BY <1>13, <2>2
  <2>4. count' = count /\ \A q \in Procs : Carries(q, pa)' <=> Carries(q, pa)
    BY <1>13, <2>1 DEF Shrunk, Unmapped
  <2> QED
    BY <2>3, <2>4
<1> QED
  BY <1>2, <1>3, <1>4, <1>5, <1>6, <1>7, <1>8, <1>9, <1>10, <1>11, <1>12, <1>13

\* One process joins or leaves the owners of a page.
LEMMA OwnersPointwise ==
    ASSUME NEW pa, NEW r \in Procs, \A q \in Procs \ {r} : Owns(q, pa)' <=> Owns(q, pa)
    PROVE  /\ ~Owns(r, pa) /\ Owns(r, pa)' => OwnerJoins(r, pa)
           /\ Owns(r, pa) /\ ~Owns(r, pa)' => OwnerLeaves(r, pa)
           /\ (Owns(r, pa) <=> Owns(r, pa)') => Owners(pa)' = Owners(pa)
<1>1. Owners(pa)' = {q \in Procs : Owns(q, pa)'}
  BY DEF Owners
<1> QED
  BY <1>1 DEF Owners, OwnerJoins, OwnerLeaves

\* One process joins or leaves the carriers of a page.
LEMMA CarriersPointwise ==
    ASSUME NEW pa, NEW r \in Procs, \A q \in Procs \ {r} : Carries(q, pa)' <=> Carries(q, pa)
    PROVE  /\ ~Carries(r, pa) /\ Carries(r, pa)' => CarrierJoins(r, pa)
           /\ Carries(r, pa) /\ ~Carries(r, pa)' => CarrierLeaves(r, pa)
           /\ (Carries(r, pa) <=> Carries(r, pa)') => Carriers(pa)' = Carriers(pa)
<1>1. Carriers(pa)' = {q \in Procs : Carries(q, pa)'}
  BY DEF Carriers
<1> QED
  BY <1>1 DEF Carriers, CarrierJoins, CarrierLeaves

\* kalloc's refcadd counts the page it is about to return.
LEMMA KallocRefCounts ==
    ASSUME Structure, NEW p \in Procs, KallocRef(p), NEW pa \in Pages
    PROVE  IF pa = page[p]
             THEN count'[pa] = count[pa] + 1 /\ Owners(pa)' = Owners(pa) /\ CarrierJoins(p, pa)
             ELSE count'[pa] = count[pa] /\ Same(pa)
<1> USE DEF Structure, TypeOK, Locals
<1>1. \A q \in Procs : Owns(q, pa)' <=> Owns(q, pa)
  BY DEF KallocRef, Owns, Uncounted
<1>2. \A q \in Procs \ {p} : Carries(q, pa)' <=> Carries(q, pa)
  BY DEF KallocRef, Carries
<1>3. ~Carries(p, pa) /\ (Carries(p, pa)' <=> pa = page[p])
  BY DEF KallocRef, Carries
<1>4. count'[pa] = IF pa = page[p] THEN count[pa] + 1 ELSE count[pa]
  BY DEF KallocRef, refcadd
<1> QED
  BY <1>1, <1>2, <1>3, <1>4, OwnersPointwise, CarriersPointwise DEF Same

\* uvmalloc maps the page it carries.
LEMMA MapNewCounts ==
    ASSUME Structure, NEW p \in Procs, MapNew(p), NEW pa \in Pages
    PROVE  /\ count' = count
           /\ IF pa = page[p] THEN OwnerJoins(p, pa) /\ CarrierLeaves(p, pa) ELSE Same(pa)
<1> USE DEF Structure, TypeOK
<1>1. \A t \in Procs : np[t] # p
  BY Untouched DEF MapNew, Locals, Kfree
<1>2. \A q \in Procs : Uncounted(q, pa)' <=> Uncounted(q, pa)
  BY RefcAssumption DEF MapNew, Uncounted
<1>3. \A q \in Procs \ {p} : Owns(q, pa)' <=> Owns(q, pa)
  BY <1>2 DEF MapNew, Owns
<1>4. Owns(p, pa) <=> pa \in maps[p]
  BY <1>1 DEF Owns
<1>5. Owns(p, pa)' <=> pa \in maps[p] \cup {page[p]}
  BY <1>1 DEF Owns, MapNew
<1>6. page[p] \notin maps[p]
  BY DEF MapNew, Tables
<1>7. \A q \in Procs \ {p} : Carries(q, pa)' <=> Carries(q, pa)
  BY DEF MapNew, Carries
<1>8. (Carries(p, pa) <=> pa = page[p]) /\ ~Carries(p, pa)'
  BY RefcAssumption DEF MapNew, Carries
<1>9. count' = count
  BY DEF MapNew
<1> QED
  BY <1>3, <1>4, <1>5, <1>6, <1>7, <1>8, <1>9, OwnersPointwise, CarriersPointwise DEF Same

\* cowhandle maps the copy and carries the page that it has replaced.
LEMMA MapCopyCounts ==
    ASSUME Structure, NEW p \in Procs, MapCopy(p), NEW pa \in Pages
    PROVE  /\ count' = count
           /\ CASE pa = page[p] -> OwnerJoins(p, pa) /\ CarrierLeaves(p, pa)
                [] pa = old[p]  -> OwnerLeaves(p, pa) /\ CarrierJoins(p, pa)
                [] OTHER        -> Same(pa)
<1> USE DEF Structure, TypeOK
<1>1. \A t \in Procs : np[t] # p
  BY Untouched DEF MapCopy, Locals, Kfree
<1>2. \A q \in Procs : Uncounted(q, pa)' <=> Uncounted(q, pa)
  BY DEF MapCopy, Uncounted, Locals, Kfree
<1>3. \A q \in Procs \ {p} : Owns(q, pa)' <=> Owns(q, pa)
  BY <1>2 DEF MapCopy, Owns
<1>4. Owns(p, pa) <=> pa \in maps[p]
  BY <1>1 DEF Owns
<1>5. Owns(p, pa)' <=> pa \in (maps[p] \ {old[p]}) \cup {page[p]}
  BY <1>1 DEF Owns, MapCopy
<1>6. page[p] \notin maps[p] /\ old[p] \in maps[p] /\ page[p] # old[p]
  BY DEF MapCopy, Tables
<1>7. \A q \in Procs \ {p} : Carries(q, pa)' <=> Carries(q, pa)
  BY DEF MapCopy, Carries
<1>8. (Carries(p, pa) <=> pa = page[p]) /\ (Carries(p, pa)' <=> pa = old[p])
  BY DEF MapCopy, Carries, Locals, Kfree
<1>9. count' = count
  BY DEF MapCopy
<1>10. CASE pa = page[p]
  BY <1>3, <1>4, <1>5, <1>6, <1>7, <1>8, <1>9, <1>10, OwnersPointwise, CarriersPointwise
<1>11. CASE pa = old[p]
  BY <1>3, <1>4, <1>5, <1>6, <1>7, <1>8, <1>9, <1>11, OwnersPointwise, CarriersPointwise
<1>12. CASE pa # page[p] /\ pa # old[p]
  <2>1. Same(pa)
    BY <1>3, <1>4, <1>5, <1>7, <1>8, <1>12, OwnersPointwise, CarriersPointwise DEF Same
  <2> QED
    BY <1>9, <1>12, <2>1
<1> QED
  BY <1>10, <1>11, <1>12

\* uvmcopy's refcadd counts the mapping that mappages has just made.
LEMMA CopyRefCounts ==
    ASSUME Structure, NEW p \in Procs, CopyRef(p), NEW pa \in Pages, NEW c \in Procs, c = np[p]
    PROVE  IF pa = page[p]
             THEN count'[pa] = count[pa] + 1 /\ OwnerJoins(c, pa) /\ Carriers(pa)' = Carriers(pa)
             ELSE count'[pa] = count[pa] /\ Same(pa)
<1> USE DEF Structure, TypeOK
<1>1. \A t \in Procs : np[t] = c => t = p
  BY RefcAssumption DEF Family
<1>2. pc[p] = "uvmcopy_ref" /\ page[p] \in maps[c]
  BY DEF CopyRef, Tables
<1>3. \A t \in Procs \ {p} : Uncounted(t, pa)' <=> Uncounted(t, pa)
  BY DEF CopyRef, Uncounted
<1>4. (Uncounted(p, pa) <=> pa = page[p]) /\ ~Uncounted(p, pa)'
  BY <1>2 DEF CopyRef, Uncounted
<1>5. \A q \in Procs \ {c} : Owns(q, pa)' <=> Owns(q, pa)
  BY <1>3 DEF CopyRef, Owns
<1>6. (Owns(c, pa) <=> pa \in maps[c] /\ pa # page[p]) /\ (Owns(c, pa)' <=> pa \in maps[c])
  BY <1>1, <1>4 DEF CopyRef, Owns
<1>7. \A q \in Procs : Carries(q, pa)' <=> Carries(q, pa)
  BY <1>2 DEF CopyRef, Carries
<1>8. count'[pa] = IF pa = page[p] THEN count[pa] + 1 ELSE count[pa]
  BY DEF CopyRef, refcadd
<1> QED
  BY <1>2, <1>5, <1>6, <1>7, <1>8, OwnersPointwise, CarriersPointwise DEF Same

\* kfree's refcremove for a page that the caller carries.
LEMMA KfreeDecCarried ==
    ASSUME Structure, NEW p \in Procs, KfreeDec(p), back[p] # "uvmunmap", NEW pa \in Pages
    PROVE  IF pa = page[p]
             THEN count'[pa] = count[pa] - 1 /\ Owners(pa)' = Owners(pa) /\ CarrierLeaves(p, pa)
             ELSE count'[pa] = count[pa] /\ Same(pa)
<1> USE DEF Structure, TypeOK
<1>1. \A q \in Procs : Uncounted(q, pa)' <=> Uncounted(q, pa)
  BY DEF KfreeDec, Uncounted
<1>2. \A q \in Procs : Owns(q, pa)' <=> Owns(q, pa)
  BY <1>1 DEF KfreeDec, Owns
<1>3. \A q \in Procs \ {p} : Carries(q, pa)' <=> Carries(q, pa)
  BY DEF KfreeDec, Carries
<1>4. (Carries(p, pa) <=> pa = page[p]) /\ ~Carries(p, pa)'
  BY DEF KfreeDec, Carries
<1>5. count'[pa] = IF pa = page[p] THEN count[pa] - 1 ELSE count[pa]
  BY DEF KfreeDec, refcremove
<1> QED
  BY <1>2, <1>3, <1>4, <1>5, OwnersPointwise, CarriersPointwise DEF Same

\* kfree's refcremove for a page that uvmunmap finds in the table of c.
LEMMA KfreeDecMapped ==
    ASSUME Structure, NEW p \in Procs, KfreeDec(p), back[p] = "uvmunmap", NEW pa \in Pages,
           NEW c \in Procs, c = np[p]
    PROVE  IF pa = page[p]
             THEN count'[pa] = count[pa] - 1 /\ OwnerLeaves(c, pa) /\ Carriers(pa)' = Carriers(pa)
             ELSE count'[pa] = count[pa] /\ Same(pa)
<1> USE DEF Structure, TypeOK
<1>1. \A t \in Procs : np[t] = c => t = p
  BY RefcAssumption DEF Family
<1>2. pc[p] = "kfree_dec" /\ page[p] \in maps[c]
  BY DEF KfreeDec, Tables, Kfree
<1>3. \A t \in Procs \ {p} : Uncounted(t, pa)' <=> Uncounted(t, pa)
  BY DEF KfreeDec, Uncounted
<1>4. ~Uncounted(p, pa) /\ (Uncounted(p, pa)' <=> pa = page[p])
  BY <1>2 DEF KfreeDec, Uncounted
<1>5. \A q \in Procs \ {c} : Owns(q, pa)' <=> Owns(q, pa)
  BY <1>3 DEF KfreeDec, Owns
<1>6. (Owns(c, pa) <=> pa \in maps[c]) /\ (Owns(c, pa)' <=> pa \in maps[c] /\ pa # page[p])
  BY <1>1, <1>4 DEF KfreeDec, Owns
<1>7. \A q \in Procs : Carries(q, pa)' <=> Carries(q, pa)
  BY <1>2 DEF KfreeDec, Carries
<1>8. count'[pa] = IF pa = page[p] THEN count[pa] - 1 ELSE count[pa]
  BY DEF KfreeDec, refcremove
<1> QED
  BY <1>2, <1>5, <1>6, <1>7, <1>8, OwnersPointwise, CarriersPointwise DEF Same

\* Every step changes the count of a page exactly as it changes what the
\* count has to include.
LEMMA StepCounted ==
    ASSUME Structure, Counted, NEW p \in Procs, Step(p)
    PROVE  Counted'
<1> SUFFICES ASSUME NEW pa \in Pages
             PROVE  count'[pa] = Cardinality(Owners(pa)') + Cardinality(Carriers(pa)')
  BY DEF Counted
<1>1. /\ count[pa] = Cardinality(Owners(pa)) + Cardinality(Carriers(pa))
      /\ Cardinality(Owners(pa)) \in Nat /\ Cardinality(Carriers(pa)) \in Nat
  BY SetsFinite DEF Counted
<1>2. CASE count'[pa] = count[pa] /\ Same(pa)
  BY <1>1, <1>2 DEF Same
<1>3. CASE KallocRef(p)
  BY <1>1, <1>2, <1>3, KallocRefCounts, CarriersChange
<1>4. CASE MapNew(p)
  BY <1>1, <1>2, <1>4, MapNewCounts, OwnersChange, CarriersChange
<1>5. CASE MapCopy(p)
  BY <1>1, <1>2, <1>5, MapCopyCounts, OwnersChange, CarriersChange
<1>6. CASE CopyRef(p)
  <2>1. PICK c \in Procs : c = np[p]
    BY <1>6, Operands DEF CopyRef
  <2> QED
    BY <1>1, <1>2, <1>6, <2>1, CopyRefCounts, OwnersChange
<1>7. CASE KfreeDec(p) /\ back[p] # "uvmunmap"
  BY <1>1, <1>2, <1>7, KfreeDecCarried, CarriersChange
<1>8. CASE KfreeDec(p) /\ back[p] = "uvmunmap"
  <2>1. PICK c \in Procs : c = np[p]
    BY <1>8, Operands
  <2> QED
    BY <1>1, <1>2, <1>8, <2>1, KfreeDecMapped, OwnersChange
<1> QED
  BY <1>2, <1>3, <1>4, <1>5, <1>6, <1>7, <1>8, QuietCounts DEF Step, PlainStep, Shrink, Exit

-----------------------------------------------------------------------------
(* No page leaks.                                                          *)

\* When kfree finds the page still shared, another process maps it or is
\* working on it.
LEMMA SharedIsHeld ==
    ASSUME Structure, Counted, NEW p \in Procs, pc[p] = "kfree_get", StillShared(page[p])
    PROVE  \/ \E q \in Procs : page[p] \in maps[q] /\ (back[p] = "uvmunmap" => q # np[p])
           \/ \E q \in Procs \ {p} : page[q] = page[p] /\ pc[q] \in {"map", "kfree_dec"}
<1>1. PICK pa \in Pages : pa = page[p]
  BY Operands DEF Handling, Kfree
<1>2. Owners(pa) # {} \/ Carriers(pa) # {}
  <2>1. Cardinality(Owners(pa)) + Cardinality(Carriers(pa)) > 0
    BY <1>1 DEF Counted, StillShared
  <2> QED
    BY <2>1, FS_EmptySet
<1>3. CASE Owners(pa) # {}
  <2>1. PICK q \in Procs : Owns(q, pa)
    BY <1>3 DEF Owners
  <2> QED
    BY <1>1, <2>1 DEF Owns, Uncounted
<1>4. CASE Carriers(pa) # {}
  <2>1. PICK q \in Procs : Carries(q, pa)
    BY <1>4 DEF Carriers
  <2> QED
    BY <1>1, <2>1 DEF Carries
<1> QED
  BY <1>2, <1>3, <1>4

\* What the pop of kalloc and the push of kfree do to the free list.
LEMMA PopRange ==
    ASSUME NEW S, NEW s \in Seq(S), s # <<>>
    PROVE  /\ Tail(s) \in Seq(S) /\ Head(s) \in S
           /\ Range(s) = Range(Tail(s)) \cup {Head(s)}
<1>1. Len(s) \in Nat \ {0} /\ Tail(s) \in Seq(S) /\ Len(Tail(s)) = Len(s) - 1
  OBVIOUS
<1>2. \A i \in 1 .. Len(s) - 1 : Tail(s)[i] = s[i + 1]
  OBVIOUS
<1>3. Range(Tail(s)) \subseteq Range(s) /\ Head(s) \in Range(s)
  BY <1>1, <1>2 DEF Range
<1>4. ASSUME NEW i \in 1 .. Len(s) PROVE s[i] \in Range(Tail(s)) \cup {Head(s)}
  <2>1. CASE i = 1
    BY <2>1
  <2>2. CASE i # 1
    <3>1. i - 1 \in 1 .. Len(s) - 1 /\ Tail(s)[i - 1] = s[i]
      BY <1>1, <1>2, <2>2
    <3>2. i - 1 \in DOMAIN Tail(s)
      BY <1>1, <3>1
    <3> QED
      BY <3>1, <3>2 DEF Range
  <2> QED
    BY <2>1, <2>2
<1> QED
  BY <1>1, <1>3, <1>4 DEF Range

LEMMA PushRange ==
    ASSUME NEW S, NEW s \in Seq(S), NEW x \in S
    PROVE  Range(<<x>> \o s) = Range(s) \cup {x}
<1> DEFINE t == <<x>> \o s
<1>1. t \in Seq(S) /\ Len(t) = Len(s) + 1 /\ Len(s) \in Nat
  OBVIOUS
<1>2. t[1] = x /\ \A i \in 1 .. Len(s) : t[i + 1] = s[i]
  OBVIOUS
<1>3. \A i \in 1 .. Len(t) : i # 1 => i - 1 \in 1 .. Len(s) /\ t[i] = s[i - 1]
  BY <1>1, <1>2
<1> HIDE DEF t
<1>4. ASSUME NEW i \in 1 .. Len(t) PROVE t[i] \in Range(s) \cup {x}
  <2>1. CASE i = 1
    BY <1>2, <2>1
  <2>2. CASE i # 1
    <3>1. i - 1 \in DOMAIN s /\ t[i] = s[i - 1]
      BY <1>1, <1>3, <2>2
    <3> QED
      BY <3>1 DEF Range
  <2> QED
    BY <2>1, <2>2
<1>5. Range(s) \cup {x} \subseteq Range(t)
  <2>1. x \in Range(t)
    BY <1>1, <1>2 DEF Range
  <2>2. ASSUME NEW i \in 1 .. Len(s) PROVE s[i] \in Range(t)
    <3>1. i + 1 \in 1 .. Len(t) /\ t[i + 1] = s[i]
      BY <1>1, <1>2
    <3> QED
      BY <1>1, <3>1 DEF Range
  <2> QED
    BY <2>1, <2>2 DEF Range
<1>6. Range(t) \subseteq Range(s) \cup {x}
  <2>1. DOMAIN t = 1 .. Len(t)
    BY <1>1
  <2> QED
    BY <2>1, <1>4 DEF Range
<1> QED
  BY <1>5, <1>6 DEF t

\* pa is mapped, in work or free.
Accounted(pa) == (\E q \in Procs : pa \in maps[q]) \/ InFlight(pa) \/ pa \in Range(freelist)

LEMMA NoLeakAccounted == NoLeak <=> \A pa \in Pages : Accounted(pa)
  BY DEF NoLeak, Accounted, Holders

\* Every step keeps pages accounted for.
LEMMA StepNoLeak ==
    ASSUME Structure, Counted, NoLeak, NEW p \in Procs, Step(p)
    PROVE  NoLeak'
<1> SUFFICES ASSUME NEW pa \in Pages PROVE Accounted(pa)'
  BY DEF NoLeak, Accounted, Holders, InFlight
<1>1. Accounted(pa)
  BY NoLeakAccounted
<1> USE DEF Structure, TypeOK
<1>2. CASE \E victim \in maps[p] \cup {NULL} : KallocPop(p, victim)
  <2>1. maps' = maps /\ pc[p] = "user" /\ freelist # <<>> /\ freelist' = Tail(freelist)
    BY <1>2 DEF KallocPop, Enter
  <2>2. page' = [page EXCEPT ![p] = Head(freelist)] /\ pc' = [pc EXCEPT ![p] = "kalloc_ref"]
    BY <1>2 DEF KallocPop
  <2>3. Range(freelist) = Range(freelist') \cup {Head(freelist)}
    BY <2>1, PopRange
  <2> QED
    BY <1>1, <2>1, <2>2, <2>3 DEF Accounted, InFlight
<1>3. CASE KfreePush(p)
  <2>1. page[p] \in Pages
    BY <1>3, Operands DEF KfreePush, Handling, Kfree
  <2>2. Range(freelist') = Range(freelist) \cup {page[p]}
    BY <1>3, <2>1, PushRange DEF KfreePush
  <2>3. pa # page[p] => \A q \in Procs : pa \in maps[q] => pa \in maps'[q]
    BY <1>3, <2>1 DEF KfreePush, KfreeReturn
  <2>4. pa # page[p] => (InFlight(pa) => InFlight(pa)')
    BY <1>3 DEF KfreePush, KfreeReturn, InFlight
  <2> QED
    BY <1>1, <2>2, <2>3, <2>4 DEF Accounted
<1>4. CASE KfreeGet(p) /\ ~StillShared(page[p])
  BY <1>1, <1>4 DEF KfreeGet, Accounted, InFlight
<1>5. CASE KfreeGet(p) /\ StillShared(page[p])
  <2>1. KfreeReturn(p) /\ freelist' = freelist /\ pc[p] = "kfree_get"
    BY <1>5 DEF KfreeGet
  <2>2. CASE pa # page[p]
    <3>1. \A q \in Procs : pa \in maps[q] => pa \in maps'[q]
      BY <2>1, <2>2 DEF KfreeReturn
    <3>2. InFlight(pa) => InFlight(pa)'
      BY <2>1, <2>2 DEF KfreeReturn, InFlight
    <3> QED
      BY <1>1, <2>1, <3>1, <3>2 DEF Accounted
  <2>3. CASE pa = page[p]
    <3>1. CASE \E q \in Procs : pa \in maps[q] /\ (back[p] = "uvmunmap" => q # np[p])
      BY <2>1, <3>1 DEF KfreeReturn, Accounted
    <3>2. CASE \E q \in Procs \ {p} : page[q] = pa /\ pc[q] \in {"map", "kfree_dec"}
      BY <2>1, <3>2 DEF KfreeReturn, Accounted, InFlight
    <3> QED
      BY <1>5, <2>1, <2>3, <3>1, <3>2, SharedIsHeld
  <2> QED
    BY <2>2, <2>3
<1>6. CASE \/ Spawn(p) \/ (\E c \in Procs : ForkStart(p, c)) \/ CopyFail(p) \/ Unmap(p)
  BY <1>1, <1>6 DEF Spawn, ForkStart, CopyFail, Unmap, Enter, Accounted, InFlight
<1>7. CASE KallocRef(p) \/ MapFail(p) \/ KfreeDec(p)
  BY <1>1, <1>7 DEF KallocRef, MapFail, KfreeDec, Accounted, InFlight
<1>8. CASE MapNew(p)
  BY <1>1, <1>8 DEF MapNew, Accounted, InFlight
<1>9. CASE MapCopy(p)
  BY <1>1, <1>9 DEF MapCopy, Accounted, InFlight
<1>10. CASE CopyMap(p)
  BY <1>1, <1>10 DEF CopyMap, Accounted, InFlight
<1>11. CASE CopyRef(p)
  BY <1>1, <1>11 DEF CopyRef, Accounted, InFlight
<1>12. CASE UnmapPage(p)
  BY <1>1, <1>12 DEF UnmapPage, Accounted, InFlight
<1>13. CASE ForkDone(p) \/ Shrunk(p) \/ Unmapped(p)
  <2>1. freelist' = freelist /\ maps' = maps /\ page' = page
    BY <1>13 DEF ForkDone, Shrunk, Unmapped
  <2> QED
    BY <1>1, <1>13, <2>1, Release DEF Accounted, InFlight
<1> QED
  BY <1>2, <1>3, <1>4, <1>5, <1>6, <1>7, <1>8, <1>9, <1>10, <1>11, <1>12, <1>13
     DEF Step, PlainStep, Shrink, Exit, KfreeGet

-----------------------------------------------------------------------------
(* The invariant and its consequences.                                     *)

LEMMA InitInv == Init => Inv
<1> SUFFICES ASSUME Init PROVE Inv
  OBVIOUS
<1>1. Structure
  BY InitStructure
<1>2. Counted
  <2>1. \A pa \in Pages : Owners(pa) = {} /\ Carriers(pa) = {} /\ count[pa] = 0
    BY DEF Init, Owners, Owns, Carriers, Carries
  <2> QED
    BY <2>1, FS_EmptySet DEF Counted
<1>3. NoLeak
  BY DEF Init, NoLeak
<1> QED
  BY <1>1, <1>2, <1>3 DEF Inv

LEMMA NextInv == Inv /\ [Next]_vars => Inv'
<1> SUFFICES ASSUME Inv, [Next]_vars PROVE Inv'
  OBVIOUS
<1>1. CASE UNCHANGED vars
  BY SMTT(30), <1>1 DEF vars, Inv, Structure, TypeOK, Locals, Family, Tables, Counted, Owners, Owns,
     Uncounted, Carriers, Carries, NoLeak, Holders, InFlight
<1>2. CASE ~Corrupted /\ \E p \in Procs : Step(p)
  <2>1. PICK p \in Procs : Step(p)
    BY <1>2
  <2>2. Structure'
    BY <1>2, <2>1, StepType, StepLocals, StepFamily, StepTables DEF Inv, Structure
  <2> QED
    BY <2>1, <2>2, StepCounted, StepNoLeak DEF Inv
<1> QED
  BY <1>1, <1>2 DEF Next

\* The types, the structure of the state and the exact count are invariant.
THEOREM Correct == Spec => []Inv
  BY InitInv, NextInv, PTL DEF Spec

\* The mappings the count does not include are one for each process that
\* works on one: distinct processes work on distinct page tables.
LEMMA HoldersSplit ==
    ASSUME Structure, NEW pa \in Pages
    PROVE  LET U == {t \in Procs : Uncounted(t, pa)}
           IN  /\ IsFiniteSet(Holders(pa)) /\ IsFiniteSet(U)
               /\ Cardinality(U) \in Nat
               /\ Cardinality(Holders(pa)) = Cardinality(Owners(pa)) + Cardinality(U)
<1> DEFINE U == {t \in Procs : Uncounted(t, pa)}
           I == {np[t] : t \in U}
           f == [t \in U |-> np[t]]
<1>1. IsFiniteSet(U) /\ Cardinality(U) \in Nat /\ IsFiniteSet(Holders(pa))
  <2>1. U \in SUBSET Procs /\ Holders(pa) \in SUBSET Procs
    BY DEF Holders
  <2> QED
    BY <2>1, RefcAssumption, FS_Subset, FS_CardinalityType
<1>2. \A t \in U : np[t] \in Procs /\ pa \in maps[np[t]]
  BY Operands DEF Uncounted, Structure, Tables, Kfree
<1>3. I \subseteq Holders(pa) /\ Owners(pa) = Holders(pa) \ I
  BY <1>2 DEF Holders, Owners, Owns
<1>4. \A s, t \in U : np[s] = np[t] => s = t
  BY <1>2, RefcAssumption DEF Structure, Family
<1>5. ExistsBijection(U, I)
  <2>1. f \in [U -> I] /\ \A s, t \in U : f[s] = f[t] => s = t
    BY <1>4
  <2>2. \A y \in I : \E t \in U : f[t] = y
    OBVIOUS
  <2>3. f \in Bijection(U, I)
    BY <2>1, <2>2 DEF Bijection, Injection, Surjection, IsInjective
  <2> QED
    BY <2>3 DEF ExistsBijection
<1>6. IsFiniteSet(I) /\ Cardinality(I) = Cardinality(U)
  BY <1>1, <1>5, FS_Bijection
<1>7. Cardinality(Holders(pa) \ I) = Cardinality(Holders(pa)) - Cardinality(Holders(pa) \cap I)
  BY <1>1, FS_Difference
<1>8. Holders(pa) \cap I = I
  BY <1>3
<1>9. Cardinality(Holders(pa)) \in Nat
  BY <1>1, FS_CardinalityType
<1> QED
  BY <1>1, <1>3, <1>6, <1>7, <1>8, <1>9

\* The size of a set that is the union of two disjoint ones.
LEMMA DisjointUnion ==
    ASSUME NEW S, NEW T, IsFiniteSet(S), IsFiniteSet(T), S \cap T = {}
    PROVE  Cardinality(S \cup T) = Cardinality(S) + Cardinality(T)
<1>1. Cardinality(S \cup T) = Cardinality(S) + Cardinality(T) - Cardinality(S \cap T)
  BY FS_Union
<1>2. Cardinality(S \cap T) = 0 /\ Cardinality(S) \in Nat /\ Cardinality(T) \in Nat
  BY FS_EmptySet, FS_CardinalityType
<1> QED
  BY <1>1, <1>2

LEMMA InvCountExact == Inv => CountExact
<1> SUFFICES ASSUME Inv, NEW pa \in Pages
             PROVE  /\ count[pa] >= 0
                    /\ count[pa] = Cardinality(Holders(pa))
                                     + Cardinality(At(pa, {"map"}))
                                     + Cardinality(At(pa, {"kfree_dec"}) \ Unmapping)
                                     - Cardinality(At(pa, {"uvmcopy_ref"}))
                                     - Cardinality(At(pa, {"kfree_get", "kfree_push"}) \cap Unmapping)
  BY DEF CountExact
<1> DEFINE M == At(pa, {"map"})
           D == At(pa, {"kfree_dec"}) \ Unmapping
           C == At(pa, {"uvmcopy_ref"})
           G == At(pa, {"kfree_get", "kfree_push"}) \cap Unmapping
           U == {t \in Procs : Uncounted(t, pa)}
<1>1. Structure /\ count[pa] = Cardinality(Owners(pa)) + Cardinality(Carriers(pa))
  BY DEF Inv, Counted
<1>2. Cardinality(Holders(pa)) = Cardinality(Owners(pa)) + Cardinality(U)
  BY <1>1, HoldersSplit
<1>3. /\ IsFiniteSet(M) /\ IsFiniteSet(D) /\ IsFiniteSet(C) /\ IsFiniteSet(G)
      /\ Cardinality(M) \in Nat /\ Cardinality(D) \in Nat
      /\ Cardinality(C) \in Nat /\ Cardinality(G) \in Nat
  <2>1. M \in SUBSET Procs /\ D \in SUBSET Procs /\ C \in SUBSET Procs /\ G \in SUBSET Procs
    BY DEF At
  <2> HIDE DEF M, D, C, G
  <2> QED
    BY <2>1, RefcAssumption, FS_Subset, FS_CardinalityType
<1>4. U = C \cup G /\ C \cap G = {}
  BY DEF Uncounted, At, Unmapping
<1>5. Carriers(pa) = M \cup D /\ M \cap D = {}
  BY DEF Carriers, Carries, At, Unmapping
<1> HIDE DEF M, D, C, G, U
<1>6. Cardinality(U) = Cardinality(C) + Cardinality(G)
  BY <1>3, <1>4, DisjointUnion
<1>7. Cardinality(Carriers(pa)) = Cardinality(M) + Cardinality(D)
  BY <1>3, <1>5, DisjointUnion
<1>8. Cardinality(Owners(pa)) \in Nat
  BY SetsFinite
<1> QED
  BY <1>1, <1>2, <1>3, <1>6, <1>7, <1>8 DEF M, D, C, G

\* Whatever the interleaving of kalloc, kfree, uvmcopy, uvmunmap and
\* cowhandle, memrefc.count is the number of mappings, corrected for the
\* operations that are between changing a table and changing the count.
THEOREM CountsExact == Spec => []CountExact
  BY Correct, InvCountExact, PTL

\* The unlocked refcget of kfree never loses a page: a page that nobody maps
\* and nobody works on is on the free list.
THEOREM NothingLeaks == Spec => []NoLeak
<1>1. Inv => NoLeak
  BY DEF Inv
<1> QED
  BY <1>1, Correct, PTL

-----------------------------------------------------------------------------
(* Serial operations free no page twice.                                   *)

Distinct(s) == \A i, j \in DOMAIN s : s[i] = s[j] => i = j

\* A page that nobody's count includes and nobody is working on.
Idle(pa) == Owners(pa) = {} /\ \A p \in Procs : page[p] # pa

\* With one operation in progress, the free list holds idle pages only, each
\* of them once, and what refcget returned is still true at the push.
Serial ==
    /\ \A p, q \in Busy : p = q
    /\ Distinct(freelist)
    /\ \A pa \in Range(freelist) : Idle(pa)
    /\ \A p \in Procs : pc[p] = "kfree_push" => ~StillShared(page[p])

LEMMA SerialSound == ASSUME Inv, Serial PROVE ~Corrupted
<1>1. \A i, j \in DOMAIN freelist : freelist[i] = freelist[j] => i = j
  BY DEF Serial, Distinct
<1>2. ASSUME NEW pa \in Range(freelist), NEW p \in Procs PROVE ~Reaches(p, pa)
  <2>1. Owners(pa) = {} /\ \A t \in Procs : page[t] # pa
    BY DEF Serial, Idle
  <2>2. pa \notin maps[p]
    BY <2>1 DEF Owners, Owns, Uncounted
  <2> QED
    BY <2>1, <2>2 DEF Reaches
<1> QED
  BY <1>1, <1>2 DEF Corrupted

\* Only the process that is stepping is in the kernel, before and after.
LEMMA OneBusy ==
    ASSUME Inv, Serial, Parallel = 1, NEW p \in Procs, Step(p), NEW q \in Procs, q # p
    PROVE  q \notin Busy /\ q \notin Busy' /\ page[q] = NULL /\ page'[q] = NULL
<1> USE DEF Inv, Structure, TypeOK
<1>1. q \notin Busy
  <2>1. CASE p \in Busy
    BY <2>1 DEF Serial
  <2>2. CASE Cardinality(Busy) < 1
    <3>1. Busy \in SUBSET Procs
      BY DEF Busy
    <3>2. IsFiniteSet(Busy) /\ Cardinality(Busy) \in Nat
      BY <3>1, RefcAssumption, FS_Subset, FS_CardinalityType
    <3> QED
      BY <2>2, <3>2, FS_EmptySet
  <2>3. CASE Spawn(p)
    BY <2>3 DEF Spawn, Busy
  <2>4. p \in Busy \/ Enter(p) \/ Spawn(p)
    BY DEF Step, PlainStep, Busy, KallocPop, KallocRef, MapNew, MapFail, MapCopy, KfreeDec, KfreeGet,
       KfreePush, ForkStart, CopyMap, CopyRef, CopyFail, ForkDone, Unmap, Exit,
     Shrink, Shrunk, UnmapPage, Unmapped
  <2> QED
    BY <2>1, <2>2, <2>3, <2>4 DEF Enter
<1>2. page[q] = NULL
  BY <1>1 DEF Busy, Locals, Handling, Kfree
<1>3. pc'[q] \in {pc[q], "user", "none", "embryo"}
  BY DEF Step, PlainStep, Spawn, KallocPop, KallocRef, MapNew, MapFail, MapCopy, KfreeDec, KfreeGet,
     KfreePush, KfreeReturn, ForkStart, CopyMap, CopyRef, CopyFail, ForkDone, Unmap, Exit, Shrink, Shrunk, UnmapPage,
     Unmapped
<1>4. page'[q] = page[q]
  BY DEF Step, PlainStep, Spawn, KallocPop, KallocRef, MapNew, MapFail, MapCopy, KfreeDec, KfreeGet,
     KfreePush, KfreeReturn, ForkStart, CopyMap, CopyRef, CopyFail, ForkDone, Unmap, Exit, Shrink, Shrunk, UnmapPage,
     Unmapped
<1> QED
  BY <1>1, <1>2, <1>3, <1>4 DEF Busy

\* A page that a process has in its table, and that it is not working on, is
\* not on the free list.
LEMMA MappedNotFree ==
    ASSUME Inv, Serial, NEW q \in Procs, NEW pa \in maps[q],
           \A t \in Procs : np[t] = q => ~Uncounted(t, pa)
    PROVE  pa \notin Range(freelist)
<1>1. q \in Owners(pa)
  BY DEF Owners, Owns
<1> QED
  BY <1>1 DEF Serial, Idle

\* A page that stays idle while the process that steps takes up another.
LEMMA StaysIdle ==
    ASSUME Inv, Serial, Parallel = 1, NEW p \in Procs, Step(p), NEW pa, Idle(pa),
           Owners(pa)' = Owners(pa), page'[p] # pa, pa # NULL
    PROVE  Idle(pa)'
<1>1. \A q \in Procs : page'[q] # pa
  BY OneBusy
<1> QED
  BY <1>1 DEF Idle

\* What a serial step takes up is not on the free list, and it makes nobody
\* an owner of a page on the free list.
LEMMA IdleStep ==
    ASSUME Inv, Serial, Parallel = 1, NEW p \in Procs, Step(p), ~KfreePush(p),
           NEW pa \in Range(freelist'),
           ~ \E victim \in maps[p] \cup {NULL} : KallocPop(p, victim)
    PROVE  Idle(pa)' /\ freelist' = freelist
<1> USE DEF Inv, Structure, TypeOK
<1>1. freelist' = freelist
  BY DEF Step, PlainStep, Spawn, KallocRef, MapNew, MapFail, MapCopy, KfreeDec, KfreeGet, ForkStart,
     CopyMap, CopyRef, CopyFail, ForkDone, Unmap, Exit,
     Shrink, Shrunk, UnmapPage, Unmapped
<1>2. pa \in Pages /\ Idle(pa) /\ pa # NULL /\ pa # page[p]
  <2>1. pa \in Pages
    BY <1>1 DEF Range
  <2>2. Idle(pa)
    BY <1>1 DEF Serial
  <2> QED
    BY <2>1, <2>2, RefcAssumption DEF Idle
<1>3. SUFFICES Owners(pa)' = Owners(pa) /\ page'[p] # pa
  BY <1>1, <1>2, StaysIdle
<1>4. CASE page'[p] \in {page[p], NULL} /\ Same(pa)
  BY <1>2, <1>4 DEF Same
<1>5. CASE \/ Spawn(p) \/ MapFail(p) \/ KfreeGet(p) \/ (\E c \in Procs : ForkStart(p, c))
           \/ CopyFail(p) \/ ForkDone(p) \/ Unmap(p) \/ Shrunk(p) \/ Unmapped(p)
  <2>1. page'[p] \in {page[p], NULL}
    BY <1>5 DEF Spawn, MapFail, KfreeGet, KfreeReturn, ForkStart, CopyFail, ForkDone, Unmap, Shrunk, Unmapped
  <2>2. Same(pa)
    BY <1>2, <1>5, QuietCounts
  <2> QED
    BY <1>4, <2>1, <2>2
<1>6. CASE KallocRef(p)
  BY <1>2, <1>6, KallocRefCounts DEF KallocRef, Same
<1>7. CASE MapNew(p)
  <2>1. Same(pa)
    BY <1>2, <1>7, MapNewCounts
  <2> QED
    BY <1>4, <1>7, <2>1 DEF MapNew
<1>8. CASE MapCopy(p)
  <2>1. old[p] \in maps[p] /\ \A t \in Procs : np[t] # p
    BY <1>8, Untouched DEF MapCopy, Tables, Locals, Kfree
  <2>2. old[p] # pa
    BY <1>1, <2>1, MappedNotFree
  <2>3. Same(pa)
    BY <1>2, <1>8, <2>2, MapCopyCounts
  <2> QED
    BY <1>8, <2>2, <2>3 DEF MapCopy, Same
<1>9. CASE KfreeDec(p)
  <2>1. CASE back[p] # "uvmunmap"
    BY <1>2, <1>9, <2>1, KfreeDecCarried DEF KfreeDec, Same
  <2>2. CASE back[p] = "uvmunmap"
    <3>1. PICK c \in Procs : c = np[p]
      BY <2>2, Operands
    <3> QED
      BY <1>2, <1>9, <2>2, <3>1, KfreeDecMapped DEF KfreeDec, Same
  <2> QED
    BY <2>1, <2>2
<1>10. CASE CopyMap(p)
  <2>1. PICK x \in todo[p] : page' = [page EXCEPT ![p] = x]
    BY <1>10 DEF CopyMap
  <2>2. x \in maps[p] /\ \A t \in Procs : np[t] # p
    BY <1>10, Untouched DEF CopyMap, Tables, Locals, Kfree
  <2>3. x # pa
    BY <1>1, <2>2, MappedNotFree
  <2>4. Same(pa)
    BY <1>2, <1>10, QuietCounts
  <2> QED
    BY <2>1, <2>3, <2>4 DEF Same
<1>11. CASE CopyRef(p)
  <2>1. PICK c \in Procs : c = np[p]
    BY <1>11, Operands DEF CopyRef
  <2>2. Same(pa)
    BY <1>2, <1>11, <2>1, CopyRefCounts
  <2> QED
    BY <1>4, <1>11, <2>2 DEF CopyRef
<1>12. CASE UnmapPage(p)
  <2>1. PICK c \in Procs : c = np[p]
    BY <1>12, Operands DEF UnmapPage
  <2>2. PICK x \in maps[c] : page' = [page EXCEPT ![p] = x]
    BY <1>12, <2>1 DEF UnmapPage
  <2>3. \A t \in Procs : np[t] = c => ~Uncounted(t, x)
    BY <1>12, <2>1, RefcAssumption DEF UnmapPage, Family, Uncounted
  <2>4. x # pa
    BY <1>1, <2>3, MappedNotFree
  <2>5. Same(pa)
    BY <1>2, <1>12, QuietCounts
  <2> QED
    BY <2>2, <2>4, <2>5 DEF Same
<1> QED
  BY <1>5, <1>6, <1>7, <1>8, <1>9, <1>10, <1>11, <1>12 DEF Step, PlainStep, Shrink, Exit

\* kalloc takes the first of distinct pages.
LEMMA IdlePop ==
    ASSUME Inv, Serial, Parallel = 1, NEW p \in Procs, Step(p),
           NEW victim \in maps[p] \cup {NULL}, KallocPop(p, victim)
    PROVE  Distinct(freelist') /\ \A pa \in Range(freelist') : Idle(pa)'
<1> USE DEF Inv, Structure, TypeOK
<1>1. freelist # <<>> /\ freelist' = Tail(freelist) /\ page'[p] = Head(freelist)
  BY DEF KallocPop
<1>2. /\ Len(freelist) \in Nat /\ freelist' \in Seq(Pages) /\ Len(freelist') = Len(freelist) - 1
      /\ \A i \in 1 .. Len(freelist') : freelist'[i] = freelist[i + 1]
      /\ Head(freelist) = freelist[1]
  BY <1>1
<1>3. ASSUME NEW i \in 1 .. Len(freelist'), NEW j \in 1 .. Len(freelist'), freelist'[i] = freelist'[j]
      PROVE  i = j
  <2>1. i + 1 \in DOMAIN freelist /\ j + 1 \in DOMAIN freelist
    BY <1>2
  <2>2. i + 1 = j + 1
    BY ZenonT(60), <1>2, <1>3, <2>1 DEF Serial, Distinct
  <2> QED
    BY <2>2
<1>4. ASSUME NEW i \in 1 .. Len(freelist') PROVE freelist'[i] # Head(freelist)
  <2>1. i + 1 \in DOMAIN freelist /\ 1 \in DOMAIN freelist /\ i + 1 # 1
    BY <1>2
  <2> QED
    BY <1>2, <2>1 DEF Serial, Distinct
<1>5. DOMAIN freelist' = 1 .. Len(freelist')
  BY <1>2
<1>6. ASSUME NEW pa \in Range(freelist') PROVE Idle(pa)'
  <2>1. pa # Head(freelist) /\ pa \in Range(freelist)
    <3>1. pa # Head(freelist)
      BY <1>4, <1>5 DEF Range
    <3> QED
      BY <1>1, <3>1, PopRange
  <2>2. pa \in Pages /\ pa # NULL /\ Idle(pa)
    BY <2>1, RefcAssumption DEF Serial, Range
  <2>3. Same(pa)
    BY <2>2, QuietCounts
  <2> QED
    BY <1>1, <2>1, <2>2, <2>3, StaysIdle DEF Same
<1> QED
  BY <1>3, <1>5, <1>6 DEF Distinct

\* kfree pushes a page that is idle from then on.
LEMMA IdlePush ==
    ASSUME Inv, Serial, Parallel = 1, NEW p \in Procs, Step(p), KfreePush(p)
    PROVE  Distinct(freelist') /\ \A pa \in Range(freelist') : Idle(pa)'
<1> USE DEF Inv, Structure, TypeOK
<1>1. PICK x \in Pages : x = page[p]
  BY Operands DEF KfreePush, Handling, Kfree
<1>2. freelist' = <<x>> \o freelist /\ page'[p] = NULL /\ ~StillShared(x)
  BY <1>1 DEF KfreePush, KfreeReturn, Serial
<1>3. x \notin Range(freelist)
  BY <1>1 DEF Serial, Idle
<1>4. /\ Len(freelist) \in Nat /\ freelist' \in Seq(Pages) /\ Len(freelist') = Len(freelist) + 1
      /\ \A i \in 1 .. Len(freelist') : freelist'[i] = IF i = 1 THEN x ELSE freelist[i - 1]
  BY <1>2
<1>5. DOMAIN freelist' = 1 .. Len(freelist') /\ DOMAIN freelist = 1 .. Len(freelist)
  BY <1>4
<1>6. \A i \in 1 .. Len(freelist') : i # 1 => i - 1 \in DOMAIN freelist /\ freelist'[i] # x
  <2>1. \A i \in 1 .. Len(freelist') : i # 1 => i - 1 \in 1 .. Len(freelist) /\ freelist'[i] = freelist[i - 1]
    BY <1>4
  <2>2. \A i \in 1 .. Len(freelist) : freelist[i] # x
    BY <1>3, <1>5 DEF Range
  <2> QED
    BY <1>5, <2>1, <2>2
<1>7. ASSUME NEW i \in 1 .. Len(freelist'), NEW j \in 1 .. Len(freelist'), freelist'[i] = freelist'[j]
      PROVE  i = j
  <2>1. CASE i = 1 \/ j = 1
    BY <1>4, <1>6, <1>7, <2>1
  <2>2. CASE i # 1 /\ j # 1
    <3>1. i - 1 \in DOMAIN freelist /\ j - 1 \in DOMAIN freelist /\ freelist[i - 1] = freelist[j - 1]
      BY <1>4, <1>6, <1>7, <2>2
    <3>2. i - 1 = j - 1
      BY <3>1 DEF Serial, Distinct
    <3> QED
      BY <3>2
  <2> QED
    BY <2>1, <2>2
<1>8. Owners(x) = {}
  <2>1. Cardinality(Owners(x)) = 0
    BY <1>2, SetsFinite DEF Counted, StillShared
  <2> QED
    BY <2>1, SetsFinite, FS_EmptySet
<1>9. ASSUME NEW pa \in Range(freelist') PROVE Idle(pa)'
  <2>1. pa \in Range(freelist) \cup {x}
    BY <1>2, PushRange
  <2>2. pa \in Pages /\ pa # NULL /\ Owners(pa) = {}
    BY SMTT(30), <1>8, <2>1, RefcAssumption DEF Serial, Idle, Range
  <2>3. Owners(pa)' = {}
    BY <2>2, QuietCounts DEF Same
  <2>4. \A q \in Procs : page'[q] # pa
    BY <1>2, <2>2, OneBusy
  <2> QED
    BY <2>3, <2>4 DEF Idle
<1> QED
  BY <1>5, <1>7, <1>9 DEF Distinct

LEMMA StepSerial ==
    ASSUME Inv, Serial, Parallel = 1, NEW p \in Procs, Step(p)
    PROVE  Serial'
<1> USE DEF Inv, Structure, TypeOK
<1>1. \A q, r \in Busy' : q = r
  <2>1. Busy' \subseteq Procs
    BY DEF Busy
  <2> QED
    BY <2>1, OneBusy
<1>2. Distinct(freelist') /\ \A pa \in Range(freelist') : Idle(pa)'
  <2>1. CASE \E victim \in maps[p] \cup {NULL} : KallocPop(p, victim)
    BY <2>1, IdlePop
  <2>2. CASE KfreePush(p)
    BY <2>2, IdlePush
  <2>3. CASE ~KfreePush(p) /\ ~ \E victim \in maps[p] \cup {NULL} : KallocPop(p, victim)
    <3>1. freelist' = freelist
      BY <2>3 DEF Step, PlainStep, Spawn, KallocRef, MapNew, MapFail, MapCopy, KfreeDec, KfreeGet, ForkStart,
         CopyMap, CopyRef, CopyFail, ForkDone, Unmap, Exit,
     Shrink, Shrunk, UnmapPage, Unmapped
    <3> QED
      BY <2>3, <3>1, IdleStep DEF Serial
  <2> QED
    BY <2>1, <2>2, <2>3
<1>3. ASSUME NEW q \in Procs, pc'[q] = "kfree_push" PROVE ~StillShared(page[q])'
  <2>1. q = p
    <3>1. q \in Busy'
      BY <1>3 DEF Busy
    <3> QED
      BY <3>1, OneBusy
  <2>2. KfreeGet(p) /\ ~StillShared(page[p]) /\ page' = page /\ count' = count
    BY <1>3, <2>1 DEF Step, PlainStep, Spawn, KallocPop, KallocRef, MapNew, MapFail, MapCopy, KfreeDec,
       KfreeGet, KfreePush, KfreeReturn, ForkStart, CopyMap, CopyRef, CopyFail, ForkDone, Unmap, Exit,
       Shrink, Shrunk, UnmapPage, Unmapped
  <2> QED
    BY <2>1, <2>2 DEF StillShared
<1> QED
  BY <1>1, <1>2, <1>3 DEF Serial

\* While operations are serial - one hart, and no timer interrupt inside a
\* system call - kfree frees no page twice and none that is mapped: that the
\* count is read again outside the lock does no harm then.
THEOREM SerialSafe == Parallel = 1 => (Spec => []NoDoubleFree)
<1> SUFFICES ASSUME Parallel = 1 PROVE Spec => []NoDoubleFree
  OBVIOUS
<1>1. Init => Serial
  <2> SUFFICES ASSUME Init PROVE Serial
    OBVIOUS
  <2>1. Cardinality(Pages) \in Nat /\ IsFiniteSet(1 .. Cardinality(Pages))
    BY RefcAssumption, FS_CardinalityType, FS_Interval
  <2>2. Cardinality(1 .. Cardinality(Pages)) = Cardinality(Pages)
    BY <2>1, FS_Interval
  <2>3. freelist \in Surjection(1 .. Cardinality(Pages), Pages)
    BY DEF Init, Surjection, Range
  <2>4. freelist \in Injection(1 .. Cardinality(Pages), Pages)
    BY <2>1, <2>2, <2>3, FS_SurjSameCardinalityImpliesInj
  <2>5. Distinct(freelist)
    BY <2>4 DEF Injection, IsInjective, Distinct
  <2>6. \A pa \in Range(freelist) : Idle(pa)
    BY RefcAssumption DEF Init, Idle, Owners, Owns
  <2> QED
    BY <2>5, <2>6 DEF Init, Serial, Busy
<1>2. Inv /\ Serial /\ [Next]_vars => Serial'
  <2> SUFFICES ASSUME Inv, Serial, [Next]_vars PROVE Serial'
    OBVIOUS
  <2>1. CASE UNCHANGED vars
    BY <2>1 DEF vars, Serial, Busy, Distinct, Idle, Owners, Owns, Uncounted, StillShared
  <2>2. CASE \E p \in Procs : Step(p)
    BY <2>2, StepSerial
  <2> QED
    BY <2>1, <2>2 DEF Next
<1>3. Inv /\ Serial => NoDoubleFree
  BY SerialSound DEF NoDoubleFree
<1> QED
  BY <1>1, <1>2, <1>3, Correct, PTL DEF Spec
=============================================================================
