--------------------------- MODULE CowFork_proofs ---------------------------
(***************************************************************************)
(* Proofs about CowFork, for any number of processes, pages and addresses. *)
(***************************************************************************)
EXTENDS CowFork, FiniteSetTheorems, TLAPS

Tables == [Procs -> [VPages -> PTEs]]

\* The mappings of pa in the page tables T; Refs(pa) is RefsIn(pte, pa).
RefsIn(T, pa) == {s \in Procs \X VPages : T[s[1]][s[2]].pa = pa}

\* The page tables T with entry e for page v of process p.
Put(T, p, v, e) == [T EXCEPT ![p][v] = e]

\* A slot update adds the slot to the mappings of the page it now maps and
\* takes it from those of every other page.
LEMMA RefsPut ==
    ASSUME NEW T \in Tables, NEW p \in Procs, NEW v \in VPages, NEW e \in PTEs,
           NEW pa
    PROVE  /\ Put(T, p, v, e) \in Tables
           /\ e.pa = pa => RefsIn(Put(T, p, v, e), pa) = RefsIn(T, pa) \cup {<<p, v>>}
           /\ e.pa # pa => RefsIn(Put(T, p, v, e), pa) = RefsIn(T, pa) \ {<<p, v>>}
<1> DEFINE U == Put(T, p, v, e)
<1>1. U \in Tables
  BY DEF Put, Tables
<1>2. \A q \in Procs, w \in VPages : U[q][w] = IF <<q, w>> = <<p, v>> THEN e ELSE T[q][w]
  BY DEF Put, Tables
<1>3. \A s \in Procs \X VPages : U[s[1]][s[2]] = IF s = <<p, v>> THEN e ELSE T[s[1]][s[2]]
  BY <1>2
<1> HIDE DEF U
<1>4. e.pa = pa => RefsIn(U, pa) = RefsIn(T, pa) \cup {<<p, v>>}
  BY <1>3 DEF RefsIn
<1>5. e.pa # pa => RefsIn(U, pa) = RefsIn(T, pa) \ {<<p, v>>}
  BY <1>3 DEF RefsIn
<1> QED
  BY <1>1, <1>4, <1>5 DEF U

LEMMA RefsFinite ==
    ASSUME NEW T, NEW pa
    PROVE  /\ IsFiniteSet(RefsIn(T, pa))
           /\ Cardinality(RefsIn(T, pa)) \in Nat
<1>1. IsFiniteSet(VPages)
  BY FS_Interval, SizeAssumption DEF VPages
<1>2. IsFiniteSet(Procs \X VPages)
  BY <1>1, FS_Product, FiniteAssumption
<1>3. RefsIn(T, pa) \subseteq Procs \X VPages
  BY DEF RefsIn
<1> QED
  BY <1>2, <1>3, FS_Subset, FS_CardinalityType

-----------------------------------------------------------------------------
(* The allocator and the page tables agree: the counts are exact, the free *)
(* list is what no table maps, and an entry without PTE_COW is alone.      *)

Counted(T, c) == \A pa \in Pages : c[pa] = Cardinality(RefsIn(T, pa))

Listed(T, f) == \A pa \in Pages : pa \in f <=> RefsIn(T, pa) = {}

Alone(T) ==
    \A p \in Procs, v \in VPages :
        T[p][v].pa # NULL /\ ~T[p][v].cow => RefsIn(T, T[p][v].pa) = {<<p, v>>}

Consistent(T, f, c) ==
    /\ T \in Tables /\ f \subseteq Pages /\ c \in [Pages -> Int]
    /\ Counted(T, c) /\ Listed(T, f) /\ Alone(T)

\* kfree(pa) together with clearing the entry that maps pa.
LEMMA DropConsistent ==
    ASSUME NEW T, NEW f, NEW c, Consistent(T, f, c),
           NEW p \in Procs, NEW v \in VPages, T[p][v].pa # NULL
    PROVE  /\ T[p][v].pa \in Pages
           /\ Consistent(Put(T, p, v, Unmapped),
                         KfreeList(f, c, T[p][v].pa), RemoveRef(c, T[p][v].pa))
<1> DEFINE pa == T[p][v].pa
           U == Put(T, p, v, Unmapped)
           d == RemoveRef(c, pa)
           g == KfreeList(f, c, pa)
<1>0. T \in Tables /\ f \subseteq Pages /\ c \in [Pages -> Int]
  BY DEF Consistent
<1>1. pa \in Pages
  BY <1>0 DEF Tables, PTEs
<1>2. Unmapped \in PTEs /\ Unmapped.pa = NULL
  BY DEF Unmapped, PTEs
<1>3. /\ U \in Tables
      /\ \A x \in Pages : RefsIn(U, x) = RefsIn(T, x) \ {<<p, v>>}
  <2>1. \A x \in Pages : x # NULL
    BY ProcAssumption
  <2> QED
    BY <1>0, <1>2, <2>1, RefsPut
<1>4. <<p, v>> \in RefsIn(T, pa)
  BY DEF RefsIn
<1>5. \A x \in Pages : x # pa => <<p, v>> \notin RefsIn(T, x)
  BY DEF RefsIn
<1>6. \A x \in Pages : x # pa => RefsIn(U, x) = RefsIn(T, x)
  BY <1>3, <1>5
<1>7. Cardinality(RefsIn(U, pa)) = Cardinality(RefsIn(T, pa)) - 1
  BY <1>1, <1>3, <1>4, RefsFinite, FS_RemoveElement
<1>8. /\ d \in [Pages -> Int]
      /\ d[pa] = c[pa] - 1
      /\ \A x \in Pages : x # pa => d[x] = c[x]
  BY <1>0, <1>1 DEF RemoveRef
<1>9. g = IF d[pa] > 0 THEN f ELSE f \cup {pa}
  BY DEF KfreeList, StillShared
<1>10. Counted(U, d)
  BY <1>1, <1>6, <1>7, <1>8 DEF Consistent, Counted
<1>11. d[pa] = Cardinality(RefsIn(U, pa))
  BY <1>10, <1>1 DEF Counted
<1>12. d[pa] > 0 <=> RefsIn(U, pa) # {}
  BY <1>11, RefsFinite, FS_EmptySet
<1>13. pa \notin f
  BY <1>1, <1>4 DEF Consistent, Listed
<1>14. Listed(U, g)
  BY <1>1, <1>6, <1>9, <1>12, <1>13 DEF Consistent, Listed
<1>15. Alone(U)
  <2> SUFFICES ASSUME NEW q \in Procs, NEW w \in VPages,
                      U[q][w].pa # NULL, ~U[q][w].cow
               PROVE  RefsIn(U, U[q][w].pa) = {<<q, w>>}
    BY DEF Alone
  <2>1. U[q][w] = T[q][w] /\ <<q, w>> # <<p, v>>
    BY <1>0, <1>2 DEF Put, Tables
  <2>2. T[q][w].pa \in Pages
    BY <1>0, <2>1 DEF Tables, PTEs
  <2>3. RefsIn(T, T[q][w].pa) = {<<q, w>>}
    BY <2>1 DEF Consistent, Alone
  <2> QED
    BY <1>3, <2>1, <2>2, <2>3
<1>16. g \subseteq Pages
  BY <1>0, <1>1, <1>9
<1> QED
  BY <1>1, <1>3, <1>8, <1>10, <1>14, <1>15, <1>16 DEF Consistent

\* kalloc together with mapping the new page where nothing was mapped.
LEMMA FillConsistent ==
    ASSUME NEW T, NEW f, NEW c, Consistent(T, f, c),
           NEW p \in Procs, NEW v \in VPages, T[p][v].pa = NULL,
           NEW mem \in f, NEW e \in PTEs, e.pa = mem
    PROVE  Consistent(Put(T, p, v, e), f \ {mem}, AddRef(c, mem))
<1> DEFINE U == Put(T, p, v, e)
           d == AddRef(c, mem)
<1>0. T \in Tables /\ f \subseteq Pages /\ c \in [Pages -> Int] /\ mem \in Pages
  BY DEF Consistent
<1>1. RefsIn(T, mem) = {}
  BY <1>0 DEF Consistent, Listed
<1>2. \A x \in Pages : <<p, v>> \notin RefsIn(T, x)
  BY ProcAssumption DEF RefsIn
<1>3. /\ U \in Tables
      /\ RefsIn(U, mem) = {<<p, v>>}
      /\ \A x \in Pages : x # mem => RefsIn(U, x) = RefsIn(T, x)
  <2>1. U \in Tables
    BY <1>0, RefsPut
  <2>2. RefsIn(U, mem) = RefsIn(T, mem) \cup {<<p, v>>}
    BY <1>0, RefsPut
  <2>3. \A x \in Pages : x # mem => RefsIn(U, x) = RefsIn(T, x) \ {<<p, v>>}
    BY <1>0, RefsPut
  <2> HIDE DEF U
  <2>4. RefsIn(U, mem) = {<<p, v>>}
    BY <1>1, <2>2
  <2>5. ASSUME NEW x \in Pages, x # mem PROVE RefsIn(U, x) = RefsIn(T, x)
    BY <1>2, <2>3, <2>5
  <2> QED
    BY <2>1, <2>4, <2>5
<1>4. /\ d \in [Pages -> Int]
      /\ d[mem] = c[mem] + 1
      /\ \A x \in Pages : x # mem => d[x] = c[x]
  BY <1>0 DEF AddRef
<1>5. c[mem] = 0
  BY <1>0, <1>1, FS_EmptySet DEF Consistent, Counted
<1>6. Cardinality(RefsIn(U, mem)) = 1
  BY <1>3, FS_Singleton
<1>7. Counted(U, d)
  BY <1>3, <1>4, <1>5, <1>6 DEF Consistent, Counted
<1>8. Listed(U, f \ {mem})
  BY <1>3 DEF Consistent, Listed
<1>9. Alone(U)
  <2> SUFFICES ASSUME NEW q \in Procs, NEW w \in VPages,
                      U[q][w].pa # NULL, ~U[q][w].cow
               PROVE  RefsIn(U, U[q][w].pa) = {<<q, w>>}
    BY DEF Alone
  <2>1. CASE <<q, w>> = <<p, v>>
    <3>1. U[q][w] = e /\ q = p /\ w = v
      BY <1>0, <2>1 DEF Put, Tables
    <3> QED
      BY <1>3, <3>1
  <2>2. CASE <<q, w>> # <<p, v>>
    <3>1. U[q][w] = T[q][w]
      BY <1>0, <2>2 DEF Put, Tables
    <3>2. T[q][w].pa \in Pages
      BY <1>0, <3>1 DEF Tables, PTEs
    <3>3. RefsIn(T, T[q][w].pa) = {<<q, w>>}
      BY <3>1 DEF Consistent, Alone
    <3>4. T[q][w].pa # mem
      BY <1>1, <3>3
    <3> QED
      BY <1>3, <3>1, <3>2, <3>3, <3>4
  <2> QED
    BY <2>1, <2>2
<1> QED
  BY <1>0, <1>3, <1>4, <1>7, <1>8, <1>9 DEF Consistent

\* cowhandle: another page, for this process alone, and kfree of the old one.
LEMMA CowConsistent ==
    ASSUME NEW T, NEW f, NEW c, Consistent(T, f, c),
           NEW p \in Procs, NEW v \in VPages, T[p][v].pa # NULL,
           NEW mem \in f, NEW e \in PTEs, e.pa = mem
    PROVE  Consistent(Put(T, p, v, e),
                      KfreeList(f \ {mem}, AddRef(c, mem), T[p][v].pa),
                      RemoveRef(AddRef(c, mem), T[p][v].pa))
<1> DEFINE pa == T[p][v].pa
           T1 == Put(T, p, v, Unmapped)
           f1 == KfreeList(f, c, pa)
           c1 == RemoveRef(c, pa)
<1>0. T \in Tables /\ f \subseteq Pages /\ c \in [Pages -> Int]
  BY DEF Consistent
<1>1. pa \in Pages /\ Consistent(T1, f1, c1)
  BY DropConsistent
<1>2. pa # mem
  <2>1. <<p, v>> \in RefsIn(T, pa)
    BY DEF RefsIn
  <2> QED
    BY <1>1, <2>1 DEF Consistent, Listed
<1>3. mem \in f1
  BY DEF KfreeList
<1>4. T1[p][v].pa = NULL
  BY <1>0 DEF Put, Tables, Unmapped
<1>5. Consistent(Put(T1, p, v, e), f1 \ {mem}, AddRef(c1, mem))
  <2> HIDE DEF T1, f1, c1
  <2> QED
    BY <1>1, <1>3, <1>4, FillConsistent
<1>6. Put(T1, p, v, e) = Put(T, p, v, e)
  BY <1>0 DEF Put, Tables
<1>7. AddRef(c1, mem) = RemoveRef(AddRef(c, mem), pa)
  BY <1>0, <1>1, <1>2 DEF AddRef, RemoveRef
<1>8. StillShared(AddRef(c, mem), pa) = StillShared(c, pa)
  BY <1>0, <1>1, <1>2 DEF StillShared, AddRef, RemoveRef
<1>9. f1 \ {mem} = KfreeList(f \ {mem}, AddRef(c, mem), pa)
  BY <1>2, <1>8 DEF KfreeList
<1> QED
  BY <1>5, <1>6, <1>7, <1>9

\* uvmcopy's change of the parent's entry: same page, now copy-on-write.
LEMMA MarkConsistent ==
    ASSUME NEW T, NEW f, NEW c, Consistent(T, f, c),
           NEW p \in Procs, NEW v \in VPages, T[p][v].pa # NULL
    PROVE  Consistent(Put(T, p, v, Shared(T[p][v])), f, c)
<1> DEFINE e == Shared(T[p][v])
           U == Put(T, p, v, e)
<1>0. T \in Tables /\ T[p][v] \in PTEs
  BY DEF Consistent, Tables
<1>1. e \in PTEs /\ e.pa = T[p][v].pa /\ e.cow
  BY <1>0 DEF PTEs, Shared
<1>2. U \in Tables
  BY <1>0, <1>1, RefsPut
<1>3. \A q \in Procs, w \in VPages :
         U[q][w].pa = T[q][w].pa /\ (U[q][w].cow \/ U[q][w] = T[q][w])
  BY <1>0, <1>1 DEF Put, Tables
<1> HIDE DEF U, e
<1>4. ASSUME NEW x PROVE RefsIn(U, x) = RefsIn(T, x)
  BY <1>3 DEF RefsIn
<1>5. Alone(U)
  BY <1>3, <1>4 DEF Consistent, Alone
<1>6. Counted(U, c) /\ Listed(U, f)
  BY <1>4 DEF Consistent, Counted, Listed
<1> QED
  BY <1>2, <1>5, <1>6 DEF Consistent, U, e

\* mappages into the child, and refcadd, for a page that some entry already
\* maps copy-on-write.
LEMMA ShareConsistent ==
    ASSUME NEW T, NEW f, NEW c, Consistent(T, f, c),
           NEW p \in Procs, NEW v \in VPages, T[p][v].pa # NULL, T[p][v].cow,
           NEW q \in Procs, NEW w \in VPages, T[q][w].pa = NULL,
           NEW e \in PTEs, e.pa = T[p][v].pa, e.cow
    PROVE  Consistent(Put(T, q, w, e), f, AddRef(c, e.pa))
<1> DEFINE pa == e.pa
           U == Put(T, q, w, e)
           d == AddRef(c, pa)
<1>0. T \in Tables /\ f \subseteq Pages /\ c \in [Pages -> Int]
  BY DEF Consistent
<1>1. pa \in Pages
  BY <1>0 DEF PTEs
<1>2. \A x \in Pages : <<q, w>> \notin RefsIn(T, x)
  BY ProcAssumption DEF RefsIn
<1>3. <<p, v>> \in RefsIn(T, pa)
  BY DEF RefsIn
<1>4. /\ U \in Tables
      /\ RefsIn(U, pa) = RefsIn(T, pa) \cup {<<q, w>>}
      /\ \A x \in Pages : x # pa => RefsIn(U, x) = RefsIn(T, x) \ {<<q, w>>}
  BY <1>0, RefsPut
<1>5. /\ d \in [Pages -> Int]
      /\ d[pa] = c[pa] + 1
      /\ \A x \in Pages : x # pa => d[x] = c[x]
  BY <1>0, <1>1 DEF AddRef
<1>6. \A r \in Procs, y \in VPages :
        U[r][y] = IF <<r, y>> = <<q, w>> THEN e ELSE T[r][y]
  BY <1>0 DEF Put, Tables
<1> HIDE DEF U, d
<1>7. ASSUME NEW x \in Pages, x # pa PROVE RefsIn(U, x) = RefsIn(T, x)
  <2>1. RefsIn(U, x) = RefsIn(T, x) \ {<<q, w>>}
    BY <1>4, <1>7
  <2>2. <<q, w>> \notin RefsIn(T, x)
    BY <1>2
  <2> QED
    BY <2>1, <2>2
<1>8. Cardinality(RefsIn(U, pa)) = Cardinality(RefsIn(T, pa)) + 1
  <2>1. <<q, w>> \notin RefsIn(T, pa)
    BY <1>1, <1>2
  <2>2. IsFiniteSet(RefsIn(T, pa))
    BY RefsFinite
  <2> HIDE DEF pa
  <2> QED
    BY <1>4, <2>1, <2>2, FS_AddElement
<1>9. Counted(U, d)
  BY <1>1, <1>5, <1>7, <1>8 DEF Consistent, Counted
<1>10. Listed(U, f)
  BY <1>1, <1>3, <1>4, <1>7 DEF Consistent, Listed
<1>11. Alone(U)
  <2> SUFFICES ASSUME NEW r \in Procs, NEW y \in VPages,
                      U[r][y].pa # NULL, ~U[r][y].cow
               PROVE  RefsIn(U, U[r][y].pa) = {<<r, y>>}
    BY DEF Alone
  <2>1. U[r][y] = T[r][y]
    BY <1>6
  <2>2. RefsIn(T, T[r][y].pa) = {<<r, y>>} /\ T[r][y].pa \in Pages
    BY <1>0, <2>1 DEF Consistent, Alone, Tables, PTEs
  <2>3. T[r][y].pa # pa
    <3> SUFFICES ASSUME T[r][y].pa = pa PROVE FALSE
      OBVIOUS
    <3>1. <<p, v>> = <<r, y>>
      BY <1>3, <2>2
    <3> QED
      BY <2>1, <3>1
  <2> QED
    BY <1>7, <2>1, <2>2, <2>3
<1> QED
  BY <1>0, <1>4, <1>5, <1>9, <1>10, <1>11 DEF Consistent, U, d

-----------------------------------------------------------------------------
(* Type correctness.                                                       *)

LEMMA UnmappedType == Unmapped \in PTEs /\ Unmapped.pa = NULL
BY DEF Unmapped, PTEs

LEMMA SharedType ==
    ASSUME NEW e \in PTEs
    PROVE  Shared(e) \in PTEs /\ Shared(e).pa = e.pa /\ Shared(e).cow
BY DEF Shared, PTEs

LEMMA RoundType ==
    ASSUME NEW va \in Int
    PROVE  PageOf(va) \in Int /\ PGROUNDDOWN(va) \in Int
BY SizeAssumption DEF PageOf, PGROUNDDOWN

LEMMA WalkType ==
    ASSUME TypeOK, NEW p \in Procs, NEW va \in Int
    PROVE  /\ walk(p, va) \in PTEs
           /\ walk(p, va).pa # NULL =>
                /\ PageOf(va) \in VPages
                /\ walk(p, va) = pte[p][PageOf(va)]
                /\ walk(p, va).pa \in Pages
BY UnmappedType DEF TypeOK, walk, PTEs

\* kfree leaves the allocator's state of the right type.
LEMMA KfreeType ==
    ASSUME TypeOK, NEW pa \in Pages, kfree(pa)
    PROVE  freelist' \subseteq Pages /\ count' \in [Pages -> Int] /\ data' \in [Pages -> Val \cup {Junk}]
BY DEF TypeOK, kfree, KfreeList, KfreeData, RemoveRef

LEMMA PutType ==
    ASSUME TypeOK, NEW p \in Procs, NEW v \in VPages, NEW e \in PTEs
    PROVE  Put(pte, p, v, e) \in [Procs -> [VPages -> PTEs]]
BY RefsPut DEF TypeOK, Tables

LEMMA UnmapPageType ==
    ASSUME TypeOK, NEW p \in Procs, NEW q \in Procs, UnmapPage(p, q)
    PROVE  TypeOK'
<1>1. CASE pte[q][idx[p]].pa = NULL
  BY <1>1 DEF UnmapPage, Panic, TypeOK
<1>2. CASE pte[q][idx[p]].pa # NULL
  <2>1. idx[p] \in VPages /\ idx[p] + 1 \in 0 .. NV
    BY SizeAssumption DEF UnmapPage, TypeOK, VPages
  <2>2. pte[q][idx[p]].pa \in Pages
    BY <1>2, <2>1 DEF TypeOK, PTEs
  <2>3. kfree(pte[q][idx[p]].pa)
    BY <1>2 DEF UnmapPage
  <2>4. pte' \in [Procs -> [VPages -> PTEs]]
    BY <1>2, <2>1, UnmappedType, PutType DEF UnmapPage, Put
  <2>5. idx' \in [Procs -> 0 .. NV]
    BY <1>2, <2>1 DEF UnmapPage, TypeOK
  <2> QED
    BY <1>2, <2>2, <2>3, <2>4, <2>5, KfreeType DEF UnmapPage, TypeOK
<1> QED
  BY <1>1, <1>2

\* cowhandle's copy.
LEMMA CowCopyType ==
    ASSUME TypeOK, NEW p \in Procs, NEW va \in Int, walk(p, va).pa # NULL, CowCopy(p, va)
    PROVE  TypeOK'
<1> DEFINE e == walk(p, va)
           v == PageOf(va)
<1>1. e \in PTEs /\ v \in VPages /\ e = pte[p][v] /\ e.pa \in Pages
  BY WalkType
<1>2. PICK mem \in freelist :
        /\ freelist' = KfreeList(freelist \ {mem}, AddRef(count, mem), e.pa)
        /\ count' = RemoveRef(AddRef(count, mem), e.pa)
        /\ data' = KfreeData([data EXCEPT ![mem] = data[e.pa]], AddRef(count, mem), e.pa)
        /\ pte' = Put(pte, p, v, [e EXCEPT !.pa = mem, !.w = TRUE, !.cow = FALSE])
  BY DEF CowCopy, Put
<1>3. mem \in Pages
  BY DEF TypeOK
<1>4. [e EXCEPT !.pa = mem, !.w = TRUE, !.cow = FALSE] \in PTEs
  BY <1>1, <1>3 DEF PTEs
<1>5. pte' \in [Procs -> [VPages -> PTEs]]
  BY <1>1, <1>2, <1>4, PutType
<1>6. freelist' \subseteq Pages
  BY <1>1, <1>2 DEF TypeOK, KfreeList
<1>7. count' \in [Pages -> Int]
  BY <1>1, <1>2, <1>3 DEF TypeOK, AddRef, RemoveRef
<1>8. data' \in [Pages -> Val \cup {Junk}]
  BY <1>1, <1>2, <1>3 DEF TypeOK, KfreeData
<1> QED
  BY <1>5, <1>6, <1>7, <1>8 DEF CowCopy, TypeOK

LEMMA DieType ==
    ASSUME TypeOK, NEW p \in Procs, Die(p)
    PROVE  TypeOK'
BY ValueAssumption DEF TypeOK, Die, PCs, Reqs, NoReq, Accesses

\* The steps that continue an operation keep every variable in its type.
LEMMA ContinueType ==
    ASSUME TypeOK, Family, NEW p \in Procs, Continue(p)
    PROVE  TypeOK'
<1>1. CASE ExecPage(p)
  <2>1. idx[p] \in VPages /\ idx[p] + 1 \in 0 .. NV
    BY <1>1, SizeAssumption DEF ExecPage, TypeOK, VPages
  <2>2. PICK mem \in freelist :
          kalloc(mem, Image) /\ pte' = Put(pte, p, idx[p], ExecPte(idx[p], mem))
    BY <1>1 DEF ExecPage, Put
  <2>3. mem \in Pages /\ ExecPte(idx[p], mem) \in PTEs
    BY DEF TypeOK, ExecPte, PTEs
  <2>4. pte' \in [Procs -> [VPages -> PTEs]]
    BY <2>1, <2>2, <2>3, PutType
  <2>5. /\ freelist' \subseteq Pages /\ count' \in [Pages -> Int]
        /\ data' \in [Pages -> Val \cup {Junk}]
    BY <2>2, <2>3, ValueAssumption DEF kalloc, AddRef, TypeOK
  <2> QED
    BY <1>1, <2>1, <2>4, <2>5 DEF ExecPage, TypeOK
<1>2. CASE ExecFail(p)
  BY <1>2, SizeAssumption DEF ExecFail, TypeOK, PCs
<1>3. CASE ExecUndoPage(p)
  BY <1>3, UnmapPageType DEF ExecUndoPage
<1>4. CASE ExecUndone(p)
  BY <1>4, SizeAssumption DEF ExecUndone, TypeOK, PCs
<1>5. CASE ExecDone(p)
  BY <1>5, SizeAssumption DEF ExecDone, TypeOK, PCs
<1>6. CASE ForkPage(p)
  <2>1. child[p] \in Procs
    BY <1>6 DEF ForkPage, Family, TypeOK
  <2>2. idx[p] \in VPages /\ idx[p] + 1 \in 0 .. NV
    BY <1>6, SizeAssumption DEF ForkPage, TypeOK, VPages
  <2> DEFINE e == pte[p][idx[p]]
  <2>3. e \in PTEs /\ Shared(e) \in PTEs
    BY <2>2, SharedType DEF TypeOK
  <2>4. CASE e.pa = NULL
    BY <1>6, <2>4 DEF ForkPage, Panic, TypeOK
  <2>5. CASE e.pa # NULL
    <3>1. e.pa \in Pages
      BY <2>3, <2>5 DEF PTEs
    <3>2. pte' = Put(Put(pte, p, idx[p], Shared(e)), child[p], idx[p], Shared(e))
      BY <1>6, <2>5 DEF ForkPage, Put
    <3>3. pte' \in [Procs -> [VPages -> PTEs]]
      BY <2>1, <2>2, <2>3, <3>2, RefsPut DEF TypeOK, Tables
    <3>4. count' \in [Pages -> Int]
      BY <1>6, <2>5, <3>1 DEF ForkPage, TypeOK, AddRef
    <3> QED
      BY <1>6, <2>2, <2>5, <3>3, <3>4 DEF ForkPage, TypeOK
  <2> QED
    BY <2>4, <2>5
<1>7. CASE ForkFail(p)
  <2>1. idx[p] \in VPages
    BY <1>7, SizeAssumption DEF ForkFail, TypeOK, VPages
  <2>2. Shared(pte[p][idx[p]]) \in PTEs
    BY <2>1, SharedType DEF TypeOK
  <2>3. pte' \in [Procs -> [VPages -> PTEs]]
    BY <1>7, <2>1, <2>2, PutType DEF ForkFail, Put
  <2> QED
    BY <1>7, <2>3, SizeAssumption DEF ForkFail, UndoPages, TypeOK, PCs
<1>8. CASE ForkUndoPage(p)
  <2>1. child[p] \in Procs
    BY <1>8 DEF ForkUndoPage, Family, TypeOK
  <2> QED
    BY <1>8, <2>1, UnmapPageType DEF ForkUndoPage
<1>9. CASE ForkUndone(p)
  <2>1. child[p] \in Procs
    BY <1>9 DEF ForkUndone, Family, TypeOK
  <2> QED
    BY <1>9, <2>1, SizeAssumption DEF ForkUndone, TypeOK, PCs
<1>10. CASE ForkDone(p)
  <2>1. child[p] \in Procs
    BY <1>10 DEF ForkDone, Family, TypeOK
  <2> QED
    BY <1>10, <2>1, SizeAssumption DEF ForkDone, TypeOK, PCs
<1>11. CASE Perform(p)
  <2>1. req[p].va \in Int /\ req[p].val \in Val
    BY DEF TypeOK, Reqs
  <2>2. walk(p, req[p].va).pa \in Pages
    BY <1>11, <2>1, WalkType DEF Perform, Permitted
  <2>3. data' \in [Pages -> Val \cup {Junk}]
    BY <1>11, <2>1, <2>2 DEF Perform, TypeOK
  <2>4. NoReq \in Reqs
    BY ValueAssumption DEF NoReq, Reqs, Accesses
  <2> QED
    BY <1>11, <2>3, <2>4 DEF Perform, TypeOK, PCs
<1>12. CASE PageFault(p)
  <2>1. req[p].va \in Int
    BY DEF TypeOK, Reqs
  <2>2. CASE Die(p)
    BY <2>2, DieType
  <2>3. CASE ~CowRefuses(p, req[p].va) /\ CowCopy(p, req[p].va)
    BY <2>1, <2>3, CowCopyType DEF CowRefuses
  <2> QED
    BY <1>12, <2>2, <2>3 DEF PageFault
<1>13. CASE CopyOutEnd(p)
  BY <1>13, ValueAssumption DEF CopyOutEnd, TypeOK, PCs, Reqs, NoReq, Accesses
<1>14. CASE CopyOutSplit(p)
  <2>1. req[p].va \in Int
    BY DEF TypeOK, Reqs
  <2>2. PGROUNDDOWN(req[p].va) \in Int
    BY <2>1, RoundType
  <2>3. walk(p, PGROUNDDOWN(req[p].va)).pa # NULL
    BY <1>14 DEF CopyOutSplit, CopyOutRefuses
  <2> QED
    BY <1>14, <2>2, <2>3, CowCopyType DEF CopyOutSplit
<1>15. CASE CopyOutPage(p)
  <2> DEFINE r == req[p]
             va0 == PGROUNDDOWN(r.va)
             n == CopyOutBytes(p)
  <2>1. r \in Reqs /\ r.va \in Int /\ r.len \in Nat /\ r.val \in Val
    BY DEF TypeOK, Reqs
  <2>2. va0 \in Int
    BY <2>1, RoundType
  <2>3. n \in Int /\ n <= r.len
    BY <2>1, <2>2, SizeAssumption DEF CopyOutBytes, CopyOutRoom
  <2>4. walk(p, va0).pa \in Pages
    BY <1>15, <2>2, WalkType DEF CopyOutPage, CopyOutRefuses
  <2>5. data' \in [Pages -> Val \cup {Junk}]
    BY <1>15, <2>1, <2>4 DEF CopyOutPage, TypeOK
  <2>6. r.len - n \in Nat /\ va0 + PGSIZE \in Int
    BY <2>1, <2>2, <2>3, SizeAssumption
  <2>7. req' = [req EXCEPT ![p].len = r.len - n, ![p].va = va0 + PGSIZE]
    BY <1>15 DEF CopyOutPage
  <2> HIDE DEF n, va0
  <2>8. req' \in [Procs -> Reqs]
    BY ZenonT(60), <2>6, <2>7 DEF TypeOK, Reqs
  <2> QED
    BY <1>15, <2>5, <2>8 DEF CopyOutPage, TypeOK
<1>16. CASE FreePage(p)
  BY <1>16, UnmapPageType DEF FreePage
<1>17. CASE Freed(p)
  BY <1>17, SizeAssumption DEF Freed, TypeOK, PCs
<1> QED
  BY <1>1, <1>2, <1>3, <1>4, <1>5, <1>6, <1>7, <1>8, <1>9, <1>10, <1>11, <1>12,
     <1>13, <1>14, <1>15, <1>16, <1>17 DEF Continue

\* So do the steps that start one.
LEMMA BeginType ==
    ASSUME TypeOK, NEW p \in Procs, Begin(p)
    PROVE  TypeOK'
<1>1. CASE ExecStart(p)
  BY <1>1 DEF ExecStart, TypeOK, PCs
<1>2. CASE \E np \in Procs : ForkStart(p, np)
  BY SMTT(30), <1>2 DEF ForkStart, TypeOK, PCs
<1>3. CASE \E acc \in Accesses, va \in Addrs, x \in Val, sp \in SPs : Access(p, acc, va, x, sp)
  <2>1. PICK acc \in Accesses, va \in Addrs, x \in Val, sp \in SPs : Access(p, acc, va, x, sp)
    BY <1>3
  <2>2. va \in Int /\ sp \in Int
    BY AddressAssumption, SizeAssumption
  <2>3. [acc |-> acc, va |-> va, len |-> 0, val |-> x, sp |-> sp] \in Reqs
    BY <2>2 DEF Reqs
  <2> QED
    BY <2>1, <2>3 DEF Access, TypeOK, PCs
<1>4. CASE \E va \in Addrs, len \in Lens, x \in Val : CopyOut(p, va, len, x)
  <2>1. PICK va \in Addrs, len \in Lens, x \in Val : CopyOut(p, va, len, x)
    BY <1>4
  <2>2. va \in Int /\ len \in Nat
    BY AddressAssumption, SizeAssumption, LengthAssumption
  <2>3. [acc |-> "store", va |-> va, len |-> len, val |-> x, sp |-> 0] \in Reqs
    BY <2>2 DEF Reqs, Accesses
  <2> QED
    BY <2>1, <2>3 DEF CopyOut, TypeOK, PCs
<1>5. CASE Grow(p)
  <2>1. sz[p] \in VPages /\ sz[p] + 1 \in 0 .. NV
    BY <1>5, SizeAssumption DEF Grow, TypeOK, VPages
  <2>2. PICK mem \in freelist :
          /\ kalloc(mem, Zero)
          /\ pte' = Put(pte, p, sz[p], [pa |-> mem, w |-> TRUE, u |-> TRUE, cow |-> FALSE])
    BY <1>5 DEF Grow, Put
  <2>3. mem \in Pages /\ [pa |-> mem, w |-> TRUE, u |-> TRUE, cow |-> FALSE] \in PTEs
    BY DEF TypeOK, PTEs
  <2>4. pte' \in [Procs -> [VPages -> PTEs]]
    BY <2>1, <2>2, <2>3, PutType
  <2>5. /\ freelist' \subseteq Pages /\ count' \in [Pages -> Int]
        /\ data' \in [Pages -> Val \cup {Junk}]
    BY <2>2, <2>3, ValueAssumption DEF kalloc, AddRef, TypeOK
  <2> QED
    BY <1>5, <2>1, <2>4, <2>5 DEF Grow, TypeOK
<1>6. CASE Shrink(p)
  <2>1. sz[p] - 1 \in VPages /\ sz[p] - 1 \in 0 .. NV
    BY <1>6, SizeAssumption DEF Shrink, TypeOK, VPages
  <2>2. CASE pte[p][sz[p] - 1].pa = NULL
    BY <1>6, <2>2 DEF Shrink, Panic, TypeOK
  <2>3. CASE pte[p][sz[p] - 1].pa # NULL
    <3>1. pte[p][sz[p] - 1].pa \in Pages
      BY <2>1, <2>3 DEF TypeOK, PTEs
    <3>2. kfree(pte[p][sz[p] - 1].pa)
      BY <1>6, <2>3 DEF Shrink
    <3>3. pte' \in [Procs -> [VPages -> PTEs]]
      BY <1>6, <2>1, <2>3, UnmappedType, PutType DEF Shrink, Put
    <3>4. sz' \in [Procs -> 0 .. NV]
      BY <1>6, <2>1, <2>3 DEF Shrink, TypeOK
    <3> QED
      BY <1>6, <2>3, <3>1, <3>2, <3>3, <3>4, KfreeType DEF Shrink, TypeOK
  <2> QED
    BY <2>2, <2>3
<1>7. CASE Exit(p)
  BY <1>7, DieType DEF Exit
<1>8. CASE Reap(p)
  BY <1>8 DEF Reap, TypeOK, PCs
<1> QED
  BY <1>1, <1>2, <1>3, <1>4, <1>5, <1>6, <1>7, <1>8 DEF Begin

-----------------------------------------------------------------------------
(* The control structure: forks have children of their own, loops start at *)
(* 0.                                                                      *)

LEMMA ControlStep ==
    ASSUME TypeOK, Family, Loops, NEW p \in Procs, Continue(p) \/ Begin(p)
    PROVE  Family' /\ Loops'
<1> USE ProcAssumption
<1>1. CASE ExecPage(p)
  BY <1>1 DEF ExecPage, Family, Loops, TypeOK
<1>2. CASE ExecFail(p)
  BY SMTT(30), <1>2 DEF ExecFail, Family, Loops, TypeOK
<1>3. ASSUME NEW q, UnmapPage(p, q), pc[p] \in {"execundo", "forkundo", "free"}
      PROVE  Family' /\ Loops'
  BY <1>3 DEF UnmapPage, Panic, Family, Loops, TypeOK
<1>4. CASE ExecUndone(p)
  BY <1>4 DEF ExecUndone, Family, Loops, TypeOK
<1>5. CASE ExecDone(p)
  BY <1>5 DEF ExecDone, Family, Loops, TypeOK
<1>6. CASE ForkPage(p)
  BY <1>6 DEF ForkPage, Panic, Family, Loops, TypeOK
<1>7. CASE ForkFail(p)
  BY <1>7 DEF ForkFail, Family, Loops, TypeOK
<1>9. CASE ForkUndone(p)
  BY <1>9 DEF ForkUndone, Family, Loops, TypeOK
<1>10. CASE ForkDone(p)
  BY SMTT(30), <1>10 DEF ForkDone, Family, Loops, TypeOK
<1>11. CASE Perform(p)
  BY <1>11 DEF Perform, Family, Loops, TypeOK
<1>12. CASE pc[p] \in {"access", "user"} /\ Die(p)
  BY <1>12 DEF Die, Family, Loops, TypeOK
<1>13. CASE \E va : CowCopy(p, va)
  BY <1>13 DEF CowCopy, Family, Loops
<1>14. CASE CopyOutEnd(p)
  BY <1>14 DEF CopyOutEnd, Family, Loops, TypeOK
<1>15. CASE CopyOutPage(p)
  BY <1>15 DEF CopyOutPage, Family, Loops, TypeOK
<1>16. CASE Freed(p)
  BY SMTT(30), <1>16 DEF Freed, Family, Loops, TypeOK
<1>17. CASE ExecStart(p)
  BY <1>17 DEF ExecStart, Family, Loops, TypeOK
<1>18. CASE \E np \in Procs : ForkStart(p, np)
  BY <1>18 DEF ForkStart, Family, Loops, TypeOK
<1>19. CASE \E acc, va, x, sp : Access(p, acc, va, x, sp)
  BY <1>19 DEF Access, Family, Loops, TypeOK
<1>20. CASE \E va, len, x : CopyOut(p, va, len, x)
  BY <1>20 DEF CopyOut, Family, Loops, TypeOK
<1>21. CASE Grow(p)
  BY <1>21 DEF Grow, Family, Loops, TypeOK
<1>22. CASE Shrink(p)
  BY <1>22 DEF Shrink, Panic, Family, Loops, TypeOK
<1>23. CASE Reap(p)
  BY <1>23 DEF Reap, Family, Loops, TypeOK
<1> QED
  BY <1>1, <1>2, <1>3, <1>4, <1>5, <1>6, <1>7, <1>9, <1>10, <1>11, <1>12, <1>13, <1>14,
     <1>15, <1>16, <1>17, <1>18, <1>19, <1>20, <1>21, <1>22, <1>23
  DEF Continue, Begin, ExecUndoPage, ForkUndoPage, FreePage, PageFault, CopyOutSplit, Exit

-----------------------------------------------------------------------------
(* The inductive invariant.                                                *)

Memory == Consistent(pte, freelist, count)

Inv == TypeOK /\ Family /\ Loops /\ TableShape /\ Memory /\ ~panicked

LEMMA UnmapStep ==
    ASSUME Inv, NEW p \in Procs, NEW q \in Procs, UnmapPage(p, q),
           idx[p] <= lim[p], Mapped(q, idx[p], lim[p])
    PROVE  /\ Memory'
           /\ ~panicked'
           /\ Mapped(q, idx[p], lim[p])'
           /\ (idx[p] <= lim[p])'
           /\ pte' = Put(pte, q, idx[p], Unmapped)
<1>1. idx[p] \in VPages /\ idx[p] < lim[p] /\ idx[p] \in Nat /\ lim[p] \in Nat
  BY SizeAssumption DEF UnmapPage, Inv, TypeOK, VPages
<1>2. pte[q][idx[p]].pa # NULL
  BY <1>1 DEF Mapped
<1>3. /\ pte' = Put(pte, q, idx[p], Unmapped)
      /\ kfree(pte[q][idx[p]].pa)
      /\ idx' = [idx EXCEPT ![p] = @ + 1]
      /\ UNCHANGED <<lim, panicked>>
  BY <1>2 DEF UnmapPage, Put
<1>4. Memory'
  BY <1>1, <1>2, <1>3, DropConsistent DEF Inv, Memory, kfree
<1>5. idx'[p] = idx[p] + 1 /\ lim'[p] = lim[p]
  BY <1>3 DEF Inv, TypeOK
<1>6. \A w \in VPages : pte'[q][w].pa # NULL <=> w # idx[p] /\ pte[q][w].pa # NULL
  BY <1>1, <1>3, UnmappedType DEF Put, Inv, TypeOK
<1>7. Mapped(q, idx[p], lim[p])'
  BY <1>1, <1>5, <1>6 DEF Mapped, VPages
<1> QED
  BY <1>1, <1>3, <1>4, <1>5, <1>7 DEF Inv

\* A step in which a process only goes from one state with all its memory
\* to another one.
LEMMA StatusStep ==
    ASSUME Inv, NEW p \in Procs, NEW s \in {"user", "access", "copyout", "zombie"},
           pc[p] \in {"user", "access", "copyout"},
           pc' = [pc EXCEPT ![p] = s],
           UNCHANGED <<freelist, count, pte, sz, idx, lim, child, panicked>>
    PROVE  TableShape' /\ Memory' /\ ~panicked'
<1>1. pc'[p] = s /\ \A q \in Procs : q # p => pc'[q] = pc[q]
  BY DEF Inv, TypeOK
<1>2. ShapeOf(p)'
  <2>1. Mapped(p, 0, sz[p])
    BY DEF Inv, TableShape, ShapeOf, Running
  <2> QED
    BY <1>1, <2>1 DEF ShapeOf, Mapped, Running
<1>3. ASSUME NEW q \in Procs, q # p PROVE ShapeOf(q)'
  <2>1. ShapeOf(q)
    BY DEF Inv, TableShape
  <2> QED
    BY <1>1, <1>3, <2>1 DEF ShapeOf, Mapped, Running
<1> QED
  BY <1>2, <1>3 DEF Inv, Memory, TableShape

\* Steps that change no page table.
LEMMA QuietStep ==
    ASSUME Inv, NEW p \in Procs,
           \/ ExecFail(p) \/ ExecUndone(p) \/ ExecDone(p)
           \/ ForkUndone(p) \/ ForkDone(p)
           \/ Perform(p) \/ CopyOutEnd(p) \/ CopyOutPage(p) \/ Freed(p)
           \/ ExecStart(p) \/ (\E np \in Procs : ForkStart(p, np))
           \/ (\E acc, va, x, sp : Access(p, acc, va, x, sp))
           \/ (\E va, len, x : CopyOut(p, va, len, x))
           \/ (pc[p] \in {"access", "user"} /\ Die(p)) \/ Reap(p)
    PROVE  TableShape' /\ Memory' /\ ~panicked'
<1>1. CASE ExecFail(p)
  BY SMTT(30), <1>1, SizeAssumption DEF ExecFail, Inv, Memory, TableShape, ShapeOf, Mapped, Running, TypeOK, Family, VPages
<1>2. CASE ExecUndone(p)
  BY <1>2, SizeAssumption DEF ExecUndone, Inv, Memory, TableShape, ShapeOf, Mapped, Running, TypeOK, Family, VPages
<1>3. CASE ExecDone(p)
  BY <1>3, SizeAssumption DEF ExecDone, Inv, Memory, TableShape, ShapeOf, Mapped, Running, TypeOK, Family, VPages
<1>4. CASE ForkUndone(p)
  BY SMTT(30), <1>4, SizeAssumption DEF ForkUndone, Inv, Memory, TableShape, ShapeOf, Mapped, Running, TypeOK, Family, VPages
<1>5. CASE ForkDone(p)
  BY SMTT(30), <1>5, SizeAssumption DEF ForkDone, Inv, Memory, TableShape, ShapeOf, Mapped, Running, TypeOK, Family, VPages
<1>6. CASE Perform(p)
  BY <1>6, StatusStep DEF Perform
<1>7. CASE CopyOutEnd(p)
  BY <1>7, StatusStep DEF CopyOutEnd
<1>8. CASE CopyOutPage(p)
  <2>1. UNCHANGED <<freelist, count, pte, sz, pc, idx, lim, child, panicked>>
    BY <1>8 DEF CopyOutPage
  <2> QED
    BY <2>1 DEF Inv, Memory, TableShape, ShapeOf, Mapped, Running
<1>9. CASE Freed(p)
  BY <1>9, SizeAssumption DEF Freed, Inv, Memory, TableShape, ShapeOf, Mapped, Running, TypeOK, Family, VPages
<1>10. CASE ExecStart(p)
  BY <1>10, SizeAssumption DEF ExecStart, Inv, Memory, TableShape, ShapeOf, Mapped, Running, TypeOK, Family, Loops, VPages
<1>11. CASE \E np \in Procs : ForkStart(p, np)
  <2>1. PICK np \in Procs : ForkStart(p, np)
    BY <1>11
  <2>2. /\ pc' = [pc EXCEPT ![p] = "fork", ![np] = "embryo"] /\ p # np
        /\ child' = [child EXCEPT ![p] = np]
        /\ pc[p] = "user" /\ pc[np] = "unused"
        /\ UNCHANGED <<freelist, count, pte, sz, idx, lim, panicked>>
    BY <2>1 DEF ForkStart
  <2>3. ShapeOf(p)' /\ ShapeOf(np)'
    BY <2>2 DEF Inv, TableShape, ShapeOf, Mapped, Running, TypeOK, Loops
  <2>4. ASSUME NEW q \in Procs, q # p, q # np PROVE ShapeOf(q)'
    BY <2>2, <2>4 DEF Inv, TableShape, ShapeOf, Mapped, Running, TypeOK
  <2> QED
    BY <2>2, <2>3, <2>4 DEF Inv, Memory, TableShape
<1>12. CASE \E acc, va, x, sp : Access(p, acc, va, x, sp)
  BY <1>12, StatusStep DEF Access
<1>13. CASE \E va, len, x : CopyOut(p, va, len, x)
  BY <1>13, StatusStep DEF CopyOut
<1>14. CASE pc[p] \in {"access", "user"} /\ Die(p)
  BY <1>14, StatusStep DEF Die
<1>15. CASE Reap(p)
  BY <1>15, SizeAssumption DEF Reap, Inv, Memory, TableShape, ShapeOf, Mapped, Running, TypeOK, Family, Loops, VPages
<1> QED
  BY <1>1, <1>2, <1>3, <1>4, <1>5, <1>6, <1>7, <1>8, <1>9, <1>10, <1>11, <1>12, <1>13,
     <1>14, <1>15

LEMMA ExecPageStep ==
    ASSUME Inv, NEW p \in Procs, ExecPage(p)
    PROVE  TableShape' /\ Memory' /\ ~panicked'
<1>1. idx[p] \in VPages /\ idx[p] \in Nat /\ idx[p] < NI
  BY SizeAssumption DEF ExecPage, Inv, TypeOK, VPages
<1>2. PICK mem \in freelist :
        kalloc(mem, Image) /\ pte' = Put(pte, p, idx[p], ExecPte(idx[p], mem))
  BY DEF ExecPage, Put
<1>3. mem \in Pages /\ ExecPte(idx[p], mem) \in PTEs /\ ExecPte(idx[p], mem).pa = mem
  BY DEF Inv, TypeOK, ExecPte, PTEs
<1>4. Mapped(p, 0, idx[p])
  BY DEF ExecPage, Inv, TableShape, ShapeOf
<1>5. Memory'
  <2>1. pte[p][idx[p]].pa = NULL
    BY <1>1, <1>4 DEF Mapped
  <2> QED
    BY <1>1, <1>2, <1>3, <2>1, FillConsistent DEF Inv, Memory, kalloc
<1>6. \A q \in Procs, w \in VPages :
        pte'[q][w].pa # NULL <=> pte[q][w].pa # NULL \/ <<q, w>> = <<p, idx[p]>>
  BY <1>1, <1>2, <1>3, ProcAssumption DEF Put, Inv, TypeOK
<1>7. /\ pc[p] = "exec" /\ idx' = [idx EXCEPT ![p] = @ + 1]
      /\ UNCHANGED <<sz, pc, lim, child, panicked>>
  BY DEF ExecPage
<1>8. Mapped(p, 0, idx[p])' /\ idx'[p] <= NI
  <2>1. idx'[p] = idx[p] + 1
    BY <1>7 DEF Inv, TypeOK
  <2>2. VPages \subseteq Int
    BY DEF VPages
  <2>3. \A w \in VPages : pte'[p][w].pa # NULL <=> pte[p][w].pa # NULL \/ w = idx[p]
    BY <1>6
  <2>4. ASSUME NEW w \in VPages PROVE pte'[p][w].pa # NULL <=> 0 <= w /\ w < idx[p] + 1
    <3>1. w \in Int /\ (w < idx[p] + 1 <=> w < idx[p] \/ w = idx[p])
      BY <1>1, <2>2
    <3>2. pte[p][w].pa # NULL <=> 0 <= w /\ w < idx[p]
      BY <1>4 DEF Mapped
    <3> QED
      BY <1>1, <2>3, <3>1, <3>2
  <2> QED
    BY <1>1, <2>1, <2>4, SizeAssumption DEF Mapped
<1>9. \A q \in Procs : pc[q] \in {"fork", "forkundo"} => child[q] \in Procs /\ child[q] # p
  BY <1>7 DEF Inv, Family, TypeOK
<1>10. \A q \in Procs : q # p => pte'[q] = pte[q] /\ idx'[q] = idx[q]
  BY <1>1, <1>2, <1>7 DEF Put, Inv, TypeOK
<1>11. TableShape'
  <2>1. ASSUME NEW q \in Procs, q # p
        PROVE  ShapeOf(q)'
    BY <1>7, <1>9, <1>10, <2>1 DEF Inv, TableShape, ShapeOf, Mapped, Running
  <2> QED
    BY <1>7, <1>8, <2>1 DEF TableShape, ShapeOf, Running
<1> QED
  BY <1>5, <1>7, <1>11 DEF Inv

LEMMA UnmapShape ==
    ASSUME Inv, NEW p \in Procs,
           ExecUndoPage(p) \/ ForkUndoPage(p) \/ FreePage(p)
    PROVE  TableShape' /\ Memory' /\ ~panicked'
<1>1. PICK q \in Procs :
        /\ pc[p] \in {"execundo", "forkundo", "free"}
        /\ q = IF pc[p] = "forkundo" THEN child[p] ELSE p
        /\ UnmapPage(p, q)
  BY DEF ExecUndoPage, ForkUndoPage, FreePage, Inv, Family, TypeOK
<1>2. idx[p] <= lim[p] /\ Mapped(q, idx[p], lim[p])
  BY <1>1 DEF Inv, TableShape, ShapeOf
<1>3. /\ Memory' /\ ~panicked'
      /\ Mapped(q, idx[p], lim[p])' /\ (idx[p] <= lim[p])'
      /\ pte' = Put(pte, q, idx[p], Unmapped)
  BY <1>1, <1>2, UnmapStep
<1>4. \A r \in Procs : r # q => pte'[r] = pte[r]
  BY <1>1, <1>3 DEF Put, Inv, TypeOK
<1>5. \A r \in Procs : r # p => idx'[r] = idx[r]
  BY <1>1 DEF UnmapPage, Panic, Inv, TypeOK
<1>6. UNCHANGED <<sz, pc, lim, child>>
  BY <1>1 DEF UnmapPage, Panic
<1>7. \A r \in Procs : pc[r] \in {"fork", "forkundo"} => child[r] \in Procs
  BY DEF Inv, Family, TypeOK
<1>8. \A r \in Procs : r # p /\ pc[r] \in {"fork", "forkundo"} => child[r] # q
  BY <1>1 DEF Inv, Family, TypeOK
<1>9. q # p => pc[q] = "embryo" /\ q = child[p]
  BY <1>1 DEF Inv, Family
<1>10. ASSUME NEW r \in Procs
       PROVE  ShapeOf(r)'
  <2>1. CASE r = p /\ q = p
    BY <1>1, <1>3, <1>6, <2>1 DEF ShapeOf, Running, Inv, Family
  <2>2. CASE r = p /\ q # p
    BY <1>1, <1>3, <1>4, <1>6, <1>9, <2>2 DEF Running, Inv, TableShape, ShapeOf, Mapped
  <2>3. CASE r # p /\ r = q
    BY <1>6, <1>9, <2>3 DEF ShapeOf, Running
  <2>4. CASE r # p /\ r # q
    BY <1>4, <1>5, <1>6, <1>7, <1>8, <2>4 DEF Running, Inv, TableShape, ShapeOf, Mapped
  <2> QED
    BY <2>1, <2>2, <2>3, <2>4
<1>11. TableShape'
  BY <1>10 DEF TableShape
<1> QED
  BY <1>3, <1>11

\* A step of p that leaves every valid entry valid and every other invalid.
LEMMA SameValidity ==
    ASSUME Inv, UNCHANGED <<sz, pc, idx, lim, child>>,
           \A q \in Procs, w \in VPages : pte'[q][w].pa # NULL <=> pte[q][w].pa # NULL
    PROVE  TableShape'
<1>1. ASSUME NEW q \in Procs, NEW lo, NEW hi
      PROVE  (\A w \in VPages : pte'[q][w].pa # NULL <=> lo <= w /\ w < hi)
               <=> Mapped(q, lo, hi)
  BY DEF Mapped
<1>2. \A q \in Procs : pc[q] \in {"fork", "forkundo"} => child[q] \in Procs
  BY DEF Inv, Family, TypeOK
<1>3. ASSUME NEW q \in Procs PROVE ShapeOf(q)'
  BY <1>1, <1>2 DEF Inv, TableShape, ShapeOf, Mapped, Running
<1> QED
  BY <1>3 DEF TableShape

LEMMA CowCopyStep ==
    ASSUME Inv, NEW p \in Procs, NEW va \in Int, walk(p, va).pa # NULL, CowCopy(p, va)
    PROVE  TableShape' /\ Memory' /\ ~panicked'
<1> DEFINE e == walk(p, va)
           v == PageOf(va)
<1>1. e \in PTEs /\ v \in VPages /\ e = pte[p][v] /\ e.pa \in Pages
  BY WalkType DEF Inv
<1>2. PICK mem \in freelist :
        /\ freelist' = KfreeList(freelist \ {mem}, AddRef(count, mem), e.pa)
        /\ count' = RemoveRef(AddRef(count, mem), e.pa)
        /\ pte' = Put(pte, p, v, [e EXCEPT !.pa = mem, !.w = TRUE, !.cow = FALSE])
  BY DEF CowCopy, Put
<1> DEFINE new == [e EXCEPT !.pa = mem, !.w = TRUE, !.cow = FALSE]
<1>3. mem \in Pages /\ new \in PTEs /\ new.pa = mem
  BY <1>1 DEF Inv, TypeOK, PTEs
<1> HIDE DEF new, e, v
<1>4. Memory'
  BY <1>1, <1>2, <1>3, CowConsistent DEF Inv, Memory, new, e
<1>5. \A q \in Procs, w \in VPages : pte'[q][w].pa # NULL <=> pte[q][w].pa # NULL
  BY <1>1, <1>2, <1>3, ProcAssumption DEF Put, Inv, TypeOK, new, e
<1>6. UNCHANGED <<sz, pc, idx, lim, child, panicked>>
  BY DEF CowCopy
<1> QED
  BY <1>4, <1>5, <1>6, SameValidity DEF Inv

LEMMA ForkFailStep ==
    ASSUME Inv, NEW p \in Procs, ForkFail(p)
    PROVE  TableShape' /\ Memory' /\ ~panicked'
<1>1. idx[p] \in VPages /\ idx[p] \in 0 .. NV /\ pte[p][idx[p]].pa # NULL
  BY SizeAssumption DEF ForkFail, Inv, TypeOK, VPages
<1>2. pte' = Put(pte, p, idx[p], Shared(pte[p][idx[p]]))
  BY DEF ForkFail, Put
<1>3. pte[p][idx[p]] \in PTEs
  BY <1>1 DEF Inv, TypeOK
<1>4. Memory'
  <2>1. Consistent(pte', freelist, count)
    BY <1>1, <1>2, MarkConsistent DEF Inv, Memory
  <2>2. UNCHANGED <<freelist, count>>
    BY DEF ForkFail
  <2> QED
    BY <2>1, <2>2 DEF Memory
<1>5. \A q \in Procs, w \in VPages : pte'[q][w].pa # NULL <=> pte[q][w].pa # NULL
  BY <1>1, <1>2, <1>3, SharedType DEF Put, Inv, TypeOK
<1>6. /\ pc[p] = "fork"
      /\ pc' = [pc EXCEPT ![p] = "forkundo"]
      /\ lim' = [lim EXCEPT ![p] = idx[p]]
      /\ idx' = [idx EXCEPT ![p] = 0]
      /\ UNCHANGED <<sz, child, panicked>>
  BY DEF ForkFail, UndoPages
<1>7. child[p] \in Procs /\ \A q \in Procs : pc[q] \in {"fork", "forkundo"} => child[q] \in Procs
  BY <1>6 DEF Inv, Family, TypeOK
<1>8. ShapeOf(p)'
  BY <1>1, <1>5, <1>6, <1>7 DEF Inv, TypeOK, TableShape, ShapeOf, Mapped, Running
<1>9. ASSUME NEW q \in Procs, q # p PROVE ShapeOf(q)'
  BY <1>5, <1>6, <1>7, <1>9 DEF Inv, TypeOK, TableShape, ShapeOf, Mapped, Running
<1> QED
  BY <1>4, <1>6, <1>8, <1>9 DEF Inv, TableShape

LEMMA ForkPageStep ==
    ASSUME Inv, NEW p \in Procs, ForkPage(p)
    PROVE  TableShape' /\ Memory' /\ ~panicked'
<1> DEFINE i == idx[p]
           c == child[p]
           e == Shared(pte[p][idx[p]])
           T == Put(pte, p, i, e)
<1>1. i \in VPages /\ i \in Nat /\ i < sz[p] /\ sz[p] \in Nat /\ pc[p] = "fork"
  BY SizeAssumption DEF ForkPage, Inv, TypeOK, VPages
<1>2. c \in Procs /\ c # p
  BY <1>1 DEF Inv, Family, TypeOK
<1>3. Mapped(p, 0, sz[p]) /\ Mapped(c, 0, i)
  BY <1>1 DEF Inv, TableShape, ShapeOf, Running
<1>4. pte[p][i].pa # NULL /\ pte[c][i].pa = NULL
  BY <1>1, <1>3 DEF Mapped
<1>5. pte[p][i] \in PTEs
  BY <1>1 DEF Inv, TypeOK
<1>6. e \in PTEs /\ e.pa = pte[p][i].pa /\ e.cow
  BY <1>5, SharedType
<1>7. /\ pte' = Put(T, c, i, e)
      /\ count' = AddRef(count, e.pa)
      /\ idx' = [idx EXCEPT ![p] = i + 1]
      /\ UNCHANGED <<freelist, sz, pc, lim, child, panicked>>
  BY <1>4, <1>6 DEF ForkPage, Put
<1>8. Consistent(T, freelist, count)
  BY <1>1, <1>4, MarkConsistent DEF Inv, Memory
<1>9. T[p][i] = e /\ T[c][i] = pte[c][i]
  BY <1>1, <1>2 DEF Put, Inv, TypeOK
<1>10. e.pa # NULL
  BY <1>4, <1>6
<1>11. Memory'
  <2> HIDE DEF T, e, c, i
  <2> QED
    BY <1>1, <1>2, <1>4, <1>6, <1>7, <1>8, <1>9, <1>10, ShareConsistent DEF Memory
<1>12. \A q \in Procs, w \in VPages :
         pte'[q][w].pa # NULL <=> pte[q][w].pa # NULL \/ (q = c /\ w = i)
  BY <1>1, <1>2, <1>4, <1>6, <1>7 DEF Put, Inv, TypeOK
<1>13. \A q \in Procs : q # p /\ pc[q] \in {"fork", "forkundo"} => child[q] \in Procs /\ child[q] # c
  BY <1>2 DEF Inv, Family, TypeOK
<1>14. pc[c] = "embryo"
  BY <1>1, <1>2 DEF Inv, Family, TypeOK
<1>15. VPages \subseteq Int
  BY DEF VPages
<1>16. ASSUME NEW w \in VPages PROVE pte'[c][w].pa # NULL <=> 0 <= w /\ w < i + 1
  <2>1. w \in Int /\ (w < i + 1 <=> w < i \/ w = i)
    BY <1>1, <1>15
  <2>2. pte[c][w].pa # NULL <=> 0 <= w /\ w < i
    BY <1>3 DEF Mapped
  <2> QED
    BY <1>1, <1>2, <1>12, <2>1, <2>2
<1>17. idx'[p] = i + 1 /\ i + 1 <= sz[p]
  BY <1>1, <1>7 DEF Inv, TypeOK
<1>18. ShapeOf(p)'
  <2>1. Mapped(child[p], 0, idx[p])'
    BY <1>7, <1>16, <1>17 DEF Mapped
  <2>2. Mapped(p, 0, sz[p])'
    BY <1>2, <1>3, <1>7, <1>12 DEF Mapped
  <2> QED
    BY <1>1, <1>7, <1>17, <2>1, <2>2 DEF ShapeOf, Running
<1>19. ASSUME NEW q \in Procs, q # p, q # c PROVE ShapeOf(q)'
  BY ZenonT(60), <1>7, <1>12, <1>13, <1>19 DEF Inv, TypeOK, TableShape, ShapeOf, Mapped, Running
<1>20. ShapeOf(child[p])'
  BY <1>7, <1>14 DEF ShapeOf, Running
<1> QED
  BY <1>7, <1>11, <1>18, <1>19, <1>20 DEF Inv, TableShape

LEMMA GrowStep ==
    ASSUME Inv, NEW p \in Procs, Grow(p)
    PROVE  TableShape' /\ Memory' /\ ~panicked'
<1> DEFINE i == sz[p]
<1>1. i \in VPages /\ i \in Nat /\ pc[p] = "user"
  BY SizeAssumption DEF Grow, Inv, TypeOK, VPages
<1>2. PICK mem \in freelist, e \in PTEs :
        kalloc(mem, Zero) /\ e.pa = mem /\ pte' = Put(pte, p, i, e)
  <2>1. PICK mem \in freelist :
          /\ kalloc(mem, Zero)
          /\ pte' = Put(pte, p, i, [pa |-> mem, w |-> TRUE, u |-> TRUE, cow |-> FALSE])
    BY DEF Grow, Put
  <2>2. [pa |-> mem, w |-> TRUE, u |-> TRUE, cow |-> FALSE] \in PTEs
    BY DEF Inv, TypeOK, PTEs
  <2> QED
    BY <2>1, <2>2
<1>3. mem \in Pages
  BY DEF Inv, TypeOK
<1>4. Mapped(p, 0, i)
  BY <1>1 DEF Inv, TableShape, ShapeOf, Running
<1>5. pte[p][i].pa = NULL
  BY <1>1, <1>4 DEF Mapped
<1>6. Memory'
  BY <1>1, <1>2, <1>5, FillConsistent DEF Inv, Memory, kalloc
<1>7. /\ sz' = [sz EXCEPT ![p] = i + 1]
      /\ UNCHANGED <<pc, idx, lim, child, panicked>>
  BY DEF Grow
<1>8. \A w \in VPages : pte'[p][w].pa # NULL <=> pte[p][w].pa # NULL \/ w = i
  BY <1>1, <1>2, <1>3, ProcAssumption DEF Put, Inv, TypeOK
<1>9. VPages \subseteq Int
  BY DEF VPages
<1>10. ASSUME NEW w \in VPages PROVE pte'[p][w].pa # NULL <=> 0 <= w /\ w < i + 1
  <2>1. w \in Int /\ (w < i + 1 <=> w < i \/ w = i)
    BY <1>1, <1>9
  <2>2. pte[p][w].pa # NULL <=> 0 <= w /\ w < i
    BY <1>4 DEF Mapped
  <2> QED
    BY <1>1, <1>8, <2>1, <2>2
<1>11. sz'[p] = i + 1
  BY <1>7 DEF Inv, TypeOK
<1>12. ShapeOf(p)'
  BY <1>1, <1>7, <1>10, <1>11 DEF ShapeOf, Mapped, Running
<1>13. \A q \in Procs : q # p => pte'[q] = pte[q] /\ sz'[q] = sz[q]
  BY <1>1, <1>2, <1>7 DEF Put, Inv, TypeOK
<1>14. \A q \in Procs : pc[q] \in {"fork", "forkundo"} => child[q] \in Procs /\ child[q] # p
  BY <1>1 DEF Inv, Family, TypeOK
<1>15. ASSUME NEW q \in Procs, q # p PROVE ShapeOf(q)'
  BY <1>7, <1>13, <1>14, <1>15 DEF Inv, TableShape, ShapeOf, Mapped, Running
<1> QED
  BY <1>6, <1>7, <1>12, <1>15 DEF Inv, TableShape

LEMMA ShrinkStep ==
    ASSUME Inv, NEW p \in Procs, Shrink(p)
    PROVE  TableShape' /\ Memory' /\ ~panicked'
<1> DEFINE i == sz[p] - 1
<1>1. i \in VPages /\ i \in Nat /\ sz[p] = i + 1 /\ pc[p] = "user"
  BY SizeAssumption DEF Shrink, Inv, TypeOK, VPages
<1>2. Mapped(p, 0, sz[p])
  BY <1>1 DEF Inv, TableShape, ShapeOf, Running
<1>3. pte[p][i].pa # NULL
  BY <1>1, <1>2 DEF Mapped
<1>4. /\ kfree(pte[p][i].pa)
      /\ pte' = Put(pte, p, i, Unmapped)
      /\ sz' = [sz EXCEPT ![p] = i]
      /\ UNCHANGED <<pc, idx, lim, child, panicked>>
  BY <1>3 DEF Shrink, Put
<1> HIDE DEF i
<1>5. Memory'
  BY <1>1, <1>3, <1>4, DropConsistent DEF Inv, Memory, kfree
<1>6. \A w \in VPages : pte'[p][w].pa # NULL <=> pte[p][w].pa # NULL /\ w # i
  BY <1>1, <1>4, UnmappedType DEF Put, Inv, TypeOK
<1>7. VPages \subseteq Int
  BY DEF VPages
<1>8. ASSUME NEW w \in VPages PROVE pte'[p][w].pa # NULL <=> 0 <= w /\ w < i
  <2>1. w \in Int /\ (w < sz[p] <=> w < i \/ w = i)
    BY <1>1, <1>7
  <2>2. pte[p][w].pa # NULL <=> 0 <= w /\ w < sz[p]
    BY <1>2 DEF Mapped
  <2> QED
    BY <1>1, <1>6, <2>1, <2>2
<1>9. sz'[p] = i
  BY <1>4 DEF Inv, TypeOK
<1>10. ShapeOf(p)'
  BY <1>1, <1>4, <1>8, <1>9 DEF ShapeOf, Mapped, Running
<1>11. \A q \in Procs : q # p => pte'[q] = pte[q] /\ sz'[q] = sz[q]
  BY <1>1, <1>4 DEF Put, Inv, TypeOK
<1>12. \A q \in Procs : pc[q] \in {"fork", "forkundo"} => child[q] \in Procs /\ child[q] # p
  BY <1>1 DEF Inv, Family, TypeOK
<1>13. ASSUME NEW q \in Procs, q # p PROVE ShapeOf(q)'
  BY <1>4, <1>11, <1>12, <1>13 DEF Inv, TableShape, ShapeOf, Mapped, Running
<1> QED
  BY <1>4, <1>5, <1>10, <1>13 DEF Inv, TableShape

-----------------------------------------------------------------------------
(* The theorems.                                                           *)

LEMMA InitInv == Init => Inv
<1> SUFFICES ASSUME Init PROVE Inv
  OBVIOUS
<1>1. TypeOK
  <2>1. NoReq \in Reqs
    BY ValueAssumption DEF Reqs, NoReq, Accesses
  <2>2. pte \in [Procs -> [VPages -> PTEs]]
    BY UnmappedType DEF Init
  <2>3. /\ sz \in [Procs -> 0 .. NV] /\ idx \in [Procs -> 0 .. NV]
        /\ lim \in [Procs -> 0 .. NV]
    BY SizeAssumption DEF Init
  <2>4. freelist \subseteq Pages /\ count \in [Pages -> Int]
    BY DEF Init
  <2>6. data \in [Pages -> Val \cup {Junk}]
    BY DEF Init
  <2>7. panicked \in BOOLEAN
    BY Zenon DEF Init
  <2>5. /\ pc \in [Procs -> PCs] /\ child \in [Procs -> Procs \cup {NULL}]
        /\ req \in [Procs -> Reqs]
    BY <2>1 DEF Init, PCs
  <2> QED
    BY <2>2, <2>3, <2>4, <2>5, <2>6, <2>7 DEF TypeOK
<1>2. Family /\ Loops
  BY DEF Init, Family, Loops
<1>3. \A p \in Procs, v \in VPages : pte[p][v].pa = NULL
  BY UnmappedType DEF Init
<1>4. TableShape
  BY <1>3 DEF Init, TableShape, ShapeOf, Mapped, Running, VPages
<1>5. ASSUME NEW pa \in Pages PROVE RefsIn(pte, pa) = {}
  BY <1>3, ProcAssumption DEF RefsIn
<1>6. Counted(pte, count) /\ Listed(pte, freelist)
  BY <1>5, FS_EmptySet DEF Init, Counted, Listed
<1>7. Alone(pte)
  BY <1>3 DEF Alone
<1>8. Memory
  BY <1>1, <1>6, <1>7 DEF Memory, Consistent, TypeOK, Tables
<1> QED
  BY <1>1, <1>2, <1>4, <1>8 DEF Inv, Init

LEMMA NextInv == Inv /\ [Next]_vars => Inv'
<1> SUFFICES ASSUME Inv, [Next]_vars PROVE Inv'
  OBVIOUS
<1>1. CASE UNCHANGED vars
  BY <1>1 DEF vars, Inv, TypeOK, Family, Loops, TableShape, ShapeOf, Mapped, Running, Memory
<1>2. CASE Next
  <2>1. PICK p \in Procs : Continue(p) \/ Begin(p)
    BY <1>2 DEF Next
  <2>2. TypeOK' /\ Family' /\ Loops'
    BY <2>1, ContinueType, BeginType, ControlStep DEF Inv
  <2>3. TableShape' /\ Memory' /\ ~panicked'
    <3>1. CASE ExecPage(p)
      BY <3>1, ExecPageStep
    <3>2. CASE ExecUndoPage(p) \/ ForkUndoPage(p) \/ FreePage(p)
      BY <3>2, UnmapShape
    <3>3. CASE ForkPage(p)
      BY <3>3, ForkPageStep
    <3>4. CASE ForkFail(p)
      BY <3>4, ForkFailStep
    <3>5. CASE PageFault(p)
      <4>1. req[p].va \in Int
        BY DEF Inv, TypeOK, Reqs
      <4>2. CASE Die(p)
        BY <3>5, <4>2, QuietStep DEF PageFault
      <4>3. CASE ~CowRefuses(p, req[p].va) /\ CowCopy(p, req[p].va)
        BY <4>1, <4>3, CowCopyStep DEF CowRefuses
      <4> QED
        BY <3>5, <4>2, <4>3 DEF PageFault
    <3>6. CASE CopyOutSplit(p)
      <4>1. PGROUNDDOWN(req[p].va) \in Int
        BY RoundType DEF Inv, TypeOK, Reqs
      <4> QED
        BY <3>6, <4>1, CowCopyStep DEF CopyOutSplit, CopyOutRefuses
    <3>7. CASE Grow(p)
      BY <3>7, GrowStep
    <3>8. CASE Shrink(p)
      BY <3>8, ShrinkStep
    <3>9. CASE \/ ExecFail(p) \/ ExecUndone(p) \/ ExecDone(p)
               \/ ForkUndone(p) \/ ForkDone(p)
               \/ Perform(p) \/ CopyOutEnd(p) \/ CopyOutPage(p) \/ Freed(p)
      BY <3>9, QuietStep
    <3>10. CASE \/ ExecStart(p) \/ Reap(p) \/ Exit(p)
                \/ \E np \in Procs : ForkStart(p, np)
                \/ \E acc, va, x, sp : Access(p, acc, va, x, sp)
                \/ \E va, len, x : CopyOut(p, va, len, x)
      BY <3>10, QuietStep DEF Exit
    <3> QED
      BY <2>1, <3>1, <3>2, <3>3, <3>4, <3>5, <3>6, <3>7, <3>8, <3>9, <3>10
      DEF Continue, Begin
  <2> QED
    BY <2>2, <2>3 DEF Inv
<1> QED
  BY <1>1, <1>2

\* Page tables, counts, free list and the loops of exec, fork, copyout and
\* exit agree in every reachable state.
THEOREM Invariance == Spec => []Inv
BY InitInv, NextInv, PTL DEF Spec

\* Every variable keeps its type: kalloc and kfree only ever handle pages,
\* and a fork in progress always has its child.
THEOREM TypeCorrect == Spec => []TypeOK
<1>1. Inv => TypeOK
  BY DEF Inv
<1> QED
  BY <1>1, Invariance, PTL

\* The reference counts of kalloc.c are exact, for every number of
\* processes sharing a page and on every failure path of uvmcopy and exec.
THEOREM CountsExact == Spec => []RefExact
<1>1. Inv => RefExact
  BY DEF Inv, Memory, Consistent, Counted, RefExact, Refs, RefsIn
<1> QED
  BY <1>1, Invariance, PTL

\* kfree puts a page on the free list exactly when its last mapping goes:
\* no leak, and no page freed that a process can still reach.
THEOREM NoLeakNoDangling == Spec => []FreeIffUnmapped
<1>1. Inv => FreeIffUnmapped
  BY DEF Inv, Memory, Consistent, Listed, FreeIffUnmapped, Refs, RefsIn
<1> QED
  BY <1>1, Invariance, PTL

\* A page that can be written through a mapping without PTE_COW has no
\* other mapping.
THEOREM WritableIsPrivate == Spec => []PrivateUnlessCow
<1>1. Inv => PrivateUnlessCow
  BY DEF Inv, Memory, Consistent, Alone, PrivateUnlessCow, Refs, RefsIn
<1> QED
  BY <1>1, Invariance, PTL

\* The panics of uvmcopy, uvmunmap and the shrinking sbrk are unreachable.
THEOREM PanicFree == Spec => []NoPanic
<1>1. Inv => NoPanic
  BY DEF Inv, NoPanic
<1> QED
  BY <1>1, Invariance, PTL

-----------------------------------------------------------------------------
(* Copy-on-write fork implements private memory, and page faults kill only *)
(* for a reason.  Both rest on the invariant above and on what is added    *)
(* here: the flags of the entries and the contents of the pages.           *)

\* A writable entry is not copy-on-write, and one outside the text segment
\* is one of the two.
Flagged(v, e) == e.pa # NULL => (e.w => ~e.cow) /\ (v \notin Text => e.w \/ e.cow)

Flags == \A p \in Procs, v \in VPages : Flagged(v, pte[p][v])

\* exec's pages hold the image and are nobody else's.
Loaded ==
    \A p \in Procs, v \in VPages : pc[p] = "exec" /\ v < idx[p] =>
        ~pte[p][v].cow /\ data[pte[p][v].pa] = Image

\* The part of the parent that uvmcopy has done is the child's memory.
Copied ==
    \A p \in Procs, v \in VPages : pc[p] = "fork" /\ v < idx[p] =>
        pte[child[p]][v].pa = pte[p][v].pa

\* A running process has a first page.
Sized == \A p \in Running : sz[p] >= 1

\* An access in progress is one a program makes.
Asked == \A p \in Procs : pc[p] = "access" => req[p].va \in Addrs /\ req[p].sp \in SPs

Extra == Flags /\ Loaded /\ Copied /\ Sized /\ Asked

-----------------------------------------------------------------------------
(* What the steps on memory leave alone.                                   *)

\* The step keeps entry w of process q and the content of its page.
Kept(q, w) ==
    /\ pte'[q][w] = pte[q][w]
    /\ pte[q][w].pa # NULL => data'[pte[q][w].pa] = data[pte[q][w].pa]

KeptBut(p, v) == \A q \in Procs, w \in VPages : <<q, w>> # <<p, v>> => Kept(q, w)

\* The content of a page another entry maps survives kfree: the count is
\* then at least two.
LEMMA KfreeKeeps ==
    ASSUME Inv, NEW p \in Procs, NEW v \in VPages, pte[p][v].pa # NULL,
           NEW q \in Procs, NEW w \in VPages, pte[q][w].pa # NULL, <<q, w>> # <<p, v>>,
           NEW c \in [Pages -> Int], c[pte[p][v].pa] = count[pte[p][v].pa],
           NEW d \in [Pages -> Val \cup {Junk}]
    PROVE  KfreeData(d, c, pte[p][v].pa)[pte[q][w].pa] = d[pte[q][w].pa]
<1> DEFINE pa == pte[p][v].pa
<1>1. pa \in Pages /\ pte[q][w].pa \in Pages
  BY DEF Inv, TypeOK, PTEs
<1>2. CASE pte[q][w].pa # pa
  BY <1>1, <1>2 DEF KfreeData
<1>3. CASE pte[q][w].pa = pa
  <2>1. {<<p, v>>, <<q, w>>} \subseteq RefsIn(pte, pa)
    BY <1>3 DEF RefsIn
  <2>2. IsFiniteSet({<<p, v>>, <<q, w>>}) /\ Cardinality({<<p, v>>, <<q, w>>}) = 2
    <3>1. IsFiniteSet({<<p, v>>}) /\ Cardinality({<<p, v>>}) = 1
      BY FS_Singleton
    <3>2. <<q, w>> \notin {<<p, v>>}
      OBVIOUS
    <3>3. {<<p, v>>, <<q, w>>} = {<<p, v>>} \cup {<<q, w>>}
      OBVIOUS
    <3>4. Cardinality({<<p, v>>} \cup {<<q, w>>}) = Cardinality({<<p, v>>}) + 1
      BY <3>1, <3>2, FS_AddElement
    <3>5. IsFiniteSet({<<p, v>>} \cup {<<q, w>>})
      BY <3>1, FS_AddElement
    <3> QED
      BY SMTT(30), <3>1, <3>3, <3>4, <3>5
  <2>3. Cardinality(RefsIn(pte, pa)) >= 2 /\ Cardinality(RefsIn(pte, pa)) \in Nat
    BY <2>1, <2>2, RefsFinite, FS_Subset
  <2>4. count[pa] = Cardinality(RefsIn(pte, pa))
    BY <1>1 DEF Inv, Memory, Consistent, Counted
  <2>5. RemoveRef(c, pa)[pa] > 0
    BY <1>1, <2>3, <2>4 DEF RemoveRef
  <2> QED
    BY <2>5 DEF KfreeData, StillShared
<1> QED
  BY <1>2, <1>3

\* No entry maps a page of the free list.
LEMMA FreeUnmapped ==
    ASSUME Inv, NEW mem \in freelist, NEW q \in Procs, NEW w \in VPages
    PROVE  mem \in Pages /\ pte[q][w].pa # mem
<1>1. mem \in Pages /\ RefsIn(pte, mem) = {}
  BY DEF Inv, Memory, Consistent, Listed
<1>2. pte[q][w].pa = mem => <<q, w>> \in RefsIn(pte, mem)
  BY DEF RefsIn
<1> QED
  BY <1>1, <1>2

\* Unmapping a page.
LEMMA DropKept ==
    ASSUME Inv, NEW p \in Procs, NEW v \in VPages, pte[p][v].pa # NULL,
           kfree(pte[p][v].pa), pte' = Put(pte, p, v, Unmapped)
    PROVE  KeptBut(p, v) /\ pte'[p][v] = Unmapped
<1>1. pte \in Tables /\ data \in [Pages -> Val \cup {Junk}] /\ count \in [Pages -> Int]
  BY DEF Inv, TypeOK, Tables
<1>2. \A q \in Procs, w \in VPages : pte'[q][w] = IF <<q, w>> = <<p, v>> THEN Unmapped ELSE pte[q][w]
  BY <1>1 DEF Put, Tables
<1>3. data' = KfreeData(data, count, pte[p][v].pa)
  BY DEF kfree
<1> QED
  BY <1>1, <1>2, <1>3, KfreeKeeps DEF KeptBut, Kept

\* Mapping a page of the free list.
LEMMA FillKept ==
    ASSUME Inv, NEW p \in Procs, NEW v \in VPages, NEW mem \in freelist, NEW x,
           NEW e \in PTEs, kalloc(mem, x), pte' = Put(pte, p, v, e)
    PROVE  KeptBut(p, v) /\ pte'[p][v] = e /\ data'[mem] = x
<1>1. pte \in Tables /\ data \in [Pages -> Val \cup {Junk}]
  BY DEF Inv, TypeOK, Tables
<1>2. \A q \in Procs, w \in VPages : pte'[q][w] = IF <<q, w>> = <<p, v>> THEN e ELSE pte[q][w]
  BY <1>1 DEF Put, Tables
<1>3. data' = [data EXCEPT ![mem] = x]
  BY DEF kalloc
<1>4. \A q \in Procs, w \in VPages : pte[q][w].pa # NULL => pte[q][w].pa \in Pages
  BY <1>1 DEF Tables, PTEs
<1> QED
  BY <1>1, <1>2, <1>3, <1>4, FreeUnmapped DEF KeptBut, Kept

\* A copy takes the place of a shared page, with the same content.
LEMMA CowKept ==
    ASSUME Inv, NEW p \in Procs, NEW va \in Int, walk(p, va).pa # NULL, CowCopy(p, va)
    PROVE  /\ PageOf(va) \in VPages /\ KeptBut(p, PageOf(va))
           /\ pte'[p][PageOf(va)].w /\ ~pte'[p][PageOf(va)].cow
           /\ pte'[p][PageOf(va)].pa # NULL
           /\ data'[pte'[p][PageOf(va)].pa] = data[pte[p][PageOf(va)].pa]
<1> DEFINE e == walk(p, va)
           v == PageOf(va)
<1>1. e \in PTEs /\ v \in VPages /\ e = pte[p][v] /\ e.pa \in Pages
  BY WalkType DEF Inv
<1>2. PICK mem \in freelist :
        /\ data' = KfreeData([data EXCEPT ![mem] = data[e.pa]], AddRef(count, mem), e.pa)
        /\ pte' = Put(pte, p, v, [e EXCEPT !.pa = mem, !.w = TRUE, !.cow = FALSE])
  BY DEF CowCopy, Put
<1> DEFINE d == [data EXCEPT ![mem] = data[e.pa]]
           c == AddRef(count, mem)
           f == [e EXCEPT !.pa = mem, !.w = TRUE, !.cow = FALSE]
<1>3. /\ pte \in Tables /\ data \in [Pages -> Val \cup {Junk}] /\ count \in [Pages -> Int]
      /\ mem \in Pages /\ mem # e.pa
  BY <1>1, FreeUnmapped DEF Inv, TypeOK, Tables
<1>4. f.pa = mem /\ f.w /\ ~f.cow
  BY <1>1 DEF PTEs
<1>5. \A q \in Procs, w \in VPages : pte'[q][w] = IF <<q, w>> = <<p, v>> THEN f ELSE pte[q][w]
  BY <1>1, <1>2, <1>3 DEF Put, Tables
<1>6. d \in [Pages -> Val \cup {Junk}] /\ c \in [Pages -> Int] /\ c[e.pa] = count[e.pa]
  BY <1>1, <1>3 DEF AddRef
<1>7. mem # NULL
  BY <1>3, ProcAssumption
<1> HIDE DEF f, c, d
<1>8. \A q \in Procs, w \in VPages : <<q, w>> # <<p, v>> /\ pte[q][w].pa # NULL =>
         data'[pte[q][w].pa] = data[pte[q][w].pa]
  <2> SUFFICES ASSUME NEW q \in Procs, NEW w \in VPages, <<q, w>> # <<p, v>>, pte[q][w].pa # NULL
               PROVE  data'[pte[q][w].pa] = data[pte[q][w].pa]
    OBVIOUS
  <2>1. data'[pte[q][w].pa] = d[pte[q][w].pa]
    <3>1. data' = KfreeData(d, c, pte[p][v].pa)
      BY <1>1, <1>2 DEF c, d
    <3>2. KfreeData(d, c, pte[p][v].pa)[pte[q][w].pa] = d[pte[q][w].pa]
      BY <1>1, <1>6, KfreeKeeps
    <3> QED
      BY <3>1, <3>2
  <2>2. pte[q][w].pa # mem /\ pte[q][w].pa \in Pages
    BY <1>3, FreeUnmapped DEF Tables, PTEs
  <2> QED
    BY <2>1, <2>2, <1>3 DEF d
<1>9. data'[mem] = data[e.pa]
  BY <1>1, <1>2, <1>3 DEF KfreeData
<1> QED
  BY <1>1, <1>4, <1>5, <1>7, <1>8, <1>9 DEF KeptBut, Kept

\* A write through an entry without PTE_COW.
LEMMA WriteKept ==
    ASSUME Inv, NEW p \in Procs, NEW v \in VPages, pte[p][v].pa # NULL, ~pte[p][v].cow,
           NEW x, data' = [data EXCEPT ![pte[p][v].pa] = x], pte' = pte
    PROVE  KeptBut(p, v) /\ data'[pte[p][v].pa] = x
<1>1. \A q \in Procs, w \in VPages : <<q, w>> # <<p, v>> => pte[q][w].pa # pte[p][v].pa
  <2>1. RefsIn(pte, pte[p][v].pa) = {<<p, v>>}
    BY DEF Inv, Memory, Consistent, Alone
  <2>2. \A q \in Procs, w \in VPages :
          pte[q][w].pa = pte[p][v].pa => <<q, w>> \in RefsIn(pte, pte[p][v].pa)
    BY DEF RefsIn
  <2> QED
    BY <2>1, <2>2
<1>2. pte[p][v].pa \in Pages /\ data \in [Pages -> Val \cup {Junk}]
  BY DEF Inv, TypeOK, PTEs
<1>3. \A q \in Procs, w \in VPages : pte[q][w].pa # NULL => pte[q][w].pa \in Pages
  BY DEF Inv, TypeOK, PTEs
<1> QED
  BY <1>1, <1>2, <1>3 DEF KeptBut, Kept

-----------------------------------------------------------------------------
(* The memory of the other processes.                                      *)

\* The step does not show in the memory of q.
SameView(q) ==
    /\ (q \in Running)' <=> q \in Running
    /\ q \in Running =>
         /\ sz'[q] = sz[q]
         /\ \A w \in VPages : w < sz[q] => data'[pte'[q][w].pa] = data[pte[q][w].pa]

\* What UserMem is.
LEMMA UserMemOf ==
    ASSUME Inv, NEW q \in Procs
    PROVE  /\ q \in Running => UserMem[q] = [v \in 0 .. sz[q] - 1 |-> data[pte[q][v].pa]]
           /\ q \notin Running => UserMem[q] = Private!None
           /\ sz[q] \in 0 .. NV
           /\ \A v \in 0 .. sz[q] - 1 : v \in VPages /\ v < sz[q]
BY SizeAssumption DEF UserMem, Private!None, Inv, TypeOK, VPages

\* SameView means what it says.
LEMMA SameMem ==
    ASSUME Inv, NEW q \in Procs, SameView(q)
    PROVE  UserMem'[q] = UserMem[q]
<1>1. CASE q \in Running
  <2>1. UserMem'[q] = [v \in 0 .. sz'[q] - 1 |-> data'[pte'[q][v].pa]]
    BY <1>1 DEF UserMem, SameView
  <2>2. \A v \in 0 .. sz[q] - 1 : data'[pte'[q][v].pa] = data[pte[q][v].pa]
    BY <1>1, UserMemOf DEF SameView
  <2> QED
    BY <1>1, <2>1, <2>2, UserMemOf DEF SameView
<1>2. CASE q \notin Running
  BY <1>2 DEF UserMem, SameView
<1> QED
  BY <1>1, <1>2

\* A step that shows in the memory of p only, and one that shows in nobody's.
LEMMA OneMem ==
    ASSUME Inv, NEW p \in Procs, \A q \in Procs \ {p} : SameView(q)
    PROVE  UserMem' = [UserMem EXCEPT ![p] = UserMem'[p]]
<1>1. UserMem = [q \in Procs |-> UserMem[q]] /\ UserMem' = [q \in Procs |-> UserMem'[q]]
  BY DEF UserMem
<1> QED
  BY <1>1, SameMem

LEMMA NoMem ==
    ASSUME Inv, \A q \in Procs : SameView(q)
    PROVE  UserMem' = UserMem
<1>1. UserMem = [q \in Procs |-> UserMem[q]] /\ UserMem' = [q \in Procs |-> UserMem'[q]]
  BY DEF UserMem
<1> QED
  BY <1>1, SameMem

\* The entries of a running process below its size are valid.
LEMMA RunningMapped ==
    ASSUME Inv, NEW q \in Running, NEW w \in VPages
    PROVE  w < sz[q] <=> pte[q][w].pa # NULL
BY DEF Inv, TableShape, ShapeOf, Mapped, Running, VPages

\* A step on one entry does not show in the memory of a process that does
\* not have the entry.
LEMMA KeptView ==
    ASSUME Inv, NEW q \in Procs, \A w \in VPages : Kept(q, w), pc'[q] = pc[q], sz'[q] = sz[q]
    PROVE  SameView(q)
BY RunningMapped DEF SameView, Kept, Running

-----------------------------------------------------------------------------
(* Steps keep what is added to the invariant.                              *)

\* The two parts that are about control only.
LEMMA ControlExtra ==
    ASSUME Inv, Sized, Asked, NEW p \in Procs, Continue(p) \/ Begin(p)
    PROVE  Sized' /\ Asked'
<1> USE DEF Inv, TypeOK, Sized, Asked, Running
<1>1. CASE ExecPage(p)
  BY <1>1 DEF ExecPage
<1>2. CASE ExecFail(p)
  BY <1>2 DEF ExecFail
<1>3. ASSUME NEW q, UnmapPage(p, q)
      PROVE  Sized' /\ Asked'
  BY <1>3 DEF UnmapPage, Panic
<1>4. CASE ExecUndone(p)
  BY <1>4 DEF ExecUndone
<1>5. CASE ExecDone(p)
  BY <1>5, SizeAssumption DEF ExecDone
<1>6. CASE ForkPage(p)
  BY <1>6 DEF ForkPage, Panic
<1>7. CASE ForkFail(p)
  BY <1>7 DEF ForkFail
<1>9. CASE ForkUndone(p)
  BY <1>9 DEF ForkUndone, Family
<1>10. CASE ForkDone(p)
  BY <1>10 DEF ForkDone, Family
<1>11. CASE Perform(p)
  BY <1>11 DEF Perform
<1>12. CASE Die(p)
  BY <1>12 DEF Die
<1>13. CASE \E va : CowCopy(p, va)
  BY <1>13 DEF CowCopy
<1>14. CASE CopyOutEnd(p)
  BY <1>14 DEF CopyOutEnd
<1>15. CASE CopyOutPage(p)
  BY <1>15 DEF CopyOutPage
<1>16. CASE Freed(p)
  BY <1>16 DEF Freed
<1>17. CASE ExecStart(p)
  BY <1>17 DEF ExecStart
<1>18. CASE \E np \in Procs : ForkStart(p, np)
  BY <1>18 DEF ForkStart
<1>19. CASE \E acc \in Accesses, va \in Addrs, x \in Val, sp \in SPs : Access(p, acc, va, x, sp)
  BY <1>19 DEF Access
<1>20. CASE \E va, len, x : CopyOut(p, va, len, x)
  BY <1>20 DEF CopyOut
<1>21. CASE Grow(p)
  BY <1>21 DEF Grow
<1>22. CASE Shrink(p)
  <2>1. CASE Panic
    BY <2>1 DEF Panic
  <2>2. CASE sz' = [sz EXCEPT ![p] = @ - 1] /\ UNCHANGED <<pc, req>>
    BY <1>22, <2>2 DEF Shrink
  <2> QED
    BY <1>22, <2>1, <2>2 DEF Shrink
<1>23. CASE Reap(p)
  BY <1>23 DEF Reap
<1> QED
  BY <1>1, <1>2, <1>3, <1>4, <1>5, <1>6, <1>7, <1>9, <1>10, <1>11, <1>12, <1>13, <1>14,
     <1>15, <1>16, <1>17, <1>18, <1>19, <1>20, <1>21, <1>22, <1>23
  DEF Continue, Begin, ExecUndoPage, ForkUndoPage, FreePage, PageFault, CopyOutSplit, Exit

\* exec and fork go no further in the step than entry (a, v).
OldExec(q, w) == pc[q] = "exec" /\ w < idx[q]
OldFork(q, w) == pc[q] = "fork" /\ w < idx[q] /\ child'[q] = child[q]

\* A step on one entry.
LEMMA SlotExtra ==
    ASSUME Inv, Extra, Sized', Asked',
           NEW a \in Procs, NEW v \in VPages, KeptBut(a, v), Flagged(v, pte'[a][v]),
           \A q \in Procs, w \in VPages : pc'[q] = "exec" /\ w < idx'[q] =>
             \/ OldExec(q, w) /\ <<q, w>> # <<a, v>>
             \/ /\ <<q, w>> = <<a, v>>
                /\ ~pte'[a][v].cow /\ data'[pte'[a][v].pa] = Image,
           \A q \in Procs, w \in VPages : pc'[q] = "fork" /\ w < idx'[q] =>
             OldFork(q, w) /\ a # q /\ a # child[q]
    PROVE  Extra'
<1>1. \A q \in Procs, w \in VPages : <<q, w>> # <<a, v>> => pte'[q][w] = pte[q][w]
  BY DEF KeptBut, Kept
<1>2. Flags'
  BY <1>1 DEF Flags, Extra
<1>3. Loaded'
  <2> SUFFICES ASSUME NEW q \in Procs, NEW w \in VPages, pc'[q] = "exec", w < idx'[q]
               PROVE  ~pte'[q][w].cow /\ data'[pte'[q][w].pa] = Image
    BY DEF Loaded
  <2>1. CASE OldExec(q, w) /\ <<q, w>> # <<a, v>>
    <3>1. pte[q][w].pa # NULL
      BY <2>1 DEF OldExec, Inv, TableShape, ShapeOf, Mapped, VPages
    <3>2. ~pte[q][w].cow /\ data[pte[q][w].pa] = Image
      BY <2>1 DEF OldExec, Extra, Loaded
    <3> QED
      BY <2>1, <3>1, <3>2 DEF KeptBut, Kept
  <2> QED
    BY <2>1
<1>4. Copied'
  <2> SUFFICES ASSUME NEW q \in Procs, NEW w \in VPages, pc'[q] = "fork", w < idx'[q]
               PROVE  pte'[child'[q]][w].pa = pte'[q][w].pa
    BY DEF Copied
  <2>1. OldFork(q, w) /\ a # q /\ a # child[q]
    OBVIOUS
  <2>2. child[q] \in Procs
    BY <2>1 DEF OldFork, Inv, Family, TypeOK
  <2>3. pte'[q][w] = pte[q][w] /\ pte'[child[q]][w] = pte[child[q]][w]
    BY <1>1, <2>1, <2>2
  <2> QED
    BY <2>1, <2>3 DEF OldFork, Extra, Copied
<1> QED
  BY <1>2, <1>3, <1>4 DEF Extra

\* A step on none.
LEMMA QuietExtra ==
    ASSUME Inv, Extra, Sized', Asked', pte' = pte, data' = data,
           \A q \in Procs, w \in VPages : pc'[q] = "exec" /\ w < idx'[q] => OldExec(q, w),
           \A q \in Procs, w \in VPages : pc'[q] = "fork" /\ w < idx'[q] => OldFork(q, w)
    PROVE  Extra'
<1>1. Flags' /\ Loaded'
  BY DEF Extra, Flags, Loaded, OldExec
<1>2. Copied'
  BY DEF Extra, Copied, OldFork
<1> QED
  BY <1>1, <1>2 DEF Extra

-----------------------------------------------------------------------------
(* Every step is a step of private memory, or invisible.                   *)

Implements == [Private!Next]_UserMem

\* Steps that change neither a page table nor a page, nor who is running.
LEMMA QuietRefines ==
    ASSUME Inv, Extra, Sized', Asked', NEW p \in Procs,
           \/ ExecFail(p) \/ ExecUndone(p) \/ ForkUndone(p) \/ CopyOutEnd(p) \/ Freed(p)
           \/ ExecStart(p) \/ (\E np \in Procs : ForkStart(p, np))
           \/ (\E acc, va, x, sp : Access(p, acc, va, x, sp))
           \/ (\E va, len, x : CopyOut(p, va, len, x)) \/ Reap(p)
    PROVE  Extra' /\ Implements
<1>1. pte' = pte /\ data' = data
  BY DEF ExecFail, ExecUndone, ForkUndone, CopyOutEnd, Freed, ExecStart, ForkStart, Access,
         CopyOut, Reap
<1>2. \A q \in Procs, w \in VPages :
        /\ pc'[q] = "exec" /\ w < idx'[q] => OldExec(q, w)
        /\ pc'[q] = "fork" /\ w < idx'[q] => OldFork(q, w)
  <2> USE DEF OldExec, OldFork, Inv, TypeOK, Loops, VPages
  <2>1. CASE ExecFail(p) \/ ExecUndone(p) \/ Freed(p)
    BY <2>1 DEF ExecFail, ExecUndone, Freed
  <2>2. CASE ForkUndone(p)
    BY <2>2 DEF ForkUndone
  <2>3. CASE ExecStart(p)
    BY <2>3 DEF ExecStart
  <2>4. CASE \E np \in Procs : ForkStart(p, np)
    BY <2>4 DEF ForkStart
  <2>5. CASE \/ CopyOutEnd(p) \/ Reap(p)
             \/ (\E acc, va, x, sp : Access(p, acc, va, x, sp))
             \/ (\E va, len, x : CopyOut(p, va, len, x))
    BY <2>5 DEF CopyOutEnd, Reap, Access, CopyOut
  <2> QED
    BY <2>1, <2>2, <2>3, <2>4, <2>5
<1>4. \A q \in Procs : (q \in Running)' <=> q \in Running
  BY ProcAssumption DEF ExecFail, ExecUndone, ForkUndone, CopyOutEnd, Freed, ExecStart, ForkStart,
         Access, CopyOut, Reap, Running, Inv, TypeOK, Family
<1>5. \A q \in Running : sz'[q] = sz[q]
  BY DEF ExecFail, ExecUndone, ForkUndone, CopyOutEnd, Freed, ExecStart, ForkStart,
         Access, CopyOut, Reap, Running, Inv, TypeOK
<1>6. \A q \in Procs : SameView(q)
  BY <1>1, <1>4, <1>5 DEF SameView
<1> QED
  BY <1>1, <1>2, <1>6, QuietExtra, NoMem DEF Implements

\* exec loads a page.
LEMMA ExecPageRefines ==
    ASSUME Inv, Extra, Sized', Asked', NEW p \in Procs, ExecPage(p)
    PROVE  Extra' /\ Implements
<1> DEFINE v == idx[p]
<1>1. v \in VPages /\ pc[p] = "exec" /\ idx' = [idx EXCEPT ![p] = @ + 1] /\ idx \in [Procs -> 0 .. NV]
      /\ UNCHANGED <<sz, pc, child>>
  BY SizeAssumption DEF ExecPage, Inv, TypeOK, VPages
<1>2. PICK mem \in freelist : kalloc(mem, Image) /\ pte' = Put(pte, p, v, ExecPte(v, mem))
  BY DEF ExecPage, Put
<1>3. ExecPte(v, mem) \in PTEs /\ ExecPte(v, mem).pa = mem /\ ~ExecPte(v, mem).cow
      /\ ExecPte(v, mem).w = (v \notin Text)
  BY <1>2, FreeUnmapped, <1>1 DEF ExecPte, PTEs
<1>4. KeptBut(p, v) /\ pte'[p][v] = ExecPte(v, mem) /\ data'[mem] = Image
  BY <1>1, <1>2, <1>3, FillKept
<1>5. Flagged(v, pte'[p][v])
  BY <1>3, <1>4 DEF Flagged
<1>6. \A q \in Procs, w \in VPages : pc'[q] = "exec" /\ w < idx'[q] =>
             \/ OldExec(q, w) /\ <<q, w>> # <<p, v>>
             \/ /\ <<q, w>> = <<p, v>>
                /\ ~pte'[p][v].cow /\ data'[pte'[p][v].pa] = Image
  BY <1>1, <1>3, <1>4 DEF OldExec, VPages
<1>7. \A q \in Procs, w \in VPages : pc'[q] = "fork" /\ w < idx'[q] =>
             OldFork(q, w) /\ p # q /\ p # child[q]
  BY <1>1 DEF OldFork, Inv, Family, VPages
<1>8. Extra'
  BY <1>1, <1>4, <1>5, <1>6, <1>7, SlotExtra
<1>9. \A q \in Procs : SameView(q)
  <2>1. ASSUME NEW q \in Procs, q # p PROVE SameView(q)
    BY <1>1, <1>4, <2>1, KeptView DEF KeptBut
  <2>2. SameView(p)
    BY <1>1 DEF SameView, Running
  <2> QED
    BY <2>1, <2>2
<1> QED
  BY <1>8, <1>9, NoMem DEF Implements

\* exec is done: the program appears with its image.
LEMMA ExecDoneRefines ==
    ASSUME Inv, Extra, Sized', Asked', NEW p \in Procs, ExecDone(p)
    PROVE  Extra' /\ Implements
<1>1. /\ pc[p] = "exec" /\ idx[p] = NI /\ pc' = [pc EXCEPT ![p] = "user"]
      /\ sz' = [sz EXCEPT ![p] = NI] /\ idx' = [idx EXCEPT ![p] = 0]
      /\ UNCHANGED <<data, pte, child>>
  BY DEF ExecDone
<1>2. Extra'
  <2>1. \A q \in Procs, w \in VPages : pc'[q] = "exec" /\ w < idx'[q] => OldExec(q, w)
    BY <1>1 DEF OldExec, Inv, TypeOK
  <2>2. \A q \in Procs, w \in VPages : pc'[q] = "fork" /\ w < idx'[q] => OldFork(q, w)
    BY <1>1 DEF OldFork, Inv, TypeOK
  <2> QED
    BY <1>1, <2>1, <2>2, QuietExtra
<1>3. \A q \in Procs \ {p} : SameView(q)
  BY <1>1 DEF SameView, Running, Inv, TypeOK
<1>4. UserMem' = [UserMem EXCEPT ![p] = UserMem'[p]]
  BY <1>3, OneMem
<1>5. (p \in Running)' /\ sz'[p] = NI
  BY <1>1 DEF Running, Inv, TypeOK
<1>6. UserMem'[p] = [v \in 0 .. NI - 1 |-> data'[pte'[p][v].pa]]
  BY <1>5 DEF UserMem
<1>7. \A v \in 0 .. NI - 1 : data'[pte'[p][v].pa] = Image
  BY <1>1, SizeAssumption DEF Extra, Loaded, VPages
<1>8. UserMem'[p] = [v \in 0 .. NI - 1 |-> Image]
  BY <1>6, <1>7
<1>9. UserMem[p] = Private!None
  BY <1>1, UserMemOf DEF Running
<1>10. Private!Load(p)
  BY <1>4, <1>8, <1>9 DEF Private!Load
<1> QED
  BY <1>2, <1>10 DEF Implements, Private!Next

\* The loops of uvmunmap, which work on tables nobody runs on.
LEMMA UnmapRefines ==
    ASSUME Inv, Extra, Sized', Asked', NEW p \in Procs,
           ExecUndoPage(p) \/ ForkUndoPage(p) \/ FreePage(p)
    PROVE  Extra' /\ Implements
<1>1. PICK a \in Procs :
        /\ a = IF pc[p] = "forkundo" THEN child[p] ELSE p
        /\ UnmapPage(p, a)
        /\ pc[p] \in {"execundo", "forkundo", "free"}
        /\ Mapped(a, idx[p], lim[p])
  BY ProcAssumption DEF ExecUndoPage, ForkUndoPage, FreePage, Inv, TypeOK, Family, TableShape, ShapeOf
<1> DEFINE v == idx[p]
<1>2. v \in VPages /\ v < lim[p] /\ pte[a][v].pa # NULL
  <2>1. v < lim[p] /\ v \in 0 .. NV /\ lim[p] \in 0 .. NV
    BY <1>1 DEF UnmapPage, Inv, TypeOK
  <2>2. v \in VPages
    BY <2>1, SizeAssumption DEF VPages
  <2> QED
    BY <1>1, <2>1, <2>2 DEF Mapped
<1>3. /\ kfree(pte[a][v].pa) /\ pte' = Put(pte, a, v, Unmapped)
      /\ idx' = [idx EXCEPT ![p] = @ + 1] /\ UNCHANGED <<sz, pc, child>>
  BY <1>1, <1>2 DEF UnmapPage, Put
<1>4. KeptBut(a, v) /\ pte'[a][v] = Unmapped
  BY <1>2, <1>3, DropKept
<1>5. pc[a] \in {"execundo", "free", "embryo"}
  BY <1>1, ProcAssumption DEF Inv, Family
<1>6. \A q \in Procs : pc[q] = "fork" => a # q /\ a # child[q] /\ idx'[q] = idx[q]
  BY <1>1, <1>3, <1>5, ProcAssumption DEF Inv, Family, TypeOK
<1>7. \A q \in Procs : pc[q] = "exec" => a # q /\ idx'[q] = idx[q]
  BY <1>1, <1>3, <1>5 DEF Inv, TypeOK
<1>8. Flagged(v, pte'[a][v])
  BY <1>4, UnmappedType DEF Flagged
<1>9. Extra'
  <2>1. \A q \in Procs, w \in VPages : pc'[q] = "exec" /\ w < idx'[q] =>
           OldExec(q, w) /\ <<q, w>> # <<a, v>>
    BY <1>3, <1>7 DEF OldExec
  <2>2. \A q \in Procs, w \in VPages : pc'[q] = "fork" /\ w < idx'[q] =>
           OldFork(q, w) /\ a # q /\ a # child[q]
    BY <1>3, <1>6 DEF OldFork
  <2> QED
    BY <1>2, <1>4, <1>8, <2>1, <2>2, SlotExtra
<1>10. \A q \in Procs : SameView(q)
  <2>1. ASSUME NEW q \in Procs, q # a PROVE SameView(q)
    BY <1>3, <1>4, <2>1, KeptView DEF KeptBut
  <2>2. SameView(a)
    BY <1>3, <1>5 DEF SameView, Running
  <2> QED
    BY <2>1, <2>2
<1> QED
  BY <1>9, <1>10, NoMem DEF Implements

\* uvmcopy shares a page.
LEMMA ForkPageRefines ==
    ASSUME Inv, Extra, Sized', Asked', NEW p \in Procs, ForkPage(p)
    PROVE  Extra' /\ Implements
<1> DEFINE i == idx[p]
           c == child[p]
           e == Shared(pte[p][i])
<1>1. /\ pc[p] = "fork" /\ i \in VPages /\ i < sz[p] /\ c \in Procs /\ pc[c] = "embryo"
      /\ pte[p][i].pa # NULL /\ pte[p][i] \in PTEs /\ pte \in Tables
  BY SMTT(30), RunningMapped, SizeAssumption, ProcAssumption
     DEF ForkPage, Inv, TypeOK, Family, Running, VPages, Tables
<1>2. /\ pte' = [pte EXCEPT ![p][i] = e, ![c][i] = e]
      /\ idx' = [idx EXCEPT ![p] = @ + 1] /\ UNCHANGED <<data, sz, pc, child>>
  BY <1>1 DEF ForkPage
<1>3. \A q \in Procs, w \in VPages :
        pte'[q][w] = IF q \in {p, c} /\ w = i THEN e ELSE pte[q][w]
  BY <1>1, <1>2 DEF Tables
<1>4. e.pa = pte[p][i].pa /\ e.cow /\ ~e.w
  BY <1>1 DEF Shared, PTEs
<1> HIDE DEF e
<1>5. Flags'
  BY <1>3, <1>4 DEF Flags, Flagged, Extra
<1>6. Loaded'
  <2>1. \A q \in Procs : pc[q] = "exec" => q \notin {p, c} /\ idx'[q] = idx[q]
    BY <1>1, <1>2 DEF Inv, TypeOK
  <2> SUFFICES ASSUME NEW q \in Procs, NEW w \in VPages, pc'[q] = "exec", w < idx'[q]
               PROVE  ~pte'[q][w].cow /\ data'[pte'[q][w].pa] = Image
    BY DEF Loaded
  <2>2. pc[q] = "exec" /\ data' = data
    BY <1>2
  <2>3. q \notin {p, c} /\ w < idx[q]
    BY <2>1, <2>2
  <2>4. pte'[q][w] = pte[q][w]
    BY <1>3, <2>3
  <2> QED
    BY <2>2, <2>3, <2>4 DEF Loaded, Extra
<1>7. Copied'
  <2> SUFFICES ASSUME NEW q \in Procs, NEW w \in VPages, pc'[q] = "fork", w < idx'[q]
               PROVE  pte'[child'[q]][w].pa = pte'[q][w].pa
    BY DEF Copied
  <2>0. pc[q] = "fork" /\ child'[q] = child[q]
    BY <1>2
  <2>1. CASE q = p
    <3>1. w < i \/ w = i
      BY <1>1, <1>2, <2>1 DEF Inv, TypeOK, VPages
    <3>2. w < i => pte[c][w].pa = pte[p][w].pa
      BY <1>1 DEF Extra, Copied
    <3>3. w < i => w # i
      BY DEF VPages
    <3> QED
      BY <1>1, <1>3, <2>0, <2>1, <3>1, <3>2, <3>3
  <2>2. CASE q # p
    <3>1. child[q] \in Procs /\ child[q] # c /\ child[q] # p /\ q # c
      BY <1>1, <2>0, <2>2, ProcAssumption DEF Inv, Family, TypeOK
    <3>2. idx'[q] = idx[q]
      BY <1>2, <2>2 DEF Inv, TypeOK
    <3>3. pte'[child[q]][w] = pte[child[q]][w] /\ pte'[q][w] = pte[q][w]
      BY <1>3, <2>2, <3>1
    <3> QED
      BY <2>0, <3>2, <3>3 DEF Extra, Copied
  <2> QED
    BY <2>1, <2>2
<1>8. \A q \in Procs : SameView(q)
  <2>1. \A q \in Running : q # c
    BY <1>1 DEF Running
  <2>2. \A q \in Procs : (q \in Running)' <=> q \in Running
    BY <1>2 DEF Running
  <2>3. \A q \in Running, w \in VPages : pte'[q][w].pa = pte[q][w].pa
    BY <1>3, <1>4, <2>1 DEF Running
  <2> QED
    BY <1>2, <2>2, <2>3 DEF SameView
<1> QED
  BY <1>5, <1>6, <1>7, <1>8, NoMem DEF Implements, Extra

\* uvmcopy fails.
LEMMA ForkFailRefines ==
    ASSUME Inv, Extra, Sized', Asked', NEW p \in Procs, ForkFail(p)
    PROVE  Extra' /\ Implements
<1> DEFINE i == idx[p]
           e == Shared(pte[p][i])
<1>1. /\ pc[p] = "fork" /\ i \in VPages /\ i < sz[p]
      /\ pte[p][i].pa # NULL /\ pte[p][i] \in PTEs /\ pte \in Tables
  BY SizeAssumption DEF ForkFail, Inv, TypeOK, VPages, Tables
<1>2. /\ pte' = [pte EXCEPT ![p][i] = e] /\ pc' = [pc EXCEPT ![p] = "forkundo"]
      /\ idx' = [idx EXCEPT ![p] = 0] /\ UNCHANGED <<data, sz, child>>
  BY <1>1 DEF ForkFail
<1>3. \A q \in Procs, w \in VPages :
        pte'[q][w] = IF <<q, w>> = <<p, i>> THEN e ELSE pte[q][w]
  BY <1>1, <1>2 DEF Tables
<1>4. e.pa = pte[p][i].pa /\ e.cow /\ ~e.w
  BY <1>1 DEF Shared, PTEs
<1> HIDE DEF e
<1>5. KeptBut(p, i) /\ Flagged(i, pte'[p][i])
  BY <1>1, <1>2, <1>3, <1>4 DEF KeptBut, Kept, Flagged
<1>6. Extra'
  <2>1. \A q \in Procs, w \in VPages : pc'[q] = "exec" /\ w < idx'[q] =>
           OldExec(q, w) /\ <<q, w>> # <<p, i>>
    BY <1>1, <1>2 DEF OldExec, Inv, TypeOK
  <2>2. \A q \in Procs, w \in VPages : pc'[q] = "fork" /\ w < idx'[q] =>
           OldFork(q, w) /\ p # q /\ p # child[q]
    BY <1>1, <1>2, ProcAssumption DEF OldFork, Inv, TypeOK, Family
  <2> QED
    BY <1>1, <1>5, <2>1, <2>2, SlotExtra
<1>7. \A q \in Procs : SameView(q)
  <2>1. \A q \in Procs : (q \in Running)' <=> q \in Running
    BY <1>1, <1>2 DEF Running, Inv, TypeOK
  <2> QED
    BY <1>2, <1>3, <1>4, <2>1 DEF SameView, Running
<1> QED
  BY <1>6, <1>7, NoMem DEF Implements

\* A running process has some memory.
LEMMA SomeMem ==
    ASSUME Inv, Extra, NEW q \in Running
    PROVE  q \in Procs /\ UserMem[q] # Private!None
<1>1. q \in Procs /\ sz[q] >= 1 /\ sz[q] \in Nat
  BY DEF Running, Inv, TypeOK, Extra, Sized
<1>2. 0 \in 0 .. sz[q] - 1
  BY <1>1
<1>3. UserMem[q] = [v \in 0 .. sz[q] - 1 |-> data[pte[q][v].pa]]
  BY <1>1, UserMemOf
<1>4. DOMAIN UserMem[q] # {}
  BY <1>2, <1>3
<1> QED
  BY <1>1, <1>4 DEF Private!None

\* fork is done: the child appears with the memory of its parent.
LEMMA ForkDoneRefines ==
    ASSUME Inv, Extra, Sized', Asked', NEW p \in Procs, ForkDone(p)
    PROVE  Extra' /\ Implements
<1>0. PICK c \in Procs : c = child[p] /\ pc[c] = "embryo" /\ pc[p] = "fork"
  BY ProcAssumption DEF ForkDone, Inv, TypeOK, Family
<1>1. /\ pc[p] = "fork" /\ idx[p] = sz[p] /\ c \in Procs /\ pc[c] = "embryo" /\ c # p
      /\ pc' = [pc EXCEPT ![p] = "user", ![c] = "user"] /\ sz' = [sz EXCEPT ![c] = sz[p]]
      /\ child' = [child EXCEPT ![p] = NULL] /\ idx' = [idx EXCEPT ![p] = 0]
      /\ UNCHANGED <<data, pte>>
  BY <1>0 DEF ForkDone
<1>2. Extra'
  <2>1. \A q \in Procs, w \in VPages : pc'[q] = "exec" /\ w < idx'[q] => OldExec(q, w)
    BY <1>1 DEF OldExec, Inv, TypeOK
  <2>2. \A q \in Procs, w \in VPages : pc'[q] = "fork" /\ w < idx'[q] => OldFork(q, w)
    BY <1>1 DEF OldFork, Inv, TypeOK
  <2> QED
    BY <1>1, <2>1, <2>2, QuietExtra
<1>3. \A q \in Procs \ {c} : SameView(q)
  BY <1>1 DEF SameView, Running, Inv, TypeOK
<1>4. UserMem' = [UserMem EXCEPT ![c] = UserMem'[c]]
  BY <1>1, <1>3, OneMem
<1>5. (c \in Running)' /\ sz'[c] = sz[p] /\ p \in Running /\ c \notin Running
  <2>1. pc'[c] = "user" /\ sz'[c] = sz[p]
    BY <1>1 DEF Inv, TypeOK
  <2> QED
    BY <1>1, <2>1 DEF Running
<1>6. UserMem'[c] = [v \in 0 .. sz[p] - 1 |-> data[pte[c][v].pa]]
  BY <1>1, <1>5 DEF UserMem
<1>7. \A v \in 0 .. sz[p] - 1 : pte[c][v].pa = pte[p][v].pa
  BY <1>0, <1>1, UserMemOf DEF Extra, Copied
<1>8. UserMem'[c] = UserMem[p]
  BY <1>5, <1>6, <1>7, UserMemOf
<1>9. UserMem[c] = Private!None
  BY <1>1, <1>5, UserMemOf
<1>10. UserMem[p] # Private!None
  BY <1>5, SomeMem
<1>11. Private!Fork(p, c)
  BY <1>4, <1>8, <1>9, <1>10 DEF Private!Fork
<1> QED
  BY <1>1, <1>2, <1>11 DEF Implements, Private!Next

\* The process is gone from view.
LEMMA DieRefines ==
    ASSUME Inv, Extra, Sized', Asked', NEW p \in Procs, pc[p] \in {"user", "access"}, Die(p)
    PROVE  Extra' /\ Implements
<1>1. pc' = [pc EXCEPT ![p] = "zombie"] /\ UNCHANGED <<data, pte, sz, idx, child>>
  BY DEF Die
<1>2. Extra'
  <2>1. \A q \in Procs, w \in VPages : pc'[q] = "exec" /\ w < idx'[q] => OldExec(q, w)
    BY <1>1 DEF OldExec, Inv, TypeOK
  <2>2. \A q \in Procs, w \in VPages : pc'[q] = "fork" /\ w < idx'[q] => OldFork(q, w)
    BY <1>1 DEF OldFork, Inv, TypeOK
  <2> QED
    BY <1>1, <2>1, <2>2, QuietExtra
<1>3. \A q \in Procs \ {p} : SameView(q)
  BY <1>1 DEF SameView, Running, Inv, TypeOK
<1>4. UserMem' = [UserMem EXCEPT ![p] = UserMem'[p]]
  BY <1>3, OneMem
<1>5. p \in Running /\ ~(p \in Running)'
  BY <1>1 DEF Running, Inv, TypeOK
<1>6. UserMem'[p] = Private!None
  BY <1>5 DEF UserMem, Private!None
<1>7. UserMem[p] # Private!None
  BY <1>5, SomeMem
<1>8. Private!Die(p)
  BY <1>4, <1>6, <1>7 DEF Private!Die
<1> QED
  BY <1>2, <1>8 DEF Implements, Private!Next

\* cowhandle is invisible: the copy has the content of the shared page.
LEMMA CowRefines ==
    ASSUME Inv, Extra, Sized', Asked', NEW p \in Procs, pc[p] \in {"access", "copyout"},
           NEW va \in Int, walk(p, va).pa # NULL, CowCopy(p, va)
    PROVE  Extra' /\ Implements
<1> DEFINE v == PageOf(va)
<1>1. UNCHANGED <<sz, pc, idx, child>>
  BY DEF CowCopy
<1>2. /\ v \in VPages /\ KeptBut(p, v) /\ pte'[p][v].w /\ ~pte'[p][v].cow
      /\ pte'[p][v].pa # NULL /\ data'[pte'[p][v].pa] = data[pte[p][v].pa]
  BY CowKept
<1> HIDE DEF v
<1>3. Flagged(v, pte'[p][v])
  BY <1>2 DEF Flagged
<1>4. Extra'
  <2>1. \A q \in Procs, w \in VPages : pc'[q] = "exec" /\ w < idx'[q] =>
           OldExec(q, w) /\ <<q, w>> # <<p, v>>
    BY <1>1 DEF OldExec
  <2>2. \A q \in Procs, w \in VPages : pc'[q] = "fork" /\ w < idx'[q] =>
           OldFork(q, w) /\ p # q /\ p # child[q]
    BY <1>1, ProcAssumption DEF OldFork, Inv, Family
  <2> QED
    BY <1>2, <1>3, <2>1, <2>2, SlotExtra
<1>5. ASSUME NEW q \in Procs PROVE SameView(q)
  <2>1. CASE q # p
    BY <1>1, <1>2, <2>1, KeptView DEF KeptBut
  <2>2. CASE q = p
    <3>1. p \in Running /\ (p \in Running)'
      BY <1>1 DEF Running
    <3>2. ASSUME NEW w \in VPages, w < sz[p] PROVE data'[pte'[p][w].pa] = data[pte[p][w].pa]
      <4>1. CASE w = v
        BY <1>2, <4>1
      <4>2. CASE w # v
        <5>1. pte[p][w].pa # NULL
          BY <3>1, <3>2, RunningMapped
        <5> QED
          BY <1>2, <4>2, <5>1 DEF KeptBut, Kept
      <4> QED
        BY <4>1, <4>2
    <3> QED
      BY <1>1, <2>2, <3>1, <3>2 DEF SameView
  <2> QED
    BY <2>1, <2>2
<1> QED
  BY <1>4, <1>5, NoMem DEF Implements

\* A function that differs from another at one point.
LEMMA UpdateOne ==
    ASSUME NEW S, NEW f, NEW g, NEW v \in S, NEW x,
           f = [w \in S |-> f[w]], g = [w \in S |-> g[w]],
           \A w \in S : g[w] = IF w = v THEN x ELSE f[w]
    PROVE  g = [f EXCEPT ![v] = x]
OBVIOUS

\* A write through a private entry is a store of its process.
LEMMA WriteRefines ==
    ASSUME Inv, Extra, Sized', Asked', NEW p \in Procs, p \in Running,
           NEW v \in VPages, pte[p][v].pa # NULL, ~pte[p][v].cow, NEW x \in Val,
           data' = [data EXCEPT ![pte[p][v].pa] = x], pc[p] \in {"access", "copyout"},
           pc' = [pc EXCEPT ![p] = pc'[p]], pc'[p] \in {"user", "copyout"},
           UNCHANGED <<pte, sz, idx, child>>
    PROVE  Extra' /\ Implements
<1>0. pte' = pte
  OBVIOUS
<1>1. KeptBut(p, v) /\ data'[pte[p][v].pa] = x
  <2>1. /\ Inv /\ pte[p][v].pa # NULL /\ ~pte[p][v].cow
        /\ data' = [data EXCEPT ![pte[p][v].pa] = x]
    OBVIOUS
  <2> QED
    BY ONLY ZenonT(60), <1>0, <2>1, WriteKept
<1>2. Extra'
  <2>1. \A q \in Procs, w \in VPages : pc'[q] = "exec" /\ w < idx'[q] =>
           OldExec(q, w) /\ <<q, w>> # <<p, v>>
    BY DEF OldExec, Inv, TypeOK
  <2>2. \A q \in Procs, w \in VPages : pc'[q] = "fork" /\ w < idx'[q] =>
           OldFork(q, w) /\ p # q /\ p # child[q]
    BY ProcAssumption DEF OldFork, Inv, Family, TypeOK
  <2>3. Flagged(v, pte'[p][v])
    BY <1>1 DEF Extra, Flags
  <2> QED
    BY <1>1, <2>1, <2>2, <2>3, SlotExtra
<1>3. \A q \in Procs \ {p} : SameView(q)
  BY <1>1, KeptView DEF KeptBut, Inv, TypeOK
<1>4. UserMem' = [UserMem EXCEPT ![p] = UserMem'[p]]
  BY <1>1, <1>3, OneMem
<1>5. (p \in Running)'
  BY <1>1 DEF Running
<1>6. v < sz[p] /\ v \in 0 .. sz[p] - 1
  <2>1. v < sz[p]
    BY RunningMapped
  <2>2. sz[p] \in 0 .. NV
    BY UserMemOf
  <2> QED
    BY <2>1, <2>2, SizeAssumption DEF VPages
<1>7. UserMem'[p] = [w \in 0 .. sz[p] - 1 |-> data'[pte[p][w].pa]]
  BY <1>1, <1>5 DEF UserMem
<1>8. \A w \in 0 .. sz[p] - 1 : w # v => data'[pte[p][w].pa] = data[pte[p][w].pa]
  <2> SUFFICES ASSUME NEW w \in 0 .. sz[p] - 1, w # v
               PROVE  data'[pte[p][w].pa] = data[pte[p][w].pa]
    OBVIOUS
  <2>1. w \in VPages /\ w < sz[p]
    BY UserMemOf
  <2>2. pte[p][w].pa # NULL
    BY <2>1, RunningMapped
  <2> QED
    BY <1>1, <2>1, <2>2 DEF KeptBut, Kept
<1>9. UserMem[p] = [w \in 0 .. sz[p] - 1 |-> data[pte[p][w].pa]]
  BY <1>1, UserMemOf
<1>10. UserMem'[p] = [UserMem[p] EXCEPT ![v] = x]
  <2>1. \A w \in 0 .. sz[p] - 1 :
          UserMem'[p][w] = IF w = v THEN x ELSE UserMem[p][w]
    BY <1>1, <1>7, <1>8, <1>9
  <2>2. /\ UserMem[p] = [w \in 0 .. sz[p] - 1 |-> UserMem[p][w]]
        /\ UserMem'[p] = [w \in 0 .. sz[p] - 1 |-> UserMem'[p][w]]
    BY <1>7, <1>9
  <2> QED
    BY ONLY <2>1, <2>2, <1>6, UpdateOne
<1>11. v \in DOMAIN UserMem[p]
  BY <1>6, <1>9
<1>12. Private!Store(p, v, x)
  BY <1>4, <1>10, <1>11 DEF Private!Store
<1>13. v \in 0 .. NV - 1
  BY DEF VPages
<1> QED
  BY <1>1, <1>2, <1>12, <1>13 DEF Implements, Private!Next

\* The abstract size of a memory is p->sz.
LEMMA SizeIs ==
    ASSUME Inv, NEW p \in Procs, p \in Running
    PROVE  Private!Size(p) = sz[p] /\ sz[p] \in 0 .. NV
<1>1. sz[p] \in 0 .. NV /\ DOMAIN UserMem[p] = 0 .. sz[p] - 1
  BY UserMemOf
<1>2. ASSUME NEW n \in 0 .. NV, 0 .. n - 1 = 0 .. sz[p] - 1 PROVE n = sz[p]
  <2>1. CASE n < sz[p]
    <3>1. n \in 0 .. sz[p] - 1 /\ n \notin 0 .. n - 1
      BY <1>1, <2>1, SizeAssumption
    <3> QED
      BY <1>2, <3>1
  <2>2. CASE sz[p] < n
    <3>1. sz[p] \in 0 .. n - 1 /\ sz[p] \notin 0 .. sz[p] - 1
      BY <1>1, <2>2, SizeAssumption
    <3> QED
      BY <1>2, <3>1
  <2> QED
    BY <1>1, <2>1, <2>2, SizeAssumption
<1> QED
  BY <1>1, <1>2 DEF Private!Size

\* sbrk adds a page of zeros.
LEMMA GrowRefines ==
    ASSUME Inv, Extra, Sized', Asked', NEW p \in Procs, Grow(p)
    PROVE  Extra' /\ Implements
<1> DEFINE v == sz[p]
<1>1. /\ pc[p] = "user" /\ v \in VPages /\ sz' = [sz EXCEPT ![p] = @ + 1] /\ sz \in [Procs -> 0 .. NV]
      /\ UNCHANGED <<pc, idx, child>>
  BY SizeAssumption DEF Grow, Inv, TypeOK, VPages
<1>2. PICK mem \in freelist, e \in PTEs :
        /\ e.pa = mem /\ e.w /\ ~e.cow
        /\ kalloc(mem, Zero) /\ pte' = Put(pte, p, v, e)
  <2>1. PICK mem \in freelist :
          /\ kalloc(mem, Zero)
          /\ pte' = Put(pte, p, v, [pa |-> mem, w |-> TRUE, u |-> TRUE, cow |-> FALSE])
    BY DEF Grow, Put
  <2>2. [pa |-> mem, w |-> TRUE, u |-> TRUE, cow |-> FALSE] \in PTEs
    BY <1>1, FreeUnmapped DEF PTEs
  <2> QED
    BY <2>1, <2>2
<1>3. KeptBut(p, v) /\ pte'[p][v] = e /\ data'[mem] = Zero
  BY <1>1, <1>2, FillKept
<1>4. Extra'
  <2>1. \A q \in Procs, w \in VPages : pc'[q] = "exec" /\ w < idx'[q] =>
           OldExec(q, w) /\ <<q, w>> # <<p, v>>
    BY <1>1 DEF OldExec
  <2>2. \A q \in Procs, w \in VPages : pc'[q] = "fork" /\ w < idx'[q] =>
           OldFork(q, w) /\ p # q /\ p # child[q]
    BY <1>1, ProcAssumption DEF OldFork, Inv, Family
  <2>3. Flagged(v, pte'[p][v])
    BY <1>2, <1>3 DEF Flagged
  <2> QED
    BY <1>1, <1>3, <2>1, <2>2, <2>3, SlotExtra
<1>5. \A q \in Procs \ {p} : SameView(q)
  BY <1>1, <1>3, KeptView DEF KeptBut
<1>6. UserMem' = [UserMem EXCEPT ![p] = UserMem'[p]]
  BY <1>5, OneMem
<1>7. p \in Running /\ (p \in Running)' /\ sz'[p] = v + 1 /\ v \in Nat /\ v < NV
  BY <1>1, SizeAssumption DEF Running, VPages
<1>8. UserMem'[p] = [w \in 0 .. v + 1 - 1 |-> data'[pte'[p][w].pa]]
  BY <1>7 DEF UserMem
<1>9. UserMem[p] = [w \in 0 .. v - 1 |-> data[pte[p][w].pa]]
  BY <1>7, UserMemOf
<1>10. \A w \in 0 .. v : data'[pte'[p][w].pa] = IF w < v THEN UserMem[p][w] ELSE Zero
  <2> SUFFICES ASSUME NEW w \in 0 .. v
               PROVE  data'[pte'[p][w].pa] = IF w < v THEN UserMem[p][w] ELSE Zero
    OBVIOUS
  <2>1. CASE w < v
    <3>1. w \in VPages /\ w # v /\ w \in 0 .. v - 1
      BY <1>7, <2>1, SizeAssumption DEF VPages
    <3>2. pte[p][w].pa # NULL
      BY <1>7, <2>1, <3>1, RunningMapped
    <3> QED
      BY <1>3, <1>9, <2>1, <3>1, <3>2 DEF KeptBut, Kept
  <2>2. CASE ~(w < v)
    <3>1. w = v
      BY <1>7, <2>2
    <3> QED
      BY <1>2, <1>3, <2>2, <3>1
  <2> QED
    BY <2>1, <2>2
<1>11. UserMem'[p] = [w \in 0 .. v |-> IF w < v THEN UserMem[p][w] ELSE Zero]
  <2>1. v + 1 - 1 = v
    BY <1>7
  <2> QED
    BY <1>8, <1>10, <2>1
<1>12. UserMem[p] # Private!None /\ Private!Size(p) = v
  BY <1>7, SomeMem, SizeIs
<1>13. Private!Grow(p)
  BY <1>6, <1>7, <1>11, <1>12 DEF Private!Grow
<1> QED
  BY <1>4, <1>13 DEF Implements, Private!Next

\* sbrk takes the last page away.
LEMMA ShrinkRefines ==
    ASSUME Inv, Extra, Sized', Asked', NEW p \in Procs, Shrink(p)
    PROVE  Extra' /\ Implements
<1> DEFINE v == sz[p] - 1
<1>1. pc[p] = "user" /\ sz[p] \in 0 .. NV /\ sz[p] > 1 /\ p \in Running /\ sz \in [Procs -> 0 .. NV]
  BY DEF Shrink, Inv, TypeOK, Running
<1>2. v \in VPages /\ v < sz[p] /\ v \in Nat /\ v + 1 = sz[p]
  BY <1>1, SizeAssumption DEF VPages
<1>3. pte[p][v].pa # NULL
  BY <1>1, <1>2, RunningMapped
<1>4. /\ kfree(pte[p][v].pa) /\ pte' = Put(pte, p, v, Unmapped)
      /\ sz' = [sz EXCEPT ![p] = @ - 1] /\ UNCHANGED <<pc, idx, child>>
  BY <1>3 DEF Shrink, Put
<1> HIDE DEF v
<1>5. KeptBut(p, v) /\ pte'[p][v] = Unmapped
  BY <1>2, <1>3, <1>4, DropKept
<1>6. Extra'
  <2>1. \A q \in Procs, w \in VPages : pc'[q] = "exec" /\ w < idx'[q] =>
           OldExec(q, w) /\ <<q, w>> # <<p, v>>
    BY <1>1, <1>4 DEF OldExec
  <2>2. \A q \in Procs, w \in VPages : pc'[q] = "fork" /\ w < idx'[q] =>
           OldFork(q, w) /\ p # q /\ p # child[q]
    BY <1>1, <1>4, ProcAssumption DEF OldFork, Inv, Family
  <2>3. Flagged(v, pte'[p][v])
    BY <1>5, UnmappedType DEF Flagged
  <2> QED
    BY <1>2, <1>5, <2>1, <2>2, <2>3, SlotExtra
<1>7. \A q \in Procs \ {p} : SameView(q)
  BY <1>1, <1>4, <1>5, KeptView DEF KeptBut
<1>8. UserMem' = [UserMem EXCEPT ![p] = UserMem'[p]]
  BY <1>7, OneMem
<1>9. (p \in Running)' /\ sz'[p] = sz[p] - 1
  BY <1>1, <1>4 DEF Running
<1>10. UserMem'[p] = [w \in 0 .. (sz[p] - 1) - 1 |-> data'[pte'[p][w].pa]]
  BY <1>9 DEF UserMem
<1>11. UserMem[p] = [w \in 0 .. sz[p] - 1 |-> data[pte[p][w].pa]]
  BY <1>1, UserMemOf
<1>12. \A w \in 0 .. (sz[p] - 1) - 1 : data'[pte'[p][w].pa] = UserMem[p][w]
  <2> SUFFICES ASSUME NEW w \in 0 .. (sz[p] - 1) - 1
               PROVE  data'[pte'[p][w].pa] = UserMem[p][w]
    OBVIOUS
  <2>1. w \in VPages /\ w # v /\ w < sz[p] /\ w \in 0 .. sz[p] - 1
    BY <1>1, <1>2, SizeAssumption DEF VPages
  <2>2. pte[p][w].pa # NULL
    BY <1>1, <2>1, RunningMapped
  <2> QED
    BY <1>5, <1>11, <2>1, <2>2 DEF KeptBut, Kept
<1>13. UserMem'[p] = [w \in 0 .. sz[p] - 2 |-> UserMem[p][w]]
  <2>1. (sz[p] - 1) - 1 = sz[p] - 2
    BY <1>1
  <2> QED
    BY <1>10, <1>12, <2>1
<1>14. Private!Size(p) = sz[p]
  BY <1>1, SizeIs
<1>15. Private!Shrink(p)
  BY <1>1, <1>8, <1>13, <1>14 DEF Private!Shrink
<1> QED
  BY <1>6, <1>15 DEF Implements, Private!Next

\* A permitted access is a load, a fetch, or a store to a private page.
LEMMA PerformRefines ==
    ASSUME Inv, Extra, Sized', Asked', NEW p \in Procs, Perform(p)
    PROVE  Extra' /\ Implements
<1> DEFINE va == req[p].va
<1>1. /\ pc[p] = "access" /\ pc' = [pc EXCEPT ![p] = "user"] /\ p \in Running
      /\ UNCHANGED <<pte, sz, idx, child>> /\ pc \in [Procs -> PCs]
  BY DEF Perform, Running, Inv, TypeOK
<1>2. va \in Int /\ req[p].val \in Val /\ walk(p, va).pa # NULL
      /\ (req[p].acc = "store" => walk(p, va).w)
  BY DEF Perform, Permitted, Inv, TypeOK, Reqs
<1>3. PageOf(va) \in VPages /\ walk(p, va) = pte[p][PageOf(va)]
  BY <1>2, WalkType DEF Inv
<1>4. CASE req[p].acc = "store"
  <2>1. PICK v \in VPages : v = PageOf(va)
    BY <1>3
  <2>2. pte[p][v].pa # NULL /\ ~pte[p][v].cow
    BY <1>2, <1>3, <1>4, <2>1 DEF Extra, Flags, Flagged
  <2>3. data' = [data EXCEPT ![pte[p][v].pa] = req[p].val]
    BY <1>3, <1>4, <2>1 DEF Perform
  <2>4. PICK x \in Val : x = req[p].val
    BY <1>2
  <2>5. pc' = [pc EXCEPT ![p] = pc'[p]] /\ pc'[p] = "user"
    BY <1>1
  <2>6. data' = [data EXCEPT ![pte[p][v].pa] = x]
    BY <2>3, <2>4
  <2>7. Inv /\ Extra /\ Sized' /\ Asked'
    OBVIOUS
  <2> QED
    BY ONLY <1>1, <2>2, <2>5, <2>6, <2>7, WriteRefines
<1>5. CASE req[p].acc # "store"
  <2>1. data' = data
    BY <1>5 DEF Perform
  <2>2. Extra'
    <3>1. \A q \in Procs, w \in VPages : pc'[q] = "exec" /\ w < idx'[q] => OldExec(q, w)
      BY <1>1 DEF OldExec
    <3>2. \A q \in Procs, w \in VPages : pc'[q] = "fork" /\ w < idx'[q] => OldFork(q, w)
      BY <1>1 DEF OldFork
    <3> QED
      BY <1>1, <2>1, <3>1, <3>2, QuietExtra
  <2>3. \A q \in Procs : SameView(q)
    BY <1>1, <2>1 DEF SameView, Running
  <2> QED
    BY <2>2, <2>3, NoMem DEF Implements
<1> QED
  BY <1>4, <1>5

\* copyout writes to one page, after cowhandle where it has to.
LEMMA CopyOutRefines ==
    ASSUME Inv, Extra, Sized', Asked', NEW p \in Procs, CopyOutPage(p)
    PROVE  Extra' /\ Implements
<1> DEFINE va == PGROUNDDOWN(req[p].va)
<1>1. /\ pc[p] = "copyout" /\ p \in Running /\ pc' = pc
      /\ UNCHANGED <<pte, sz, idx, child>> /\ pc \in [Procs -> PCs]
  BY DEF CopyOutPage, Running, Inv, TypeOK
<1>2. va \in Int /\ req[p].val \in Val
  BY RoundType DEF Inv, TypeOK, Reqs
<1>3. walk(p, va).pa # NULL /\ ~walk(p, va).cow
  BY DEF CopyOutPage, CopyOutRefuses
<1>4. PageOf(va) \in VPages /\ walk(p, va) = pte[p][PageOf(va)]
  BY <1>2, <1>3, WalkType DEF Inv
<1>5. PICK v \in VPages : v = PageOf(va)
  BY <1>4
<1>6. pte[p][v].pa # NULL /\ ~pte[p][v].cow
  BY <1>3, <1>4, <1>5
<1>7. PICK x \in Val : x = req[p].val
  BY <1>2
<1>8. data' = [data EXCEPT ![pte[p][v].pa] = x]
  BY <1>4, <1>5, <1>7 DEF CopyOutPage
<1>9. pc' = [pc EXCEPT ![p] = pc'[p]] /\ pc'[p] = "copyout"
  BY <1>1
<1>10. Inv /\ Extra /\ Sized' /\ Asked'
  OBVIOUS
<1> QED
  BY ONLY <1>1, <1>6, <1>8, <1>9, <1>10, WriteRefines

-----------------------------------------------------------------------------
(* The theorems.                                                           *)

\* Init has no entries, no images and no forks.
LEMMA InitExtra == Init => Extra
BY UnmappedType DEF Init, Extra, Flags, Flagged, Loaded, Copied, Sized, Asked, Running

\* Every step keeps what was added, and is a step of private memory.
LEMMA StepRefines ==
    ASSUME Inv, Extra, [Next]_vars
    PROVE  Extra' /\ Implements
<1>1. CASE UNCHANGED vars
  <2>1. Extra'
    BY <1>1 DEF vars, Extra, Flags, Flagged, Loaded, Copied, Sized, Asked, Running
  <2>2. \A q \in Procs : SameView(q)
    BY <1>1 DEF vars, SameView, Running
  <2> QED
    BY <2>1, <2>2, NoMem DEF Implements
<1>2. CASE Next
  <2>1. PICK p \in Procs : Continue(p) \/ Begin(p)
    BY <1>2 DEF Next
  <2>2. Sized' /\ Asked'
    BY <2>1, ControlExtra DEF Extra
  <2>3. CASE ExecPage(p)
    BY <2>2, <2>3, ExecPageRefines
  <2>4. CASE ExecDone(p)
    BY <2>2, <2>4, ExecDoneRefines
  <2>5. CASE ExecUndoPage(p) \/ ForkUndoPage(p) \/ FreePage(p)
    BY <2>2, <2>5, UnmapRefines
  <2>6. CASE ForkPage(p)
    BY <2>2, <2>6, ForkPageRefines
  <2>7. CASE ForkFail(p)
    BY <2>2, <2>7, ForkFailRefines
  <2>8. CASE ForkDone(p)
    BY <2>2, <2>8, ForkDoneRefines
  <2>9. CASE Perform(p)
    BY <2>2, <2>9, PerformRefines
  <2>10. CASE PageFault(p)
    <3>1. req[p].va \in Int /\ pc[p] = "access"
      BY <2>10 DEF PageFault, Inv, TypeOK, Reqs
    <3>2. CASE Die(p)
      BY <2>2, <3>1, <3>2, DieRefines
    <3>3. CASE ~CowRefuses(p, req[p].va) /\ CowCopy(p, req[p].va)
      BY <2>2, <3>1, <3>3, CowRefines DEF CowRefuses
    <3> QED
      BY <2>10, <3>2, <3>3 DEF PageFault
  <2>11. CASE CopyOutSplit(p)
    <3>1. PGROUNDDOWN(req[p].va) \in Int
      BY RoundType DEF Inv, TypeOK, Reqs
    <3> QED
      BY <2>2, <2>11, <3>1, CowRefines DEF CopyOutSplit, CopyOutRefuses
  <2>12. CASE CopyOutPage(p)
    BY <2>2, <2>12, CopyOutRefines
  <2>13. CASE Grow(p)
    BY <2>2, <2>13, GrowRefines
  <2>14. CASE Shrink(p)
    BY <2>2, <2>14, ShrinkRefines
  <2>15. CASE Exit(p)
    BY <2>2, <2>15, DieRefines DEF Exit
  <2>16. CASE \/ ExecFail(p) \/ ExecUndone(p) \/ ForkUndone(p) \/ CopyOutEnd(p) \/ Freed(p)
              \/ ExecStart(p) \/ (\E np \in Procs : ForkStart(p, np))
              \/ (\E acc, va, x, sp : Access(p, acc, va, x, sp))
              \/ (\E va, len, x : CopyOut(p, va, len, x)) \/ Reap(p)
    BY <2>2, <2>16, QuietRefines
  <2> QED
    BY <2>1, <2>3, <2>4, <2>5, <2>6, <2>7, <2>8, <2>9, <2>10, <2>11, <2>12, <2>13, <2>14,
       <2>15, <2>16 DEF Continue, Begin
<1> QED
  BY <1>1, <1>2

\* What is added is invariant.
THEOREM ExtraInvariant == Spec => [](Inv /\ Extra)
<1>1. Inv /\ Extra /\ [Next]_vars => (Inv /\ Extra)'
  BY StepRefines, NextInv
<1> QED
  BY <1>1, InitInv, InitExtra, PTL DEF Spec

\* Copy-on-write fork is not observable: what uvmcopy, cowhandle, copyout,
\* sbrk and exit do to page tables, counts and pages is, in the eyes of user
\* programs, a memory of their own for every process, which fork copies.
THEOREM CowImplementsPrivate == Spec => ImplementsPrivateMemory
<1>1. Init => Private!Init
  BY DEF Init, UserMem, Running, Private!Init, Private!None
<1>2. Inv /\ Extra /\ [Next]_vars => [Private!Next]_UserMem
  BY StepRefines DEF Implements
<1> QED
  BY <1>1, <1>2, ExtraInvariant, PTL DEF Spec, ImplementsPrivateMemory, Private!Spec

-----------------------------------------------------------------------------
(* Page faults kill for a reason.                                          *)

\* What the division by the size of a page returns.
LEMMA PageBounds ==
    ASSUME NEW va \in Nat
    PROVE  /\ PageOf(va) \in Nat /\ PGROUNDDOWN(va) \in Nat
           /\ PGROUNDDOWN(va) <= va /\ va < PGROUNDDOWN(va) + PGSIZE
  BY SizeAssumption DEF PageOf, PGROUNDDOWN

\* An address belongs to one page only.
LEMMA PageUnique ==
    ASSUME NEW va \in Nat, NEW k \in Nat, k * PGSIZE <= va, va < k * PGSIZE + PGSIZE
    PROVE  PageOf(va) = k
  BY SizeAssumption DEF PageOf

\* An address that usertrap holds to be below the stack is the first byte of
\* the stack pointer's page, or lies in the page before it.
LEMMA BelowStack ==
    ASSUME NEW va \in 0 .. WORD - 1, NEW sp \in 0 .. WORD - 1, va < MAXVA, OutOfReach(va, sp)
    PROVE  va = PGROUNDDOWN(sp) \/ PageOf(va) = PageOf(sp) - 1
<1> DEFINE k == PageOf(sp)
           up == PGROUNDDOWN(sp)
<1>1. WORD \in Nat /\ PGSIZE \in Nat \ {0} /\ va \in Nat /\ sp \in Nat
  BY SizeAssumption
<1>2. k \in Nat /\ up \in Nat /\ up <= sp /\ up = k * PGSIZE
  BY <1>1, PageBounds DEF PGROUNDDOWN
<1>3. va >= (up - PGSIZE) % WORD /\ va <= up
  BY <1>1, SizeAssumption DEF OutOfReach
<1>4. CASE k = 0
  BY <1>1, <1>2, <1>3, <1>4
<1>5. CASE k # 0
  <2>1. k - 1 \in Nat /\ (k - 1) * PGSIZE = up - PGSIZE
    BY <1>1, <1>2, <1>5
  <2>2. up - PGSIZE \in 0 .. WORD - 1
    <3>1. (k - 1) * PGSIZE >= 0
      BY <1>1, <2>1
    <3> HIDE DEF up
    <3> QED
      BY <1>1, <1>2, <2>1, <3>1
  <2>3. (up - PGSIZE) % WORD = up - PGSIZE
    <3> HIDE DEF up
    <3> QED
      BY <1>1, <1>2, <2>2
  <2>4. CASE va # up
    <3>1. (k - 1) * PGSIZE <= va /\ va < (k - 1) * PGSIZE + PGSIZE
      <4> HIDE DEF up, k
      <4> QED
        BY <1>1, <1>2, <1>3, <2>1, <2>3, <2>4
    <3> QED
      BY <1>1, <2>1, <3>1, PageUnique
  <2> QED
    BY <2>4
<1> QED
  BY <1>4, <1>5

\* Only the page-fault branch of usertrap kills a process that was accessing
\* its memory.
LEMMA OnlyFaultKills ==
    ASSUME Inv, Next, NEW p \in Procs, pc[p] = "access", pc'[p] = "zombie"
    PROVE  PageFault(p) /\ Die(p)
<1>1. PICK q \in Procs : Continue(q) \/ Begin(q)
  BY DEF Next
<1>2. pc \in [Procs -> PCs] /\ child \in [Procs -> Procs \cup {NULL}]
  BY DEF Inv, TypeOK
<1>3. CASE PageFault(q)
  BY <1>2, <1>3 DEF PageFault, Die, CowCopy
<1>4. CASE Exit(q)
  BY <1>2, <1>4 DEF Exit, Die
<1>5. CASE ExecPage(q) \/ ExecFail(q) \/ ExecUndoPage(q) \/ ExecUndone(q) \/ ExecDone(q)
  BY <1>2, <1>5 DEF ExecPage, ExecFail, ExecUndoPage, ExecUndone, ExecDone, UnmapPage, Panic
<1>6. CASE ForkPage(q) \/ ForkFail(q) \/ ForkUndoPage(q)
  BY <1>2, <1>6 DEF ForkPage, ForkFail, ForkUndoPage, UnmapPage, Panic
<1>7. CASE ForkUndone(q) \/ ForkDone(q)
  BY <1>2, <1>7 DEF ForkUndone, ForkDone
<1>8. CASE Perform(q) \/ CopyOutEnd(q) \/ CopyOutSplit(q) \/ CopyOutPage(q)
  BY <1>2, <1>8 DEF Perform, CopyOutEnd, CopyOutSplit, CopyOutPage, CowCopy
<1>9. CASE FreePage(q) \/ Freed(q) \/ ExecStart(q) \/ Grow(q) \/ Shrink(q) \/ Reap(q)
  BY <1>2, <1>9 DEF FreePage, Freed, UnmapPage, Panic, ExecStart, Grow, Shrink, Reap
<1>10. CASE \/ \E np \in Procs : ForkStart(q, np)
            \/ \E acc, va, x, sp : Access(q, acc, va, x, sp)
            \/ \E va, len, x : CopyOut(q, va, len, x)
  BY <1>2, <1>10 DEF ForkStart, Access, CopyOut
<1> QED
  BY <1>1, <1>3, <1>4, <1>5, <1>6, <1>7, <1>8, <1>9, <1>10 DEF Continue, Begin

\* An access that is legal in the memory of p, and that the hardware does
\* not permit at the moment, is a store to a copy-on-write page.
LEMMA LegalIsCow ==
    ASSUME Inv, Extra, NEW p \in Procs, pc[p] = "access", Legal(p), ~Permitted(p)
    PROVE  /\ req[p].va \in 0 .. WORD - 1 /\ req[p].va < MAXVA
           /\ PageOf(req[p].va) \in VPages \ (Text \cup Guard)
           /\ walk(p, req[p].va).pa # NULL /\ walk(p, req[p].va).cow
<1> DEFINE va == req[p].va
           e == walk(p, va)
<1>1. va \in 0 .. WORD - 1 /\ va \in Nat
  <2>1. va \in Addrs
    BY DEF Extra, Asked
  <2> HIDE DEF va
  <2>2. va \in 0 .. WORD - 1
    BY <2>1, AddressAssumption
  <2> QED
    BY <2>2, SizeAssumption
<1>2. e.pa # NULL /\ e.u /\ e = pte[p][PageOf(va)] /\ PageOf(va) \in VPages
  BY DEF Legal, walk, Unmapped
<1>3. va < MAXVA
  <2>1. va < PageOf(va) * PGSIZE + PGSIZE /\ PageOf(va) \in Nat
    BY <1>1, PageBounds DEF PGROUNDDOWN
  <2>2. PageOf(va) + 1 <= NV
    BY <1>2, SizeAssumption DEF VPages
  <2>3. (PageOf(va) + 1) * PGSIZE <= NV * PGSIZE
    <3> HIDE DEF va
    <3> QED
      BY <2>1, <2>2, SizeAssumption
  <2>4. (PageOf(va) + 1) * PGSIZE = PageOf(va) * PGSIZE + PGSIZE
    <3> HIDE DEF va
    <3> QED
      BY <2>1, SizeAssumption
  <2> QED
    <3> HIDE DEF va
    <3> QED
      BY <1>1, <2>1, <2>3, <2>4, SizeAssumption
<1>4. req[p].acc = "store" /\ ~e.w /\ PageOf(va) \notin Text \cup Guard
  BY <1>2, <1>3 DEF Legal, Permitted
<1>5. Flagged(PageOf(va), pte[p][PageOf(va)])
  BY <1>2 DEF Extra, Flags
<1> QED
  BY <1>1, <1>2, <1>3, <1>4, <1>5 DEF Flagged

\* A page fault never kills a process for a store that copy-on-write alone
\* makes fault: usertrap and cowhandle refuse only what exec and sbrk never
\* allowed, the two addresses they refuse always, and a copy for which there
\* is no memory.
THEOREM KillsJustified == Spec => KillJustified
<1>1. ASSUME Inv, Extra, [Next]_vars, NEW p \in Procs, pc[p] = "access", pc'[p] = "zombie"
      PROVE  ~Legal(p) \/ freelist = {} \/ req[p].va \in {0, PGROUNDDOWN(req[p].sp)}
  <2>1. Next
    BY <1>1 DEF vars
  <2>2. PageFault(p) /\ Die(p)
    BY <1>1, <2>1, OnlyFaultKills
  <2>3. SUFFICES ASSUME Legal(p), freelist # {}, req[p].va # 0
                 PROVE  req[p].va = PGROUNDDOWN(req[p].sp)
    OBVIOUS
  <2>4. ~Permitted(p)
    BY <2>2 DEF PageFault
  <2>5. /\ req[p].va \in 0 .. WORD - 1 /\ req[p].va < MAXVA
        /\ PageOf(req[p].va) \in VPages \ (Text \cup Guard)
        /\ ~CowRefuses(p, req[p].va)
    BY <1>1, <2>3, <2>4, LegalIsCow DEF CowRefuses
  <2>6. OutOfReach(req[p].va, req[p].sp)
    BY <1>1, <2>2, <2>3, <2>5 DEF PageFault, CowCopy
  <2>7. req[p].sp \in SPs /\ req[p].sp \in 0 .. WORD - 1
    BY <1>1, AddressAssumption DEF Extra, Asked
  <2>8. PageOf(req[p].va) # PageOf(req[p].sp) - 1
    BY <2>5, <2>7, StackAssumption DEF PageOf
  <2> QED
    BY <2>5, <2>6, <2>7, <2>8, BelowStack
<1>2. Inv /\ Extra /\ [Next]_vars => [\A p \in Procs :
         pc[p] = "access" /\ pc'[p] = "zombie" =>
            \/ ~Legal(p)
            \/ freelist = {}
            \/ req[p].va \in {0, PGROUNDDOWN(req[p].sp)}]_vars
  BY <1>1
<1> QED
  BY <1>2, ExtraInvariant, PTL DEF Spec, KillJustified
=============================================================================
