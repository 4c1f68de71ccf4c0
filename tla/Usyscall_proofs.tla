--------------------------- MODULE Usyscall_proofs ---------------------------
(***************************************************************************)
(* For any number of slots, pages and pids: no teardown of a page table    *)
(* panics, a running program reads its own pid at USYSCALL, and no page is *)
(* lost or freed twice.                                                    *)
(***************************************************************************)
EXTENDS Usyscall, FiniteSetTheorems, FunctionTheorems, TLAPS

PCs == {"unused", "tf", "us", "root", "map", "made", "copy", "run", "free"}

\* The table that proc_pagetable returns, and one it is still building: the
\* first mapping has made every table that the other two need.
Full == [tabs |-> Tables, map |-> Special]
Partial(t) ==
    /\ t \in PageTables
    /\ t.map = {} \/ ( /\ t.tabs = Tables
                       /\ t.map \in {{"TRAMPOLINE"}, {"TRAMPOLINE", "TRAPFRAME"}} )

Shape ==
    /\ pc \in [Procs -> PCs]
    /\ pt \in [Procs -> {NoTable, Full}]
    /\ new \in [Procs -> PageTables]
    /\ panicked = FALSE

\* Which tables a slot has at which point.
Build ==
    \A p \in Procs :
      /\ pc[p] \notin {"map", "made"} => new[p] = NoTable
      /\ pc[p] = "map" => Partial(new[p])
      /\ pc[p] = "made" => new[p] = Full
      /\ pc[p] \in {"copy", "run"} => pt[p] = Full

\* pids are handed out once, and the page holds the slot's.
Pids ==
    /\ pid \in [Procs -> Nat] /\ us \in [Procs -> Int] /\ nextpid \in Nat \ {0}
    /\ \A p \in Procs :
         /\ pid[p] < nextpid
         /\ pc[p] # "unused" => pid[p] > 0
         /\ pc[p] \notin {"unused", "tf", "us", "free"} => us[p] = pid[p]
         /\ \A q \in Procs \ {p} : pid[p] > 0 => pid[q] # pid[p]

Inv == Shape /\ Build /\ Pids

-----------------------------------------------------------------------------
\* The three special pages share all their tables.
LEMMA TablesAre == /\ Tables = {"root", "l1", "l0"}
                   /\ \A va \in Special : Path(va) = Tables
                   /\ Full \in PageTables /\ NoTable \in PageTables
                   /\ Full # NoTable
  <1>1. \A va : Path(va) = {"root", "l1", "l0"}
    BY DEF Path, LeafOf
  <1>2. Tables = {"root", "l1", "l0"}
    BY <1>1 DEF Tables, Special
  <1>3. Full \in PageTables /\ NoTable \in PageTables
    BY DEF Full, NoTable, PageTables
  <1>4. Full.tabs # NoTable.tabs
    BY <1>2 DEF Full, NoTable
  <1> QED BY <1>1, <1>2, <1>3, <1>4

\* proc_pagetable takes its failure path only at the first mapping, which
\* has nothing to undo.
LEMMA FailsFirst ==
  ASSUME NEW t, Partial(t), Path(NextVA(t)) \ t.tabs # {}
  PROVE  t.map = {} /\ TakesDown(t, UndoOf(NextVA(t)))
  <1>1. NextVA(t) \in Special
    BY DEF NextVA, Special
  <1>2. t.map = {}
    BY <1>1, TablesAre DEF Partial
  <1>3. NextVA(t) = "TRAMPOLINE"
    BY <1>2 DEF NextVA
  <1> QED BY <1>2, <1>3 DEF TakesDown, UndoOf

\* Adding a table changes no mapping.
LEMMA MoreTables ==
  ASSUME NEW t \in PageTables, NEW x
  PROVE  [t EXCEPT !.tabs = x] = [tabs |-> x, map |-> t.map]
  BY DEF PageTables

\* A complete table is taken down without a panic.
LEMMA FullTakesDown == TakesDown(Full, UnmapAll)
  BY DEF TakesDown, Full, UnmapAll, Special

\* The mappings are made in order, and after the third the table is full.
LEMMA MapsInOrder ==
  ASSUME NEW t, Partial(t), Path(NextVA(t)) \ t.tabs = {},
         NEW u, u = [t EXCEPT !.map = @ \cup {NextVA(t)}]
  PROVE  IF NextVA(t) = "USYSCALL" THEN u = Full ELSE Partial(u)
  <1>1. NextVA(t) \in Special
    BY DEF NextVA, Special
  <1>2. t \in PageTables /\ t.tabs \in SUBSET Tables /\ t.map \in SUBSET Special
    BY DEF Partial, PageTables
  <1>3. t.tabs = Tables
    BY <1>1, <1>2, TablesAre
  <1>4. u = [tabs |-> Tables, map |-> t.map \cup {NextVA(t)}]
    BY <1>2, <1>3 DEF PageTables
  <1>5. u \in PageTables
    BY <1>1, <1>2, <1>4 DEF PageTables
  <1>6. CASE t.map = {}
    <2>1. NextVA(t) = "TRAMPOLINE"
      BY <1>6 DEF NextVA
    <2>2. u.map = {"TRAMPOLINE"}
      BY <1>4, <1>6, <2>1
    <2> QED BY <1>4, <1>5, <2>1, <2>2 DEF Partial
  <1>7. CASE t.map = {"TRAMPOLINE"}
    <2>1. NextVA(t) = "TRAPFRAME"
      BY <1>7 DEF NextVA
    <2>2. u.map = {"TRAMPOLINE", "TRAPFRAME"}
      BY <1>4, <1>7, <2>1
    <2> QED BY <1>4, <1>5, <2>1, <2>2 DEF Partial
  <1>8. CASE t.map = {"TRAMPOLINE", "TRAPFRAME"}
    <2>1. NextVA(t) = "USYSCALL"
      BY <1>8 DEF NextVA
    <2>2. u.map = Special
      BY <1>4, <1>8, <2>1 DEF Special
    <2> QED BY <1>4, <2>1, <2>2 DEF Full
  <1> QED BY <1>6, <1>7, <1>8 DEF Partial

-----------------------------------------------------------------------------
\* The invariant holds before the first process.
LEMMA InitInv == Init => Inv
  <1> SUFFICES ASSUME Init PROVE Inv
    OBVIOUS
  <1>1. Shape
    BY TablesAre DEF Init, Shape, PCs
  <1>2. Build
    BY DEF Init, Build
  <1>3. Pids
    BY DEF Init, Pids, None
  <1> QED BY <1>1, <1>2, <1>3 DEF Inv

\* What a step of slot p leaves alone, and what it has to show.
LEMMA OneSlot ==
  ASSUME Inv, NEW p \in Procs,
         NEW where \in PCs, NEW t \in {NoTable, Full}, NEW n \in PageTables,
         pc' = [pc EXCEPT ![p] = where],
         pt' = [pt EXCEPT ![p] = t], new' = [new EXCEPT ![p] = n],
         panicked' = panicked,
         where \notin {"map", "made"} => n = NoTable,
         where = "map" => Partial(n),
         where = "made" => n = Full,
         where \in {"copy", "run"} => t = Full
  PROVE  Shape' /\ Build'
  <1>1. Shape'
    BY DEF Inv, Shape
  <1>2. Build'
    BY DEF Inv, Shape, Build
  <1> QED BY <1>1, <1>2

\* A step that changes no table and is not inside proc_pagetable.
LEMMA SameTables ==
  ASSUME Inv, NEW p \in Procs, NEW where \in PCs,
         pc' = [pc EXCEPT ![p] = where], UNCHANGED <<pt, new, panicked>>,
         pc[p] \notin {"map", "made"}, where \notin {"map", "made"},
         where \in {"copy", "run"} => pt[p] = Full
  PROVE  Shape' /\ Build'
  <1>1. Shape'
    BY DEF Inv, Shape
  <1>2. Build'
    BY DEF Inv, Shape, Build
  <1> QED BY <1>1, <1>2

\* A step inside proc_pagetable.
LEMMA BuildStep ==
  ASSUME Inv, NEW p \in Procs, NEW n, Partial(n),
         pc' = [pc EXCEPT ![p] = "map"], new' = [new EXCEPT ![p] = n],
         UNCHANGED <<pt, panicked>>
  PROVE  Shape' /\ Build'
  <1>1. n \in PageTables
    BY DEF Partial
  <1>2. Shape'
    BY <1>1 DEF Inv, Shape, PCs
  <1>3. Build'
    BY DEF Inv, Shape, Build
  <1> QED BY <1>2, <1>3

\* A step that changes no pid, and that leaves a slot whose page was filled
\* filled, or has it freed.
LEMMA SamePids ==
  ASSUME Inv, NEW p \in Procs, NEW where \in PCs,
         pc' = [pc EXCEPT ![p] = where], UNCHANGED <<pid, us, nextpid>>,
         where = "unused" => pc[p] = "unused",
         pc[p] = "unused" => where = "unused",
         where \in {"unused", "tf", "us", "free"}
           \/ pc[p] \notin {"unused", "tf", "us", "free"}
  PROVE  Pids'
  BY DEF Inv, Shape, Pids

\* Every step of allocproc, proc_pagetable, exec and freeproc keeps the
\* invariant.
LEMMA StepInv ==
  ASSUME Inv, [Next]_vars
  PROVE  Inv'
  <1>1. CASE UNCHANGED vars
    BY <1>1 DEF Inv, Shape, Build, Pids, vars
  <1>2. CASE OthersAlloc \/ OthersFree
    BY <1>2 DEF OthersAlloc, OthersFree, Inv, Shape, Build, Pids
  <1>3. ASSUME NEW p \in Procs,
               \/ AllocSlot(p) \/ AllocTrapframe(p) \/ AllocUsyscall(p) \/ AllocFail(p)
               \/ uvmcreate(p) \/ walk(p) \/ mappages(p) \/ MapFail(p)
               \/ AllocDone(p) \/ Forked(p) \/ Exec(p) \/ ExecEnd(p) \/ Exit(p)
               \/ freeproc(p)
        PROVE  Inv'
    <2>0. /\ pc[p] \in PCs /\ pt[p] \in {NoTable, Full} /\ new[p] \in PageTables
          /\ pc \in [Procs -> PCs] /\ pt \in [Procs -> {NoTable, Full}]
          /\ new \in [Procs -> PageTables] /\ panicked = FALSE
      BY DEF Inv, Shape
    <2>a. /\ pc = [pc EXCEPT ![p] = pc[p]] /\ pt = [pt EXCEPT ![p] = pt[p]]
          /\ new = [new EXCEPT ![p] = new[p]]
      BY <2>0
    <2>b. NoTable \in PageTables /\ Full \in PageTables
      BY TablesAre
    <2>c. /\ pc[p] \notin {"map", "made"} => new[p] = NoTable
          /\ pc[p] = "map" => Partial(new[p])
          /\ pc[p] = "made" => new[p] = Full
          /\ pc[p] \in {"copy", "run"} => pt[p] = Full
      BY DEF Inv, Build
    <2>1. CASE AllocSlot(p)
      <3>1. Shape' /\ Build'
        <4>1. pc' = [pc EXCEPT ![p] = "tf"] /\ pt' = pt /\ new' = new /\ panicked' = panicked
              /\ pc[p] = "unused"
          BY <2>1 DEF AllocSlot, Goto
        <4> QED BY <4>1, SameTables DEF PCs
      <3>2. Pids'
        <4>1. /\ pc' = [pc EXCEPT ![p] = "tf"] /\ us' = us
              /\ pid' = [pid EXCEPT ![p] = nextpid] /\ nextpid' = nextpid + 1
          BY <2>1 DEF AllocSlot, Goto
        <4> QED BY <4>1, <2>0 DEF Inv, Pids, PCs
      <3> QED BY <3>1, <3>2 DEF Inv
    <2>2. CASE AllocTrapframe(p)
      <3>1. /\ pc' = [pc EXCEPT ![p] = "us"] /\ pt' = pt /\ new' = new /\ panicked' = panicked
            /\ pc[p] = "tf" /\ UNCHANGED <<pid, us, nextpid>>
        BY <2>2 DEF AllocTrapframe, Goto
      <3>2. Shape' /\ Build'
        BY <3>1, SameTables DEF PCs
      <3>3. Pids'
        BY <3>1, SamePids DEF PCs
      <3> QED BY <3>2, <3>3 DEF Inv
    <2>3. CASE AllocUsyscall(p)
      <3>1. /\ pc' = [pc EXCEPT ![p] = "root"] /\ pt' = pt /\ new' = new /\ panicked' = panicked
            /\ pc[p] = "us" /\ UNCHANGED <<pid, nextpid>>
            /\ us' = [us EXCEPT ![p] = pid[p]]
        BY <2>3 DEF AllocUsyscall, UsyscallPid, Goto
      <3>2. Shape' /\ Build'
        BY <3>1, SameTables DEF PCs
      <3>3. Pids'
        BY <3>1, <2>0 DEF Inv, Pids, PCs
      <3> QED BY <3>2, <3>3 DEF Inv
    <2>4. CASE AllocFail(p) \/ Forked(p) \/ Exec(p) \/ Exit(p)
      <3>1. PICK where \in {"free", "run", "root"} :
               /\ pc' = [pc EXCEPT ![p] = where]
               /\ pc[p] \in {"tf", "us"} => where = "free"
               /\ pc[p] \in {"tf", "us", "copy", "run"}
        BY <2>4 DEF AllocFail, Forked, Exec, Exit, Goto
      <3>2. /\ pt' = pt /\ new' = new /\ panicked' = panicked
            /\ UNCHANGED <<pid, us, nextpid>>
        BY <2>4 DEF AllocFail, Forked, Exec, Exit
      <3>3. where \in PCs
        BY DEF PCs
      <3>4. Shape' /\ Build'
        BY <3>1, <3>2, <3>3, <2>c, SameTables
      <3>5. Pids'
        BY <3>1, <3>2, <3>3, SamePids
      <3> QED BY <3>4, <3>5 DEF Inv
    <2>5. CASE uvmcreate(p)
      <3>0. pc[p] = "root" /\ pt' = pt /\ panicked' = panicked /\ UNCHANGED <<pid, us, nextpid>>
        BY <2>5 DEF uvmcreate
      <3>1. CASE /\ new' = [new EXCEPT ![p].tabs = {"root"}]
                 /\ Goto(p, "map")
        <4>0. [new[p] EXCEPT !.tabs = {"root"}] = [tabs |-> {"root"}, map |-> {}]
          BY <3>0, <2>c DEF NoTable
        <4>1. new' = [new EXCEPT ![p] = [tabs |-> {"root"}, map |-> {}]]
          BY <3>1, <4>0
        <4>2. Partial([tabs |-> {"root"}, map |-> {}])
          BY TablesAre DEF Partial, PageTables
        <4>3. Shape' /\ Build'
          BY <3>0, <3>1, <4>1, <4>2, BuildStep DEF Goto
        <4>4. Pids'
          BY <3>0, <3>1, SamePids DEF Goto, PCs
        <4> QED BY <4>3, <4>4 DEF Inv
      <3>2. CASE Goto(p, ReturnZero(p)) /\ new' = new
        <4>1. ReturnZero(p) \in PCs
          BY DEF ReturnZero, PCs
        <4>2. ReturnZero(p) \in {"free", "run"} /\ (ReturnZero(p) = "run" => pt[p] = Full)
          BY <2>0 DEF ReturnZero
        <4>3. Shape' /\ Build'
          BY <3>0, <3>2, <4>1, <4>2, SameTables DEF Goto
        <4>4. Pids'
          BY <3>0, <3>2, <4>1, <4>2, SamePids DEF Goto
        <4> QED BY <4>3, <4>4 DEF Inv
      <3> QED BY <2>5, <3>1, <3>2 DEF uvmcreate
    <2>6. CASE walk(p)
      <3>1. PICK table \in {"l1", "l0"} : new' = [new EXCEPT ![p].tabs = @ \cup {table}]
        BY <2>6 DEF walk, LeafOf
      <3>2. pc[p] = "map" /\ pc' = pc /\ pt' = pt /\ panicked' = panicked
            /\ UNCHANGED <<pid, us, nextpid>> /\ Missing(p) # {}
        BY <2>6 DEF walk
      <3>3. new[p].map = {} /\ new[p].tabs \in SUBSET Tables
        BY <3>2, <2>c, FailsFirst DEF Missing, Partial, PageTables
      <3>0. new' = [new EXCEPT ![p] = [new[p] EXCEPT !.tabs = new[p].tabs \cup {table}]]
        BY <3>1
      <3>4. new' = [new EXCEPT ![p] = [tabs |-> new[p].tabs \cup {table}, map |-> {}]]
        <4>1. [new[p] EXCEPT !.tabs = new[p].tabs \cup {table}]
                = [tabs |-> new[p].tabs \cup {table}, map |-> new[p].map]
          BY <2>0, MoreTables
        <4> QED BY ONLY <3>0, <3>3, <4>1
      <3>5. Partial([tabs |-> new[p].tabs \cup {table}, map |-> {}])
        BY <3>3, TablesAre DEF Partial, PageTables
      <3>6. Shape' /\ Build'
        BY <3>2, <3>4, <3>5, <2>a, BuildStep
      <3>7. Pids'
        BY <3>2, <2>0, <2>a, SamePids
      <3> QED BY <3>6, <3>7 DEF Inv
    <2>7. CASE mappages(p)
      <3> DEFINE va == NextVA(new[p])
                 u == [new[p] EXCEPT !.map = @ \cup {va}]
                 where == IF va = "USYSCALL" THEN "made" ELSE "map"
      <3>1. /\ pc[p] = "map" /\ Missing(p) = {} /\ pc' = [pc EXCEPT ![p] = where]
            /\ new' = [new EXCEPT ![p].map = @ \cup {va}]
            /\ pt' = pt /\ panicked' = panicked /\ UNCHANGED <<pid, us, nextpid>>
        BY <2>7 DEF mappages, Goto
      <3>2. new' = [new EXCEPT ![p] = u]
        BY <3>1
      <3>3. IF va = "USYSCALL" THEN u = Full ELSE Partial(u)
        BY <3>1, <2>c, MapsInOrder DEF Missing
      <3>4. u \in PageTables /\ where \in PCs
        BY <3>3, <2>b DEF Partial, PCs
      <3>5. where \in {"made", "map"} /\ (where = "made" => u = Full) /\ (where = "map" => Partial(u))
        BY <3>3
      <3> HIDE DEF u, where, va
      <3>6. Shape' /\ Build'
        BY <3>1, <3>2, <3>4, <3>5, <2>0, <2>a, OneSlot
      <3>7. Pids'
        BY <3>1, <3>4, <3>5, SamePids
      <3> QED BY <3>6, <3>7 DEF Inv
    <2>8. CASE MapFail(p)
      <3>1. pc[p] = "map" /\ Missing(p) # {}
        BY <2>8 DEF MapFail
      <3>2. TakesDown(new[p], UndoOf(NextVA(new[p])))
        BY <3>1, <2>c, FailsFirst DEF Missing
      <3>3. /\ new' = [new EXCEPT ![p] = NoTable] /\ pc' = [pc EXCEPT ![p] = ReturnZero(p)]
            /\ pt' = pt /\ panicked' = panicked /\ UNCHANGED <<pid, us, nextpid>>
        BY <2>8, <3>2 DEF MapFail, Goto
      <3>4. ReturnZero(p) \in PCs
        BY DEF ReturnZero, PCs
      <3>5. ReturnZero(p) \in {"free", "run"} /\ (ReturnZero(p) = "run" => pt[p] = Full)
        BY <2>0 DEF ReturnZero
      <3>6. Shape' /\ Build'
        BY <3>3, <3>4, <3>5, <2>0, <2>a, <2>b, OneSlot
      <3>7. Pids'
        BY <3>1, <3>3, <3>4, <3>5, SamePids
      <3> QED BY <3>6, <3>7 DEF Inv
    <2>9. CASE AllocDone(p)
      <3>1. /\ pc[p] = "made" /\ pc' = [pc EXCEPT ![p] = "copy"]
            /\ pt' = [pt EXCEPT ![p] = new[p]] /\ new' = [new EXCEPT ![p] = NoTable]
            /\ panicked' = panicked /\ UNCHANGED <<pid, us, nextpid>>
        BY <2>9 DEF AllocDone, Goto
      <3>2. Shape' /\ Build'
        BY <3>1, <2>b, <2>c, OneSlot DEF PCs
      <3>3. Pids'
        BY <3>1, SamePids DEF PCs
      <3> QED BY <3>2, <3>3 DEF Inv
    <2>10. CASE ExecEnd(p)
      <3>1. pc[p] = "made" /\ pt[p] = Full /\ new[p] = Full
        BY <2>10, <2>0, <2>c DEF ExecEnd
      <3>2. /\ pc' = [pc EXCEPT ![p] = "run"]
            /\ pt' = [pt EXCEPT ![p] = Full] /\ new' = [new EXCEPT ![p] = NoTable]
            /\ panicked' = panicked /\ UNCHANGED <<pid, us, nextpid>>
        BY <2>10, <3>1, FullTakesDown DEF ExecEnd, Goto
      <3>3. Shape' /\ Build'
        BY <3>2, <2>b, OneSlot DEF PCs
      <3>4. Pids'
        BY <3>1, <3>2, SamePids DEF PCs
      <3> QED BY <3>3, <3>4 DEF Inv
    <2>11. CASE freeproc(p)
      <3>1. pc[p] = "free" /\ new[p] = NoTable
        BY <2>11, <2>c DEF freeproc
      <3>2. ~(pt[p] # NoTable /\ ~TakesDown(pt[p], UnmapAll))
        BY <2>0, FullTakesDown
      <3>3. /\ pc' = [pc EXCEPT ![p] = "unused"]
            /\ pt' = [pt EXCEPT ![p] = NoTable] /\ new' = new
            /\ panicked' = panicked /\ nextpid' = nextpid
            /\ us' = [us EXCEPT ![p] = None] /\ pid' = [pid EXCEPT ![p] = 0]
        BY <2>11, <3>2 DEF freeproc, Goto, ClearUs
      <3>4. Shape' /\ Build'
        BY <3>1, <3>3, <2>a, <2>b, OneSlot DEF PCs
      <3>5. Pids'
        BY <3>3, <2>0 DEF Inv, Pids, None
      <3> QED BY <3>4, <3>5 DEF Inv
    <2> QED BY <1>3, <2>1, <2>2, <2>3, <2>4, <2>5, <2>6, <2>7, <2>8, <2>9, <2>10, <2>11
  <1> QED BY <1>1, <1>2, <1>3 DEF Next

-----------------------------------------------------------------------------
\* The invariant holds in every reachable state.
THEOREM Invariant == Spec => []Inv
  <1>1. Init => Inv
    BY InitInv
  <1>2. Inv /\ [Next]_vars => Inv'
    BY StepInv
  <1> QED BY <1>1, <1>2, PTL DEF Spec

\* proc_pagetable, proc_freepagetable, exec and freeproc never make uvmunmap
\* or freewalk panic, whichever allocation fails.
THEOREM NeverPanics == Spec => []NoPanic
  <1>1. Inv => NoPanic
    BY DEF Inv, Shape, NoPanic
  <1> QED BY <1>1, Invariant, PTL

\* ugetpid() is right in every state in which the program can run.
THEOREM UgetpidRight == Spec => []PidRight
  <1>1. Inv => PidRight
    BY DEF Inv, Build, Pids, PidRight, Full
  <1> QED BY <1>1, Invariant, PTL

-----------------------------------------------------------------------------
(* Pages.                                                                  *)

\* What a slot has not allocated yet it does not hold.
Slots ==
    /\ tf \in [Procs -> BOOLEAN] /\ us \in [Procs -> None .. MaxPid]
    /\ free \in Nat /\ others \in Nat /\ nextpid <= MaxPid + 1
    /\ \A p \in Procs :
         /\ pc[p] \in {"unused", "tf"} => ~tf[p]
         /\ pc[p] \in {"unused", "tf", "us"} => us[p] = None /\ pt[p] = NoTable
         /\ pc[p] = "map" => "root" \in new[p].tabs

Accounts == Slots /\ IsFiniteSet(Held) /\ PagesConserved

\* Some pages are given back and others taken.
LEMMA Exchange ==
  ASSUME NEW S, IsFiniteSet(S), NEW X \in SUBSET S, NEW Y, IsFiniteSet(Y), S \cap Y = {}
  PROVE  /\ IsFiniteSet((S \ X) \cup Y) /\ IsFiniteSet(X)
         /\ Cardinality((S \ X) \cup Y) = Cardinality(S) - Cardinality(X) + Cardinality(Y)
         /\ Cardinality(S) \in Nat /\ Cardinality(X) \in Nat /\ Cardinality(Y) \in Nat
  <1>1. S \cap X = X /\ (S \ X) \cap Y = {}
    OBVIOUS
  <1>a. IsFiniteSet(X)
    BY FS_Subset
  <1>b. IsFiniteSet(S \ X) /\ Cardinality(S \ X) = Cardinality(S) - Cardinality(S \cap X)
    BY FS_Difference
  <1>2. IsFiniteSet(X) /\ IsFiniteSet(S \ X) /\ Cardinality(S \ X) = Cardinality(S) - Cardinality(X)
    BY <1>1, <1>a, <1>b
  <1>3. /\ IsFiniteSet((S \ X) \cup Y)
        /\ Cardinality((S \ X) \cup Y) = Cardinality(S \ X) + Cardinality(Y) - Cardinality({})
    BY <1>1, <1>2, FS_Union
  <1>4. /\ Cardinality(S) \in Nat /\ Cardinality(X) \in Nat /\ Cardinality(Y) \in Nat
        /\ Cardinality({}) = 0
    BY <1>2, FS_CardinalityType, FS_EmptySet
  <1> QED BY <1>2, <1>3, <1>4

\* The tables of a page table, as pages.
TablePages(p, use, tabs) == {<<p, use, t>> : t \in tabs}

LEMMA TablePagesCount ==
  ASSUME NEW p, NEW use, NEW tabs \in SUBSET Tables
  PROVE  /\ IsFiniteSet(TablePages(p, use, tabs)) /\ IsFiniteSet(tabs)
         /\ Cardinality(TablePages(p, use, tabs)) = Cardinality(tabs)
  <1>1. IsFiniteSet(tabs)
    <2>1. IsFiniteSet((({} \cup {"root"}) \cup {"l1"}) \cup {"l0"})
      BY FS_EmptySet, FS_AddElement
    <2>2. Tables = (({} \cup {"root"}) \cup {"l1"}) \cup {"l0"}
      BY TablesAre
    <2> QED BY <2>1, <2>2, FS_Subset
  <1> DEFINE f == [t \in tabs |-> <<p, use, t>>]
             T == TablePages(p, use, tabs)
  <1>2. f \in [tabs -> T] /\ \A a, b \in tabs : f[a] = f[b] => a = b
    BY DEF TablePages
  <1>3. \A y \in T : \E x \in tabs : f[x] = y
    BY DEF TablePages
  <1>4. f \in Bijection(tabs, T)
    <2> HIDE DEF f, T
    <2> QED BY <1>2, <1>3, Fun_IsBij
  <1>5. ExistsBijection(tabs, T)
    BY <1>4 DEF ExistsBijection
  <1> QED BY <1>1, <1>5, FS_Bijection

\* What a step does to the pages that are held.
LEMMA HeldStep ==
  ASSUME NEW X, NEW Y \in SUBSET (Procs \X Uses \X (Tables \cup {"page"})),
         \A q \in Procs, use \in Uses, t \in Tables \cup {"page"} :
           Holds(q, use, t)' <=> (Holds(q, use, t) /\ <<q, use, t>> \notin X) \/ <<q, use, t>> \in Y
  PROVE  Held' = (Held \ X) \cup Y
  <1> DEFINE D == Procs \X Uses \X (Tables \cup {"page"})
  <1>1. ASSUME NEW h \in D PROVE h \in Held' <=> h \in (Held \ X) \cup Y
    <2>1. PICK q \in Procs, use \in Uses, t \in Tables \cup {"page"} : h = <<q, use, t>>
      OBVIOUS
    <2>2. h \in Held <=> Holds(q, use, t)
      BY <2>1 DEF Held
    <2>3. h \in Held' <=> Holds(q, use, t)'
      BY <2>1 DEF Held
    <2> QED BY <2>1, <2>2, <2>3
  <1>2. Held \in SUBSET D /\ Held' \in SUBSET D
    BY DEF Held
  <1> QED BY <1>1, <1>2

\* The free list pays for what is taken and gets what is given back.
LEMMA Balance ==
  ASSUME IsFiniteSet(Held), PagesConserved, NEW X \in SUBSET Held, NEW Y, IsFiniteSet(Y), Held \cap Y = {},
         free \in Nat, others \in Nat, free' \in Nat, others' \in Nat, Held' = (Held \ X) \cup Y,
         free' + others' + Cardinality(Y) = free + others + Cardinality(X)
  PROVE  IsFiniteSet(Held') /\ PagesConserved'
  <1>1. /\ IsFiniteSet(Held') /\ Cardinality(Held) \in Nat /\ Cardinality(X) \in Nat /\ Cardinality(Y) \in Nat
        /\ Cardinality(Held') = Cardinality(Held) - Cardinality(X) + Cardinality(Y)
    BY ZenonT(60), Exchange
  <1>2. NPages = free' + others' + Cardinality(Held')
    BY <1>1 DEF PagesConserved
  <1> QED BY <1>1, <1>2 DEF PagesConserved

\* One kalloc for one new page of slot p.
LEMMA TakeOne ==
  ASSUME IsFiniteSet(Held), PagesConserved, NEW p \in Procs, NEW use \in Uses, NEW t \in Tables \cup {"page"},
         free \in Nat, others \in Nat, kalloc, others' = others, ~Holds(p, use, t),
         \A q \in Procs, u \in Uses, x \in Tables \cup {"page"} :
           Holds(q, u, x)' <=> Holds(q, u, x) \/ (q = p /\ u = use /\ x = t)
  PROVE  IsFiniteSet(Held') /\ PagesConserved'
  <1> DEFINE Y == {<<p, use, t>>}
  <1>1. Held' = (Held \ {}) \cup Y
    <2>1. Y \in SUBSET (Procs \X Uses \X (Tables \cup {"page"}))
      OBVIOUS
    <2>2. \A q \in Procs, u \in Uses, x \in Tables \cup {"page"} :
            Holds(q, u, x)' <=> (Holds(q, u, x) /\ <<q, u, x>> \notin {}) \/ <<q, u, x>> \in Y
      OBVIOUS
    <2> HIDE DEF Y
    <2> QED BY <2>1, <2>2, HeldStep
  <1>2. Held \cap Y = {}
    BY DEF Held
  <1>3. IsFiniteSet(Y) /\ Cardinality(Y) = 1 /\ Cardinality({}) = 0
    BY FS_Singleton, FS_EmptySet
  <1>4. free' \in Nat /\ free' = free - 1 /\ free \in Nat /\ others \in Nat /\ others' = others
    BY DEF kalloc
  <1> HIDE DEF Y
  <1>5. {} \in SUBSET Held
    OBVIOUS
  <1>6. others' \in Nat /\ free' + others' + 1 = free + others + 0
    BY ONLY <1>4
  <1>7. free' + others' + Cardinality(Y) = free + others + Cardinality({})
    BY ONLY <1>3, <1>6
  <1> QED BY <1>1, <1>2, <1>3, <1>4, <1>5, <1>6, <1>7, Balance

\* Slot p gives back the tables of one page table.
LEMMA GiveTables ==
  ASSUME IsFiniteSet(Held), PagesConserved, NEW p \in Procs, NEW use \in {"pt", "new"}, NEW tabs \in SUBSET Tables,
         free \in Nat, others \in Nat, kfree(Cardinality(tabs)), others' = others,
         \A t \in tabs : Holds(p, use, t),
         \A q \in Procs, u \in Uses, x \in Tables \cup {"page"} :
           Holds(q, u, x)' <=> Holds(q, u, x) /\ ~(q = p /\ u = use /\ x \in tabs)
  PROVE  IsFiniteSet(Held') /\ PagesConserved'
  <1> DEFINE X == TablePages(p, use, tabs)
  <1>1. IsFiniteSet(X) /\ Cardinality(X) = Cardinality(tabs) /\ Cardinality(X) \in Nat
    BY TablePagesCount, FS_CardinalityType
  <1>2. X \in SUBSET Held
    BY DEF TablePages, Held, Uses
  <1>3. Held' = (Held \ X) \cup {}
    <2>1. \A q \in Procs, u \in Uses, x \in Tables \cup {"page"} : <<q, u, x>> \in X <=> q = p /\ u = use /\ x \in tabs
      BY DEF TablePages
    <2>2. \A q \in Procs, u \in Uses, x \in Tables \cup {"page"} :
            Holds(q, u, x)' <=> (Holds(q, u, x) /\ <<q, u, x>> \notin X) \/ <<q, u, x>> \in {}
      BY <2>1
    <2> HIDE DEF X
    <2> QED BY <2>2, HeldStep
  <1>4. IsFiniteSet({}) /\ Cardinality({}) = 0
    BY FS_EmptySet
  <1>5. free' = free + Cardinality(X)
    BY <1>1 DEF kfree
  <1>6. /\ Held \cap {} = {} /\ others' \in Nat /\ free' \in Nat
        /\ free' + others' + Cardinality({}) = free + others + Cardinality(X)
    BY <1>1, <1>4, <1>5
  <1> HIDE DEF X
  <1> QED BY <1>1, <1>2, <1>3, <1>4, <1>6, Balance

\* Pages change neither hands nor number.
LEMMA SamePages ==
  ASSUME IsFiniteSet(Held), PagesConserved, UNCHANGED <<tf, us, pt, free, others>>,
         \A q \in Procs : new'[q].tabs = new[q].tabs
  PROVE  IsFiniteSet(Held') /\ PagesConserved'
  <1>1. \A q \in Procs, u \in Uses, x \in Tables \cup {"page"} : Holds(q, u, x)' <=> Holds(q, u, x)
    BY DEF Holds
  <1>2. Held' = (Held \ {}) \cup {}
    BY <1>1, HeldStep
  <1>3. Held' = Held
    BY <1>2
  <1> QED BY <1>3 DEF PagesConserved

\* freeproc gives back everything that slot p holds.
LEMMA GiveSlot ==
  ASSUME Inv, Accounts, NEW p \in Procs, pc[p] = "free",
         kfree((IF tf[p] THEN 1 ELSE 0) + FreedUs(p) + Cardinality(pt[p].tabs)),
         tf' = [tf EXCEPT ![p] = FALSE], us' = [us EXCEPT ![p] = None], pt' = [pt EXCEPT ![p] = NoTable],
         new' = new, others' = others
  PROVE  IsFiniteSet(Held') /\ PagesConserved' /\ free' \in Nat
  <1>1. /\ tf \in [Procs -> BOOLEAN] /\ us \in [Procs -> None .. MaxPid] /\ pt \in [Procs -> PageTables]
        /\ free \in Nat /\ others \in Nat /\ new[p] = NoTable
    BY TablesAre DEF Inv, Shape, Build, Accounts, Slots
  <1> DEFINE tabs == pt[p].tabs
             A == IF tf[p] THEN {<<p, "trapframe", "page">>} ELSE {}
             B == IF us[p] = None THEN {} ELSE {<<p, "usyscall", "page">>}
             C == TablePages(p, "pt", tabs)
             X == (A \cup B) \cup C
  <1>2. tabs \in SUBSET Tables
    BY <1>1 DEF PageTables
  <1>3. /\ IsFiniteSet(A) /\ Cardinality(A) = IF tf[p] THEN 1 ELSE 0
        /\ IsFiniteSet(B) /\ Cardinality(B) = FreedUs(p)
    BY FS_Singleton, FS_EmptySet DEF FreedUs
  <1>4. IsFiniteSet(C) /\ Cardinality(C) = Cardinality(tabs)
    BY <1>2, TablePagesCount
  <1>5. A \cap B = {} /\ (A \cup B) \cap C = {}
    BY DEF TablePages
  <1>6. X \in SUBSET Held
    <2>1. A \in SUBSET Held /\ B \in SUBSET Held
      BY DEF Held, Holds, Uses
    <2>2. C \in SUBSET Held
      BY <1>2 DEF Held, Holds, Uses, TablePages
    <2> QED BY <2>1, <2>2
  <1>7. Held' = (Held \ X) \cup {}
    <2>1. ASSUME NEW q \in Procs, NEW u \in Uses, NEW x \in Tables \cup {"page"}
          PROVE  Holds(q, u, x)' <=> Holds(q, u, x) /\ <<q, u, x>> \notin X
      <3>1. CASE q = p
        <4>1. ~Holds(q, u, x)'
          BY <1>1, <3>1 DEF Holds, NoTable
        <4>2. Holds(q, u, x) => <<q, u, x>> \in X
          BY <1>1, <3>1 DEF Holds, NoTable, TablePages
        <4> QED BY <4>1, <4>2
      <3>2. CASE q # p
        <4>1. <<q, u, x>> \notin X
          BY <3>2 DEF TablePages
        <4>2. tf'[q] = tf[q] /\ us'[q] = us[q] /\ pt'[q] = pt[q] /\ new'[q] = new[q]
          BY <1>1, <3>2
        <4>3. Holds(q, u, x)' <=> Holds(q, u, x)
          BY <4>2 DEF Holds
        <4> QED BY <4>1, <4>3
      <3> QED BY <3>1, <3>2
    <2> HIDE DEF X
    <2>2. \A q \in Procs, u \in Uses, x \in Tables \cup {"page"} :
            Holds(q, u, x)' <=> (Holds(q, u, x) /\ <<q, u, x>> \notin X) \/ <<q, u, x>> \in {}
      BY <2>1
    <2> QED BY <2>2, HeldStep
  <1> HIDE DEF A, B, C, tabs
  <1>8. /\ IsFiniteSet(A \cup B) /\ IsFiniteSet(X)
        /\ Cardinality(A \cup B) = Cardinality(A) + Cardinality(B) - Cardinality({})
        /\ Cardinality(X) = Cardinality(A \cup B) + Cardinality(C) - Cardinality({})
    <2>1. /\ IsFiniteSet(A \cup B)
          /\ Cardinality(A \cup B) = Cardinality(A) + Cardinality(B) - Cardinality(A \cap B)
      BY <1>3, FS_Union
    <2>2. /\ IsFiniteSet((A \cup B) \cup C)
          /\ Cardinality((A \cup B) \cup C)
               = Cardinality(A \cup B) + Cardinality(C) - Cardinality((A \cup B) \cap C)
      BY <1>4, <2>1, FS_Union
    <2> QED BY <1>5, <2>1, <2>2
  <1>9. /\ Cardinality({}) = 0 /\ IsFiniteSet({})
        /\ Cardinality(A) \in Nat /\ Cardinality(B) \in Nat /\ Cardinality(C) \in Nat
    BY <1>3, <1>4, FS_EmptySet, FS_CardinalityType
  <1>10. Cardinality(X) \in Nat /\ Cardinality(X) = Cardinality(A) + Cardinality(B) + Cardinality(C)
    BY <1>8, <1>9
  <1> HIDE DEF X
  <1>11. free' = free + (Cardinality(A) + Cardinality(B) + Cardinality(C))
    BY <1>3, <1>4 DEF kfree, tabs
  <1>12. free' = free + Cardinality(X) /\ free' \in Nat /\ others' \in Nat
    BY <1>1, <1>10, <1>11
  <1>13. /\ Held \cap {} = {}
         /\ free' + others' + Cardinality({}) = free + others + Cardinality(X)
    BY <1>1, <1>9, <1>10, <1>12
  <1> QED BY <1>1, <1>6, <1>7, <1>9, <1>12, <1>13, Balance DEF Accounts

\* A step of slot p leaves the other slots alone.
LEMMA SlotsStep ==
  ASSUME Slots, NEW p \in Procs,
         tf' \in [Procs -> BOOLEAN], us' \in [Procs -> None .. MaxPid], free' \in Nat, others' \in Nat,
         nextpid' <= MaxPid + 1,
         \A q \in Procs \ {p} : /\ pc'[q] = pc[q] /\ tf'[q] = tf[q] /\ us'[q] = us[q]
                                /\ pt'[q] = pt[q] /\ new'[q] = new[q],
         pc'[p] \in {"unused", "tf"} => ~tf'[p],
         pc'[p] \in {"unused", "tf", "us"} => us'[p] = None /\ pt'[p] = NoTable,
         pc'[p] = "map" => "root" \in new'[p].tabs
  PROVE  Slots'
  <1>1. ASSUME NEW q \in Procs
        PROVE  /\ pc'[q] \in {"unused", "tf"} => ~tf'[q]
               /\ pc'[q] \in {"unused", "tf", "us"} => us'[q] = None /\ pt'[q] = NoTable
               /\ pc'[q] = "map" => "root" \in new'[q].tabs
    <2>1. CASE q = p
      BY <2>1
    <2>2. CASE q # p
      BY <2>2 DEF Slots
    <2> QED BY <2>1, <2>2
  <1> QED BY <1>1 DEF Slots

LEMMA StepAccounts ==
  ASSUME Inv, Accounts, [Next]_vars
  PROVE  Accounts'
  <1>0. /\ Slots /\ IsFiniteSet(Held) /\ PagesConserved
        /\ tf \in [Procs -> BOOLEAN] /\ us \in [Procs -> None .. MaxPid]
        /\ free \in Nat /\ others \in Nat /\ nextpid \in Nat /\ nextpid <= MaxPid + 1
        /\ pc \in [Procs -> PCs] /\ pt \in [Procs -> PageTables] /\ new \in [Procs -> PageTables]
        /\ panicked = FALSE /\ MaxPid \in Nat
    BY TablesAre, UsyscallAssumption DEF Inv, Shape, Pids, Accounts, Slots
  <1>1. CASE UNCHANGED vars
    <2>1. IsFiniteSet(Held') /\ PagesConserved'
      BY <1>0, <1>1, SamePages DEF vars
    <2>2. Slots'
      BY <1>0, <1>1 DEF Slots, vars
    <2> QED BY <2>1, <2>2 DEF Accounts
  <1>2. CASE OthersAlloc \/ OthersFree
    <2>1. /\ UNCHANGED <<pc, pid, tf, us, pt, new, nextpid>> /\ free' \in Nat /\ others' \in Nat
          /\ free' + others' = free + others
      <3>1. CASE OthersAlloc
        BY <1>0, <3>1 DEF OthersAlloc, kalloc
      <3>2. CASE OthersFree
        BY <1>0, <3>2 DEF OthersFree, kfree
      <3> QED BY <1>2, <3>1, <3>2
    <2>2. Held' = Held
      BY <2>1 DEF Held, Holds
    <2>3. PagesConserved'
      <3>1. Cardinality(Held) \in Nat
        BY <1>0, FS_CardinalityType
      <3> QED BY <1>0, <2>1, <2>2, <3>1 DEF PagesConserved
    <2>4. Slots'
      BY <1>0, <2>1 DEF Slots
    <2> QED BY <1>0, <2>2, <2>3, <2>4 DEF Accounts
  <1>3. ASSUME NEW p \in Procs,
               \/ AllocSlot(p) \/ AllocTrapframe(p) \/ AllocUsyscall(p) \/ AllocFail(p)
               \/ uvmcreate(p) \/ walk(p) \/ mappages(p) \/ MapFail(p)
               \/ AllocDone(p) \/ Forked(p) \/ Exec(p) \/ ExecEnd(p) \/ Exit(p)
               \/ freeproc(p)
        PROVE  Accounts'
    <2>0. /\ pt[p] \in {NoTable, Full} /\ new[p].tabs \in SUBSET Tables
          /\ pc[p] \notin {"map", "made"} => new[p] = NoTable
          /\ pc[p] = "map" => Partial(new[p]) /\ "root" \in new[p].tabs
          /\ pc[p] = "made" => new[p] = Full
          /\ pc[p] \in {"copy", "run"} => pt[p] = Full
          /\ pc[p] \in {"unused", "tf"} => ~tf[p]
          /\ pc[p] \in {"unused", "tf", "us"} => us[p] = None /\ pt[p] = NoTable
          /\ pid[p] \in Nat /\ pid[p] <= MaxPid
      <3>1. new[p].tabs \in SUBSET Tables
        BY <1>0 DEF PageTables
      <3>2. pid[p] \in Nat /\ pid[p] < nextpid
        BY DEF Inv, Pids
      <3> QED BY <1>0, <3>1, <3>2 DEF Inv, Shape, Build, Accounts, Slots
    <2>1. CASE AllocSlot(p)
      <3>1. /\ pc[p] = "unused" /\ nextpid <= MaxPid /\ nextpid' = nextpid + 1
            /\ pc' = [pc EXCEPT ![p] = "tf"] /\ UNCHANGED <<tf, us, pt, new, free, others>>
        BY <2>1 DEF AllocSlot, Goto
      <3>2. IsFiniteSet(Held') /\ PagesConserved'
        BY <1>0, <3>1, SamePages
      <3>3. Slots'
        BY <1>0, <2>0, <3>1, SlotsStep
      <3> QED BY <3>2, <3>3 DEF Accounts
    <2>2. CASE AllocTrapframe(p)
      <3>1. /\ pc[p] = "tf" /\ kalloc /\ tf' = [tf EXCEPT ![p] = TRUE]
            /\ pc' = [pc EXCEPT ![p] = "us"] /\ UNCHANGED <<us, pt, new, others, nextpid>>
        BY <2>2 DEF AllocTrapframe, Goto
      <3>2. free' \in Nat
        BY <1>0, <3>1 DEF kalloc
      <3>3. /\ "trapframe" \in Uses /\ ~Holds(p, "trapframe", "page")
            /\ \A q \in Procs, u \in Uses, x \in Tables \cup {"page"} :
                 Holds(q, u, x)' <=> Holds(q, u, x) \/ (q = p /\ u = "trapframe" /\ x = "page")
        BY <1>0, <2>0, <3>1 DEF Holds, Uses
      <3>4. IsFiniteSet(Held') /\ PagesConserved'
        BY <1>0, <3>1, <3>3, TakeOne
      <3>5. Slots'
        BY <1>0, <2>0, <3>1, <3>2, SlotsStep
      <3> QED BY <3>4, <3>5 DEF Accounts
    <2>3. CASE AllocUsyscall(p)
      <3>1. /\ pc[p] = "us" /\ kalloc /\ us' = [us EXCEPT ![p] = pid[p]]
            /\ pc' = [pc EXCEPT ![p] = "root"] /\ UNCHANGED <<tf, pt, new, others, nextpid>>
        BY <2>3 DEF AllocUsyscall, UsyscallPid, Goto
      <3>2. free' \in Nat /\ pid[p] # None /\ pid[p] \in None .. MaxPid
        BY <1>0, <2>0, <3>1 DEF kalloc, None
      <3>3. /\ "usyscall" \in Uses /\ ~Holds(p, "usyscall", "page")
            /\ \A q \in Procs, u \in Uses, x \in Tables \cup {"page"} :
                 Holds(q, u, x)' <=> Holds(q, u, x) \/ (q = p /\ u = "usyscall" /\ x = "page")
        BY <1>0, <2>0, <3>1, <3>2 DEF Holds, Uses
      <3>4. IsFiniteSet(Held') /\ PagesConserved'
        BY <1>0, <3>1, <3>3, TakeOne
      <3>5. Slots'
        BY <1>0, <2>0, <3>1, <3>2, SlotsStep
      <3> QED BY <3>4, <3>5 DEF Accounts
    <2>4. CASE AllocFail(p) \/ Forked(p) \/ Exec(p) \/ Exit(p)
      <3>1. PICK where \in {"free", "run", "root"} : pc' = [pc EXCEPT ![p] = where]
        BY <2>4 DEF AllocFail, Forked, Exec, Exit, Goto
      <3>2. UNCHANGED <<tf, us, pt, new, free, others, nextpid>>
        BY <2>4 DEF AllocFail, Forked, Exec, Exit
      <3>3. IsFiniteSet(Held') /\ PagesConserved'
        BY <1>0, <3>2, SamePages
      <3>4. Slots'
        BY <1>0, <2>0, <3>1, <3>2, SlotsStep
      <3> QED BY <3>3, <3>4 DEF Accounts
    <2>5. CASE uvmcreate(p)
      <3>0. pc[p] = "root" /\ UNCHANGED <<tf, us, pt, others, nextpid>> /\ new[p] = NoTable
        BY <2>0, <2>5 DEF uvmcreate
      <3>1. CASE kalloc /\ new' = [new EXCEPT ![p].tabs = {"root"}] /\ Goto(p, "map")
        <4>1. /\ new'[p].tabs = {"root"} /\ new[p].tabs = {}
              /\ \A q \in Procs : q # p => new'[q] = new[q]
          BY <1>0, <3>0, <3>1 DEF NoTable
        <4>2. free' \in Nat /\ pc' = [pc EXCEPT ![p] = "map"]
          BY <1>0, <3>1 DEF kalloc, Goto
        <4>3. /\ "new" \in Uses /\ "root" \in Tables /\ ~Holds(p, "new", "root")
              /\ \A q \in Procs, u \in Uses, x \in Tables \cup {"page"} :
                   Holds(q, u, x)' <=> Holds(q, u, x) \/ (q = p /\ u = "new" /\ x = "root")
          BY <3>0, <4>1, TablesAre DEF Holds, Uses
        <4>4. IsFiniteSet(Held') /\ PagesConserved'
          BY <1>0, <3>0, <3>1, <4>3, TakeOne
        <4>5. Slots'
          BY <1>0, <3>0, <4>1, <4>2, SlotsStep
        <4> QED BY <4>4, <4>5 DEF Accounts
      <3>2. CASE Goto(p, ReturnZero(p)) /\ new' = new /\ free' = free
        <4>1. ReturnZero(p) \in {"free", "run"} /\ pc' = [pc EXCEPT ![p] = ReturnZero(p)]
          BY <3>2 DEF ReturnZero, Goto
        <4>2. IsFiniteSet(Held') /\ PagesConserved'
          BY <1>0, <3>0, <3>2, SamePages
        <4>3. Slots'
          BY <1>0, <3>0, <3>2, <4>1, SlotsStep
        <4> QED BY <4>2, <4>3 DEF Accounts
      <3> QED BY <2>5, <3>1, <3>2 DEF uvmcreate
    <2>6. CASE walk(p)
      <3>1. /\ pc[p] = "map" /\ Missing(p) # {} /\ kalloc
            /\ UNCHANGED <<pc, tf, us, pt, others, nextpid>>
        BY <2>6 DEF walk
      <3>2. Missing(p) = {"root", "l1", "l0"} \ new[p].tabs
        BY DEF Missing, Path, LeafOf
      <3>3. PICK table \in {"l1", "l0"} :
               table \notin new[p].tabs /\ new' = [new EXCEPT ![p].tabs = @ \cup {table}]
        <4>1. CASE "l1" \in Missing(p)
          BY <2>6, <3>2, <4>1 DEF walk
        <4>2. CASE "l1" \notin Missing(p)
          BY <2>0, <2>6, <3>1, <3>2, <4>2 DEF walk, LeafOf
        <4> QED BY <4>1, <4>2
      <3>4. /\ new'[p].tabs = new[p].tabs \cup {table}
            /\ \A q \in Procs : q # p => new'[q] = new[q]
        BY <1>0, <3>3 DEF PageTables
      <3>5. free' \in Nat
        BY <1>0, <3>1 DEF kalloc
      <3>6. /\ "new" \in Uses /\ table \in Tables \cup {"page"} /\ ~Holds(p, "new", table)
            /\ \A q \in Procs, u \in Uses, x \in Tables \cup {"page"} :
                 Holds(q, u, x)' <=> Holds(q, u, x) \/ (q = p /\ u = "new" /\ x = table)
        BY <3>1, <3>3, <3>4, TablesAre DEF Holds, Uses
      <3>7. IsFiniteSet(Held') /\ PagesConserved'
        BY <1>0, <3>1, <3>6, TakeOne
      <3>8. Slots'
        BY <1>0, <2>0, <3>1, <3>4, <3>5, SlotsStep
      <3> QED BY <3>7, <3>8 DEF Accounts
    <2>7. CASE mappages(p)
      <3>1. /\ pc[p] = "map" /\ UNCHANGED <<tf, us, pt, free, others, nextpid>>
            /\ new' = [new EXCEPT ![p].map = @ \cup {NextVA(new[p])}]
            /\ \E where \in {"made", "map"} : pc' = [pc EXCEPT ![p] = where]
        BY <2>7 DEF mappages, Goto
      <3>2. new'[p].tabs = new[p].tabs /\ \A q \in Procs : q # p => new'[q] = new[q]
        BY <1>0, <3>1 DEF PageTables
      <3>3. IsFiniteSet(Held') /\ PagesConserved'
        BY <1>0, <3>1, <3>2, SamePages
      <3>4. Slots'
        BY <1>0, <2>0, <3>1, <3>2, SlotsStep
      <3> QED BY <3>3, <3>4 DEF Accounts
    <2>8. CASE MapFail(p)
      <3>1. pc[p] = "map" /\ Missing(p) # {}
        BY <2>8 DEF MapFail
      <3>2. TakesDown(new[p], UndoOf(NextVA(new[p])))
        BY <2>0, <3>1, FailsFirst DEF Missing
      <3>3. /\ new' = [new EXCEPT ![p] = NoTable] /\ pc' = [pc EXCEPT ![p] = ReturnZero(p)]
            /\ kfree(Cardinality(new[p].tabs)) /\ UNCHANGED <<tf, us, pt, others, nextpid>>
        BY <2>8, <3>2 DEF MapFail, Goto
      <3>4. ReturnZero(p) \in {"free", "run"}
        BY DEF ReturnZero
      <3>5. PICK tabs \in SUBSET Tables : tabs = new[p].tabs
        BY <2>0
      <3>6. kfree(Cardinality(tabs)) /\ free' \in Nat
        <4>1. Cardinality(tabs) \in Nat
          BY TablePagesCount, FS_CardinalityType
        <4> QED BY <1>0, <3>3, <3>5, <4>1 DEF kfree
      <3>7. /\ \A t \in tabs : Holds(p, "new", t)
            /\ \A q \in Procs, u \in Uses, x \in Tables \cup {"page"} :
                 Holds(q, u, x)' <=> Holds(q, u, x) /\ ~(q = p /\ u = "new" /\ x \in tabs)
        BY <1>0, <3>3, <3>5 DEF Holds, Uses, NoTable
      <3>8. IsFiniteSet(Held') /\ PagesConserved'
        BY <1>0, <3>3, <3>6, <3>7, GiveTables
      <3>9. Slots'
        BY <1>0, <3>3, <3>4, <3>6, SlotsStep
      <3> QED BY <3>8, <3>9 DEF Accounts
    <2>9. CASE AllocDone(p)
      <3>1. /\ pc[p] = "made" /\ pt[p] = NoTable /\ new[p] = Full
            /\ pc' = [pc EXCEPT ![p] = "copy"] /\ pt' = [pt EXCEPT ![p] = Full]
            /\ new' = [new EXCEPT ![p] = NoTable] /\ UNCHANGED <<tf, us, free, others, nextpid>>
        BY <2>0, <2>9 DEF AllocDone, Goto
      <3> DEFINE X == TablePages(p, "new", Tables)
                 Y == TablePages(p, "pt", Tables)
      <3>2. X \in SUBSET Held /\ Held \cap Y = {}
        BY <3>1 DEF TablePages, Held, Holds, Uses, Full, NoTable
      <3>3. Held' = (Held \ X) \cup Y
        <4>1. Y \in SUBSET (Procs \X Uses \X (Tables \cup {"page"}))
          BY DEF TablePages, Uses
        <4>2. \A q \in Procs, u \in Uses, x \in Tables \cup {"page"} :
                /\ <<q, u, x>> \in X <=> q = p /\ u = "new" /\ x \in Tables
                /\ <<q, u, x>> \in Y <=> q = p /\ u = "pt" /\ x \in Tables
          BY DEF TablePages
        <4>3. ASSUME NEW q \in Procs, NEW u \in Uses, NEW x \in Tables \cup {"page"}
              PROVE  Holds(q, u, x)' <=> (Holds(q, u, x) /\ <<q, u, x>> \notin X) \/ <<q, u, x>> \in Y
          <5>1. CASE q = p
            BY <1>0, <3>1, <4>2, <5>1 DEF Holds, Full, NoTable
          <5>2. CASE q # p
            BY <1>0, <3>1, <4>2, <5>2 DEF Holds
          <5> QED BY <5>1, <5>2
        <4> HIDE DEF X, Y
        <4> QED BY <4>1, <4>3, HeldStep
      <3>4. /\ IsFiniteSet(Y) /\ Cardinality(X) = Cardinality(Y) /\ Cardinality(Y) \in Nat
        BY TablePagesCount, FS_CardinalityType
      <3> HIDE DEF X, Y
      <3>5. free' \in Nat /\ others' \in Nat /\ free' + others' + Cardinality(Y) = free + others + Cardinality(X)
        BY <1>0, <3>1, <3>4
      <3>6. IsFiniteSet(Held') /\ PagesConserved'
        BY <1>0, <3>2, <3>3, <3>4, <3>5, Balance
      <3>7. Slots'
        BY <1>0, <3>1, SlotsStep
      <3> QED BY <3>6, <3>7 DEF Accounts
    <2>10. CASE ExecEnd(p)
      <3>1. pc[p] = "made" /\ pt[p] = Full /\ new[p] = Full
        BY <2>0, <2>10 DEF ExecEnd
      <3>2. /\ pc' = [pc EXCEPT ![p] = "run"]
            /\ pt' = [pt EXCEPT ![p] = Full] /\ new' = [new EXCEPT ![p] = NoTable]
            /\ kfree(Cardinality(Full.tabs)) /\ UNCHANGED <<tf, us, others, nextpid>>
        BY <2>10, <3>1, FullTakesDown DEF ExecEnd, Goto
      <3>3. kfree(Cardinality(Tables)) /\ free' \in Nat
        <4>1. Cardinality(Tables) \in Nat
          BY TablePagesCount, FS_CardinalityType
        <4> QED BY <1>0, <3>2, <4>1 DEF kfree, Full
      <3>4. /\ \A t \in Tables : Holds(p, "new", t)
            /\ \A q \in Procs, u \in Uses, x \in Tables \cup {"page"} :
                 Holds(q, u, x)' <=> Holds(q, u, x) /\ ~(q = p /\ u = "new" /\ x \in Tables)
        <4>1. \A t \in Tables : Holds(p, "new", t)
          BY <3>1 DEF Holds, Full
        <4>2. ASSUME NEW q \in Procs, NEW u \in Uses, NEW x \in Tables \cup {"page"}
              PROVE  Holds(q, u, x)' <=> Holds(q, u, x) /\ ~(q = p /\ u = "new" /\ x \in Tables)
          <5>1. CASE q = p
            BY <1>0, <3>1, <3>2, <5>1 DEF Holds, Full, NoTable
          <5>2. CASE q # p
            BY <1>0, <3>2, <5>2 DEF Holds
          <5> QED BY <5>1, <5>2
        <4> QED BY <4>1, <4>2
      <3>5. IsFiniteSet(Held') /\ PagesConserved'
        BY <1>0, <3>2, <3>3, <3>4, GiveTables
      <3>6. Slots'
        BY <1>0, <3>2, <3>3, SlotsStep
      <3> QED BY <3>5, <3>6 DEF Accounts
    <2>11. CASE freeproc(p)
      <3>1. pc[p] = "free" /\ new[p] = NoTable
        BY <2>0, <2>11 DEF freeproc
      <3>2. ~(pt[p] # NoTable /\ ~TakesDown(pt[p], UnmapAll))
        BY <2>0, FullTakesDown
      <3>3. /\ pc' = [pc EXCEPT ![p] = "unused"]
            /\ kfree((IF tf[p] THEN 1 ELSE 0) + FreedUs(p) + Cardinality(pt[p].tabs))
            /\ tf' = [tf EXCEPT ![p] = FALSE] /\ us' = [us EXCEPT ![p] = None]
            /\ pt' = [pt EXCEPT ![p] = NoTable] /\ UNCHANGED <<new, others, nextpid>>
        BY <2>11, <3>2 DEF freeproc, Goto, ClearUs
      <3>4. IsFiniteSet(Held') /\ PagesConserved' /\ free' \in Nat
        BY <3>1, <3>3, GiveSlot
      <3>5. None \in None .. MaxPid
        BY <1>0 DEF None
      <3>6. Slots'
        BY <1>0, <3>3, <3>4, <3>5, SlotsStep
      <3> QED BY <3>4, <3>6 DEF Accounts
    <2> QED BY <1>3, <2>1, <2>2, <2>3, <2>4, <2>5, <2>6, <2>7, <2>8, <2>9, <2>10, <2>11
  <1> QED BY <1>1, <1>2, <1>3 DEF Next

LEMMA InitAccounts == Init => Accounts
  <1> SUFFICES ASSUME Init PROVE Accounts
    OBVIOUS
  <1>1. Slots
    BY UsyscallAssumption DEF Init, Slots, None
  <1>2. Held = {}
    BY DEF Init, Held, Holds, NoTable
  <1>3. IsFiniteSet(Held) /\ Cardinality(Held) = 0
    BY <1>2, FS_EmptySet
  <1>4. PagesConserved
    BY <1>3, UsyscallAssumption DEF Init, PagesConserved
  <1> QED BY <1>1, <1>3, <1>4 DEF Accounts

\* The slots' books are in order in every reachable state.
THEOREM AccountsHold == Spec => [](Inv /\ Accounts)
  <1>1. Inv /\ Accounts /\ [Next]_vars => Inv' /\ Accounts'
    BY StepInv, StepAccounts
  <1> QED BY <1>1, InitInv, InitAccounts, PTL DEF Spec

\* No failure path of allocproc, proc_pagetable, fork or exec loses a page or
\* frees one twice.
THEOREM Conserved == Spec => []PagesConserved
  <1>1. Accounts => PagesConserved
    BY DEF Accounts
  <1> QED BY <1>1, AccountsHold, PTL

\* Every field has its type, and an unused slot has no pointer left.
THEOREM TypeCorrect == Spec => []TypeOK
  <1>1. ASSUME Inv, Accounts PROVE TypeOK
    <2>1. /\ pc \in [Procs -> {"unused", "tf", "us", "root", "map", "made", "copy", "run", "free"}]
          /\ pt \in [Procs -> PageTables] /\ new \in [Procs -> PageTables] /\ panicked \in BOOLEAN
      BY <1>1, TablesAre DEF Inv, Shape, PCs
    <2>2. pid \in [Procs -> 0 .. MaxPid] /\ nextpid \in 1 .. MaxPid + 1
      <3>1. /\ pid \in [Procs -> Nat] /\ nextpid \in Nat \ {0} /\ \A p \in Procs : pid[p] < nextpid
            /\ nextpid <= MaxPid + 1 /\ MaxPid \in Nat
        BY <1>1, UsyscallAssumption DEF Inv, Pids, Accounts, Slots
      <3>2. \A p \in Procs : pid[p] \in 0 .. MaxPid
        BY <3>1
      <3> QED BY <3>1, <3>2
    <2>3. free \in 0 .. NPages /\ others \in 0 .. NPages
      <3>1. Cardinality(Held) \in Nat
        BY <1>1, FS_CardinalityType DEF Accounts
      <3> QED BY <1>1, <3>1, UsyscallAssumption DEF Accounts, Slots, PagesConserved
    <2>4. \A p \in Procs :
            pc[p] = "unused" => ~tf[p] /\ us[p] = None /\ pt[p] = NoTable /\ new[p] = NoTable
      BY <1>1 DEF Inv, Build, Accounts, Slots
    <2>5. tf \in [Procs -> BOOLEAN] /\ us \in [Procs -> None .. MaxPid]
      BY <1>1 DEF Accounts, Slots
    <2> QED BY <2>1, <2>2, <2>3, <2>4, <2>5 DEF TypeOK
  <1> QED BY <1>1, AccountsHold, PTL
=============================================================================
