-------------------------- MODULE SuperPages_proofs --------------------------
(***************************************************************************)
(* Proofs about SuperPages, for any number of processes, any sizes of      *)
(* pages, superpages, record and memory, and any requests to sbrk: no page *)
(* is lost, a failed sbrk is undone, a fork that returns copied all of the *)
(* memory, and the record of a tidy heap describes it.                     *)
(***************************************************************************)
EXTENDS SuperPages, FiniteSetTheorems, FunctionTheorems, TLAPS

Rets == {"none", "grow", "failed", "split", "lost", "shrink", "fork", "exec", "exit"}

PCs == {"unused", "embryo", "run", "alloc", "unmap", "shrink", "copy"}

Tables == [small : SUBSET (0 .. LIMIT \div PGSIZE),
           super : SUBSET (0 .. LIMIT \div SUPERPGSIZE),
           l0 : SUBSET (0 .. LIMIT \div SUPERPGSIZE)]

Ops == [arg : Int, lsz : 0 .. LIMIT, n : Int, i : Int, a : Nat, end : Nat, old : Nat,
        ret : Rets, starts : Nat, supers : Nat, ends : Nat,
        child : Procs \cup {NULL}, was : SUBSET Nat]

\* An ordinary page has its leaf table, and a region is one or the other.
Shape(t) ==
    /\ t \in Tables
    /\ t.super \cap t.l0 = {}
    /\ \A v \in t.small : v \div K \in t.l0

Types ==
    /\ tab \in [Procs -> Tables] /\ \A p \in Procs : Shape(tab[p])
    /\ sz \in [Procs -> 0 .. LIMIT]
    /\ ones \in [Procs -> SUBSET (0 .. RECORD - 1)]
    /\ next \in [Procs -> Nat \cup {-1}]
    /\ pc \in [Procs -> PCs]
    /\ op \in [Procs -> Ops]
    /\ base \in [Procs -> Int]
    /\ free \in Nat /\ superfree \in Nat

\* growproc is giving memory back.
Shrinking(p) ==
    \/ pc[p] = "shrink"
    \/ pc[p] = "alloc" /\ op[p].ret = "split"
    \/ pc[p] = "unmap" /\ op[p].ret \in {"shrink", "split", "lost"}

\* p is between the allocproc and the end of a fork.
Forking(p) == pc[p] = "copy" \/ (pc[p] = "unmap" /\ op[p].ret = "fork")

\* What the place of a process in the kernel says of its local variables.
Locals(p) ==
    /\ pc[p] \in {"unused", "embryo", "run"} => op[p] = Idle
    /\ pc[p] \in {"unused", "embryo"} => next[p] = 0
    /\ pc[p] = "unused" => tab[p] = NoTable
    /\ pc[p] = "alloc" => op[p].ret \in {"grow", "split"} /\ op[p].end <= LIMIT
    /\ pc[p] = "copy" => op[p].ret = "none" /\ op[p].end = sz[p]
    /\ pc[p] = "shrink" => op[p].ret \in {"none", "shrink"} /\ op[p].n < 0
    /\ pc[p] = "unmap" => op[p].ret \in Rets \ {"none", "grow"}
    /\ Shrinking(p) => op[p].i < next[p] /\ (pc[p] # "shrink" => op[p].i >= 0)
    /\ Shrinking(p) /\ op[p].ret \in {"split", "lost"} =>
         op[p].n + SUPERPGSIZE > 0 /\ op[p].n < 0 /\ op[p].lsz + SUPERPGSIZE <= LIMIT
    /\ op[p].child # NULL <=> Forking(p)

\* The child of a fork under way does not run and has one parent.
Family ==
    \A p \in Procs : op[p].child # NULL =>
        /\ pc[op[p].child] = "embryo"
        /\ \A q \in Procs : op[q].child = op[p].child => q = p

Structure == Types /\ (\A p \in Procs : Locals(p)) /\ Family

-----------------------------------------------------------------------------
(* Which pages are mapped.  From here on x, y and b are page numbers.      *)

Whole(a) == a = PageOf(a) * PGSIZE

\* No superpage lies across x or across y.
Clear(t, x, y) ==
    \A r \in t.super : r * K + K <= x \/ y <= r * K \/ (x <= r * K /\ r * K + K <= y)

\* The table maps kept, and the pages from x up to y.
Span(t, kept, x, y) ==
    /\ x <= y
    /\ x < y => Clear(t, x, y)
    /\ Mapped(t) = kept \cup (x .. y - 1)
    /\ kept \cap (x .. y - 1) = {}

\* What sbrksuperuvmalloc has mapped, or not unmapped yet.
Growing(p) ==
    LET o == op[p] IN
    /\ pc[p] = "alloc" /\ o.ret = "grow" =>
         Whole(o.old) /\ Whole(o.a) /\ Span(tab[p], o.was, PageOf(o.old), PageOf(o.a))
    /\ pc[p] = "unmap" /\ o.ret = "failed" =>
         Whole(o.a) /\ Whole(o.end) /\ Span(tab[p], o.was, PageOf(o.a), PageOf(o.end))

\* The child's table c is the parent's t below page x, and nothing else.
CopyOf(c, t, x, size) ==
    /\ Span(c, {}, 0, x) /\ Clear(t, 0, x)
    /\ c.small \subseteq t.small /\ c.super \subseteq t.super /\ c.l0 \subseteq t.l0
    /\ \A v \in t.small : v < x => v \in c.small
    /\ \A r \in t.super : r * K < x => r \in c.super
    /\ \A v \in c.small : v * PGSIZE < size
    /\ \A r \in c.super : r * SUPERPGSIZE < size

Copying(p) ==
    pc[p] = "copy" => Whole(op[p].a) /\ CopyOf(tab[op[p].child], tab[p], PageOf(op[p].a), sz[p])

\* The err label unmaps what was copied, or meets the superpage of the
\* parent that was not.
Uncopying(p) ==
    LET o == op[p] IN
    pc[p] = "unmap" /\ o.ret = "fork" =>
      /\ Whole(o.a) /\ Whole(o.end)
      /\ \E x \in Nat :
           /\ Span(tab[o.child], {}, PageOf(o.a), x)
           /\ x = PageOf(o.end) \/ (x < PageOf(o.end) /\ x \div K \in tab[p].super)

Memory == \A p \in Procs : Growing(p) /\ Copying(p) /\ Uncopying(p)

-----------------------------------------------------------------------------
(* The record of a tidy heap that starts at page b.                        *)

PagesIn(t, b, x) == {v \in t.small : b <= v /\ v < x}
SupersIn(t, b, x) == {q \in t.super : b <= q * K /\ q * K < x}

\* Entries of the record for the memory from b up to x; so Count(t, b, q * K)
\* is the position of superpage q.
Count(t, b, x) == Cardinality(PagesIn(t, b, x)) + Cardinality(SupersIn(t, b, x))

Positions(t, b, x, y) == {Count(t, b, q * K) : q \in SupersIn(t, x, y)}

\* The first nx entries describe the memory up to x.
Recorded(t, b, x, nx, on) ==
    /\ b <= x /\ Clear(t, b, x)
    /\ nx = Count(t, b, x)
    /\ on \cap (0 .. nx - 1) = Positions(t, b, b, x)

\* The growth so far: pages, then superpages, then pages.
Appended(t, b, x, y, nx, o) ==
    /\ Count(t, b, y) = nx + o.starts + o.supers + o.ends
    /\ Positions(t, b, x, y) = (nx + o.starts) .. (nx + o.starts + o.supers - 1)
    /\ o.supers = 0 => o.ends = 0

\* The size that growproc is to reach.
Goal(o) == o.lsz + o.n
Uncut(t, x) == \A q \in t.super : q * K + K <= x \/ x <= q * K

Tidiness(p) ==
    LET o == op[p]  t == tab[p]  b == PageOf(base[p])  top == PageOf(sz[p]) IN
    Tidy(p) =>
      /\ base[p] \in Nat /\ Whole(base[p])
      /\ ~Shrinking(p) /\ pc[p] \notin {"unused", "embryo"} => Whole(sz[p])
      /\ pc[p] = "run" \/ Forking(p) =>
           Span(t, {}, 0, top) /\ Recorded(t, b, top, next[p], ones[p])
      /\ pc[p] = "copy" => o.a <= o.end
      /\ pc[p] = "alloc" =>
           /\ o.ret = "grow" /\ Whole(o.end) /\ o.old = sz[p] /\ o.a <= o.end
           /\ o.was = 0 .. top - 1
           /\ Recorded(t, b, top, next[p], ones[p])
           /\ Appended(t, b, top, PageOf(o.a), next[p], o)
           /\ o.ends > 0 => PageOf(o.end) - PageOf(o.a) < K
           /\ o.supers > 0 /\ o.ends = 0 => PageOf(o.a) = RegionOf(o.a) * K
      /\ pc[p] = "unmap" /\ o.ret = "failed" =>
           /\ o.was = 0 .. top - 1 /\ top <= PageOf(o.a)
           /\ Recorded(t, b, top, next[p], ones[p])
      /\ Shrinking(p) =>
           /\ o.ret \notin {"split", "lost"}
           /\ Whole(o.lsz) /\ base[p] <= Goal(o) /\ Whole(Goal(o)) /\ Uncut(t, PageOf(Goal(o)))
           /\ o.n <= 0
      /\ pc[p] = "shrink" =>
           /\ Span(t, {}, 0, PageOf(o.lsz))
           /\ Recorded(t, b, PageOf(o.lsz), o.i + 1, ones[p])
      /\ pc[p] = "unmap" /\ o.ret = "shrink" =>
           /\ Whole(o.a) /\ Whole(o.end) /\ PageOf(o.lsz) <= PageOf(o.a)
           /\ Span(t, 0 .. PageOf(o.lsz) - 1, PageOf(o.a), PageOf(o.end))
           /\ Recorded(t, b, PageOf(o.lsz), o.i, ones[p])
      /\ pc[p] = "unmap" /\ o.ret \in {"exec", "exit"} =>
           Whole(o.a) /\ Whole(o.end) /\ Span(t, {}, PageOf(o.a), PageOf(o.end))

Heaps == \A p \in Procs : Tidiness(p)

-----------------------------------------------------------------------------
\* The pages that the processes hold are finitely many, and all are counted.
Accounts == IsFiniteSet(Held) /\ IsFiniteSet(HeldSuper) /\ PagesConserved

\* growproc has written every entry of a tidy process's record, so it never
\* reads past the end.
Fits == \A p \in Procs : Tidy(p) => next[p] <= RECORD

Inv == Structure /\ Memory /\ Heaps /\ Fits /\ Accounts /\ TidyPanics

-----------------------------------------------------------------------------
(* Arithmetic of addresses, pages and regions.                             *)

\* Quotients, for any divisor.
LEMMA Quotient ==
    ASSUME NEW d \in Nat \ {0}, NEW a \in Int, NEW q \in Int
    PROVE  /\ a \div d \in Int
           /\ a \div d = q <=> (q * d <= a /\ a < q * d + d)
<1>1. a \div d \in Int /\ a % d \in 0 .. d - 1 /\ a = d * (a \div d) + (a % d)
  OBVIOUS
<1> DEFINE u == a \div d
<1>2. u * d <= a /\ a < u * d + d
  BY <1>1
<1> HIDE DEF u
<1>3. ASSUME q * d <= a, a < q * d + d PROVE q = u
  <2>1. CASE q < u
    <3>1. q + 1 <= u
      BY <1>1, <2>1 DEF u
    <3>2. (q + 1) * d <= u * d
      BY <1>1, <3>1 DEF u
    <3> QED
      BY <1>1, <1>2, <1>3, <3>2 DEF u
  <2>2. CASE u < q
    <3>1. u + 1 <= q
      BY <1>1, <2>2 DEF u
    <3>2. (u + 1) * d <= q * d
      BY <1>1, <3>1 DEF u
    <3> QED
      BY <1>1, <1>2, <1>3, <3>2 DEF u
  <2> QED
    BY <1>1, <2>1, <2>2 DEF u
<1> QED
  BY <1>1, <1>2, <1>3 DEF u

\* Multiplication by a positive number keeps the order.
LEMMA Times ==
    ASSUME NEW d \in Nat \ {0}, NEW u \in Int, NEW v \in Int
    PROVE  /\ u * d \in Int
           /\ (u + 1) * d = u * d + d
           /\ u < v <=> u * d < v * d
           /\ u <= v <=> u * d <= v * d
           /\ u = v <=> u * d = v * d
           /\ (u + v) * d = u * d + v * d
           /\ (v - u) * d = v * d - u * d
  OBVIOUS

LEMMA Sizes ==
    /\ PGSIZE \in Nat \ {0} /\ K \in Nat \ {0} /\ K >= 2
    /\ SUPERPGSIZE \in Nat \ {0} /\ SUPERPGSIZE = K * PGSIZE
    /\ LIMIT \in Nat /\ RECORD \in Nat
  BY SuperAssumption DEF SUPERPGSIZE

\* The page at address a.
LEMMA PageAt ==
    ASSUME NEW a \in Nat
    PROVE  /\ PageOf(a) \in Nat
           /\ PageOf(a) * PGSIZE <= a /\ a < PageOf(a) * PGSIZE + PGSIZE
           /\ \A v \in Int : v * PGSIZE <= a /\ a < v * PGSIZE + PGSIZE => v = PageOf(a)
<1>1. PageOf(a) \in Int
  BY Sizes, Quotient DEF PageOf
<1>2. \A q \in Int : PageOf(a) = q <=> (q * PGSIZE <= a /\ a < q * PGSIZE + PGSIZE)
  BY Sizes, Quotient DEF PageOf
<1>3. PageOf(a) * PGSIZE <= a /\ a < PageOf(a) * PGSIZE + PGSIZE
  BY <1>1, <1>2
<1>4. PageOf(a) >= 0
  <2>1. 0 <= a \div PGSIZE
    BY Sizes
  <2> QED
    BY <2>1 DEF PageOf
<1> QED
  BY <1>1, <1>2, <1>3, <1>4

\* The region of page v.
LEMMA RegionAt ==
    ASSUME NEW v \in Nat
    PROVE  /\ v \div K \in Nat
           /\ (v \div K) * K <= v /\ v < (v \div K) * K + K
           /\ \A r \in Int : r * K <= v /\ v < r * K + K => r = v \div K
<1>1. \A q \in Int : v \div K \in Int /\ (v \div K = q <=> (q * K <= v /\ v < q * K + K))
  BY Sizes, Quotient
<1>2. 0 <= v \div K
  BY Sizes
<1> QED
  BY <1>1, <1>2

\* The page that starts at a multiple of PGSIZE.
LEMMA PageStart ==
    ASSUME NEW v \in Nat
    PROVE  v * PGSIZE \in Nat /\ PageOf(v * PGSIZE) = v /\ Whole(v * PGSIZE)
<1>1. v * PGSIZE \in Nat
  BY Sizes
<1>2. v * PGSIZE <= v * PGSIZE /\ v * PGSIZE < v * PGSIZE + PGSIZE
  BY <1>1, Sizes
<1>3. PageOf(v * PGSIZE) = v
  BY <1>1, <1>2, PageAt
<1> QED
  BY <1>1, <1>3 DEF Whole

\* Addresses of whole pages compare and move like page numbers.
LEMMA WholeOrder ==
    ASSUME NEW a \in Nat, NEW c \in Nat, Whole(a), Whole(c)
    PROVE  /\ a < c <=> PageOf(a) < PageOf(c)
           /\ a <= c <=> PageOf(a) <= PageOf(c)
           /\ a = c <=> PageOf(a) = PageOf(c)
           /\ c - a >= SUPERPGSIZE <=> PageOf(c) - PageOf(a) >= K
<1> DEFINE u == PageOf(a)
           v == PageOf(c)
<1>1. u \in Nat /\ v \in Nat /\ a = u * PGSIZE /\ c = v * PGSIZE
  BY PageAt DEF Whole
<1> HIDE DEF u, v
<1>2. (u < v <=> u * PGSIZE < v * PGSIZE) /\ (u <= v <=> u * PGSIZE <= v * PGSIZE)
      /\ (u = v <=> u * PGSIZE = v * PGSIZE) /\ (v - u) * PGSIZE = v * PGSIZE - u * PGSIZE
  BY <1>1, Sizes, Times
<1>3. K <= v - u <=> K * PGSIZE <= (v - u) * PGSIZE
  BY <1>1, Sizes, Times
<1>4. c - a = (v - u) * PGSIZE
  BY <1>1, <1>2
<1>5. c - a >= SUPERPGSIZE <=> v - u >= K
  BY <1>1, <1>3, <1>4, Sizes
<1> QED
  BY <1>1, <1>2, <1>5 DEF u, v

LEMMA WholeNext ==
    ASSUME NEW a \in Nat, Whole(a)
    PROVE  /\ Whole(a + PGSIZE) /\ PageOf(a + PGSIZE) = PageOf(a) + 1
           /\ Whole(a + SUPERPGSIZE) /\ PageOf(a + SUPERPGSIZE) = PageOf(a) + K
<1> DEFINE u == PageOf(a)
<1>1. u \in Nat /\ a = u * PGSIZE
  BY PageAt DEF Whole
<1> HIDE DEF u
<1>2. a + PGSIZE = (u + 1) * PGSIZE /\ a + SUPERPGSIZE = (u + K) * PGSIZE
  BY <1>1, Sizes, Times
<1>3. u + 1 \in Nat /\ u + K \in Nat
  BY <1>1, Sizes
<1> QED
  BY <1>2, <1>3, PageStart DEF u

LEMMA WholeBack ==
    ASSUME NEW a \in Nat, Whole(a)
    PROVE  /\ a >= PGSIZE => Whole(a - PGSIZE) /\ PageOf(a - PGSIZE) = PageOf(a) - 1
           /\ a >= SUPERPGSIZE => Whole(a - SUPERPGSIZE) /\ PageOf(a - SUPERPGSIZE) = PageOf(a) - K
           /\ a >= PGSIZE <=> PageOf(a) >= 1
           /\ a >= SUPERPGSIZE <=> PageOf(a) >= K
<1> DEFINE u == PageOf(a)
<1>1. u \in Nat /\ a = u * PGSIZE
  BY PageAt DEF Whole
<1> HIDE DEF u
<1>2. a - PGSIZE = (u - 1) * PGSIZE /\ a - SUPERPGSIZE = (u - K) * PGSIZE
  BY <1>1, Sizes, Times
<1>3. (u >= 1 <=> u * PGSIZE >= 1 * PGSIZE) /\ (u >= K <=> u * PGSIZE >= K * PGSIZE)
  BY <1>1, Sizes, Times
<1>4. (a >= PGSIZE <=> u >= 1) /\ (a >= SUPERPGSIZE <=> u >= K)
  BY <1>1, <1>3, Sizes
<1>5. a >= PGSIZE => u - 1 \in Nat
  BY <1>1, <1>4
<1>6. a >= SUPERPGSIZE => u - K \in Nat
  BY <1>1, <1>4, Sizes
<1>7. a >= PGSIZE => Whole(a - PGSIZE) /\ PageOf(a - PGSIZE) = u - 1
  BY <1>2, <1>5, PageStart
<1>8. a >= SUPERPGSIZE => Whole(a - SUPERPGSIZE) /\ PageOf(a - SUPERPGSIZE) = u - K
  BY <1>2, <1>6, PageStart
<1> QED
  BY <1>4, <1>7, <1>8 DEF u

\* The region of an address is that of its page.
LEMMA RegionPage ==
    ASSUME NEW a \in Nat
    PROVE  RegionOf(a) = PageOf(a) \div K /\ RegionOf(a) \in Nat
<1> DEFINE u == PageOf(a)
           r == PageOf(a) \div K
<1>1. u \in Nat /\ u * PGSIZE <= a /\ a < u * PGSIZE + PGSIZE
  BY PageAt
<1>2. r \in Nat /\ r * K <= u /\ u < r * K + K
  BY <1>1, RegionAt
<1> HIDE DEF u, r
<1>3. r * K \in Nat /\ u + 1 <= r * K + K
  BY <1>1, <1>2, Sizes
<1>4. (r * K) * PGSIZE <= u * PGSIZE
  BY <1>1, <1>2, <1>3, Times, Sizes
<1>5. (u + 1) * PGSIZE <= (r * K + K) * PGSIZE
  <2>1. u + 1 \in Int /\ r * K + K \in Int
    BY <1>1, <1>3, Sizes
  <2> QED
    BY <1>3, <2>1, Times, Sizes
<1>6. (u + 1) * PGSIZE = u * PGSIZE + PGSIZE /\ (r * K + K) * PGSIZE = (r * K) * PGSIZE + K * PGSIZE
  BY <1>1, <1>3, Times, Sizes
<1>7. (r * K) * PGSIZE = r * SUPERPGSIZE
  BY <1>2, Sizes
<1>8. r * SUPERPGSIZE <= a /\ a < r * SUPERPGSIZE + SUPERPGSIZE
  <2>1. u * PGSIZE \in Int /\ (r * K) * PGSIZE \in Int
    BY <1>1, <1>3, Sizes
  <2> QED
    BY <1>1, <1>4, <1>5, <1>6, <1>7, <2>1, Sizes
<1>9. RegionOf(a) = r
  BY <1>2, <1>8, Sizes, Quotient DEF RegionOf
<1> QED
  BY <1>2, <1>9 DEF u, r

\* A superpage starts at a multiple of K pages.
LEMMA SuperStart ==
    ASSUME NEW r \in Nat
    PROVE  /\ r * K \in Nat /\ r * SUPERPGSIZE = (r * K) * PGSIZE
           /\ (r * K) \div K = r
           /\ \A s \in Nat : /\ r < s <=> r * K + K <= s * K
                             /\ r < s <=> r * K < s * K
<1>1. r * K \in Nat /\ r * SUPERPGSIZE = (r * K) * PGSIZE
  BY Sizes
<1>2. (r * K) \div K = r
  <2>1. r * K <= r * K /\ r * K < r * K + K
    BY <1>1, Sizes
  <2> QED
    BY <1>1, <2>1, RegionAt
<1>3. ASSUME NEW s \in Nat PROVE (r < s <=> r * K + K <= s * K) /\ (r < s <=> r * K < s * K)
  <2>1. r + 1 <= s <=> (r + 1) * K <= s * K
    BY Times, Sizes
  <2>2. (r + 1) * K = r * K + K /\ (r < s <=> r * K < s * K)
    BY Times, Sizes
  <2>3. r < s <=> r + 1 <= s
    OBVIOUS
  <2> QED
    BY <2>1, <2>2, <2>3
<1> QED
  BY <1>1, <1>2, <1>3

LEMMA Aligned ==
    ASSUME NEW a \in Nat, Whole(a)
    PROVE  a % SUPERPGSIZE = 0 <=> PageOf(a) = RegionOf(a) * K
<1> DEFINE u == PageOf(a)
           r == RegionOf(a)
<1>1. u \in Nat /\ a = u * PGSIZE /\ r \in Nat /\ r = a \div SUPERPGSIZE
  BY PageAt, RegionPage DEF Whole, RegionOf
<1> HIDE DEF u, r
<1>2. a = SUPERPGSIZE * (a \div SUPERPGSIZE) + (a % SUPERPGSIZE) /\ a % SUPERPGSIZE \in Int
  BY Sizes
<1>3. SUPERPGSIZE * r = (r * K) * PGSIZE /\ r * K \in Nat
  BY <1>1, Sizes
<1>4. a % SUPERPGSIZE = 0 <=> u * PGSIZE = (r * K) * PGSIZE
  <2>1. SUPERPGSIZE * r \in Int
    BY <1>1, Sizes
  <2> QED
    BY <1>1, <1>2, <1>3, <2>1
<1>5. u = r * K <=> u * PGSIZE = (r * K) * PGSIZE
  BY <1>1, <1>3, Times, Sizes
<1> QED
  BY <1>4, <1>5 DEF u, r

\* PGROUNDUP.
LEMMA RoundUp ==
    ASSUME NEW a \in Nat
    PROVE  /\ PGROUNDUP(a) \in Nat /\ Whole(PGROUNDUP(a)) /\ a <= PGROUNDUP(a)
           /\ PGROUNDUP(a) < a + PGSIZE
           /\ Whole(a) => PGROUNDUP(a) = a
<1> DEFINE u == PageOf(a + PGSIZE - 1)
<1>1. a + PGSIZE - 1 \in Nat
  BY Sizes
<1>2. u \in Nat /\ u * PGSIZE <= a + PGSIZE - 1 /\ a + PGSIZE - 1 < u * PGSIZE + PGSIZE
  BY <1>1, PageAt
<1>3. PGROUNDUP(a) = u * PGSIZE
  BY DEF PGROUNDUP, PageOf
<1> HIDE DEF u
<1>4. PGROUNDUP(a) \in Nat /\ Whole(PGROUNDUP(a))
  BY <1>2, <1>3, PageStart
<1>5. a <= PGROUNDUP(a) /\ PGROUNDUP(a) < a + PGSIZE
  BY <1>2, <1>3, <1>4, Sizes
<1>6. ASSUME Whole(a) PROVE PGROUNDUP(a) = a
  <2>1. PageOf(a) <= PageOf(PGROUNDUP(a)) /\ PageOf(a) \in Nat /\ PageOf(PGROUNDUP(a)) \in Nat
    BY <1>4, <1>5, <1>6, WholeOrder, PageAt
  <2>2. PageOf(PGROUNDUP(a)) < PageOf(a) + 1
    <3>1. Whole(a + PGSIZE) /\ PageOf(a + PGSIZE) = PageOf(a) + 1 /\ a + PGSIZE \in Nat
      BY <1>6, WholeNext, Sizes
    <3> QED
      BY <1>4, <1>5, <3>1, WholeOrder
  <2> QED
    BY <1>4, <1>6, <2>1, <2>2, WholeOrder
<1> QED
  BY <1>4, <1>5, <1>6

\* A request for whole pages moves whole pages.
LEMMA WholeSum ==
    ASSUME NEW a \in Nat, Whole(a), NEW n \in Nat, n % PGSIZE = 0
    PROVE  Whole(a + n) /\ (a >= n => Whole(a - n))
<1>1. PICK k \in Int : n = k * PGSIZE
  <2>1. n = PGSIZE * (n \div PGSIZE) + (n % PGSIZE) /\ n \div PGSIZE \in Int
    BY Sizes
  <2> DEFINE k == n \div PGSIZE
  <2> HIDE DEF k
  <2>2. k \in Int /\ n = k * PGSIZE
    BY <2>1, Sizes DEF k
  <2> QED
    BY <2>2
<1> DEFINE u == PageOf(a)
<1>2. u \in Nat /\ a = u * PGSIZE
  BY PageAt DEF Whole
<1> HIDE DEF u
<1>3. a + n = (u + k) * PGSIZE /\ a - n = (u - k) * PGSIZE
  BY <1>1, <1>2, Sizes, Times
<1>4. 0 <= k
  BY <1>1, Sizes, Times
<1>5. u + k \in Nat
  BY <1>2, <1>4
<1>6. a >= n => u - k \in Nat
  <2>1. k <= u <=> k * PGSIZE <= u * PGSIZE
    BY <1>1, <1>2, Sizes, Times
  <2> QED
    BY <1>1, <1>2, <2>1
<1> QED
  BY <1>3, <1>5, <1>6, PageStart

-----------------------------------------------------------------------------
(* Page tables.                                                            *)

LEMMA MappedPages ==
    ASSUME NEW t \in Tables
    PROVE  /\ Mapped(t) \subseteq Nat
           /\ \A v \in Nat : v \in Mapped(t) <=> v \in t.small \/ v \div K \in t.super
<1>1. /\ t.small \subseteq Nat /\ t.super \subseteq Nat
  BY DEF Tables
<1>2. ASSUME NEW r \in t.super, NEW v \in r * K .. r * K + K - 1 PROVE v \in Nat /\ v \div K = r
  <2>1. r \in Nat /\ r * K \in Nat /\ v \in Nat /\ r * K <= v /\ v < r * K + K
    BY <1>1, <1>2, SuperStart, Sizes
  <2> QED
    BY <2>1, RegionAt
<1>3. ASSUME NEW v \in Nat, v \div K \in t.super PROVE v \in (v \div K) * K .. (v \div K) * K + K - 1
  <2>1. v \div K \in Nat /\ (v \div K) * K <= v /\ v < (v \div K) * K + K /\ (v \div K) * K \in Nat
    BY RegionAt, SuperStart
  <2> QED
    BY <2>1, Sizes
<1>4. \A v : v \in Mapped(t) <=> v \in t.small \/ \E r \in t.super : v \in r * K .. r * K + K - 1
  BY DEF Mapped
<1>5. Mapped(t) \subseteq Nat
  BY <1>1, <1>2, <1>4
<1>6. ASSUME NEW v \in Nat PROVE v \in Mapped(t) <=> v \in t.small \/ v \div K \in t.super
  BY <1>2, <1>3, <1>4
<1> QED
  BY <1>5, <1>6

LEMMA NothingMapped ==
    ASSUME NEW t \in Tables, Mapped(t) = {}
    PROVE  t.small = {} /\ t.super = {}
<1>1. t.small = {}
  BY DEF Mapped
<1>2. ASSUME NEW r \in t.super PROVE FALSE
  <2>1. r \in Nat
    BY DEF Tables
  <2>2. r * K \in Nat /\ (r * K) \div K = r
    BY <2>1, SuperStart
  <2> QED
    BY <2>2, MappedPages
<1> QED
  BY <1>1, <1>2

\* What walk finds, in terms of pages and regions.
LEMMA WalkFinds ==
    ASSUME NEW t, Shape(t), NEW a \in Nat
    PROVE  /\ walk(t, a) \in {"super", "page", "empty", "none"}
           /\ walk(t, a) = "super" <=> RegionOf(a) \in t.super
           /\ walk(t, a) = "page" <=> PageOf(a) \in t.small
           /\ walk(t, a) = "none" <=> RegionOf(a) \notin t.super \cup t.l0
           /\ walk(t, a) \in {"super", "page"} <=> PageOf(a) \in Mapped(t)
           /\ walk(t, a) \in {"none", "empty"} <=> PageOf(a) \notin Mapped(t)
<1> DEFINE v == PageOf(a)
           r == RegionOf(a)
<1>1. v \in Nat /\ r = v \div K /\ r \in Nat
  BY PageAt, RegionPage
<1>2. t.super \cap t.l0 = {} /\ (v \in t.small => r \in t.l0)
  BY <1>1 DEF Shape
<1>3. v \in Mapped(t) <=> v \in t.small \/ r \in t.super
  BY <1>1, MappedPages DEF Shape
<1> HIDE DEF v, r
<1>4. walk(t, a) = CASE r \in t.super -> "super"
                     [] r \in t.l0 /\ v \in t.small -> "page"
                     [] r \in t.l0 /\ v \notin t.small -> "empty"
                     [] OTHER -> "none"
  BY DEF walk, v, r
<1>5. CASE r \in t.super
  BY <1>2, <1>3, <1>4, <1>5 DEF v, r
<1>6. CASE r \notin t.super /\ r \in t.l0 /\ v \in t.small
  BY <1>2, <1>3, <1>4, <1>6 DEF v, r
<1>7. CASE r \notin t.super /\ r \in t.l0 /\ v \notin t.small
  BY <1>2, <1>3, <1>4, <1>7 DEF v, r
<1>8. CASE r \notin t.super /\ r \notin t.l0
  BY <1>2, <1>3, <1>4, <1>8 DEF v, r
<1> QED
  BY <1>5, <1>6, <1>7, <1>8

\* Addresses below the limit have their page and region in a table.
LEMMA InLimit ==
    ASSUME NEW a \in Nat, a <= LIMIT
    PROVE  PageOf(a) \in 0 .. LIMIT \div PGSIZE /\ RegionOf(a) \in 0 .. LIMIT \div SUPERPGSIZE
<1>1. ASSUME NEW d \in Nat \ {0} PROVE a \div d \in 0 .. LIMIT \div d
  <2> DEFINE u == a \div d
             w == LIMIT \div d
  <2>1. u \in Int /\ w \in Int /\ u * d <= a /\ LIMIT < w * d + d /\ 0 <= u
    BY Quotient, Sizes
  <2> HIDE DEF u, w
  <2>2. u * d < (w + 1) * d
    BY <2>1, Times, Sizes
  <2>3. u < w + 1
    BY <2>1, <2>2, Times
  <2> QED
    BY <2>1, <2>3 DEF u, w
<1> QED
  BY <1>1, Sizes DEF PageOf, RegionOf

\* mappages of one page.
LEMMA MapPageShape ==
    ASSUME NEW t, Shape(t), NEW a \in Nat, a <= LIMIT, RegionOf(a) \notin t.super
    PROVE  /\ Shape(MapPage(t, a))
           /\ MapPage(t, a).small = t.small \cup {PageOf(a)}
           /\ MapPage(t, a).super = t.super
           /\ MapPage(t, a).l0 = t.l0 \cup {RegionOf(a)}
<1> DEFINE u == MapPage(t, a)
<1>1. t \in Tables
  BY DEF Shape
<1>2. /\ u.small = t.small \cup {PageOf(a)} /\ u.super = t.super /\ u.l0 = t.l0 \cup {RegionOf(a)}
  BY <1>1 DEF MapPage, Tables
<1>3. u \in Tables
  BY <1>1, InLimit DEF MapPage, Tables
<1> HIDE DEF u
<1>4. u.super \cap u.l0 = {}
  BY <1>2 DEF Shape
<1>5. \A v \in u.small : v \div K \in u.l0
  BY <1>2, RegionPage DEF Shape
<1> QED
  BY <1>2, <1>3, <1>4, <1>5 DEF Shape, u

\* supermappages of one superpage.
LEMMA MapSuperShape ==
    ASSUME NEW t, Shape(t), NEW a \in Nat, a <= LIMIT, RegionOf(a) \notin t.l0
    PROVE  /\ Shape(MapSuper(t, a))
           /\ MapSuper(t, a).small = t.small
           /\ MapSuper(t, a).super = t.super \cup {RegionOf(a)}
           /\ MapSuper(t, a).l0 = t.l0
<1> DEFINE u == MapSuper(t, a)
<1>1. t \in Tables
  BY DEF Shape
<1>2. /\ u.small = t.small /\ u.super = t.super \cup {RegionOf(a)} /\ u.l0 = t.l0
  BY <1>1 DEF MapSuper, Tables
<1>3. u \in Tables
  BY <1>1, InLimit DEF MapSuper, Tables
<1> HIDE DEF u
<1> QED
  BY <1>2, <1>3 DEF Shape, u

\* uvmunmap of a superpage or a page.
LEMMA DropShape ==
    ASSUME NEW t, Shape(t), NEW x
    PROVE  LET u == [t EXCEPT !.super = @ \ {x}]
               w == [t EXCEPT !.small = @ \ {x}]
           IN  /\ Shape(u) /\ u.small = t.small /\ u.super = t.super \ {x} /\ u.l0 = t.l0
               /\ Shape(w) /\ w.small = t.small \ {x} /\ w.super = t.super /\ w.l0 = t.l0
<1> DEFINE u == [t EXCEPT !.super = @ \ {x}]
           w == [t EXCEPT !.small = @ \ {x}]
<1>1. t \in Tables
  BY DEF Shape
<1>2. /\ u \in Tables /\ u.small = t.small /\ u.super = t.super \ {x} /\ u.l0 = t.l0
      /\ w \in Tables /\ w.small = t.small \ {x} /\ w.super = t.super /\ w.l0 = t.l0
  BY <1>1 DEF Tables
<1> HIDE DEF u, w
<1>3. Shape(u) /\ Shape(w)
  BY <1>2 DEF Shape
<1> QED
  BY <1>2, <1>3 DEF u, w

-----------------------------------------------------------------------------
(* How the three operations move the ends of a span.                       *)

\* A span in the making is clear, too, when it is still empty.
LEMMA SpanClear ==
    ASSUME NEW t \in Tables, NEW kept, NEW x \in Nat, NEW y \in Nat, Span(t, kept, x, y),
           y \div K \notin t.super \/ \E r \in Nat : y = r * K
    PROVE  Clear(t, x, y)
<1>1. t.super \subseteq Nat
  BY DEF Tables
<1>2. CASE x < y
  BY <1>2 DEF Span
<1>3. CASE x = y
  <2> SUFFICES ASSUME NEW s \in t.super PROVE s * K + K <= y \/ y <= s * K
    BY <1>3 DEF Clear
  <2>1. s \in Nat /\ s * K \in Nat
    BY <1>1, SuperStart
  <2>2. CASE y \div K \notin t.super
    <3>1. ~(s * K <= y /\ y < s * K + K)
      BY <2>1, <2>2, RegionAt
    <3> QED
      BY <2>1, <3>1, Sizes
  <2>3. CASE \E r \in Nat : y = r * K
    <3>1. PICK r \in Nat : y = r * K
      BY <2>3
    <3>2. (s < r <=> s * K + K <= r * K) /\ (r < s <=> r * K < s * K)
      BY <2>1, SuperStart
    <3>3. s = r => y <= s * K
      BY <3>1, <2>1
    <3>4. s < r \/ r < s \/ s = r
      BY <2>1
    <3> QED
      BY <2>1, <3>1, <3>2, <3>3, <3>4
  <2> QED
    BY <2>2, <2>3
<1> QED
  BY <1>2, <1>3 DEF Span

LEMMA SpanPage ==
    ASSUME NEW t, Shape(t), NEW u, Shape(u), NEW kept, NEW x \in Nat, NEW y \in Nat,
           Span(t, kept, x, y), y \notin Mapped(t),
           u.small = t.small \cup {y}, u.super = t.super
    PROVE  Span(u, kept, x, y + 1)
<1>1. t \in Tables /\ u \in Tables /\ t.super \subseteq Nat
  BY DEF Shape, Tables
<1>2. y \div K \notin t.super
  BY <1>1, MappedPages
<1>3. Clear(u, x, y + 1)
  <2> SUFFICES ASSUME NEW r \in t.super
               PROVE  r * K + K <= x \/ y + 1 <= r * K \/ (x <= r * K /\ r * K + K <= y + 1)
    BY DEF Clear
  <2>1. r * K + K <= x \/ y <= r * K \/ (x <= r * K /\ r * K + K <= y)
    BY <1>1, <1>2, SpanClear DEF Clear
  <2>2. r \in Nat /\ r * K \in Nat /\ (r * K) \div K = r
    BY <1>1, SuperStart
  <2>3. y # r * K
    BY <1>2, <2>2
  <2> QED
    BY <2>1, <2>2, <2>3, Sizes
<1>4. Mapped(u) = Mapped(t) \cup {y}
  BY <1>1, MappedPages
<1>5. Mapped(t) = kept \cup (x .. y - 1) /\ kept \cap (x .. y - 1) = {} /\ x <= y
  BY DEF Span
<1>6. x .. (y + 1) - 1 = (x .. y - 1) \cup {y}
  BY <1>5
<1>7. Mapped(u) = kept \cup (x .. (y + 1) - 1) /\ kept \cap (x .. (y + 1) - 1) = {}
  BY <1>4, <1>5, <1>6
<1> QED
  BY <1>3, <1>5, <1>7 DEF Span

LEMMA SpanSuper ==
    ASSUME NEW t, Shape(t), NEW u, Shape(u), NEW kept, NEW x \in Nat, NEW y \in Nat, NEW r \in Nat,
           Span(t, kept, x, y), y = r * K, r \notin t.super, r \notin t.l0,
           u.small = t.small, u.super = t.super \cup {r}
    PROVE  Span(u, kept, x, y + K)
<1>1. t \in Tables /\ u \in Tables /\ t.super \subseteq Nat
  BY DEF Shape, Tables
<1>2. Mapped(t) = kept \cup (x .. y - 1) /\ kept \cap (x .. y - 1) = {} /\ x <= y
  BY DEF Span
<1>3. ASSUME NEW v \in Nat
      PROVE  (v \div K = r <=> v \in y .. y + K - 1) /\ (v \div K = r => v \notin Mapped(t))
  <2>1. v \div K = r <=> v \in y .. y + K - 1
    BY RegionAt, Sizes
  <2>2. v \div K = r => v \notin Mapped(t)
    BY <1>1, MappedPages DEF Shape
  <2> QED
    BY <2>1, <2>2
<1>4. Clear(u, x, y + K)
  <2> SUFFICES ASSUME NEW s \in t.super \cup {r}
               PROVE  s * K + K <= x \/ y + K <= s * K \/ (x <= s * K /\ s * K + K <= y + K)
    BY DEF Clear
  <2>1. CASE s = r
    BY <1>2, <2>1, Sizes
  <2>2. CASE s \in t.super
    <3>1. s * K + K <= x \/ y <= s * K \/ (x <= s * K /\ s * K + K <= y)
      BY <1>1, <2>2, SpanClear DEF Clear
    <3>2. s \in Nat /\ s # r /\ s * K \in Nat
      BY <1>1, <2>2, SuperStart
    <3>3. y <= s * K => y + K <= s * K
      <4>1. (s < r <=> s * K < r * K) /\ (r < s <=> r * K + K <= s * K)
        BY <3>2, SuperStart
      <4> QED
        BY <3>2, <4>1
    <3> QED
      BY <3>1, <3>2, <3>3, Sizes
  <2> QED
    BY <2>1, <2>2
<1>5. \A v \in Nat : v \in Mapped(u) <=> v \in Mapped(t) \/ v \in y .. y + K - 1
  BY <1>1, <1>3, MappedPages
<1>6. Mapped(u) = Mapped(t) \cup (y .. y + K - 1)
  BY <1>1, <1>5, MappedPages, Sizes
<1>7. x .. (y + K) - 1 = (x .. y - 1) \cup (y .. y + K - 1)
  BY <1>2, Sizes
<1>8. \A v \in y .. y + K - 1 : v \notin Mapped(t)
  <2>1. \A v \in y .. y + K - 1 : v \in Nat
    OBVIOUS
  <2> QED
    BY <1>3, <2>1
<1>9. Mapped(u) = kept \cup (x .. (y + K) - 1) /\ kept \cap (x .. (y + K) - 1) = {}
  BY <1>2, <1>6, <1>7, <1>8
<1>10. x <= y + K
  BY <1>2, Sizes
<1> QED
  BY <1>4, <1>9, <1>10 DEF Span

LEMMA SpanDrop ==
    ASSUME NEW t, Shape(t), NEW u, Shape(u), NEW kept, NEW x \in Nat, NEW y \in Nat,
           Span(t, kept, x, y), x < y
    PROVE  /\ x \in Mapped(t)
           /\ x \div K \in t.super /\ u.super = t.super \ {x \div K} /\ u.small = t.small
                => (x \div K) * K = x /\ Span(u, kept, x + K, y)
           /\ x \div K \notin t.super /\ u.small = t.small \ {x} /\ u.super = t.super
                => Span(u, kept, x + 1, y)
<1> DEFINE r == x \div K
<1>1. t \in Tables /\ u \in Tables /\ t.super \subseteq Nat
  BY DEF Shape, Tables
<1>2. Mapped(t) = kept \cup (x .. y - 1) /\ kept \cap (x .. y - 1) = {} /\ x <= y
  BY DEF Span
<1>3. r \in Nat /\ r * K <= x /\ x < r * K + K /\ r * K \in Nat
  BY RegionAt, SuperStart
<1> HIDE DEF r
<1>4. x \in Mapped(t)
  BY <1>2
<1>5. ASSUME r \in t.super, u.super = t.super \ {r}, u.small = t.small
      PROVE  r * K = x /\ Span(u, kept, x + K, y)
  <2>1. r * K = x /\ x + K <= y
    <3>1. r * K + K <= x \/ y <= r * K \/ (x <= r * K /\ r * K + K <= y)
      BY <1>5 DEF Span, Clear
    <3> QED
      BY <1>3, <3>1, Sizes
  <2>2. \A v \in Nat : v \div K = r <=> v \in x .. x + K - 1
    BY <1>3, <2>1, RegionAt, Sizes
  <2>3. \A v \in Nat : v \div K = r => v \notin t.small
    BY <1>5 DEF Shape
  <2>4. \A v \in Nat : v \in Mapped(u) <=> v \in Mapped(t) /\ v \notin x .. x + K - 1
    BY <1>1, <1>5, <2>2, <2>3, MappedPages
  <2>5. Mapped(u) = Mapped(t) \ (x .. x + K - 1)
    BY <1>1, <2>4, MappedPages
  <2>6. x .. y - 1 = (x .. x + K - 1) \cup (x + K .. y - 1)
    BY <2>1, Sizes
  <2>7. (x .. x + K - 1) \cap (x + K .. y - 1) = {}
    BY Sizes
  <2>8. Mapped(u) = kept \cup (x + K .. y - 1) /\ kept \cap (x + K .. y - 1) = {}
    BY <1>2, <2>5, <2>6, <2>7
  <2>9. Clear(u, x + K, y)
    <3> SUFFICES ASSUME NEW s \in t.super, s # r
                 PROVE  s * K + K <= x + K \/ y <= s * K \/ (x + K <= s * K /\ s * K + K <= y)
      BY <1>5 DEF Clear
    <3>1. s * K + K <= x \/ y <= s * K \/ (x <= s * K /\ s * K + K <= y)
      BY DEF Span, Clear
    <3>2. s \in Nat /\ s * K \in Nat
      BY <1>1, SuperStart
    <3>3. x <= s * K => x + K <= s * K
      <4>1. (s < r <=> s * K < r * K) /\ (r < s <=> r * K + K <= s * K)
        BY <1>3, <3>2, SuperStart
      <4> QED
        BY <1>3, <2>1, <3>2, <4>1
    <3> QED
      BY <3>1, <3>2, <3>3, Sizes
  <2> QED
    BY <2>1, <2>8, <2>9 DEF Span
<1>6. ASSUME r \notin t.super, u.small = t.small \ {x}, u.super = t.super
      PROVE  Span(u, kept, x + 1, y)
  <2>1. \A v \in Nat : v \in Mapped(u) <=> v \in Mapped(t) /\ v # x
    BY <1>1, <1>6, MappedPages DEF r
  <2>2. Mapped(u) = Mapped(t) \ {x}
    BY <1>1, <2>1, MappedPages
  <2>3. x .. y - 1 = {x} \cup (x + 1 .. y - 1)
    OBVIOUS
  <2>4. Mapped(u) = kept \cup (x + 1 .. y - 1) /\ kept \cap (x + 1 .. y - 1) = {}
    BY <1>2, <2>2, <2>3
  <2>5. Clear(u, x + 1, y)
    <3> SUFFICES ASSUME NEW s \in t.super
                 PROVE  s * K + K <= x + 1 \/ y <= s * K \/ (x + 1 <= s * K /\ s * K + K <= y)
      BY <1>6 DEF Clear
    <3>1. s * K + K <= x \/ y <= s * K \/ (x <= s * K /\ s * K + K <= y)
      BY DEF Span, Clear
    <3>2. s \in Nat /\ s * K \in Nat /\ (s * K) \div K = s
      BY <1>1, SuperStart
    <3>3. s * K # x
      BY <1>6, <3>2 DEF r
    <3> QED
      BY <3>1, <3>2, <3>3, Sizes
  <2> QED
    BY <1>2, <2>4, <2>5 DEF Span
<1> QED
  BY <1>4, <1>5, <1>6 DEF r

\* A whole memory is one below a cut and a span above it.
LEMMA SpanJoin ==
    ASSUME NEW t, NEW x \in Nat, NEW y \in Nat, Span(t, 0 .. x - 1, x, y), t \in Tables,
           Clear(t, x, y)
    PROVE  Span(t, {}, 0, y)
<1>1. t.super \subseteq Nat
  BY DEF Tables
<1>2. Clear(t, 0, y)
  <2> SUFFICES ASSUME NEW r \in t.super
               PROVE  r * K + K <= 0 \/ y <= r * K \/ (0 <= r * K /\ r * K + K <= y)
    BY DEF Clear
  <2>1. r * K + K <= x \/ y <= r * K \/ (x <= r * K /\ r * K + K <= y)
    BY DEF Clear
  <2>2. r * K \in Nat /\ x <= y
    BY <1>1, SuperStart DEF Span
  <2> QED
    BY <2>1, <2>2, Sizes
<1>3. (0 .. x - 1) \cup (x .. y - 1) = 0 .. y - 1
  BY DEF Span
<1> QED
  BY <1>2, <1>3 DEF Span

LEMMA SpanCut ==
    ASSUME NEW t, NEW x \in Nat, NEW y \in Nat, x <= y, Span(t, {}, 0, y), t \in Tables, Uncut(t, x)
    PROVE  Span(t, 0 .. x - 1, x, y)
<1>1. t.super \subseteq Nat
  BY DEF Tables
<1>2. Clear(t, x, y)
  <2> SUFFICES ASSUME NEW r \in t.super
               PROVE  r * K + K <= x \/ y <= r * K \/ (x <= r * K /\ r * K + K <= y)
    BY DEF Clear
  <2>1. r * K \in Nat /\ (r * K + K <= x \/ x <= r * K)
    BY <1>1, SuperStart DEF Uncut
  <2>2. 0 < y => r * K + K <= 0 \/ y <= r * K \/ (0 <= r * K /\ r * K + K <= y)
    BY DEF Span, Clear
  <2> QED
    BY <2>1, <2>2, Sizes
<1>3. (0 .. x - 1) \cup (x .. y - 1) = 0 .. y - 1 /\ (0 .. x - 1) \cap (x .. y - 1) = {}
  OBVIOUS
<1>4. Mapped(t) = 0 .. y - 1
  BY DEF Span
<1> QED
  BY <1>2, <1>3, <1>4 DEF Span

\* Where a memory without holes ends, nothing is cut.
LEMMA SpanUncut ==
    ASSUME NEW t, NEW y \in Nat, Span(t, {}, 0, y), t \in Tables
    PROVE  /\ Uncut(t, y)
           /\ \A r \in t.super : r * K + K <= y
           /\ \A v \in t.small : v < y
<1>1. t.super \subseteq Nat /\ t.small \subseteq Nat
  BY DEF Tables
<1>2. Mapped(t) = 0 .. y - 1
  BY DEF Span
<1>3. ASSUME NEW r \in t.super PROVE r * K + K <= y
  <2>1. r \in Nat /\ r * K \in Nat /\ (r * K) \div K = r
    BY <1>1, SuperStart
  <2>2. r * K \in Mapped(t)
    BY <2>1, MappedPages
  <2>3. 0 < y => r * K + K <= 0 \/ y <= r * K \/ (0 <= r * K /\ r * K + K <= y)
    BY DEF Span, Clear
  <2> QED
    BY <1>2, <2>1, <2>2, <2>3, Sizes
<1>4. \A v \in t.small : v < y
  BY <1>1, <1>2, MappedPages
<1> QED
  BY <1>3, <1>4 DEF Uncut

\* A span that has become empty.
LEMMA SpanEmpty ==
    ASSUME NEW t, NEW kept, NEW x \in Nat
    PROVE  Span(t, kept, x, x) <=> Mapped(t) = kept
<1>1. x .. x - 1 = {}
  OBVIOUS
<1> QED
  BY <1>1 DEF Span

-----------------------------------------------------------------------------
(* What a step leaves alone.                                               *)

\* All that the invariant says of one process.
Sound(q) == Locals(q) /\ Growing(q) /\ Copying(q) /\ Uncopying(q) /\ Tidiness(q)

\* A step leaves the process q as it was.
Alike(q) ==
    /\ tab'[q] = tab[q] /\ sz'[q] = sz[q] /\ ones'[q] = ones[q] /\ next'[q] = next[q]
    /\ pc'[q] = pc[q] /\ op'[q] = op[q] /\ base'[q] = base[q]

LEMMA AlikeSound ==
    ASSUME NEW q \in Procs, Alike(q), Sound(q),
           op[q].child # NULL => tab'[op[q].child] = tab[op[q].child]
    PROVE  Sound(q)'
<1>1. Locals(q)'
  BY DEF Alike, Sound, Locals, Shrinking, Forking
<1>2. Growing(q)'
  BY DEF Alike, Sound, Growing
<1>3. Copying(q)'
  BY DEF Alike, Sound, Copying, Locals, Forking
<1>4. Uncopying(q)'
  BY DEF Alike, Sound, Uncopying, Locals, Forking
<1>5. Tidiness(q)'
  BY DEF Alike, Sound, Tidiness, Tidy, Shrinking, Forking
<1> QED
  BY <1>1, <1>2, <1>3, <1>4, <1>5 DEF Sound

\* The rest of the invariant but for the accounts, as one formula.
Calm == Types /\ Family /\ \A q \in Procs : Sound(q)

LEMMA CalmParts == Calm <=> Structure /\ Memory /\ Heaps
  BY DEF Calm, Sound, Structure, Memory, Heaps

\* A step of p that touches, besides p, at most its child c.
LEMMA Frame ==
    ASSUME Calm, Types', NEW p \in Procs, NEW c \in Procs,
           \A q \in Procs \ {p, c} : Alike(q) /\ op[q].child \notin {p, c},
           Sound(p)', Sound(c)',
           op'[p].child = NULL \/ (c # p /\ op'[p].child = c /\ pc'[c] = "embryo"),
           c # p => op'[c].child = NULL
    PROVE  Calm'
<1>1. ASSUME NEW q \in Procs \ {p, c}, op[q].child # NULL
      PROVE  op[q].child \in Procs \ {p, c} /\ tab'[op[q].child] = tab[op[q].child]
             /\ pc'[op[q].child] = "embryo"
  <2>1. op[q].child \in Procs /\ pc[op[q].child] = "embryo"
    BY <1>1 DEF Calm, Types, Ops, Family
  <2> QED
    BY <2>1 DEF Alike
<1>2. \A q \in Procs : Sound(q)'
  BY <1>1, AlikeSound DEF Calm
<1>3. Family'
  <2> SUFFICES ASSUME NEW q \in Procs, op'[q].child # NULL
               PROVE  pc'[op'[q].child] = "embryo"
                      /\ \A s \in Procs : op'[s].child = op'[q].child => s = q
    BY DEF Family
  <2>1. CASE q = p
    <3>1. op'[q].child = c /\ c # p /\ pc'[c] = "embryo"
      BY <2>1
    <3>2. ASSUME NEW s \in Procs, op'[s].child = c PROVE s = p
      <4>1. s # c
        BY <3>1, <3>2
      <4>2. s \notin Procs \ {p, c}
        BY <3>2 DEF Alike
      <4> QED
        BY <4>1, <4>2
    <3> QED
      BY <2>1, <3>1, <3>2
  <2>2. CASE q # p
    <3>1. q # c
      BY <2>2
    <3>2. op'[q] = op[q] /\ op[q].child \in Procs \ {p, c} /\ pc'[op[q].child] = "embryo"
      BY <1>1, <2>2, <3>1 DEF Alike
    <3>3. ASSUME NEW s \in Procs, op'[s].child = op[q].child PROVE s = q
      <4>1. s # p /\ s # c
        <5>1. s = p => FALSE
          BY <3>2, <3>3
        <5>2. s = c /\ c # p => FALSE
          BY <3>2, <3>3
        <5> QED
          BY <5>1, <5>2
      <4>2. op'[s] = op[s]
        BY <4>1 DEF Alike
      <4> QED
        BY <2>2, <3>2, <3>3, <4>2 DEF Calm, Family
    <3> QED
      BY <3>2, <3>3
  <2> QED
    BY <2>1, <2>2
<1> QED
  BY <1>2, <1>3 DEF Calm

\* A process whose fork is not under way has no child, and p is no child
\* when it runs in the kernel or in user space.
LEMMA Kin ==
    ASSUME Calm, NEW p \in Procs, pc[p] # "embryo"
    PROVE  /\ \A q \in Procs : op[q].child # p
           /\ op[p].child # NULL => /\ op[p].child \in Procs /\ op[p].child # p
                                    /\ pc[op[p].child] = "embryo" /\ op[op[p].child] = Idle
                                    /\ \A q \in Procs \ {p} : op[q].child # op[p].child
           /\ op[p].child # NULL <=> Forking(p)
<1>1. NULL \notin Procs
  BY SuperAssumption
<1>2. op[p].child # NULL <=> Forking(p)
  BY DEF Calm, Sound, Locals
<1>3. \A q \in Procs : op[q].child # p
  BY <1>1 DEF Calm, Family
<1>4. ASSUME op[p].child # NULL PROVE op[p].child \in Procs /\ pc[op[p].child] = "embryo"
  BY <1>4 DEF Calm, Family, Types, Ops
<1>5. ASSUME op[p].child # NULL
      PROVE  /\ op[op[p].child] = Idle
             /\ \A q \in Procs \ {p} : op[q].child # op[p].child
  <2>1. op[op[p].child] = Idle
    BY <1>4, <1>5 DEF Calm, Sound, Locals
  <2>2. \A q \in Procs \ {p} : op[q].child # op[p].child
    BY <1>5 DEF Calm, Family
  <2> QED
    BY <2>1, <2>2
<1> QED
  BY <1>2, <1>3, <1>4, <1>5

-----------------------------------------------------------------------------
(* Counting the entries of the record.                                     *)

LEMMA Finite ==
    ASSUME NEW t \in Tables, NEW b \in Nat, NEW x \in Nat
    PROVE  /\ IsFiniteSet(t.small) /\ IsFiniteSet(t.super) /\ IsFiniteSet(t.l0)
           /\ IsFiniteSet(PagesIn(t, b, x)) /\ IsFiniteSet(SupersIn(t, b, x))
           /\ Cardinality(PagesIn(t, b, x)) \in Nat /\ Cardinality(SupersIn(t, b, x)) \in Nat
           /\ Count(t, b, x) \in Nat
<1>1. LIMIT \div PGSIZE \in Int /\ LIMIT \div SUPERPGSIZE \in Int
  BY Sizes, Quotient
<1>2. IsFiniteSet(0 .. LIMIT \div PGSIZE) /\ IsFiniteSet(0 .. LIMIT \div SUPERPGSIZE)
  BY <1>1, FS_Interval
<1>3. t.small \subseteq 0 .. LIMIT \div PGSIZE /\ t.super \subseteq 0 .. LIMIT \div SUPERPGSIZE
      /\ t.l0 \subseteq 0 .. LIMIT \div SUPERPGSIZE
  BY DEF Tables
<1>4. IsFiniteSet(t.small) /\ IsFiniteSet(t.super) /\ IsFiniteSet(t.l0)
  BY <1>2, <1>3, FS_Subset
<1>5. PagesIn(t, b, x) \subseteq t.small /\ SupersIn(t, b, x) \subseteq t.super
  BY DEF PagesIn, SupersIn
<1>6. IsFiniteSet(PagesIn(t, b, x)) /\ IsFiniteSet(SupersIn(t, b, x))
  BY <1>4, <1>5, FS_Subset
<1>7. Cardinality(PagesIn(t, b, x)) \in Nat /\ Cardinality(SupersIn(t, b, x)) \in Nat
  BY <1>6, FS_CardinalityType
<1> QED
  BY <1>4, <1>6, <1>7 DEF Count

\* Page x and the superpage that starts at page x add one entry each.
LEMMA CountPage ==
    ASSUME NEW t, Shape(t), NEW b \in Nat, NEW x \in Nat, b <= x, x \in t.small
    PROVE  Count(t, b, x + 1) = Count(t, b, x) + 1 /\ SupersIn(t, b, x + 1) = SupersIn(t, b, x)
<1>1. t \in Tables /\ t.small \subseteq Nat /\ t.super \subseteq Nat
  BY DEF Shape, Tables
<1>2. x \div K \notin t.super
  BY DEF Shape
<1>3. \A q \in t.super : q * K \in Nat /\ q * K # x
  BY <1>1, <1>2, SuperStart
<1>4. SupersIn(t, b, x + 1) = SupersIn(t, b, x)
  BY <1>3 DEF SupersIn
<1>5. PagesIn(t, b, x + 1) = PagesIn(t, b, x) \cup {x} /\ x \notin PagesIn(t, b, x)
  BY <1>1 DEF PagesIn
<1>6. Cardinality(PagesIn(t, b, x + 1)) = Cardinality(PagesIn(t, b, x)) + 1
  BY <1>1, <1>5, Finite, FS_AddElement
<1> QED
  BY <1>1, <1>4, <1>6, Finite DEF Count

LEMMA CountSuper ==
    ASSUME NEW t, Shape(t), NEW b \in Nat, NEW r \in t.super, b <= r * K
    PROVE  /\ Count(t, b, r * K + K) = Count(t, b, r * K) + 1
           /\ SupersIn(t, b, r * K + K) = SupersIn(t, b, r * K) \cup {r}
<1>1. t \in Tables /\ t.small \subseteq Nat /\ t.super \subseteq Nat /\ r \in Nat
  BY DEF Shape, Tables
<1> DEFINE x == r * K
<1>2. x \in Nat /\ x + K \in Nat
  BY <1>1, SuperStart, Sizes
<1>3. ASSUME NEW q \in t.super PROVE q * K \in Nat /\ (q * K < x + K <=> q * K < x \/ q = r)
  <2>1. q \in Nat /\ q * K \in Nat
    BY <1>1, SuperStart
  <2>2. (q < r <=> q * K < r * K) /\ (r < q <=> r * K + K <= q * K)
    BY <1>1, <2>1, SuperStart
  <2>3. q < r \/ r < q \/ q = r
    BY <1>1, <2>1
  <2> QED
    BY <1>2, <2>1, <2>2, <2>3, Sizes
<1>4. ASSUME NEW v \in t.small PROVE v < x + K <=> v < x
  <2>1. v \in Nat /\ v \div K \in t.l0 /\ v \div K # r
    BY <1>1 DEF Shape
  <2>2. ~(x <= v /\ v < x + K)
    BY <1>1, <2>1, RegionAt
  <2> QED
    BY <1>2, <2>1, <2>2, Sizes
<1> HIDE DEF x
<1>5. PagesIn(t, b, x + K) = PagesIn(t, b, x)
  BY <1>4 DEF PagesIn
<1>6. SupersIn(t, b, x + K) = SupersIn(t, b, x) \cup {r} /\ r \notin SupersIn(t, b, x)
  <2>1. ~(r * K < x) /\ b <= r * K
    BY <1>2 DEF x
  <2> QED
    BY <1>3, <2>1 DEF SupersIn
<1>7. Cardinality(SupersIn(t, b, x + K)) = Cardinality(SupersIn(t, b, x)) + 1
  BY <1>1, <1>2, <1>6, Finite, FS_AddElement
<1>8. Count(t, b, x + K) = Count(t, b, x) + 1
  BY <1>1, <1>2, <1>5, <1>7, Finite DEF Count
<1> QED
  BY <1>6, <1>8 DEF x

\* A superpage's position is below the number of entries that include it.
LEMMA CountBelow ==
    ASSUME NEW t \in Tables, NEW b \in Nat, NEW x \in Nat, NEW q \in SupersIn(t, b, x)
    PROVE  Count(t, b, q * K) \in Nat /\ Count(t, b, q * K) < Count(t, b, x)
<1>1. q \in Nat /\ q \in t.super /\ b <= q * K /\ q * K < x /\ t.super \subseteq Nat /\ t.small \subseteq Nat
  BY DEF SupersIn, Tables
<1> DEFINE y == q * K
<1>2. y \in Nat /\ y < x
  BY <1>1, SuperStart
<1>3. PagesIn(t, b, y) \subseteq PagesIn(t, b, x)
  BY <1>1, <1>2 DEF PagesIn
<1>4. SupersIn(t, b, y) \cup {q} \subseteq SupersIn(t, b, x) /\ q \notin SupersIn(t, b, y)
  <2>1. \A s \in t.super : s * K \in Nat
    BY <1>1, SuperStart
  <2>2. ~(q * K < y)
    BY <1>2
  <2> QED
    BY <1>1, <1>2, <2>1, <2>2 DEF SupersIn
<1> HIDE DEF y
<1>5. Cardinality(PagesIn(t, b, y)) <= Cardinality(PagesIn(t, b, x))
  BY <1>3, Finite, FS_Subset
<1>6. Cardinality(SupersIn(t, b, y) \cup {q}) = Cardinality(SupersIn(t, b, y)) + 1
  BY <1>2, <1>4, Finite, FS_AddElement
<1>7. Cardinality(SupersIn(t, b, y) \cup {q}) <= Cardinality(SupersIn(t, b, x))
  BY <1>4, Finite, FS_Subset
<1>8. Count(t, b, y) \in Nat /\ Count(t, b, y) < Count(t, b, x)
  BY <1>2, <1>5, <1>6, <1>7, Finite DEF Count
<1> QED
  BY <1>8 DEF y

\* The record speaks of nothing above the memory it covers.
LEMMA CountAgrees ==
    ASSUME NEW t \in Tables, NEW u \in Tables, NEW b \in Nat, NEW x \in Nat,
           \A v \in Nat : v < x => (v \in t.small <=> v \in u.small),
           \A q \in Nat : q * K < x => (q \in t.super <=> q \in u.super)
    PROVE  /\ \A y \in Nat : y <= x => Count(u, b, y) = Count(t, b, y)
           /\ \A w \in Nat : SupersIn(u, w, x) = SupersIn(t, w, x)
                             /\ Positions(u, b, w, x) = Positions(t, b, w, x)
           /\ \A nx, on : Recorded(t, b, x, nx, on) => Recorded(u, b, x, nx, on)
<1>1. t.small \subseteq Nat /\ t.super \subseteq Nat /\ u.small \subseteq Nat /\ u.super \subseteq Nat
  BY DEF Tables
<1>2. ASSUME NEW y \in Nat, y <= x, NEW w \in Nat
      PROVE PagesIn(u, w, y) = PagesIn(t, w, y) /\ SupersIn(u, w, y) = SupersIn(t, w, y)
  <2>1. PagesIn(u, w, y) = PagesIn(t, w, y)
    BY <1>1, <1>2 DEF PagesIn
  <2>2. \A q \in Nat : q * K \in Nat
    BY SuperStart
  <2>3. \A q \in Nat : q * K < y => q * K < x
    BY <1>2, <2>2
  <2>4. SupersIn(u, w, y) = SupersIn(t, w, y)
    BY <1>1, <2>3 DEF SupersIn
  <2> QED
    BY <2>1, <2>4
<1>3. \A y \in Nat : y <= x => Count(u, b, y) = Count(t, b, y)
  BY <1>2 DEF Count
<1>4. ASSUME NEW w \in Nat
      PROVE  SupersIn(u, w, x) = SupersIn(t, w, x) /\ Positions(u, b, w, x) = Positions(t, b, w, x)
  <2>1. SupersIn(u, w, x) = SupersIn(t, w, x)
    BY <1>2
  <2>2. \A q \in SupersIn(t, w, x) : Count(u, b, q * K) = Count(t, b, q * K)
    <3>1. \A q \in SupersIn(t, w, x) : q * K \in Nat /\ q * K <= x
      BY <1>1, SuperStart DEF SupersIn
    <3> QED
      BY <1>3, <3>1
  <2> QED
    BY <2>1, <2>2 DEF Positions
<1>5. ASSUME NEW nx, NEW on, Recorded(t, b, x, nx, on) PROVE Recorded(u, b, x, nx, on)
  <2>1. Clear(u, b, x)
    <3> SUFFICES ASSUME NEW r \in u.super
                 PROVE  r * K + K <= b \/ x <= r * K \/ (b <= r * K /\ r * K + K <= x)
      BY DEF Clear
    <3>1. r \in Nat /\ r * K \in Nat
      BY <1>1, SuperStart
    <3>2. CASE r * K < x
      <4>1. r \in t.super
        BY <3>1, <3>2
      <4> QED
        BY <1>5, <4>1 DEF Recorded, Clear
    <3> QED
      BY <3>1, <3>2
  <2> QED
    BY <1>3, <1>4, <1>5, <2>1 DEF Recorded
<1> QED
  BY <1>3, <1>4, <1>5

\* The last entry of the record is that of the topmost page or superpage, and
\* without it the record is that of the memory below.
LEMMA LastEntry ==
    ASSUME NEW t, Shape(t), NEW b \in Nat, NEW x \in Nat, b < x, NEW i \in Int, NEW on,
           Span(t, {}, 0, x), Recorded(t, b, x, i + 1, on)
    PROVE  /\ i >= 0
           /\ i \in on => \E q \in t.super : /\ q * K + K = x /\ b <= q * K
                                             /\ Uncut(t, q * K)
                                             /\ Recorded(t, b, q * K, i, on)
           /\ i \notin on => /\ x - 1 \in t.small
                             /\ Uncut(t, x - 1)
                             /\ Recorded(t, b, x - 1, i, on)
<1>1. t \in Tables /\ t.small \subseteq Nat /\ t.super \subseteq Nat
  BY DEF Shape, Tables
<1>2. /\ i + 1 = Count(t, b, x) /\ Clear(t, b, x)
      /\ on \cap (0 .. (i + 1) - 1) = Positions(t, b, b, x)
  BY DEF Recorded
<1>3. \A q \in t.super : q \in Nat /\ q * K \in Nat /\ q * K + K <= x
  BY <1>1, SpanUncut, SuperStart
<1>4. \A q \in t.super : q * K + K <= b \/ b <= q * K
  BY <1>2, <1>3, Sizes DEF Clear
<1>5. x - 1 \in Nat /\ x - 1 \in Mapped(t) /\ b <= x - 1
  BY DEF Span
<1>6. ASSUME x - 1 \in t.small
      PROVE  i >= 0 /\ i \notin on /\ Uncut(t, x - 1) /\ Recorded(t, b, x - 1, i, on)
  <2> DEFINE y == x - 1
  <2>1. y \in Nat /\ b <= y /\ y \in t.small /\ y + 1 = x
    BY <1>5, <1>6
  <2> HIDE DEF y
  <2>2. Count(t, b, x) = Count(t, b, y) + 1 /\ SupersIn(t, b, x) = SupersIn(t, b, y)
    BY <2>1, CountPage
  <2>3. Count(t, b, y) = i /\ i >= 0
    <3>1. Count(t, b, y) \in Nat
      BY <1>1, <2>1, Finite
    <3> QED
      BY <1>2, <2>2, <3>1
  <2>4. Positions(t, b, b, y) = Positions(t, b, b, x)
    BY <2>2 DEF Positions
  <2>5. \A k \in Positions(t, b, b, y) : k \in Nat /\ k < i
    BY <1>1, <2>1, <2>3, CountBelow DEF Positions
  <2>6. i \notin on
    <3>1. i \in 0 .. (i + 1) - 1
      BY <2>3
    <3> QED
      BY <1>2, <2>3, <2>4, <2>5, <3>1
  <2>7. on \cap (0 .. i - 1) = Positions(t, b, b, y)
    <3>1. 0 .. (i + 1) - 1 = (0 .. i - 1) \cup {i}
      BY <2>3
    <3> QED
      BY <1>2, <2>4, <2>6, <3>1
  <2>8. ASSUME NEW q \in t.super PROVE q * K + K <= y
    <3>1. y \div K # q
      BY <2>1 DEF Shape
    <3>2. q \in Nat /\ q * K \in Nat /\ q * K + K <= x
      BY <1>3
    <3>3. ~(q * K <= y /\ y < q * K + K)
      BY <2>1, <3>1, <3>2, RegionAt
    <3> QED
      BY <2>1, <3>2, <3>3, Sizes
  <2>9. Clear(t, b, y)
    BY <1>3, <1>4, <2>1, <2>8, Sizes DEF Clear
  <2>10. Uncut(t, y)
    BY <2>8 DEF Uncut
  <2> QED
    BY <2>1, <2>3, <2>6, <2>7, <2>9, <2>10 DEF Recorded, y
<1>7. ASSUME x - 1 \notin t.small
      PROVE  /\ i >= 0 /\ i \in on
             /\ \E q \in t.super : /\ q * K + K = x /\ b <= q * K
                                   /\ Uncut(t, q * K) /\ Recorded(t, b, q * K, i, on)
  <2> DEFINE q == (x - 1) \div K
             y == q * K
  <2>1. q \in t.super /\ q \in Nat /\ y \in Nat /\ y <= x - 1
    BY <1>1, <1>5, <1>7, MappedPages, RegionAt, SuperStart
  <2>2. x - 1 < y + K
    BY <1>5, RegionAt
  <2>3. y + K = x
    <3>1. y + K <= x
      BY <1>3, <2>1
    <3> QED
      BY <2>1, <2>2, <3>1, Sizes
  <2>4. b <= y
    <3>1. y + K <= b \/ b <= y
      BY <1>4, <2>1
    <3> QED
      BY <2>1, <2>3, <3>1, Sizes
  <2>5. Count(t, b, x) = Count(t, b, y) + 1 /\ SupersIn(t, b, x) = SupersIn(t, b, y) \cup {q}
    <3> HIDE DEF q
    <3>1. b <= q * K /\ q * K + K = x
      BY <2>3, <2>4
    <3> QED
      BY <2>1, <3>1, CountSuper
  <2> HIDE DEF q
  <2>6. Count(t, b, y) = i /\ i >= 0
    <3>1. Count(t, b, y) \in Nat
      BY <1>1, <2>1, Finite
    <3> QED
      BY <1>2, <2>5, <3>1
  <2>7. Positions(t, b, b, x) = Positions(t, b, b, y) \cup {i}
    <3>1. Positions(t, b, b, x) = {Count(t, b, s * K) : s \in SupersIn(t, b, y)} \cup {Count(t, b, q * K)}
      BY <2>5 DEF Positions
    <3> QED
      BY <2>6, <3>1 DEF Positions
  <2> HIDE DEF y
  <2>8. \A k \in Positions(t, b, b, y) : k \in Nat /\ k < i
    BY <1>1, <2>1, <2>6, CountBelow DEF Positions
  <2>9. i \in on
    BY <1>2, <2>7
  <2>10. on \cap (0 .. i - 1) = Positions(t, b, b, y)
    <3>1. 0 .. (i + 1) - 1 = (0 .. i - 1) \cup {i} /\ i \notin 0 .. i - 1
      BY <2>6
    <3>2. i \notin Positions(t, b, b, y)
      BY <2>6, <2>8
    <3> QED
      BY <1>2, <2>7, <3>1, <3>2
  <2>11. ASSUME NEW s \in t.super PROVE s = q \/ s * K + K <= y
    <3>1. (s < q <=> s * K + K <= q * K) /\ (q < s <=> q * K + K <= s * K)
      BY <1>3, <2>1, SuperStart
    <3>2. s < q \/ q < s \/ s = q
      BY <1>3, <2>1
    <3>3. ~(q * K + K <= s * K)
      BY <1>3, <2>1, <2>3, Sizes DEF y
    <3> QED
      BY <3>1, <3>2, <3>3 DEF y
  <2>12. Clear(t, b, y)
    <3> SUFFICES ASSUME NEW s \in t.super
                 PROVE s * K + K <= b \/ y <= s * K \/ (b <= s * K /\ s * K + K <= y)
      BY DEF Clear
    <3>1. s = q => y <= s * K
      BY <2>1 DEF y
    <3> QED
      BY <1>4, <2>11, <3>1
  <2>13. Uncut(t, y)
    <3>1. y <= q * K
      BY <2>1 DEF y
    <3> QED
      BY <2>11, <3>1 DEF Uncut
  <2>14. Recorded(t, b, y, i, on)
    BY <2>4, <2>6, <2>10, <2>12 DEF Recorded
  <2> QED
    BY <2>1, <2>3, <2>4, <2>6, <2>9, <2>13, <2>14 DEF y
<1> QED
  BY <1>6, <1>7

\* sbrk maps one more page, or one more superpage, above the recorded memory.
LEMMA AppendPage ==
    ASSUME NEW t, Shape(t), NEW u, Shape(u), NEW b \in Nat, NEW x \in Nat, NEW y \in Nat,
           b <= x, x <= y, y \notin Mapped(t), u.small = t.small \cup {y}, u.super = t.super
    PROVE  /\ Count(u, b, y + 1) = Count(t, b, y) + 1
           /\ Positions(u, b, x, y + 1) = Positions(t, b, x, y)
           /\ \A nx, on : Recorded(t, b, x, nx, on) => Recorded(u, b, x, nx, on)
<1>1. t \in Tables /\ u \in Tables /\ t.small \subseteq Nat /\ t.super \subseteq Nat
  BY DEF Shape, Tables
<1>2. /\ \A v \in Nat : v < y => (v \in t.small <=> v \in u.small)
      /\ \A v \in Nat : v < x => (v \in t.small <=> v \in u.small)
  OBVIOUS
<1>3. Count(u, b, y) = Count(t, b, y) /\ Positions(u, b, x, y) = Positions(t, b, x, y)
  BY <1>1, <1>2, CountAgrees
<1>4. \A nx, on : Recorded(t, b, x, nx, on) => Recorded(u, b, x, nx, on)
  BY <1>1, <1>2, CountAgrees
<1>5. Count(u, b, y + 1) = Count(u, b, y) + 1
  BY CountPage
<1>6. SupersIn(u, x, y + 1) = SupersIn(u, x, y)
  BY CountPage
<1> QED
  BY <1>3, <1>4, <1>5, <1>6 DEF Positions

LEMMA AppendSuper ==
    ASSUME NEW t, Shape(t), NEW u, Shape(u), NEW b \in Nat, NEW x \in Nat, NEW r \in Nat,
           b <= x, x <= r * K, u.small = t.small, u.super = t.super \cup {r}
    PROVE  /\ Count(u, b, r * K + K) = Count(t, b, r * K) + 1
           /\ Positions(u, b, x, r * K + K) = Positions(t, b, x, r * K) \cup {Count(t, b, r * K)}
           /\ \A nx, on : Recorded(t, b, x, nx, on) => Recorded(u, b, x, nx, on)
<1>1. t \in Tables /\ u \in Tables /\ t.small \subseteq Nat /\ t.super \subseteq Nat
  BY DEF Shape, Tables
<1> DEFINE y == r * K
<1>2. y \in Nat /\ y + K \in Nat /\ b <= y
  BY SuperStart, Sizes
<1>3. \A q \in Nat : q * K < y => q # r
  BY <1>2
<1>4. \A q \in Nat : q * K < x => q # r
  BY <1>2
<1> HIDE DEF y
<1>5. Count(u, b, y) = Count(t, b, y) /\ Positions(u, b, x, y) = Positions(t, b, x, y)
  BY <1>1, <1>2, <1>3, CountAgrees
<1>6. \A nx, on : Recorded(t, b, x, nx, on) => Recorded(u, b, x, nx, on)
  BY <1>1, <1>4, CountAgrees
<1>7. Count(u, b, y + K) = Count(u, b, y) + 1 /\ SupersIn(u, x, y + K) = SupersIn(u, x, y) \cup {r}
  BY <1>2, CountSuper DEF y
<1>8. Positions(u, b, x, y + K) = {Count(u, b, q * K) : q \in SupersIn(u, x, y)} \cup {Count(u, b, r * K)}
  BY <1>7 DEF Positions
<1>9. Positions(u, b, x, y + K) = Positions(t, b, x, y) \cup {Count(t, b, y)}
  BY <1>5, <1>8 DEF Positions, y
<1> QED
  BY <1>5, <1>6, <1>7, <1>9 DEF y

\* growproc writes the entries of a growth.
LEMMA AppendRecord ==
    ASSUME NEW t \in Tables, NEW b \in Nat, NEW x \in Nat, NEW y \in Nat, x <= y, Clear(t, x, y),
           NEW nx, NEW on, Recorded(t, b, x, nx, on), NEW o \in Ops, Appended(t, b, x, y, nx, o),
           NEW w, w = nx .. nx + (o.starts + o.supers + o.ends) - 1
    PROVE  Recorded(t, b, y, nx + (o.starts + o.supers + o.ends),
                    (on \ w) \cup ((nx + o.starts) .. (nx + o.starts) + o.supers - 1))
<1> DEFINE total == o.starts + o.supers + o.ends
           new == (nx + o.starts) .. (nx + o.starts) + o.supers - 1
<1>1. t.small \subseteq Nat /\ t.super \subseteq Nat /\ o.starts \in Nat /\ o.supers \in Nat /\ o.ends \in Nat
  BY SMTT(30) DEF Tables, Ops
<1>2. /\ b <= x /\ Clear(t, b, x) /\ nx = Count(t, b, x)
      /\ on \cap (0 .. nx - 1) = Positions(t, b, b, x)
  BY DEF Recorded
<1>3. nx \in Nat
  BY <1>2, Finite
<1>4. Count(t, b, y) = nx + total /\ Positions(t, b, x, y) = new
  BY <1>1, <1>3 DEF Appended
<1>5. \A q \in t.super : q * K \in Nat /\ (q * K + K <= x \/ x <= q * K)
  <2>1. \A q \in t.super : q * K + K <= x \/ y <= q * K \/ (x <= q * K /\ q * K + K <= y)
    BY DEF Clear
  <2>2. \A q \in t.super : q * K \in Nat
    BY <1>1, SuperStart
  <2> QED
    BY <2>1, <2>2
<1>6. SupersIn(t, b, y) = SupersIn(t, b, x) \cup SupersIn(t, x, y)
  BY <1>2, <1>5, Sizes DEF SupersIn
<1>7. Positions(t, b, b, y) = Positions(t, b, b, x) \cup new
  <2>1. Positions(t, b, b, y) = Positions(t, b, b, x) \cup Positions(t, b, x, y)
    BY <1>6 DEF Positions
  <2> QED
    BY <1>4, <2>1
<1>8. w = nx .. nx + total - 1
  OBVIOUS
<1>9. /\ new \subseteq nx .. nx + total - 1 /\ new \subseteq 0 .. (nx + total) - 1
      /\ 0 .. (nx + total) - 1 = (0 .. nx - 1) \cup (nx .. nx + total - 1)
      /\ (0 .. nx - 1) \cap (nx .. nx + total - 1) = {}
  BY ONLY <1>1, <1>3
<1> HIDE DEF new, total
<1>10. ((on \ w) \cup new) \cap (0 .. (nx + total) - 1) = Positions(t, b, b, y)
  BY <1>2, <1>7, <1>8, <1>9
<1>11. Clear(t, b, y)
  <2> SUFFICES ASSUME NEW q \in t.super
               PROVE  q * K + K <= b \/ y <= q * K \/ (b <= q * K /\ q * K + K <= y)
    BY DEF Clear
  <2>1. q * K + K <= b \/ x <= q * K \/ (b <= q * K /\ q * K + K <= x)
    BY <1>2 DEF Clear
  <2>2. q * K + K <= x \/ y <= q * K \/ (x <= q * K /\ q * K + K <= y)
    BY DEF Clear
  <2> QED
    BY <1>2, <1>5, <2>1, <2>2, Sizes
<1>12. b <= y
  BY <1>2
<1> QED
  BY <1>4, <1>10, <1>11, <1>12 DEF Recorded, new, total

\* A memory without holes whose record is right is a span from 0.
LEMMA RecordedSpan ==
    ASSUME NEW t \in Tables, NEW b \in Nat, NEW x \in Nat, NEW nx, NEW on,
           Recorded(t, b, x, nx, on), Mapped(t) = 0 .. x - 1
    PROVE  Span(t, {}, 0, x)
<1>1. \A r \in t.super : r * K \in Nat
  BY SuperStart DEF Tables
<1>2. \A r \in t.super : r * K + K <= b \/ x <= r * K \/ (b <= r * K /\ r * K + K <= x)
  BY DEF Recorded, Clear
<1>3. b <= x
  BY DEF Recorded
<1>4. Clear(t, 0, x)
  BY <1>1, <1>2, <1>3, Sizes DEF Clear
<1> QED
  BY <1>4 DEF Span

\* The record of a heap that is empty yet.
LEMMA RecordedNone ==
    ASSUME NEW t \in Tables, NEW x \in Nat, NEW on, Uncut(t, x)
    PROVE  Recorded(t, x, x, 0, on)
<1>1. \A r \in t.super : r * K \in Nat
  BY SuperStart DEF Tables
<1>2. SupersIn(t, x, x) = {} /\ PagesIn(t, x, x) = {}
  <2>1. SupersIn(t, x, x) = {}
    BY <1>1 DEF SupersIn
  <2>2. PagesIn(t, x, x) = {}
    BY DEF PagesIn, Tables
  <2> QED
    BY <2>1, <2>2
<1>3. Count(t, x, x) = 0
  BY <1>2, FS_EmptySet DEF Count
<1>4. Positions(t, x, x, x) = {}
  BY <1>2 DEF Positions
<1>5. on \cap (0 .. 0 - 1) = {}
  OBVIOUS
<1>6. Clear(t, x, x)
  BY <1>1 DEF Clear, Uncut
<1> QED
  BY <1>3, <1>4, <1>5, <1>6 DEF Recorded

-----------------------------------------------------------------------------
(* Accounts.                                                               *)

LEMMA Tagged ==
    ASSUME NEW a, NEW S, IsFiniteSet(S)
    PROVE  IsFiniteSet({a} \X S) /\ Cardinality({a} \X S) = Cardinality(S)
<1>1. IsFiniteSet({a}) /\ Cardinality({a}) = 1
  BY FS_Singleton
<1>2. IsFiniteSet({a} \X S) /\ Cardinality({a} \X S) = 1 * Cardinality(S)
  BY <1>1, FS_Product
<1> QED
  BY <1>2, FS_CardinalityType

LEMMA Disjoint ==
    ASSUME NEW S, NEW T, IsFiniteSet(S), IsFiniteSet(T), S \cap T = {}
    PROVE  IsFiniteSet(S \cup T) /\ Cardinality(S \cup T) = Cardinality(S) + Cardinality(T)
<1>1. IsFiniteSet(S \cup T) /\ Cardinality(S \cup T) = Cardinality(S) + Cardinality(T) - Cardinality(S \cap T)
  BY FS_Union
<1>2. Cardinality(S \cap T) = 0 /\ Cardinality(S) \in Nat /\ Cardinality(T) \in Nat
  BY FS_EmptySet, FS_CardinalityType
<1> QED
  BY <1>1, <1>2

\* What the processes hold, given what each of them holds.
Total(F) == UNION {{q} \X F[q] : q \in Procs}

\* One process changes what it holds.
LEMMA Swap ==
    ASSUME NEW F, NEW G, NEW p \in Procs, IsFiniteSet(Total(F)), IsFiniteSet(G[p]),
           \A q \in Procs \ {p} : G[q] = F[q]
    PROVE  /\ IsFiniteSet(Total(G)) /\ IsFiniteSet(F[p])
           /\ Cardinality(Total(F)) \in Nat /\ Cardinality(Total(G)) \in Nat
           /\ Cardinality(Total(G)) + Cardinality(F[p]) = Cardinality(Total(F)) + Cardinality(G[p])
<1> DEFINE rest == UNION {{q} \X F[q] : q \in Procs \ {p}}
<1>1. Total(F) = rest \cup ({p} \X F[p]) /\ Total(G) = rest \cup ({p} \X G[p])
  <2>1. Total(F) = rest \cup ({p} \X F[p])
    BY DEF Total
  <2>2. UNION {{q} \X G[q] : q \in Procs \ {p}} = rest
    OBVIOUS
  <2>3. Total(G) = (UNION {{q} \X G[q] : q \in Procs \ {p}}) \cup ({p} \X G[p])
    BY DEF Total
  <2> QED
    BY <2>1, <2>2, <2>3
<1>2. rest \cap ({p} \X F[p]) = {} /\ rest \cap ({p} \X G[p]) = {}
  OBVIOUS
<1> HIDE DEF rest
<1>3. IsFiniteSet(rest) /\ IsFiniteSet({p} \X F[p])
  BY <1>1, FS_Subset
<1>4. IsFiniteSet(F[p])
  <2> DEFINE f == [x \in F[p] |-> <<p, x>>]
  <2>1. f \in Injection(F[p], {p} \X F[p])
    BY DEF Injection, IsInjective
  <2> QED
    BY <1>3, <2>1, FS_Injection
<1>5. Cardinality({p} \X F[p]) = Cardinality(F[p]) /\ IsFiniteSet({p} \X G[p])
      /\ Cardinality({p} \X G[p]) = Cardinality(G[p])
  BY <1>4, Tagged
<1>6. Cardinality(Total(F)) = Cardinality(rest) + Cardinality(F[p])
      /\ IsFiniteSet(Total(G)) /\ Cardinality(Total(G)) = Cardinality(rest) + Cardinality(G[p])
  BY <1>1, <1>2, <1>3, <1>5, Disjoint
<1>7. Cardinality(rest) \in Nat /\ Cardinality(F[p]) \in Nat /\ Cardinality(G[p]) \in Nat
  BY <1>3, <1>4, FS_CardinalityType
<1> QED
  BY <1>4, <1>6, <1>7

Heads(q) == IF pc[q] = "unused" THEN 0 ELSE HEAD
NewImage(q) == IF op[q].ret = "exec" THEN TABLES + BASE + 1 ELSE 0

\* How many pages a process holds.
Holding(q) == Cardinality(tab[q].small) + Cardinality(tab[q].l0) + Heads(q) + NewImage(q)

LEMMA HoldingCount ==
    ASSUME NEW t \in Tables, NEW h \in Nat, NEW e \in Nat, NEW H,
           H = ({"page"} \X t.small) \cup ({"leaf"} \X t.l0)
                 \cup ({"head"} \X (1 .. h)) \cup ({"exec"} \X (1 .. e))
    PROVE  /\ IsFiniteSet(H) /\ Cardinality(H) = Cardinality(t.small) + Cardinality(t.l0) + h + e
           /\ Cardinality(H) \in Nat
<1>1. /\ IsFiniteSet(1 .. h) /\ Cardinality(1 .. h) = h
      /\ IsFiniteSet(1 .. e) /\ Cardinality(1 .. e) = e
  BY FS_Interval
<1>2. IsFiniteSet(t.small) /\ IsFiniteSet(t.l0)
  BY Finite
<1> DEFINE A == {"page"} \X t.small
           B == {"leaf"} \X t.l0
           C == {"head"} \X (1 .. h)
           D == {"exec"} \X (1 .. e)
<1>3. /\ IsFiniteSet(A) /\ Cardinality(A) = Cardinality(t.small)
      /\ IsFiniteSet(B) /\ Cardinality(B) = Cardinality(t.l0)
      /\ IsFiniteSet(C) /\ Cardinality(C) = h
      /\ IsFiniteSet(D) /\ Cardinality(D) = e
  BY <1>1, <1>2, Tagged
<1>4. A \cap B = {} /\ (A \cup B) \cap C = {} /\ ((A \cup B) \cup C) \cap D = {}
  OBVIOUS
<1>5. H = ((A \cup B) \cup C) \cup D
  OBVIOUS
<1> HIDE DEF A, B, C, D
<1>6. IsFiniteSet(A \cup B) /\ Cardinality(A \cup B) = Cardinality(A) + Cardinality(B)
  BY ONLY <1>3, <1>4, Disjoint
<1>7. IsFiniteSet((A \cup B) \cup C)
      /\ Cardinality((A \cup B) \cup C) = Cardinality(A \cup B) + Cardinality(C)
  BY ONLY <1>3, <1>4, <1>6, Disjoint
<1>8. IsFiniteSet(H) /\ Cardinality(H) = Cardinality((A \cup B) \cup C) + Cardinality(D)
  BY ONLY <1>3, <1>4, <1>5, <1>7, Disjoint
<1>9. Cardinality(t.small) \in Nat /\ Cardinality(t.l0) \in Nat
  BY <1>2, FS_CardinalityType
<1> QED
  BY <1>3, <1>6, <1>7, <1>8, <1>9

LEMMA HoldingIs ==
    ASSUME NEW q \in Procs, tab[q] \in Tables
    PROVE  IsFiniteSet(HeldBy(q)) /\ Cardinality(HeldBy(q)) = Holding(q) /\ Holding(q) \in Nat
<1>1. Heads(q) \in Nat /\ NewImage(q) \in Nat
  BY SuperAssumption DEF Heads, NewImage
<1>2. HeldBy(q) = ({"page"} \X tab[q].small) \cup ({"leaf"} \X tab[q].l0)
                   \cup ({"head"} \X (1 .. Heads(q))) \cup ({"exec"} \X (1 .. NewImage(q)))
  BY DEF HeldBy, Heads, NewImage
<1> DEFINE t == tab[q]
           h == Heads(q)
           e == NewImage(q)
           H == HeldBy(q)
<1>3. H = ({"page"} \X t.small) \cup ({"leaf"} \X t.l0)
            \cup ({"head"} \X (1 .. h)) \cup ({"exec"} \X (1 .. e))
  BY <1>2
<1>4. t \in Tables /\ h \in Nat /\ e \in Nat
  BY <1>1
<1> HIDE DEF t, h, e, H
<1>5. IsFiniteSet(H) /\ Cardinality(H) = Cardinality(t.small) + Cardinality(t.l0) + h + e
      /\ Cardinality(H) \in Nat
  BY ONLY <1>3, <1>4, HoldingCount
<1> QED
  BY <1>5 DEF t, h, e, H, Holding

LEMMA HoldingIsNext ==
    ASSUME NEW q \in Procs, tab'[q] \in Tables
    PROVE  IsFiniteSet(HeldBy(q)') /\ Cardinality(HeldBy(q)') = Holding(q)' /\ Holding(q)' \in Nat
<1>1. Heads(q)' \in Nat /\ NewImage(q)' \in Nat
  BY SuperAssumption DEF Heads, NewImage
<1>2. HeldBy(q)' = ({"page"} \X tab'[q].small) \cup ({"leaf"} \X tab'[q].l0)
                    \cup ({"head"} \X (1 .. Heads(q)')) \cup ({"exec"} \X (1 .. NewImage(q)'))
  BY DEF HeldBy, Heads, NewImage
<1> DEFINE t == tab'[q]
           h == Heads(q)'
           e == NewImage(q)'
           H == HeldBy(q)'
<1>3. H = ({"page"} \X t.small) \cup ({"leaf"} \X t.l0)
            \cup ({"head"} \X (1 .. h)) \cup ({"exec"} \X (1 .. e))
  BY <1>2
<1>4. t \in Tables /\ h \in Nat /\ e \in Nat
  BY <1>1
<1> HIDE DEF t, h, e, H
<1>5. IsFiniteSet(H) /\ Cardinality(H) = Cardinality(t.small) + Cardinality(t.l0) + h + e
      /\ Cardinality(H) \in Nat
  BY ONLY <1>3, <1>4, HoldingCount
<1> QED
  BY <1>5 DEF t, h, e, H, Holding

\* A step in which only q changes what it holds, for as much as the lists change.
LEMMA Ledger ==
    ASSUME Accounts, Types, Types', NEW q \in Procs,
           \A s \in Procs \ {q} : HeldBy(s)' = HeldBy(s) /\ tab'[s] = tab[s],
           free' + Holding(q)' = free + Holding(q),
           superfree' + Cardinality(tab'[q].super) = superfree + Cardinality(tab[q].super)
    PROVE  Accounts'
<1> DEFINE F == [s \in Procs |-> HeldBy(s)]
           G == [s \in Procs |-> HeldBy(s)']
           FS == [s \in Procs |-> tab[s].super]
           GS == [s \in Procs |-> tab'[s].super]
<1>1. Held = Total(F) /\ Held' = Total(G) /\ HeldSuper = Total(FS) /\ HeldSuper' = Total(GS)
  BY DEF Held, HeldSuper, Total
<1>2. tab[q] \in Tables /\ tab'[q] \in Tables
  BY DEF Types
<1>3. /\ F[q] = HeldBy(q) /\ G[q] = HeldBy(q)' /\ FS[q] = tab[q].super /\ GS[q] = tab'[q].super
      /\ \A s \in Procs \ {q} : G[s] = F[s] /\ GS[s] = FS[s]
  OBVIOUS
<1> HIDE DEF F, G, FS, GS
<1>4. /\ Cardinality(F[q]) = Holding(q) /\ Holding(q) \in Nat
      /\ IsFiniteSet(G[q]) /\ Cardinality(G[q]) = Holding(q)' /\ Holding(q)' \in Nat
  BY <1>2, <1>3, HoldingIs, HoldingIsNext
<1>5. IsFiniteSet(FS[q]) /\ Cardinality(FS[q]) \in Nat /\ IsFiniteSet(GS[q]) /\ Cardinality(GS[q]) \in Nat
  BY <1>2, <1>3, Finite, FS_CardinalityType
<1>a. IsFiniteSet(Total(F)) /\ IsFiniteSet(Total(FS))
  BY <1>1 DEF Accounts
<1>6. /\ IsFiniteSet(Total(G))
      /\ Cardinality(Total(F)) \in Nat /\ Cardinality(Total(G)) \in Nat
      /\ Cardinality(Total(G)) + Cardinality(F[q]) = Cardinality(Total(F)) + Cardinality(G[q])
  BY <1>3, <1>4, <1>a, Swap
<1>7. /\ IsFiniteSet(Total(GS))
      /\ Cardinality(Total(FS)) \in Nat /\ Cardinality(Total(GS)) \in Nat
      /\ Cardinality(Total(GS)) + Cardinality(FS[q]) = Cardinality(Total(FS)) + Cardinality(GS[q])
  BY <1>3, <1>5, <1>a, Swap
<1>8. /\ free \in Nat /\ superfree \in Nat /\ free' \in Nat /\ superfree' \in Nat
      /\ NPages = free + Cardinality(Total(F)) /\ NSuper = superfree + Cardinality(Total(FS))
  BY <1>1 DEF Types, Accounts, PagesConserved
<1>9. NPages = free' + Cardinality(Total(G)) /\ NSuper = superfree' + Cardinality(Total(GS))
  BY <1>3, <1>4, <1>5, <1>6, <1>7, <1>8
<1> QED
  BY <1>1, <1>6, <1>7, <1>9 DEF Accounts, PagesConserved

\* A step in which nobody changes what they hold.
LEMMA SameHolding ==
    ASSUME Accounts, tab' = tab, free' = free, superfree' = superfree,
           \A s \in Procs : HeldBy(s)' = HeldBy(s)
    PROVE  Accounts'
<1>1. Held' = Held /\ HeldSuper' = HeldSuper
  BY DEF Held, HeldSuper
<1> QED
  BY <1>1 DEF Accounts, PagesConserved

-----------------------------------------------------------------------------
(* Kinds of steps.                                                         *)

\* The kernel stops: nothing but halt changes.
LEMMA Stops ==
    ASSUME Calm, Accounts, NEW why, Panic(why), UNCHANGED base
    PROVE  Calm' /\ Accounts' /\ halt' = why
<1>1. /\ tab' = tab /\ sz' = sz /\ ones' = ones /\ next' = next /\ pc' = pc /\ op' = op
      /\ free' = free /\ superfree' = superfree /\ base' = base /\ halt' = why
  BY DEF Panic
<1>2. Types' /\ Family'
  BY <1>1 DEF Calm, Types, Family
<1>3. \A q \in Procs : Sound(q)'
  BY <1>1, AlikeSound DEF Calm, Alike
<1>4. Accounts'
  BY <1>1 DEF Accounts, Held, HeldSuper, HeldBy, PagesConserved
<1> QED
  BY <1>1, <1>2, <1>3, <1>4 DEF Calm

\* While the kernel runs, there is no panic to explain.
LEMMA Runs ==
    ASSUME halt' = "no"
    PROVE  TidyPanics'
  BY DEF TidyPanics

\* A step that touches p alone.
LEMMA FrameOne ==
    ASSUME Calm, Types', NEW p \in Procs, pc[p] # "embryo",
           \A q \in Procs \ {p} : Alike(q), Sound(p)', op'[p].child \in {NULL, op[p].child}
    PROVE  Calm'
<1>1. CASE op'[p].child = NULL
  <2>1. \A q \in Procs \ {p, p} : Alike(q) /\ op[q].child \notin {p, p}
    BY Kin
  <2> QED
    BY <1>1, <2>1, Frame
<1>2. CASE op'[p].child # NULL
  <2>0. PICK c \in Procs : c = op[p].child
    BY <1>2, Kin
  <2>1. /\ c # p /\ pc[c] = "embryo" /\ op[c] = Idle /\ op'[p].child = c
        /\ \A q \in Procs \ {p, c} : Alike(q) /\ op[q].child \notin {p, c}
    BY <1>2, <2>0, Kin
  <2>2. Alike(c) /\ Sound(c)
    BY <2>1 DEF Calm
  <2>3. pc'[c] = "embryo" /\ op'[c] = Idle /\ op[c].child = NULL /\ op'[c].child = NULL
    BY <2>1, <2>2 DEF Alike, Idle
  <2>4. Sound(c)'
    BY <2>1, <2>2, <2>3, AlikeSound
  <2> QED
    BY <2>1, <2>3, <2>4, Frame
<1> QED
  BY <1>1, <1>2

\* A step that moves p on in the kernel and allocates nothing.
LEMMA Local ==
    ASSUME Calm, Accounts, NEW p \in Procs, NEW w \in PCs \ {"unused", "embryo"}, NEW o \in Ops,
           pc[p] \notin {"unused", "embryo"}, Goto(p, w, o),
           o.child \in {NULL, op[p].child}, o.ret = "exec" <=> op[p].ret = "exec",
           tab' = tab, free' = free, superfree' = superfree,
           sz' \in [Procs -> 0 .. LIMIT], ones' \in [Procs -> SUBSET (0 .. RECORD - 1)],
           next' \in [Procs -> Nat \cup {-1}], base' \in [Procs -> Int],
           \A q \in Procs \ {p} : /\ sz'[q] = sz[q] /\ ones'[q] = ones[q]
                                  /\ next'[q] = next[q] /\ base'[q] = base[q],
           Sound(p)'
    PROVE  Calm' /\ Accounts'
<1>1. /\ pc' \in [Procs -> PCs] /\ op' \in [Procs -> Ops] /\ pc'[p] = w /\ op'[p] = o
      /\ \A q \in Procs \ {p} : pc'[q] = pc[q] /\ op'[q] = op[q]
  BY DEF Calm, Types, Goto
<1>2. Types'
  BY <1>1 DEF Calm, Types
<1>3. \A q \in Procs \ {p} : Alike(q)
  BY <1>1 DEF Alike
<1>4. Calm'
  BY <1>1, <1>2, <1>3, FrameOne
<1>5. \A q \in Procs : HeldBy(q)' = HeldBy(q)
  <2>1. ASSUME NEW q \in Procs
        PROVE (pc'[q] = "unused" <=> pc[q] = "unused") /\ (op'[q].ret = "exec" <=> op[q].ret = "exec")
    BY <1>1
  <2> QED
    BY <2>1 DEF HeldBy
<1>6. Accounts'
  BY <1>5, SameHolding
<1> QED
  BY <1>4, <1>6

LEMMA IdleOp == Idle \in Ops
  BY SuperAssumption DEF Idle, Ops, Rets

\* What is known of a process before its step.
LEMMA Own ==
    ASSUME Calm, NEW p \in Procs
    PROVE  /\ Shape(tab[p]) /\ tab[p] \in Tables
           /\ sz[p] \in 0 .. LIMIT /\ ones[p] \in SUBSET (0 .. RECORD - 1) /\ next[p] \in Nat \cup {-1}
           /\ pc[p] \in PCs /\ op[p] \in Ops /\ base[p] \in Int
           /\ op[p].arg \in Int /\ op[p].lsz \in 0 .. LIMIT /\ op[p].n \in Int /\ op[p].i \in Int
           /\ op[p].a \in Nat /\ op[p].end \in Nat /\ op[p].old \in Nat /\ op[p].ret \in Rets
           /\ op[p].starts \in Nat /\ op[p].supers \in Nat /\ op[p].ends \in Nat
           /\ op[p].was \in SUBSET Nat
           /\ Locals(p) /\ Growing(p) /\ Copying(p) /\ Uncopying(p) /\ Tidiness(p)
<1>1. op[p] \in Ops
  BY DEF Calm, Types
<1>2. /\ op[p].arg \in Int /\ op[p].lsz \in 0 .. LIMIT /\ op[p].n \in Int /\ op[p].i \in Int
      /\ op[p].a \in Nat /\ op[p].end \in Nat /\ op[p].old \in Nat /\ op[p].ret \in Rets
      /\ op[p].starts \in Nat /\ op[p].supers \in Nat /\ op[p].ends \in Nat
      /\ op[p].was \in SUBSET Nat
  BY <1>1 DEF Ops
<1> QED
  BY <1>1, <1>2 DEF Calm, Types, Sound

\* A process that holds no pages under way is not in the middle of anything.
LEMMA Resting ==
    ASSUME NEW p \in Procs, pc'[p] = "run", op'[p] = Idle, Tidiness(p)'
    PROVE  Sound(p)'
<1>1. op'[p].ret = "none" /\ op'[p].child = NULL
  BY DEF Idle
<1>2. Locals(p)'
  BY <1>1 DEF Locals, Shrinking, Forking
<1>3. Growing(p)' /\ Copying(p)' /\ Uncopying(p)'
  BY DEF Growing, Copying, Uncopying
<1> QED
  BY <1>2, <1>3 DEF Sound

LEMMA SbrkGrowStep ==
    ASSUME Calm, Accounts, halt = "no", NEW p \in Procs, NEW n \in Grows, SbrkGrow(p, n)
    PROVE  Calm' /\ Accounts' /\ halt' = "no"
<1> DEFINE o == [Idle EXCEPT !.arg = n, !.a = PGROUNDUP(sz[p]), !.old = PGROUNDUP(sz[p]),
                             !.end = sz[p] + n, !.ret = "grow", !.was = Mapped(tab[p])]
<1>1. n \in Nat \ {0} /\ n \in Int /\ sz[p] \in Nat /\ pc[p] = "run" /\ sz[p] + n <= LIMIT /\ sz[p] + n \in Nat
  BY SuperAssumption, Own DEF SbrkGrow
<1>2. /\ o.arg = n /\ o.a = PGROUNDUP(sz[p]) /\ o.old = PGROUNDUP(sz[p]) /\ o.end = sz[p] + n
      /\ o.ret = "grow" /\ o.was = Mapped(tab[p]) /\ o.starts = 0 /\ o.supers = 0 /\ o.ends = 0
      /\ o.child = NULL
  BY DEF Idle
<1>3. o \in Ops
  <2>1. PGROUNDUP(sz[p]) \in Nat /\ Mapped(tab[p]) \in SUBSET Nat
    BY <1>1, RoundUp, Own, MappedPages
  <2>2. ASSUME NEW r \in Ops, NEW g \in Int, NEW a \in Nat, NEW e \in Nat, NEW m \in SUBSET Nat
        PROVE  [r EXCEPT !.arg = g, !.a = a, !.old = a, !.end = e, !.ret = "grow", !.was = m] \in Ops
    BY DEF Ops, Rets
  <2> QED
    BY ONLY <1>1, <2>1, <2>2, IdleOp
<1>4. /\ Goto(p, "alloc", o) /\ tab' = tab /\ sz' = sz /\ ones' = ones /\ next' = next
      /\ free' = free /\ superfree' = superfree /\ halt' = halt
      /\ base' = [base EXCEPT ![p] = IF TidyGrow(p, n) THEN @ ELSE UNTIDY]
  BY DEF SbrkGrow
<1>5. op[p] = Idle /\ Idle.ret = "none" /\ Idle.child = NULL
  BY <1>1, Own DEF Locals, Idle
<1> HIDE DEF o
<1>6. pc'[p] = "alloc" /\ op'[p] = o
  BY <1>4 DEF Goto, Calm, Types
<1>7. base' \in [Procs -> Int] /\ base'[p] = (IF TidyGrow(p, n) THEN base[p] ELSE UNTIDY)
      /\ \A q \in Procs \ {p} : base'[q] = base[q]
  BY <1>4 DEF Calm, Types, UNTIDY
<1>8. Locals(p)'
  BY <1>1, <1>2, <1>6 DEF Locals, Shrinking, Forking
<1>9. Growing(p)'
  <2>1. Whole(o.a) /\ Whole(o.old) /\ PageOf(o.old) \in Nat /\ o.a = o.old
    BY <1>1, <1>2, RoundUp, PageAt
  <2>2. Span(tab[p], o.was, PageOf(o.old), PageOf(o.a))
    BY <1>2, <2>1, SpanEmpty
  <2> QED
    BY <1>2, <1>4, <1>6, <2>1, <2>2 DEF Growing
<1>10. Copying(p)' /\ Uncopying(p)'
  BY <1>6 DEF Copying, Uncopying
<1>11. Tidiness(p)'
  <2> SUFFICES ASSUME Tidy(p)' PROVE Tidiness(p)'
    BY DEF Tidiness
  <2>1. TidyGrow(p, n) /\ base'[p] = base[p] /\ Tidy(p)
    BY <1>7 DEF Tidy
  <2> DEFINE t == tab[p]
             b == PageOf(base[p])
             top == PageOf(sz[p])
  <2>2. /\ base[p] \in Nat /\ Whole(base[p]) /\ Whole(sz[p])
        /\ Span(t, {}, 0, top) /\ Recorded(t, b, top, next[p], ones[p])
    BY <1>1, <2>1, Own DEF Tidiness, Shrinking
  <2>3. t \in Tables /\ top \in Nat /\ b \in Nat
    BY <1>1, <2>2, PageAt, Own
  <2>4. Whole(o.end) /\ o.old = sz[p] /\ o.a = sz[p] /\ o.a <= o.end
    BY <1>1, <1>2, <2>1, <2>2, RoundUp, WholeSum DEF TidyGrow
  <2>5. o.was = 0 .. top - 1
    BY <1>2, <2>2 DEF Span
  <2>6. Appended(t, b, top, PageOf(o.a), next[p], o)
    <3>1. Count(t, b, top) = next[p] /\ next[p] \in Int
      BY <2>2, Own DEF Recorded
    <3>2. SupersIn(t, top, top) = {}
      <4>1. \A q \in t.super : q * K \in Nat
        BY <2>3, SuperStart DEF Tables
      <4> QED
        BY <2>3, <4>1 DEF SupersIn
    <3>3. Positions(t, b, top, top) = {}
      BY <3>2 DEF Positions
    <3>4. (next[p] + 0) .. (next[p] + 0 + 0 - 1) = {} /\ next[p] + 0 + 0 + 0 = next[p]
      BY <3>1
    <3> QED
      BY <1>2, <2>4, <3>1, <3>3, <3>4 DEF Appended
  <2> HIDE DEF t, b, top
  <2>7. ~Shrinking(p)' /\ ~Forking(p)'
    BY <1>2, <1>6 DEF Shrinking, Forking
  <2>8. tab'[p] = t /\ PageOf(base[p])' = b /\ PageOf(sz[p])' = top /\ sz'[p] = sz[p]
        /\ next'[p] = next[p] /\ ones'[p] = ones[p]
    BY <1>4, <2>1 DEF t, b, top
  <2> QED
    BY <1>2, <1>6, <2>1, <2>2, <2>4, <2>5, <2>6, <2>7, <2>8 DEF Tidiness
<1>12. Sound(p)'
  BY <1>8, <1>9, <1>10, <1>11 DEF Sound
<1>13. sz' \in [Procs -> 0 .. LIMIT] /\ ones' \in [Procs -> SUBSET (0 .. RECORD - 1)]
       /\ next' \in [Procs -> Nat \cup {-1}]
  BY <1>4 DEF Calm, Types
<1> QED
  BY <1>1, <1>2, <1>3, <1>4, <1>5, <1>7, <1>12, <1>13, Local DEF PCs

\* A step that changes nothing but the place and the locals of p.
LEMMA Moves ==
    ASSUME Calm, Accounts, halt = "no", NEW p \in Procs, NEW w \in PCs \ {"unused", "embryo"}, NEW o \in Ops,
           pc[p] \notin {"unused", "embryo"}, Goto(p, w, o),
           o.child \in {NULL, op[p].child}, o.ret = "exec" <=> op[p].ret = "exec",
           UNCHANGED <<tab, sz, ones, next, free, superfree, halt>>, UNCHANGED base,
           Sound(p)'
    PROVE  Calm' /\ Accounts' /\ halt' = "no"
<1>1. sz' \in [Procs -> 0 .. LIMIT] /\ ones' \in [Procs -> SUBSET (0 .. RECORD - 1)]
       /\ next' \in [Procs -> Nat \cup {-1}] /\ base' \in [Procs -> Int]
  BY DEF Calm, Types
<1> QED
  BY <1>1, Local

LEMMA AllocFailStep ==
    ASSUME Calm, Accounts, halt = "no", NEW p \in Procs, AllocFail(p), UNCHANGED base
    PROVE  Calm' /\ Accounts' /\ halt' = "no"
<1> DEFINE o == op[p]
           u == [UndoAlloc(o) EXCEPT !.ret = IF o.ret = "grow" THEN "failed" ELSE "lost"]
<1>1. /\ pc[p] = "alloc" /\ Goto(p, "unmap", u)
      /\ UNCHANGED <<tab, sz, ones, next, free, superfree, halt>>
  BY DEF AllocFail
<1>2. o \in Ops /\ o.ret \in {"grow", "split"} /\ o.child = NULL /\ o.end <= LIMIT
  BY <1>1, Own DEF Locals, Forking
<1>3. u \in Ops
  BY <1>2 DEF UndoAlloc, Ops, Rets
<1>4. /\ u.a = o.old /\ u.end = o.a /\ u.was = o.was /\ u.child = NULL
      /\ u.ret = (IF o.ret = "grow" THEN "failed" ELSE "lost")
      /\ u.i = o.i /\ u.n = o.n /\ u.lsz = o.lsz
  BY <1>2 DEF UndoAlloc, Ops
<1> HIDE DEF u
<1>5. pc'[p] = "unmap" /\ op'[p] = u /\ tab'[p] = tab[p] /\ sz'[p] = sz[p] /\ ones'[p] = ones[p]
      /\ next'[p] = next[p] /\ base'[p] = base[p]
  BY <1>1 DEF Goto, Calm, Types
<1>6. Locals(p)'
  <2>1. o.ret = "split" => /\ o.i < next[p] /\ o.i >= 0 /\ o.n + SUPERPGSIZE > 0 /\ o.n < 0
                           /\ o.lsz + SUPERPGSIZE <= LIMIT
    BY <1>1, Own DEF Locals, Shrinking
  <2>2. u.ret \in Rets \ {"none", "grow"} /\ (u.ret \in {"shrink", "split", "lost"} => o.ret = "split")
        /\ u.ret # "fork"
    BY <1>2, <1>4 DEF Rets
  <2> QED
    BY <1>4, <1>5, <2>1, <2>2 DEF Locals, Shrinking, Forking
<1>7. Growing(p)'
  <2>1. o.ret = "grow" => Whole(o.old) /\ Whole(o.a) /\ Span(tab[p], o.was, PageOf(o.old), PageOf(o.a))
    BY <1>1, Own DEF Growing
  <2> QED
    BY <1>4, <1>5, <2>1 DEF Growing
<1>8. Copying(p)' /\ Uncopying(p)'
  BY <1>4, <1>5 DEF Copying, Uncopying
<1>9. Tidiness(p)'
  <2> SUFFICES ASSUME Tidy(p)' PROVE Tidiness(p)'
    BY DEF Tidiness
  <2>1. Tidy(p)
    BY <1>5 DEF Tidy
  <2>2. /\ base[p] \in Nat /\ Whole(base[p]) /\ o.ret = "grow" /\ o.old = sz[p]
        /\ o.was = 0 .. PageOf(sz[p]) - 1
        /\ Recorded(tab[p], PageOf(base[p]), PageOf(sz[p]), next[p], ones[p])
    BY <1>1, <2>1, Own DEF Tidiness
  <2>3. ~Shrinking(p) /\ Whole(sz[p]) /\ PageOf(sz[p]) \in Nat
    <3>1. ~Shrinking(p)
      BY <1>1, <2>2 DEF Shrinking
    <3> QED
      BY <1>1, <2>1, <3>1, Own, PageAt DEF Tidiness
  <2>4. u.ret = "failed" /\ ~Shrinking(p)' /\ ~Forking(p)'
    BY <1>4, <1>5, <2>2 DEF Shrinking, Forking
  <2>5. PageOf(sz[p]) <= PageOf(u.a)
    BY <1>4, <2>2, <2>3
  <2> QED
    BY <1>4, <1>5, <2>2, <2>3, <2>4, <2>5 DEF Tidiness
<1>10. Sound(p)'
  BY <1>6, <1>7, <1>8, <1>9 DEF Sound
<1>11. u.child \in {NULL, op[p].child} /\ u.ret # "exec" /\ o.ret # "exec"
  BY <1>2, <1>4
<1> QED
  BY <1>1, <1>3, <1>10, <1>11, Moves DEF PCs

LEMMA GrowFailedStep ==
    ASSUME Calm, Accounts, halt = "no", NEW p \in Procs, GrowFailed(p), UNCHANGED base
    PROVE  Calm' /\ Accounts' /\ halt' = "no" /\ Mapped(tab[p]) = op[p].was
<1> DEFINE o == op[p]
<1>1. /\ pc[p] = "unmap" /\ o.a >= o.end /\ o.ret = "failed" /\ Goto(p, "run", Idle)
      /\ UNCHANGED <<tab, sz, ones, next, free, superfree, halt>>
  BY DEF GrowFailed, Unmapped
<1>2. pc'[p] = "run" /\ op'[p] = Idle /\ tab'[p] = tab[p] /\ sz'[p] = sz[p] /\ ones'[p] = ones[p]
      /\ next'[p] = next[p] /\ base'[p] = base[p]
  BY <1>1 DEF Goto, Calm, Types
<1>3. Mapped(tab[p]) = o.was
  <2>1. /\ Whole(o.a) /\ Whole(o.end) /\ Span(tab[p], o.was, PageOf(o.a), PageOf(o.end))
        /\ o.a \in Nat /\ o.end \in Nat
    BY <1>1, Own DEF Growing
  <2>2. PageOf(o.a) \in Nat /\ PageOf(o.end) \in Nat /\ PageOf(o.a) <= PageOf(o.end)
        /\ PageOf(o.end) <= PageOf(o.a)
    BY <1>1, <2>1, PageAt, WholeOrder DEF Span
  <2>3. PageOf(o.a) = PageOf(o.end)
    BY <2>2
  <2> QED
    BY <2>1, <2>2, <2>3, SpanEmpty
<1>4. Tidiness(p)'
  <2> SUFFICES ASSUME Tidy(p)' PROVE Tidiness(p)'
    BY DEF Tidiness
  <2>1. Tidy(p)
    BY <1>2 DEF Tidy
  <2>2. /\ base[p] \in Nat /\ Whole(base[p]) /\ o.was = 0 .. PageOf(sz[p]) - 1
        /\ Recorded(tab[p], PageOf(base[p]), PageOf(sz[p]), next[p], ones[p])
    BY <1>1, <2>1, Own DEF Tidiness
  <2>3. ~Shrinking(p) /\ Whole(sz[p]) /\ PageOf(sz[p]) \in Nat /\ PageOf(base[p]) \in Nat
    <3>1. ~Shrinking(p)
      BY <1>1, <2>2 DEF Shrinking
    <3>2. Whole(sz[p])
      BY <1>1, <2>1, <3>1, Own DEF Tidiness
    <3>3. sz[p] \in Nat
      BY Own
    <3> QED
      BY <2>2, <3>1, <3>2, <3>3, PageAt
  <2>4. Span(tab[p], {}, 0, PageOf(sz[p]))
    BY <1>3, <2>2, <2>3, Own, RecordedSpan
  <2>5. ~Shrinking(p)' /\ ~Forking(p)'
    BY <1>2 DEF Shrinking, Forking
  <2> QED
    BY <1>2, <2>2, <2>3, <2>4, <2>5 DEF Tidiness
<1>5. Sound(p)'
  BY <1>2, <1>4, Resting
<1>6. Idle \in Ops /\ Idle.child \in {NULL, op[p].child} /\ Idle.ret # "exec" /\ o.ret # "exec"
  BY <1>1, IdleOp DEF Idle
<1>7. Calm' /\ Accounts' /\ halt' = "no"
  BY <1>1, <1>5, <1>6, Moves DEF PCs
<1> QED
  BY <1>3, <1>7

\* A page or superpage of the heap, in page numbers.
LEMMA InHeap ==
    ASSUME NEW t \in Tables, NEW h \in Nat, Whole(h)
    PROVE  /\ \A v \in t.small : v * PGSIZE >= h <=> PageOf(h) <= v
           /\ \A q \in t.super : /\ q * SUPERPGSIZE >= h <=> PageOf(h) <= q * K
                                 /\ q * K \in Nat /\ q \in Nat
<1> DEFINE b == PageOf(h)
<1>1. b \in Nat /\ h = b * PGSIZE
  BY PageAt DEF Whole
<1>2. t.small \subseteq Nat /\ t.super \subseteq Nat
  BY DEF Tables
<1> HIDE DEF b
<1>3. ASSUME NEW v \in t.small PROVE v * PGSIZE >= h <=> b <= v
  <2>1. v \in Nat
    BY <1>2
  <2>2. b <= v <=> b * PGSIZE <= v * PGSIZE
    BY <1>1, <2>1, Times, Sizes
  <2>3. v * PGSIZE \in Nat /\ b * PGSIZE \in Nat
    BY <1>1, <2>1, PageStart
  <2> QED
    BY <1>1, <2>2, <2>3
<1>4. ASSUME NEW q \in t.super PROVE (q * SUPERPGSIZE >= h <=> b <= q * K) /\ q * K \in Nat /\ q \in Nat
  <2>1. q \in Nat
    BY <1>2
  <2>2. q * K \in Nat /\ q * SUPERPGSIZE = (q * K) * PGSIZE
    BY <2>1, SuperStart
  <2> DEFINE v == q * K
  <2>3. v \in Nat /\ q * SUPERPGSIZE = v * PGSIZE
    BY <2>2
  <2> HIDE DEF v
  <2>4. b <= v <=> b * PGSIZE <= v * PGSIZE
    BY <1>1, <2>3, Times, Sizes
  <2>5. v * PGSIZE \in Nat /\ b * PGSIZE \in Nat
    BY <1>1, <2>3, PageStart
  <2>6. q * SUPERPGSIZE >= h <=> b <= v
    BY <1>1, <2>3, <2>4, <2>5
  <2> QED
    BY <2>1, <2>2, <2>6 DEF v
<1> QED
  BY <1>3, <1>4 DEF b

\* What the record should describe, when the memory ends at page top.
LEMMA HeapEntries ==
    ASSUME NEW p \in Procs, tab[p] \in Tables, base[p] \in Nat, Whole(base[p]),
           NEW top \in Nat, Span(tab[p], {}, 0, top)
    PROVE  /\ HeapPages(p) = PagesIn(tab[p], PageOf(base[p]), top)
           /\ HeapSupers(p) = SupersIn(tab[p], PageOf(base[p]), top)
<1> DEFINE t == tab[p]
           b == PageOf(base[p])
<1>1. (\A r \in t.super : r * K + K <= top) /\ (\A v \in t.small : v < top)
  BY SpanUncut
<1>2. /\ \A v \in t.small : v * PGSIZE >= base[p] <=> b <= v
      /\ \A q \in t.super : /\ q * SUPERPGSIZE >= base[p] <=> b <= q * K
                            /\ q * K \in Nat /\ q \in Nat
  BY InHeap
<1>3. \A q \in t.super : q * K < top
  BY <1>1, <1>2, Sizes
<1> QED
  BY <1>1, <1>2, <1>3 DEF HeapPages, PagesIn, HeapSupers, SupersIn

\* The heap of a tidy process when sbrksuperuvmalloc has mapped all.
LEMMA GrownHeap ==
    ASSUME Calm, NEW p \in Procs, pc[p] = "alloc", op[p].a >= op[p].end, Tidy(p)
    PROVE  LET o == op[p]  t == tab[p]  b == PageOf(base[p])
               x == PageOf(sz[p])  y == PageOf(o.end)
           IN  /\ base[p] \in Nat /\ Whole(base[p]) /\ Whole(o.end)
               /\ t \in Tables /\ b \in Nat /\ x \in Nat /\ y \in Nat
               /\ Recorded(t, b, x, next[p], ones[p]) /\ Appended(t, b, x, y, next[p], o)
               /\ x <= y /\ Clear(t, x, y) /\ Span(t, {}, 0, y)
<1> DEFINE o == op[p]
           t == tab[p]
           b == PageOf(base[p])
           x == PageOf(sz[p])
           y == PageOf(o.end)
<1>1. o.a >= o.end /\ o.ret = "grow"
  BY Own DEF Tidiness
<1>2. /\ base[p] \in Nat /\ Whole(base[p]) /\ Whole(o.end) /\ o.old = sz[p] /\ o.a <= o.end
      /\ o.was = 0 .. x - 1 /\ Recorded(t, b, x, next[p], ones[p])
      /\ Appended(t, b, x, PageOf(o.a), next[p], o)
  BY Own DEF Tidiness
<1>3. /\ o.a = o.end /\ t \in Tables /\ b \in Nat /\ x \in Nat /\ y \in Nat
  <2>1. o.a \in Nat /\ o.end \in Nat /\ sz[p] \in Nat /\ t \in Tables
    BY Own
  <2>2. o.a = o.end
    BY <1>1, <1>2, <2>1
  <2> QED
    BY <1>2, <2>1, <2>2, PageAt
<1>4. Appended(t, b, x, y, next[p], o) /\ Span(t, 0 .. x - 1, x, y)
  BY <1>1, <1>2, <1>3, Own DEF Growing
<1> HIDE DEF t, b, x, y
<1>5. x <= y /\ Clear(t, x, y)
  <2>1. x <= y /\ (x < y => Clear(t, x, y))
    BY <1>4 DEF Span
  <2>2. ASSUME x = y PROVE Clear(t, x, y)
    <3>1. \A r \in t.super : r * K + K <= b \/ x <= r * K \/ (b <= r * K /\ r * K + K <= x)
      BY <1>2 DEF Recorded, Clear
    <3>2. b <= x /\ \A r \in t.super : r * K \in Nat
      BY <1>2, <1>3, SuperStart DEF Recorded, Tables
    <3> QED
      BY <1>3, <2>2, <3>1, <3>2, Sizes DEF Clear
  <2> QED
    BY <1>3, <2>1, <2>2
<1>6. Span(t, {}, 0, y)
  BY <1>3, <1>4, <1>5, SpanJoin
<1> QED
  BY <1>2, <1>3, <1>4, <1>5, <1>6 DEF t, b, x, y

LEMMA GrowDoneStep ==
    ASSUME Calm, Accounts, halt = "no", NEW p \in Procs, GrowDone(p), UNCHANGED base
    PROVE  Calm' /\ Accounts' /\ TidyPanics'
<1> DEFINE o == op[p]
           total == o.starts + o.supers + o.ends
           first == next[p] + o.starts
           written == next[p] .. next[p] + total - 1
<1>1. pc[p] = "alloc" /\ o.a >= o.end /\ o.ret = "grow"
  BY DEF GrowDone
<1>2. CASE ~(written \subseteq 0 .. RECORD - 1) /\ Panic("wild")
  <2>1. Calm' /\ Accounts' /\ halt' = "wild" /\ tab' = tab /\ pc' = pc /\ base' = base
    BY <1>2, Stops DEF Panic
  <2>2. ASSUME Tidy(p) PROVE Cardinality(HeapPages(p)) + Cardinality(HeapSupers(p)) > RECORD
    <3> DEFINE t == tab[p]
               b == PageOf(base[p])
               x == PageOf(sz[p])
               y == PageOf(o.end)
    <3>1. /\ base[p] \in Nat /\ Whole(base[p]) /\ t \in Tables /\ b \in Nat /\ x \in Nat /\ y \in Nat
          /\ Recorded(t, b, x, next[p], ones[p]) /\ Appended(t, b, x, y, next[p], o)
          /\ Span(t, {}, 0, y)
      BY <1>1, <2>2, GrownHeap
    <3>2. HeapPages(p) = PagesIn(t, b, y) /\ HeapSupers(p) = SupersIn(t, b, y)
      BY <3>1, HeapEntries
    <3> HIDE DEF t, b, x, y
    <3>3. next[p] \in Nat /\ Count(t, b, y) \in Nat
      BY <3>1, Finite DEF Recorded
    <3>4. Count(t, b, y) = next[p] + total /\ total \in Nat
      <4>1. o.starts \in Nat /\ o.supers \in Nat /\ o.ends \in Nat
        BY Own
      <4>2. Count(t, b, y) = next[p] + o.starts + o.supers + o.ends
        BY <3>1 DEF Appended
      <4> QED
        BY <3>3, <4>1, <4>2
    <3>5. ASSUME Count(t, b, y) <= RECORD PROVE FALSE
      <4> DEFINE last == next[p] + total - 1
      <4> HIDE DEF total
      <4>1. last = Count(t, b, y) - 1
        BY <3>3, <3>4
      <4> HIDE DEF last
      <4>2. next[p] .. last \subseteq 0 .. RECORD - 1
        BY <3>3, <3>5, <4>1, Sizes
      <4> QED
        BY <1>2, <4>2 DEF last, total
    <3>6. Count(t, b, y) > RECORD
      BY <3>3, <3>5, Sizes
    <3> QED
      BY <3>2, <3>6 DEF Count
  <2>3. TidyPanics'
    <3> SUFFICES ASSUME \A q \in Procs : Tidy(q)'
                 PROVE  \E q \in Procs : /\ pc'[q] = "alloc"
                                         /\ (Cardinality(HeapPages(q)) + Cardinality(HeapSupers(q)) > RECORD)'
      BY <2>1 DEF TidyPanics
    <3>1. Tidy(p)
      BY <2>1 DEF Tidy
    <3>2. HeapPages(p)' = HeapPages(p) /\ HeapSupers(p)' = HeapSupers(p)
      BY <2>1 DEF HeapPages, HeapSupers
    <3> QED
      BY <1>1, <2>1, <2>2, <3>1, <3>2
  <2> QED
    BY <2>1, <2>3
<1>3. CASE /\ written \subseteq 0 .. RECORD - 1
           /\ ones' = [ones EXCEPT ![p] = (@ \ written) \cup (first .. first + o.supers - 1)]
           /\ next' = [next EXCEPT ![p] = @ + total]
           /\ sz' = [sz EXCEPT ![p] = o.end]
           /\ Goto(p, "run", Idle)
           /\ UNCHANGED <<tab, free, superfree, halt>>
  <2>1. /\ o.starts \in Nat /\ o.supers \in Nat /\ o.ends \in Nat /\ total \in Nat /\ next[p] \in Nat \cup {-1}
        /\ first \in Int /\ o.end \in 0 .. LIMIT /\ o \in Ops
    BY <1>1, Own, Sizes DEF Locals
  <2>2. next[p] + total \in Nat \cup {-1}
    BY <2>1
  <2>3. first .. first + o.supers - 1 \subseteq 0 .. RECORD - 1
    <3>1. first .. first + o.supers - 1 \subseteq written
      BY ONLY <2>1
    <3> QED
      BY <1>3, <3>1
  <2> HIDE DEF first, total, written
  <2>4. /\ sz' \in [Procs -> 0 .. LIMIT] /\ next' \in [Procs -> Nat \cup {-1}]
        /\ ones' \in [Procs -> SUBSET (0 .. RECORD - 1)]
        /\ \A q \in Procs \ {p} : sz'[q] = sz[q] /\ next'[q] = next[q] /\ ones'[q] = ones[q]
    BY <1>3, <2>1, <2>2, <2>3 DEF Calm, Types
  <2>5. /\ sz'[p] = o.end /\ next'[p] = next[p] + total /\ base'[p] = base[p] /\ tab'[p] = tab[p]
        /\ ones'[p] = (ones[p] \ written) \cup (first .. first + o.supers - 1)
        /\ pc'[p] = "run" /\ op'[p] = Idle
    BY <1>3 DEF Goto, Calm, Types
  <2>6. Tidiness(p)'
    <3> SUFFICES ASSUME Tidy(p)' PROVE Tidiness(p)'
      BY DEF Tidiness
    <3>1. Tidy(p)
      BY <2>5 DEF Tidy
    <3> DEFINE t == tab[p]
               b == PageOf(base[p])
               x == PageOf(sz[p])
               y == PageOf(o.end)
    <3>2. /\ base[p] \in Nat /\ Whole(base[p]) /\ Whole(o.end)
          /\ t \in Tables /\ b \in Nat /\ x \in Nat /\ y \in Nat
          /\ Recorded(t, b, x, next[p], ones[p]) /\ Appended(t, b, x, y, next[p], o)
          /\ x <= y /\ Clear(t, x, y) /\ Span(t, {}, 0, y)
      BY <1>1, <3>1, GrownHeap
    <3> HIDE DEF t, b, x, y
    <3>7. Recorded(t, b, y, next[p] + total, (ones[p] \ written) \cup (first .. first + o.supers - 1))
      BY <2>1, <3>2, AppendRecord DEF total, first, written
    <3>8. ~Shrinking(p)' /\ ~Forking(p)'
      BY <2>5 DEF Shrinking, Forking
    <3>9. tab'[p] = t /\ PageOf(base[p])' = b /\ PageOf(sz[p])' = y
      BY <2>5 DEF t, b, y
    <3> QED
      BY <2>5, <3>2, <3>7, <3>8, <3>9 DEF Tidiness
  <2>7. Sound(p)'
    BY <2>5, <2>6, Resting
  <2>8. Idle \in Ops /\ Idle.child \in {NULL, op[p].child} /\ Idle.ret # "exec" /\ o.ret # "exec"
    BY <1>1, IdleOp DEF Idle
  <2>9. base' \in [Procs -> Int]
    BY DEF Calm, Types
  <2> QED
    BY <1>1, <1>3, <2>4, <2>7, <2>8, <2>9, Local, Runs DEF PCs
<1> QED
  BY <1>2, <1>3 DEF GrowDone

-----------------------------------------------------------------------------
(* sbrk with a negative argument.                                          *)

\* The test of TidyShrink, in pages.
LEMMA WholeSupers ==
    ASSUME NEW t \in Tables, NEW g \in Nat, Whole(g),
           \A q \in t.super : ~(q * SUPERPGSIZE < g /\ g < (q + 1) * SUPERPGSIZE)
    PROVE  Uncut(t, PageOf(g))
<1> SUFFICES ASSUME NEW q \in t.super PROVE q * K + K <= PageOf(g) \/ PageOf(g) <= q * K
  BY DEF Uncut
<1>1. q \in Nat /\ q + 1 \in Nat
  BY DEF Tables
<1>2. q * K \in Nat /\ q * SUPERPGSIZE = (q * K) * PGSIZE /\ (q + 1) * SUPERPGSIZE = ((q + 1) * K) * PGSIZE
      /\ (q + 1) * K = q * K + K
  BY <1>1, SuperStart, Times, Sizes
<1> DEFINE x == q * K
           y == q * K + K
<1>3. /\ x \in Nat /\ y \in Nat /\ PageOf(g) \in Nat
      /\ x * PGSIZE \in Nat /\ Whole(x * PGSIZE) /\ PageOf(x * PGSIZE) = x
      /\ y * PGSIZE \in Nat /\ Whole(y * PGSIZE) /\ PageOf(y * PGSIZE) = y
  BY <1>2, PageStart, PageAt, Sizes
<1>4. ~(x * PGSIZE < g /\ g < y * PGSIZE)
  BY <1>2
<1>5. (x * PGSIZE < g <=> x < PageOf(g)) /\ (g < y * PGSIZE <=> PageOf(g) < y)
  BY <1>3, WholeOrder
<1> QED
  BY <1>3, <1>4, <1>5

LEMMA SbrkShrinkStep ==
    ASSUME Calm, Accounts, halt = "no", NEW p \in Procs, NEW n \in Shrinks, SbrkShrink(p, n)
    PROVE  Calm' /\ Accounts' /\ halt' = "no"
<1> DEFINE o == [Idle EXCEPT !.arg = -n, !.n = -n, !.lsz = sz[p], !.i = next[p] - 1]
<1>1. /\ n \in Nat \ {0} /\ -n \in Int /\ -n < 0 /\ sz[p] \in 0 .. LIMIT /\ sz[p] \in Nat /\ pc[p] = "run"
      /\ next[p] \in Int /\ next[p] - 1 \in Int
  BY SuperAssumption, Own DEF SbrkShrink
<1>2. /\ o.n = -n /\ o.lsz = sz[p] /\ o.i = next[p] - 1 /\ o.ret = "none" /\ o.child = NULL
  BY DEF Idle
<1>3. o \in Ops
  <2>1. ASSUME NEW r \in Ops, NEW m \in Int, NEW s \in 0 .. LIMIT, NEW i \in Int
        PROVE  [r EXCEPT !.arg = m, !.n = m, !.lsz = s, !.i = i] \in Ops
    BY DEF Ops, Rets
  <2> QED
    BY ONLY <1>1, <2>1, IdleOp
<1>4. /\ Goto(p, "shrink", o) /\ tab' = tab /\ sz' = sz /\ ones' = ones /\ next' = next
      /\ free' = free /\ superfree' = superfree /\ halt' = halt
      /\ base' = [base EXCEPT ![p] = IF TidyShrink(p, n) THEN @ ELSE UNTIDY]
  BY DEF SbrkShrink
<1>5. op[p] = Idle /\ Idle.ret = "none" /\ Idle.child = NULL
  BY <1>1, Own DEF Locals, Idle
<1> HIDE DEF o
<1>6. pc'[p] = "shrink" /\ op'[p] = o
  BY <1>4 DEF Goto, Calm, Types
<1>7. base' \in [Procs -> Int] /\ base'[p] = (IF TidyShrink(p, n) THEN base[p] ELSE UNTIDY)
      /\ \A q \in Procs \ {p} : base'[q] = base[q]
  BY <1>4 DEF Calm, Types, UNTIDY
<1>8. Locals(p)'
  <2>1. o.i < next[p]
    BY <1>1, <1>2
  <2> QED
    BY <1>1, <1>2, <1>4, <1>6, <2>1 DEF Locals, Shrinking, Forking
<1>9. Growing(p)' /\ Copying(p)' /\ Uncopying(p)'
  BY <1>6 DEF Growing, Copying, Uncopying
<1>10. Tidiness(p)'
  <2> SUFFICES ASSUME Tidy(p)' PROVE Tidiness(p)'
    BY DEF Tidiness
  <2>1. TidyShrink(p, n) /\ base'[p] = base[p] /\ Tidy(p)
    BY <1>7 DEF Tidy
  <2>2. /\ base[p] \in Nat /\ Whole(base[p]) /\ Whole(sz[p])
        /\ Span(tab[p], {}, 0, PageOf(sz[p]))
        /\ Recorded(tab[p], PageOf(base[p]), PageOf(sz[p]), next[p], ones[p])
    BY <1>1, <2>1, Own DEF Tidiness, Shrinking
  <2>3. Goal(o) = sz[p] - n
    BY <1>1, <1>2 DEF Goal
  <2>4. Goal(o) \in Nat /\ base[p] <= Goal(o) /\ sz[p] >= n /\ n % PGSIZE = 0
    BY <1>1, <2>1, <2>2, <2>3 DEF TidyShrink
  <2>5. Whole(Goal(o))
    BY <1>1, <2>2, <2>3, <2>4, WholeSum
  <2>6. Uncut(tab[p], PageOf(Goal(o)))
    <3>1. \A q \in tab[p].super : ~(q * SUPERPGSIZE < Goal(o) /\ Goal(o) < (q + 1) * SUPERPGSIZE)
      BY <2>1, <2>3 DEF TidyShrink
    <3> QED
      BY <2>4, <2>5, <3>1, WholeSupers, Own
  <2>7. Recorded(tab[p], PageOf(base[p]), PageOf(o.lsz), o.i + 1, ones[p])
    <3>1. o.i + 1 = next[p]
      BY <1>1, <1>2
    <3> QED
      BY <1>2, <2>2, <3>1
  <2>8. Shrinking(p)' /\ ~Forking(p)'
    BY <1>6 DEF Shrinking, Forking
  <2>9. o.n <= 0
    BY <1>1, <1>2
  <2> QED
    BY <1>2, <1>4, <1>6, <2>1, <2>2, <2>4, <2>5, <2>6, <2>7, <2>8, <2>9 DEF Tidiness
<1>11. Sound(p)'
  BY <1>8, <1>9, <1>10 DEF Sound
<1>12. sz' \in [Procs -> 0 .. LIMIT] /\ ones' \in [Procs -> SUBSET (0 .. RECORD - 1)]
       /\ next' \in [Procs -> Nat \cup {-1}]
  BY <1>4 DEF Calm, Types
<1> QED
  BY <1>1, <1>2, <1>3, <1>4, <1>5, <1>7, <1>11, <1>12, Local DEF PCs

\* The memory that stays when the last entry's by bytes are released.
Released(p, by) ==
    LET o == op[p]  s == o.lsz - by IN
    /\ by <= o.lsz /\ Whole(s)
    /\ Span(tab[p], 0 .. PageOf(s) - 1, PageOf(s), PageOf(o.lsz))
    /\ Recorded(tab[p], PageOf(base[p]), PageOf(s), o.i, ones[p])

\* growproc reads the right kind in the record, and never splits a superpage.
LEMMA TopOfHeap ==
    ASSUME Calm, NEW p \in Procs, pc[p] = "shrink", Tidy(p)
    PROVE  LET o == op[p] IN
           /\ o.i >= 0
           /\ o.i \in ones[p] => o.n + SUPERPGSIZE <= 0 /\ Released(p, SUPERPGSIZE)
           /\ o.i \notin ones[p] => o.n + PGSIZE <= 0 /\ Released(p, PGSIZE)
<1> DEFINE o == op[p]
           t == tab[p]
           b == PageOf(base[p])
           x == PageOf(o.lsz)
           g == Goal(o)
           y == PageOf(g)
<1>1. /\ base[p] \in Nat /\ Whole(base[p]) /\ Whole(o.lsz) /\ base[p] <= g /\ Whole(g)
      /\ Uncut(t, y) /\ Span(t, {}, 0, x) /\ Recorded(t, b, x, o.i + 1, ones[p])
  BY Own DEF Tidiness, Shrinking
<1>2. o.n \in Int /\ o.n < 0 /\ o.lsz \in Nat /\ o.i \in Int /\ Shape(t) /\ t \in Tables
  BY Own DEF Locals
<1>3. g = o.lsz + o.n /\ g \in Nat /\ g < o.lsz
  BY <1>1, <1>2 DEF Goal
<1>4. b \in Nat /\ x \in Nat /\ y \in Nat /\ b <= y /\ y < x
  BY <1>1, <1>2, <1>3, PageAt, WholeOrder
<1> HIDE DEF t, b, x, g, y
<1>5. b < x
  BY <1>4
<1>6. /\ o.i >= 0
      /\ o.i \in ones[p] => \E q \in t.super : /\ q * K + K = x /\ b <= q * K
                                               /\ Uncut(t, q * K)
                                               /\ Recorded(t, b, q * K, o.i, ones[p])
      /\ o.i \notin ones[p] => /\ x - 1 \in t.small
                               /\ Uncut(t, x - 1)
                               /\ Recorded(t, b, x - 1, o.i, ones[p])
  BY <1>1, <1>2, <1>4, <1>5, LastEntry
<1>7. ASSUME o.i \in ones[p] PROVE o.n + SUPERPGSIZE <= 0 /\ Released(p, SUPERPGSIZE)
  <2>1. PICK q \in t.super : /\ q * K + K = x /\ b <= q * K /\ Uncut(t, q * K)
                             /\ Recorded(t, b, q * K, o.i, ones[p])
    BY <1>6, <1>7
  <2>2. q \in Nat /\ q * K \in Nat /\ q * K = x - K /\ q * K <= x
    <3>1. q \in Nat
      BY <1>2 DEF Tables
    <3>2. q * K \in Nat
      BY <3>1, SuperStart
    <3> QED
      BY <2>1, <3>1, <3>2, <1>4, Sizes
  <2>3. y <= q * K
    <3>1. q * K + K <= y \/ y <= q * K
      BY <1>1 DEF Uncut
    <3> QED
      BY <1>4, <2>1, <2>2, <3>1, Sizes
  <2>4. o.lsz - g >= SUPERPGSIZE
    <3>1. x - y >= K
      BY <1>4, <2>1, <2>2, <2>3, Sizes
    <3> QED
      BY <1>1, <1>2, <1>3, <3>1, WholeOrder DEF x, y
  <2>5. o.n + SUPERPGSIZE <= 0 /\ o.lsz >= SUPERPGSIZE
    BY <1>2, <1>3, <2>4, Sizes
  <2>6. Whole(o.lsz - SUPERPGSIZE) /\ PageOf(o.lsz - SUPERPGSIZE) = q * K
    BY <1>1, <1>2, <2>2, <2>5, WholeBack DEF x
  <2>7. Span(t, 0 .. q * K - 1, q * K, x)
    BY <1>1, <1>2, <1>4, <2>1, <2>2, SpanCut
  <2> QED
    BY <1>2, <2>1, <2>5, <2>6, <2>7, Sizes DEF Released, t, b, x
<1>8. ASSUME o.i \notin ones[p] PROVE o.n + PGSIZE <= 0 /\ Released(p, PGSIZE)
  <2>1. Uncut(t, x - 1) /\ Recorded(t, b, x - 1, o.i, ones[p]) /\ x - 1 \in Nat /\ y <= x - 1 /\ x >= 1
    BY <1>4, <1>6, <1>8
  <2>2. o.lsz >= PGSIZE /\ Whole(o.lsz - PGSIZE) /\ PageOf(o.lsz - PGSIZE) = x - 1
    BY <1>1, <1>2, <2>1, WholeBack DEF x
  <2>3. g <= o.lsz - PGSIZE
    <3>1. o.lsz - PGSIZE \in Nat
      BY <1>2, <2>2, Sizes
    <3> QED
      BY <1>1, <1>3, <2>1, <2>2, <3>1, WholeOrder DEF y
  <2>4. o.n + PGSIZE <= 0
    BY <1>2, <1>3, <2>3, Sizes
  <2>5. Span(t, 0 .. (x - 1) - 1, x - 1, x)
    <3>1. x - 1 <= x
      BY <1>4
    <3> QED
      BY <1>1, <1>2, <1>4, <2>1, <3>1, SpanCut
  <2> QED
    BY <1>2, <2>1, <2>2, <2>4, <2>5, Sizes DEF Released, t, b, x
<1> QED
  BY <1>6, <1>7, <1>8

LEMMA StartDeallocStep ==
    ASSUME Calm, Accounts, halt = "no", NEW p \in Procs, pc[p] = "shrink", op[p].i >= 0,
           NEW by \in Nat, NEW n \in Int, NEW ret \in {"split", "shrink"},
           StartDealloc(p, by, n, ret), UNCHANGED base,
           ret = "split" => n + SUPERPGSIZE > 0 /\ n < 0 /\ by = SUPERPGSIZE,
           Tidy(p) => ret = "shrink" /\ Released(p, by) /\ n = op[p].n + by /\ n <= 0
    PROVE  Calm' /\ Accounts' /\ halt' = "no"
<1> DEFINE o == op[p]
           s == Dealloc(o.lsz, by)
           u == [o EXCEPT !.lsz = s, !.n = n, !.ret = ret, !.a = PGROUNDUP(s), !.end = PGROUNDUP(o.lsz)]
<1>1. /\ o \in Ops /\ o.lsz \in 0 .. LIMIT /\ o.lsz \in Nat /\ o.i < next[p] /\ o.child = NULL
      /\ o.ret \in {"none", "shrink"}
  BY Own DEF Locals, Shrinking, Forking
<1>2. s \in 0 .. LIMIT /\ s \in Nat /\ (by <= o.lsz => s = o.lsz - by)
  <2>1. ASSUME NEW z \in 0 .. LIMIT
        PROVE  Dealloc(z, by) \in 0 .. LIMIT /\ (by <= z => Dealloc(z, by) = z - by)
    BY Sizes DEF Dealloc
  <2> QED
    BY <1>1, <2>1, Sizes
<1>3. /\ PGROUNDUP(s) \in Nat /\ PGROUNDUP(o.lsz) \in Nat
      /\ Whole(PGROUNDUP(s)) /\ Whole(PGROUNDUP(o.lsz))
      /\ (Whole(s) => PGROUNDUP(s) = s) /\ (Whole(o.lsz) => PGROUNDUP(o.lsz) = o.lsz)
  BY <1>1, <1>2, RoundUp
<1>4. Goto(p, "unmap", u) /\ UNCHANGED <<tab, sz, ones, next, free, superfree, halt>>
  BY DEF StartDealloc
<1>5. u \in Ops
  <2>1. ASSUME NEW r \in Ops, NEW m \in Int, NEW z \in 0 .. LIMIT, NEW k \in {"split", "shrink"},
               NEW a \in Nat, NEW e \in Nat
        PROVE  [r EXCEPT !.lsz = z, !.n = m, !.ret = k, !.a = a, !.end = e] \in Ops
    BY DEF Ops, Rets
  <2> HIDE DEF o, s
  <2> QED
    BY <1>1, <1>2, <1>3, <2>1
<1>6. /\ u.lsz = s /\ u.n = n /\ u.ret = ret /\ u.a = PGROUNDUP(s) /\ u.end = PGROUNDUP(o.lsz)
      /\ u.child = NULL /\ u.i = o.i
  BY <1>1 DEF Ops
<1> HIDE DEF u
<1>7. pc'[p] = "unmap" /\ op'[p] = u /\ tab'[p] = tab[p] /\ sz'[p] = sz[p] /\ ones'[p] = ones[p]
      /\ next'[p] = next[p] /\ base'[p] = base[p]
  BY <1>4 DEF Goto, Calm, Types
<1>8. Locals(p)'
  <2>1. ret = "split" => s + SUPERPGSIZE <= LIMIT
    <3>1. ASSUME ret = "split" PROVE s + SUPERPGSIZE <= LIMIT
      <4>1. by = SUPERPGSIZE
        BY <3>1
      <4>2. 2 * SUPERPGSIZE <= LIMIT
        BY SuperAssumption
      <4>3. SUPERPGSIZE \in Nat /\ LIMIT \in Nat
        BY Sizes
      <4> QED
        BY <1>1, <4>1, <4>2, <4>3 DEF Dealloc
    <3> QED
      BY <3>1
  <2>2. ret \in Rets \ {"none", "grow"} /\ ret \notin {"fork", "lost"}
    BY DEF Rets
  <2> QED
    BY <1>1, <1>6, <1>7, <2>1, <2>2 DEF Locals, Shrinking, Forking
<1>9. Growing(p)' /\ Copying(p)' /\ Uncopying(p)'
  BY <1>6, <1>7 DEF Growing, Copying, Uncopying
<1>10. Tidiness(p)'
  <2> SUFFICES ASSUME Tidy(p)' PROVE Tidiness(p)'
    BY DEF Tidiness
  <2>1. Tidy(p) /\ ret = "shrink" /\ Released(p, by) /\ n = o.n + by /\ n <= 0
    BY <1>7 DEF Tidy
  <2>2. /\ base[p] \in Nat /\ Whole(base[p]) /\ Whole(o.lsz) /\ base[p] <= Goal(o) /\ Whole(Goal(o))
        /\ Uncut(tab[p], PageOf(Goal(o)))
    BY <2>1, Own DEF Tidiness, Shrinking
  <2>3. s = o.lsz - by /\ Whole(s)
    BY <1>2, <2>1 DEF Released
  <2>4. Goal(u) = Goal(o)
    <3>1. o.n \in Int
      BY Own
    <3> QED
      BY <1>1, <1>6, <2>1, <2>3, <3>1 DEF Goal
  <2>5. u.a = s /\ u.end = o.lsz /\ PageOf(s) \in Nat
    BY <1>2, <1>3, <1>6, <2>2, <2>3, PageAt
  <2> HIDE DEF s
  <2>6. Span(tab[p], 0 .. PageOf(s) - 1, PageOf(s), PageOf(o.lsz))
        /\ Recorded(tab[p], PageOf(base[p]), PageOf(s), o.i, ones[p])
    BY <2>1, <2>3 DEF Released
  <2>7. Shrinking(p)' /\ ~Forking(p)' /\ PageOf(s) <= PageOf(s)
    BY <1>6, <1>7, <2>1, <2>5 DEF Shrinking, Forking
  <2> QED
    BY <1>6, <1>7, <2>1, <2>2, <2>3, <2>4, <2>5, <2>6, <2>7 DEF Tidiness
<1>11. Sound(p)'
  BY <1>8, <1>9, <1>10 DEF Sound
<1> QED
  BY <1>1, <1>4, <1>5, <1>6, <1>11, Moves DEF PCs

\* A tidy process reads its own entries, never past the end of the record.
LEMMA InRecord ==
    ASSUME Calm, Fits, NEW p \in Procs, pc[p] = "shrink", Tidy(p), ReadsOne(p)
    PROVE  op[p].i \in ones[p]
<1>1. op[p].i < next[p] /\ op[p].i \in Int /\ next[p] \in Int
  BY Own DEF Locals, Shrinking
<1>2. next[p] <= RECORD
  BY DEF Fits
<1>3. ~(op[p].i >= RECORD)
  BY <1>1, <1>2, Sizes
<1> QED
  BY <1>3 DEF ReadsOne

LEMMA ShrinkSplitStep ==
    ASSUME Calm, Fits, Accounts, halt = "no", NEW p \in Procs, ShrinkSplit(p), UNCHANGED base
    PROVE  Calm' /\ Accounts' /\ halt' = "no"
<1>1. /\ pc[p] = "shrink" /\ op[p].i >= 0 /\ ReadsOne(p) /\ op[p].n + SUPERPGSIZE > 0
      /\ StartDealloc(p, SUPERPGSIZE, op[p].n, "split")
  BY DEF ShrinkSplit
<1>2. op[p].n < 0 /\ op[p].n \in Int /\ SUPERPGSIZE \in Nat
  BY <1>1, Own, Sizes DEF Locals
<1>3. ~Tidy(p)
  <2>1. ~(op[p].n + SUPERPGSIZE <= 0)
    BY <1>1, <1>2
  <2> QED
    BY <1>1, <2>1, TopOfHeap, InRecord
<1> QED
  BY <1>1, <1>2, <1>3, StartDeallocStep

LEMMA ShrinkSuperStep ==
    ASSUME Calm, Fits, Accounts, halt = "no", NEW p \in Procs, ShrinkSuper(p), UNCHANGED base
    PROVE  Calm' /\ Accounts' /\ halt' = "no"
<1>1. /\ pc[p] = "shrink" /\ op[p].i >= 0 /\ ReadsOne(p) /\ op[p].n + SUPERPGSIZE <= 0
      /\ StartDealloc(p, SUPERPGSIZE, op[p].n + SUPERPGSIZE, "shrink")
  BY DEF ShrinkSuper
<1>2. op[p].n + SUPERPGSIZE \in Int /\ SUPERPGSIZE \in Nat
  BY Own, Sizes
<1>3. Tidy(p) => Released(p, SUPERPGSIZE)
  BY <1>1, TopOfHeap, InRecord
<1> QED
  BY <1>1, <1>2, <1>3, StartDeallocStep

LEMMA ShrinkPageStep ==
    ASSUME Calm, Accounts, halt = "no", NEW p \in Procs, ShrinkPage(p), UNCHANGED base
    PROVE  Calm' /\ Accounts' /\ halt' = "no"
<1>1. /\ pc[p] = "shrink" /\ op[p].i >= 0 /\ op[p].i \notin ones[p]
      /\ StartDealloc(p, PGSIZE, op[p].n + PGSIZE, "shrink")
  BY DEF ShrinkPage, ReadsZero
<1>2. op[p].n + PGSIZE \in Int /\ PGSIZE \in Nat
  BY Own, Sizes
<1>3. Tidy(p) => Released(p, PGSIZE) /\ op[p].n + PGSIZE <= 0
  BY <1>1, TopOfHeap
<1> QED
  BY <1>1, <1>2, <1>3, StartDeallocStep

LEMMA ShrunkStep ==
    ASSUME Calm, Accounts, halt = "no", NEW p \in Procs, Shrinking(p),
           NEW s \in 0 .. LIMIT, NEW nxt \in Nat \cup {-1}, Shrunk(p, s, nxt), UNCHANGED base,
           ones' \in [Procs -> SUBSET (0 .. RECORD - 1)], \A q \in Procs \ {p} : ones'[q] = ones[q],
           Tidy(p) => /\ Whole(s) /\ Span(tab[p], {}, 0, PageOf(s))
                      /\ Recorded(tab[p], PageOf(base[p]), PageOf(s), nxt, ones'[p])
    PROVE  Calm' /\ Accounts' /\ halt' = "no"
<1>1. /\ sz' = [sz EXCEPT ![p] = s] /\ next' = [next EXCEPT ![p] = nxt] /\ Goto(p, "run", Idle)
      /\ UNCHANGED <<tab, free, superfree, halt>>
  BY DEF Shrunk
<1>2. /\ pc'[p] = "run" /\ op'[p] = Idle /\ tab'[p] = tab[p] /\ sz'[p] = s
      /\ next'[p] = nxt /\ base'[p] = base[p]
      /\ sz' \in [Procs -> 0 .. LIMIT] /\ next' \in [Procs -> Nat \cup {-1}] /\ base' \in [Procs -> Int]
      /\ \A q \in Procs \ {p} : sz'[q] = sz[q] /\ next'[q] = next[q] /\ base'[q] = base[q]
  BY <1>1 DEF Goto, Calm, Types
<1>3. Tidiness(p)'
  <2> SUFFICES ASSUME Tidy(p)' PROVE Tidiness(p)'
    BY DEF Tidiness
  <2>1. Tidy(p)
    BY <1>2 DEF Tidy
  <2>2. base[p] \in Nat /\ Whole(base[p])
    BY <2>1, Own DEF Tidiness
  <2>3. ~Shrinking(p)' /\ ~Forking(p)'
    BY <1>2 DEF Shrinking, Forking
  <2> QED
    BY <1>2, <2>1, <2>2, <2>3 DEF Tidiness
<1>4. Sound(p)'
  BY <1>2, <1>3, Resting
<1>5. Idle \in Ops /\ Idle.child \in {NULL, op[p].child} /\ Idle.ret # "exec"
  BY IdleOp DEF Idle
<1>6. op[p].ret # "exec" /\ pc[p] \notin {"unused", "embryo"}
  BY Own DEF Shrinking, Locals
<1> QED
  BY <1>1, <1>2, <1>4, <1>5, <1>6, Local DEF PCs

\* The unmapping for one entry of the record has come to its end.
LEMMA EntryGone ==
    ASSUME Calm, NEW p \in Procs, Unmapped(p, "shrink"), Tidy(p)
    PROVE  LET o == op[p] IN
           /\ o.n <= 0 /\ Whole(o.lsz) /\ Span(tab[p], {}, 0, PageOf(o.lsz))
           /\ Recorded(tab[p], PageOf(base[p]), PageOf(o.lsz), o.i, ones[p])
<1> DEFINE o == op[p]
<1>1. pc[p] = "unmap" /\ o.a >= o.end /\ o.ret = "shrink" /\ Shrinking(p)
  BY DEF Unmapped, Shrinking
<1>2. /\ base[p] \in Nat /\ o.n <= 0 /\ Whole(o.lsz) /\ Whole(o.a) /\ Whole(o.end)
      /\ Span(tab[p], 0 .. PageOf(o.lsz) - 1, PageOf(o.a), PageOf(o.end))
      /\ Recorded(tab[p], PageOf(base[p]), PageOf(o.lsz), o.i, ones[p])
  BY <1>1, Own DEF Tidiness
<1>3. o.a \in Nat /\ o.end \in Nat /\ o.lsz \in Nat /\ tab[p] \in Tables
  BY Own
<1>4. /\ PageOf(o.a) \in Nat /\ PageOf(o.end) \in Nat /\ PageOf(o.end) <= PageOf(o.a)
      /\ PageOf(o.lsz) \in Nat /\ PageOf(base[p]) \in Nat
  BY <1>1, <1>2, <1>3, PageAt, WholeOrder
<1>5. PageOf(o.a) = PageOf(o.end)
  BY <1>2, <1>4 DEF Span
<1>6. Mapped(tab[p]) = 0 .. PageOf(o.lsz) - 1
  BY <1>2, <1>4, <1>5, SpanEmpty
<1>7. Span(tab[p], {}, 0, PageOf(o.lsz))
  BY <1>2, <1>3, <1>4, <1>6, RecordedSpan
<1> QED
  BY <1>2, <1>7

LEMMA ShrinkNextStep ==
    ASSUME Calm, Accounts, halt = "no", NEW p \in Procs, ShrinkNext(p), UNCHANGED base
    PROVE  Calm' /\ Accounts' /\ halt' = "no"
<1> DEFINE o == op[p]
<1>1. /\ Unmapped(p, "shrink") /\ UNCHANGED ones /\ pc[p] = "unmap" /\ o.ret = "shrink" /\ Shrinking(p)
  BY DEF ShrinkNext, Unmapped, Shrinking
<1>2. /\ o.lsz \in 0 .. LIMIT /\ o.i \in Int /\ o.i >= 0 /\ o.i < next[p] /\ next[p] \in Nat \cup {-1}
      /\ o \in Ops /\ o.n \in Int /\ o.child = NULL
  BY <1>1, Own DEF Locals, Forking
<1>3. ones' \in [Procs -> SUBSET (0 .. RECORD - 1)] /\ \A q \in Procs : ones'[q] = ones[q]
  BY <1>1 DEF Calm, Types
<1>4. CASE o.n > 0 /\ Shrunk(p, o.lsz, o.i - 1)
  <2>1. ~Tidy(p)
    <3>1. ~(o.n <= 0)
      BY <1>2, <1>4
    <3> QED
      BY <1>1, <3>1, EntryGone
  <2>2. o.i - 1 \in Nat \cup {-1}
    BY <1>2, Sizes
  <2> QED
    BY <1>1, <1>2, <1>3, <1>4, <2>1, <2>2, ShrunkStep
<1>5. CASE o.n = 0 /\ Shrunk(p, o.lsz, FirstReleased(o.i))
  <2>1. FirstReleased(o.i) = o.i /\ o.i \in Nat \cup {-1}
    BY <1>2, Sizes DEF FirstReleased
  <2>2. Tidy(p) => /\ Whole(o.lsz) /\ Span(tab[p], {}, 0, PageOf(o.lsz))
                   /\ Recorded(tab[p], PageOf(base[p]), PageOf(o.lsz), o.i, ones'[p])
    BY <1>1, <1>3, EntryGone
  <2>3. Shrunk(p, o.lsz, o.i)
    BY <1>5, <2>1
  <2> QED
    BY <1>1, <1>2, <1>3, <2>1, <2>2, <2>3, ShrunkStep
<1>6. CASE /\ o.n < 0 /\ Goto(p, "shrink", [o EXCEPT !.i = @ - 1])
           /\ UNCHANGED <<tab, sz, next, free, superfree, halt>>
  <2> DEFINE u == [o EXCEPT !.i = @ - 1]
  <2>1. /\ u \in Ops /\ u.i = o.i - 1 /\ u.n = o.n /\ u.lsz = o.lsz /\ u.ret = "shrink" /\ u.child = NULL
    BY <1>1, <1>2 DEF Ops
  <2>2. Goto(p, "shrink", u) /\ UNCHANGED <<tab, sz, ones, next, free, superfree, halt>>
    BY <1>1, <1>6
  <2> HIDE DEF u
  <2>3. pc'[p] = "shrink" /\ op'[p] = u /\ tab'[p] = tab[p] /\ sz'[p] = sz[p] /\ ones'[p] = ones[p]
        /\ next'[p] = next[p] /\ base'[p] = base[p]
    BY <2>2 DEF Goto, Calm, Types
  <2>4. Locals(p)'
    <3>1. u.i < next[p] /\ u.n < 0
      BY <1>2, <1>6, <2>1
    <3> QED
      BY <2>1, <2>3, <3>1 DEF Locals, Shrinking, Forking
  <2>5. Growing(p)' /\ Copying(p)' /\ Uncopying(p)'
    BY <2>3 DEF Growing, Copying, Uncopying
  <2>6. Tidiness(p)'
    <3> SUFFICES ASSUME Tidy(p)' PROVE Tidiness(p)'
      BY DEF Tidiness
    <3>1. Tidy(p)
      BY <2>3 DEF Tidy
    <3>2. /\ o.n <= 0 /\ Whole(o.lsz) /\ Span(tab[p], {}, 0, PageOf(o.lsz))
          /\ Recorded(tab[p], PageOf(base[p]), PageOf(o.lsz), o.i, ones[p])
      BY <1>1, <3>1, EntryGone
    <3>3. u.i + 1 = o.i
      BY <1>2, <2>1
    <3>4. /\ base[p] \in Nat /\ Whole(base[p]) /\ base[p] <= Goal(o) /\ Whole(Goal(o))
          /\ Uncut(tab[p], PageOf(Goal(o)))
      BY <1>1, <3>1, Own DEF Tidiness
    <3>5. Goal(u) = Goal(o)
      BY <2>1 DEF Goal
    <3>6. Shrinking(p)' /\ ~Forking(p)'
      BY <2>3 DEF Shrinking, Forking
    <3> QED
      BY <2>1, <2>3, <3>2, <3>3, <3>4, <3>5, <3>6 DEF Tidiness
  <2>7. Sound(p)'
    BY <2>4, <2>5, <2>6 DEF Sound
  <2> QED
    BY <1>1, <2>1, <2>2, <2>7, Moves DEF PCs
<1> QED
  BY <1>4, <1>5, <1>6 DEF ShrinkNext

LEMMA ShrinkEndStep ==
    ASSUME Calm, Accounts, halt = "no", NEW p \in Procs, ShrinkEnd(p), UNCHANGED base
    PROVE  Calm' /\ Accounts' /\ halt' = "no"
<1> DEFINE o == op[p]
<1>1. pc[p] = "shrink" /\ o.i < 0 /\ UNCHANGED ones /\ Shrunk(p, o.lsz, next[p]) /\ Shrinking(p)
  BY DEF ShrinkEnd, Shrinking
<1>2. o.lsz \in 0 .. LIMIT /\ o.i \in Int /\ next[p] \in Nat \cup {-1}
  BY Own
<1>3. ~Tidy(p)
  <2>1. ~(o.i >= 0)
    BY <1>1, <1>2
  <2> QED
    BY <1>1, <2>1, TopOfHeap
<1>4. ones' \in [Procs -> SUBSET (0 .. RECORD - 1)] /\ \A q \in Procs : ones'[q] = ones[q]
  BY <1>1 DEF Calm, Types
<1> QED
  BY <1>1, <1>2, <1>3, <1>4, ShrunkStep

\* No tidy process is in the middle of splitting a superpage.
LEMMA NoSplit ==
    ASSUME Calm, NEW p \in Procs, Shrinking(p), op[p].ret \in {"split", "lost"}
    PROVE  ~Tidy(p)
  BY Own DEF Tidiness

LEMMA SplitAllocStep ==
    ASSUME Calm, Accounts, halt = "no", NEW p \in Procs, SplitAlloc(p), UNCHANGED base
    PROVE  Calm' /\ Accounts' /\ halt' = "no"
<1> DEFINE o == op[p]
           u == [o EXCEPT !.a = PGROUNDUP(o.lsz), !.old = PGROUNDUP(o.lsz), !.end = o.lsz + SUPERPGSIZE + o.n]
<1>1. /\ pc[p] = "unmap" /\ o.ret = "split" /\ Shrinking(p)
      /\ Goto(p, "alloc", u) /\ UNCHANGED <<tab, sz, ones, next, free, superfree, halt>>
  BY DEF SplitAlloc, Unmapped, Shrinking
<1>2. /\ o \in Ops /\ o.lsz \in Nat /\ o.n \in Int /\ o.i < next[p] /\ o.i >= 0 /\ o.child = NULL
      /\ o.n + SUPERPGSIZE > 0 /\ o.n < 0 /\ o.lsz + SUPERPGSIZE <= LIMIT
  BY <1>1, Own DEF Locals, Forking
<1>3. o.lsz + SUPERPGSIZE + o.n \in Nat /\ o.lsz + SUPERPGSIZE + o.n <= LIMIT /\ PGROUNDUP(o.lsz) \in Nat
  BY <1>2, RoundUp, Sizes
<1>4. u \in Ops
  <2>1. ASSUME NEW r \in Ops, NEW a \in Nat, NEW e \in Nat
        PROVE  [r EXCEPT !.a = a, !.old = a, !.end = e] \in Ops
    BY DEF Ops
  <2> HIDE DEF o
  <2> QED
    BY <1>2, <1>3, <2>1
<1>5. /\ u.end = o.lsz + SUPERPGSIZE + o.n /\ u.ret = "split" /\ u.child = NULL
      /\ u.i = o.i /\ u.n = o.n /\ u.lsz = o.lsz
  BY <1>1, <1>2 DEF Ops
<1> HIDE DEF u
<1>6. pc'[p] = "alloc" /\ op'[p] = u /\ tab'[p] = tab[p] /\ sz'[p] = sz[p] /\ ones'[p] = ones[p]
      /\ next'[p] = next[p] /\ base'[p] = base[p]
  BY <1>1 DEF Goto, Calm, Types
<1>7. Locals(p)'
  BY <1>2, <1>3, <1>5, <1>6 DEF Locals, Shrinking, Forking
<1>8. Growing(p)' /\ Copying(p)' /\ Uncopying(p)'
  BY <1>5, <1>6 DEF Growing, Copying, Uncopying
<1>9. Tidiness(p)'
  <2>1. ~Tidy(p)
    BY <1>1, NoSplit
  <2> QED
    BY <1>6, <2>1 DEF Tidiness, Tidy
<1>10. Sound(p)'
  BY <1>7, <1>8, <1>9 DEF Sound
<1> QED
  BY <1>1, <1>4, <1>5, <1>10, Moves DEF PCs

LEMMA SplitDoneStep ==
    ASSUME Calm, Accounts, halt = "no", NEW p \in Procs, SplitDone(p), UNCHANGED base
    PROVE  Calm' /\ Accounts' /\ TidyPanics'
<1> DEFINE o == op[p]
           nxt == next[p] - 1 + (o.n + SUPERPGSIZE) \div PGSIZE
           s == IF o.ret = "split" THEN o.end ELSE 0
<1>1. \/ pc[p] = "alloc" /\ o.ret = "split"
      \/ pc[p] = "unmap" /\ o.ret = "lost"
  BY DEF SplitDone, Unmapped
<1>2. Shrinking(p) /\ ~Tidy(p) /\ o.ret \in {"split", "lost"}
  <2>1. Shrinking(p) /\ o.ret \in {"split", "lost"}
    BY <1>1 DEF Shrinking
  <2> QED
    BY <2>1, NoSplit
<1>3. CASE Panic("wild")
  <2>1. TidyPanics'
    BY <1>2 DEF TidyPanics, Tidy
  <2> QED
    BY <1>3, <2>1, Stops
<1>4. CASE ones' = [ones EXCEPT ![p] = @ \ {o.i}] /\ Shrunk(p, s, nxt)
  <2>1. /\ o.i < next[p] /\ o.i >= 0 /\ o.i \in Int /\ o.n + SUPERPGSIZE > 0 /\ next[p] \in Nat \cup {-1}
        /\ o.n \in Int /\ o.end \in Nat
    BY <1>1, <1>2, Own DEF Locals
  <2>2. nxt \in Nat \cup {-1}
    <3> DEFINE m == o.n + SUPERPGSIZE
    <3>1. m \in Nat
      BY <2>1, Sizes
    <3>2. PageOf(m) \in Nat
      BY <3>1, PageAt
    <3>3. m \div PGSIZE \in Nat
      BY <3>2 DEF PageOf
    <3> HIDE DEF m
    <3>4. nxt = next[p] - 1 + m \div PGSIZE
      BY DEF m
    <3> HIDE DEF nxt
    <3> QED
      BY <1>4, <2>1, <3>3, <3>4, Sizes
  <2>3. s \in 0 .. LIMIT
    <3>1. o.ret = "split" => o.end <= LIMIT
      BY <1>1, Own DEF Locals
    <3> QED
      BY <2>1, <3>1, Sizes
  <2>4. ones' \in [Procs -> SUBSET (0 .. RECORD - 1)] /\ \A q \in Procs \ {p} : ones'[q] = ones[q]
    BY <1>4 DEF Calm, Types
  <2> HIDE DEF nxt, s
  <2> QED
    BY <1>2, <1>4, <2>2, <2>3, <2>4, ShrunkStep, Runs
<1> QED
  BY <1>3, <1>4 DEF SplitDone

-----------------------------------------------------------------------------
(* Steps that change one table.                                            *)

\* The child of a fork under way, while its table changes.
LEMMA EmbryoSound ==
    ASSUME NEW c \in Procs, Sound(c), pc[c] = "embryo", pc'[c] = "embryo", op'[c] = op[c],
           next'[c] = next[c], base'[c] = base[c]
    PROVE  Sound(c)'
<1>1. op'[c] = Idle /\ Idle.child = NULL /\ next'[c] = 0
  BY DEF Sound, Locals, Idle
<1>2. Locals(c)'
  BY <1>1 DEF Locals, Shrinking, Forking
<1>3. Growing(c)' /\ Copying(c)' /\ Uncopying(c)'
  BY DEF Growing, Copying, Uncopying
<1>4. Tidiness(c)'
  <2>1. Tidy(c)' => base[c] \in Nat /\ Whole(base[c])
    BY DEF Sound, Tidiness, Tidy
  <2>2. ~Shrinking(c)' /\ ~Forking(c)'
    BY DEF Shrinking, Forking
  <2> QED
    BY <2>1, <2>2 DEF Tidiness
<1> QED
  BY <1>2, <1>3, <1>4 DEF Sound

\* p changes its own table, or that of its child, against the free lists.
LEMMA TableStep ==
    ASSUME Calm, Accounts, NEW p \in Procs, NEW c \in Procs, c = p \/ c = op[p].child,
           NEW w \in PCs \ {"unused", "embryo"}, NEW o \in Ops, NEW T, Shape(T),
           pc[p] \notin {"unused", "embryo"}, Goto(p, w, o), tab' = [tab EXCEPT ![c] = T],
           o.child = op[p].child, o.ret = "exec" <=> op[p].ret = "exec",
           UNCHANGED <<sz, ones, next, base>>, free' \in Nat, superfree' \in Nat,
           free' + Cardinality(T.small) + Cardinality(T.l0)
             = free + Cardinality(tab[c].small) + Cardinality(tab[c].l0),
           superfree' + Cardinality(T.super) = superfree + Cardinality(tab[c].super),
           Sound(p)'
    PROVE  Calm' /\ Accounts'
<1>1. /\ pc' \in [Procs -> PCs] /\ op' \in [Procs -> Ops] /\ pc'[p] = w /\ op'[p] = o
      /\ \A q \in Procs \ {p} : pc'[q] = pc[q] /\ op'[q] = op[q]
  BY DEF Calm, Types, Goto
<1>2. T \in Tables /\ tab'[c] = T /\ \A q \in Procs \ {c} : tab'[q] = tab[q]
  BY DEF Shape, Calm, Types
<1>3. tab' \in [Procs -> Tables] /\ \A q \in Procs : Shape(tab'[q])
  BY <1>2 DEF Calm, Types
<1>4. Types'
  BY <1>1, <1>3 DEF Calm, Types
<1>5. \A q \in Procs \ {p, c} : Alike(q)
  BY <1>1, <1>2 DEF Alike
<1>6. Calm'
  <2>1. CASE c = p
    BY <1>1, <1>4, <1>5, <2>1, FrameOne
  <2>2. CASE c # p
    <3>1. c = op[p].child /\ c # NULL
      BY <2>2, SuperAssumption
    <3>2. /\ pc[c] = "embryo" /\ op[c] = Idle
          /\ \A q \in Procs \ {p, c} : op[q].child \notin {p, c}
      BY <3>1, Kin
    <3>3. pc'[c] = "embryo" /\ op'[c] = op[c] /\ op'[c].child = NULL /\ op'[p].child = c
      BY <1>1, <2>2, <3>1, <3>2 DEF Idle
    <3>4. Sound(c)'
      BY <3>2, <3>3, EmbryoSound DEF Calm
    <3> QED
      BY <1>4, <1>5, <2>2, <3>2, <3>3, <3>4, Frame
  <2> QED
    BY <2>1, <2>2
<1>7. \A q \in Procs : /\ pc'[q] = "unused" <=> pc[q] = "unused"
                       /\ op'[q].ret = "exec" <=> op[q].ret = "exec"
  BY <1>1
<1>8. \A q \in Procs \ {c} : HeldBy(q)' = HeldBy(q) /\ tab'[q] = tab[q]
  BY <1>2, <1>7 DEF HeldBy
<1>9. Heads(c)' = Heads(c) /\ NewImage(c)' = NewImage(c) /\ Heads(c) \in Nat /\ NewImage(c) \in Nat
  BY <1>7, SuperAssumption DEF Heads, NewImage
<1>10. free' + Holding(c)' = free + Holding(c)
  <2>1. /\ Holding(c) = Cardinality(tab[c].small) + Cardinality(tab[c].l0) + Heads(c) + NewImage(c)
        /\ Holding(c)' = Cardinality(T.small) + Cardinality(T.l0) + Heads(c) + NewImage(c)
    BY <1>2, <1>9 DEF Holding
  <2>2. /\ Cardinality(tab[c].small) \in Nat /\ Cardinality(tab[c].l0) \in Nat
        /\ Cardinality(T.small) \in Nat /\ Cardinality(T.l0) \in Nat
    BY <1>2, Finite, FS_CardinalityType DEF Calm, Types
  <2>3. free \in Nat
    BY DEF Calm, Types
  <2> QED
    BY <1>9, <2>1, <2>2, <2>3
<1>11. Accounts'
  BY <1>2, <1>4, <1>8, <1>10, Ledger DEF Calm
<1> QED
  BY <1>6, <1>11

\* In the accounts of one table.
LEMMA AddedPage ==
    ASSUME NEW t, Shape(t), NEW u, NEW v, NEW r, v \notin t.small,
           u.small = t.small \cup {v}, u.l0 = t.l0 \cup {r}, u.super = t.super
    PROVE  /\ Cardinality(u.small) + Cardinality(u.l0)
                = Cardinality(t.small) + Cardinality(t.l0) + (IF r \in t.l0 THEN 1 ELSE 2)
           /\ Cardinality(t.small) \in Nat /\ Cardinality(t.l0) \in Nat
           /\ Cardinality(u.small) \in Nat /\ Cardinality(u.l0) \in Nat
           /\ Cardinality(u.super) = Cardinality(t.super)
<1>1. IsFiniteSet(t.small) /\ IsFiniteSet(t.l0)
  BY Finite DEF Shape
<1>2. /\ Cardinality(u.small) = Cardinality(t.small) + 1
      /\ Cardinality(u.l0) = (IF r \in t.l0 THEN Cardinality(t.l0) ELSE Cardinality(t.l0) + 1)
  BY <1>1, FS_AddElement
<1>3. Cardinality(t.small) \in Nat /\ Cardinality(t.l0) \in Nat
  BY <1>1, FS_CardinalityType
<1> QED
  BY <1>2, <1>3

LEMMA AddedSuper ==
    ASSUME NEW t, Shape(t), NEW u, NEW r, r \notin t.super,
           u.small = t.small, u.l0 = t.l0, u.super = t.super \cup {r}
    PROVE  /\ Cardinality(u.super) = Cardinality(t.super) + 1 /\ Cardinality(t.super) \in Nat
           /\ Cardinality(u.small) = Cardinality(t.small) /\ Cardinality(u.l0) = Cardinality(t.l0)
           /\ Cardinality(t.small) \in Nat /\ Cardinality(t.l0) \in Nat
<1>1. IsFiniteSet(t.super) /\ IsFiniteSet(t.small) /\ IsFiniteSet(t.l0)
  BY Finite DEF Shape
<1>2. Cardinality(u.super) = Cardinality(t.super) + 1
  BY <1>1, FS_AddElement
<1> QED
  BY <1>1, <1>2, FS_CardinalityType

\* A tidy process allocates where nothing is mapped.
LEMMA FreshAddress ==
    ASSUME Calm, NEW p \in Procs, pc[p] = "alloc", Tidy(p)
    PROVE  /\ PageOf(op[p].a) \notin Mapped(tab[p]) /\ op[p].ret = "grow" /\ Whole(op[p].a)
           /\ \A v \in Mapped(tab[p]) : v < PageOf(op[p].a)
           /\ PageOf(sz[p]) <= PageOf(op[p].a) /\ Whole(sz[p]) /\ ~Shrinking(p)
<1> DEFINE o == op[p]
           x == PageOf(sz[p])
           y == PageOf(o.a)
<1>1. o.ret = "grow" /\ o.old = sz[p] /\ o.was = 0 .. x - 1
  BY Own DEF Tidiness
<1>2. Whole(o.a) /\ Span(tab[p], 0 .. x - 1, x, y)
  BY <1>1, Own DEF Growing
<1>3. x \in Nat /\ y \in Nat
  BY Own, PageAt
<1>4. ~Shrinking(p)
  BY <1>1 DEF Shrinking
<1>5. Whole(sz[p])
  BY <1>4, Own DEF Tidiness
<1> HIDE DEF x, y
<1>6. y \notin Mapped(tab[p]) /\ x <= y
  BY <1>2, <1>3 DEF Span
<1>7. \A v \in Mapped(tab[p]) : v < y
  BY <1>2, <1>3 DEF Span
<1> QED
  BY <1>1, <1>2, <1>4, <1>5, <1>6, <1>7 DEF x, y

LEMMA AllocSuperStep ==
    ASSUME Calm, Accounts, halt = "no", NEW p \in Procs, AllocSuper(p), UNCHANGED base
    PROVE  Calm' /\ Accounts' /\ TidyPanics'
<1> DEFINE o == op[p]
           t == tab[p]
           r == RegionOf(o.a)
<1>1. pc[p] = "alloc" /\ o.a < o.end /\ WantSuper(o) /\ superfree > 0
  BY DEF AllocSuper
<1>2. /\ o \in Ops /\ o.a \in Nat /\ o.end \in Nat /\ o.end <= LIMIT /\ o.a <= LIMIT /\ Shape(t)
      /\ o.ret \in {"grow", "split"} /\ o.child = NULL /\ r \in Nat
  <2>1. /\ o \in Ops /\ o.a \in Nat /\ o.end \in Nat /\ o.end <= LIMIT /\ Shape(t)
        /\ o.ret \in {"grow", "split"} /\ o.child = NULL
    BY <1>1, Own DEF Locals, Forking
  <2> QED
    BY <1>1, <2>1, RegionPage, Sizes
<1>3. CASE r \in t.super \cup t.l0 /\ Panic("remap")
  <2>1. Calm' /\ Accounts' /\ halt' = "remap"
    BY <1>3, Stops
  <2>2. tab' = tab /\ pc' = pc /\ op' = op /\ base' = base
    BY <1>3 DEF Panic
  <2>3. Tidy(p) => r \in t.l0
    <3> SUFFICES ASSUME Tidy(p) PROVE r \notin t.super
      BY <1>3
    <3>1. PageOf(o.a) \notin Mapped(t)
      BY <1>1, FreshAddress
    <3> QED
      BY <1>2, <3>1, WalkFinds
  <2>4. TidyPanics'
    <3> SUFFICES ASSUME \A q \in Procs : Tidy(q)'
                 PROVE  \E q \in Procs : /\ pc'[q] = "alloc" /\ WantSuper(op'[q])
                                         /\ RegionOf(op'[q].a) \in tab'[q].l0
                                         /\ \A v \in Mapped(tab'[q]) : v < PageOf(op'[q].a)
      BY <2>1 DEF TidyPanics
    <3>1. Tidy(p)
      BY <2>2 DEF Tidy
    <3>2. \A v \in Mapped(tab[p]) : v < PageOf(op[p].a)
      BY <1>1, <3>1, FreshAddress
    <3> QED
      BY <1>1, <2>2, <2>3, <3>1, <3>2
  <2> QED
    BY <2>1, <2>4
<1>4. CASE /\ r \notin t.super \cup t.l0
           /\ tab' = [tab EXCEPT ![p] = MapSuper(@, o.a)]
           /\ superkalloc
           /\ Goto(p, "alloc", [o EXCEPT !.a = @ + SUPERPGSIZE, !.supers = @ + 1])
           /\ UNCHANGED <<sz, ones, next, halt>>
  <2> DEFINE T == MapSuper(t, o.a)
             u == [o EXCEPT !.a = @ + SUPERPGSIZE, !.supers = @ + 1]
  <2>1. /\ Shape(T) /\ T.small = t.small /\ T.super = t.super \cup {r} /\ T.l0 = t.l0
    BY <1>2, <1>4, MapSuperShape
  <2>2. tab' = [tab EXCEPT ![p] = T] /\ Goto(p, "alloc", u)
    BY <1>4 DEF Calm, Types
  <2>3. u \in Ops
    <3>1. ASSUME NEW q \in Ops PROVE [q EXCEPT !.a = @ + SUPERPGSIZE, !.supers = @ + 1] \in Ops
      <4>1. q.a + SUPERPGSIZE \in Nat /\ q.supers + 1 \in Nat
        BY Sizes DEF Ops
      <4> QED
        BY <4>1 DEF Ops
    <3> QED
      BY <1>2, <3>1
  <2>4. /\ u.a = o.a + SUPERPGSIZE /\ u.supers = o.supers + 1 /\ u.starts = o.starts /\ u.ends = o.ends
        /\ u.end = o.end /\ u.old = o.old /\ u.was = o.was /\ u.ret = o.ret /\ u.child = o.child
        /\ u.i = o.i /\ u.n = o.n /\ u.lsz = o.lsz
    BY <1>2 DEF Ops
  <2> HIDE DEF u, T
  <2>5. pc'[p] = "alloc" /\ op'[p] = u /\ tab'[p] = T /\ sz'[p] = sz[p] /\ ones'[p] = ones[p]
        /\ next'[p] = next[p] /\ base'[p] = base[p]
    BY <1>4, <2>2 DEF Goto, Calm, Types
  <2>6. Locals(p)'
    <3>1. o.ret = "split" => /\ o.i < next[p] /\ o.i >= 0 /\ o.n + SUPERPGSIZE > 0 /\ o.n < 0
                             /\ o.lsz + SUPERPGSIZE <= LIMIT
      BY <1>1, Own DEF Locals, Shrinking
    <3> QED
      BY <1>2, <2>4, <2>5, <3>1 DEF Locals, Shrinking, Forking
  <2>7. ASSUME o.ret = "grow"
        PROVE  /\ Whole(o.old) /\ Whole(u.a) /\ PageOf(u.a) = PageOf(o.a) + K /\ PageOf(o.a) = r * K
               /\ Span(T, o.was, PageOf(o.old), PageOf(u.a))
    <3>1. Whole(o.old) /\ Whole(o.a) /\ Span(t, o.was, PageOf(o.old), PageOf(o.a)) /\ o.old \in Nat
      BY <1>1, <2>7, Own DEF Growing
    <3>2. Whole(u.a) /\ PageOf(u.a) = PageOf(o.a) + K
      BY <1>2, <2>4, <3>1, WholeNext
    <3>3. PageOf(o.a) = r * K
      BY <1>1, <1>2, <3>1, Aligned DEF WantSuper
    <3>4. PageOf(o.a) \in Nat /\ PageOf(o.old) \in Nat
      BY <1>2, <3>1, PageAt
    <3>5. Span(T, o.was, PageOf(o.old), PageOf(o.a) + K)
      BY <1>2, <1>4, <2>1, <3>1, <3>3, <3>4, SpanSuper
    <3> QED
      BY <3>1, <3>2, <3>3, <3>5
  <2>8. Growing(p)'
    BY <2>4, <2>5, <2>7 DEF Growing
  <2>9. Copying(p)' /\ Uncopying(p)'
    BY <2>5 DEF Copying, Uncopying
  <2>10. Tidiness(p)'
    <3> SUFFICES ASSUME Tidy(p)' PROVE Tidiness(p)'
      BY DEF Tidiness
    <3>1. Tidy(p)
      BY <2>5 DEF Tidy
    <3> DEFINE b == PageOf(base[p])
               x == PageOf(sz[p])
               y == PageOf(o.a)
    <3>2. /\ base[p] \in Nat /\ Whole(base[p]) /\ o.ret = "grow" /\ Whole(o.end) /\ o.old = sz[p]
          /\ o.was = 0 .. x - 1 /\ Recorded(t, b, x, next[p], ones[p])
          /\ Appended(t, b, x, y, next[p], o)
          /\ o.ends > 0 => PageOf(o.end) - y < K
      BY <1>1, <3>1, Own DEF Tidiness
    <3>3. x <= y /\ Whole(o.a) /\ Whole(sz[p]) /\ x \in Nat /\ y \in Nat /\ b \in Nat /\ y = r * K
      <4>1. x <= y /\ Whole(o.a) /\ Whole(sz[p])
        BY <1>1, <3>1, FreshAddress
      <4>2. sz[p] \in Nat
        BY Own
      <4> QED
        BY <1>2, <2>7, <3>2, <4>1, <4>2, PageAt
    <3>4. PageOf(o.end) - y >= K /\ PageOf(o.end) \in Nat
      BY <1>1, <1>2, <3>2, <3>3, WholeOrder, PageAt DEF WantSuper
    <3>5. o.ends = 0 /\ o.ends \in Nat /\ o.starts \in Nat /\ o.supers \in Nat /\ next[p] \in Int
      <4>1. o.ends \in Nat /\ o.starts \in Nat /\ o.supers \in Nat /\ next[p] \in Int
        BY Own
      <4> QED
        BY SMTT(30), <3>2, <3>3, <3>4, <4>1, Sizes
    <3> HIDE DEF b, x, y
    <3>6. b <= x
      BY <3>2 DEF Recorded
    <3>7. /\ Count(T, b, y + K) = Count(t, b, y) + 1
          /\ Positions(T, b, x, y + K) = Positions(t, b, x, y) \cup {Count(t, b, y)}
          /\ Recorded(T, b, x, next[p], ones[p])
      BY <1>2, <2>1, <3>2, <3>3, <3>6, AppendSuper
    <3>8. Appended(T, b, x, y + K, next[p], u)
      <4>1. /\ Count(t, b, y) = next[p] + o.starts + o.supers + o.ends
            /\ Positions(t, b, x, y) = (next[p] + o.starts) .. (next[p] + o.starts + o.supers - 1)
        BY <3>2 DEF Appended
      <4>2. Count(T, b, y + K) = next[p] + u.starts + u.supers + u.ends
        BY SMTT(30), <2>4, <3>5, <3>7, <4>1
      <4>3. (next[p] + o.starts) .. (next[p] + o.starts + o.supers - 1) \cup {next[p] + o.starts + o.supers + o.ends}
              = (next[p] + u.starts) .. (next[p] + u.starts + u.supers - 1)
        BY <2>4, <3>5
      <4>4. Positions(T, b, x, y + K) = (next[p] + u.starts) .. (next[p] + u.starts + u.supers - 1)
        BY <3>7, <4>1, <4>3
      <4> QED
        BY <2>4, <3>5, <4>2, <4>4 DEF Appended
    <3>9. u.a \in Nat /\ Whole(u.a) /\ PageOf(u.a) = y + K /\ u.a <= u.end
      <4>1. u.a \in Nat /\ Whole(u.a) /\ PageOf(u.a) = y + K
        <5>1. u.a \in Nat
          BY <1>2, <2>4, Sizes
        <5> QED
          BY <2>7, <3>2, <5>1 DEF y
      <4>2. PageOf(u.a) <= PageOf(o.end)
        BY <3>3, <3>4, <4>1, Sizes
      <4> QED
        BY <1>2, <2>4, <3>2, <4>1, <4>2, WholeOrder
    <3>10. PageOf(u.a) = RegionOf(u.a) * K
      <4>1. y + K = (r + 1) * K /\ r + 1 \in Nat
        BY <1>2, <3>3, Times, Sizes
      <4>2. RegionOf(u.a) = ((r + 1) * K) \div K
        BY <3>9, <4>1, RegionPage
      <4>3. ((r + 1) * K) \div K = r + 1
        BY <4>1, SuperStart
      <4> QED
        BY <3>9, <4>1, <4>2, <4>3
    <3>11. ~Shrinking(p)' /\ ~Forking(p)'
      BY <2>4, <2>5, <3>2 DEF Shrinking, Forking
    <3>12. ~(u.ends > 0)
      BY <2>4, <3>5
    <3>13. PageOf(base[p])' = b /\ PageOf(sz[p])' = x
      BY <2>5 DEF b, x
    <3> QED
      BY <2>4, <2>5, <3>2, <3>3, <3>7, <3>8, <3>9, <3>10, <3>11, <3>12, <3>13 DEF Tidiness
  <2>11. Sound(p)'
    BY <2>6, <2>8, <2>9, <2>10 DEF Sound
  <2>12. /\ superfree \in Nat /\ free \in Nat /\ superfree' = superfree - 1 /\ free' = free
         /\ superfree' \in Nat /\ free' \in Nat
    BY <1>1, <1>4 DEF superkalloc, Calm, Types
  <2>13. /\ Cardinality(T.super) = Cardinality(t.super) + 1 /\ Cardinality(t.super) \in Nat
         /\ Cardinality(T.small) = Cardinality(t.small) /\ Cardinality(T.l0) = Cardinality(t.l0)
    BY <1>2, <1>4, <2>1, AddedSuper
  <2>14. free' + Cardinality(T.small) + Cardinality(T.l0) = free + Cardinality(t.small) + Cardinality(t.l0)
    BY <2>12, <2>13
  <2>15. superfree' + Cardinality(T.super) = superfree + Cardinality(t.super)
    BY <2>12, <2>13
  <2>16. Calm' /\ Accounts'
    BY <1>1, <1>4, <2>1, <2>2, <2>3, <2>4, <2>11, <2>12, <2>14, <2>15, TableStep DEF PCs
  <2>17. halt' = "no"
    BY <1>4
  <2> QED
    BY <2>16, <2>17, Runs
<1> QED
  BY <1>3, <1>4 DEF AllocSuper, Remap

LEMMA AllocPageStep ==
    ASSUME Calm, Accounts, halt = "no", NEW p \in Procs, AllocPage(p), UNCHANGED base
    PROVE  Calm' /\ Accounts' /\ TidyPanics'
<1> DEFINE o == op[p]
           t == tab[p]
           r == RegionOf(o.a)
           y == PageOf(o.a)
           cost == PageCost(t, o.a)
<1>1. pc[p] = "alloc" /\ o.a < o.end /\ ~WantSuper(o) /\ free >= cost
  BY DEF AllocPage
<1>2. /\ o \in Ops /\ o.a \in Nat /\ o.end \in Nat /\ o.end <= LIMIT /\ o.a <= LIMIT /\ Shape(t)
      /\ o.ret \in {"grow", "split"} /\ o.child = NULL /\ y \in Nat
  <2>1. /\ o \in Ops /\ o.a \in Nat /\ o.end \in Nat /\ o.end <= LIMIT /\ Shape(t)
        /\ o.ret \in {"grow", "split"} /\ o.child = NULL
    BY <1>1, Own DEF Locals, Forking
  <2>2. o.a <= LIMIT
    BY <1>1, <2>1, Sizes
  <2> QED
    BY <2>1, <2>2, PageAt
<1>3. CASE walk(t, o.a) \in {"page", "super"} /\ Panic("remap")
  <2>1. Calm' /\ Accounts' /\ halt' = "remap" /\ base' = base
    BY <1>3, Stops
  <2>2. ~Tidy(p)
    <3>1. y \in Mapped(t)
      BY <1>2, <1>3, WalkFinds
    <3> QED
      BY <1>1, <3>1, FreshAddress
  <2>3. ~Tidy(p)'
    BY <2>1, <2>2 DEF Tidy
  <2>4. TidyPanics'
    BY <2>3 DEF TidyPanics
  <2> QED
    BY <2>1, <2>4
<1>4. CASE /\ walk(t, o.a) \notin {"page", "super"}
           /\ tab' = [tab EXCEPT ![p] = MapPage(@, o.a)]
           /\ kalloc(cost)
           /\ Goto(p, "alloc", [o EXCEPT !.a = @ + PGSIZE,
                                     !.starts = IF o.supers = 0 THEN @ + 1 ELSE @,
                                     !.ends = IF o.supers = 0 THEN @ ELSE @ + 1])
           /\ UNCHANGED <<sz, ones, next, halt>>
  <2> DEFINE T == MapPage(t, o.a)
             u == [o EXCEPT !.a = @ + PGSIZE,
                            !.starts = IF o.supers = 0 THEN @ + 1 ELSE @,
                            !.ends = IF o.supers = 0 THEN @ ELSE @ + 1]
  <2>0. y \notin Mapped(t) /\ r \notin t.super /\ y \notin t.small
        /\ cost = (IF r \in t.l0 THEN 1 ELSE 2)
    <3>1. y \notin Mapped(t) /\ r \notin t.super /\ y \notin t.small
      BY <1>2, <1>4, WalkFinds
    <3>2. walk(t, o.a) = "none" <=> r \notin t.l0
      BY <1>2, <3>1, WalkFinds
    <3> QED
      BY <3>1, <3>2 DEF PageCost
  <2>1. /\ Shape(T) /\ T.small = t.small \cup {y} /\ T.super = t.super /\ T.l0 = t.l0 \cup {r}
    BY <1>2, <2>0, MapPageShape
  <2>2. tab' = [tab EXCEPT ![p] = T] /\ Goto(p, "alloc", u)
    BY <1>4 DEF Calm, Types
  <2>3. u \in Ops
    <3>1. ASSUME NEW q \in Ops
          PROVE  [q EXCEPT !.a = @ + PGSIZE, !.starts = IF q.supers = 0 THEN @ + 1 ELSE @,
                           !.ends = IF q.supers = 0 THEN @ ELSE @ + 1] \in Ops
      <4>1. /\ q.a + PGSIZE \in Nat /\ q.starts \in Nat /\ q.ends \in Nat /\ q.starts + 1 \in Nat
            /\ q.ends + 1 \in Nat
        BY Sizes DEF Ops
      <4> QED
        BY <4>1 DEF Ops
    <3> QED
      BY <1>2, <3>1
  <2>4. /\ u.a = o.a + PGSIZE /\ u.supers = o.supers
        /\ u.starts = (IF o.supers = 0 THEN o.starts + 1 ELSE o.starts)
        /\ u.ends = (IF o.supers = 0 THEN o.ends ELSE o.ends + 1)
        /\ u.end = o.end /\ u.old = o.old /\ u.was = o.was /\ u.ret = o.ret /\ u.child = o.child
        /\ u.i = o.i /\ u.n = o.n /\ u.lsz = o.lsz
    BY <1>2 DEF Ops
  <2> HIDE DEF u, T
  <2>5. pc'[p] = "alloc" /\ op'[p] = u /\ tab'[p] = T /\ sz'[p] = sz[p] /\ ones'[p] = ones[p]
        /\ next'[p] = next[p] /\ base'[p] = base[p]
    BY <1>4, <2>2 DEF Goto, Calm, Types
  <2>6. Locals(p)'
    <3>1. o.ret = "split" => /\ o.i < next[p] /\ o.i >= 0 /\ o.n + SUPERPGSIZE > 0 /\ o.n < 0
                             /\ o.lsz + SUPERPGSIZE <= LIMIT
      BY <1>1, Own DEF Locals, Shrinking
    <3> QED
      BY <1>2, <2>4, <2>5, <3>1 DEF Locals, Shrinking, Forking
  <2>7. ASSUME o.ret = "grow"
        PROVE  /\ Whole(o.old) /\ Whole(u.a) /\ PageOf(u.a) = y + 1
               /\ Span(T, o.was, PageOf(o.old), PageOf(u.a))
    <3>1. Whole(o.old) /\ Whole(o.a) /\ Span(t, o.was, PageOf(o.old), y) /\ o.old \in Nat
      BY <1>1, <2>7, Own DEF Growing
    <3>2. Whole(u.a) /\ PageOf(u.a) = y + 1
      BY <1>2, <2>4, <3>1, WholeNext
    <3>3. PageOf(o.old) \in Nat
      BY <3>1, PageAt
    <3>4. Span(T, o.was, PageOf(o.old), y + 1)
      BY <1>2, <2>0, <2>1, <3>1, <3>3, SpanPage
    <3> QED
      BY <3>1, <3>2, <3>4
  <2>8. Growing(p)'
    BY <2>4, <2>5, <2>7 DEF Growing
  <2>9. Copying(p)' /\ Uncopying(p)'
    BY <2>5 DEF Copying, Uncopying
  <2>10. Tidiness(p)'
    <3> SUFFICES ASSUME Tidy(p)' PROVE Tidiness(p)'
      BY DEF Tidiness
    <3>1. Tidy(p)
      BY <2>5 DEF Tidy
    <3> DEFINE b == PageOf(base[p])
               x == PageOf(sz[p])
    <3>2. /\ base[p] \in Nat /\ Whole(base[p]) /\ o.ret = "grow" /\ Whole(o.end) /\ o.old = sz[p]
          /\ o.was = 0 .. x - 1 /\ Recorded(t, b, x, next[p], ones[p])
          /\ Appended(t, b, x, y, next[p], o)
          /\ o.ends > 0 => PageOf(o.end) - y < K
          /\ o.supers > 0 /\ o.ends = 0 => y = r * K
      BY <1>1, <3>1, Own DEF Tidiness
    <3>3. x <= y /\ Whole(o.a) /\ Whole(sz[p]) /\ x \in Nat /\ b \in Nat
      <4>1. x <= y /\ Whole(o.a) /\ Whole(sz[p])
        BY <1>1, <3>1, FreshAddress
      <4>2. sz[p] \in Nat
        BY Own
      <4> QED
        BY <3>2, <4>1, <4>2, PageAt
    <3>4. o.ends \in Nat /\ o.starts \in Nat /\ o.supers \in Nat /\ next[p] \in Int
      BY Own
    <3>5. o.supers > 0 => PageOf(o.end) - y < K
      <4> SUFFICES ASSUME o.supers > 0, o.ends = 0 PROVE PageOf(o.end) - y < K
        BY <3>2, <3>4
      <4>1. o.a % SUPERPGSIZE = 0
        BY <1>2, <3>2, <3>3, Aligned
      <4>2. ~(o.end - o.a >= SUPERPGSIZE)
        BY <1>1, <4>1 DEF WantSuper
      <4>3. ~(PageOf(o.end) - y >= K) /\ PageOf(o.end) \in Nat
        BY <1>2, <3>2, <3>3, <4>2, WholeOrder, PageAt
      <4> QED
        BY <1>2, <4>3, Sizes
    <3>6. u.a \in Nat /\ Whole(u.a) /\ PageOf(u.a) = y + 1 /\ u.a <= u.end /\ PageOf(o.end) \in Nat
      <4>1. u.a \in Nat
        BY <1>2, <2>4, Sizes
      <4>2. Whole(u.a) /\ PageOf(u.a) = y + 1
        BY <2>7, <3>2
      <4>3. y < PageOf(o.end) /\ PageOf(o.end) \in Nat
        BY <1>1, <1>2, <3>2, <3>3, WholeOrder, PageAt
      <4>4. PageOf(u.a) <= PageOf(o.end)
        BY <1>2, <4>2, <4>3
      <4> QED
        BY <1>2, <2>4, <3>2, <4>1, <4>2, <4>3, <4>4, WholeOrder
    <3> HIDE DEF b, x, y
    <3>7. b <= x
      BY <3>2 DEF Recorded
    <3>8. /\ Count(T, b, y + 1) = Count(t, b, y) + 1
          /\ Positions(T, b, x, y + 1) = Positions(t, b, x, y)
          /\ Recorded(T, b, x, next[p], ones[p])
      BY SMTT(30), <1>2, <2>0, <2>1, <3>2, <3>3, <3>7, AppendPage
    <3>9. Appended(T, b, x, y + 1, next[p], u)
      <4>1. /\ Count(t, b, y) = next[p] + o.starts + o.supers + o.ends
            /\ Positions(t, b, x, y) = (next[p] + o.starts) .. (next[p] + o.starts + o.supers - 1)
            /\ o.supers = 0 => o.ends = 0
        BY <3>2 DEF Appended
      <4>2. Count(T, b, y + 1) = next[p] + u.starts + u.supers + u.ends
        <5>1. CASE o.supers = 0
          BY <2>4, <3>4, <3>8, <4>1, <5>1
        <5>2. CASE o.supers # 0
          <6>1. u.starts = o.starts /\ u.ends = o.ends + 1 /\ u.supers = o.supers
            BY <2>4, <5>2
          <6>2. Count(T, b, y + 1) = (next[p] + o.starts + o.supers + o.ends) + 1
            BY <3>8, <4>1
          <6> QED
            BY <3>4, <6>1, <6>2
        <5> QED
          BY <5>1, <5>2
      <4>3. (next[p] + o.starts) .. (next[p] + o.starts + o.supers - 1)
              = (next[p] + u.starts) .. (next[p] + u.starts + u.supers - 1)
        <5>1. CASE o.supers = 0
          <6>1. (next[p] + o.starts) .. (next[p] + o.starts + 0 - 1) = {}
                /\ (next[p] + o.starts + 1) .. (next[p] + (o.starts + 1) + 0 - 1) = {}
            BY <3>4
          <6> QED
            BY <2>4, <3>4, <5>1, <6>1
        <5>2. CASE o.supers # 0
          BY <2>4, <5>2
        <5> QED
          BY <5>1, <5>2
      <4>4. u.supers = 0 => u.ends = 0
        BY <2>4, <4>1
      <4> QED
        BY <3>8, <4>1, <4>2, <4>3, <4>4 DEF Appended
    <3>10. u.ends > 0 => PageOf(o.end) - (y + 1) < K
      <4>1. CASE o.supers = 0
        BY <2>4, <3>2, <3>4, <4>1 DEF Appended
      <4>2. CASE o.supers > 0
        BY <1>2, <3>5, <3>6, <4>2, Sizes DEF y
      <4> QED
        BY <3>4, <4>1, <4>2
    <3>11. u.supers > 0 => u.ends # 0
      BY <2>4, <3>4
    <3>12. ~Shrinking(p)' /\ ~Forking(p)'
      BY <2>4, <2>5, <3>2 DEF Shrinking, Forking
    <3>13. PageOf(base[p])' = b /\ PageOf(sz[p])' = x
      BY <2>5 DEF b, x
    <3> QED
      BY <2>4, <2>5, <3>2, <3>3, <3>6, <3>8, <3>9, <3>10, <3>11, <3>12, <3>13 DEF Tidiness
  <2>11. Sound(p)'
    BY <2>6, <2>8, <2>9, <2>10 DEF Sound
  <2>12. /\ superfree \in Nat /\ free \in Nat /\ superfree' = superfree /\ free' = free - cost
         /\ superfree' \in Nat /\ free' \in Nat /\ cost \in Nat
    <3>1. superfree \in Nat /\ free \in Nat
      BY DEF Calm, Types
    <3>2. superfree' = superfree /\ free' = free - cost
      BY <1>4 DEF kalloc
    <3>3. cost \in Nat
      BY <2>0
    <3> HIDE DEF cost
    <3> QED
      BY <1>1, <3>1, <3>2, <3>3
  <2>13. /\ Cardinality(T.small) + Cardinality(T.l0) = Cardinality(t.small) + Cardinality(t.l0) + cost
         /\ Cardinality(T.super) = Cardinality(t.super)
         /\ Cardinality(t.small) \in Nat /\ Cardinality(t.l0) \in Nat
         /\ Cardinality(T.small) \in Nat /\ Cardinality(T.l0) \in Nat
    <3>1. /\ Cardinality(T.small) + Cardinality(T.l0)
               = Cardinality(t.small) + Cardinality(t.l0) + (IF r \in t.l0 THEN 1 ELSE 2)
          /\ Cardinality(T.super) = Cardinality(t.super)
          /\ Cardinality(t.small) \in Nat /\ Cardinality(t.l0) \in Nat
          /\ Cardinality(T.small) \in Nat /\ Cardinality(T.l0) \in Nat
      <4> HIDE DEF t, r, y
      <4> QED
        BY ONLY <1>2, <2>0, <2>1, AddedPage
    <3> HIDE DEF cost
    <3> QED
      BY <2>0, <3>1
  <2> HIDE DEF cost
  <2>14. free' + Cardinality(T.small) + Cardinality(T.l0) = free + Cardinality(t.small) + Cardinality(t.l0)
    BY <2>12, <2>13
  <2>15. superfree' + Cardinality(T.super) = superfree + Cardinality(t.super)
    BY <2>12, <2>13
  <2>16. Calm' /\ Accounts'
    BY <1>1, <1>4, <2>1, <2>2, <2>3, <2>4, <2>11, <2>12, <2>14, <2>15, TableStep DEF PCs
  <2>17. halt' = "no"
    BY <1>4
  <2> QED
    BY <2>16, <2>17, Runs
<1> QED
  BY <1>3, <1>4 DEF AllocPage

-----------------------------------------------------------------------------
(* One turn of uvmunmap.                                                   *)

\* T is t without the superpage or the page at a, and the next address is n.
Drops(t, T, a, n) ==
    \/ /\ RegionOf(a) \in t.super
       /\ T.super = t.super \ {RegionOf(a)} /\ T.small = t.small /\ n = a + SUPERPGSIZE
    \/ /\ RegionOf(a) \notin t.super
       /\ T.small = t.small \ {PageOf(a)} /\ T.super = t.super /\ n = a + PGSIZE

LEMMA UnmapAdvance ==
    ASSUME NEW t, Shape(t), NEW T, Shape(T), NEW a \in Nat, Whole(a), NEW kept, NEW e \in Nat,
           Span(t, kept, PageOf(a), e), PageOf(a) < e, NEW n, Drops(t, T, a, n)
    PROVE  /\ n \in Nat /\ Whole(n) /\ Span(T, kept, PageOf(n), e) /\ PageOf(a) <= PageOf(n)
           /\ \A v \in Nat : v < PageOf(a) => (v \in t.small <=> v \in T.small)
           /\ \A q \in Nat : q * K < PageOf(a) => (q \in t.super <=> q \in T.super)
<1> DEFINE x == PageOf(a)
           r == RegionOf(a)
<1>1. x \in Nat /\ r = x \div K /\ r \in Nat
  BY PageAt, RegionPage
<1>2. CASE r \in t.super /\ T.super = t.super \ {r} /\ T.small = t.small /\ n = a + SUPERPGSIZE
  <2>1. r * K = x /\ Span(T, kept, x + K, e)
    BY <1>1, <1>2, SpanDrop
  <2>2. Whole(n) /\ PageOf(n) = x + K
    BY <1>2, WholeNext
  <2>3. n \in Nat /\ x <= x + K
    BY <1>1, <1>2, Sizes
  <2>4. \A q \in Nat : q * K < x => q # r
    BY <1>1, <2>1
  <2> QED
    BY <1>2, <2>1, <2>2, <2>3, <2>4
<1>3. CASE r \notin t.super /\ T.small = t.small \ {x} /\ T.super = t.super /\ n = a + PGSIZE
  <2>1. Span(T, kept, x + 1, e)
    BY <1>1, <1>3, SpanDrop
  <2>2. Whole(n) /\ PageOf(n) = x + 1
    BY <1>3, WholeNext
  <2>3. n \in Nat /\ x <= x + 1
    BY <1>1, <1>3, Sizes
  <2>4. \A v \in Nat : v < x => v # x
    BY <1>1
  <2> QED
    BY <1>3, <2>1, <2>2, <2>3, <2>4
<1> QED
  BY <1>2, <1>3 DEF Drops

\* A tidy process unmaps pages that are there.
LEMMA UnmapFinds ==
    ASSUME Calm, NEW p \in Procs, pc[p] = "unmap", op[p].a < op[p].end, op[p].ret # "fork", Tidy(p)
    PROVE  LET o == op[p] IN
           /\ Whole(o.a) /\ Whole(o.end) /\ PageOf(o.a) < PageOf(o.end)
           /\ \E kept : Span(tab[p], kept, PageOf(o.a), PageOf(o.end))
           /\ PageOf(o.a) \in Mapped(tab[p])
<1> DEFINE o == op[p]
<1>1. o.ret \in {"failed", "split", "lost", "shrink", "exec", "exit"} /\ o.a \in Nat /\ o.end \in Nat
  BY Own DEF Locals, Rets
<1>2. o.ret \notin {"split", "lost"}
  BY NoSplit DEF Shrinking
<1>3. Whole(o.a) /\ Whole(o.end) /\ \E kept : Span(tab[p], kept, PageOf(o.a), PageOf(o.end))
  <2>1. CASE o.ret = "failed"
    BY <2>1, Own DEF Growing
  <2>2. CASE o.ret = "shrink"
    BY <2>2, Own DEF Tidiness
  <2>3. CASE o.ret \in {"exec", "exit"}
    BY <2>3, Own DEF Tidiness
  <2> QED
    BY <1>1, <1>2, <2>1, <2>2, <2>3
<1>4. PageOf(o.a) < PageOf(o.end) /\ PageOf(o.a) \in Nat /\ PageOf(o.end) \in Nat
  BY <1>1, <1>3, WholeOrder, PageAt
<1>5. PageOf(o.a) \in Mapped(tab[p])
  <2>1. PageOf(o.a) \in PageOf(o.a) .. PageOf(o.end) - 1
    BY <1>4
  <2> QED
    BY <1>3, <2>1 DEF Span
<1> QED
  BY <1>3, <1>4, <1>5

\* The failed fork meets the superpage that it did not copy.
LEMMA UncopyEnd ==
    ASSUME Calm, NEW p \in Procs, pc[p] = "unmap", op[p].ret = "fork", op[p].a < op[p].end
    PROVE  LET o == op[p] IN
           \/ PageOf(o.a) \in Mapped(tab[o.child])
           \/ RegionOf(o.a) \in tab[p].super /\ Mapped(tab[o.child]) = {}
<1> DEFINE o == op[p]
           y == PageOf(o.a)
<1>1. PICK x \in Nat : /\ Span(tab[o.child], {}, y, x)
                       /\ x = PageOf(o.end) \/ (x < PageOf(o.end) /\ x \div K \in tab[p].super)
  BY Own DEF Uncopying
<1>2. o.a \in Nat /\ o.end \in Nat /\ Whole(o.a) /\ Whole(o.end)
  BY Own DEF Uncopying
<1>3. y \in Nat /\ y < PageOf(o.end) /\ PageOf(o.end) \in Nat /\ RegionOf(o.a) = y \div K
  BY <1>2, WholeOrder, PageAt, RegionPage
<1> HIDE DEF y
<1>4. CASE y < x
  <2>1. y \in y .. x - 1
    BY <1>3, <1>4
  <2> QED
    BY <1>1, <2>1 DEF Span, y
<1>5. CASE y = x
  <2>1. x # PageOf(o.end)
    BY <1>3, <1>5
  <2>2. Mapped(tab[o.child]) = {}
    BY <1>1, <1>3, <1>5, SpanEmpty
  <2> QED
    BY <1>1, <1>3, <1>5, <2>1, <2>2
<1>6. y <= x
  BY <1>1 DEF Span
<1> QED
  BY <1>3, <1>4, <1>5, <1>6

\* The invariant of the acting process, after either kind of turn.
LEMMA UnmapSound ==
    ASSUME Calm, NEW p \in Procs, NEW c \in Procs, c = Target(p), pc[p] = "unmap", op[p].a < op[p].end,
           NEW T, Shape(T), NEW u, u = [op[p] EXCEPT !.a = u.a], Drops(tab[c], T, op[p].a, u.a),
           PageOf(op[p].a) \in Mapped(tab[c]),
           Goto(p, "unmap", u), tab' = [tab EXCEPT ![c] = T], UNCHANGED <<sz, ones, next, base>>
    PROVE  Sound(p)'
<1> DEFINE o == op[p]
           t == tab[c]
           y == PageOf(o.a)
<1>1. /\ o \in Ops /\ o.a \in Nat /\ o.end \in Nat /\ Shape(t) /\ t \in Tables /\ y \in Nat /\ PageOf(o.end) \in Nat
  <2>1. o \in Ops /\ o.a \in Nat /\ o.end \in Nat /\ Shape(t) /\ t \in Tables
    BY Own
  <2> QED
    BY <2>1, PageAt
<1>2. /\ u.end = o.end /\ u.was = o.was /\ u.ret = o.ret /\ u.child = o.child
      /\ u.i = o.i /\ u.n = o.n /\ u.lsz = o.lsz
  BY <1>1 DEF Ops
<1>3. pc'[p] = "unmap" /\ op'[p] = u /\ tab'[c] = T /\ sz'[p] = sz[p] /\ ones'[p] = ones[p]
      /\ next'[p] = next[p] /\ base'[p] = base[p] /\ (c # p => tab'[p] = tab[p])
  BY DEF Goto, Calm, Types
<1>4. /\ o.ret = "fork" => c = o.child /\ c # p
      /\ o.ret # "fork" => c = p
  <2>1. o.ret = "fork" => Forking(p)
    BY DEF Forking
  <2> QED
    BY <2>1, Kin, SuperAssumption DEF Target
<1>5. Locals(p)'
  BY <1>2, <1>3, Own DEF Locals, Shrinking, Forking
<1>6. ASSUME o.ret # "fork", Whole(o.a), Whole(o.end), NEW kept, Span(tab[p], kept, y, PageOf(o.end))
      PROVE  /\ Whole(u.a) /\ Span(T, kept, PageOf(u.a), PageOf(u.end)) /\ y <= PageOf(u.a)
             /\ \A v \in Nat : v < y => (v \in t.small <=> v \in T.small)
             /\ \A q \in Nat : q * K < y => (q \in t.super <=> q \in T.super)
  <2>1. y < PageOf(o.end)
    BY <1>1, <1>6, WholeOrder
  <2> QED
    BY <1>1, <1>2, <1>4, <1>6, <2>1, UnmapAdvance
<1>7. Growing(p)'
  <2>1. ASSUME o.ret = "failed"
        PROVE  Whole(u.a) /\ Whole(u.end) /\ Span(T, u.was, PageOf(u.a), PageOf(u.end))
    <3>1. Whole(o.a) /\ Whole(o.end) /\ Span(tab[p], o.was, y, PageOf(o.end))
      BY <2>1, Own DEF Growing
    <3> QED
      BY <1>2, <1>6, <2>1, <3>1
  <2> QED
    BY <1>2, <1>3, <1>4, <2>1 DEF Growing
<1>8. Copying(p)'
  BY <1>3 DEF Copying
<1>9. Uncopying(p)'
  <2>1. ASSUME o.ret = "fork"
        PROVE  /\ Whole(u.a) /\ Whole(u.end)
               /\ \E x \in Nat :
                     /\ Span(T, {}, PageOf(u.a), x)
                     /\ x = PageOf(u.end) \/ (x < PageOf(u.end) /\ x \div K \in tab[p].super)
    <3>1. Whole(o.a) /\ Whole(o.end)
      BY <2>1, Own DEF Uncopying
    <3>2. PICK x \in Nat : /\ Span(tab[o.child], {}, y, x)
                           /\ x = PageOf(o.end) \/ (x < PageOf(o.end) /\ x \div K \in tab[p].super)
      BY <2>1, Own DEF Uncopying
    <3>3. Span(t, {}, y, x)
      BY <1>4, <2>1, <3>2
    <3>4. y < x
      <4>1. y \in y .. x - 1
        BY <3>3 DEF Span
      <4> QED
        BY <1>1, <4>1
    <3>5. Whole(u.a) /\ Span(T, {}, PageOf(u.a), x)
      BY <1>1, <3>1, <3>3, <3>4, UnmapAdvance
    <3> QED
      BY <1>2, <3>1, <3>2, <3>5
  <2> QED
    BY <1>2, <1>3, <1>4, <2>1 DEF Uncopying
<1>10. Tidiness(p)'
  <2> SUFFICES ASSUME Tidy(p)' PROVE Tidiness(p)'
    BY DEF Tidiness
  <2>1. Tidy(p)
    BY <1>3 DEF Tidy
  <2>2. base[p] \in Nat /\ Whole(base[p])
    BY <2>1, Own DEF Tidiness
  <2>3. Shrinking(p)' = Shrinking(p) /\ Forking(p)' = Forking(p)
    BY <1>2, <1>3 DEF Shrinking, Forking
  <2>4. ~Shrinking(p) => Whole(sz[p])
    BY <2>1, Own DEF Tidiness
  <2> DEFINE b == PageOf(base[p])
             top == PageOf(sz[p])
  <2>5. b \in Nat /\ top \in Nat
    <3>1. sz[p] \in Nat
      BY Own
    <3> QED
      BY <2>2, <3>1, PageAt
  <2>6. CASE o.ret = "fork"
    <3>1. Forking(p) /\ ~Shrinking(p)
      BY <2>6 DEF Forking, Shrinking
    <3>2. Span(tab[p], {}, 0, top) /\ Recorded(tab[p], b, top, next[p], ones[p])
      BY <2>1, <3>1, Own DEF Tidiness
    <3>3. tab'[p] = tab[p] /\ PageOf(base[p])' = b /\ PageOf(sz[p])' = top
      BY <1>3, <1>4, <2>6
    <3> HIDE DEF b, top
    <3> QED
      BY <1>2, <1>3, <2>2, <2>3, <2>4, <2>6, <3>1, <3>2, <3>3 DEF Tidiness
  <2>7. CASE o.ret = "failed"
    <3>1. ~Forking(p) /\ ~Shrinking(p)
      BY <2>7 DEF Forking, Shrinking
    <3>2. /\ o.was = 0 .. top - 1 /\ top <= y /\ Recorded(tab[p], b, top, next[p], ones[p])
          /\ Whole(o.a) /\ Whole(o.end) /\ Span(tab[p], o.was, y, PageOf(o.end))
      BY <2>1, <2>7, Own DEF Tidiness, Growing
    <3>3. /\ Whole(u.a) /\ y <= PageOf(u.a) /\ PageOf(u.a) \in Nat
          /\ \A v \in Nat : v < y => (v \in t.small <=> v \in T.small)
          /\ \A q \in Nat : q * K < y => (q \in t.super <=> q \in T.super)
      <4>1. u.a \in Nat
        BY <1>1, Sizes DEF Drops
      <4> QED
        BY <1>6, <2>7, <3>2, <4>1, PageAt
    <3>4. top <= PageOf(u.a)
      BY <1>1, <2>5, <3>2, <3>3
    <3>5. Recorded(T, b, top, next[p], ones[p])
      <4>1. \A q \in Nat : q * K \in Nat
        BY SuperStart
      <4>2. \A v \in Nat : v < top => (v \in t.small <=> v \in T.small)
        BY <1>1, <2>5, <3>2, <3>3
      <4>3. \A q \in Nat : q * K < top => (q \in t.super <=> q \in T.super)
        BY <1>1, <2>5, <3>2, <3>3, <4>1
      <4>4. Recorded(t, b, top, next[p], ones[p]) /\ T \in Tables
        BY <1>4, <2>7, <3>2 DEF Shape
      <4> QED
        BY <1>1, <2>5, <4>2, <4>3, <4>4, CountAgrees
    <3>6. tab'[p] = T /\ PageOf(base[p])' = b /\ PageOf(sz[p])' = top
      BY <1>3, <1>4, <2>7
    <3> HIDE DEF b, top
    <3> QED
      BY <1>2, <1>3, <2>2, <2>3, <2>4, <2>7, <3>1, <3>2, <3>4, <3>5, <3>6 DEF Tidiness
  <2>8. CASE o.ret = "shrink"
    <3>1. ~Forking(p) /\ Shrinking(p)
      BY <2>8 DEF Forking, Shrinking
    <3> DEFINE l == PageOf(o.lsz)
    <3>2. /\ Whole(o.lsz) /\ base[p] <= Goal(o) /\ Whole(Goal(o)) /\ Uncut(tab[p], PageOf(Goal(o)))
          /\ o.n <= 0 /\ Whole(o.a) /\ Whole(o.end) /\ l <= y
          /\ Span(tab[p], 0 .. l - 1, y, PageOf(o.end))
          /\ Recorded(tab[p], b, l, o.i, ones[p])
      BY <2>1, <2>8, <3>1, Own DEF Tidiness
    <3>a. l \in Nat
      <4>1. o.lsz \in Nat
        BY Own
      <4> QED
        BY <4>1, PageAt
    <3>3. /\ Whole(u.a) /\ y <= PageOf(u.a) /\ PageOf(u.a) \in Nat
          /\ Span(T, 0 .. l - 1, PageOf(u.a), PageOf(u.end))
          /\ \A v \in Nat : v < y => (v \in t.small <=> v \in T.small)
          /\ \A q \in Nat : q * K < y => (q \in t.super <=> q \in T.super)
      <4>1. u.a \in Nat
        BY <1>1, Sizes DEF Drops
      <4> QED
        BY <1>6, <2>8, <3>2, <4>1, PageAt
    <3>4. l <= PageOf(u.a)
      BY <1>1, <3>a, <3>2, <3>3
    <3>5. Recorded(T, b, l, o.i, ones[p])
      <4>1. \A q \in Nat : q * K \in Nat
        BY SuperStart
      <4>2. \A v \in Nat : v < l => (v \in t.small <=> v \in T.small)
        BY <1>1, <3>a, <3>2, <3>3
      <4>3. \A q \in Nat : q * K < l => (q \in t.super <=> q \in T.super)
        BY <1>1, <3>a, <3>2, <3>3, <4>1
      <4>4. Recorded(t, b, l, o.i, ones[p]) /\ T \in Tables
        BY <1>4, <2>8, <3>2 DEF Shape
      <4> QED
        BY <1>1, <2>5, <3>a, <4>2, <4>3, <4>4, CountAgrees
    <3>6. tab'[p] = T /\ PageOf(base[p])' = b /\ Goal(u) = Goal(o)
      BY <1>2, <1>3, <1>4, <2>8 DEF Goal
    <3>7. Uncut(T, PageOf(Goal(o)))
      <4>1. T.super \subseteq tab[p].super
        BY <1>4, <2>8 DEF Drops
      <4> QED
        BY <3>2, <4>1 DEF Uncut
    <3> HIDE DEF b, l
    <3>8. PageOf(u.lsz) = l
      BY <1>2 DEF l
    <3> QED
      BY <1>2, <1>3, <2>2, <2>3, <2>8, <3>1, <3>2, <3>3, <3>4, <3>5, <3>6, <3>7, <3>8 DEF Tidiness
  <2>9. CASE o.ret \in {"exec", "exit"}
    <3>1. ~Forking(p) /\ ~Shrinking(p)
      BY <2>9 DEF Forking, Shrinking
    <3>2. Whole(o.a) /\ Whole(o.end) /\ Span(tab[p], {}, y, PageOf(o.end))
      BY <2>1, <2>9, Own DEF Tidiness
    <3>3. Whole(u.a) /\ Span(T, {}, PageOf(u.a), PageOf(u.end))
      BY <1>6, <2>9, <3>2
    <3>4. tab'[p] = T
      BY <1>3, <1>4, <2>9
    <3> QED
      BY <1>2, <1>3, <2>2, <2>3, <2>4, <2>9, <3>1, <3>2, <3>3, <3>4 DEF Tidiness
  <2>10. o.ret \in {"failed", "shrink", "fork", "exec", "exit"}
    <3>1. o.ret \in Rets \ {"none", "grow"}
      BY Own DEF Locals
    <3>2. o.ret \notin {"split", "lost"}
      BY <2>1, NoSplit DEF Shrinking
    <3> QED
      BY <3>1, <3>2 DEF Rets
  <2> QED
    BY <2>6, <2>7, <2>8, <2>9, <2>10
<1> QED
  BY <1>5, <1>7, <1>8, <1>9, <1>10 DEF Sound

\* Who is unmapped: the process itself, or its child.
LEMMA TargetIs ==
    ASSUME Calm, NEW p \in Procs, pc[p] = "unmap"
    PROVE  Target(p) \in Procs /\ (Target(p) = p \/ Target(p) = op[p].child)
<1>1. op[p].ret = "fork" => Forking(p)
  BY DEF Forking
<1> QED
  BY <1>1, Kin DEF Target

\* The accounts of a turn that releases a superpage, and of one that releases a page.
LEMMA DroppedSuper ==
    ASSUME NEW t, Shape(t), NEW T, NEW r \in t.super,
           T.super = t.super \ {r}, T.small = t.small, T.l0 = t.l0
    PROVE  /\ Cardinality(T.super) = Cardinality(t.super) - 1 /\ Cardinality(t.super) \in Nat
           /\ Cardinality(T.small) = Cardinality(t.small) /\ Cardinality(T.l0) = Cardinality(t.l0)
           /\ Cardinality(t.small) \in Nat /\ Cardinality(t.l0) \in Nat
<1>1. IsFiniteSet(t.super) /\ IsFiniteSet(t.small) /\ IsFiniteSet(t.l0)
  BY Finite DEF Shape
<1>2. Cardinality(T.super) = Cardinality(t.super) - 1
  BY <1>1, FS_RemoveElement
<1> QED
  BY <1>1, <1>2, FS_CardinalityType

LEMMA DroppedPage ==
    ASSUME NEW t, Shape(t), NEW T, NEW v \in t.small,
           T.super = t.super, T.small = t.small \ {v}, T.l0 = t.l0
    PROVE  /\ Cardinality(T.small) = Cardinality(t.small) - 1 /\ Cardinality(t.super) \in Nat
           /\ Cardinality(T.super) = Cardinality(t.super) /\ Cardinality(T.l0) = Cardinality(t.l0)
           /\ Cardinality(t.small) \in Nat /\ Cardinality(t.l0) \in Nat
<1>1. IsFiniteSet(t.super) /\ IsFiniteSet(t.small) /\ IsFiniteSet(t.l0)
  BY Finite DEF Shape
<1>2. Cardinality(T.small) = Cardinality(t.small) - 1
  BY <1>1, FS_RemoveElement
<1> QED
  BY <1>1, <1>2, FS_CardinalityType

LEMMA UnmapStepStep ==
    ASSUME Calm, Accounts, halt = "no", NEW p \in Procs, UnmapStep(p), UNCHANGED base
    PROVE  Calm' /\ Accounts' /\ TidyPanics'
<1> DEFINE o == op[p]
<1>1. pc[p] = "unmap" /\ o.a < o.end
  BY DEF UnmapStep
<1>2. PICK c \in Procs : c = Target(p) /\ (c = p \/ c = op[p].child)
  BY <1>1, TargetIs
<1> DEFINE t == tab[c]
           w == walk(t, o.a)
           r == RegionOf(o.a)
           y == PageOf(o.a)
<1>3. o \in Ops /\ o.a \in Nat /\ Shape(t) /\ free \in Nat /\ superfree \in Nat
      /\ tab \in [Procs -> Tables] /\ t \in Tables
  BY Own DEF Calm, Types
<1>4. ASSUME NEW k \in Nat PROVE [o EXCEPT !.a = @ + k] \in Ops /\ [o EXCEPT !.a = @ + k].a = o.a + k
             /\ [o EXCEPT !.a = @ + k].ret = o.ret /\ [o EXCEPT !.a = @ + k].child = o.child
  <2>1. o.a + k \in Nat
    BY <1>3
  <2> HIDE DEF o
  <2> QED
    BY <1>3, <2>1 DEF Ops
<1>5. CASE /\ w = "super" /\ tab' = [tab EXCEPT ![c].super = @ \ {r}] /\ superkfree
           /\ Goto(p, "unmap", [o EXCEPT !.a = @ + UnmapInc(w)])
           /\ UNCHANGED <<sz, ones, next, halt>>
  <2> DEFINE T == [t EXCEPT !.super = @ \ {r}]
             u == [o EXCEPT !.a = @ + SUPERPGSIZE]
  <2>1. tab' = [tab EXCEPT ![c] = T] /\ Goto(p, "unmap", u)
    BY <1>3, <1>5 DEF UnmapInc
  <2>2. Shape(T) /\ T.small = t.small /\ T.super = t.super \ {r} /\ T.l0 = t.l0
    BY <1>3, DropShape
  <2>3. r \in t.super /\ y \in Mapped(t)
    BY <1>3, <1>5, WalkFinds
  <2>4. u \in Ops /\ u.a = o.a + SUPERPGSIZE /\ u.ret = o.ret /\ u.child = o.child
    BY <1>4, Sizes
  <2>5. u = [o EXCEPT !.a = u.a]
    BY <1>3, <2>4 DEF Ops
  <2> HIDE DEF u, T
  <2>6. Drops(t, T, o.a, u.a)
    BY <2>2, <2>3, <2>4 DEF Drops
  <2>7. Sound(p)'
    BY <1>1, <1>2, <1>5, <2>1, <2>2, <2>3, <2>5, <2>6, UnmapSound
  <2>8. superfree' = superfree + 1 /\ free' = free
    BY <1>5 DEF superkfree
  <2>9. /\ Cardinality(T.super) = Cardinality(t.super) - 1 /\ Cardinality(t.super) \in Nat
        /\ Cardinality(T.small) = Cardinality(t.small) /\ Cardinality(T.l0) = Cardinality(t.l0)
        /\ Cardinality(t.small) \in Nat /\ Cardinality(t.l0) \in Nat
    BY <1>3, <2>2, <2>3, DroppedSuper
  <2>10. /\ free' + Cardinality(T.small) + Cardinality(T.l0) = free + Cardinality(t.small) + Cardinality(t.l0)
         /\ superfree' + Cardinality(T.super) = superfree + Cardinality(t.super)
         /\ free' \in Nat /\ superfree' \in Nat
    BY <1>3, <2>8, <2>9
  <2>11. UNCHANGED <<sz, ones, next, base>> /\ halt' = "no"
    BY <1>5
  <2>12. Calm' /\ Accounts'
    BY <1>1, <1>2, <2>1, <2>2, <2>4, <2>7, <2>10, <2>11, TableStep DEF PCs
  <2> QED
    BY <2>11, <2>12, Runs
<1>6. CASE /\ w = "page" /\ tab' = [tab EXCEPT ![c].small = @ \ {y}] /\ kfree
           /\ Goto(p, "unmap", [o EXCEPT !.a = @ + UnmapInc(w)])
           /\ UNCHANGED <<sz, ones, next, halt>>
  <2> DEFINE T == [t EXCEPT !.small = @ \ {y}]
             u == [o EXCEPT !.a = @ + PGSIZE]
  <2>1. tab' = [tab EXCEPT ![c] = T] /\ Goto(p, "unmap", u)
    BY <1>3, <1>6 DEF UnmapInc
  <2>2. Shape(T) /\ T.small = t.small \ {y} /\ T.super = t.super /\ T.l0 = t.l0
    BY <1>3, DropShape
  <2>3. r \notin t.super /\ y \in t.small /\ y \in Mapped(t)
    BY <1>3, <1>6, WalkFinds
  <2>4. u \in Ops /\ u.a = o.a + PGSIZE /\ u.ret = o.ret /\ u.child = o.child
    BY <1>4, Sizes
  <2>5. u = [o EXCEPT !.a = u.a]
    BY <1>3, <2>4 DEF Ops
  <2> HIDE DEF u, T
  <2>6. Drops(t, T, o.a, u.a)
    BY <2>2, <2>3, <2>4 DEF Drops
  <2>7. Sound(p)'
    BY <1>1, <1>2, <1>6, <2>1, <2>2, <2>3, <2>5, <2>6, UnmapSound
  <2>8. superfree' = superfree /\ free' = free + 1
    BY <1>6 DEF kfree
  <2>9. /\ Cardinality(T.small) = Cardinality(t.small) - 1 /\ Cardinality(t.super) \in Nat
        /\ Cardinality(T.super) = Cardinality(t.super) /\ Cardinality(T.l0) = Cardinality(t.l0)
        /\ Cardinality(t.small) \in Nat /\ Cardinality(t.l0) \in Nat
    BY <1>3, <2>2, <2>3, DroppedPage
  <2>10. /\ free' + Cardinality(T.small) + Cardinality(T.l0) = free + Cardinality(t.small) + Cardinality(t.l0)
         /\ superfree' + Cardinality(T.super) = superfree + Cardinality(t.super)
         /\ free' \in Nat /\ superfree' \in Nat
    BY <1>3, <2>8, <2>9
  <2>11. UNCHANGED <<sz, ones, next, base>> /\ halt' = "no"
    BY <1>6
  <2>12. Calm' /\ Accounts'
    BY <1>1, <1>2, <2>1, <2>2, <2>4, <2>7, <2>10, <2>11, TableStep DEF PCs
  <2> QED
    BY <2>11, <2>12, Runs
<1>7. CASE w \in {"none", "empty"} /\ Panic("unmap")
  <2>1. Calm' /\ Accounts' /\ halt' = "unmap" /\ base' = base /\ tab' = tab /\ op' = op /\ pc' = pc
    BY <1>7, Stops DEF Panic
  <2>2. y \notin Mapped(t)
    BY <1>3, <1>7, WalkFinds
  <2>3. CASE o.ret = "fork"
    <3>1. c = o.child
      BY <1>2, <2>3 DEF Target
    <3>2. RegionOf(o.a) \in tab[p].super /\ Mapped(tab[o.child]) = {}
      BY <1>1, <2>2, <2>3, <3>1, UncopyEnd
    <3>3. walk(tab[p], op[p].a) = "super"
      BY <1>3, <3>2, WalkFinds, Own
    <3>4. /\ pc'[p] = "unmap" /\ op'[p].ret = "fork" /\ walk(tab[p], op[p].a)' = "super"
          /\ Mapped(tab[op[p].child])' = {}
      BY <1>1, <2>1, <2>3, <3>2, <3>3
    <3>5. TidyPanics'
      BY <2>1, <3>4 DEF TidyPanics
    <3> QED
      BY <2>1, <3>5
  <2>4. CASE o.ret # "fork"
    <3>1. c = p
      BY <1>2, <2>4 DEF Target
    <3>2. ~Tidy(p)
      BY <1>1, <2>2, <2>4, <3>1, UnmapFinds
    <3>3. ~Tidy(p)'
      BY <2>1, <3>2 DEF Tidy
    <3>4. TidyPanics'
      BY <3>3 DEF TidyPanics
    <3> QED
      BY <2>1, <3>4
  <2> QED
    BY <2>3, <2>4
<1> QED
  BY <1>2, <1>5, <1>6, <1>7 DEF UnmapStep

-----------------------------------------------------------------------------
(* Fork.                                                                   *)

LEMMA NoTableIs == Shape(NoTable) /\ Mapped(NoTable) = {}
<1>1. NoTable \in Tables
  BY DEF NoTable, Tables
<1> QED
  BY <1>1 DEF Shape, NoTable, Mapped

\* uvmcopy has not copied anything yet.
LEMMA EmptyCopy ==
    ASSUME NEW t \in Tables, NEW size
    PROVE  CopyOf(NoTable, t, 0, size)
<1>1. Span(NoTable, {}, 0, 0)
  BY NoTableIs, SpanEmpty
<1>2. \A r \in t.super : r \in Nat /\ r * K \in Nat
  BY SuperStart DEF Tables
<1>3. Clear(t, 0, 0)
  BY <1>2 DEF Clear
<1>4. \A v \in t.small : v \in Nat
  BY DEF Tables
<1> QED
  BY <1>1, <1>2, <1>3, <1>4 DEF CopyOf, NoTable

LEMMA ForkStartStep ==
    ASSUME Calm, Accounts, halt = "no", NEW p \in Procs, NEW c \in Procs, ForkStart(p, c), UNCHANGED base
    PROVE  Calm' /\ Accounts' /\ halt' = "no"
<1> DEFINE u == [Idle EXCEPT !.child = c, !.end = sz[p]]
<1>1. /\ pc[p] = "run" /\ pc[c] = "unused" /\ free >= HEAD /\ p # c
      /\ pc' = [pc EXCEPT ![p] = "copy", ![c] = "embryo"] /\ op' = [op EXCEPT ![p] = u]
      /\ free' = free - HEAD /\ UNCHANGED <<tab, sz, ones, next, superfree, halt>>
  BY DEF ForkStart
<1>2. sz[p] \in Nat /\ tab[p] \in Tables /\ op[p] = Idle /\ op[c] = Idle /\ next[c] = 0 /\ tab[c] = NoTable
  BY <1>1, Own DEF Locals
<1>3. u \in Ops
  <2>1. ASSUME NEW r \in Ops, NEW n \in Nat PROVE [r EXCEPT !.child = c, !.end = n] \in Ops
    BY DEF Ops
  <2> QED
    BY <1>2, <2>1, IdleOp
<1>4. u.child = c /\ u.end = sz[p] /\ u.a = 0 /\ u.ret = "none" /\ u.supers = 0 /\ c # NULL
  BY SuperAssumption DEF Idle
<1> HIDE DEF u
<1>5. /\ pc'[p] = "copy" /\ pc'[c] = "embryo" /\ op'[p] = u /\ op'[c] = Idle /\ tab'[c] = NoTable
      /\ pc' \in [Procs -> PCs] /\ op' \in [Procs -> Ops]
      /\ \A q \in Procs \ {p, c} : pc'[q] = pc[q] /\ op'[q] = op[q]
  BY <1>1, <1>2, <1>3 DEF Calm, Types, PCs
<1>6. Types'
  <2>1. free' \in Nat
    BY <1>1, SuperAssumption DEF Calm, Types
  <2> QED
    BY <1>1, <1>5, <2>1 DEF Calm, Types
<1>7. Sound(p)'
  <2>1. ~Shrinking(p)' /\ Forking(p)'
    BY <1>5 DEF Shrinking, Forking
  <2>2. Locals(p)'
    BY <1>1, <1>4, <1>5, <2>1 DEF Locals
  <2>3. Growing(p)' /\ Uncopying(p)'
    BY <1>5 DEF Growing, Uncopying
  <2>4. Copying(p)'
    <3>1. CopyOf(NoTable, tab[p], 0, sz[p])
      BY <1>2, EmptyCopy
    <3>2. 0 * PGSIZE = 0
      BY Sizes
    <3>3. Whole(0) /\ PageOf(0) = 0
      BY <3>2, PageStart
    <3> QED
      BY <1>1, <1>4, <1>5, <3>1, <3>3 DEF Copying
  <2>5. Tidiness(p)'
    <3> SUFFICES ASSUME Tidy(p)' PROVE Tidiness(p)'
      BY DEF Tidiness
    <3>1. Tidy(p)
      BY DEF Tidy
    <3>2. ~Shrinking(p)
      BY <1>1 DEF Shrinking
    <3>3. /\ base[p] \in Nat /\ Whole(base[p]) /\ Whole(sz[p]) /\ Span(tab[p], {}, 0, PageOf(sz[p]))
          /\ Recorded(tab[p], PageOf(base[p]), PageOf(sz[p]), next[p], ones[p])
      BY <1>1, <3>1, <3>2, Own DEF Tidiness
    <3>4. u.a <= u.end
      BY <1>2, <1>4
    <3> QED
      BY <1>1, <1>5, <2>1, <3>3, <3>4 DEF Tidiness
  <2> QED
    BY <2>2, <2>3, <2>4, <2>5 DEF Sound
<1>8. Sound(c)'
  <2>1. ~Shrinking(c)' /\ ~Forking(c)' /\ op'[c].child = NULL /\ op'[c].ret = "none"
    BY <1>5 DEF Shrinking, Forking, Idle
  <2>2. Locals(c)'
    BY <1>1, <1>2, <1>5, <2>1 DEF Locals
  <2>3. Growing(c)' /\ Copying(c)' /\ Uncopying(c)'
    BY <1>5 DEF Growing, Copying, Uncopying
  <2>4. Tidiness(c)'
    <3>1. Tidy(c)' => base[c] \in Nat /\ Whole(base[c])
      BY Own DEF Tidiness, Tidy
    <3> QED
      BY <1>5, <2>1, <3>1 DEF Tidiness
  <2> QED
    BY <2>2, <2>3, <2>4 DEF Sound
<1>9. \A q \in Procs \ {p, c} : Alike(q) /\ op[q].child \notin {p, c}
  <2>1. \A q \in Procs : op[q].child \notin {p, c}
    BY <1>1, Kin
  <2> QED
    BY <1>1, <1>5, <2>1 DEF Alike
<1>10. Calm'
  <2>1. op'[p].child = c /\ op'[c].child = NULL
    BY <1>4, <1>5 DEF Idle
  <2> QED
    BY <1>1, <1>5, <1>6, <1>7, <1>8, <1>9, <2>1, Frame
<1>11. Accounts'
  <2>1. \A s \in Procs \ {c} : HeldBy(s)' = HeldBy(s) /\ tab'[s] = tab[s]
    <3>1. \A s \in Procs \ {c} : /\ pc'[s] = "unused" <=> pc[s] = "unused"
                                 /\ op'[s].ret = "exec" <=> op[s].ret = "exec"
      <4>1. Idle.ret = "none"
        BY DEF Idle
      <4> QED
        BY <1>1, <1>2, <1>4, <1>5, <4>1
    <3> QED
      BY <1>1, <3>1 DEF HeldBy
  <2>2. Heads(c) = 0 /\ Heads(c)' = HEAD /\ NewImage(c)' = NewImage(c) /\ NewImage(c) \in Nat
    BY <1>1, <1>2, <1>5, SuperAssumption DEF Heads, NewImage
  <2>3. Cardinality(tab[c].small) \in Nat /\ Cardinality(tab[c].l0) \in Nat
    BY Own, Finite, FS_CardinalityType
  <2>4. free' + Holding(c)' = free + Holding(c)
    <3>1. /\ Holding(c) = Cardinality(tab[c].small) + Cardinality(tab[c].l0) + 0 + NewImage(c)
          /\ Holding(c)' = Cardinality(tab[c].small) + Cardinality(tab[c].l0) + HEAD + NewImage(c)
      BY <1>1, <2>2 DEF Holding
    <3>2. free \in Nat /\ HEAD \in Nat
      BY SuperAssumption DEF Calm, Types
    <3> QED
      BY <1>1, <2>2, <2>3, <3>1, <3>2
  <2>5. superfree' + Cardinality(tab'[c].super) = superfree + Cardinality(tab[c].super)
    BY <1>1
  <2> QED
    BY <1>6, <2>1, <2>4, <2>5, Ledger DEF Calm
<1> QED
  BY <1>1, <1>10, <1>11

\* One more superpage, or one more page, is copied.
LEMMA CopySuper ==
    ASSUME NEW t, Shape(t), NEW c, Shape(c), NEW a \in Nat, Whole(a), a <= LIMIT, NEW size \in Nat, a < size,
           CopyOf(c, t, PageOf(a), size), RegionOf(a) \in t.super
    PROVE  /\ RegionOf(a) \notin c.super /\ RegionOf(a) \notin c.l0 /\ PageOf(a) = RegionOf(a) * K
           /\ CopyOf(MapSuper(c, a), t, PageOf(a) + K, size)
<1> DEFINE x == PageOf(a)
           r == RegionOf(a)
           u == MapSuper(c, a)
<1>1. x \in Nat /\ r = x \div K /\ r \in Nat /\ a = x * PGSIZE
  BY PageAt, RegionPage DEF Whole
<1>2. t \in Tables /\ c \in Tables /\ t.super \subseteq Nat /\ t.small \subseteq Nat /\ t.super \cap t.l0 = {}
  BY DEF Shape, Tables
<1>3. /\ Span(c, {}, 0, x) /\ Clear(t, 0, x)
      /\ c.small \subseteq t.small /\ c.super \subseteq t.super /\ c.l0 \subseteq t.l0
      /\ \A v \in t.small : v < x => v \in c.small
      /\ \A s \in t.super : s * K < x => s \in c.super
      /\ \A v \in c.small : v * PGSIZE < size
      /\ \A s \in c.super : s * SUPERPGSIZE < size
  BY DEF CopyOf
<1> HIDE DEF x
<1>4. x = r * K /\ r * SUPERPGSIZE = a
  <2>1. r * K <= x /\ x < r * K + K /\ r * K \in Nat
    BY <1>1, RegionAt, SuperStart
  <2>2. r * K + K <= 0 \/ x <= r * K \/ (0 <= r * K /\ r * K + K <= x)
    BY <1>3 DEF Clear
  <2>3. x = r * K
    BY <1>1, <2>1, <2>2, Sizes
  <2> QED
    BY <1>1, <2>3, SuperStart
<1>5. r \notin c.super /\ r \notin c.l0
  <2>1. Mapped(c) = 0 .. x - 1
    BY <1>3 DEF Span
  <2>2. x \notin Mapped(c)
    BY <1>1, <2>1
  <2> QED
    BY <1>1, <1>2, <1>3, <2>2, MappedPages
<1>6. Shape(u) /\ u.small = c.small /\ u.super = c.super \cup {r} /\ u.l0 = c.l0
  BY <1>5, MapSuperShape
<1> HIDE DEF u, r
<1>7. Span(u, {}, 0, x + K)
  BY <1>1, <1>3, <1>4, <1>5, <1>6, SpanSuper
<1>8. \A s \in t.super : s \in Nat /\ s * K \in Nat /\ (s < r => s * K + K <= x)
                         /\ (r < s => x + K <= s * K) /\ (s = r \/ s < r \/ r < s)
  <2> SUFFICES ASSUME NEW s \in t.super
               PROVE s \in Nat /\ s * K \in Nat /\ (s < r => s * K + K <= x)
                     /\ (r < s => x + K <= s * K) /\ (s = r \/ s < r \/ r < s)
    OBVIOUS
  <2>1. s \in Nat
    BY <1>2
  <2> QED
    BY <1>1, <1>4, <2>1, SuperStart
<1>9. Clear(t, 0, x + K)
  BY <1>1, <1>4, <1>8, Sizes DEF Clear
<1>10. ASSUME NEW v \in t.small, v < x + K PROVE v \in u.small
  <2>1. v < x
    <3> SUFFICES ASSUME x <= v PROVE FALSE
      BY <1>1, <1>2
    <3>1. v \in Nat /\ v \div K = r
      BY <1>1, <1>2, <1>4, <1>10, RegionAt
    <3>2. v \div K \in t.l0
      BY DEF Shape
    <3> QED
      BY <1>2, <3>1, <3>2 DEF r
  <2> QED
    BY <1>3, <1>6, <2>1
<1>11. ASSUME NEW s \in t.super, s * K < x + K PROVE s \in u.super
  <2>1. s = r \/ s < r
    BY <1>1, <1>8, <1>11, Sizes
  <2>2. s < r => s * K < x
    BY <1>1, <1>8, Sizes
  <2> QED
    BY <1>3, <1>6, <2>1, <2>2
<1>12. u.super \subseteq t.super
  BY <1>3, <1>6 DEF r
<1>13. \A s \in u.super : s * SUPERPGSIZE < size
  BY <1>3, <1>4, <1>6
<1>14. CopyOf(u, t, x + K, size)
  BY <1>3, <1>6, <1>7, <1>9, <1>10, <1>11, <1>12, <1>13 DEF CopyOf
<1> QED
  BY <1>4, <1>5, <1>14 DEF x, r, u

LEMMA CopyPage ==
    ASSUME NEW t, Shape(t), NEW c, Shape(c), NEW a \in Nat, Whole(a), a <= LIMIT, NEW size \in Nat, a < size,
           CopyOf(c, t, PageOf(a), size), PageOf(a) \in t.small
    PROVE  /\ RegionOf(a) \notin c.super /\ PageOf(a) \notin Mapped(c)
           /\ CopyOf(MapPage(c, a), t, PageOf(a) + 1, size)
<1> DEFINE x == PageOf(a)
           r == RegionOf(a)
           u == MapPage(c, a)
<1>1. x \in Nat /\ r = x \div K /\ r \in Nat /\ a = x * PGSIZE
  BY PageAt, RegionPage DEF Whole
<1>2. t \in Tables /\ c \in Tables /\ t.super \subseteq Nat /\ t.small \subseteq Nat /\ t.super \cap t.l0 = {}
  BY DEF Shape, Tables
<1>3. /\ Span(c, {}, 0, x) /\ Clear(t, 0, x)
      /\ c.small \subseteq t.small /\ c.super \subseteq t.super /\ c.l0 \subseteq t.l0
      /\ \A v \in t.small : v < x => v \in c.small
      /\ \A s \in t.super : s * K < x => s \in c.super
      /\ \A v \in c.small : v * PGSIZE < size
      /\ \A s \in c.super : s * SUPERPGSIZE < size
  BY DEF CopyOf
<1>4. r \in t.l0 /\ r \notin t.super /\ r \notin c.super
  BY <1>1, <1>2, <1>3 DEF Shape
<1>5. x \in t.small
  OBVIOUS
<1> HIDE DEF x
<1>6. x \notin Mapped(c)
  <2>1. Mapped(c) = 0 .. x - 1
    BY <1>3 DEF Span
  <2> QED
    BY <1>1, <2>1
<1>7. Shape(u) /\ u.small = c.small \cup {x} /\ u.super = c.super /\ u.l0 = c.l0 \cup {r}
  BY <1>4, MapPageShape DEF x
<1> HIDE DEF u, r
<1>8. Span(u, {}, 0, x + 1)
  BY <1>1, <1>3, <1>6, <1>7, SpanPage
<1>9. \A s \in t.super : s \in Nat /\ s * K \in Nat /\ s * K # x
  <2> SUFFICES ASSUME NEW s \in t.super PROVE s \in Nat /\ s * K \in Nat /\ s * K # x
    OBVIOUS
  <2>1. s \in Nat /\ s * K \in Nat /\ (s * K) \div K = s
    BY <1>2, SuperStart
  <2> QED
    BY <1>1, <1>4, <2>1
<1>10. Clear(t, 0, x + 1)
  <2>1. \A s \in t.super : s * K + K <= 0 \/ x <= s * K \/ (0 <= s * K /\ s * K + K <= x)
    BY <1>3 DEF Clear
  <2> QED
    BY <1>1, <1>9, <2>1, Sizes DEF Clear
<1>11. \A v \in t.small : v < x + 1 => v \in u.small
  BY <1>1, <1>2, <1>3, <1>7
<1>12. \A s \in t.super : s * K < x + 1 => s \in u.super
  BY <1>1, <1>3, <1>7, <1>9
<1>13. \A v \in u.small : v * PGSIZE < size
  BY <1>1, <1>3, <1>7
<1>14. u.small \subseteq t.small /\ u.super \subseteq t.super /\ u.l0 \subseteq t.l0
  BY <1>3, <1>4, <1>5, <1>7
<1>15. CopyOf(u, t, x + 1, size)
  BY <1>3, <1>7, <1>8, <1>10, <1>11, <1>12, <1>13, <1>14 DEF CopyOf
<1> QED
  BY <1>4, <1>6, <1>15 DEF x, r, u

\* What is known of a fork in its copying loop.
LEMMA CopyKnown ==
    ASSUME Calm, NEW p \in Procs, pc[p] = "copy"
    PROVE  LET o == op[p] IN
           /\ o.child \in Procs /\ o.child # p /\ o.ret = "none" /\ o.end = sz[p] /\ ~Shrinking(p) /\ Forking(p)
           /\ Whole(o.a) /\ CopyOf(tab[o.child], tab[p], PageOf(o.a), sz[p]) /\ PageOf(o.a) \in Nat
           /\ Shape(tab[p]) /\ Shape(tab[o.child]) /\ o.a \in Nat /\ sz[p] \in Nat /\ sz[p] <= LIMIT
           /\ Tidy(p) => /\ base[p] \in Nat /\ Whole(base[p]) /\ Whole(sz[p]) /\ PageOf(sz[p]) \in Nat
                         /\ Span(tab[p], {}, 0, PageOf(sz[p])) /\ o.a <= o.end
                         /\ Recorded(tab[p], PageOf(base[p]), PageOf(sz[p]), next[p], ones[p])
<1>1. ~Shrinking(p) /\ Forking(p)
  BY DEF Shrinking, Forking
<1>2. op[p].child \in Procs /\ op[p].child # p
  BY <1>1, Kin
<1>3. op[p].ret = "none" /\ op[p].end = sz[p]
  BY Own DEF Locals
<1>4. Whole(op[p].a) /\ CopyOf(tab[op[p].child], tab[p], PageOf(op[p].a), sz[p])
  BY Own DEF Copying
<1>5. op[p].a \in Nat /\ sz[p] \in Nat /\ sz[p] <= LIMIT /\ Shape(tab[p]) /\ Shape(tab[op[p].child])
  BY <1>2, Own, Sizes
<1>6. Tidy(p) => /\ base[p] \in Nat /\ Whole(base[p]) /\ Whole(sz[p])
                 /\ Span(tab[p], {}, 0, PageOf(sz[p])) /\ op[p].a <= op[p].end
                 /\ Recorded(tab[p], PageOf(base[p]), PageOf(sz[p]), next[p], ones[p])
  BY <1>1, Own DEF Tidiness
<1> QED
  BY <1>1, <1>2, <1>3, <1>4, <1>5, <1>6, PageAt

LEMMA CopySound ==
    ASSUME Calm, NEW p \in Procs, NEW c \in Procs, c = op[p].child, pc[p] = "copy",
           NEW T, NEW u \in Ops, u = [op[p] EXCEPT !.a = u.a], Whole(u.a),
           CopyOf(T, tab[p], PageOf(u.a), sz[p]), Tidy(p) => u.a <= op[p].end,
           Goto(p, "copy", u), tab' = [tab EXCEPT ![c] = T], UNCHANGED <<sz, ones, next, base>>
    PROVE  Sound(p)'
<1>1. c # p
  BY CopyKnown
<1>2. u.end = op[p].end /\ u.ret = op[p].ret /\ u.child = c
  BY Own DEF Ops
<1>3. pc'[p] = "copy" /\ op'[p] = u /\ tab'[c] = T /\ sz'[p] = sz[p] /\ ones'[p] = ones[p]
      /\ next'[p] = next[p] /\ base'[p] = base[p] /\ tab'[p] = tab[p]
  BY <1>1 DEF Goto, Calm, Types
<1>4. ~Shrinking(p)' /\ Forking(p)' /\ c # NULL
  BY <1>3, SuperAssumption DEF Shrinking, Forking
<1>5. Locals(p)'
  BY <1>2, <1>3, <1>4, CopyKnown DEF Locals
<1>6. Growing(p)' /\ Uncopying(p)'
  BY <1>3 DEF Growing, Uncopying
<1>7. Copying(p)'
  BY <1>2, <1>3 DEF Copying
<1>8. Tidiness(p)'
  <2> SUFFICES ASSUME Tidy(p)' PROVE Tidiness(p)'
    BY DEF Tidiness
  <2>1. Tidy(p)
    BY <1>3 DEF Tidy
  <2> QED
    BY <1>2, <1>3, <1>4, <2>1, CopyKnown DEF Tidiness
<1> QED
  BY <1>5, <1>6, <1>7, <1>8 DEF Sound

LEMMA CopyStepStep ==
    ASSUME Calm, Accounts, halt = "no", NEW p \in Procs, CopyStep(p), UNCHANGED base
    PROVE  Calm' /\ Accounts' /\ TidyPanics'
<1> DEFINE o == op[p]
           t == tab[p]
           w == walk(t, o.a)
           r == RegionOf(o.a)
           y == PageOf(o.a)
<1>1. pc[p] = "copy" /\ o.a < o.end
  BY DEF CopyStep, MoreToCopy
<1>2. PICK c \in Procs : c = op[p].child
  BY <1>1, CopyKnown
<1> DEFINE k == tab[c]
<1>3. /\ o.ret = "none" /\ o.end = sz[p] /\ Whole(o.a) /\ CopyOf(k, t, y, sz[p]) /\ y \in Nat
      /\ Shape(t) /\ Shape(k) /\ o.a \in Nat /\ sz[p] \in Nat /\ sz[p] <= LIMIT /\ o.a <= LIMIT /\ o.a < sz[p]
  <2>1. /\ o.ret = "none" /\ o.end = sz[p] /\ Whole(o.a) /\ CopyOf(k, t, y, sz[p]) /\ y \in Nat
        /\ Shape(t) /\ Shape(k) /\ o.a \in Nat /\ sz[p] \in Nat /\ sz[p] <= LIMIT
    BY <1>1, <1>2, CopyKnown
  <2> QED
    BY <1>1, <2>1, Sizes
<1>4. o \in Ops /\ tab \in [Procs -> Tables] /\ free \in Nat /\ superfree \in Nat
  BY Own DEF Calm, Types
<1>5. ASSUME NEW n \in Nat
      PROVE  /\ [o EXCEPT !.a = @ + n] \in Ops /\ [o EXCEPT !.a = @ + n].a = o.a + n
             /\ [o EXCEPT !.a = @ + n].ret = o.ret /\ [o EXCEPT !.a = @ + n].child = o.child
  <2>1. o.a + n \in Nat
    BY <1>3
  <2> HIDE DEF o
  <2> QED
    BY <1>4, <2>1 DEF Ops
<1>6. ASSUME Tidy(p)
      PROVE  /\ y < PageOf(sz[p]) /\ PageOf(sz[p]) \in Nat /\ Span(t, {}, 0, PageOf(sz[p])) /\ Whole(sz[p])
             /\ \A s \in t.super : s * K + K <= PageOf(sz[p])
  <2>1. Span(t, {}, 0, PageOf(sz[p])) /\ Whole(sz[p]) /\ PageOf(sz[p]) \in Nat
    BY <1>1, <1>6, CopyKnown
  <2>2. y < PageOf(sz[p])
    BY <1>3, <2>1, WholeOrder
  <2> QED
    BY <1>3, <2>1, <2>2, SpanUncut DEF Shape
<1>7. CASE /\ PTE_S(w) /\ tab' = [tab EXCEPT ![c] = MapSuper(@, o.a)] /\ superkalloc
           /\ Goto(p, "copy", [o EXCEPT !.a = @ + SUPERPGSIZE])
           /\ UNCHANGED <<sz, ones, next, halt>>
  <2> DEFINE T == MapSuper(k, o.a)
             u == [o EXCEPT !.a = @ + SUPERPGSIZE]
  <2>1. tab' = [tab EXCEPT ![c] = T] /\ Goto(p, "copy", u)
    BY <1>4, <1>7
  <2>2. r \in t.super
    BY <1>3, <1>7, WalkFinds DEF PTE_S
  <2>3. r \notin k.super /\ r \notin k.l0 /\ y = r * K /\ CopyOf(T, t, y + K, sz[p])
    BY <1>3, <2>2, CopySuper
  <2>4. Shape(T) /\ T.small = k.small /\ T.super = k.super \cup {r} /\ T.l0 = k.l0
    BY <1>3, <2>3, MapSuperShape
  <2>5. u \in Ops /\ u.a = o.a + SUPERPGSIZE /\ u.ret = o.ret /\ u.child = o.child
    BY <1>5, Sizes
  <2>6. u = [o EXCEPT !.a = u.a]
    BY <1>4, <2>5 DEF Ops
  <2> HIDE DEF u, T
  <2>7. Whole(u.a) /\ PageOf(u.a) = y + K /\ u.a \in Nat
    <3>1. u.a \in Nat
      BY <1>3, <2>5, Sizes
    <3> QED
      BY <1>3, <2>5, <3>1, WholeNext
  <2>8. Tidy(p) => u.a <= o.end
    <3> SUFFICES ASSUME Tidy(p) PROVE u.a <= o.end
      OBVIOUS
    <3>1. y + K <= PageOf(sz[p])
      BY <1>6, <2>2, <2>3
    <3> QED
      BY <1>3, <1>6, <2>7, <3>1, WholeOrder
  <2>9. UNCHANGED <<sz, ones, next, base>> /\ halt' = "no"
    BY <1>7
  <2>10. Sound(p)'
    BY <1>1, <1>2, <2>1, <2>3, <2>5, <2>6, <2>7, <2>8, <2>9, CopySound
  <2>11. superfree' = superfree - 1 /\ free' = free /\ superfree > 0
    BY <1>7 DEF superkalloc
  <2>12. /\ Cardinality(T.super) = Cardinality(k.super) + 1 /\ Cardinality(k.super) \in Nat
         /\ Cardinality(T.small) = Cardinality(k.small) /\ Cardinality(T.l0) = Cardinality(k.l0)
         /\ Cardinality(k.small) \in Nat /\ Cardinality(k.l0) \in Nat
    BY <1>3, <2>3, <2>4, AddedSuper
  <2>13. /\ free' + Cardinality(T.small) + Cardinality(T.l0) = free + Cardinality(k.small) + Cardinality(k.l0)
         /\ superfree' + Cardinality(T.super) = superfree + Cardinality(k.super)
         /\ free' \in Nat /\ superfree' \in Nat
    BY <1>4, <2>11, <2>12
  <2>14. Calm' /\ Accounts'
    BY <1>1, <1>2, <2>1, <2>4, <2>5, <2>9, <2>10, <2>13, TableStep DEF PCs
  <2> QED
    BY <2>9, <2>14, Runs
<1>8. CASE /\ w \notin {"none", "empty"} /\ ~PTE_S(w)
           /\ tab' = [tab EXCEPT ![c] = MapPage(@, o.a)] /\ kalloc(PageCost(k, o.a))
           /\ Goto(p, "copy", [o EXCEPT !.a = @ + PGSIZE])
           /\ UNCHANGED <<sz, ones, next, halt>>
  <2> DEFINE T == MapPage(k, o.a)
             u == [o EXCEPT !.a = @ + PGSIZE]
             cost == PageCost(k, o.a)
  <2>1. tab' = [tab EXCEPT ![c] = T] /\ Goto(p, "copy", u)
    BY <1>4, <1>8
  <2>2. y \in t.small
    BY <1>3, <1>8, WalkFinds DEF PTE_S
  <2>3. r \notin k.super /\ y \notin Mapped(k) /\ CopyOf(T, t, y + 1, sz[p])
    BY <1>3, <2>2, CopyPage
  <2>4. Shape(T) /\ T.small = k.small \cup {y} /\ T.super = k.super /\ T.l0 = k.l0 \cup {r}
    BY <1>3, <2>3, MapPageShape
  <2>a. cost = (IF r \in k.l0 THEN 1 ELSE 2) /\ y \notin k.small
    <3>1. walk(k, o.a) = "none" <=> r \notin k.l0
      BY <1>3, <2>3, WalkFinds
    <3>2. y \notin k.small
      BY <2>3 DEF Mapped
    <3> QED
      BY <3>1, <3>2 DEF PageCost
  <2>5. u \in Ops /\ u.a = o.a + PGSIZE /\ u.ret = o.ret /\ u.child = o.child
    BY <1>5, Sizes
  <2>6. u = [o EXCEPT !.a = u.a]
    BY <1>4, <2>5 DEF Ops
  <2> HIDE DEF u, T
  <2>7. Whole(u.a) /\ PageOf(u.a) = y + 1 /\ u.a \in Nat
    <3>1. u.a \in Nat
      BY <1>3, <2>5, Sizes
    <3> QED
      BY <1>3, <2>5, <3>1, WholeNext
  <2>8. Tidy(p) => u.a <= o.end
    <3> SUFFICES ASSUME Tidy(p) PROVE u.a <= o.end
      OBVIOUS
    <3>1. y + 1 <= PageOf(sz[p])
      BY <1>3, <1>6
    <3> QED
      BY <1>3, <1>6, <2>7, <3>1, WholeOrder
  <2>9. UNCHANGED <<sz, ones, next, base>> /\ halt' = "no"
    BY <1>8
  <2>10. Sound(p)'
    BY <1>1, <1>2, <2>1, <2>3, <2>5, <2>6, <2>7, <2>8, <2>9, CopySound
  <2>11. superfree' = superfree /\ free' = free - cost /\ free >= cost /\ cost \in Nat
    BY <1>8, <2>a DEF kalloc
  <2>12. /\ Cardinality(T.small) + Cardinality(T.l0) = Cardinality(k.small) + Cardinality(k.l0) + cost
         /\ Cardinality(k.small) \in Nat /\ Cardinality(k.l0) \in Nat
         /\ Cardinality(T.small) \in Nat /\ Cardinality(T.l0) \in Nat
         /\ Cardinality(T.super) = Cardinality(k.super)
    <3>1. /\ Cardinality(T.small) + Cardinality(T.l0)
               = Cardinality(k.small) + Cardinality(k.l0) + (IF r \in k.l0 THEN 1 ELSE 2)
          /\ Cardinality(k.small) \in Nat /\ Cardinality(k.l0) \in Nat
          /\ Cardinality(T.small) \in Nat /\ Cardinality(T.l0) \in Nat
          /\ Cardinality(T.super) = Cardinality(k.super)
      <4> HIDE DEF k, r, y
      <4> QED
        BY ONLY <1>3, <2>a, <2>4, AddedPage
    <3> HIDE DEF cost
    <3> QED
      BY <2>a, <3>1
  <2> HIDE DEF cost
  <2>13. free' + Cardinality(T.small) + Cardinality(T.l0) = free + Cardinality(k.small) + Cardinality(k.l0)
         /\ free' \in Nat
    BY <1>4, <2>11, <2>12
  <2>14. superfree' + Cardinality(T.super) = superfree + Cardinality(k.super) /\ superfree' \in Nat
    BY <1>4, <2>11, <2>12
  <2>15. Calm' /\ Accounts'
    BY <1>1, <1>2, <2>1, <2>4, <2>5, <2>9, <2>10, <2>13, <2>14, TableStep DEF PCs
  <2> QED
    BY <2>9, <2>15, Runs
<1>9. CASE w \in {"none", "empty"} /\ Panic("copy")
  <2>1. Calm' /\ Accounts' /\ base' = base
    BY <1>9, Stops
  <2>2. y \notin Mapped(t)
    BY <1>3, <1>9, WalkFinds
  <2>3. ~Tidy(p)
    <3> SUFFICES ASSUME Tidy(p) PROVE FALSE
      OBVIOUS
    <3>1. Mapped(t) = {} \cup (0 .. PageOf(sz[p]) - 1)
      BY <1>6 DEF Span
    <3>2. y \in 0 .. PageOf(sz[p]) - 1
      BY <1>3, <1>6
    <3> QED
      BY <2>2, <3>1, <3>2
  <2>4. ~Tidy(p)'
    BY <2>1, <2>3 DEF Tidy
  <2>5. TidyPanics'
    BY <2>4 DEF TidyPanics
  <2> QED
    BY <2>1, <2>5
<1> QED
  BY <1>2, <1>7, <1>8, <1>9 DEF CopyStep

\* Where the err label of uvmcopy stops unmapping.
LEMMA ErrEnd ==
    ASSUME NEW a \in Nat, Whole(a)
    PROVE  /\ PageOf(a + PGSIZE - 1) = PageOf(a) /\ PageOf(a + SUPERPGSIZE - 1) = PageOf(a) + K - 1
<1> DEFINE y == PageOf(a)
<1>1. y \in Nat /\ a = y * PGSIZE
  BY PageAt DEF Whole
<1> HIDE DEF y
<1>2. PageOf(a + PGSIZE - 1) = y
  <2>1. a + PGSIZE - 1 \in Nat /\ y * PGSIZE <= a + PGSIZE - 1 /\ a + PGSIZE - 1 < y * PGSIZE + PGSIZE
    BY <1>1, Sizes
  <2> QED
    BY <1>1, <2>1, PageAt
<1>3. PageOf(a + SUPERPGSIZE - 1) = y + K - 1
  <2> DEFINE v == y + K - 1
  <2>1. v \in Nat /\ v * PGSIZE \in Nat /\ v * PGSIZE + PGSIZE = (y + K) * PGSIZE
    <3>1. v \in Nat /\ y + K = v + 1
      BY <1>1, Sizes
    <3> HIDE DEF v
    <3> QED
      BY <3>1, Sizes, Times
  <2>2. (y + K) * PGSIZE = a + SUPERPGSIZE
    BY <1>1, Sizes, Times
  <2> HIDE DEF v
  <2>3. /\ a + SUPERPGSIZE - 1 \in Nat /\ v * PGSIZE <= a + SUPERPGSIZE - 1
        /\ a + SUPERPGSIZE - 1 < v * PGSIZE + PGSIZE
    BY <1>1, <2>1, <2>2, Sizes
  <2>4. v = PageOf(a + SUPERPGSIZE - 1)
    BY <2>1, <2>3, PageAt
  <2> QED
    BY <2>4 DEF v
<1> QED
  BY <1>2, <1>3 DEF y

LEMMA CopyFailStep ==
    ASSUME Calm, Accounts, halt = "no", NEW p \in Procs, CopyFail(p), UNCHANGED base
    PROVE  Calm' /\ Accounts' /\ halt' = "no"
<1> DEFINE o == op[p]
           t == tab[p]
           w == walk(t, o.a)
           y == PageOf(o.a)
           szinc == IF PTE_S(w) THEN SUPERPGSIZE ELSE PGSIZE
           e == PageOf(o.a + szinc - 1) * PGSIZE
           u == [o EXCEPT !.a = 0, !.ret = "fork", !.end = e]
<1>1. /\ pc[p] = "copy" /\ Goto(p, "unmap", u)
      /\ UNCHANGED <<tab, sz, ones, next, free, superfree, halt>>
  BY DEF CopyFail
<1>2. /\ o.child \in Procs /\ o.ret = "none" /\ Whole(o.a) /\ y \in Nat
      /\ CopyOf(tab[o.child], t, y, sz[p]) /\ Shape(t) /\ o.a \in Nat /\ o \in Ops
  <2>1. o \in Ops
    BY Own
  <2> QED
    BY <1>1, <2>1, CopyKnown
<1>3. e \in Nat /\ Whole(e) /\ (PageOf(e) = y \/ (y < PageOf(e) /\ y \div K \in t.super))
  <2>1. CASE PTE_S(w)
    <3>1. e = (y + K - 1) * PGSIZE /\ y + K - 1 \in Nat
      BY <1>2, <2>1, ErrEnd, Sizes
    <3>2. e \in Nat /\ Whole(e) /\ PageOf(e) = y + K - 1
      BY <3>1, PageStart
    <3>3. y \div K \in t.super
      BY <1>2, <2>1, WalkFinds, RegionPage DEF PTE_S
    <3> HIDE DEF e
    <3> QED
      BY <1>2, <3>2, <3>3, Sizes
  <2>2. CASE ~PTE_S(w)
    <3>1. e = y * PGSIZE
      BY <1>2, <2>2, ErrEnd
    <3> QED
      BY <1>2, <3>1, PageStart
  <2> QED
    BY <2>1, <2>2
<1>4. u \in Ops
  <2>1. ASSUME NEW q \in Ops, NEW n \in Nat PROVE [q EXCEPT !.a = 0, !.ret = "fork", !.end = n] \in Ops
    BY DEF Ops, Rets
  <2> HIDE DEF e
  <2> QED
    BY <1>2, <1>3, <2>1
<1>5. u.a = 0 /\ u.ret = "fork" /\ u.end = e /\ u.child = o.child /\ u.child # NULL
  BY <1>2, SuperAssumption DEF Ops
<1> HIDE DEF u, e
<1>6. pc'[p] = "unmap" /\ op'[p] = u /\ tab'[p] = tab[p] /\ sz'[p] = sz[p] /\ ones'[p] = ones[p]
      /\ next'[p] = next[p] /\ base'[p] = base[p] /\ tab' = tab
  BY <1>1 DEF Goto, Calm, Types
<1>7. ~Shrinking(p)' /\ Forking(p)'
  BY <1>5, <1>6 DEF Shrinking, Forking
<1>8. Locals(p)'
  BY <1>5, <1>6, <1>7 DEF Locals, Rets
<1>9. Growing(p)' /\ Copying(p)'
  BY <1>5, <1>6 DEF Growing, Copying
<1>10. Uncopying(p)'
  <2>1. Whole(0) /\ PageOf(0) = 0
    <3>1. 0 * PGSIZE = 0
      BY Sizes
    <3> QED
      BY <3>1, PageStart
  <2>2. Span(tab[u.child], {}, PageOf(u.a), y)
    BY <1>2, <1>5, <2>1 DEF CopyOf
  <2>3. Whole(u.a) /\ Whole(u.end)
    BY <1>3, <1>5, <2>1
  <2> QED
    BY <1>2, <1>3, <1>5, <1>6, <2>2, <2>3 DEF Uncopying
<1>11. Tidiness(p)'
  <2> SUFFICES ASSUME Tidy(p)' PROVE Tidiness(p)'
    BY DEF Tidiness
  <2>1. Tidy(p)
    BY <1>6 DEF Tidy
  <2> QED
    BY <1>1, <1>5, <1>6, <1>7, <2>1, CopyKnown DEF Tidiness
<1>12. Sound(p)'
  BY <1>8, <1>9, <1>10, <1>11 DEF Sound
<1>13. u.child \in {NULL, op[p].child} /\ u.ret # "exec" /\ o.ret # "exec"
  BY <1>2, <1>5
<1> QED
  BY <1>1, <1>4, <1>12, <1>13, Moves DEF PCs

\* What uvmcopy has done when its loop ends.
LEMMA CopyEnd ==
    ASSUME NEW t, Shape(t), NEW c, Shape(c), NEW a \in Nat, Whole(a), NEW size \in Nat, size <= a,
           CopyOf(c, t, PageOf(a), size)
    PROVE  /\ c.small = {v \in t.small : v * PGSIZE < size}
           /\ c.super = {r \in t.super : r * SUPERPGSIZE < size}
<1> DEFINE x == PageOf(a)
<1>1. x \in Nat /\ a = x * PGSIZE
  BY PageAt DEF Whole
<1>2. /\ c.small \subseteq t.small /\ c.super \subseteq t.super
      /\ \A v \in t.small : v < x => v \in c.small
      /\ \A s \in t.super : s * K < x => s \in c.super
      /\ \A v \in c.small : v * PGSIZE < size
      /\ \A s \in c.super : s * SUPERPGSIZE < size
  BY DEF CopyOf
<1>3. t.small \subseteq Nat /\ t.super \subseteq Nat
  BY DEF Shape, Tables
<1> HIDE DEF x
<1>4. ASSUME NEW v \in t.small, v * PGSIZE < size PROVE v < x
  <2>1. v \in Nat /\ v * PGSIZE \in Nat
    BY <1>3, PageStart
  <2>2. v * PGSIZE < x * PGSIZE
    BY <1>1, <1>4, <2>1
  <2> QED
    BY <1>1, <2>1, <2>2, Times, Sizes
<1>5. ASSUME NEW s \in t.super, s * SUPERPGSIZE < size PROVE s * K < x
  <2>1. s * K \in Nat /\ s * SUPERPGSIZE = (s * K) * PGSIZE
    BY <1>3, SuperStart
  <2> DEFINE v == s * K
  <2>2. v \in Nat /\ v * PGSIZE < size
    BY <1>5, <2>1
  <2> HIDE DEF v
  <2>3. v * PGSIZE < x * PGSIZE
    BY <1>1, <2>2, PageStart
  <2>4. v < x
    BY <1>1, <2>2, <2>3, Times, Sizes
  <2> QED
    BY <2>4 DEF v
<1> QED
  BY <1>2, <1>4, <1>5

LEMMA ForkDoneStep ==
    ASSUME Calm, Accounts, halt = "no", NEW p \in Procs, ForkDone(p)
    PROVE  /\ Calm' /\ Accounts' /\ halt' = "no"
           /\ LET c == op[p].child IN
              /\ sz'[c] = sz[p]
              /\ tab[c].small = {v \in tab[p].small : v * PGSIZE < sz[p]}
              /\ tab[c].super = {r \in tab[p].super : r * SUPERPGSIZE < sz[p]}
<1> DEFINE o == op[p]
<1>1. pc[p] = "copy" /\ ~(o.a < o.end)
  BY DEF ForkDone, MoreToCopy
<1>2. PICK c \in Procs : c = op[p].child
  BY <1>1, CopyKnown
<1>3. /\ sz' = [sz EXCEPT ![c] = sz[p]] /\ base' = [base EXCEPT ![c] = IF Tidy(p) THEN sz[p] ELSE UNTIDY]
      /\ pc' = [pc EXCEPT ![p] = "run", ![c] = "run"] /\ op' = [op EXCEPT ![p] = Idle]
      /\ UNCHANGED <<tab, ones, next, free, superfree, halt>>
  BY <1>2 DEF ForkDone
<1>4. /\ c # p /\ o.ret = "none" /\ o.end = sz[p] /\ Whole(o.a) /\ PageOf(o.a) \in Nat
      /\ CopyOf(tab[c], tab[p], PageOf(o.a), sz[p]) /\ Shape(tab[p]) /\ Shape(tab[c]) /\ o.a \in Nat
      /\ sz[p] \in Nat /\ sz[p] <= o.a
  <2>1. /\ c # p /\ o.ret = "none" /\ o.end = sz[p] /\ Whole(o.a) /\ PageOf(o.a) \in Nat
        /\ CopyOf(tab[c], tab[p], PageOf(o.a), sz[p]) /\ Shape(tab[p]) /\ Shape(tab[c]) /\ o.a \in Nat
        /\ sz[p] \in Nat
    BY <1>1, <1>2, CopyKnown
  <2> QED
    BY <1>1, <2>1
<1>5. pc[c] = "embryo" /\ op[c] = Idle /\ next[c] = 0 /\ \A q \in Procs \ {p, c} : op[q].child \notin {p, c}
  <2>1. Forking(p)
    BY <1>1 DEF Forking
  <2>2. pc[c] = "embryo" /\ op[c] = Idle /\ \A q \in Procs \ {p, c} : op[q].child \notin {p, c}
    BY <1>1, <1>2, <2>1, Kin
  <2> QED
    BY <2>2, Own DEF Locals
<1>6. /\ sz'[c] = sz[p] /\ sz'[p] = sz[p] /\ base'[c] = (IF Tidy(p) THEN sz[p] ELSE UNTIDY) /\ base'[p] = base[p]
      /\ pc'[p] = "run" /\ pc'[c] = "run" /\ op'[p] = Idle /\ op'[c] = Idle
      /\ pc' \in [Procs -> PCs] /\ op' \in [Procs -> Ops] /\ sz' \in [Procs -> 0 .. LIMIT]
      /\ \A q \in Procs \ {p, c} : pc'[q] = pc[q] /\ op'[q] = op[q] /\ sz'[q] = sz[q] /\ base'[q] = base[q]
  <2>1. sz[p] \in 0 .. LIMIT
    BY Own
  <2>2. sz' \in [Procs -> 0 .. LIMIT] /\ pc' \in [Procs -> PCs] /\ op' \in [Procs -> Ops]
    BY <1>3, <2>1, IdleOp DEF Calm, Types, PCs
  <2> QED
    BY <1>3, <1>4, <1>5, <2>2 DEF Calm, Types
<1>7. Types'
  <2>1. base' \in [Procs -> Int]
    BY <1>3, <1>4 DEF Calm, Types, UNTIDY
  <2> QED
    BY <1>3, <1>6, <2>1 DEF Calm, Types
<1>8. Sound(p)'
  <2>1. Tidiness(p)'
    <3> SUFFICES ASSUME Tidy(p)' PROVE Tidiness(p)'
      BY DEF Tidiness
    <3>1. Tidy(p)
      BY <1>6 DEF Tidy
    <3>2. ~Shrinking(p)' /\ ~Forking(p)'
      BY <1>6 DEF Shrinking, Forking
    <3> QED
      BY <1>1, <1>3, <1>6, <3>1, <3>2, CopyKnown DEF Tidiness
  <2> QED
    BY <1>6, <2>1, Resting
<1>9. Sound(c)'
  <2>1. Tidiness(c)'
    <3> SUFFICES ASSUME Tidy(c)' PROVE Tidiness(c)'
      BY DEF Tidiness
    <3>1. Tidy(p) /\ base'[c] = sz[p]
      BY <1>6 DEF Tidy
    <3>2. ~Shrinking(c)' /\ ~Forking(c)'
      BY <1>6 DEF Shrinking, Forking
    <3> DEFINE top == PageOf(sz[p])
    <3>3. Whole(sz[p]) /\ top \in Nat /\ o.a = sz[p]
      <4>1. Whole(sz[p]) /\ top \in Nat /\ o.a <= o.end
        BY <1>1, <3>1, CopyKnown
      <4> QED
        BY <1>4, <4>1
    <3>4. Span(tab[c], {}, 0, top)
      BY <1>4, <3>3 DEF CopyOf
    <3>5. Recorded(tab[c], top, top, 0, ones[c])
      <4>1. tab[c] \in Tables
        BY <1>4 DEF Shape
      <4>2. Uncut(tab[c], top)
        BY <3>3, <3>4, <4>1, SpanUncut
      <4> QED
        BY <3>3, <4>1, <4>2, RecordedNone
    <3>6. PageOf(sz[c])' = top /\ PageOf(base[c])' = top /\ tab'[c] = tab[c] /\ ones'[c] = ones[c] /\ next'[c] = 0
          /\ base'[c] \in Nat
      BY <1>3, <1>4, <1>5, <1>6, <3>1
    <3> HIDE DEF top
    <3> QED
      BY <1>6, <3>1, <3>2, <3>3, <3>4, <3>5, <3>6 DEF Tidiness
  <2> QED
    BY <1>6, <2>1, Resting
<1>10. \A q \in Procs \ {p, c} : Alike(q) /\ op[q].child \notin {p, c}
  BY <1>3, <1>5, <1>6 DEF Alike
<1>11. Calm'
  <2>1. op'[p].child = NULL /\ op'[c].child = NULL
    BY <1>6 DEF Idle
  <2> QED
    BY <1>7, <1>8, <1>9, <1>10, <2>1, Frame
<1>12. Accounts'
  <2>1. Idle.ret = "none"
    BY DEF Idle
  <2>2. \A s \in Procs : /\ pc'[s] = "unused" <=> pc[s] = "unused"
                         /\ op'[s].ret = "exec" <=> op[s].ret = "exec"
    BY <1>1, <1>4, <1>5, <1>6, <2>1
  <2>3. \A s \in Procs : HeldBy(s)' = HeldBy(s)
    BY <1>3, <2>2 DEF HeldBy
  <2> QED
    BY <1>3, <2>3, SameHolding
<1>13. /\ tab[c].small = {v \in tab[p].small : v * PGSIZE < sz[p]}
       /\ tab[c].super = {r \in tab[p].super : r * SUPERPGSIZE < sz[p]}
  BY <1>4, CopyEnd
<1> QED
  BY <1>2, <1>3, <1>6, <1>11, <1>12, <1>13

-----------------------------------------------------------------------------
(* freeproc, exec and exit.                                                *)

LEMMA ImageSize == BASE * PGSIZE \in Nat /\ PageOf(BASE * PGSIZE) = BASE /\ Whole(BASE * PGSIZE)
                   /\ BASE * PGSIZE <= LIMIT /\ BASE \in Nat /\ BASE >= 1 /\ BASE <= K
<1>1. BASE \in Nat /\ BASE >= 1 /\ BASE <= K
  BY SuperAssumption
<1>2. BASE * PGSIZE <= K * PGSIZE
  BY <1>1, Sizes, Times
<1>3. BASE * PGSIZE \in Nat /\ PageOf(BASE * PGSIZE) = BASE /\ Whole(BASE * PGSIZE)
  BY <1>1, PageStart
<1>4. 2 * SUPERPGSIZE <= LIMIT
  BY SuperAssumption
<1>5. BASE * PGSIZE <= LIMIT
  BY <1>2, <1>3, <1>4, Sizes
<1> QED
  BY <1>1, <1>3, <1>5

\* A process slot that has been given back.
LEMMA SlotSound ==
    ASSUME NEW c \in Procs, pc'[c] = "unused", op'[c] = Idle, next'[c] = 0, tab'[c] = NoTable,
           base'[c] = BASE * PGSIZE
    PROVE  Sound(c)'
<1>1. ~Shrinking(c)' /\ ~Forking(c)' /\ op'[c].child = NULL /\ op'[c].ret = "none"
  BY DEF Shrinking, Forking, Idle
<1>2. Locals(c)'
  BY <1>1 DEF Locals
<1>3. Growing(c)' /\ Copying(c)' /\ Uncopying(c)'
  BY DEF Growing, Copying, Uncopying
<1>4. Tidiness(c)'
  BY <1>1, ImageSize DEF Tidiness
<1> QED
  BY <1>2, <1>3, <1>4 DEF Sound

\* The accounts of freeproc(c).
LEMMA FreeLedger ==
    ASSUME Calm, Accounts, Types', NEW c \in Procs, Mapped(tab[c]) = {},
           pc[c] # "unused", pc'[c] = "unused", op[c].ret # "exec", op'[c].ret # "exec",
           tab' = [tab EXCEPT ![c] = NoTable], superfree' = superfree,
           free' = free + Cardinality(tab[c].l0) + HEAD,
           \A s \in Procs \ {c} : /\ pc'[s] = "unused" <=> pc[s] = "unused"
                                  /\ op'[s].ret = "exec" <=> op[s].ret = "exec"
    PROVE  Accounts'
<1>1. tab[c] \in Tables /\ tab'[c] = NoTable /\ \A s \in Procs \ {c} : tab'[s] = tab[s]
  BY DEF Calm, Types
<1>2. tab[c].small = {} /\ tab[c].super = {}
  BY <1>1, NothingMapped
<1>3. \A s \in Procs \ {c} : HeldBy(s)' = HeldBy(s) /\ tab'[s] = tab[s]
  BY <1>1 DEF HeldBy
<1>4. Heads(c) = HEAD /\ Heads(c)' = 0 /\ NewImage(c) = 0 /\ NewImage(c)' = 0
  BY DEF Heads, NewImage
<1>5. tab'[c].small = {} /\ tab'[c].super = {} /\ tab'[c].l0 = {}
  BY <1>1 DEF NoTable
<1>6. Holding(c) = 0 + Cardinality(tab[c].l0) + HEAD + 0 /\ Holding(c)' = 0 + 0 + 0 + 0
  BY <1>2, <1>4, <1>5, FS_EmptySet DEF Holding
<1>7. free' + Holding(c)' = free + Holding(c)
  <2>1. Cardinality(tab[c].l0) \in Nat /\ HEAD \in Nat /\ free \in Nat
    BY <1>1, Finite, FS_CardinalityType, SuperAssumption DEF Calm, Types
  <2> QED
    BY <1>6, <2>1
<1>8. superfree' + Cardinality(tab'[c].super) = superfree + Cardinality(tab[c].super)
  BY <1>2, <1>5
<1> QED
  BY <1>3, <1>7, <1>8, Ledger DEF Calm

LEMMA ForkFailedStep ==
    ASSUME Calm, Accounts, halt = "no", NEW p \in Procs, ForkFailed(p)
    PROVE  Calm' /\ Accounts' /\ halt' = "no"
<1> DEFINE o == op[p]
<1>1. pc[p] = "unmap" /\ o.a >= o.end /\ o.ret = "fork"
  BY DEF ForkFailed, Unmapped
<1>2. Forking(p) /\ ~Shrinking(p)
  BY <1>1 DEF Forking, Shrinking
<1>3. PICK c \in Procs : c = op[p].child
  BY <1>1, <1>2, Kin
<1>4. c # p /\ pc[c] = "embryo" /\ op[c] = Idle /\ \A q \in Procs \ {p, c} : op[q].child \notin {p, c}
  BY <1>1, <1>2, <1>3, Kin
<1>5. Mapped(tab[c]) = {}
  <2>1. Whole(o.a) /\ Whole(o.end) /\ o.a \in Nat /\ o.end \in Nat
    BY <1>1, Own DEF Uncopying
  <2>2. PICK x \in Nat : /\ Span(tab[c], {}, PageOf(o.a), x)
                         /\ x = PageOf(o.end) \/ x < PageOf(o.end)
    BY <1>1, <1>3, Own DEF Uncopying
  <2>3. PageOf(o.a) \in Nat /\ PageOf(o.end) \in Nat /\ PageOf(o.end) <= PageOf(o.a)
    BY <1>1, <2>1, PageAt, WholeOrder
  <2>4. PageOf(o.a) <= x
    BY <2>2 DEF Span
  <2>5. x = PageOf(o.a)
    BY <2>2, <2>3, <2>4
  <2> QED
    BY <2>2, <2>3, <2>5, SpanEmpty
<1>6. /\ tab' = [tab EXCEPT ![c] = NoTable] /\ free' = free + Cardinality(tab[c].l0) + HEAD
      /\ sz' = [sz EXCEPT ![c] = 0] /\ next' = [next EXCEPT ![c] = 0] /\ op' = [op EXCEPT ![p] = Idle]
      /\ base' = [base EXCEPT ![c] = BASE * PGSIZE] /\ UNCHANGED <<ones, superfree, halt>>
  BY <1>3, <1>5 DEF ForkFailed, freeproc
<1>7. pc' = [pc EXCEPT ![p] = "run", ![c] = "unused"] /\ halt' = "no"
  <2>1. halt' = "no"
    BY <1>6
  <2> QED
    BY <1>3, <2>1 DEF ForkFailed
<1>8. /\ pc'[p] = "run" /\ pc'[c] = "unused" /\ op'[p] = Idle /\ op'[c] = Idle /\ next'[c] = 0
      /\ tab'[c] = NoTable /\ tab'[p] = tab[p] /\ base'[c] = BASE * PGSIZE /\ base'[p] = base[p]
      /\ sz'[p] = sz[p] /\ next'[p] = next[p] /\ ones'[p] = ones[p]
  BY <1>4, <1>6, <1>7 DEF Calm, Types
<1>9. \A q \in Procs \ {p, c} : Alike(q)
  BY <1>4, <1>6, <1>7 DEF Calm, Types, Alike
<1>10. Types'
  <2>1. /\ tab' \in [Procs -> Tables] /\ \A q \in Procs : Shape(tab'[q])
    <3>1. NoTable \in Tables
      BY NoTableIs DEF Shape
    <3> QED
      BY <1>6, <3>1, NoTableIs DEF Calm, Types
  <2>2. sz' \in [Procs -> 0 .. LIMIT] /\ next' \in [Procs -> Nat \cup {-1}]
    <3>1. 0 \in 0 .. LIMIT /\ 0 \in Nat \cup {-1}
      BY Sizes
    <3> QED
      BY <1>6, <3>1 DEF Calm, Types
  <2>3. pc' \in [Procs -> PCs] /\ op' \in [Procs -> Ops] /\ base' \in [Procs -> Int]
    BY <1>6, <1>7, IdleOp, ImageSize DEF Calm, Types, PCs
  <2>4. free' \in Nat
    <3>1. Cardinality(tab[c].l0) \in Nat /\ HEAD \in Nat /\ free \in Nat
      BY Own, Finite, FS_CardinalityType, SuperAssumption DEF Calm, Types
    <3> QED
      BY <1>6, <3>1
  <2> QED
    BY <1>6, <2>1, <2>2, <2>3, <2>4 DEF Calm, Types
<1>11. Sound(c)'
  BY <1>8, SlotSound
<1>12. Sound(p)'
  <2>1. Tidiness(p)'
    <3> SUFFICES ASSUME Tidy(p)' PROVE Tidiness(p)'
      BY DEF Tidiness
    <3>1. Tidy(p)
      BY <1>8 DEF Tidy
    <3>2. ~Shrinking(p)' /\ ~Forking(p)'
      BY <1>8 DEF Shrinking, Forking
    <3>3. /\ base[p] \in Nat /\ Whole(base[p]) /\ Whole(sz[p]) /\ Span(tab[p], {}, 0, PageOf(sz[p]))
          /\ Recorded(tab[p], PageOf(base[p]), PageOf(sz[p]), next[p], ones[p])
      BY <1>1, <1>2, <3>1, Own DEF Tidiness
    <3> QED
      BY <1>8, <3>2, <3>3 DEF Tidiness
  <2> QED
    BY <1>8, <2>1, Resting
<1>13. Idle.child = NULL /\ Idle.ret = "none"
  BY DEF Idle
<1>14. Calm'
  BY <1>4, <1>8, <1>9, <1>10, <1>11, <1>12, <1>13, Frame
<1>15. Accounts'
  <2>1. \A s \in Procs \ {c} : /\ pc'[s] = "unused" <=> pc[s] = "unused"
                               /\ op'[s].ret = "exec" <=> op[s].ret = "exec"
    BY <1>1, <1>8, <1>9, <1>13 DEF Alike
  <2> QED
    BY <1>4, <1>5, <1>6, <1>8, <1>10, <1>13, <2>1, FreeLedger
<1> QED
  BY <1>7, <1>14, <1>15

\* What unmapping has left when it is over.
LEMMA Emptied ==
    ASSUME Calm, NEW p \in Procs, NEW why \in {"exec", "exit"}, Unmapped(p, why), Tidy(p)
    PROVE  Mapped(tab[p]) = {}
<1> DEFINE o == op[p]
<1>1. pc[p] = "unmap" /\ o.a >= o.end /\ o.ret = why
  BY DEF Unmapped
<1>2. /\ Whole(o.a) /\ Whole(o.end) /\ Span(tab[p], {}, PageOf(o.a), PageOf(o.end))
      /\ o.a \in Nat /\ o.end \in Nat
  BY <1>1, Own DEF Tidiness
<1>3. PageOf(o.a) \in Nat /\ PageOf(o.end) \in Nat /\ PageOf(o.end) <= PageOf(o.a)
      /\ PageOf(o.a) <= PageOf(o.end)
  BY <1>1, <1>2, PageAt, WholeOrder DEF Span
<1>4. PageOf(o.a) = PageOf(o.end)
  BY <1>3
<1> QED
  BY <1>2, <1>3, <1>4, SpanEmpty

\* freewalk stops the kernel for programs that are not tidy alone.
LEMMA FreewalkStops ==
    ASSUME Calm, Accounts, NEW p \in Procs, NEW why \in {"exec", "exit"}, Unmapped(p, why),
           Mapped(tab[p]) # {}, Panic("freewalk"), UNCHANGED base
    PROVE  Calm' /\ Accounts' /\ TidyPanics'
<1>1. Calm' /\ Accounts'
  BY Stops
<1>2. ~Tidy(p)
  BY Emptied
<1>3. ~Tidy(p)'
  BY <1>2 DEF Tidy
<1>4. TidyPanics'
  BY <1>3 DEF TidyPanics
<1> QED
  BY <1>1, <1>4

LEMMA ExitDoneStep ==
    ASSUME Calm, Accounts, halt = "no", NEW p \in Procs, ExitDone(p)
    PROVE  Calm' /\ Accounts' /\ TidyPanics'
<1>1. Unmapped(p, "exit") /\ freeproc(p, p)
  BY DEF ExitDone
<1>2. CASE Mapped(tab[p]) # {}
  BY <1>1, <1>2, FreewalkStops DEF freeproc
<1>3. CASE Mapped(tab[p]) = {}
  <2>1. /\ tab' = [tab EXCEPT ![p] = NoTable] /\ free' = free + Cardinality(tab[p].l0) + HEAD
        /\ sz' = [sz EXCEPT ![p] = 0] /\ next' = [next EXCEPT ![p] = 0] /\ op' = [op EXCEPT ![p] = Idle]
        /\ base' = [base EXCEPT ![p] = BASE * PGSIZE] /\ UNCHANGED <<ones, superfree, halt>>
    BY <1>1, <1>3 DEF freeproc
  <2>2. pc' = [pc EXCEPT ![p] = "unused"] /\ halt' = "no"
    <3>1. halt' = "no"
      BY <2>1
    <3> QED
      BY <3>1 DEF ExitDone
  <2>3. /\ pc'[p] = "unused" /\ op'[p] = Idle /\ next'[p] = 0 /\ tab'[p] = NoTable
        /\ base'[p] = BASE * PGSIZE /\ pc[p] = "unmap" /\ op[p].ret = "exit"
    BY <1>1, <2>1, <2>2 DEF Calm, Types, Unmapped
  <2>4. \A q \in Procs \ {p} : Alike(q)
    BY <2>1, <2>2 DEF Calm, Types, Alike
  <2>5. Types'
    <3>1. /\ tab' \in [Procs -> Tables] /\ \A q \in Procs : Shape(tab'[q])
      <4>1. NoTable \in Tables
        BY NoTableIs DEF Shape
      <4> QED
        BY <2>1, <4>1, NoTableIs DEF Calm, Types
    <3>2. sz' \in [Procs -> 0 .. LIMIT] /\ next' \in [Procs -> Nat \cup {-1}]
      <4>1. 0 \in 0 .. LIMIT /\ 0 \in Nat \cup {-1}
        BY Sizes
      <4> QED
        BY <2>1, <4>1 DEF Calm, Types
    <3>3. pc' \in [Procs -> PCs] /\ op' \in [Procs -> Ops] /\ base' \in [Procs -> Int]
      BY <2>1, <2>2, IdleOp, ImageSize DEF Calm, Types, PCs
    <3>4. free' \in Nat
      <4>1. Cardinality(tab[p].l0) \in Nat /\ HEAD \in Nat /\ free \in Nat
        BY Own, Finite, FS_CardinalityType, SuperAssumption DEF Calm, Types
      <4> QED
        BY <2>1, <4>1
    <3> QED
      BY <2>1, <3>1, <3>2, <3>3, <3>4 DEF Calm, Types
  <2>6. Sound(p)'
    BY <2>3, SlotSound
  <2>7. Idle.child = NULL /\ Idle.ret = "none"
    BY DEF Idle
  <2>8. Calm'
    BY <2>3, <2>4, <2>5, <2>6, <2>7, FrameOne
  <2>9. Accounts'
    <3>1. \A s \in Procs \ {p} : /\ pc'[s] = "unused" <=> pc[s] = "unused"
                                 /\ op'[s].ret = "exec" <=> op[s].ret = "exec"
      BY <2>4 DEF Alike
    <3> QED
      BY <1>3, <2>1, <2>3, <2>5, <2>7, <3>1, FreeLedger
  <2> QED
    BY <2>2, <2>8, <2>9, Runs
<1> QED
  BY <1>2, <1>3

\* A process begins to unmap all of its memory.
LEMMA Unloads ==
    ASSUME Calm, NEW p \in Procs, pc[p] = "run", NEW why \in {"exec", "exit"},
           Goto(p, "unmap", [Idle EXCEPT !.end = PGROUNDUP(sz[p]), !.ret = why]),
           UNCHANGED <<tab, sz, ones, next, base>>
    PROVE  /\ Sound(p)' /\ [Idle EXCEPT !.end = PGROUNDUP(sz[p]), !.ret = why] \in Ops
           /\ [Idle EXCEPT !.end = PGROUNDUP(sz[p]), !.ret = why].child = NULL
           /\ [Idle EXCEPT !.end = PGROUNDUP(sz[p]), !.ret = why].ret = why
<1> DEFINE e == PGROUNDUP(sz[p])
           u == [Idle EXCEPT !.end = e, !.ret = why]
<1>1. sz[p] \in Nat
  BY Own
<1>2. e \in Nat /\ (Whole(sz[p]) => e = sz[p])
  BY <1>1, RoundUp
<1> HIDE DEF e
<1>3. u \in Ops
  <2>1. ASSUME NEW q \in Ops, NEW n \in Nat PROVE [q EXCEPT !.end = n, !.ret = why] \in Ops
    BY DEF Ops, Rets
  <2> QED
    BY <1>2, <2>1, IdleOp
<1>4. u.a = 0 /\ u.end = e /\ u.ret = why /\ u.child = NULL
  BY DEF Idle
<1>5. Goto(p, "unmap", u)
  BY DEF e
<1> HIDE DEF u
<1>6. pc'[p] = "unmap" /\ op'[p] = u /\ tab'[p] = tab[p] /\ sz'[p] = sz[p] /\ ones'[p] = ones[p]
      /\ next'[p] = next[p] /\ base'[p] = base[p]
  BY <1>5 DEF Goto, Calm, Types
<1>7. ~Shrinking(p)' /\ ~Forking(p)'
  BY <1>4, <1>6 DEF Shrinking, Forking
<1>8. Locals(p)'
  BY <1>4, <1>6, <1>7 DEF Locals, Rets
<1>9. Growing(p)' /\ Copying(p)' /\ Uncopying(p)'
  BY <1>4, <1>6 DEF Growing, Copying, Uncopying
<1>10. Tidiness(p)'
  <2> SUFFICES ASSUME Tidy(p)' PROVE Tidiness(p)'
    BY DEF Tidiness
  <2>1. Tidy(p)
    BY <1>6 DEF Tidy
  <2>2. ~Shrinking(p)
    BY DEF Shrinking
  <2>3. /\ base[p] \in Nat /\ Whole(base[p]) /\ Whole(sz[p]) /\ Span(tab[p], {}, 0, PageOf(sz[p]))
    BY <2>1, <2>2, Own DEF Tidiness
  <2>4. Whole(0) /\ PageOf(0) = 0
    <3>1. 0 * PGSIZE = 0
      BY Sizes
    <3> QED
      BY <3>1, PageStart
  <2>5. Whole(u.a) /\ Whole(u.end) /\ Span(tab[p], {}, PageOf(u.a), PageOf(u.end))
    BY <1>2, <1>4, <2>3, <2>4
  <2> QED
    BY <1>4, <1>6, <1>7, <2>3, <2>5 DEF Tidiness
<1> QED
  BY <1>3, <1>4, <1>8, <1>9, <1>10 DEF Sound, u, e

LEMMA ExitStep ==
    ASSUME Calm, Accounts, halt = "no", NEW p \in Procs, Exit(p), UNCHANGED base
    PROVE  Calm' /\ Accounts' /\ halt' = "no"
<1> DEFINE u == [Idle EXCEPT !.end = PGROUNDUP(sz[p]), !.ret = "exit"]
<1>1. pc[p] = "run" /\ Goto(p, "unmap", u) /\ UNCHANGED <<tab, sz, ones, next, free, superfree, halt>>
  BY DEF Exit
<1>2. Sound(p)' /\ u \in Ops /\ u.child = NULL /\ u.ret = "exit"
  BY <1>1, Unloads
<1> HIDE DEF u
<1>3. op[p].ret # "exec"
  BY <1>1, Own DEF Locals, Idle
<1> QED
  BY <1>1, <1>2, <1>3, Moves DEF PCs

LEMMA ExecStartStep ==
    ASSUME Calm, Accounts, halt = "no", NEW p \in Procs, ExecStart(p), UNCHANGED base
    PROVE  Calm' /\ Accounts' /\ halt' = "no"
<1> DEFINE u == [Idle EXCEPT !.end = PGROUNDUP(sz[p]), !.ret = "exec"]
           m == TABLES + BASE + 1
<1>1. /\ pc[p] = "run" /\ free >= m /\ free' = free - m /\ superfree' = superfree
      /\ Goto(p, "unmap", u) /\ UNCHANGED <<tab, sz, ones, next, halt>>
  BY DEF ExecStart, kalloc
<1>2. Sound(p)' /\ u \in Ops /\ u.child = NULL /\ u.ret = "exec"
  BY <1>1, Unloads
<1> HIDE DEF u
<1>3. op[p].ret # "exec"
  BY <1>1, Own DEF Locals, Idle
<1>4. m \in Nat /\ free \in Nat /\ free' \in Nat
  <2>1. m \in Nat /\ free \in Nat
    BY SuperAssumption DEF Calm, Types
  <2> HIDE DEF m
  <2> QED
    BY <1>1, <2>1
<1>5. /\ pc' \in [Procs -> PCs] /\ op' \in [Procs -> Ops] /\ pc'[p] = "unmap" /\ op'[p] = u
      /\ \A q \in Procs \ {p} : pc'[q] = pc[q] /\ op'[q] = op[q]
  BY <1>1, <1>2 DEF Calm, Types, Goto, PCs
<1>6. Types'
  BY <1>1, <1>4, <1>5 DEF Calm, Types
<1>7. \A q \in Procs \ {p} : Alike(q)
  BY <1>1, <1>5 DEF Alike
<1>8. Calm'
  BY <1>1, <1>2, <1>5, <1>6, <1>7, FrameOne
<1>9. Accounts'
  <2>1. \A s \in Procs \ {p} : HeldBy(s)' = HeldBy(s) /\ tab'[s] = tab[s]
    BY <1>1, <1>5 DEF HeldBy
  <2>2. Heads(p)' = Heads(p) /\ NewImage(p) = 0 /\ NewImage(p)' = m /\ Heads(p) \in Nat
    BY <1>1, <1>2, <1>3, <1>5, SuperAssumption DEF Heads, NewImage
  <2>3. Cardinality(tab[p].small) \in Nat /\ Cardinality(tab[p].l0) \in Nat
    BY Own, Finite, FS_CardinalityType
  <2> HIDE DEF m
  <2>4. /\ Holding(p) = Cardinality(tab[p].small) + Cardinality(tab[p].l0) + Heads(p) + 0
        /\ Holding(p)' = Cardinality(tab[p].small) + Cardinality(tab[p].l0) + Heads(p) + m
    BY <1>1, <2>2 DEF Holding
  <2>5. free' + Holding(p)' = free + Holding(p)
    BY <1>1, <1>4, <2>2, <2>3, <2>4
  <2>6. superfree' + Cardinality(tab'[p].super) = superfree + Cardinality(tab[p].super)
    BY <1>1
  <2> QED
    BY <1>6, <2>1, <2>5, <2>6, Ledger DEF Calm
<1> QED
  BY <1>1, <1>8, <1>9

\* The table of a fresh program.
LEMMA ImageIs ==
    /\ Shape(Image) /\ Span(Image, {}, 0, BASE) /\ \A on : Recorded(Image, BASE, BASE, 0, on)
    /\ Cardinality(Image.small) = BASE /\ Cardinality(Image.l0) = 1 /\ Cardinality(Image.super) = 0
<1>1. Image.small = 0 .. BASE - 1 /\ Image.super = {} /\ Image.l0 = {0}
  BY DEF Image
<1>2. ASSUME NEW v \in 0 .. BASE - 1 PROVE v \in 0 .. LIMIT \div PGSIZE /\ v \div K = 0
  <2>1. v \in Nat /\ v < BASE /\ v < K
    BY ImageSize, Sizes
  <2>2. v * PGSIZE \in Nat /\ PageOf(v * PGSIZE) = v
    BY <2>1, PageStart
  <2>3. v * PGSIZE <= BASE * PGSIZE
    BY <2>1, Sizes, Times, ImageSize
  <2>4. v * PGSIZE <= LIMIT
    BY <2>2, <2>3, ImageSize, Sizes
  <2>5. v \in 0 .. LIMIT \div PGSIZE
    BY <2>2, <2>4, InLimit
  <2>6. 0 * K <= v /\ v < 0 * K + K
    BY <2>1, Sizes
  <2>7. v \div K = 0
    BY <2>1, <2>6, RegionAt
  <2> QED
    BY <2>5, <2>7
<1>3. 0 \in 0 .. LIMIT \div SUPERPGSIZE
  <2>1. RegionOf(0) \in 0 .. LIMIT \div SUPERPGSIZE
    BY InLimit, Sizes
  <2>2. LIMIT \div SUPERPGSIZE \in Int
    BY Sizes, Quotient
  <2> QED
    BY <2>1, <2>2
<1>4. Image \in Tables
  <2>1. Image.small \in SUBSET (0 .. LIMIT \div PGSIZE) /\ Image.l0 \in SUBSET (0 .. LIMIT \div SUPERPGSIZE)
    BY <1>1, <1>2, <1>3
  <2> QED
    BY <1>1, <2>1 DEF Image, Tables
<1>5. Shape(Image)
  BY <1>1, <1>2, <1>4 DEF Shape
<1>6. Mapped(Image) = 0 .. BASE - 1
  BY <1>1 DEF Mapped
<1>7. Span(Image, {}, 0, BASE)
  BY <1>1, <1>6, ImageSize DEF Span, Clear
<1>8. \A on : Recorded(Image, BASE, BASE, 0, on)
  <2>1. Uncut(Image, BASE)
    BY <1>1 DEF Uncut
  <2> QED
    BY <1>4, <2>1, ImageSize, RecordedNone
<1>9. Cardinality(0 .. BASE - 1) = BASE
  <2>1. 0 \in Int /\ BASE - 1 \in Int /\ ~(0 > BASE - 1) /\ (BASE - 1) - 0 + 1 = BASE
    BY ImageSize
  <2>2. \A i, j \in Int : Cardinality(i .. j) = IF i > j THEN 0 ELSE j - i + 1
    BY FS_Interval
  <2> QED
    BY <2>1, <2>2
<1> QED
  BY <1>1, <1>5, <1>7, <1>8, <1>9, FS_Singleton, FS_EmptySet

\* A process that starts with a fresh image and an empty record.
LEMMA FreshSound ==
    ASSUME NEW p \in Procs, pc'[p] = "run", op'[p] = Idle, tab'[p] = Image, sz'[p] = BASE * PGSIZE,
           Tidy(p)' => base'[p] = BASE * PGSIZE /\ next'[p] = 0
    PROVE  Sound(p)'
<1>1. ~Shrinking(p)' /\ ~Forking(p)'
  BY DEF Shrinking, Forking
<1>2. Tidiness(p)'
  <2> SUFFICES ASSUME Tidy(p)' PROVE Tidiness(p)'
    BY DEF Tidiness
  <2>1. PageOf(base[p])' = BASE /\ PageOf(sz[p])' = BASE /\ base'[p] \in Nat /\ Whole(base'[p]) /\ Whole(sz'[p])
    BY ImageSize
  <2>2. Span(Image, {}, 0, BASE) /\ Recorded(Image, BASE, BASE, 0, ones'[p])
    BY ImageIs
  <2> QED
    BY <1>1, <2>1, <2>2 DEF Tidiness
<1> QED
  BY <1>2, Resting

LEMMA ExecDoneStep ==
    ASSUME Calm, Accounts, halt = "no", NEW p \in Procs, ExecDone(p)
    PROVE  Calm' /\ Accounts' /\ TidyPanics'
<1>1. Unmapped(p, "exec")
  BY DEF ExecDone
<1>2. CASE Mapped(tab[p]) # {}
  BY <1>1, <1>2, FreewalkStops DEF ExecDone
<1>3. CASE Mapped(tab[p]) = {}
  <2>1. /\ tab' = [tab EXCEPT ![p] = Image] /\ free' = free + Cardinality(tab[p].l0) + TABLES
        /\ sz' = [sz EXCEPT ![p] = BASE * PGSIZE] /\ Goto(p, "run", Idle)
        /\ base' = [base EXCEPT ![p] = IF next[p] = 0 THEN BASE * PGSIZE ELSE UNTIDY]
        /\ UNCHANGED <<ones, next, superfree, halt>>
    BY <1>3 DEF ExecDone
  <2>2. /\ pc'[p] = "run" /\ op'[p] = Idle /\ tab'[p] = Image /\ sz'[p] = BASE * PGSIZE
        /\ base'[p] = (IF next[p] = 0 THEN BASE * PGSIZE ELSE UNTIDY) /\ next'[p] = next[p]
        /\ pc[p] = "unmap" /\ op[p].ret = "exec"
    BY <1>1, <2>1 DEF Calm, Types, Unmapped, Goto
  <2>3. \A q \in Procs \ {p} : Alike(q)
    BY <2>1 DEF Calm, Types, Alike, Goto
  <2>4. Cardinality(tab[p].l0) \in Nat /\ HEAD \in Nat /\ TABLES \in Nat /\ free \in Nat /\ BASE \in Nat
    BY Own, Finite, FS_CardinalityType, SuperAssumption DEF Calm, Types
  <2>5. Types'
    <3>1. /\ tab' \in [Procs -> Tables] /\ \A q \in Procs : Shape(tab'[q])
      <4>1. Image \in Tables
        BY ImageIs DEF Shape
      <4> QED
        BY <2>1, <4>1, ImageIs DEF Calm, Types
    <3>2. sz' \in [Procs -> 0 .. LIMIT]
      <4>1. BASE * PGSIZE \in 0 .. LIMIT
        BY ImageSize, Sizes
      <4> QED
        BY <2>1, <4>1 DEF Calm, Types
    <3>3. pc' \in [Procs -> PCs] /\ op' \in [Procs -> Ops] /\ base' \in [Procs -> Int]
      <4>1. pc' \in [Procs -> PCs] /\ op' \in [Procs -> Ops]
        BY <2>1, IdleOp DEF Calm, Types, PCs, Goto
      <4>2. base' \in [Procs -> Int]
        BY <2>1, ImageSize DEF Calm, Types, UNTIDY
      <4> QED
        BY <4>1, <4>2
    <3>4. free' \in Nat
      BY <2>1, <2>4
    <3> QED
      BY <2>1, <3>1, <3>2, <3>3, <3>4 DEF Calm, Types
  <2>6. Sound(p)'
    <3>1. Tidy(p)' => base'[p] = BASE * PGSIZE /\ next'[p] = 0
      BY <2>2 DEF Tidy
    <3> QED
      BY <2>2, <3>1, FreshSound
  <2>7. Idle.child = NULL /\ Idle.ret = "none"
    BY DEF Idle
  <2>8. Calm'
    BY <2>2, <2>3, <2>5, <2>6, <2>7, FrameOne
  <2>9. Accounts'
    <3>1. \A s \in Procs \ {p} : HeldBy(s)' = HeldBy(s) /\ tab'[s] = tab[s]
      BY <2>3 DEF Alike, HeldBy
    <3>2. tab[p].small = {} /\ tab[p].super = {}
      BY <1>3, NothingMapped, Own
    <3>3. Heads(p) = HEAD /\ Heads(p)' = HEAD /\ NewImage(p) = TABLES + BASE + 1 /\ NewImage(p)' = 0
      BY <2>2, <2>7 DEF Heads, NewImage
    <3>4. /\ Holding(p) = 0 + Cardinality(tab[p].l0) + HEAD + (TABLES + BASE + 1)
          /\ Holding(p)' = BASE + 1 + HEAD + 0
      BY <2>2, <3>2, <3>3, ImageIs, FS_EmptySet DEF Holding
    <3>5. free' + Holding(p)' = free + Holding(p)
      BY <2>1, <2>4, <3>4
    <3>6. superfree' + Cardinality(tab'[p].super) = superfree + Cardinality(tab[p].super)
      BY <2>1, <2>2, <3>2, ImageIs, FS_EmptySet
    <3> QED
      BY <2>5, <3>1, <3>5, <3>6, Ledger DEF Calm
  <2>10. halt' = "no"
    BY <2>1
  <2> QED
    BY <2>8, <2>9, <2>10, Runs
<1> QED
  BY <1>2, <1>3

-----------------------------------------------------------------------------
(* The invariant.                                                          *)

\* The first process and the free slots.
LEMMA Starts == Init => Inv
<1> SUFFICES ASSUME Init PROVE Inv
  OBVIOUS
<1>1. PICK first \in Procs :
        /\ tab = [p \in Procs |-> IF p = first THEN Image ELSE NoTable]
        /\ sz = [p \in Procs |-> IF p = first THEN BASE * PGSIZE ELSE 0]
        /\ pc = [p \in Procs |-> IF p = first THEN "run" ELSE "unused"]
  BY DEF Init
<1>2. /\ ones = [p \in Procs |-> {}] /\ next = [p \in Procs |-> 0] /\ op = [p \in Procs |-> Idle]
      /\ free = NPages - HEAD - BASE - 1 /\ superfree = NSuper /\ halt = "no"
      /\ base = [p \in Procs |-> BASE * PGSIZE]
  BY DEF Init
<1>3. Idle.child = NULL /\ Idle.ret = "none"
  BY DEF Idle
<1>4. Types
  <2>1. tab \in [Procs -> Tables] /\ \A p \in Procs : Shape(tab[p])
    <3>1. Image \in Tables /\ NoTable \in Tables
      BY ImageIs, NoTableIs DEF Shape
    <3> QED
      BY <1>1, <3>1, ImageIs, NoTableIs
  <2>2. sz \in [Procs -> 0 .. LIMIT] /\ next \in [Procs -> Nat \cup {-1}]
    <3>1. 0 \in 0 .. LIMIT /\ 0 \in Nat \cup {-1} /\ BASE * PGSIZE \in 0 .. LIMIT
      BY Sizes, ImageSize
    <3> QED
      BY <1>1, <1>2, <3>1
  <2>3. ones \in [Procs -> SUBSET (0 .. RECORD - 1)] /\ pc \in [Procs -> PCs] /\ op \in [Procs -> Ops]
        /\ base \in [Procs -> Int]
    BY <1>1, <1>2, IdleOp, ImageSize DEF PCs
  <2>4. free \in Nat /\ superfree \in Nat
    BY <1>2, SuperAssumption
  <2> QED
    BY <2>1, <2>2, <2>3, <2>4 DEF Types
<1>5. Family
  BY <1>2, <1>3 DEF Family
<1>6. ASSUME NEW p \in Procs PROVE Sound(p)
  <2>1. op[p] = Idle /\ next[p] = 0 /\ base[p] = BASE * PGSIZE /\ pc[p] \in {"run", "unused"}
        /\ (pc[p] = "unused" => tab[p] = NoTable)
        /\ (pc[p] = "run" => tab[p] = Image /\ sz[p] = BASE * PGSIZE)
    BY <1>1, <1>2
  <2>2. ~Shrinking(p) /\ ~Forking(p)
    BY <2>1 DEF Shrinking, Forking
  <2>3. Locals(p)
    BY <1>3, <2>1, <2>2 DEF Locals
  <2>4. Growing(p) /\ Copying(p) /\ Uncopying(p)
    BY <2>1 DEF Growing, Copying, Uncopying
  <2>5. Tidiness(p)
    <3>1. PageOf(base[p]) = BASE /\ base[p] \in Nat /\ Whole(base[p])
      BY <2>1, ImageSize
    <3>2. CASE pc[p] = "unused"
      BY <2>2, <3>1, <3>2 DEF Tidiness
    <3>3. CASE pc[p] = "run"
      <4>1. PageOf(sz[p]) = BASE /\ Whole(sz[p]) /\ Span(tab[p], {}, 0, BASE)
            /\ Recorded(tab[p], BASE, BASE, next[p], ones[p])
        BY <2>1, <3>3, ImageSize, ImageIs
      <4> QED
        BY <2>2, <3>1, <3>3, <4>1 DEF Tidiness
    <3> QED
      BY <2>1, <3>2, <3>3
  <2> QED
    BY <2>3, <2>4, <2>5 DEF Sound
<1>7. Calm
  BY <1>4, <1>5, <1>6 DEF Calm
<1>8. Accounts
  <2>1. ASSUME NEW q \in Procs, q # first PROVE HeldBy(q) = {} /\ tab[q].super = {}
    <3>1. tab[q].small = {} /\ tab[q].l0 = {} /\ tab[q].super = {} /\ pc[q] = "unused" /\ op[q].ret = "none"
      BY <1>1, <1>2, <1>3, <2>1 DEF NoTable
    <3>2. 1 .. 0 = {}
      OBVIOUS
    <3> QED
      BY <3>1, <3>2 DEF HeldBy
  <2>2. tab[first] = Image /\ pc[first] = "run" /\ op[first].ret = "none" /\ tab[first].super = {}
    BY <1>1, <1>2, <1>3 DEF Image
  <2>3. Held = {first} \X HeldBy(first)
    BY <2>1 DEF Held
  <2>4. HeldSuper = {}
    BY <2>1, <2>2 DEF HeldSuper
  <2>5. IsFiniteSet(HeldBy(first)) /\ Cardinality(HeldBy(first)) = Holding(first)
    BY <1>4, HoldingIs DEF Types
  <2>6. Holding(first) = BASE + 1 + HEAD + 0
    BY <2>2, ImageIs DEF Holding, Heads, NewImage
  <2>7. IsFiniteSet(Held) /\ Cardinality(Held) = BASE + 1 + HEAD + 0
    BY <2>3, <2>5, <2>6, Tagged
  <2>8. IsFiniteSet(HeldSuper) /\ Cardinality(HeldSuper) = 0
    BY <2>4, FS_EmptySet
  <2>9. NPages = free + Cardinality(Held)
    BY <1>2, <2>7, ImageSize, SuperAssumption
  <2>10. NSuper = superfree + Cardinality(HeldSuper)
    BY <1>2, <2>8, SuperAssumption
  <2> QED
    BY <2>7, <2>8, <2>9, <2>10 DEF Accounts, PagesConserved
<1>9. TidyPanics
  BY <1>2 DEF TidyPanics
<1>10. Fits
  BY <1>2, Sizes DEF Fits
<1> QED
  BY <1>7, <1>8, <1>9, <1>10, CalmParts DEF Inv

\* What p may do, as in Next.
Acts(p) ==
    \/ \E n \in Grows : SbrkGrow(p, n)
    \/ \E n \in Shrinks : SbrkShrink(p, n)
    \/ ForkDone(p) \/ ForkFailed(p) \/ ExecDone(p) \/ ExitDone(p)
    \/ Quiet(p) /\ UNCHANGED base

\* The record of a tidy process grows only by entries that growproc wrote.
LEMMA FitsStep ==
    ASSUME Calm, Fits, NEW p \in Procs, Acts(p)
    PROVE  Fits'
<1> SUFFICES ASSUME NEW q \in Procs, Tidy(q)' PROVE next'[q] <= RECORD
  BY DEF Fits
<1>1. /\ next \in [Procs -> Nat \cup {-1}] /\ base \in [Procs -> Int] /\ RECORD \in Nat
      /\ next[q] \in Int /\ (Tidy(q) => next[q] <= RECORD)
  BY Sizes DEF Calm, Types, Fits
<1>2. CASE next'[q] = next[q] /\ base'[q] \in {base[q], UNTIDY}
  BY <1>1, <1>2 DEF Tidy
<1>3. CASE next'[q] = 0
  BY <1>1, <1>3
<1>4. CASE (\E n \in Grows : SbrkGrow(p, n)) \/ (\E n \in Shrinks : SbrkShrink(p, n))
  <2>1. next' = next /\ (base' = [base EXCEPT ![p] = base[p]] \/ base' = [base EXCEPT ![p] = UNTIDY])
    BY <1>4 DEF SbrkGrow, SbrkShrink
  <2> QED
    BY <1>1, <1>2, <2>1
<1>5. CASE ForkDone(p)
  <2>1. PICK c \in Procs : c = op[p].child
    BY <1>5, Kin, Own DEF ForkDone, Forking
  <2>2. next' = next /\ base' = [base EXCEPT ![c] = IF Tidy(p) THEN sz[p] ELSE UNTIDY]
    BY <1>5, <2>1 DEF ForkDone
  <2>3. next[c] = 0
    <3>1. pc[c] = "embryo"
      BY <1>5, <2>1, Kin, SuperAssumption DEF ForkDone
    <3> QED
      BY <3>1, Own DEF Locals
  <2> QED
    BY <1>1, <1>2, <1>3, <2>2, <2>3
<1>6. CASE ForkFailed(p) \/ ExitDone(p)
  <2>1. PICK t : freeproc(p, t)
    BY <1>6 DEF ForkFailed, ExitDone
  <2>2. \/ next' = next /\ base' = base
        \/ next' = [next EXCEPT ![t] = 0] /\ base' = [base EXCEPT ![t] = BASE * PGSIZE]
    BY <2>1 DEF freeproc, Panic
  <2> QED
    BY <1>1, <1>2, <1>3, <2>2
<1>7. CASE ExecDone(p)
  <2>1. next' = next /\ (base' = base \/ next[p] = 0 \/ base' = [base EXCEPT ![p] = UNTIDY])
        /\ (q # p => base'[q] = base[q])
    BY <1>1, <1>7 DEF ExecDone, Panic
  <2> QED
    BY <1>1, <1>2, <1>3, <2>1
<1>8. CASE Quiet(p) /\ UNCHANGED base
  <2> SUFFICES ASSUME ~(next'[q] = next[q]) PROVE next'[q] <= RECORD
    BY <1>2, <1>8
  <2>1. GrowDone(p) \/ ShrinkNext(p) \/ ShrinkEnd(p) \/ SplitDone(p)
    BY <1>8 DEF Quiet, AllocSuper, AllocPage, AllocFail, GrowFailed, UnmapStep, ShrinkSplit, ShrinkSuper,
       ShrinkPage, StartDealloc, SplitAlloc, ForkStart, CopyStep, CopyFail, ExecStart, Exit, Panic
  <2>2. q = p
    BY <1>1, <2>1 DEF GrowDone, ShrinkNext, ShrinkEnd, SplitDone, Shrunk, Panic
  <2>3. Tidy(p) /\ next[p] <= RECORD
    BY <1>1, <1>8, <2>2 DEF Tidy
  <2>4. CASE GrowDone(p)
    <3> DEFINE total == op[p].starts + op[p].supers + op[p].ends
    <3>1. next' = [next EXCEPT ![p] = @ + total] /\ next[p] .. next[p] + total - 1 \subseteq 0 .. RECORD - 1
      BY <2>2, <2>4 DEF GrowDone, Panic
    <3>2. total \in Nat /\ next'[p] = next[p] + total
      BY <1>1, <3>1, Own
    <3> HIDE DEF total
    <3>3. next[p] + total - 1 \in next[p] .. next[p] + total - 1
      BY <1>1, <2>2, <3>2
    <3> QED
      BY <1>1, <2>2, <3>1, <3>2, <3>3
  <2>5. CASE ShrinkNext(p)
    <3>1. op[p].i < next[p] /\ op[p].i \in Int
      BY <2>5, Own DEF ShrinkNext, Unmapped, Locals, Shrinking
    <3>2. next'[p] \in {op[p].i - 1, op[p].i}
      BY <1>1, <2>2, <2>5 DEF ShrinkNext, Shrunk, FirstReleased
    <3> QED
      BY <1>1, <2>2, <2>3, <3>1, <3>2
  <2>6. CASE ShrinkEnd(p)
    BY <1>1, <2>2, <2>3, <2>6 DEF ShrinkEnd, Shrunk
  <2>7. CASE SplitDone(p)
    <3>1. Shrinking(p) /\ op[p].ret \in {"split", "lost"}
      BY <2>7 DEF SplitDone, Unmapped, Shrinking
    <3> QED
      BY <2>3, <3>1, NoSplit
  <2> QED
    BY <2>1, <2>4, <2>5, <2>6, <2>7
<1> QED
  BY <1>4, <1>5, <1>6, <1>7, <1>8 DEF Acts

LEMMA QuietStep ==
    ASSUME Calm, Fits, Accounts, halt = "no", NEW p \in Procs, Quiet(p), UNCHANGED base
    PROVE  Calm' /\ Accounts' /\ TidyPanics'
<1>1. CASE AllocSuper(p)
  BY <1>1, AllocSuperStep
<1>2. CASE AllocPage(p)
  BY <1>2, AllocPageStep
<1>3. CASE AllocFail(p)
  BY <1>3, AllocFailStep, Runs
<1>4. CASE GrowDone(p)
  BY <1>4, GrowDoneStep
<1>5. CASE GrowFailed(p)
  BY <1>5, GrowFailedStep, Runs
<1>6. CASE UnmapStep(p)
  BY <1>6, UnmapStepStep
<1>7. CASE ShrinkSplit(p)
  BY <1>7, ShrinkSplitStep, Runs
<1>8. CASE ShrinkSuper(p)
  BY <1>8, ShrinkSuperStep, Runs
<1>9. CASE ShrinkPage(p)
  BY <1>9, ShrinkPageStep, Runs
<1>10. CASE ShrinkNext(p)
  BY <1>10, ShrinkNextStep, Runs
<1>11. CASE ShrinkEnd(p)
  BY <1>11, ShrinkEndStep, Runs
<1>12. CASE SplitAlloc(p)
  BY <1>12, SplitAllocStep, Runs
<1>13. CASE SplitDone(p)
  BY <1>13, SplitDoneStep
<1>14. CASE \E c \in Procs : ForkStart(p, c)
  BY <1>14, ForkStartStep, Runs
<1>15. CASE CopyStep(p)
  BY <1>15, CopyStepStep
<1>16. CASE CopyFail(p)
  BY <1>16, CopyFailStep, Runs
<1>17. CASE ExecStart(p)
  BY <1>17, ExecStartStep, Runs
<1>18. CASE Exit(p)
  BY <1>18, ExitStep, Runs
<1> QED
  BY <1>1, <1>2, <1>3, <1>4, <1>5, <1>6, <1>7, <1>8, <1>9, <1>10, <1>11, <1>12, <1>13, <1>14,
     <1>15, <1>16, <1>17, <1>18 DEF Quiet

LEMMA Keeps == Inv /\ [Next]_vars => Inv'
<1> SUFFICES ASSUME Inv, [Next]_vars PROVE Inv'
  OBVIOUS
<1>1. Calm /\ Fits /\ Accounts /\ TidyPanics
  BY CalmParts DEF Inv
<1>2. Calm' /\ Fits' /\ Accounts' /\ TidyPanics'
  <2>1. CASE UNCHANGED vars
    <3>1. /\ tab' = tab /\ sz' = sz /\ ones' = ones /\ next' = next /\ pc' = pc /\ op' = op
          /\ free' = free /\ superfree' = superfree /\ base' = base /\ halt' = halt
      BY <2>1 DEF vars
    <3>2. Calm' /\ Accounts'
      BY <1>1, <3>1, Stops DEF Panic
    <3>3. TidyPanics' /\ Fits'
      BY <1>1, <3>1 DEF TidyPanics, Fits, Tidy, HeapPages, HeapSupers
    <3> QED
      BY <3>2, <3>3
  <2>2. CASE Next
    <3>1. halt = "no"
      BY <2>2 DEF Next
    <3>2. PICK p \in Procs : Acts(p)
      BY <2>2 DEF Next, Acts
    <3>f. Fits'
      BY <1>1, <3>2, FitsStep
    <3>3. CASE \E n \in Grows : SbrkGrow(p, n)
      BY <1>1, <3>1, <3>f, <3>3, SbrkGrowStep, Runs
    <3>4. CASE \E n \in Shrinks : SbrkShrink(p, n)
      BY <1>1, <3>1, <3>f, <3>4, SbrkShrinkStep, Runs
    <3>5. CASE ForkDone(p)
      BY <1>1, <3>1, <3>f, <3>5, ForkDoneStep, Runs
    <3>6. CASE ForkFailed(p)
      BY <1>1, <3>1, <3>f, <3>6, ForkFailedStep, Runs
    <3>7. CASE ExecDone(p)
      BY <1>1, <3>1, <3>f, <3>7, ExecDoneStep
    <3>8. CASE ExitDone(p)
      BY <1>1, <3>1, <3>f, <3>8, ExitDoneStep
    <3>9. CASE Quiet(p) /\ UNCHANGED base
      BY <1>1, <3>1, <3>f, <3>9, QuietStep
    <3> QED
      BY <3>2, <3>3, <3>4, <3>5, <3>6, <3>7, <3>8, <3>9 DEF Acts
  <2> QED
    BY <2>1, <2>2
<1> QED
  <2>1. (Structure /\ Memory /\ Heaps)'
    BY <1>2 DEF Calm, Sound, Structure, Memory, Heaps
  <2> QED
    BY <1>2, <2>1 DEF Inv

\* Every behaviour of the superpage allocator keeps the invariant: in every
\* turn of growing, splitting, undoing, forking, exec and exit.
THEOREM Correct == Spec => []Inv
<1>1. Init => Inv
  BY Starts
<1>2. Inv /\ [Next]_vars => Inv'
  BY Keeps
<1> QED
  BY <1>1, <1>2, PTL DEF Spec

\* Sizes, tables, records and free lists keep their types and bounds; a
\* region is never both a superpage and a leaf table.
THEOREM TypeCorrect == Spec => []TypeOK
<1>1. Inv => TypeOK
  <2> SUFFICES ASSUME Inv PROVE TypeOK
    OBVIOUS
  <2>1. Types /\ Accounts
    BY DEF Inv, Structure
  <2>2. free \in Nat /\ superfree \in Nat /\ Cardinality(Held) \in Nat /\ Cardinality(HeldSuper) \in Nat
        /\ NPages = free + Cardinality(Held) /\ NSuper = superfree + Cardinality(HeldSuper)
    BY <2>1, FS_CardinalityType DEF Types, Accounts, PagesConserved
  <2>3. free \in 0 .. NPages /\ superfree \in 0 .. NSuper
    BY <2>2
  <2>4. \A p \in Procs : tab[p].super \cap tab[p].l0 = {}
    BY <2>1 DEF Types, Shape
  <2> QED
    BY <2>1, <2>3, <2>4 DEF TypeOK, Types, Tables, PCs
<1> QED
  BY <1>1, Correct, PTL

\* kalloc.c: no page or superpage is lost or given back twice, whatever
\* fails half-way and in the state in which the kernel panics.
THEOREM Conserved == Spec => []PagesConserved
<1>1. Inv => PagesConserved
  BY DEF Inv, Accounts
<1> QED
  BY <1>1, Correct, PTL

\* A program that asks for whole pages and never cuts a superpage in two
\* stops the kernel in three ways only.
THEOREM PanicsKnown == Spec => []TidyPanics
<1>1. Inv => TidyPanics
  BY DEF Inv
<1> QED
  BY <1>1, Correct, PTL

\* What one process has mapped is part of the memory there is.
LEMMA HeapBound ==
    ASSUME Calm, Accounts, NEW p \in Procs
    PROVE  Cardinality(HeapPages(p)) + Cardinality(HeapSupers(p)) <= NPages + NSuper
<1>1. tab[p] \in Tables
  BY Own
<1>2. IsFiniteSet(tab[p].small) /\ IsFiniteSet(tab[p].super)
  BY <1>1, Finite
<1>3. HeapPages(p) \subseteq tab[p].small /\ HeapSupers(p) \subseteq tab[p].super
  BY DEF HeapPages, HeapSupers
<1>4. /\ Cardinality(HeapPages(p)) \in Nat /\ Cardinality(HeapPages(p)) <= Cardinality(tab[p].small)
      /\ Cardinality(HeapSupers(p)) \in Nat /\ Cardinality(HeapSupers(p)) <= Cardinality(tab[p].super)
  BY <1>2, <1>3, FS_Subset, FS_CardinalityType
<1> DEFINE A == {p} \X ({"page"} \X tab[p].small)
           B == {p} \X tab[p].super
<1>5. A \subseteq Held /\ B \subseteq HeldSuper
  BY DEF Held, HeldBy, HeldSuper
<1>6. Cardinality(A) = Cardinality(tab[p].small) /\ Cardinality(B) = Cardinality(tab[p].super)
  <2> DEFINE C == {"page"} \X tab[p].small
  <2>1. IsFiniteSet(C) /\ Cardinality(C) = Cardinality(tab[p].small)
    BY <1>2, Tagged
  <2> HIDE DEF C
  <2>2. Cardinality({p} \X C) = Cardinality(C) /\ Cardinality(B) = Cardinality(tab[p].super)
    BY <1>2, <2>1, Tagged
  <2> QED
    BY <2>1, <2>2 DEF C
<1> HIDE DEF A, B
<1>7. /\ Cardinality(A) <= Cardinality(Held) /\ Cardinality(B) <= Cardinality(HeldSuper)
      /\ Cardinality(A) \in Nat /\ Cardinality(B) \in Nat
      /\ Cardinality(Held) \in Nat /\ Cardinality(HeldSuper) \in Nat
  BY <1>5, FS_Subset, FS_CardinalityType DEF Accounts
<1>8. free \in Nat /\ superfree \in Nat /\ NPages = free + Cardinality(Held)
      /\ NSuper = superfree + Cardinality(HeldSuper)
  BY DEF Calm, Types, Accounts, PagesConserved
<1> QED
  BY <1>4, <1>6, <1>7, <1>8

\* With a record as long as the memory has pages and superpages, as the
\* repository's is, growproc writes none of a tidy program's entries past
\* its end.
THEOREM RecordSuffices ==
    NPages + NSuper <= RECORD =>
      (Spec => [](halt = "wild" => \E p \in Procs : ~Tidy(p)))
<1> SUFFICES ASSUME NPages + NSuper <= RECORD
             PROVE  Spec => [](halt = "wild" => \E p \in Procs : ~Tidy(p))
  OBVIOUS
<1>1. Inv => (halt = "wild" => \E p \in Procs : ~Tidy(p))
  <2> SUFFICES ASSUME Inv, halt = "wild", \A p \in Procs : Tidy(p) PROVE FALSE
    OBVIOUS
  <2>1. Calm /\ Accounts
    BY CalmParts DEF Inv
  <2>2. PICK p \in Procs : Cardinality(HeapPages(p)) + Cardinality(HeapSupers(p)) > RECORD
    BY DEF Inv, TidyPanics
  <2>3. Cardinality(HeapPages(p)) + Cardinality(HeapSupers(p)) <= NPages + NSuper
    BY <2>1, HeapBound
  <2>4. Cardinality(HeapPages(p)) \in Nat /\ Cardinality(HeapSupers(p)) \in Nat
    <3>1. IsFiniteSet(tab[p].small) /\ IsFiniteSet(tab[p].super)
      BY <2>1, Own, Finite
    <3>2. HeapPages(p) \subseteq tab[p].small /\ HeapSupers(p) \subseteq tab[p].super
      BY DEF HeapPages, HeapSupers
    <3> QED
      BY <3>1, <3>2, FS_Subset, FS_CardinalityType
  <2> QED
    BY <2>2, <2>3, <2>4, SuperAssumption
<1> QED
  BY <1>1, Correct, PTL

\* The heap of a tidy process, in the terms of the properties.
LEMMA RecordMeans ==
    ASSUME Calm, NEW p \in Procs, pc[p] = "run", Tidy(p)
    PROVE  /\ Mapped(tab[p]) = 0 .. PageOf(sz[p]) - 1
           /\ next[p] = Cardinality(HeapPages(p)) + Cardinality(HeapSupers(p))
           /\ ones[p] \cap 0 .. next[p] - 1 = {EntryOf(p, q) : q \in HeapSupers(p)}
<1> DEFINE t == tab[p]
           b == PageOf(base[p])
           top == PageOf(sz[p])
<1>1. /\ base[p] \in Nat /\ Whole(base[p]) /\ Span(t, {}, 0, top) /\ Recorded(t, b, top, next[p], ones[p])
  BY Own DEF Tidiness
<1>2. sz[p] \in Nat /\ t \in Tables
  BY Own
<1>3. b \in Nat /\ top \in Nat /\ base[p] = b * PGSIZE
  BY <1>1, <1>2, PageAt DEF Whole
<1>4. t.small \subseteq Nat /\ t.super \subseteq Nat
  BY <1>2 DEF Tables
<1> HIDE DEF b, top
<1>5. (\A r \in t.super : r * K + K <= top) /\ (\A v \in t.small : v < top)
  BY <1>1, <1>2, <1>3, SpanUncut
<1>6. ASSUME NEW v \in t.small PROVE v * PGSIZE >= base[p] <=> b <= v
  BY <1>1, <1>2, InHeap DEF b
<1>7. ASSUME NEW q \in t.super PROVE (q * SUPERPGSIZE >= base[p] <=> b <= q * K) /\ q * K \in Nat /\ q \in Nat
  BY <1>1, <1>2, InHeap DEF b
<1>8. HeapPages(p) = PagesIn(t, b, top) /\ HeapSupers(p) = SupersIn(t, b, top)
  BY <1>1, <1>2, <1>3, HeapEntries DEF b
<1>9. HeapSupers(p) = SupersIn(t, b, top)
  BY <1>8
<1>10. ASSUME NEW q \in HeapSupers(p) PROVE EntryOf(p, q) = Count(t, b, q * K)
  <2>1. q \in t.super
    BY DEF HeapSupers
  <2>2. {v \in HeapPages(p) : v < q * K} = PagesIn(t, b, q * K)
    BY <1>6 DEF HeapPages, PagesIn
  <2>3. {s \in HeapSupers(p) : s < q} = SupersIn(t, b, q * K)
    <3>1. \A s \in t.super : s < q <=> s * K < q * K
      BY <1>4, <2>1, SuperStart
    <3> QED
      BY <1>7, <3>1 DEF HeapSupers, SupersIn
  <2> QED
    BY <2>2, <2>3 DEF EntryOf, Count
<1>11. /\ next[p] = Count(t, b, top)
       /\ ones[p] \cap (0 .. next[p] - 1) = Positions(t, b, b, top)
  BY <1>1 DEF Recorded
<1>12. Positions(t, b, b, top) = {EntryOf(p, q) : q \in HeapSupers(p)}
  BY <1>9, <1>10 DEF Positions
<1>13. next[p] = Cardinality(HeapPages(p)) + Cardinality(HeapSupers(p))
  BY <1>8, <1>9, <1>11 DEF Count
<1>14. Mapped(t) = 0 .. top - 1
  BY <1>1 DEF Span
<1> QED
  BY <1>11, <1>12, <1>13, <1>14 DEF top

\* Between two calls of a tidy program its memory has no hole, and the
\* record that growproc updates by hand has one entry per page and per
\* superpage of the heap, in the order of their addresses.
THEOREM RecordRight == Spec => []TidyHeap
<1>1. Inv => TidyHeap
  <2> SUFFICES ASSUME Inv PROVE TidyHeap
    OBVIOUS
  <2>1. Calm
    BY CalmParts DEF Inv
  <2> QED
    BY <2>1, RecordMeans DEF TidyHeap
<1> QED
  BY <1>1, Correct, PTL

\* The others go on without touching a process that is in the kernel.
LEMMA Apart ==
    ASSUME Calm, NEW p \in Procs, NEW q \in Procs, p # q, pc[p] \notin {"unused", "embryo"}, Acts(q)
    PROVE  pc'[p] = pc[p] /\ sz'[p] = sz[p] /\ next'[p] = next[p]
<1>1. pc \in [Procs -> PCs] /\ sz \in [Procs -> 0 .. LIMIT] /\ next \in [Procs -> Nat \cup {-1}]
  BY DEF Calm, Types
<1>2. op[q].child # p
  BY Kin
<1>3. CASE \E n \in Grows : SbrkGrow(q, n)
  BY <1>1, <1>3 DEF SbrkGrow, Goto
<1>4. CASE \E n \in Shrinks : SbrkShrink(q, n)
  BY <1>1, <1>4 DEF SbrkShrink, Goto
<1>5. CASE ForkDone(q)
  BY <1>1, <1>2, <1>5 DEF ForkDone
<1>6. CASE ForkFailed(q)
  BY <1>1, <1>2, <1>6 DEF ForkFailed, freeproc, Panic
<1>7. CASE ExecDone(q)
  BY <1>1, <1>7 DEF ExecDone, Panic, Goto
<1>8. CASE ExitDone(q)
  BY <1>1, <1>8 DEF ExitDone, freeproc, Panic
<1>9. CASE AllocSuper(q) \/ AllocPage(q) \/ AllocFail(q)
  BY <1>1, <1>9 DEF AllocSuper, AllocPage, AllocFail, Panic, Goto
<1>10. CASE GrowDone(q) \/ GrowFailed(q) \/ UnmapStep(q)
  BY <1>1, <1>10 DEF GrowDone, GrowFailed, UnmapStep, Panic, Goto
<1>11. CASE ShrinkSplit(q) \/ ShrinkSuper(q) \/ ShrinkPage(q)
  BY <1>1, <1>11 DEF ShrinkSplit, ShrinkSuper, ShrinkPage, StartDealloc, Goto
<1>12. CASE ShrinkNext(q) \/ ShrinkEnd(q)
  BY <1>1, <1>12 DEF ShrinkNext, ShrinkEnd, Shrunk, Goto
<1>13. CASE SplitAlloc(q) \/ SplitDone(q)
  BY <1>1, <1>13 DEF SplitAlloc, SplitDone, Shrunk, Panic, Goto
<1>14. CASE \E c \in Procs : ForkStart(q, c)
  BY <1>1, <1>14 DEF ForkStart
<1>15. CASE CopyStep(q) \/ CopyFail(q)
  BY <1>1, <1>15 DEF CopyStep, CopyFail, Panic, Goto
<1>16. CASE ExecStart(q) \/ Exit(q)
  BY <1>1, <1>16 DEF ExecStart, Exit, Goto
<1> QED
  BY <1>3, <1>4, <1>5, <1>6, <1>7, <1>8, <1>9, <1>10, <1>11, <1>12, <1>13, <1>14, <1>15, <1>16 DEF Acts, Quiet

\* What p itself may do from the end of uvmcopy's loop, and after a failed growth.
LEMMA OwnCopy ==
    ASSUME Calm, NEW p \in Procs, pc[p] = "copy", pc'[p] = "run", Acts(p)
    PROVE  ForkDone(p)
<1>1. pc \in [Procs -> PCs]
  BY DEF Calm, Types
<1>2. ~CopyStep(p) /\ ~CopyFail(p)
  BY <1>1 DEF CopyStep, CopyFail, Panic, Goto
<1> QED
  BY <1>2 DEF Acts, Quiet, SbrkGrow, SbrkShrink, ForkFailed, ExecDone, ExitDone, AllocSuper, AllocPage,
       AllocFail, GrowDone, GrowFailed, UnmapStep, ShrinkSplit, ShrinkSuper, ShrinkPage, ShrinkNext,
       ShrinkEnd, SplitAlloc, SplitDone, ForkStart, ExecStart, Exit, Unmapped

LEMMA OwnFailed ==
    ASSUME Calm, NEW p \in Procs, Unmapped(p, "failed"), pc'[p] = "run", Acts(p)
    PROVE  GrowFailed(p)
<1>1. pc[p] = "unmap" /\ op[p].a >= op[p].end /\ op[p].ret = "failed" /\ op[p].a \in Nat /\ op[p].end \in Nat
  BY Own DEF Unmapped
<1>2. ~(op[p].a < op[p].end)
  BY <1>1
<1> QED
  BY <1>1, <1>2 DEF Acts, Quiet, SbrkGrow, SbrkShrink, ForkDone, ForkFailed, ExecDone, ExitDone, AllocSuper,
       AllocPage, AllocFail, GrowDone, UnmapStep, ShrinkSplit, ShrinkSuper, ShrinkPage, ShrinkNext,
       ShrinkEnd, SplitAlloc, SplitDone, ForkStart, CopyStep, CopyFail, ExecStart, Exit, Unmapped

\* A fork that returns gives the child exactly the parent's memory up to
\* its size, whatever sbrk calls shaped it and whoever allocates meanwhile.
THEOREM ForkCopiesAll == Spec => ForkExact
<1> DEFINE Exact == \A p, c \in Procs :
          pc[p] = "copy" /\ op[p].child = c /\ pc'[p] = "run" =>
            /\ sz'[c] = sz[p]
            /\ tab[c].small = {v \in tab[p].small : v * PGSIZE < sz[p]}
            /\ tab[c].super = {r \in tab[p].super : r * SUPERPGSIZE < sz[p]}
<1>1. Inv /\ [Next]_vars => [Exact]_vars
  <2> SUFFICES ASSUME Inv, Next PROVE Exact
    OBVIOUS
  <2>1. Calm /\ Accounts /\ halt = "no"
    BY CalmParts DEF Inv, Next
  <2>2. PICK q \in Procs : Acts(q)
    BY DEF Next, Acts
  <2> SUFFICES ASSUME NEW p \in Procs, NEW c \in Procs, pc[p] = "copy", op[p].child = c, pc'[p] = "run"
               PROVE  /\ sz'[c] = sz[p]
                      /\ tab[c].small = {v \in tab[p].small : v * PGSIZE < sz[p]}
                      /\ tab[c].super = {r \in tab[p].super : r * SUPERPGSIZE < sz[p]}
    OBVIOUS
  <2>3. p = q
    BY <2>1, <2>2, Apart
  <2>4. ForkDone(p)
    BY <2>1, <2>2, <2>3, OwnCopy
  <2> QED
    BY <2>1, <2>4, ForkDoneStep
<1> QED
  BY <1>1, Correct, PTL DEF Spec, ForkExact

\* sbrk that returns -1 has unmapped what it mapped and nothing else, and
\* leaves the size and the record as they were.
THEOREM FailedGrowUndoes == Spec => FailedGrowUndone
<1> DEFINE Undone == \A p \in Procs :
          Unmapped(p, "failed") /\ pc'[p] = "run" =>
            /\ Mapped(tab[p]) = op[p].was
            /\ sz'[p] = sz[p] /\ next'[p] = next[p]
<1>1. Inv /\ [Next]_vars => [Undone]_vars
  <2> SUFFICES ASSUME Inv, Next PROVE Undone
    OBVIOUS
  <2>1. Calm /\ Accounts /\ halt = "no"
    BY CalmParts DEF Inv, Next
  <2>2. PICK q \in Procs : Acts(q)
    BY DEF Next, Acts
  <2> SUFFICES ASSUME NEW p \in Procs, Unmapped(p, "failed"), pc'[p] = "run"
               PROVE  Mapped(tab[p]) = op[p].was /\ sz'[p] = sz[p] /\ next'[p] = next[p]
    OBVIOUS
  <2>3. pc[p] = "unmap"
    BY DEF Unmapped
  <2>4. p = q
    BY <2>1, <2>2, <2>3, Apart
  <2>5. GrowFailed(p)
    BY <2>1, <2>2, <2>4, OwnFailed
  <2>6. UNCHANGED base
    BY <2>2, <2>3, <2>4, <2>5 DEF Acts, SbrkGrow, SbrkShrink, ForkDone, ForkFailed, ExecDone, ExitDone, Unmapped
  <2>7. Mapped(tab[p]) = op[p].was
    BY <2>1, <2>5, <2>6, GrowFailedStep
  <2> QED
    BY <2>5, <2>7 DEF GrowFailed
<1> QED
  BY <1>1, Correct, PTL DEF Spec, FailedGrowUndone

=============================================================================
