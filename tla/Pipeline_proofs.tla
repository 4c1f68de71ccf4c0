--------------------------- MODULE Pipeline_proofs ---------------------------
(***************************************************************************)
(* Proofs about Pipeline, for any directory tree, any numbers of           *)
(* descriptors and processes and a pipe of any size: find closes what it   *)
(* opens, and xargs runs its lines in order and once.                      *)
(***************************************************************************)
EXTENDS Pipeline, SequenceTheorems, TLAPS

Texts == Nodes \cup {Message}
Frames == [node : Nodes, i : Nat]
FPCs == {"open", "stat", "loop", "print", "newline", "close", "done", "killed"}
XPCs == {"read", "fork", "wait", "exec", "command", "done"}
Processes == [pc : XPCs, buf : Seq(Texts)]
Over == {"done", "killed"}

\* The calls of find: directories above, and a descriptor for each call that
\* got one.
Walking ==
    /\ stack \in Seq(Frames) /\ fpc \in FPCs /\ fds \in Nat /\ room \in Nat
    /\ stack = <<>> <=> fpc \in Over
    /\ \A k \in 1 .. Len(stack) - 1 : Type[stack[k].node] = "dir"
    /\ fpc = "loop" => Type[Node] = "dir"
    /\ fds = (IF fpc = "open" THEN Len(stack) - 1 ELSE Len(stack))
    /\ fds <= NFD

Typed ==
    /\ lines \in Seq(Texts) /\ pipe \in Seq(Texts \cup {NL})
    /\ xargs \in Seq(Processes) /\ xargs # <<>>
    /\ ran \in Seq(Seq(Texts)) /\ mishap \in BOOLEAN

Fresh == IF fpc = "newline" THEN 1 ELSE 0

\* xargs has read the text of m lines and all of their newlines but h; the
\* pipe holds the rest, text and newline in turn.
Flow(m, h) ==
    /\ m <= Len(lines)
    /\ h = 1 => m >= 1 /\ Active.pc = "read"
    /\ Len(pipe) = 2 * (Len(lines) - m) + h - Fresh
    /\ \A k \in 1 .. Len(lines) - m : pipe[2 * k - 1 + h] = lines[m + k]
    /\ \A k \in 0 .. Len(lines) - m : 2 * k + h \in 1 .. Len(pipe) => pipe[2 * k + h] = NL

\* The commands run, and the line that is to be the next one's argument.
Handed == IF Active.pc \in {"read", "fork", "exec"} THEN Append(ran, Active.buf) ELSE ran

\* The names in r are lines among the first m, in their order.
Placed(r, l, m) ==
    \E place \in [Given(r) -> 1 .. m] :
      /\ \A g \in Given(r) : l[place[g]] = r[g[1]][g[2]]
      /\ \A g, h \in Given(r) : Before(g, h) => place[g] < place[h]

\* While no fork and no exec has failed.
OneEach(m, h) ==
    /\ \A i \in 1 .. Len(ran) : ran[i] = <<lines[i]>>
    /\ Active.pc \in {"read", "fork", "done"} => Len(xargs) = 1
    /\ Active.pc \in {"exec", "command"} => Len(xargs) = 2
    /\ Active.pc # "wait"
    /\ Active.pc = "read" /\ h = 0 => Len(ran) = m /\ Active.buf = <<>>
    /\ (Active.pc = "read" /\ h = 1) \/ Active.pc \in {"fork", "exec"} =>
         Len(ran) = m - 1 /\ m >= 1 /\ Active.buf = <<lines[m]>>
    /\ Active.pc = "command" => Len(ran) = m
    /\ Active.pc = "done" => Len(ran) = m /\ m = Len(lines) /\ fpc \in Over

Fits(m, h) == Flow(m, h) /\ Placed(Handed, lines, m) /\ (~mishap => OneEach(m, h))

Inv == Walking /\ Typed /\ \E m \in 0 .. Len(lines), h \in {0, 1} : Fits(m, h)

-----------------------------------------------------------------------------
(* Which names the commands of a list got, and where they come from.       *)

LEMMA GivenIs ==
    ASSUME NEW T, NEW r \in Seq(Seq(T)), NEW g
    PROVE  g \in Given(r) <=> /\ g \in Nat \X Nat
                             /\ g[1] \in 1 .. Len(r) /\ g[2] \in 1 .. Len(r[g[1]])
<1>1. DOMAIN r = 1 .. Len(r) /\ \A i \in 1 .. Len(r) : r[i] \in Seq(T)
  OBVIOUS
<1>2. \A i \in 1 .. Len(r) : DOMAIN r[i] = 1 .. Len(r[i])
  BY <1>1
<1>3. g \in Given(r) <=> \E i \in 1 .. Len(r) : g \in {i} \X (1 .. Len(r[i]))
  BY <1>1, <1>2 DEF Given
<1>4. \A i \in 1 .. Len(r) : i \in Nat /\ 1 .. Len(r[i]) \subseteq Nat
  BY <1>1
<1> QED
  BY <1>3, <1>4

\* A command without arguments gets no name.
LEMMA GivenEmpty ==
    ASSUME NEW T, NEW r \in Seq(Seq(T))
    PROVE  Given(Append(r, <<>>)) = Given(r)
<1> DEFINE s == Append(r, <<>>)
<1>1. s \in Seq(Seq(T)) /\ Len(s) = Len(r) + 1 /\ s[Len(r) + 1] = <<>>
      /\ \A i \in 1 .. Len(r) : s[i] = r[i]
  OBVIOUS
<1> HIDE DEF s
<1>2. ASSUME NEW g PROVE g \in Given(s) <=> g \in Given(r)
  <2>1. g \in Given(s) <=> /\ g \in Nat \X Nat
                          /\ g[1] \in 1 .. Len(s) /\ g[2] \in 1 .. Len(s[g[1]])
    BY <1>1, GivenIs
  <2>2. g \in Given(r) <=> /\ g \in Nat \X Nat
                          /\ g[1] \in 1 .. Len(r) /\ g[2] \in 1 .. Len(r[g[1]])
    BY GivenIs
  <2>3. Len(<<>>) = 0 /\ Len(r) \in Nat
    OBVIOUS
  <2>4. CASE g[1] = Len(r) + 1
    BY <1>1, <2>1, <2>2, <2>3, <2>4
  <2>5. CASE g[1] # Len(r) + 1
    <3>1. g[1] \in 1 .. Len(s) <=> g[1] \in 1 .. Len(r)
      BY <1>1, <2>3, <2>5
    <3>2. g[1] \in 1 .. Len(r) => Len(s[g[1]]) = Len(r[g[1]])
      BY <1>1
    <3> QED
      BY <2>1, <2>2, <3>1, <3>2
  <2> QED
    BY <2>4, <2>5
<1> QED
  BY <1>2 DEF s

\* The names of a list whose last command has one name more.
LEMMA GivenMore ==
    ASSUME NEW T, NEW r \in Seq(Seq(T)), NEW b \in Seq(T), NEW x \in T
    PROVE  LET r1 == Append(r, b)
               r2 == Append(r, Append(b, x))
               last == <<Len(r) + 1, Len(b) + 1>>
           IN  /\ Given(r2) = Given(r1) \cup {last}
               /\ last \notin Given(r1)
               /\ r2[last[1]][last[2]] = x
               /\ \A g \in Given(r1) : r2[g[1]][g[2]] = r1[g[1]][g[2]] /\ Before(g, last) /\ ~Before(last, g)
<1> DEFINE r1 == Append(r, b)
           r2 == Append(r, Append(b, x))
           last == <<Len(r) + 1, Len(b) + 1>>
           c == Append(b, x)
<1>1. c \in Seq(T) /\ Len(c) = Len(b) + 1 /\ c[Len(b) + 1] = x
      /\ \A i \in 1 .. Len(b) : c[i] = b[i]
  OBVIOUS
<1>2. r1 \in Seq(Seq(T)) /\ Len(r1) = Len(r) + 1 /\ r1[Len(r) + 1] = b
      /\ \A i \in 1 .. Len(r) : r1[i] = r[i]
  OBVIOUS
<1>3. r2 \in Seq(Seq(T)) /\ Len(r2) = Len(r) + 1 /\ r2[Len(r) + 1] = c
      /\ \A i \in 1 .. Len(r) : r2[i] = r[i]
  BY <1>1
<1>4. last \in Nat \X Nat /\ last[1] = Len(r) + 1 /\ last[2] = Len(b) + 1
  OBVIOUS
<1>5. Len(r) \in Nat /\ Len(b) \in Nat /\ \A i \in 1 .. Len(r) : Len(r[i]) \in Nat
  OBVIOUS
<1> HIDE DEF r1, r2, c
<1>6. ASSUME NEW g PROVE g \in Given(r2) <=> g \in Given(r1) \cup {last}
  <2>1. g \in Given(r2) <=> /\ g \in Nat \X Nat
                           /\ g[1] \in 1 .. Len(r2) /\ g[2] \in 1 .. Len(r2[g[1]])
    BY <1>3, GivenIs
  <2>2. g \in Given(r1) <=> /\ g \in Nat \X Nat
                           /\ g[1] \in 1 .. Len(r1) /\ g[2] \in 1 .. Len(r1[g[1]])
    BY <1>2, GivenIs
  <2>3. g \in Nat \X Nat => (g = last <=> g[1] = Len(r) + 1 /\ g[2] = Len(b) + 1)
    BY <1>4
  <2>4. CASE g \in Nat \X Nat /\ g[1] = Len(r) + 1
    <3>1. g \in Given(r2) <=> g[2] \in 1 .. Len(b) + 1
      BY <1>1, <1>3, <1>5, <2>1, <2>4
    <3>2. g \in Given(r1) <=> g[2] \in 1 .. Len(b)
      BY <1>2, <1>5, <2>2, <2>4
    <3> QED
      BY <1>5, <2>3, <2>4, <3>1, <3>2
  <2>5. CASE g \in Nat \X Nat /\ g[1] # Len(r) + 1
    <3>1. g[1] \in 1 .. Len(r) + 1 <=> g[1] \in 1 .. Len(r)
      BY <1>5, <2>5
    <3>2. g[1] \in 1 .. Len(r) => r2[g[1]] = r1[g[1]]
      BY <1>2, <1>3
    <3> QED
      BY <1>2, <1>3, <2>1, <2>2, <2>3, <2>5, <3>1, <3>2
  <2> QED
    BY <1>4, <2>1, <2>2, <2>4, <2>5
<1>7. last \notin Given(r1)
  BY <1>2, <1>4, <1>5, GivenIs
<1>8. r2[last[1]][last[2]] = x
  BY <1>1, <1>3, <1>4
<1>9. ASSUME NEW g \in Given(r1)
      PROVE  r2[g[1]][g[2]] = r1[g[1]][g[2]] /\ Before(g, last) /\ ~Before(last, g)
  <2>1. g \in Nat \X Nat /\ g[1] \in 1 .. Len(r1) /\ g[2] \in 1 .. Len(r1[g[1]])
    BY <1>2, GivenIs
  <2>2. CASE g[1] \in 1 .. Len(r)
    BY SMTT(30), <1>2, <1>3, <1>4, <1>5, <2>1, <2>2 DEF Before
  <2>3. CASE g[1] = Len(r) + 1
    BY <1>1, <1>2, <1>3, <1>4, <1>5, <2>1, <2>3 DEF Before
  <2> QED
    BY <1>2, <1>5, <2>1, <2>2, <2>3
<1> QED
  BY <1>6, <1>7, <1>8, <1>9 DEF r1, r2, c

\* The next line goes to the end of the last command.
LEMMA PlaceMore ==
    ASSUME NEW T, NEW r \in Seq(Seq(T)), NEW b \in Seq(T), NEW l \in Seq(T),
           NEW m \in Nat, m + 1 <= Len(l), Placed(Append(r, b), l, m)
    PROVE  Placed(Append(r, Append(b, l[m + 1])), l, m + 1)
<1> DEFINE x == l[m + 1]
           r1 == Append(r, b)
           r2 == Append(r, Append(b, x))
           last == <<Len(r) + 1, Len(b) + 1>>
<1>1. x \in T
  OBVIOUS
<1> HIDE DEF x
<1>2. /\ Given(r2) = Given(r1) \cup {last}
      /\ last \notin Given(r1)
      /\ r2[last[1]][last[2]] = x
      /\ \A g \in Given(r1) : r2[g[1]][g[2]] = r1[g[1]][g[2]] /\ Before(g, last) /\ ~Before(last, g)
  BY <1>1, GivenMore
<1>3. ~Before(last, last)
  BY DEF Before
<1> HIDE DEF last, r1, r2
<1>4. PICK place \in [Given(r1) -> 1 .. m] :
        /\ \A g \in Given(r1) : l[place[g]] = r1[g[1]][g[2]]
        /\ \A g, h \in Given(r1) : Before(g, h) => place[g] < place[h]
  BY DEF Placed, r1
<1> DEFINE more == [g \in Given(r2) |-> IF g = last THEN m + 1 ELSE place[g]]
<1>5. more \in [Given(r2) -> 1 .. m + 1]
  BY <1>2, <1>4
<1>6. more[last] = m + 1 /\ \A g \in Given(r1) : more[g] = place[g] /\ place[g] \in 1 .. m
  BY <1>2, <1>4
<1> HIDE DEF more
<1>7. \A g \in Given(r2) : l[more[g]] = r2[g[1]][g[2]]
  BY <1>2, <1>4, <1>6 DEF x
<1>8. ASSUME NEW g \in Given(r2), NEW h \in Given(r2), Before(g, h)
      PROVE  more[g] < more[h]
  BY <1>2, <1>3, <1>4, <1>6, <1>8
<1> QED
  BY <1>5, <1>7, <1>8 DEF Placed, r2, x

\* A command is taken back.
LEMMA PlaceFewer ==
    ASSUME NEW T, NEW r \in Seq(Seq(T)), NEW b \in Seq(T), NEW l, NEW m,
           Placed(Append(r, b), l, m)
    PROVE  Placed(r, l, m)
<1> DEFINE s == Append(r, b)
<1>1. s \in Seq(Seq(T)) /\ Len(s) = Len(r) + 1 /\ \A i \in 1 .. Len(r) : s[i] = r[i]
  OBVIOUS
<1>2. PICK place \in [Given(s) -> 1 .. m] :
        /\ \A g \in Given(s) : l[place[g]] = s[g[1]][g[2]]
        /\ \A g, h \in Given(s) : Before(g, h) => place[g] < place[h]
  BY DEF Placed
<1> HIDE DEF s
<1>3. ASSUME NEW g \in Given(r) PROVE g \in Given(s) /\ s[g[1]][g[2]] = r[g[1]][g[2]]
  <2>1. g \in Given(s) <=> /\ g \in Nat \X Nat
                          /\ g[1] \in 1 .. Len(s) /\ g[2] \in 1 .. Len(s[g[1]])
    BY <1>1, GivenIs
  <2>2. g \in Nat \X Nat /\ g[1] \in 1 .. Len(r) /\ g[2] \in 1 .. Len(r[g[1]])
    BY GivenIs
  <2>3. g[1] \in 1 .. Len(r) + 1
    BY <2>2
  <2> QED
    BY <1>1, <2>1, <2>2, <2>3
<1> DEFINE fewer == [g \in Given(r) |-> place[g]]
<1>4. fewer \in [Given(r) -> 1 .. m] /\ \A g \in Given(r) : fewer[g] = place[g]
  BY <1>2, <1>3
<1> HIDE DEF fewer
<1>5. \A g \in Given(r) : l[fewer[g]] = r[g[1]][g[2]]
  BY <1>2, <1>3, <1>4
<1>6. \A g, h \in Given(r) : Before(g, h) => fewer[g] < fewer[h]
  BY <1>2, <1>3, <1>4
<1> QED
  BY <1>4, <1>5, <1>6 DEF Placed

LEMMA PlaceEmpty ==
    ASSUME NEW T, NEW r \in Seq(Seq(T)), NEW l, NEW m, Placed(r, l, m)
    PROVE  Placed(Append(r, <<>>), l, m)
<1> DEFINE s == Append(r, <<>>)
<1>1. Given(s) = Given(r)
  BY GivenEmpty
<1>2. \A i \in 1 .. Len(r) : s[i] = r[i]
  OBVIOUS
<1> HIDE DEF s
<1>3. \A g \in Given(r) : s[g[1]][g[2]] = r[g[1]][g[2]]
  BY <1>2, GivenIs
<1> QED
  BY <1>1, <1>3 DEF Placed, s

\* find prints another line, and lines beyond m do not matter.
LEMMA PlaceLater ==
    ASSUME NEW r, NEW l, NEW k, NEW m \in Nat, NEW n \in Nat, m <= n,
           \A i \in 1 .. m : k[i] = l[i], Placed(r, l, m)
    PROVE  Placed(r, k, n)
<1>1. PICK place \in [Given(r) -> 1 .. m] :
        /\ \A g \in Given(r) : l[place[g]] = r[g[1]][g[2]]
        /\ \A g, h \in Given(r) : Before(g, h) => place[g] < place[h]
  BY DEF Placed
<1>2. place \in [Given(r) -> 1 .. n]
  BY <1>1
<1>3. \A g \in Given(r) : k[place[g]] = r[g[1]][g[2]]
  BY <1>1
<1> QED
  BY <1>1, <1>2, <1>3 DEF Placed

-----------------------------------------------------------------------------
(* find: its calls and its descriptors.                                    *)

LEMMA TopFrame ==
    ASSUME Walking, fpc \notin Over
    PROVE  /\ Len(stack) \in Nat /\ Len(stack) >= 1
           /\ Last(stack) = stack[Len(stack)] /\ Last(stack) \in Frames
           /\ Node \in Nodes /\ Last(stack).i \in Nat
<1>1. stack \in Seq(Frames) /\ stack # <<>>
  BY DEF Walking
<1>2. Len(stack) \in Nat /\ Len(stack) >= 1 /\ stack[Len(stack)] \in Frames
  BY <1>1
<1> QED
  BY <1>2 DEF Last, Node, Frames

\* A call that has closed its descriptor, or got none, returns.
LEMMA Returns ==
    ASSUME Walking, fpc \notin Over, Return, room' = room, fds' = Len(stack) - 1
    PROVE  Walking'
<1>1. /\ Len(stack) \in Nat /\ Len(stack) >= 1 /\ stack \in Seq(Frames)
      /\ \A k \in 1 .. Len(stack) - 1 : Type[stack[k].node] = "dir"
  BY TopFrame DEF Walking
<1>2. /\ stack' \in Seq(Frames) /\ Len(stack') = Len(stack) - 1
      /\ \A k \in 1 .. Len(stack) - 1 : stack'[k] = stack[k]
  <2>1. stack' = SubSeq(stack, 1, Len(stack) - 1)
    BY DEF Return, Front
  <2> DEFINE n == Len(stack) - 1
  <2>2. n \in Int /\ 1 \in Int /\ n >= 0 /\ \A k \in 1 .. n : stack[k] \in Frames
    BY <1>1
  <2> HIDE DEF n
  <2>3. /\ SubSeq(stack, 1, n) \in Seq(Frames)
        /\ Len(SubSeq(stack, 1, n)) = IF 1 <= n THEN n - 1 + 1 ELSE 0
        /\ \A k \in 1 .. n - 1 + 1 : SubSeq(stack, 1, n)[k] = stack[1 + k - 1]
    BY <2>2, SubSeqProperties
  <2>4. stack' = SubSeq(stack, 1, n)
    BY <2>1 DEF n
  <2>5. Len(stack') = n /\ \A k \in 1 .. n : stack'[k] = stack[k]
    BY <2>2, <2>3, <2>4
  <2> QED
    BY <2>3, <2>4, <2>5 DEF n
<1>3. CASE Len(stack) = 1
  <2>1. fpc' = "done" /\ stack' = <<>> /\ Len(stack') = 0
    BY <1>2, <1>3 DEF Return
  <2> QED
    BY <1>2, <1>3, <2>1, PipeAssumption DEF Walking, FPCs, Over
<1>4. CASE Len(stack) # 1
  <2>1. fpc' = "loop" /\ stack' # <<>> /\ Len(stack') >= 1
    BY <1>1, <1>2, <1>4 DEF Return
  <2>2. Node' = stack[Len(stack) - 1].node /\ Type[Node'] = "dir"
    BY <1>1, <1>2, <2>1 DEF Node, Last
  <2>3. \A k \in 1 .. Len(stack') - 1 : Type[stack'[k].node] = "dir"
    BY <1>1, <1>2
  <2>4. fds' \in Nat /\ fds' <= NFD
    BY <1>1, PipeAssumption DEF Walking
  <2> QED
    BY <1>2, <2>1, <2>2, <2>3, <2>4 DEF Walking, FPCs, Over
<1> QED
  BY <1>3, <1>4

\* The innermost call goes on: pc c, and as many descriptors as calls.
LEMMA GoesOn ==
    ASSUME Walking, fpc \notin Over, room' = room, stack' = stack,
           fds' = Len(stack), fds' <= NFD,
           fpc' \in {"stat", "loop", "print", "newline", "close"},
           fpc' = "loop" => Type[Node] = "dir"
    PROVE  Walking'
<1>1. Len(stack) \in Nat /\ stack # <<>>
  BY TopFrame DEF Walking
<1>2. Node' = Node
  BY DEF Node, Last
<1> QED
  BY <1>1, <1>2 DEF Walking, FPCs, Over

\* One step of find keeps its calls and its descriptors together.
LEMMA FindWalks ==
    ASSUME Walking, FindStep
    PROVE  Walking'
<1>0. room' = room /\ fpc \notin Over
  BY DEF FindStep, FindOverflow, FindOpen, FindOpenFail, FindStatFail, FindSwitch, FindEntry,
       FindLoopEnd, FindPrint, FindNewline, FindClose, Over
<1>1. fds = (IF fpc = "open" THEN Len(stack) - 1 ELSE Len(stack)) /\ fds \in Nat /\ fds <= NFD
  BY DEF Walking
<1>2. /\ Len(stack) \in Nat /\ Len(stack) >= 1 /\ stack \in Seq(Frames)
      /\ Last(stack) = stack[Len(stack)] /\ Last(stack) \in Frames
      /\ Node \in Nodes /\ Last(stack).i \in Nat
  BY <1>0, TopFrame DEF Walking
<1>3. CASE FindOverflow
  <2>1. stack' = <<>> /\ Len(stack') = 0 /\ fpc' = "killed" /\ fds' = 0
    BY <1>3 DEF FindOverflow
  <2>2. stack' \in Seq(Frames)
    BY <2>1
  <2> QED
    BY <1>0, <2>1, <2>2, PipeAssumption DEF Walking, FPCs, Over
<1>4. CASE FindOpen
  <2>1. fds' = Len(stack) /\ fds' <= NFD
    BY <1>1, <1>2, <1>4, PipeAssumption DEF FindOpen
  <2> QED
    BY <1>0, <1>4, <2>1, GoesOn DEF FindOpen
<1>5. CASE FindOpenFail
  BY <1>0, <1>1, <1>5, Returns DEF FindOpenFail
<1>6. CASE FindStatFail
  BY <1>0, <1>1, <1>6, Returns DEF FindStatFail
<1>7. CASE FindSwitch
  <2>1. Type[Node] \in {"file", "dir", "dev"}
    BY <1>2, TreeAssumption
  <2>2. fpc' \in {"loop", "print", "close"} /\ (fpc' = "loop" => Type[Node] = "dir")
    BY <1>7, <2>1 DEF FindSwitch
  <2> QED
    BY <1>0, <1>1, <1>7, <2>2, GoesOn DEF FindSwitch
<1>8. CASE FindEntry
  <2> DEFINE e == Entries[Node][Last(stack).i + 1]
             n == Len(stack)
             read == [stack EXCEPT ![n].i = @ + 1]
  <2>1. fpc = "loop" /\ Type[Node] = "dir" /\ fds' = n /\ fds' <= NFD /\ fds' \in Nat
    BY <1>1, <1>2, <1>8 DEF FindEntry, Walking
  <2>2. ASSUME NEW f \in Frames PROVE [f EXCEPT !.i = @ + 1] \in Frames /\ [f EXCEPT !.i = @ + 1].node = f.node
    BY DEF Frames
  <2>3. /\ read \in Seq(Frames) /\ Len(read) = n
        /\ \A k \in 1 .. n : read[k].node = stack[k].node
    <3>1. read = [stack EXCEPT ![n] = [stack[n] EXCEPT !.i = @ + 1]]
      BY <1>2
    <3> HIDE DEF read
    <3>2. [stack[n] EXCEPT !.i = @ + 1] \in Frames /\ [stack[n] EXCEPT !.i = @ + 1].node = stack[n].node
      BY <1>2, <2>2
    <3> QED
      BY <1>2, <3>1, <3>2
  <2>4. \A k \in 1 .. n : Type[read[k].node] = "dir"
    BY <1>2, <2>1, <2>3 DEF Walking, Node
  <2>5. /\ Last(stack).i < Len(Entries[Node])
        /\ \/ ~Follow(e) /\ stack' = read /\ fpc' = "loop"
           \/ Follow(e) /\ stack' = Append(read, [node |-> e.node, i |-> 0]) /\ fpc' = "open"
    BY <1>8 DEF FindEntry
  <2>6. e.node \in Nodes \cup {NULL}
    <3>1. Entries[Node] \in Seq([name : STRING, node : Nodes \cup {NULL}])
      BY <1>2, <2>1, TreeAssumption
    <3>2. Last(stack).i + 1 \in 1 .. Len(Entries[Node])
      BY <1>2, <2>5, <3>1
    <3>3. e \in [name : STRING, node : Nodes \cup {NULL}]
      BY <3>1, <3>2, ElementOfSeq
    <3> QED
      BY <3>3
  <2> HIDE DEF read, e, n
  <2>7. CASE stack' = read /\ fpc' = "loop"
    <3>1. Node' = read[n].node
      BY <2>3, <2>7 DEF Node, Last
    <3>2. stack' # <<>> /\ n \in Nat
      BY <1>2, <2>3, <2>7 DEF n
    <3> QED
      BY <1>0, <1>2, <2>1, <2>3, <2>4, <2>7, <3>1, <3>2 DEF Walking, FPCs, Over, n
  <2>8. CASE Follow(e) /\ stack' = Append(read, [node |-> e.node, i |-> 0]) /\ fpc' = "open"
    <3>1. [node |-> e.node, i |-> 0] \in Frames
      BY <2>6, <2>8 DEF Follow, Frames
    <3>2. /\ stack' \in Seq(Frames) /\ Len(stack') = n + 1 /\ stack' # <<>>
          /\ \A k \in 1 .. n : stack'[k] = read[k]
      BY <2>3, <2>8, <3>1
    <3> QED
      BY <1>0, <1>2, <2>1, <2>4, <2>8, <3>2 DEF Walking, FPCs, Over, n
  <2> QED
    BY <2>5, <2>7, <2>8
<1>9. CASE FindLoopEnd
  BY <1>0, <1>1, <1>9, GoesOn DEF FindLoopEnd
<1>10. CASE FindPrint
  BY <1>0, <1>1, <1>10, GoesOn DEF FindPrint
<1>11. CASE FindNewline
  BY <1>0, <1>1, <1>11, GoesOn DEF FindNewline
<1>12. CASE FindClose
  BY <1>0, <1>1, <1>12, Returns DEF FindClose, Closed
<1> QED
  BY <1>3, <1>4, <1>5, <1>6, <1>7, <1>8, <1>9, <1>10, <1>11, <1>12 DEF FindStep

-----------------------------------------------------------------------------
(* find: what it puts into the pipe.                                       *)

\* Steps that print nothing.
LEMMA QuietFind ==
    ASSUME Typed, NEW m \in Nat, NEW h \in {0, 1}, Fits(m, h),
           UNCHANGED <<pipe, lines, xargs, ran, mishap>>, Fresh' = Fresh,
           fpc \in Over => fpc' \in Over
    PROVE  Typed' /\ Fits(m, h)'
<1>1. Active' = Active /\ Handed' = Handed
  BY DEF Active, Handed
<1>2. Typed'
  BY DEF Typed
<1>3. Flow(m, h)'
  BY <1>1 DEF Fits, Flow
<1>4. Placed(Handed, lines, m)'
  BY <1>1 DEF Fits, Placed
<1>5. (~mishap => OneEach(m, h))'
  BY <1>1 DEF Fits, OneEach
<1> QED
  BY <1>2, <1>3, <1>4, <1>5 DEF Fits

\* A text is printed: one more line.
LEMMA PrintFits ==
    ASSUME Walking, Typed, NEW m \in Nat, NEW h \in {0, 1}, Fits(m, h), FindPrint,
           UNCHANGED xargsvars
    PROVE  Typed' /\ Fits(m, h)'
<1> DEFINE L == Len(lines)
<1>1. fpc = "print" /\ Fresh = 0 /\ Fresh' = 1
  BY DEF FindPrint, Fresh
<1>2. PICK x \in Texts : lines' = Append(lines, x) /\ pipe' = Append(pipe, x)
  <2>1. Node \in Nodes
    BY <1>1, TopFrame DEF Over
  <2>2. Line \in Texts
    BY <2>1 DEF Line, Texts
  <2> QED
    BY <2>2 DEF FindPrint
<1>3. /\ lines \in Seq(Texts) /\ L \in Nat
      /\ lines' \in Seq(Texts) /\ Len(lines') = L + 1 /\ lines'[L + 1] = x
      /\ \A k \in 1 .. L : lines'[k] = lines[k]
  BY <1>2 DEF Typed
<1>4. /\ pipe \in Seq(Texts \cup {NL}) /\ Len(pipe) \in Nat
      /\ pipe' \in Seq(Texts \cup {NL}) /\ Len(pipe') = Len(pipe) + 1 /\ pipe'[Len(pipe) + 1] = x
      /\ \A k \in 1 .. Len(pipe) : pipe'[k] = pipe[k]
  BY <1>2 DEF Typed
<1>5. UNCHANGED <<xargs, ran, mishap>> /\ Active' = Active /\ Handed' = Handed
  BY DEF xargsvars, Active, Handed
<1>6. Typed'
  BY <1>3, <1>4, <1>5 DEF Typed
<1>7. Flow(m, h)
  BY DEF Fits
<1> HIDE DEF L
<1>8. /\ m <= L /\ Len(pipe) = 2 * (L - m) + h
      /\ h = 1 => m >= 1 /\ Active.pc = "read"
      /\ \A k \in 1 .. L - m : pipe[2 * k - 1 + h] = lines[m + k]
      /\ \A k \in 0 .. L - m : 2 * k + h \in 1 .. Len(pipe) => pipe[2 * k + h] = NL
  BY <1>1, <1>3, <1>4, <1>7 DEF Flow, L
<1>9. Flow(m, h)'
  <2>1. m <= L + 1 /\ Len(pipe') = 2 * (L + 1 - m) + h - 1
    BY SMTT(30), <1>3, <1>4, <1>8
  <2>2. ASSUME NEW k \in 1 .. L + 1 - m PROVE pipe'[2 * k - 1 + h] = lines'[m + k]
    <3>1. CASE k = L + 1 - m
      <4>1. 2 * k - 1 + h = Len(pipe) + 1 /\ m + k = L + 1
        BY SMTT(30), <1>3, <1>8, <3>1
      <4> QED
        BY <1>3, <1>4, <4>1
    <3>2. CASE k # L + 1 - m
      <4>1. k \in 1 .. L - m /\ 2 * k - 1 + h \in 1 .. Len(pipe) /\ m + k \in 1 .. L
        BY SMTT(30), <1>3, <1>8, <3>2
      <4> QED
        BY <1>3, <1>4, <1>8, <4>1
    <3> QED
      BY <3>1, <3>2
  <2>3. ASSUME NEW k \in 0 .. L + 1 - m, 2 * k + h \in 1 .. Len(pipe') PROVE pipe'[2 * k + h] = NL
    <3>1. k \in 0 .. L - m /\ 2 * k + h \in 1 .. Len(pipe)
      BY <1>3, <1>8, <2>1, <2>3
    <3> QED
      BY <1>4, <1>8, <3>1
  <2> QED
    BY <1>1, <1>3, <1>5, <1>8, <2>1, <2>2, <2>3 DEF Flow
<1>10. Placed(Handed, lines, m)'
  <2>1. \A i \in 1 .. m : lines'[i] = lines[i]
    BY <1>3, <1>8
  <2>2. Placed(Handed, lines, m) /\ m <= m
    BY DEF Fits
  <2>3. Placed(Handed, lines', m)
    BY <2>1, <2>2, PlaceLater
  <2> QED
    BY <1>5, <2>3
<1>11. (~mishap => OneEach(m, h))'
  <2> SUFFICES ASSUME ~mishap PROVE OneEach(m, h)'
    BY <1>5
  <2>1. OneEach(m, h)
    BY DEF Fits
  <2>2. Active.pc # "done"
    BY <1>1, <2>1 DEF OneEach, Over
  <2>3. Len(ran) <= m /\ Len(ran) \in Nat /\ Active.pc \in XPCs
    <3>1. Active \in Processes /\ Len(ran) \in Nat
      BY DEF Typed, Active, Last
    <3> QED
      BY <2>1, <2>2, <3>1 DEF OneEach, Processes, XPCs
  <2>4. \A i \in 1 .. Len(ran) : lines'[i] = lines[i]
    BY <1>3, <1>8, <2>3
  <2>5. m >= 1 => lines'[m] = lines[m]
    BY <1>3, <1>8
  <2> QED
    BY <1>5, <2>1, <2>2, <2>4, <2>5 DEF OneEach
<1> QED
  BY <1>6, <1>9, <1>10, <1>11 DEF Fits
\* The newline that ends it.
LEMMA NewlineFits ==
    ASSUME Typed, NEW m \in Nat, NEW h \in {0, 1}, Fits(m, h), FindNewline,
           UNCHANGED xargsvars
    PROVE  Typed' /\ Fits(m, h)'
<1> DEFINE L == Len(lines)
<1>1. fpc = "newline" /\ fpc' = "close" /\ Fresh = 1 /\ Fresh' = 0 /\ lines' = lines
  BY DEF FindNewline, Fresh
<1>2. lines \in Seq(Texts) /\ L \in Nat
  BY DEF Typed
<1>3. pipe' = Append(pipe, NL)
  <2>1. pipe' = pipe \o <<NL>> /\ pipe \in Seq(Texts \cup {NL})
    BY DEF FindNewline, Newline, Typed
  <2> QED
    BY <2>1
<1>4. /\ pipe \in Seq(Texts \cup {NL}) /\ Len(pipe) \in Nat
      /\ pipe' \in Seq(Texts \cup {NL}) /\ Len(pipe') = Len(pipe) + 1 /\ pipe'[Len(pipe) + 1] = NL
      /\ \A k \in 1 .. Len(pipe) : pipe'[k] = pipe[k]
  BY <1>3 DEF Typed
<1>5. UNCHANGED <<xargs, ran, mishap>> /\ Active' = Active /\ Handed' = Handed
  BY DEF xargsvars, Active, Handed
<1>6. Typed'
  BY <1>1, <1>4, <1>5 DEF Typed
<1>7. Flow(m, h)
  BY DEF Fits
<1> HIDE DEF L
<1>8. /\ m <= L /\ Len(pipe) = 2 * (L - m) + h - 1
      /\ h = 1 => m >= 1 /\ Active.pc = "read"
      /\ \A k \in 1 .. L - m : pipe[2 * k - 1 + h] = lines[m + k]
      /\ \A k \in 0 .. L - m : 2 * k + h \in 1 .. Len(pipe) => pipe[2 * k + h] = NL
  BY <1>1, <1>2, <1>4, <1>7 DEF Flow, L
<1>9. Flow(m, h)'
  <2>1. Len(pipe') = 2 * (L - m) + h
    BY <1>2, <1>4, <1>8
  <2>2. ASSUME NEW k \in 1 .. L - m PROVE pipe'[2 * k - 1 + h] = lines[m + k]
    <3>1. 2 * k - 1 + h \in 1 .. Len(pipe)
      BY <1>2, <1>8
    <3> QED
      BY <1>4, <1>8, <3>1
  <2>3. ASSUME NEW k \in 0 .. L - m, 2 * k + h \in 1 .. Len(pipe') PROVE pipe'[2 * k + h] = NL
    <3>1. CASE 2 * k + h = Len(pipe) + 1
      BY <1>4, <3>1
    <3>2. CASE 2 * k + h # Len(pipe) + 1
      <4>1. 2 * k + h \in 1 .. Len(pipe)
        BY <1>2, <1>4, <2>3, <3>2
      <4> QED
        BY <1>4, <1>8, <4>1
    <3> QED
      BY <3>1, <3>2
  <2> QED
    BY <1>1, <1>2, <1>5, <1>8, <2>1, <2>2, <2>3 DEF Flow, L
<1>10. Placed(Handed, lines, m)'
  BY <1>1, <1>5 DEF Fits, Placed
<1>11. (~mishap => OneEach(m, h))'
  <2> SUFFICES ASSUME ~mishap PROVE OneEach(m, h)'
    BY <1>5
  <2>1. OneEach(m, h)
    BY DEF Fits
  <2>2. Active.pc # "done"
    BY <1>1, <2>1 DEF OneEach, Over
  <2> QED
    BY <1>1, <1>5, <2>1, <2>2 DEF OneEach
<1> QED
  BY <1>6, <1>9, <1>10, <1>11 DEF Fits

LEMMA FindKeeps ==
    ASSUME Inv, FindStep
    PROVE  Inv'
<1>1. PICK m \in 0 .. Len(lines), h \in {0, 1} : Fits(m, h)
  BY DEF Inv
<1>2. Walking /\ Typed /\ UNCHANGED xargsvars /\ Len(lines) \in Nat /\ m \in Nat
  BY DEF Inv, FindStep, Typed
<1>3. Walking'
  BY <1>2, FindWalks
<1>4. Typed' /\ Fits(m, h)'
  <2>1. CASE FindPrint
    BY <1>1, <1>2, <2>1, PrintFits
  <2>2. CASE FindNewline
    BY <1>1, <1>2, <2>2, NewlineFits
  <2>3. CASE ~FindPrint /\ ~FindNewline
    <3>1. UNCHANGED <<pipe, lines, xargs, ran, mishap>>
      BY <2>3, <1>2 DEF FindStep, FindOverflow, FindOpen, FindOpenFail, FindStatFail, FindSwitch, FindEntry,
           FindLoopEnd, FindClose, xargsvars
    <3>2. fpc \notin Over /\ fpc # "newline"
      BY <2>3 DEF FindStep, FindOverflow, FindOpen, FindOpenFail, FindStatFail, FindSwitch, FindEntry,
           FindLoopEnd, FindClose, Over
    <3>3. fpc' # "newline"
      <4>1. CASE FindSwitch
        <5>1. Type[Node] \in {"file", "dir", "dev"}
          BY <1>2, <3>2, TopFrame, TreeAssumption
        <5> QED
          BY <4>1, <5>1 DEF FindSwitch
      <4> QED
        BY <2>3, <4>1 DEF FindStep, FindOverflow, FindOpen, FindOpenFail, FindStatFail, FindEntry,
             FindLoopEnd, FindClose, Return
    <3> QED
      BY <1>1, <1>2, <3>1, <3>2, <3>3, QuietFind DEF Fresh
  <2> QED
    BY <2>1, <2>2, <2>3
<1>5. m \in 0 .. Len(lines')
  <2>1. m <= Len(lines') /\ Len(lines') \in Nat
    BY <1>4 DEF Fits, Flow, Typed
  <2> QED
    BY <1>2, <2>1
<1> QED
  BY <1>3, <1>4, <1>5 DEF Inv

-----------------------------------------------------------------------------
(* xargs.                                                                  *)

LEMMA ActiveOf ==
    ASSUME Typed
    PROVE  /\ Len(xargs) \in Nat /\ Len(xargs) >= 1
           /\ Active = xargs[Len(xargs)] /\ Active \in Processes
           /\ Active.pc \in XPCs /\ Active.buf \in Seq(Texts)
           /\ Active = [pc |-> Active.pc, buf |-> Active.buf]
<1>1. xargs \in Seq(Processes) /\ xargs # <<>>
  BY DEF Typed
<1>2. Len(xargs) \in Nat /\ Len(xargs) >= 1 /\ xargs[Len(xargs)] \in Processes
  BY <1>1
<1>3. Active = xargs[Len(xargs)]
  BY DEF Active, Last
<1> QED
  BY <1>2, <1>3 DEF Processes

\* The process that runs becomes p; the others wait.
LEMMA WithIs ==
    ASSUME Typed, NEW p \in Processes
    PROVE  /\ With(p) \in Seq(Processes) /\ With(p) # <<>> /\ Len(With(p)) = Len(xargs)
           /\ Last(With(p)) = p
<1>1. xargs \in Seq(Processes) /\ Len(xargs) \in 1 .. Len(xargs)
  BY ActiveOf DEF Typed
<1>2. /\ With(p) \in Seq(Processes) /\ Len(With(p)) = Len(xargs)
      /\ With(p)[Len(xargs)] = p
  BY <1>1 DEF With
<1>3. With(p) # <<>>
  BY <1>1, <1>2
<1> QED
  BY <1>2, <1>3 DEF Last

\* The step of xargs leaves find alone.
LEMMA FindLeft ==
    ASSUME Walking, UNCHANGED findvars
    PROVE  Walking' /\ Fresh' = Fresh /\ lines' = lines /\ fpc' = fpc
BY DEF Walking, findvars, Fresh, Node, Last
\* Steps that read nothing: the newlines of all lines read have been.
LEMMA SamePipe ==
    ASSUME NEW m \in Nat, NEW h \in {0, 1}, Flow(m, h), h = 0 \/ Active.pc # "read",
           UNCHANGED <<pipe, lines>>, Fresh' = Fresh
    PROVE  h = 0 /\ Flow(m, 0)'
<1>1. h = 0
  BY DEF Flow
<1> QED
  BY <1>1 DEF Flow

\* fork and exec, or their failures, with what is to be run unchanged.
LEMMA ForkKeeps ==
    ASSUME Inv, XargsFork \/ XargsForkFail \/ XargsExec \/ XargsExecFail, UNCHANGED findvars
    PROVE  Inv'
<1>1. PICK m \in 0 .. Len(lines), h \in {0, 1} : Fits(m, h)
  BY DEF Inv
<1> DEFINE b == Active.buf
<1>2. Walking /\ Typed /\ Len(lines) \in Nat /\ m \in Nat /\ pipe' = pipe
  BY DEF Inv, Typed, XargsFork, XargsForkFail, XargsExec, XargsExecFail
<1>3. Walking' /\ Fresh' = Fresh /\ lines' = lines /\ fpc' = fpc
  BY <1>2, FindLeft
<1>4. /\ Len(xargs) \in Nat /\ Len(xargs) >= 1 /\ b \in Seq(Texts)
      /\ Active = [pc |-> Active.pc, buf |-> b] /\ xargs \in Seq(Processes)
      /\ ran \in Seq(Seq(Texts))
  BY <1>2, ActiveOf DEF Typed
<1>5. Active.pc \in {"fork", "exec"}
  BY DEF XargsFork, XargsForkFail, XargsExec, XargsExecFail
<1>6. h = 0 /\ Flow(m, 0)'
  BY <1>1, <1>2, <1>3, <1>5, SamePipe DEF Fits
<1>7. Placed(Append(ran, b), lines, m)
  BY <1>1, <1>5 DEF Fits, Handed
<1>8. ~mishap => /\ \A i \in 1 .. Len(ran) : ran[i] = <<lines[i]>>
                 /\ Active.pc = "fork" => Len(xargs) = 1
                 /\ Active.pc = "exec" => Len(xargs) = 2
                 /\ Len(ran) = m - 1 /\ m >= 1 /\ b = <<lines[m]>>
  BY <1>1, <1>5 DEF Fits, OneEach
<1>9. ASSUME NEW c \in XPCs PROVE [Active EXCEPT !.pc = c] = [pc |-> c, buf |-> b] /\ [pc |-> c, buf |-> b] \in Processes
  BY <1>4 DEF Processes
<1> HIDE DEF b
<1> DEFINE P(c) == [pc |-> c, buf |-> b]
<1>10. CASE XargsFork
  <2>1. xargs' = Append(With(P("wait")), P("exec")) /\ ran' = ran /\ mishap' = mishap /\ Active.pc = "fork"
    BY <1>9, <1>10 DEF XargsFork, XPCs
  <2>2. P("wait") \in Processes /\ P("exec") \in Processes
    BY <1>9 DEF XPCs
  <2>3. With(P("wait")) \in Seq(Processes) /\ Len(With(P("wait"))) = Len(xargs)
    BY <1>2, <2>2, WithIs
  <2>4. /\ xargs' \in Seq(Processes) /\ Len(xargs') = Len(xargs) + 1 /\ xargs' # <<>>
        /\ xargs'[Len(xargs')] = P("exec")
    BY <2>1, <2>2, <2>3
  <2>5. Active' = P("exec") /\ Active'.pc = "exec" /\ Active'.buf = b
    BY <2>4 DEF Active, Last
  <2>6. Typed'
    BY <1>2, <1>3, <2>1, <2>4 DEF Typed
  <2>7. Handed' = Append(ran, b)
    BY <2>1, <2>5 DEF Handed
  <2>8. Fits(m, 0)'
    <3>1. (~mishap => OneEach(m, 0))'
      BY SMTT(30), <1>3, <1>4, <1>8, <2>1, <2>4, <2>5 DEF OneEach
    <3> QED
      BY <1>3, <1>6, <1>7, <2>7, <3>1 DEF Fits
  <2> QED
    BY <1>3, <2>6, <2>8 DEF Inv
<1>11. ASSUME NEW c \in {"read", "command"}, xargs' = With(P(c)),
              ran' = (IF c = "command" THEN Append(ran, b) ELSE ran),
              mishap' \in BOOLEAN,
              ~mishap' => c = "command" /\ ~mishap /\ Active.pc = "exec"
       PROVE  Inv'
  <2>1. P(c) \in Processes
    BY <1>9 DEF XPCs
  <2>2. /\ xargs' \in Seq(Processes) /\ xargs' # <<>> /\ Len(xargs') = Len(xargs)
        /\ Active' = P(c) /\ Active'.pc = c /\ Active'.buf = b
    BY <1>2, <1>11, <2>1, WithIs DEF Active
  <2>3. ran' \in Seq(Seq(Texts))
    BY <1>4, <1>11
  <2>4. Typed'
    BY <1>2, <1>3, <1>11, <2>2, <2>3 DEF Typed
  <2>5. Handed' = Append(ran, b)
    BY <1>11, <2>2 DEF Handed
  <2>6. ASSUME ~mishap' PROVE OneEach(m, 0)'
    <3>1. c = "command" /\ ran' = Append(ran, b) /\ Len(xargs) = 2
      BY <1>8, <1>11, <2>6
    <3>2. Len(ran') = Len(ran) + 1 /\ Len(ran) \in Nat /\ ran'[Len(ran) + 1] = b
          /\ \A i \in 1 .. Len(ran) : ran'[i] = ran[i]
      BY <1>4, <3>1
    <3>3. \A i \in 1 .. Len(ran') : ran'[i] = <<lines'[i]>>
      BY <1>2, <1>3, <1>8, <1>11, <2>6, <3>2
    <3> QED
      BY <1>2, <1>8, <1>11, <2>2, <2>6, <3>1, <3>2, <3>3 DEF OneEach
  <2>7. Fits(m, 0)'
    BY <1>3, <1>6, <1>7, <2>5, <2>6 DEF Fits
  <2> QED
    BY <1>3, <2>4, <2>7 DEF Inv
<1>12. mishap \in BOOLEAN
  BY <1>2 DEF Typed
<1>13. CASE XargsForkFail
  BY <1>9, <1>11, <1>13 DEF XargsForkFail, XPCs
<1>14. CASE XargsExecFail
  BY <1>9, <1>11, <1>14 DEF XargsExecFail, XPCs
<1>15. CASE XargsExec
  BY <1>9, <1>11, <1>12, <1>15 DEF XargsExec, XPCs, b
<1> QED
  BY <1>10, <1>13, <1>14, <1>15
\* The process that runs ends, and its parent goes on with an empty buf.
LEMMA ExitIs ==
    ASSUME Typed, XargsExit
    PROVE  /\ xargs' \in Seq(Processes) /\ xargs' # <<>> /\ Active'.buf = <<>>
           /\ Len(xargs') = (IF Len(xargs) = 1 THEN 1 ELSE Len(xargs) - 1)
           /\ Active'.pc = (IF Len(xargs) = 1 THEN "done" ELSE "read")
<1>1. Len(xargs) \in Nat /\ Len(xargs) >= 1 /\ xargs \in Seq(Processes)
  BY ActiveOf DEF Typed
<1>2. \A c \in XPCs : [pc |-> c, buf |-> <<>>] \in Processes
  BY DEF Processes
<1>3. CASE Len(xargs) = 1
  <2>1. xargs' = <<[pc |-> "done", buf |-> <<>>]>>
    BY <1>3 DEF XargsExit
  <2>2. xargs' \in Seq(Processes) /\ Len(xargs') = 1 /\ xargs'[1] = [pc |-> "done", buf |-> <<>>]
    BY <1>2, <2>1 DEF XPCs
  <2> QED
    BY <1>3, <2>1, <2>2 DEF Active, Last
<1>4. CASE Len(xargs) # 1
  <2> DEFINE n == Len(xargs) - 2
             q == [pc |-> "read", buf |-> <<>>]
  <2>1. xargs' = Append(SubSeq(xargs, 1, n), q)
    BY <1>4 DEF XargsExit, Reset
  <2>2. n \in Nat /\ n \in Int /\ 1 \in Int /\ \A k \in 1 .. n : xargs[k] \in Processes
    <3>1. n \in Nat
      BY <1>1, <1>4
    <3> HIDE DEF q
    <3>2. \A k \in 1 .. n : k \in 1 .. Len(xargs)
      BY <1>1, <3>1
    <3>3. \A k \in 1 .. Len(xargs) : xargs[k] \in Processes
      BY <1>1
    <3> QED
      BY <3>1, <3>2, <3>3
  <2>3. q \in Processes
    BY <1>2 DEF XPCs
  <2> HIDE DEF n
  <2>4. /\ SubSeq(xargs, 1, n) \in Seq(Processes)
        /\ Len(SubSeq(xargs, 1, n)) = IF 1 <= n THEN n - 1 + 1 ELSE 0
    BY <2>2, SubSeqProperties
  <2>5. Len(SubSeq(xargs, 1, n)) = n
    BY <2>2, <2>4
  <2> HIDE DEF q
  <2>6. xargs' \in Seq(Processes) /\ Len(xargs') = n + 1 /\ xargs'[n + 1] = q
    BY <2>1, <2>3, <2>4, <2>5
  <2>7. Active' = q /\ q.pc = "read" /\ q.buf = <<>> /\ xargs' # <<>>
    BY <2>2, <2>6 DEF Active, Last, q
  <2> QED
    BY <1>1, <1>4, <2>6, <2>7 DEF n
<1> QED
  BY <1>3, <1>4

\* The end of a command, or of the input.
LEMMA ExitKeeps ==
    ASSUME Inv, XargsCommandEnds \/ XargsEnd, UNCHANGED findvars
    PROVE  Inv'
<1>1. PICK m \in 0 .. Len(lines), h \in {0, 1} : Fits(m, h)
  BY DEF Inv
<1>2. /\ Walking /\ Typed /\ Len(lines) \in Nat /\ m \in Nat /\ XargsExit
      /\ UNCHANGED <<pipe, ran, mishap>> /\ ran \in Seq(Seq(Texts))
  BY DEF Inv, Typed, XargsCommandEnds, XargsEnd
<1>3. Walking' /\ Fresh' = Fresh /\ lines' = lines /\ fpc' = fpc
  BY <1>2, FindLeft
<1>4. /\ xargs' \in Seq(Processes) /\ xargs' # <<>> /\ Active'.buf = <<>>
      /\ Len(xargs') = (IF Len(xargs) = 1 THEN 1 ELSE Len(xargs) - 1)
      /\ Active'.pc = (IF Len(xargs) = 1 THEN "done" ELSE "read")
  BY <1>2, ExitIs
<1>5. Active.buf \in Seq(Texts) /\ Len(xargs) \in Nat
  BY <1>2, ActiveOf
<1>6. Typed'
  BY <1>2, <1>3, <1>4 DEF Typed
<1>7. XargsEnd => fpc \in Over /\ m = Len(lines) /\ h = 0
  <2> SUFFICES ASSUME XargsEnd PROVE fpc \in Over /\ m = Len(lines) /\ h = 0
    OBVIOUS
  <2>1. pipe = <<>> /\ fpc \in Over /\ Fresh = 0
    BY DEF XargsEnd, AtEnd, Over, Fresh
  <2>2. m <= Len(lines) /\ 0 = 2 * (Len(lines) - m) + h
    BY <1>1, <1>2, <2>1 DEF Fits, Flow
  <2> QED
    BY <1>2, <2>1, <2>2
<1>8. h = 0 /\ Flow(m, 0)'
  <2>1. h = 0 \/ Active.pc # "read"
    BY <1>7 DEF XargsCommandEnds
  <2> QED
    BY <1>1, <1>2, <1>3, <2>1, SamePipe DEF Fits
<1>9. Placed(ran, lines, m)
  <2>1. CASE XargsCommandEnds
    BY <1>1, <2>1 DEF Fits, Handed, XargsCommandEnds
  <2>2. CASE XargsEnd
    <3>1. Placed(Append(ran, Active.buf), lines, m)
      BY <1>1, <2>2 DEF Fits, Handed, XargsEnd
    <3> QED
      BY <1>2, <1>5, <3>1, PlaceFewer
  <2> QED
    BY <2>1, <2>2
<1>10. Placed(Handed, lines, m)'
  <2>1. Handed' = ran \/ Handed' = Append(ran, <<>>)
    BY <1>2, <1>4 DEF Handed
  <2>2. Placed(Append(ran, <<>>), lines, m)
    BY <1>2, <1>9, PlaceEmpty
  <2> QED
    BY <1>3, <1>9, <2>1, <2>2
<1>11. ASSUME ~mishap' PROVE OneEach(m, 0)'
  <2>1. OneEach(m, h)
    BY <1>1, <1>2, <1>11 DEF Fits
  <2>2. Len(ran) = m
    BY <1>8, <2>1 DEF OneEach, XargsCommandEnds, XargsEnd
  <2>3. CASE XargsCommandEnds
    <3>1. Len(xargs) = 2
      BY <2>1, <2>3 DEF OneEach, XargsCommandEnds
    <3> QED
      BY <1>2, <1>3, <1>4, <2>1, <2>2, <3>1 DEF OneEach
  <2>4. CASE XargsEnd
    <3>1. Len(xargs) = 1
      BY <2>1, <2>4 DEF OneEach, XargsEnd
    <3> QED
      BY <1>2, <1>3, <1>4, <1>7, <2>1, <2>2, <2>4, <3>1 DEF OneEach
  <2> QED
    BY <2>3, <2>4
<1>12. Fits(m, 0)'
  BY <1>8, <1>10, <1>11 DEF Fits
<1> QED
  BY <1>3, <1>6, <1>12 DEF Inv

\* The text of the next line goes into buf.
LEMMA CharKeeps ==
    ASSUME Inv, XargsChar, UNCHANGED findvars
    PROVE  Inv'
<1>1. PICK m \in 0 .. Len(lines), h \in {0, 1} : Fits(m, h)
  BY DEF Inv
<1> DEFINE b == Active.buf
           L == Len(lines)
           x == Head(pipe)
<1>2. /\ Walking /\ Typed /\ L \in Nat /\ m \in Nat /\ lines \in Seq(Texts)
      /\ UNCHANGED <<ran, mishap>> /\ ran \in Seq(Seq(Texts))
      /\ pipe # <<>> /\ x # NL /\ Active.pc = "read" /\ pipe' = Tail(pipe)
      /\ pipe \in Seq(Texts \cup {NL})
  BY DEF Inv, Typed, XargsChar
<1>3. Walking' /\ Fresh' = Fresh /\ lines' = lines /\ fpc' = fpc /\ Fresh \in {0, 1}
  BY <1>2, FindLeft DEF Fresh
<1>4. /\ Len(xargs) \in Nat /\ b \in Seq(Texts) /\ Active = [pc |-> Active.pc, buf |-> b]
  BY <1>2, ActiveOf
<1>5. /\ Len(pipe) \in Nat /\ Len(pipe) >= 1 /\ x = pipe[1]
      /\ pipe' \in Seq(Texts \cup {NL}) /\ Len(pipe') = Len(pipe) - 1
      /\ \A k \in 1 .. Len(pipe) - 1 : pipe'[k] = pipe[k + 1]
  BY <1>2
<1> HIDE DEF x, L, b
<1>6. /\ m <= L /\ Len(pipe) = 2 * (L - m) + h - Fresh
      /\ \A k \in 1 .. L - m : pipe[2 * k - 1 + h] = lines[m + k]
      /\ \A k \in 0 .. L - m : 2 * k + h \in 1 .. Len(pipe) => pipe[2 * k + h] = NL
  BY <1>1 DEF Fits, Flow, L
<1>7. h = 0
  <2> SUFFICES ASSUME h = 1 PROVE FALSE
    OBVIOUS
  <2>1. 0 \in 0 .. L - m /\ 2 * 0 + 1 \in 1 .. Len(pipe)
    BY <1>2, <1>5, <1>6
  <2>2. pipe[2 * 0 + h] = NL
    BY <1>6, <2>1
  <2> QED
    BY <1>2, <1>5, <2>2
<1>8. m + 1 <= L /\ x = lines[m + 1] /\ x \in Texts
  <2>1. 1 \in 1 .. L - m /\ m + 1 \in 1 .. L
    BY <1>2, <1>3, <1>5, <1>6, <1>7
  <2>2. pipe[2 * 1 - 1 + h] = lines[m + 1]
    BY <1>6, <2>1
  <2> QED
    BY <1>2, <1>5, <1>7, <2>1, <2>2 DEF L
<1>9. /\ xargs' \in Seq(Processes) /\ xargs' # <<>> /\ Len(xargs') = Len(xargs)
      /\ Active'.pc = "read" /\ Active'.buf = Append(b, x)
  <2> DEFINE q == [pc |-> "read", buf |-> Append(b, x)]
  <2>1. xargs' = With(q)
    <3>1. ASSUME NEW a, NEW u, NEW y, a = [pc |-> "read", buf |-> u]
          PROVE  [a EXCEPT !.buf = y] = [pc |-> "read", buf |-> y]
      BY <3>1
    <3>2. Active = [pc |-> "read", buf |-> b]
      BY <1>2, <1>4
    <3>3. [Active EXCEPT !.buf = Append(b, x)] = q
      BY ONLY <3>1, <3>2, Zenon DEF q
    <3> HIDE DEF q
    <3> QED
      BY <3>3 DEF XargsChar, x, b
  <2>2. q \in Processes
    BY <1>4, <1>8 DEF Processes, XPCs
  <2>3. q.pc = "read" /\ q.buf = Append(b, x)
    OBVIOUS
  <2> HIDE DEF q
  <2> QED
    BY <1>2, <2>1, <2>2, <2>3, WithIs DEF Active
<1>10. Typed'
  BY <1>2, <1>3, <1>5, <1>9 DEF Typed
<1>11. Flow(m + 1, 1)'
  <2>1. Len(pipe') = 2 * (L - (m + 1)) + 1 - Fresh
    <3>1. Len(pipe') = Len(pipe) - 1 /\ Len(pipe) = 2 * (L - m) + 0 - Fresh /\ Fresh \in Int
      BY <1>3, <1>5, <1>6, <1>7
    <3>2. L \in Int /\ m \in Int
      BY <1>2
    <3> QED
      BY ONLY <3>1, <3>2
  <2>2. ASSUME NEW k \in 1 .. L - (m + 1) PROVE pipe'[2 * k - 1 + 1] = lines[m + 1 + k]
    <3>1. /\ k + 1 \in 1 .. L - m /\ 2 * k - 1 + 1 \in 1 .. Len(pipe) - 1
          /\ 2 * k - 1 + 1 + 1 = 2 * (k + 1) - 1 + h /\ m + 1 + k = m + (k + 1)
      BY <1>2, <1>3, <1>5, <1>6, <1>7
    <3> QED
      BY <1>5, <1>6, <3>1
  <2>3. ASSUME NEW k \in 0 .. L - (m + 1), 2 * k + 1 \in 1 .. Len(pipe') PROVE pipe'[2 * k + 1] = NL
    <3>1. /\ k + 1 \in 0 .. L - m /\ 2 * k + 1 + 1 \in 1 .. Len(pipe)
          /\ 2 * k + 1 \in 1 .. Len(pipe) - 1 /\ 2 * k + 1 + 1 = 2 * (k + 1) + h
      BY <1>2, <1>5, <1>6, <1>7, <2>3
    <3> QED
      BY <1>5, <1>6, <3>1
  <2> QED
    BY <1>2, <1>3, <1>8, <1>9, <2>1, <2>2, <2>3 DEF Flow, L
<1>12. Placed(Handed, lines, m + 1)'
  <2>1. Placed(Append(ran, b), lines, m)
    BY <1>1, <1>2 DEF Fits, Handed, b
  <2>2. Placed(Append(ran, Append(b, lines[m + 1])), lines, m + 1)
    BY <1>2, <1>4, <1>8, <2>1, PlaceMore DEF L
  <2>3. Handed' = Append(ran, Append(b, lines[m + 1]))
    BY <1>2, <1>8, <1>9 DEF Handed
  <2> QED
    BY <1>3, <2>2, <2>3
<1>13. ASSUME ~mishap' PROVE OneEach(m + 1, 1)'
  <2>1. OneEach(m, h)
    BY <1>1, <1>2, <1>13 DEF Fits
  <2>2. Len(ran) = m /\ b = <<>> /\ Len(xargs) = 1
    BY <1>2, <1>7, <2>1 DEF OneEach, b
  <2>3. Append(b, x) = <<lines[m + 1]>>
    BY <1>8, <2>2
  <2> QED
    BY <1>2, <1>3, <1>9, <2>1, <2>2, <2>3 DEF OneEach
<1>14. Fits(m + 1, 1)' /\ m + 1 \in 0 .. Len(lines')
  BY <1>2, <1>3, <1>8, <1>11, <1>12, <1>13 DEF Fits, L
<1> QED
  BY <1>3, <1>10, <1>14 DEF Inv
\* The newline of the last line read: buf is complete.
LEMMA LineKeeps ==
    ASSUME Inv, XargsLine, UNCHANGED findvars
    PROVE  Inv'
<1>1. PICK m \in 0 .. Len(lines), h \in {0, 1} : Fits(m, h)
  BY DEF Inv
<1> DEFINE b == Active.buf
           L == Len(lines)
<1>2. /\ Walking /\ Typed /\ L \in Nat /\ m \in Nat /\ lines \in Seq(Texts)
      /\ UNCHANGED <<ran, mishap>> /\ ran \in Seq(Seq(Texts))
      /\ pipe # <<>> /\ Head(pipe) = NL /\ Active.pc = "read" /\ pipe' = Tail(pipe)
      /\ pipe \in Seq(Texts \cup {NL})
  BY DEF Inv, Typed, XargsLine
<1>3. Walking' /\ Fresh' = Fresh /\ lines' = lines /\ fpc' = fpc /\ Fresh \in {0, 1}
  BY <1>2, FindLeft DEF Fresh
<1>4. Len(xargs) \in Nat /\ b \in Seq(Texts) /\ Active = [pc |-> Active.pc, buf |-> b]
  BY <1>2, ActiveOf
<1>5. /\ Len(pipe) \in Nat /\ Len(pipe) >= 1 /\ pipe[1] = NL
      /\ pipe' \in Seq(Texts \cup {NL}) /\ Len(pipe') = Len(pipe) - 1
      /\ \A k \in 1 .. Len(pipe) - 1 : pipe'[k] = pipe[k + 1]
  BY <1>2
<1>6. /\ m <= L /\ Len(pipe) = 2 * (L - m) + h - Fresh
      /\ h = 1 => m >= 1
      /\ \A k \in 1 .. L - m : pipe[2 * k - 1 + h] = lines[m + k]
      /\ \A k \in 0 .. L - m : 2 * k + h \in 1 .. Len(pipe) => pipe[2 * k + h] = NL
  BY <1>1 DEF Fits, Flow
<1>7. h = 1 /\ m >= 1
  <2> SUFFICES ASSUME h = 0 PROVE FALSE
    BY <1>6
  <2>1. 1 \in 1 .. L - m /\ m + 1 \in 1 .. L
    BY <1>2, <1>3, <1>5, <1>6
  <2>2. pipe[2 * 1 - 1 + h] = lines[m + 1]
    BY <1>6, <2>1
  <2>3. lines[m + 1] \in Texts
    BY <1>2, <2>1
  <2> QED
    BY <1>5, <2>2, <2>3, PipeAssumption DEF Texts
<1> HIDE DEF b, L
<1>8. /\ xargs' \in Seq(Processes) /\ xargs' # <<>> /\ Len(xargs') = Len(xargs)
      /\ Active'.pc = "fork" /\ Active'.buf = b
  <2> DEFINE q == [pc |-> "fork", buf |-> b]
  <2>1. ASSUME NEW a, NEW c, a = [pc |-> c, buf |-> b] PROVE [a EXCEPT !.pc = "fork"] = q
    BY <2>1
  <2>2. xargs' = With(q)
    BY <1>4, <2>1 DEF XargsLine
  <2>3. q \in Processes
    BY <1>4 DEF Processes, XPCs
  <2>4. q.pc = "fork" /\ q.buf = b
    OBVIOUS
  <2> HIDE DEF q
  <2> QED
    BY <1>2, <2>2, <2>3, <2>4, WithIs DEF Active
<1>9. Typed'
  BY <1>2, <1>3, <1>5, <1>8 DEF Typed
<1>10. Flow(m, 0)'
  <2>1. Len(pipe') = 2 * (L - m) + 0 - Fresh
    <3>1. Len(pipe') = Len(pipe) - 1 /\ Len(pipe) = 2 * (L - m) + 1 - Fresh /\ Fresh \in Int
      BY <1>3, <1>5, <1>6, <1>7
    <3>2. L \in Int /\ m \in Int
      BY <1>2
    <3> QED
      BY ONLY <3>1, <3>2
  <2>2. ASSUME NEW k \in 1 .. L - m PROVE pipe'[2 * k - 1 + 0] = lines[m + k]
    <3>1. 2 * k - 1 \in 1 .. Len(pipe) - 1 /\ 2 * k - 1 + 0 = 2 * k - 1
          /\ (2 * k - 1) + 1 = 2 * k - 1 + h
      BY <1>2, <1>3, <1>5, <1>6, <1>7
    <3> QED
      BY <1>5, <1>6, <3>1
  <2>3. ASSUME NEW k \in 0 .. L - m, 2 * k + 0 \in 1 .. Len(pipe') PROVE pipe'[2 * k + 0] = NL
    <3>1. /\ 2 * k + 0 = 2 * k /\ 2 * k \in 1 .. Len(pipe) - 1 /\ 2 * k + 1 = 2 * k + h
          /\ 2 * k + h \in 1 .. Len(pipe)
      BY <1>2, <1>5, <1>7, <2>3
    <3> QED
      BY <1>5, <1>6, <3>1
  <2> QED
    BY <1>2, <1>3, <1>6, <2>1, <2>2, <2>3 DEF Flow, L
<1>11. Placed(Handed, lines, m)'
  <2>1. Placed(Append(ran, b), lines, m)
    BY <1>1, <1>2 DEF Fits, Handed, b
  <2>2. Handed' = Append(ran, b)
    BY <1>2, <1>8 DEF Handed
  <2> QED
    BY <1>3, <2>1, <2>2
<1>12. ASSUME ~mishap' PROVE OneEach(m, 0)'
  <2>1. OneEach(m, h)
    BY <1>1, <1>2, <1>12 DEF Fits
  <2>2. Len(ran) = m - 1 /\ b = <<lines[m]>> /\ Len(xargs) = 1
    BY <1>2, <1>7, <2>1 DEF OneEach, b
  <2> QED
    BY <1>2, <1>3, <1>7, <1>8, <2>1, <2>2 DEF OneEach
<1>13. Fits(m, 0)' /\ m \in 0 .. Len(lines')
  BY <1>2, <1>3, <1>6, <1>10, <1>11, <1>12 DEF Fits, L
<1> QED
  BY <1>3, <1>9, <1>13 DEF Inv

-----------------------------------------------------------------------------
(* The invariant.                                                          *)

LEMMA Starts == Init => Inv
<1> SUFFICES ASSUME Init PROVE Inv
  OBVIOUS
<1> DEFINE f == [node |-> Root, i |-> 0]
           q == [pc |-> "read", buf |-> <<>>]
<1>1. /\ stack = <<f>> /\ fpc = "open" /\ fds = 0 /\ room \in Rooms
      /\ pipe = <<>> /\ xargs = <<q>> /\ lines = <<>> /\ ran = <<>> /\ mishap = FALSE
  BY DEF Init
<1>2. f \in Frames /\ q \in Processes /\ q.pc = "read" /\ q.buf = <<>>
  BY TreeAssumption DEF Frames, Processes, XPCs
<1> HIDE DEF f, q
<1>3. stack \in Seq(Frames) /\ Len(stack) = 1 /\ stack # <<>>
  BY <1>1, <1>2
<1>4. Walking
  BY <1>1, <1>3, PipeAssumption DEF Walking, FPCs, Over
<1>5. xargs \in Seq(Processes) /\ Len(xargs) = 1 /\ xargs # <<>> /\ Active = q
  BY <1>1, <1>2 DEF Active, Last
<1>6. Typed
  <2>1. mishap \in BOOLEAN
    BY <1>1
  <2>2. lines \in Seq(Texts) /\ pipe \in Seq(Texts \cup {NL}) /\ ran \in Seq(Seq(Texts))
    BY <1>1
  <2> QED
    BY <1>5, <2>1, <2>2 DEF Typed
<1>7. Len(lines) = 0 /\ Len(pipe) = 0 /\ Len(ran) = 0 /\ Fresh = 0
  BY <1>1 DEF Fresh
<1>8. Flow(0, 0)
  BY <1>7 DEF Flow
<1>9. Placed(Handed, lines, 0)
  <2>1. Handed = Append(<<>>, <<>>)
    BY <1>1, <1>2, <1>5 DEF Handed
  <2>2. <<>> \in Seq(Seq({})) /\ DOMAIN <<>> = {}
    OBVIOUS
  <2>3. Given(<<>>) = {}
    BY <2>2 DEF Given
  <2>4. Given(Handed) = {}
    BY <2>1, <2>2, <2>3, GivenEmpty
  <2>5. [g \in {} |-> g] \in [{} -> 1 .. 0]
    OBVIOUS
  <2> QED
    BY <2>4, <2>5 DEF Placed
<1>10. OneEach(0, 0)
  BY <1>1, <1>2, <1>5, <1>7 DEF OneEach
<1> QED
  BY <1>4, <1>6, <1>7, <1>8, <1>9, <1>10 DEF Inv, Fits

LEMMA Keeps == Inv /\ [Next]_vars => Inv'
<1> SUFFICES ASSUME Inv, [Next]_vars PROVE Inv'
  OBVIOUS
<1>1. CASE FindStep
  BY <1>1, FindKeeps
<1>2. CASE XargsStep
  <2>1. UNCHANGED findvars
    BY <1>2 DEF XargsStep
  <2> QED
    BY <1>2, <2>1, CharKeeps, LineKeeps, ForkKeeps, ExitKeeps DEF XargsStep
<1>3. CASE UNCHANGED vars
  <2>1. UNCHANGED <<findvars, pipe, xargs, ran, mishap, lines, fpc>>
    BY <1>3 DEF vars, xargsvars, findvars
  <2>2. Walking' /\ Fresh' = Fresh
    BY <2>1, FindLeft DEF Inv
  <2>3. PICK m \in 0 .. Len(lines), h \in {0, 1} : Fits(m, h)
    BY DEF Inv
  <2>4. m \in Nat /\ Typed
    BY DEF Inv, Typed
  <2>5. Typed' /\ Fits(m, h)'
    BY <2>1, <2>2, <2>3, <2>4, QuietFind
  <2> QED
    BY <2>1, <2>2, <2>5 DEF Inv
<1> QED
  BY <1>1, <1>2, <1>3 DEF Next

\* Whatever fails, and however find and xargs take turns, the invariant holds.
THEOREM Correct == Spec => []Inv
<1>1. Init => Inv
  BY Starts
<1>2. Inv /\ [Next]_vars => Inv'
  BY Keeps
<1> QED
  BY <1>1, <1>2, PTL DEF Spec

\* xargs hands the lines of find to its commands in order and none of them
\* twice, even when forks and execs fail and children read on in the loop.
THEOREM LinesInOrder == Spec => []InOrder
<1>1. Inv => InOrder
  <2> SUFFICES ASSUME Inv PROVE InOrder
    OBVIOUS
  <2>1. PICK m \in 0 .. Len(lines), h \in {0, 1} : Fits(m, h)
    BY DEF Inv
  <2>2. Typed /\ lines \in Seq(Texts) /\ Len(lines) \in Nat /\ ran \in Seq(Seq(Texts)) /\ m \in Nat /\ m <= Len(lines)
    BY DEF Inv, Typed
  <2>3. Active.buf \in Seq(Texts)
    BY <2>2, ActiveOf
  <2>4. Placed(ran, lines, m)
    <3>1. Handed = ran \/ Handed = Append(ran, Active.buf)
      BY DEF Handed
    <3> QED
      BY <2>1, <2>2, <2>3, <3>1, PlaceFewer DEF Fits
  <2>5. Placed(ran, lines, Len(lines))
    BY <2>2, <2>4, PlaceLater
  <2>6. DOMAIN lines = 1 .. Len(lines)
    BY <2>2
  <2> QED
    BY <2>5, <2>6 DEF InOrder, Placed
<1> QED
  BY <1>1, Correct, PTL

\* Without a failed fork or exec every line is run once by a command of its
\* own, and none is left when xargs ends.
THEOREM EveryLineRuns == Spec => []OneCommandPerLine
<1>1. Inv => OneCommandPerLine
  <2> SUFFICES ASSUME Inv, ~mishap PROVE /\ Len(ran) <= Len(lines)
                                         /\ \A i \in DOMAIN ran : ran[i] = <<lines[i]>>
                                         /\ Active.pc = "done" => Len(ran) = Len(lines)
    BY DEF OneCommandPerLine
  <2>1. PICK m \in 0 .. Len(lines), h \in {0, 1} : Fits(m, h)
    BY DEF Inv
  <2>2. Typed /\ Len(lines) \in Nat /\ ran \in Seq(Seq(Texts)) /\ Len(ran) \in Nat
    BY DEF Inv, Typed
  <2>3. Active.pc \in XPCs
    BY <2>2, ActiveOf
  <2>4. OneEach(m, h)
    BY <2>1 DEF Fits
  <2>5. Len(ran) <= m
    BY <2>1, <2>2, <2>3, <2>4 DEF OneEach, XPCs
  <2>6. \A i \in DOMAIN ran : ran[i] = <<lines[i]>>
    <3>1. DOMAIN ran = 1 .. Len(ran)
      BY <2>2
    <3>2. \A i \in 1 .. Len(ran) : ran[i] = <<lines[i]>>
      BY <2>4 DEF OneEach
    <3> QED
      BY <3>1, <3>2
  <2>7. Active.pc = "done" => Len(ran) = Len(lines)
    BY <2>4 DEF OneEach
  <2>8. Len(ran) <= Len(lines)
    BY <2>2, <2>5
  <2> QED
    BY <2>6, <2>7, <2>8
<1> QED
  BY <1>1, Correct, PTL

\* find never has more descriptors open than levels, nor than the kernel
\* gives it, and has closed all of them when it ends, on every path.
THEOREM AllClosed == Spec => [](fds <= NFD /\ fds <= Len(stack) /\ (fpc \in Over => fds = 0))
<1>1. Inv => fds <= NFD /\ fds <= Len(stack) /\ (fpc \in Over => fds = 0)
  <2> SUFFICES ASSUME Inv PROVE fds <= NFD /\ fds <= Len(stack) /\ (fpc \in Over => fds = 0)
    OBVIOUS
  <2>1. Walking /\ Len(stack) \in Nat
    BY DEF Inv, Walking
  <2>2. stack = <<>> => Len(stack) = 0
    OBVIOUS
  <2> QED
    BY <2>1, <2>2 DEF Walking, Over
<1> QED
  BY <1>1, Correct, PTL

=============================================================================
