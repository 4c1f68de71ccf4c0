------------------------------ MODULE Pipeline ------------------------------
(***************************************************************************)
(* find . b | xargs cmd: the two programs of lab 1 that the README runs    *)
(* together, joined by a pipe.                                             *)
(*                                                                         *)
(* find() recurses over the directory tree with one open descriptor per    *)
(* level and writes a line per match.  xargs collects the characters of a  *)
(* line in buf, forks, and the child runs the command with buf as its last *)
(* argument.  A name is one token and the newline another; buf is the list *)
(* of names in it, which the command gets as one string.                   *)
(*                                                                         *)
(* The stack of find is what exec sets up: pages with the arguments at the *)
(* top and a guard page below.  Every call takes a buf of 512 bytes, and a *)
(* call that does not fit faults.                                          *)
(***************************************************************************)
EXTENDS Integers, Sequences, SequencesExt

CONSTANTS
    Nodes,      \* files, directories and devices
    Root,       \* the directory find starts from
    Type,       \* st.type of every node: "file", "dir" or "dev"
    Match,      \* the nodes whose last path component is file_name
    Entries,    \* the directory entries of every directory
    NULL,       \* the node of an entry whose inum is 0
    Long,       \* directories open() accepts whose paths leave no room in buf
    Flaky,      \* nodes that open() or fstat() may fail for
    NFD,        \* descriptors find can open besides 0, 1 and 2
    Rooms,      \* calls of find() the stack page may have room for
    Message,    \* the text "find: path too long"
    NL,         \* the newline
    Cap,        \* tokens that fit into the pipe
    MaxProc     \* processes the process table has room for

Dots == {".", ".."}

ASSUME TreeAssumption ==
    /\ Root \in Nodes /\ Match \subseteq Nodes /\ Flaky \subseteq Nodes /\ Long \subseteq Nodes
    /\ Type \in [Nodes -> {"file", "dir", "dev"}]
    /\ \A n \in Nodes : Type[n] = "dir" =>
         Entries[n] \in Seq([name : STRING, node : Nodes \cup {NULL}])
ASSUME PipeAssumption ==
    /\ NFD \in Nat /\ Cap \in Nat \ {0} /\ MaxProc \in Nat \ {0} /\ Rooms \subseteq Nat \ {0}
    /\ NL \notin Nodes \cup {Message}

VARIABLES
    stack,      \* the active calls of find(): node and entries read
    fpc,        \* where the innermost call is
    fds,        \* descriptors find has open
    room,       \* calls that fit below this run's arguments
    pipe,       \* tokens on their way
    xargs,      \* the processes of xargs, a parent before its child
    \* History, for the properties only:
    lines,      \* what find has printed
    reported,   \* nodes find has complained about on stderr
    ran,        \* the arguments of the commands run so far
    mishap      \* a fork or an exec of xargs has failed

findvars == <<stack, fpc, fds, room, lines, reported>>
xargsvars == <<xargs, ran, mishap>>
vars == <<findvars, pipe, xargsvars>>

Init ==
    /\ stack = <<[node |-> Root, i |-> 0]>>
    /\ fpc = "open"
    /\ fds = 0
    /\ room \in Rooms
    /\ pipe = <<>>
    /\ xargs = <<[pc |-> "read", buf |-> <<>>]>>
    /\ lines = <<>> /\ reported = {}
    /\ ran = <<>> /\ mishap = FALSE

-----------------------------------------------------------------------------
(* find().                                                                 *)

Node == Last(stack).node

\* The innermost call returns to the loop of its caller, or to main().
Return ==
    /\ stack' = Front(stack)
    /\ fpc' = IF Len(stack) = 1 THEN "done" ELSE "loop"

\* The frame of the call reaches the guard page: the kernel kills find and
\* closes what it has open.
FindOverflow ==
    /\ fpc = "open" /\ Len(stack) > room
    /\ fpc' = "killed"
    /\ stack' = <<>>
    /\ fds' = 0
    /\ UNCHANGED <<lines, reported, pipe>>

FindOpen ==
    /\ fpc = "open" /\ Len(stack) <= room /\ fds < NFD
    /\ fds' = fds + 1
    /\ fpc' = "stat"
    /\ UNCHANGED <<stack, lines, reported, pipe>>

FindOpenFail ==
    /\ fpc = "open" /\ Len(stack) <= room /\ (fds = NFD \/ Node \in Flaky)
    /\ reported' = reported \cup {Node}
    /\ Return
    /\ UNCHANGED <<fds, lines, pipe>>

FindStatFail ==
    /\ fpc = "stat" /\ Node \in Flaky
    /\ reported' = reported \cup {Node}
    /\ fds' = fds - 1
    /\ Return
    /\ UNCHANGED <<lines, pipe>>

\* The switch on the type.
FindSwitch ==
    /\ fpc = "stat"
    /\ fpc' = CASE Type[Node] = "file" -> IF Node \in Match THEN "print" ELSE "close"
                [] Type[Node] = "dir" -> IF Node \in Long THEN "print" ELSE "loop"
                [] Type[Node] = "dev" -> "close"
    /\ UNCHANGED <<stack, fds, lines, reported, pipe>>

\* The entries followed.
Follow(e) == e.node # NULL /\ e.name \notin Dots

\* One entry of the directory: skipped, or a recursive call.
FindEntry ==
    LET e == Entries[Node][Last(stack).i + 1]
        read == [stack EXCEPT ![Len(stack)].i = @ + 1]
    IN  /\ fpc = "loop" /\ Last(stack).i < Len(Entries[Node])
        /\ \/ ~Follow(e) /\ stack' = read /\ fpc' = "loop"
           \/ Follow(e) /\ stack' = Append(read, [node |-> e.node, i |-> 0]) /\ fpc' = "open"
        /\ UNCHANGED <<fds, lines, reported, pipe>>

FindLoopEnd ==
    /\ fpc = "loop" /\ Last(stack).i = Len(Entries[Node])
    /\ fpc' = "close"
    /\ UNCHANGED <<stack, fds, lines, reported, pipe>>

\* printf writes to the pipe, and waits while it is full.
Line == IF Type[Node] = "file" THEN Node ELSE Message

FindPrint ==
    /\ fpc = "print" /\ Len(pipe) < Cap
    /\ pipe' = Append(pipe, Line)
    /\ lines' = Append(lines, Line)
    /\ fpc' = "newline"
    /\ UNCHANGED <<stack, fds, reported>>

\* The slip of a message without "\n", and what ends every line.
NoNewline == <<>>
Newline == <<NL>>

FindNewline ==
    /\ fpc = "newline" /\ Len(pipe) < Cap
    /\ pipe' = pipe \o Newline
    /\ fpc' = "close"
    /\ UNCHANGED <<stack, fds, lines, reported>>

\* The slip of a missing close, and the descriptors left after it.
LeftOpen == fds
Closed == fds - 1

FindClose ==
    /\ fpc = "close"
    /\ fds' = Closed
    /\ Return
    /\ UNCHANGED <<lines, reported, pipe>>

FindStep ==
    /\ \/ FindOverflow \/ FindOpen \/ FindOpenFail \/ FindStatFail \/ FindSwitch
       \/ FindEntry \/ FindLoopEnd \/ FindPrint \/ FindNewline \/ FindClose
    /\ UNCHANGED <<room, xargsvars>>

-----------------------------------------------------------------------------
(* xargs.  Every process waits for its child, so the last one is the one   *)
(* that runs; all of them read the same pipe.                              *)

Active == Last(xargs)
With(proc) == [xargs EXCEPT ![Len(xargs)] = proc]

\* A character that is not the newline: p++.
XargsChar ==
    /\ Active.pc = "read" /\ pipe # <<>> /\ Head(pipe) # NL
    /\ xargs' = With([Active EXCEPT !.buf = Append(@, Head(pipe))])
    /\ pipe' = Tail(pipe)
    /\ UNCHANGED <<ran, mishap>>

\* The newline ends the string; then fork.
XargsLine ==
    /\ Active.pc = "read" /\ pipe # <<>> /\ Head(pipe) = NL
    /\ xargs' = With([Active EXCEPT !.pc = "fork"])
    /\ pipe' = Tail(pipe)
    /\ UNCHANGED <<ran, mishap>>

XargsFork ==
    /\ Active.pc = "fork" /\ Len(xargs) < MaxProc
    /\ xargs' = Append(With([Active EXCEPT !.pc = "wait"]), [Active EXCEPT !.pc = "exec"])
    /\ UNCHANGED <<pipe, ran, mishap>>

\* fork returns -1, for want of memory or of a slot: p stays where it is,
\* and the next line is added to this one.
XargsForkFail ==
    /\ Active.pc = "fork"
    /\ xargs' = With([Active EXCEPT !.pc = "read"])
    /\ mishap' = TRUE
    /\ UNCHANGED <<pipe, ran>>

XargsExec ==
    /\ Active.pc = "exec"
    /\ xargs' = With([Active EXCEPT !.pc = "command"])
    /\ ran' = Append(ran, Active.buf)
    /\ UNCHANGED <<pipe, mishap>>

\* exec returns -1: the child goes on in the loop of its parent.
XargsExecFail ==
    /\ Active.pc = "exec"
    /\ xargs' = With([Active EXCEPT !.pc = "read"])
    /\ mishap' = TRUE
    /\ UNCHANGED <<pipe, ran>>

\* The slip of keeping p, and p = buf.
Kept(buf) == buf
Reset(buf) == <<>>

\* The process that runs is gone, and its parent's wait(0) returns.
XargsExit ==
    xargs' = IF Len(xargs) = 1
               THEN <<[pc |-> "done", buf |-> <<>>]>>
               ELSE LET parent == xargs[Len(xargs) - 1] IN
                    Append(SubSeq(xargs, 1, Len(xargs) - 2),
                           [pc |-> "read", buf |-> Reset(parent.buf)])

XargsCommandEnds ==
    /\ Active.pc = "command"
    /\ XargsExit
    /\ UNCHANGED <<pipe, ran, mishap>>

\* The slip of testing read() >= 0: the end of the input is no end.
NeverEnd == FALSE

\* read() returns 0: the pipe is empty and find has exited.
AtEnd == pipe = <<>> /\ fpc \in {"done", "killed"}

XargsEnd ==
    /\ Active.pc = "read" /\ AtEnd
    /\ XargsExit
    /\ UNCHANGED <<pipe, ran, mishap>>

XargsStep ==
    /\ \/ XargsChar \/ XargsLine \/ XargsFork \/ XargsForkFail
       \/ XargsExec \/ XargsExecFail \/ XargsCommandEnds \/ XargsEnd
    /\ UNCHANGED findvars

-----------------------------------------------------------------------------
Next == FindStep \/ XargsStep

Spec == Init /\ [][Next]_vars

\* Both programs keep getting the CPU; a process that waits for the pipe is
\* woken when there is room or data.
FairSpec == Spec /\ WF_vars(FindStep) /\ WF_vars(XargsStep)

-----------------------------------------------------------------------------
(* Properties.                                                             *)

\* What find should print for the tree below n, in the order of the entries,
\* when the nodes in reported could not be looked at.
Expected[n \in Nodes] ==
    IF n \in reported THEN <<>>
    ELSE CASE Type[n] = "file" -> IF n \in Match THEN <<n>> ELSE <<>>
           [] Type[n] = "dev" -> <<>>
           [] Type[n] = "dir" ->
                IF n \in Long THEN <<Message>>
                ELSE LET kids == SelectSeq(Entries[n], LAMBDA e : e.node # NULL /\ e.name \notin Dots)
                     IN  FlattenSeq([i \in DOMAIN kids |-> Expected[kids[i].node]])

\* The depth of the call find(n).
Depth[n \in Nodes] ==
    IF n = Root THEN 1
    ELSE 1 + Depth[CHOOSE d \in Nodes : Type[d] = "dir" /\ \E i \in DOMAIN Entries[d] :
                      Entries[d][i].node = n /\ Entries[d][i].name \notin Dots]

\* find prints every match once, in order, and nothing else but a line for
\* each directory whose path is too long.  It leaves out, and complains of,
\* only what open or fstat refused or what lies deeper than its descriptors
\* reach: one per level, however many files it has looked at.  A run that
\* ends on the guard page has met a node too deep for the stack, and what it
\* printed is the beginning of that output.
FoundAll ==
    /\ fpc = "done" => lines = Expected[Root] /\ fds = 0
    /\ \A n \in reported : n \in Flaky \/ Depth[n] > NFD
    /\ fpc = "killed" => /\ \E n \in Nodes : Depth[n] > room
                         /\ IsPrefix(lines, Expected[Root])

\* The names that the commands in r got: name j of command i is <<i, j>>.
Given(r) == UNION {{i} \X DOMAIN r[i] : i \in DOMAIN r}
Before(g, h) == g[1] < h[1] \/ (g[1] = h[1] /\ g[2] < h[2])

\* Whatever fails, no line reaches two commands and no command gets a line
\* before an earlier one: the arguments of all commands, put together, are
\* lines of find's output in its order.
InOrder ==
    \E place \in [Given(ran) -> DOMAIN lines] :
      /\ \A g \in Given(ran) : lines[place[g]] = ran[g[1]][g[2]]
      /\ \A g, h \in Given(ran) : Before(g, h) => place[g] < place[h]

\* Unless a fork or an exec fails, every line becomes one command with that
\* line as its argument, and when xargs ends all of them have run.
OneCommandPerLine ==
    ~mishap =>
      /\ Len(ran) <= Len(lines)
      /\ \A i \in DOMAIN ran : ran[i] = <<lines[i]>>
      /\ Active.pc = "done" => Len(ran) = Len(lines)

\* Both programs end, whichever fork, exec, open or fstat fails, and however
\* small the pipe is.
AllEnd == <>(fpc \in {"done", "killed"} /\ Active.pc = "done")
=============================================================================
