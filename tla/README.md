# Verification of the xv6 lab solutions

The repository holds one developer's solutions of the MIT 6.S081 labs of 2024:
for each lab, the files of the xv6-riscv kernel (and the user programs) that the
lab changes. The rest of xv6 is not in the repository. This directory models the
solutions in TLA+, checks the models with TLC on small instances, and proves the
most important invariants with TLAPS for every instance.

Paths below are relative to `xv6-labs-2024/`; "external" means xv6 code that is
not in the repository and is modelled from how the code here uses it.

## 1. Inventory

| Component | State | Operations | What is hard | What makes it correct |
|---|---|---|---|---|
| Copy-on-write fork, `lab6: cow` | page tables, free list, `memrefc.count` | `uvmcopy`, `cowhandle`, page-fault branch of `usertrap`, `copyout`, `kalloc`, `kfree` | processes that share pages fault, copy out, shrink, fork again and die in any order; `uvmcopy` fails half way; memory runs out | the sharing cannot be observed; counts, free list and page tables agree; no panic |
| Its allocator at the grain of locks | same, with `kmem.lock` and `memrefc.lock` | `refcadd`, `refcremove`, `refcget`, `kalloc`, `kfree` | two harts inside `kfree` at once | a page is freed once, when nobody maps it |
| Alarm, `lab4: traps/3. alarm` | `ticks`, `tickcount`, `handler`, `run`, `originaltrapframe` | `sigalarm`, `sigreturn`, timer interrupt, `allocproc`, `freeproc` | interrupts at any instruction, handlers that overrun or re-arm, slots used again, allocation failing half way | no re-entry, registers restored, no inherited alarm, no lost page, the alarm comes |
| Prime sieve, `lab1: util/3. primes` | descriptors, pipes, processes | `main`, `handle` | who holds which pipe end decides whether the chain ends; fork fails | primes in order, all of them, every process ends |
| Superpages, `lab3: pgtbl/4` | two free lists, page tables with 2 MB leaves, `record[]`, `next` | `sbrk` (`growproc`, `sbrksuperuvmalloc`), `uvmcopy`, `uvmunmap`, `usertrap` | bookkeeping over any sequence of `sbrk`; failure paths | record agrees with the page table; no panic |
| usyscall page, `lab3: pgtbl/2` | `p->usyscall`, page tables, free list | `allocproc`, `proc_pagetable`, `freeproc`, `proc_freepagetable` | every allocation may fail; exec makes the table anew | no page lost, no panic, a program reads its own pid |
| find and xargs, `lab1: util/4, 5` | call stack and descriptors; line buffer and children; the pipe | `find`, `main` | open, fstat, fork and exec fail; descriptors, stack and pipe are bounded | every match found, one command per line, both end |
| sleep and backtrace, `lab1: util/1`, `lab4: traps/2` | `ticks`, sleepers; stack frames | `sys_sleep`, `backtrace` | the clock wraps and ticks at any moment, kill races with sleep | n ticks, no lost wakeup, the walk stays on the stack |
| pingpong, `lab1: util/2` | two pipes | `main` | who closes which end | one byte string each way, both end |
| vmprint, `lab3: pgtbl/3` | none | `vmprintkpgtbl` | `i << PXSHIFT` in 32 bits | the printed address is that of the entry |
| Tracing, `lab2: syscall/1` | `p->traceid` | `sys_trace`, `syscall`, `fork` | slots used again | only traced calls of traced processes are shown |
| Page counter, `lab2: syscall/2` | `allocated_pages`, `has_record` | `kalloc`, `kfree`, `main` of each hart | empty free list; harts starting | counter agrees with the free list |

Interaction: `fork` (lab 2 copy) calls `allocproc` and `uvmcopy`; `usertrap` calls
`cowhandle` on a page fault and `copyout` calls it too; `cowhandle` and
`uvmunmap` call `kfree`, which takes back only the last mapping's page. The
alarm's timer branch lives in `usertrap` and its fields in `struct proc`, which
`allocproc` and `freeproc` maintain; so do `record[]`, `next` and `usyscall` of lab 3.
The user programs see only system calls; find and xargs meet at a pipe, and
`sys_sleep` shares `ticks` with the clock interrupt.
`PROJECT.json` lists every component, and under "hazards" every place that is
hard to test, with the properties that watch it.

## 2. Modules

| Module | Models | Runs |
|---|---|---|
| `PrivateMemory` | abstract: what programs are promised about memory | as property `ImplementsPrivateMemory` |
| `CowFork` | lab 6 with exec, fork, sbrk, exit, wait around it | `CowForkPair`, `CowForkLive`, `CowForkText` |
| `KallocRefc` | lab 6's allocator and its callers, one step per critical section | `KallocParallel`, `KallocRace` |
| `Alarm` | lab 4's alarm over the lives of a process slot | `Alarm` |
| `SuperPages` | lab 3's superpages: sbrk, fork, exec, exit over two page sizes | `Super`, `SuperShrink` |
| `Usyscall` | lab 3's page with the pid: process slots and their page tables | `Usyscall` |
| `Primes` | lab 1's sieve, one step per system call | `Primes` |
| `Pipeline` | lab 1's `find . b \| xargs cmd` | `Pipeline` |
| `Sleep` | lab 1's sleep, lab 4's `sys_sleep` and `backtrace`, with clock and kill | `Sleep` |
| `CowFork_proofs`, `KallocRefc_proofs`, `Alarm_proofs`, `SuperPages_proofs`, `Usyscall_proofs`, `Primes_proofs`, `Pipeline_proofs`, `Sleep_proofs` | theorems | TLAPS |
| `MCCowFork`, `MCKallocRefc`, `MCAlarm`, `MCSuperPages`, `MCPipeline`, `MCSleep` | symmetry sets and constants for TLC | |

Operators introduced as "the slip of ..." are wrong versions of the definition
that follows them. They are not part of the specifications; the entries
"mutants" of `PROJECT.json` put one in the place of the right version to show
that a property notices.

### CowFork

`freelist` is `kmem.freelist` as a set, `count` is `memrefc.count`, `pte` the leaf
entries of the page tables (`pa`, `PTE_W`, `PTE_U`, `PTE_COW`; `pa = NULL` is an
entry without `PTE_V`), `sz` is `p->sz` in pages, `data` one token per page. `pc`,
`idx`, `lim`, `child` and `req` hold the place in the loop an operation is in.

| Code | Actions |
|---|---|
| `exec` and its `bad:` label | `ExecStart`, `ExecPage`, `ExecFail`, `ExecUndoPage`, `ExecUndone`, `ExecDone` |
| `fork`, `uvmcopy` and its `err:` label | `ForkStart`, `ForkPage`, `ForkFail`, `ForkUndoPage`, `ForkUndone`, `ForkDone` |
| a user instruction, `usertrap`, `cowhandle` | `Access`, `Perform`, `PageFault` |
| `copyout` | `CopyOut`, `CopyOutSplit`, `CopyOutPage`, `CopyOutEnd` |
| `growproc` by one page | `Grow`, `Shrink` |
| `exit`, `wait`, `freeproc` (external) | `Exit`, `Reap`, `FreePage`, `Freed` |

`ForkFail` changes the parent's entry before it fails, as the code does: the
parent keeps a copy-on-write mapping that nobody shares, and the next store
copies the page once for nothing. An address is a number, so that the tests of
`usertrap` and `copyout` (`va >= MAXVA`, the guard range with its 64-bit
wrap-around, `va == 0`) are those of the code on small constants. `StackAssumption` says
where stack pointers are: the page below that of a stack pointer is the guard page
exec made, part of the text, or no user page at all, so that the range `usertrap`
refuses holds no page the program may write. It leaves out programs that move the
stack pointer off the stack exec gave them, say into the heap: `usertrap` may kill
one for a store to the page below. `UserMem` is what the running processes
find in their pages; it is the `mem` of `PrivateMemory`. Left out: page
table pages (so `mappages` fails nondeterministically), contents finer than a
page, `kill` from another process, `sbrk` by several pages (a failed `uvmalloc`
is the same as the pages it undoes), and shrinking below one page.

### KallocRefc

A step is a critical section: the pop and push under `kmem.lock`, the increment
and decrement under `memrefc.lock`, the unlocked read. `Parallel` is the number
of operations that may be under way. The pages of a table are freed by a fork that
failed (`CopyFail`), by `sbrk` of a negative number or an exec (`Shrink`, which may
end with pages left: `Shrunk`), or by the `wait` for an exited process (`Exit`,
`Unmapped`). `wait` holds xv6's `wait_lock` (`waitlock`) meanwhile, so two exited
processes are never freed at once; an exit and a fault, shrink or exec are. A page that enters the list twice, or while
somebody can reach it, has destroyed the list: the model stops there, because what
the kernel does next is arbitrary.

### Alarm

One slot of `proc[]` over any number of lives. A user context is the program
counter, `a0`, and the other registers as one value. The variables `depth`,
`saved`, `asked`, `since` and `cut` are history and appear in no guard. `cut` is set
while the program has chosen an interval that `tickcount` had already reached. A timer
interrupt and a system call are atomic as seen from the process, to which alone
the alarm's fields belong; `allocproc` is split at its allocations, because the
rest of the kernel competes for pages.

### SuperPages

`tab` is a page table as three sets: ordinary pages mapped, superpages mapped,
and the regions (of the size of a superpage) that have a leaf table, which stays
when its last page goes. `sz` is in bytes. `ones` is the set of positions of
`p->record` that hold '1', the only value the code tests for. `free` and
`superfree` are the lengths of the two free lists: pages have no identity, and one
that is in use is known by the process and by what it is used for (`Held`,
`HeldSuper`). `SuperAssumption` asks for room for two superpages below `LIMIT`, the
highest size a process can have; in xv6 that is 4 MB of an address space of 256 GB.

| Code | Actions |
|---|---|
| `sbrk(n > 0)`: `sbrksuperuvmalloc`, then the record | `SbrkGrow`, `AllocSuper`, `AllocPage`, `AllocFail`, `GrowDone`, `GrowFailed` |
| `sbrk(n < 0)`: the loop of `growproc` | `SbrkShrink`, `ShrinkPage`, `ShrinkSuper`, `ShrinkNext`, `ShrinkEnd` |
| the part that splits a superpage, with `uvmalloc` | `ShrinkSplit`, `SplitAlloc`, `AllocPage`, `AllocFail`, `SplitDone` |
| `uvmunmap` | `UnmapStep` |
| `allocproc`, `uvmcopy` and its `err:` label, `fork` | `ForkStart`, `CopyStep`, `CopyFail`, `ForkDone`, `ForkFailed` |
| `exit`, also of a process that `usertrap` kills for a page fault, `uvmfree`, `freeproc` | `Exit`, `ExitDone` |
| `exec` from the point where it commits | `ExecStart`, `ExecDone` |

A panic, and a write outside `p->record` ("wild"), ends a behaviour: the
properties speak of the states up to and including it. Splitting a superpage may
move `next` past the end of the record, which writes nothing; the bytes that later
shrinks read there are any (`ReadsOne`, `ReadsZero`). Left out: page contents
(a page that leaves a table has lost them), upper-level page tables (counted with
the pages `allocproc` takes), the allocations of `allocproc` one by one (`ForkStart`
takes all of them or fails; `Usyscall` models them, and a `proc_pagetable` with the
same wrong `uvmunmap` as line 107 here), the moment between the allocation of a page and that
of its leaf table, an `exec` that fails (it gives back what it took; `CowFork` and
`Usyscall` have its failure path), and images of a superpage or more, for which
`superwalk` would allocate a table with `superkalloc` (`vm.c:41-46`).

The history variable `base` holds the size at which the record of a process
starts. It becomes `UNTIDY` once the program asks for something the record cannot
describe: part of a page, a shrink that ends inside a superpage or below the
record, or exec with a record that is not empty. `TidyHeap` and `TidyPanics` are
about the programs that never did; the others are covered by `PagesConserved`,
`ForkExact` and `FailedGrowUndone`, which have no such condition.

### Usyscall

A slot's `pc` is its place in `allocproc`, `proc_pagetable`, `exec` or `freeproc`.
A page table is the set of its tables (`root`, `l1`, `l0`) and the set of the three
special addresses it maps. Pages have no identity: `free` and `others` are numbers, and a
page that a slot holds is known by the slot and its use (`Held`). Every `kalloc` is a step, between
which other slots and the rest of the kernel (`OthersAlloc`, `OthersFree`) take and
return pages; user memory is among the latter. A call of `uvmunmap` for an address
that is not mapped, or of `freewalk` with a mapping left, sets `panicked`.

### Pipeline

`stack` holds the active calls of `find()` with the number of entries each has
read, `fds` the number of open descriptors, `pipe` the tokens under way (a name or
a newline), `xargs` its processes, each the child of the one before it. The
`Flaky` nodes are those whose `open` or `fstat` may fail. `room` is the number of
calls that fit into the stack page that exec sets up, below the arguments: every
call takes 512 bytes for `buf` alone. `find` prints the complaint about a long path
to standard output, so it is a line like the others (xv6's own limit on paths,
which is not in the repository, makes `open` refuse such a path first; the model
allows either). Left out: the characters of a name, and with them the length of
xargs' buffer. `TreeAssumption` gives the tree its type; it does not say that the
entries form a tree, and the proofs do not need it. `PipeAssumption` says that no
name is a newline.

### Sleep

A step of `sys_sleep` is what happens between two points at which another CPU can
interfere: taking the lock, the test, `killed()`, `sleep()`. `sleep` releases
`tickslock` and suspends in one step, because it holds `p->lock`, which `wakeup` and
`kill` need. `ticks` counts modulo `W`. `Clock` waits for `tickslock`, increments and
wakes all sleepers; it is held back while a woken process has waited `LAG` ticks for
a CPU, which is the bound a round-robin scheduler gives, and far below half the
range of `ticks`, as `TickAssumption` asks. `backtrace` reads memory that only its
process writes, so it is one step; `Layouts` are the frame pointers that compilers
may produce.

### Primes

`fds` records which pipe ends each process has open, including those that fork
copied; end of file and "no reader" are derived from it. A pipe holds whole
numbers, since 512 bytes are a multiple of four and all reads and writes are of
four bytes. `pipe()` is taken to succeed and `read` is not interrupted by `kill`.

## 3. What the runs show

| Run | Bounds | Result |
|---|---|---|
| `CowForkPair` | 2 processes of 2 pages, 4 physical pages, a text page, addresses 0, 2, 3, 6 with 2-byte pages, stack pointers in both pages, copyout of 3 bytes across pages | 426 416 states: `TypeOK`, `RefExact`, `FreeIffUnmapped`, `PrivateUnlessCow`, `NoPanic`, `KillJustified`, and `CowFork` implements `PrivateMemory` |
| `CowForkLive` | 2 processes, 3 physical pages, a guard page, stack pointers in page 0 and above the stack | every operation ends |
| `CowForkText` | as `CowForkPair` | `TextUnchanged` violated, see 5 |
| `KallocParallel` | 3 processes, 3 pages, two operations at a time | 145 705 states: counts exact and never negative, no leak |
| `KallocRace` | two at a time | `NoDoubleFree` violated, see 5 |
| `Alarm` | intervals 1 and 3, disarming, a rejected argument, 3 pages, counts up to `MaxCount` | 60 324 states: all safety properties and `AlarmComes` |
| `Super` | 2 processes, 2-byte pages, 2 pages to a superpage, sizes to 14 bytes, a record of 2 entries, 8 pages and 2 superpages, sbrk of 2, 8, -3 and -4 bytes | 3.2 million states: no page lost, failed growth undone, forks exact, the record of a tidy heap right, and three situations in which the kernel stops |
| `SuperShrink` | 1 process, sbrk of whole pages | `KeptMemory` violated, see 5 |
| `Usyscall` | 3 slots, 13 pages, 4 pids | 690 000 states: no page lost, no panic, every program finds its pid |
| `Pipeline` | 9 nodes on 4 levels, 3 descriptors, room for 2, 3 or 9 calls, a pipe of 3 tokens, 5 processes | 4 192 states: all matches found, lines run in order and once, both programs end |
| `Sleep` | 2 processes, `ticks` modulo 6, arguments -3 to 2, a lag of 2, 3 layouts of the stack | 139 872 states: no early or overdue return, no lost wakeup, exact backtraces, every sleep ends |
| `Primes` | numbers to 17 (7 stages and the last, empty one), pipes of 2, any fork failing | 15 294 states |

Why the bounds are enough to be interesting. In `CowForkPair` two pages per
process make `uvmcopy` fail after a first success, four physical pages let two
full processes coexist and none be left for a copy, and the addresses hit the
text page, the page of the stack pointer at its first byte and beyond, and an
address above `MAXVA`; with the stack pointer in the first page the lower end of the
guard range wraps around. (Any number of sharers is the subject of section 4.) In
`KallocRefc` two operations suffice for the race and a third
process can exist beside them. In `Super` sizes fall in the middle of pages, a
heap spans pages, a superpage and pages, the record overflows, and both lists run
dry in every loop. In `Usyscall` 13 pages are fewer than two running processes
and a third in exec need, so each allocation fails in some state and succeeds in
another. In `Primes` a pipe of two numbers is full and
empty in turn. In `Pipeline` the tree is deeper than the descriptors reach, and
than two of the three stacks; the pipe is smaller than the output; and chains of
children whose exec failed come up to the bound on processes. In `Sleep` the
longest argument is the largest int of a clock with 6 values, and sleeps of every
length cross its wrap-around.

Symmetry: physical pages (`CowFork`) and processes (`KallocRefc`, `SuperPages`) are
interchangeable in the specifications and properties; the liveness runs use none.

Deadlock is checked except in `Primes` and `Pipeline`, whose processes end, in the
runs of `SuperPages`, where the last process may exit and the kernel may panic, and
in `Usyscall`, where the pids are used up.

Fairness. `CowForkLive`: weak fairness of the steps that continue an operation a
process has begun, which xv6's round-robin scheduler gives every runnable
process; nobody has to begin anything, and a parent need not call `wait`. `Alarm`:
weak fairness of the timer interrupt, which the hardware raises for ever and
after which `yield` returns to every runnable process in turn. `Primes`: weak
fairness of each process's next step; a blocked `read`, `write` or `wait` has no
step. `Pipeline`: the same, for the two programs; every process of xargs but the
last waits for its child. `Sleep`: weak fairness of each process's steps that need
no lock; strong fairness of the clock and of taking `tickslock`, which is a spinlock
without a queue, held for a few instructions at a time: it is free again and again,
and whoever spins for it finds it free at some time. Whether anybody starts a sleep
is left open.

## 4. What is proved

`CowFork_proofs` proves `TypeOK`, `RefExact`, `FreeIffUnmapped`,
`PrivateUnlessCow` and `NoPanic` of `Spec` for every finite set of processes and
pages and all sizes, addresses and lengths that satisfy the assumptions in
`CowFork` (user memory lies below `MAXVA`, which is at most 2^64 or what `WORD`
stands for; the fill pattern is not a value).

None of these is inductive alone. `kfree` decides by the count, so the free list
is right only if the counts are; the counts stay right only if `uvmunmap` meets
valid entries; and it does only if each operation's loop variables say which
prefix of which table is mapped. The inductive invariant is
`TypeOK /\ Family /\ Loops /\ TableShape /\ Memory /\ ~panicked`:

* `Family`: a fork under way has a child of its own, which does not run;
* `Loops`: loop variables are 0 outside loops;
* `TableShape`: at each point of each operation, exactly which entries are valid;
* `Memory`: `RefExact`, `FreeIffUnmapped` and `PrivateUnlessCow`, stated of a
  table, a free list and counts as arguments.

`Memory` is shown to survive the five things that are done to a page table entry
(dropped, filled from the free list, replaced by a copy, marked, shared) by five
lemmas on arbitrary tables; each action is then an instance of one of them.
`RefsPut` says how the set of mappings of a page changes with one entry and is
where cardinalities are computed.

The second part of `CowFork_proofs` builds on this invariant and shows that
`Spec` implements `PrivateMemory!Spec` under `UserMem`: each action is a step of the
abstract memory (a store, a fork, a growth, an exit) or leaves it alone. The copy
that `cowhandle` makes is of the second kind, and so is every step of `uvmcopy`, its
failure path included; a fork shows at `ForkDone`. What has to be added to the
invariant (`Extra`): an entry outside the text is writable or copy-on-write and not
both; pages that exec has filled hold the image; the child's entries so far are
those of the parent; a running process has a first page; an access under way is one
a program makes. A store through a writable entry changes nobody else's memory
because of `WritableIsPrivate`, and the page `kfree` returns is nobody's because of
`CountsExact`. `KillJustified` follows from the flags of the entries and
`StackAssumption`.

`Alarm_proofs` proves `TypeOK`, `NotReentered`, `RunExact`, `AlarmAsked`,
`PagesConserved`, `OnTime` and `SigreturnRestores` for all intervals, handlers,
registers and memory sizes. The invariant adds that `originaltrapframe` is what the
running handler interrupted, which pages `allocproc` holds at which point, and that
`tickcount` is the number of ticks counted since the last alarm or more. `OnTime` says
that an alarm is never overdue; it does not say that none comes early, and one that is
re-armed in mid-count may, since `sigalarm` keeps `tickcount`.

`KallocRefc_proofs` proves `CountExact` and `NoLeak` for any number of processes,
pages and operations at a time. The invariant gives every unit of a count its owner:
`count[pa]` is the number of tables whose mapping is counted (`Owners`) plus the
number of operations that hold the page between table and count (`Carriers`).
`Tables` and `Family` say which page an operation is working on and that no two
operations work on the same table. `SerialSafe` proves `NoDoubleFree` when one
operation runs at a time: then what `refcget` returned is still true at the push
(`Serial`), which is the step that fails with two operations, as the run `KallocRace`
shows.

`Usyscall_proofs` proves `NoPanic`, `PidRight`, `PagesConserved` and `TypeOK` for any
number of slots, pages and pids. The invariant says which tables a slot has at which
point (`Build`: none, one under construction, or a full one) and that pids are handed
out once (`Pids`). Its heart is `FailsFirst`: a table under construction that maps
anything has all the tables the rest needs, so `mappages` can only fail when there is
nothing to undo. `Accounts` adds which of the trapframe and the usyscall page a slot
has at which point. `Held` grows by exactly one page with every `kalloc` and loses
exactly the slot's own pages in `freeproc`; a page freed by the wrong slot, or not at
all, would break the cardinality. That `Held` is finite is part of the invariant, so
nothing is assumed of the number of slots.

`Primes_proofs` proves `InOrder`, `AllPrintedAtExit` and `NothingLost` for every last
number, every capacity of a pipe and every length of the chain. What the console
shows depends on everything that was ever in the pipes, so the invariant describes
the streams: a pipe holds, in ascending order, the numbers its writer has sent and
its reader has not read, among those that the primes so far leave (`Stream`); a
process prints the least of them (`Least`); one that has closed its pipe has sent all
of them (`Complete`); and without a failed fork the chain ends from its end
(`Order`). That the least number left is a prime, and that no prime is left out, needs
only that divisibility is transitive and that a divisor is smaller: no induction.

`Sleep_proofs` proves `SleepsOnTime`, `NeverAsleepDue` and `BacktraceExact` for any
number of processes, any width `W` of the clock and any lag below half of it. The
invariant: `tickslock` is held from the reading of `ticks` to the going to sleep
(`Exclusion`), the unsigned difference that the loop tests is the time slept
(`Elapsed`), and how large it can be at each point (`Bounded`). For `backtrace`,
`FrameAssumption` gives the layouts their type; the walk is a recursive function, and
its value is found by unfolding it once per frame, after a witness has shown that it
exists.

`SuperPages_proofs` proves `TypeOK`, `PagesConserved`, `TidyHeap`, `TidyPanics`,
`ForkExact` and `FailedGrowUndone` for any number of processes, any sizes of pages,
superpages, record and memory, and any requests to `sbrk`. `Inv` is the conjunction
of six parts:

* `Structure`: types, what the place of a process in the kernel says of its local
  variables (`Locals`), and that a child under construction has one parent;
* `Memory`: which pages each loop has mapped so far. While `sbrksuperuvmalloc` runs,
  or its undoing, the table maps what it did before the call and the pages from the
  old size up to the loop variable, with no superpage across either end (`Span`,
  `Clear`). While `uvmcopy` runs the child's table is the parent's below the loop
  variable (`CopyOf`), and the err label meets exactly that, or the superpage of the
  parent that could not be allocated (`Uncopying`);
* `Heaps`: for tidy programs, what the record says. Entry number `Count(t, b, q * K)`
  is that of superpage `q`; the record is right if the positions that hold '1' are
  those of the superpages (`Recorded`), and a growth under way will append pages,
  then superpages, then pages, as the three counters say (`Appended`);
* `Accounts`: the set of held pages is finite and, with the free list, has the size
  of the memory;
* `TidyPanics`, which says in which state the kernel has stopped;
* `Fits`: `next` of a tidy process never passes the end of the record.

`RecordSuffices` goes one step further for the overflow of the record: an entry stands
for a page or a superpage that the process holds, so a record as long as memory has
pages and superpages is never too short for a tidy program. That is the case in the
repository: about 24 MB of ordinary pages, some 6000, against `record[10000]`. The
other two situations of `TidyPanics` have no such condition.

`ForkExact` follows from `CopyOf` at the end of the loop, and `FailedGrowUndone` from
`Span` when the undoing has come back to the old size. Each action changes one table,
sometimes that of a child too; lemmas on arbitrary tables say what mapping or
unmapping a page or a superpage does to `Span`, `CopyOf`, `Count`, `Positions` and the
held pages, and the action lemmas instantiate them. The difficult ones are the undoing
in `uvmunmap`, which steps by the kind of page it finds, and `GrowDone`, where the
record is written for what three loops have mapped.

`Pipeline_proofs` proves `InOrder` and `OneCommandPerLine` for any entries of the
directories, any numbers of descriptors and processes, a pipe of any size, and any
failures. The invariant says that xargs has read the text of `m` lines and all of
their newlines but `h`, where `h` is 0 or 1, and that the pipe holds the rest, text
and newline in turn (`Flow`); that the commands run, with what is in `buf` as one more
of them, hold names of the first `m` lines in order (`Placed(Handed, ...)`); and,
while no fork or exec has failed, which command belongs to which line (`OneEach`).
`Handed` is what makes `InOrder` inductive: a line is accounted for from the moment it
is read, so a failed fork or exec changes nothing. `AllClosed` proves the part of
`FoundAll` that is about descriptors: as many are open as there are calls, and none
at the end.

Only model-checked: the rest of `FoundAll`, which compares what find prints with
a definition by recursion over the tree, and the prover has no induction over data;
and the liveness properties `OpsEnd`, `AlarmComes`, `AllEnd` and `SleepEnds`, for which
it has no rules.

## 5. Disagreements found

* `KallocRace`: `kfree` decrements the count under the lock and reads it again
  without (`kalloc.c:88-89`). Two sharers that give the page up at the same time, by
  a copy-on-write fault, an exec, a shrink, or one of them by an exit, can both read 0
  and free the page twice. (Two exits cannot: `wait_lock` keeps them apart.) Returning the new count from
  `refcremove` would repair it.
* `CowForkText`: `copyout` never looks at `PTE_W` (`vm.c:53`), so a system call
  overwrites program text; `cowhandle` also makes a copied text page writable
  (`proc.c:56`). The refusal of address 0 covers only the first byte.
* `SuperShrink`: to give back part of a superpage, `growproc` releases all of it
  and maps zeroed pages for the part that stays (`proc.c:162-164`); nothing copies
  the contents over.

Exceptions that the passing properties had to state, because the code really does
these things:

* `KillJustified`: the guard test is `va <= up` (`trap.c:44`), which includes the
  first byte of the page the stack pointer is in. A store there to a shared page
  kills the process.
* `OnTime`, `AlarmComes`: shortening the interval to the ticks already counted
  silences the alarm (`trap.c:52` tests for equality, `sysproc.c:26` keeps
  `tickcount`).
* `TidyPanics` says what must be the case when the kernel stops, not that it never
  does: `sbrk` of a page at a superpage boundary, of minus a page, and of a
  superpage panics (`vm.c:73`), because the level-1 entry still points to the leaf
  table, and only if that is empty; a fork that runs out of superpages unmaps in the
  child what it did not map (`vm.c:275`), after it gave back everything it did; and
  `record[]` overflows (`proc.c:140`) when the heap really has more entries, which
  `RecordSuffices` excludes for the repository's sizes.
* `FoundAll`: a tree deeper than the stack page has room for kills find.
* `OneCommandPerLine`: after a failed fork the next line is added to the one that
  was not run, and after a failed exec the child goes on reading in the place of its
  parent; `InOrder` says what remains true then.

Reachable as well, by programs whose `sbrk` calls are not tidy: a split that runs
out of pages sets the size to 0 (`proc.c:164`); `sbrk(1)` followed by `sbrk(-1)`
makes `p->next` -1 (`proc.c:179`), so that the next growth writes in front of
`p->record`; and exec leaves `record` and `next` to the new program, so that a shrink may release
part of the new image or panic. For these `PagesConserved` shows only that no page is
lost.

And one that is not: the failure path of `proc_pagetable` that unmaps `USYSCALL`
instead of `TRAPFRAME` (`lab3: pgtbl/2`, `proc.c:89`) would panic, but is never
taken, since the three pages share a leaf table that the first mapping has made.
`NoPanic` of `Usyscall` holds because of it.

## 6. Not modelled

Not modelled, and why: the assembly listings, build files, tables, declarations,
test drivers and grading scripts have no behaviour; the two exercise programs of
the attack lab look into freed memory on purpose; pingpong is two processes and two
pipes, a smaller instance of what `Primes` checks; vmprint prints a page table and
changes nothing; the page counter of lab 2 is read by a debugging message only;
tracing adds a mask to `struct proc`, copied by fork and tested after each call, and
the rest of it is output. The last two could still become small modules.
