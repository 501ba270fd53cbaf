# Verification of the xv6 labs

The repository holds four course versions of the xv6 teaching kernel
(`src/DesignOperatingSystems/DesignOS-xv6-public-lab1` to `-lab4`), each with
the changes of its lab: physical memory detection and backtraces (lab 1),
copy-on-write memory (lab 2), a scheduler with policies and threads (lab 3),
file owners and permissions (lab 4). The rest of the repository is notebooks,
archives and PDF papers, which are not modelled.

This directory models the kernels in TLA+, checks the models with TLC on small
instances and proves theorems about them with TLAPS. `PROJECT.json` maps every
definition to the lines it models and lists the runs, the mutants that show
each property can fail, the hazards and the theorems.

## 1. Inventory

| component | state | operations | interacts through | module |
|---|---|---|---|---|
| copy-on-write memory (lab 2: `vm.c`, `kalloc.c`, `trap.c`, `exec.c`, `proc.c`) | free list, `pageref[]`, page directories and tables, page contents | `kalloc`, `kfree`, page fault, `allocuvm`, `deallocuvm`, `copyuvm`, `exec`, `freevm`, `exit`, `wait` | physical pages shared by several address spaces | CowMemory |
| spinlocks (lab 2: `spinlock.c` and every user of it) | `locked`, `cpu` of each lock, the CPU's `ncli` | `acquire`, `release`, `sched`, `sleep`, `wakeup` | nesting of one component's lock in another's | KernelLocks |
| scheduler (lab 3: `proc.c`) | `ptable`, the run queue (`queue.head`, `p->next`), each CPU's `proc` | `allocproc`, `fork`, `clone`, `exit`, `wait`, `sleep`, `wakeup`, `kill`, `yield`, `setscheduler`, `scheduler` | `ptable.lock`; interrupts; parents and children | Sched |
| threads (lab 3: `proc.c`, `sysfile.c`, `exec.c`, `vm.c`) | `tg` of each process, shared page directory, descriptors and working directory of the owner and the copies in each slot | `clone`, `fork`, `growproc`, `exec`, `exit`, `wait`, `open`, `dup`, `close`, `chdir` | no lock on the group: members interleave inside calls | Threads |
| log (`log.c`, labs 2-4) | on-disk log, `log.lh`, `outstanding`, `committing` | `begin_op`, `log_write`, `end_op`, `commit`, `recover_from_log` | every file system call; the buffer cache | Log |
| buffer cache and disk (`bio.c`, `ide.c`, `sleeplock.c`) | buffer list, flags, sleep locks, the request queue | `bread`, `bwrite`, `brelse`, `log_write`'s pin, `iderw`, `ideintr` | sleep locks; the disk's interrupt; `kill` of sleepers | BufCache |
| inodes and directories (`fs.c`, `sysfile.c`) | inode cache, link counts, directory entries, sleep locks | `iget`, `ilock`, `iput`, `ialloc`, `namex`, `open`, `create`, `link`, `unlink`, `mkdir`, `mknod`, `chdir` | locks nested along paths; the log | Inodes |
| permissions (lab 4: `sysfile.c`, `include/fs.h`) | `uid` of a process, `owner` and `perms` of an inode | `chown`, `chmod`, the tests in `open`, `create`, `link`, `unlink`, `chdir`, `exec` | inodes | Inodes |
| pipes, file table, console input (`pipe.c`, `file.c`, `console.c`) | ring buffers, `ofile`, reference counts, edit buffer with `r`, `w`, `e` | `pipewrite`, `piperead`, `pipeclose`, `dup`, `close`, `pipe`, `fork`, `exit`, `consoleintr`, `consoleread`, `consolewrite` | wait channels; `kill` | Streams |
| shell and cat (`user/src/sh.c`, `cat.c`, `init.c`) | command tree, descriptors | `runcmd`, `cat`, `wait` | the system calls of Streams | Shell |
| UART and keyboard, boot, interrupt controllers, memory map and backtrace (lab 1), user allocator, other user programs, `mkfs` | - | device registers, loops over tables, output | boot | not modelled, section 6 |

What makes this code hard is that kernel paths interleave on several CPUs and
in sleeps (`copyuvm` against page faults, `kill` against `sleep`, two `iput`s of
one inode, two threads in calls on one descriptor), that locks nest across
components through page faults and along paths of directories, that errors end
half-done work (`copyuvm`, `sys_link`, the permission tests), and that power may
fail between two disk writes. `PROJECT.json` lists these places as hazards with
the properties that cover them.

What makes each component correct:

- copy-on-write memory: a program cannot tell it from private memory; no page
  has two roles; no page is lost.
- spinlocks: no check in `acquire`, `release`, `sched` fails; no cycle of waits.
- scheduler: a process runs on one CPU; the list holds the runnable processes
  once each; best policy and priority first; no starvation; no lost wakeup.
- threads: what a group shares is counted once, lives as long as the group, and
  no assertion of the kernel fails.
- log: commits are atomic with respect to crashes; the log never overflows.
- buffer cache: each block has one content, used by one process at a time;
  every request is answered.
- inodes: references and link counts are exact; what has a name or a user is
  allocated, what has neither is free; calls do not stop each other.
- permissions: what needs a permission has it when it is done, not only when it
  was tested.
- pipes and console: nothing is lost, repeated or reordered; end of file comes
  after the last byte; no wakeup is lost; every command line ends.

## 2. Modules

A comment "A slip:" marks the mutated form of the definition below it. The
mutants of `PROJECT.json` put it in the definition's place, and TLC then finds
the property violated; `Next` never uses it.

### CowMemory, PrivateMemory, MCCowMemory

`CowMemory` is the memory of lab 2. State: `free` (kmem.freelist as a set),
`pageref`, `content`; the directories in use `dirs`, their page tables `tbl`,
their entries `pa` (address), `wr` (PTE_W), `us` (PTE_U); per process `pc`,
`pgdir`, `sz`, `parent` and the locals `dir`, `child`, `i` of the call in
progress. `pc` says which call: `forkref`/`forkmap` are the two halves of one
turn of the loop of `copyuvm`, `load` the loop of `exec`, `free` that of
`freevm` (for `exec`, for its error exit and for `wait`).

One action is one critical section of `kmem.lock` or `pageref_lock` with the
code around it that touches only the process's own tables. Loops over pages
take an action per page, so other processes fault, fork and exit in between.
`kalloc` inside one turn of a loop (page and page table of `ExecPage`) is one
action. The kernel half of the page tables and the kernel stacks are left out.
`sbrk` moves the size by one page. The code can grow by more, which is the same
loop.

`PrivateMemory` is what the program is promised: pages of its own, copied by
fork at once, zeros from sbrk. `CowMemory!Transparent` says that `CowMemory`
implements it under the mapping `View` (the contents seen through the page
table).

### KernelLocks

Each path of the lab 2 kernel that takes spinlocks is a sequence of acquire,
release and sched steps, built from the sequences of the functions it calls
(`Wakeup`, `Sleep`, `Alloc`, `Free`, `Faults`). A page fault may happen inside
`consoleread` and `piperead`, which store into user memory with a lock held. A
CPU with no lock may start any section at any time. After `sched` it goes on
with the rest of some section that sleeps or yields. `Printing` says which of
`lab2_ag.c` and `lab2_ag_noprint.c` is built.

### Sched, MCSched

The process table and the run queue of lab 3. The queue is the linked list of
the code (`head`, `next`), not a set or a sequence, because the interesting
question is when it stops being a list. A slot stands for its pid. `call` is
where a process is in the kernel: `wait`, `fork` (between allocproc and the
push), `preempt` and `yield` (the tail of setscheduler). One action is one
critical section of `ptable.lock`. `yield`, the switch to the scheduler and the
push there are one section, and so are the switch to a woken waiter and its scan.
`kill` may find an UNUSED slot: by pid 0, or by the pid of a fork that failed.
`allocproc` does not reset `killed`, so the next process in it starts killed.
The test of `killed` on the way into a system call (`trap.c:40`) and the call's first
critical section are one step (`Syscall`).
`halted` becomes TRUE when a CPU panics or a loop over a cyclic list does not
end. Nothing happens after that.
`upsets` counts kills of sleepers and setscheduler calls on children that are
not RUNNABLE, the calls after which the list is wrong.

Links of processes off the list are written as None: the code leaves the old
value, which push overwrites before anything reads it. The loops of `push` and
`remove` are `Walk`: the first node, from one node on, in the set of nodes where
the loop's condition fails; a loop that meets none goes round for ever.

### Threads, MCThreads

What the members of a thread group share, and the copies of it that each slot
keeps. `tg` names the owner. `ofile` and `cwd` are the group's in the owner's
slot and copies in the others; `pgdir` is the directory by the slot it was set
up for; `mapped` says how many pages a directory maps. Calls on descriptors and
`chdir` are split where another member can come in between (`call` holds the
descriptor and the file or inode found): `argfd` and the use, `fdalloc`'s scan
and its store, the store and `filedup`, clearing the descriptor and `fileclose`,
`iput` of the old directory and the store of the new one. `fork`, `clone`,
`growproc`, `exec`, `exit` and `wait` are one step each. Scheduling is left to
Sched: a slot is LIVE from fork to exit.

The code protects these structures from single processes only, so the
properties name what they need not: `upset` collects six kinds of calls, and a
behaviour stops after one (`MaxUpsets`).

| upset | what happened |
|---|---|
| race | a member makes a step of a call while another is inside one (two uses of an open file excepted) |
| stale | fork from a copy that the group has changed since |
| leftover | fork into a slot that still has the descriptors a thread had there |
| exec | exec by a process with other live members in its group |
| owner | the owner exits before the other members |
| orphan | a member exits before a thread it made, which then is init's child |

### Log, AtomicDisk

`Log` is `log.c`: `begin_op` with its sleep, `log_write` with absorption,
`end_op` with group commit, the writes of `commit` one by one, and
`recover_from_log` with the same loop. `Crash` may come at any time and keeps
only `disk`, `slots` and `header`. `AtomicDisk` has a stable and a volatile
copy of the blocks, commits when no call is active, and loses the volatile copy
in a crash. `Atomic` is the refinement; the stable copy is what a restart would
make of the disk.

Assumptions: writing one block is atomic (BSIZE is a sector), a dirty buffer
is not recycled (`bio.c`, bget; this is in BufCache), and a call changes fewer
than MAXOPBLOCKS blocks (`OpBlocks`; the largest call, a chunk of `filewrite`,
changes about 8 of 10). The last one matters: begin_op counts LOGSIZE blocks but
the log has LOGSIZE - 1 behind its header (`mkfs.c:32`, `log.c:218`), so three
calls of exactly ten blocks would reach the panic.

### BufCache, BlockStore

`bio.c`, `sleeplock.c` and `ide.c`. `order` is the list from `bcache.head.next`,
`refcnt`, `valid`, `dirty`, `data`, `blockno` the fields of `struct buf`,
`holder` its sleep lock, `idequeue` the driver's queue, `active` what the drive
is at. One step is one critical section of `bcache.lock`, of a sleep lock's
spinlock or of `idelock`; `bget` is one, because it searches and recycles under
one lock. `Kill` makes a sleeper runnable early, as kill does, so the loops
around both sleeps are tested. A read of a block in `Faulty` may fail:
`ideintr` then leaves the buffer's old data and marks it valid
(`IdeintrFailed`).

The callers appear by what they do with a buffer: change it and call
`log_write` (which sets B_DIRTY and so pins it) or `bwrite`, and take a second
buffer only with a greater block number, the order in which the log and the
inode code nest them (`MayRead`). `bget`'s panic "no buffers" is a call that
does not happen here: `BgetRecycle` needs a free buffer.

`BlockStore` is the promise: a content per block, one user per block, changes
only by the user; a faulty block may lose its content while unused. `Coherent`
is the refinement, with `Contents` (the valid buffer, else the disk) and
`Users` (who holds the buffer).

### Streams, Shell, MCShell

`Streams` has the descriptors and the file table of lab 4's kernel, pipes and
the console's line buffer. A step is at most one critical section of
`ftable.lock`, `kmem.lock`, `p->lock` or `cons.lock`, with what the process does to
its own data before the next; `fork` and `exit` take descriptors of one process only,
so fork's loop of `filedup` is one step, and each file exit closes is one. `pipe`
is four steps or more: a `filealloc` for each end (`PipeCall`, `PipeAlloc`), the page
(`PipePage`, where `kalloc` may also fail for reasons outside the model), and the two
descriptors (`PipeFds`). `taken` is `rf` and `wf` in between, files with a reference and no
descriptor. A `pipe` that fails at any of them closes what it has in hand, one
`fileclose` and, after `fdalloc` failed, one `pipeclose` at a time (`NoFds`, `GiveBack`),
while other processes go on. `pipewrite` and `piperead` go from a wakeup (or their
start) to the next sleep or the end in one step, since they hold `p->lock`
there. The indices of pipe and console are counted modulo `Width`, as the code's
`uint` modulo 2^32. `close` is two steps for a pipe: `fileclose` gives up
`ftable.lock` before `pipeclose`. `dup` without an open or a free descriptor and
`close` of one that is not open change nothing, as the calls then return -1.
`unwoken` records the pipes with bytes no reader was woken for, since a killed
writer left without the wakeup; it forgets a pipe when a read empties it. (A read
that takes a part of the bytes does not settle it: in
`echo xyz | ((cat &) ; cat)` with two kills, a second reader still sleeps on the rest.
The proof showed this: the run has no two readers of one pipe.)

`Shell` composes it with the programs: `runcmd` of `sh.c` as the calls that each
kind of command makes (`Expand`), `cat`, `echo` (which writes its text at once,
as `pipe1` of `usertests.c`), `exit`, `wait` and init's reaping. `Commands` are
the command lines that may occur, with their parts, and `Chars` the keys and
bytes. Somebody types the keys of a session and may kill a process. `pipe` and
`fork` fail when slots, files, pages or descriptors run out, and the shell's
child then exits, as `panic` in `sh.c` does.

### Inodes, MCInodes

System calls of two users on inodes and directories in lab 4. `ino` is type,
link count, entries, `..` (`up`), owner and permissions; `ref` the counts of the
inode cache, of which a slot stands for its inode; `lock` the sleep locks; `k`
where each process is: the path left, the inode `at` that namex holds, the
other one (`ip`) and the `iput`s still to do (`put`). A step goes from one
acquisition of a sleep lock to before the next, and an `iput` is two steps: the
test under the inode's lock and the decrement after `icache.lock` was given up
in between. The permission tests are `ValidOwner`, `ValidRead`, `ValidWrite` of
`include/fs.h`. A path without elements (`"/"`, `""`) is looked up in a step without a
lock (`WalkNowhere`); `exec` looks the same path up twice (`again`).

`Permitted` is the property of lab 4's permissions: whatever `chmod` and `chown` other
processes make between the locks of a call, the step that changes the names in a
directory has the write permission of the directory at that step, the one that
changes owner or permissions is the owner's or root's, and what is opened or
becomes the working directory may be read (or, opened, written). It states
lab4.md:67-81 with the exceptions the code makes:

- A refused `link` has made its entry, which stays: `sys_link` calls `dirlink` before
  `valid_write` (`sysfile.c:149`) and its error exit takes only the count back. lab4.md:80-81
  says of an operation that is not permitted that "no changes to the disk or file-system state should
  occur".
- `open` with `O_CREATE` of a file that is there tests the directory and not the file:
  `create` returns the inode (`sysfile.c:266`) and the test of line 329 is in the other
  branch, although lab4.md:76 lists `open` with "read and/or write, depending on flags".
- `exec` needs read permission (lab4.md:75). `sys_exec` tests it on the inode it has
  looked up, and `exec` looks the path up again (`sysfile.c:458`), so the file that is loaded
  may be another by then. `Exec` and `Load` model both; `Permitted` does not speak of what
  is loaded.
- `fstat` (lab4.md:78) is not modelled.

`upset` names the three calls that leave names and counts apart (a `..` or an
entry in a removed directory, a refused link), `late` the inodes whose last two
`iput`s overlapped, `forgot` the references that `exec`, `chown` and `chmod`
never put. The properties are stated with these exceptions and no others.
`panic` is the function that panicked: `iget`, `ialloc`, `ilock` or `unlink`
(`Check`, `NoType`). `nlink` is an integer without the width of the code's
`short`; the calls that are named in `upset` can take it below zero.

## 3. Runs

| run | question | bounds | result |
|---|---|---|---|
| cow_paging | does fork/fault/sbrk/exec/exit/wait on shared pages implement private memory and lose nothing? | 2 processes, 7 frames, 2 pages, 1 page per table | holds |
| cow_exec | is it private memory with whole images replaced and freed, too? | 2 processes, 8 frames, 3 pages under one table, no sbrk | holds |
| cow_wrap | and when failed forks pile up references? | 3 processes, counts modulo 3 | violated |
| locks_order | which lock checks can fail, which cycles of waits exist? | 3 CPUs, reports built in | holds |
| locks_hang | is there a cycle of waits? | 2 CPUs, no reports | violated |
| sched_queue | what holds of the queue, of waiting parents, of the order of running? | 3 slots, 2 CPUs, 1 upset | holds |
| sched_kill | is every runnable process on the queue? | 2 slots, 1 CPU | violated |
| threads | is what groups share counted right, and is it there while it is used? | 4 slots, 2 files, 2 descriptors, 2 folders, 3 pages, 2 processes inside calls | holds |
| log_crash | are commits atomic under crashes? | 2 processes, 3 blocks, 2 values | holds |
| blocks | is each block one thing, and is every request answered? | 2 processes, 3 blocks, 2 buffers, 2 values, 1 faulty block | holds |
| streams | does every command line end with the right output? | 5 processes, 4 files, 2 pipes of 2 bytes, console buffer of 2 | holds |
| files | are references and links exact, who stops whom, and who may? | 2 users, 3 inodes, 2 names, 2 kinds of upset | holds |

Why the bounds are enough, and what they cut:

- `Frames` is small on purpose: the out-of-memory exits of every call are
  reached, and still two address spaces with shared pages fit. `MaxPages = 2`
  with `PtSpan = 1` gives each page a table of its own, so that mapping fails
  half way through a fork; `MaxPages = 3` with `PtSpan = 3` lets `exec` finish.
  Two values tell apart every page that a property compares: one stored by the
  program, and the image, zeros and junk the kernel writes. `Pick` hands out
  the lowest free frame; frames are interchangeable.
- `RefLimit` stands for the 256 values of a char. The passing runs bound the
  count by `RefRoom` below it (a process table smaller than the limit and no
  unbounded series of failed forks); `cow_wrap` drops that bound.
- Three CPUs close the longest circle of the lock graph that exists: the
  console's interrupt waits for a `wait` that frees pages, which waits for a
  page fault, which waits to report on the console. A cycle of two locks needs
  two.
- Three slots give a parent, a child and a third process that can be overtaken;
  two CPUs let one CPU act on a process the other runs. The requests are
  limited to one FIFO class beside the default (`AskFifo`). `MaxUpsets = 1`
  keeps the states after the list is wrong finite in number but not absent.
- Four slots of `threads` are init, a process, a thread of it and a child or a
  second thread. A behaviour's programs make the calls of one of four kits
  (files by open, files by dup, the folder with exec, memory with exec), each
  with fork and clone; that keeps the run to 1.5 million states. Two processes
  inside a call at once are what a race takes.
- Two calls of up to two of three blocks overlap, absorb each other's writes
  and wait for space (`LOGSIZE = 6`, `MAXOPBLOCKS = 3`); a recovery can itself
  crash at every write. The log is never full here, as three blocks need three
  of its five slots: that half of `NoPanic` is what the mutant shows and the theorem
  `NeverPanics` proves for every size.
- Two buffers for three blocks force recycling at every turn, and two processes
  meet at a sleep lock, in the queue of the disk and at the same missing block.
- `Streams`: `Width = 4` wraps the indices after two turns of a buffer of 2;
  four file structures make a second `pipe` fail after its first file, or before,
  and two calls race for the last one; a shell started with one descriptor more (`open`)
  has a `pipe` that fails at its second `fdalloc`. The other sessions
  of `MCShell` are pipelines with and without a kill, a list, a background
  command, lines with erased keys, a line that overfills the buffer and text
  before ^D. Kills are in sessions where one process reads the console: a reader
  that is killed drops the bytes it has taken, and `InOrder` would not hold of
  what a second reader prints.
- Three inodes are the root, and two that are files, directories of each other
  or both. The kits of `MCInodes` give each of the two users the calls that can
  meet: names of one file, removed directories, names in them, permissions,
  lost references, absolute and empty paths, links of a directory's own name, a cache of
  two slots. Each user has paths of its own, so that in one kit root changes the
  permissions of the directory in which the user makes, links and removes names. `MaxForgot` bounds the references that are never put.

Deadlock is checked in `blocks`. In the other runs the system may really stop:
an idle or halted machine, CPUs or calls that wait for each other (which is
what `locks_order` and `files` describe), a session that is over, a behaviour
at its bound of upsets.

Fairness is assumed in three modules.

- `Sched`: a CPU that is idle takes the head of the queue again and again
  (`scheduler()` is a loop with nothing to wait for), and the clock keeps
  interrupting a SCHED_RR process (`trap.c:105`). Nothing forces a FIFO
  process, a system call or a device to make progress. `RoundRobin` is about
  the states in which all processes are SCHED_RR with priority 0.
- `BufCache`: the disk answers each request (`WF_vars(Ideintr)`), and a process
  that does not wait goes on and gives its buffers back (`WF_vars(Step(p))`: the
  file system has no loop that keeps a buffer). That a process which sleeps for
  a buffer gets it is not promised, since another may take the lock first each
  time; `Answered` says that it is woken.
- `Shell`: runnable processes run, init reaps, and the keys of the session are
  typed. Kills are not fair. `Finishes` uses it.

What the violations show:

- `cow_wrap`: fork that fails in `copyuvm` keeps the references it took
  (`vm.c:390`), the count wraps, a page shared by two processes is then taken
  for a private one, and the child sees the parent's store.
- `locks_hang`: CPU 1 in `kfree` has `kmem.lock` and waits for `pageref_lock`,
  CPU 2 in a page fault has it the other way round.
- `sched_kill`: a process killed while it sleeps is never scheduled again.

What the passing runs show beside their properties. These are the exceptions
the properties had to name, each of them reached in the run:

- `locks_order`: with `lab2_ag.c` built in, `consoleread` into a copy-on-write
  page ends in panic("acquire"); and every circle of waits has a `kfree` that
  waits for a page fault.
- `sched_queue`: lab3.md:124-126 promises FIFO before RR and higher priorities
  first. `push` keeps the list in that order for the programs of `Sortable` only,
  which `BestFirst` names: those that ask for SCHED_RR alone; and those whose
  SCHED_RR processes keep priority 0 and whose SCHED_FIFO ones are above it,
  with every SCHED_FIFO priority but the lowest equal to the constant SCHED_FIFO (2).
  Each part is needed. A SCHED_FIFO process of priority 0 goes behind a SCHED_RR
  one. With a SCHED_FIFO process in front, a SCHED_RR one of priority 1 goes
  behind the first SCHED_RR one of priority 0, where the first loop stops. A
  SCHED_FIFO process of priority 1 pushed on two of priority 3 goes between
  them, since the loop compares the next priority with SCHED_FIFO. With four
  slots TLC finds `BestFirst` without `Sortable` violated for each of
  `{<<FIFO, 0>>}`, `{<<FIFO, 1>>, <<RR, 1>>}`, `{<<FIFO, 1>>, <<FIFO, 3>>}` and
  `{<<FIFO, 2>>, <<FIFO, 3>>}`.
- `threads`: each of the six upsets is needed. Two members that close one
  descriptor reach panic("fileclose"); close, clone and fork reach
  panic("filedup"); a thread that is handed to init has the directory freed
  under its group; the owner that exits first takes descriptors and folder
  with it.
- `files`: `create` and `unlink` of names in one directory wait for each other
  when one puts the directory while it has the child; `link(x, "d/.")` waits for
  itself; two overlapping `iput`s leave an inode allocated with no name; a
  refused `link` leaves its entry; an entry made in a removed directory is lost;
  `..` of a removed directory ends in panic("ilock: no type"); `ialloc` and
  `iget` panic when they are full.
- `files`, `Permitted`: the exceptions listed with Inodes in section 2.
- `blocks`: a failed read hands out the data of another block as this one's
  content; no other block is touched.
- `streams`: a killed writer leaves `pipewrite` without waking the readers of
  what it wrote. They are woken when its end is closed, so `Finishes` holds.

## 4. Proofs

TLAPS proves the theorems below for every value of the constants that the
named assumptions allow. Each rests on an inductive invariant that TLC checked
first on the run's instance.

`CowMemoryProofs`:

- `Struct`: `StructInv` is an invariant. Type correctness alone is not
  inductive: `FreePage` indexes the tables with `dir[p]`, `ForkMap` with
  `pgdir[p]` and `i[p]`, `ForkDone` writes through `child[p]`. `StructInv` adds
  what makes these well defined: a process in a call that uses `dir` has one
  (`DirsHeld`), the child of fork and wait is an embryo or a zombie held by one
  process only (`ChildHeld`), and `copyuvm` is below `sz` between its two halves
  (`MapBelow`). There is one lemma per action of `Next`.
- `TypeCorrect`: `TypeOK` follows.
- `MemInvariant`: `MemInv` is an invariant. To `StructInv` it adds who owns a
  directory: every directory of a live process or of a call is in use
  (`DirsOwned`), and two processes have the same one only while a `wait` frees
  the directory of the zombie it holds (`SoleOwner`). Without it a step on one
  directory could be a step on another process's memory. Over it lie the facts
  about pages: pages outside the directories in use are blank, no page table
  hangs in two places (`TblSole`), and `RefsCovered` in terms of entries. The
  counts are compared with the cardinality of a set of directory entries, which
  each step changes by at most one (`FS_AddElement`, `FS_RemoveElement`); a fork
  between its two critical sections owes one entry, and is counted.
- `RolesApart`, `CountsCover`, `WritersAlone`: the run's `RolesDisjoint`,
  `RefsCovered` and `WritableSole` follow. A fault that finds the count 0 may
  write in place because of the second: nobody else can map the page.

- `Isolated`: `Spec => Transparent`, copy-on-write implements `PrivateMemory`. To
  `MemInv` it needs what the pages hold (`DataInv`): a live process maps the
  pages below `sz` and no other (`Live`), a fork has copied the entries below
  `i[p]` (`Copied`), an exec has loaded the pages below it (`Loaded`), the zero
  page is zero (`ZeroKept`) and free pages are junk (`JunkFree`). The lemmas
  `OthersView` and `OthersKept` say once that a step on one directory leaves every
  other process's memory alone (`WritableSole` is why); each action then has a
  lemma for `DataInv` and one for the step of `PrivateMemory` it is.
  These theorems are about `Spec`, with the bound `RefRoom` on the references of
  a page; without it `cow_wrap` shows that they fail.

- `NothingLost`: `NoLostPage` is an invariant. The inductive invariant `KeepInv`
  says that while no directory is an orphan each page is free, a directory, a
  page table or mapped, and `pageref` is exact. `OwnersKept` and `OrphansStay`
  say that an orphan stays one, and `ForkFailOrphan` that the one step that
  loses references, a fork that runs out of memory half way, makes one; so the
  invariant is vacuous from there on and no step has to restore it. For the
  others `PutRefs` and `SameRefs` say what one changed entry does to the set of
  references of each page, and `WalkKeeps` what a page table more does.

`KernelLocksProofs`, for any number of CPUs and both values of `Printing`:

- `LocksInvariant`: `LockInv` is an invariant. The sections are sets of long
  sequences, which no prover can enumerate, so the invariant says what is left of
  a section by what it does: `Runs(H, s, K)` is that the steps `s` take a CPU from
  holding `H` to holding `K`, through sets of locks in which each next one is
  `Allowed`. `Closes` says that what is left leads to no lock held, or to
  `Stopped`, where a report has panicked. `Runs` composes (`RunsThen`), so there is one
  lemma per function of the kernel (`Inside`, `Sleeps`, `FaultsReturn`, ...), as the
  sections are built, and none per section's steps.
- `OnlyReportsEverPanic`: `OnlyReportsPanic` follows: the only step of `Runs` that a
  check refuses is the one that takes `cons` again.
- `OnlyFaultsEverHang`: `OnlyFaultsHang` follows from `Allowed`: who waits for a
  lock holds one of the sets it lists, so in a circle the locks that come after
  all others can be wanted by nobody. Without `pageref` inside `kmem` (a `kfree`) and
  `kmem` or `cons` inside `pageref` (a page fault) at once no circle is left.

`SchedProofs`, with no bound on the calls that upset the queue:

- `RunsOnceAlways`: `RunsOnce` is an invariant. The inductive invariant `RunInv`
  says that RUNNING is being on exactly one CPU (`OnCpu`), and that the slot a
  fork or clone fills in is EMBRYO and belongs to one caller (`Embryos`):
  without it the push of the child could make a process of another CPU
  RUNNABLE. The run queue does not occur in it, so the result does not depend
  on the list being a list.
- `WaitersAlwaysWoken`: `WaitersWoken` is an invariant. With `RunInv` it needs
  `Family`: init has no parent and never dies, nobody is its own parent. A step
  that makes a zombie (`Exit`) wakes its parent, and init when it hands it
  children; a step that puts a process to sleep in wait (`ScanSleeps`) has found
  none.
- `QueueAlwaysExact`: `QueueExact` is an invariant, for a table of any size. The
  linked list is compared with a sequence: `Chained(q, n, L)` says that the queue
  `q` is threaded through the `n` distinct slots of `L`. `NodesOfList` says which
  nodes a walk of such a list meets, `WalkList` that a loop stops at the first
  node of `L` in its set, `ListFits` that no list is longer than the table.
  `PushSpot` finds the place where `push` inserts, whatever the policies and
  priorities are, and `InsertList`, `DeleteList` say that inserting and deleting
  leave a list (`PushReady`, `RemoveReady`, `PopReady`, and `PushAllReady` for the
  loop of `wakeup1`). The inductive invariant `QueueInv` then says that, until an
  upset, the queue is a list of exactly the RUNNABLE slots; with `RunInv`, each
  step that makes a process RUNNABLE pushes one that is not on the list.
- `BestAlwaysFirst`: `BestFirst` holds. `QueueInv` also says that the list is
  `Sorted` when the programs are `Sortable`; `FrontSpot` and `BehindSpot` go
  through the places `push` chooses, and show that those before p do not lose
  to it and those after do not beat it. This is where each condition of
  `Sortable` is used.
- `SchedTypeOK`: `TypeOK` is an invariant. `WalkIn` says that a loop ends at a slot
  or not at all, so `push` and `remove` write only slots into links (`PushType`,
  `RemoveType`, `PushAllType`), and `Settings` that a slot in use has a policy and a
  priority some program asked for, or those of a new process.

  What the loops compute is induction over the length of the list. It is done
  with least counterexamples (`LeastIn`, `UpTo`), and the recursive functions of
  the model are handled through the function they stand for (`NodesAre`,
  `LoopIs`), so no induction theorem with an operator as parameter is needed.

`BufCacheProofs`, for any number of buffers, blocks, values and processes:

- `CacheInvariant`: `CacheInv` is an invariant. To `TypeOK`, `OneBuffer` and
  `NoPanic` it adds `Counted` (`b->refcnt` is the number of processes that hold
  the buffer or are about to: why a buffer in use is not recycled), `Places` and
  `Named` (a process in a call has a buffer, and used and dirty buffers have a
  block), `Requests` (each request in the queue belongs to one process that waits
  for it, so nobody changes a buffer the disk is at, and the drive is at the
  head), and `Clean` and `Written` (what the disk has of a buffer without
  changes, so recycling it and reading it again loses nothing).
- `CacheTypes`, `BuffersDiffer`, `ChecksHold`: the run's invariants follow.
- `Correct`: `Spec => Coherent`. The lemmas `ReturnTakes`, `ReleaseGives`,
  `CallsChange`, `IdeintrLoses` and `RecycleLoses` say which step is which step
  of `BlockStore`; `Unseen` is the rest.

`LogProofs`, for any number of processes and blocks, every `LOGSIZE` above
`MAXOPBLOCKS`, and power failures at any step:

- `LogInvariant`: `LogInv` is an invariant. `Alone` says that one process commits
  while no call is under way; `Progress` what each phase of its commit has made
  of the log and the disk, `Booting` the same for a recovery, and `Quiet` and
  `Cached` for the time between. `Room` is why the log does not overflow: the
  slots taken, and what the calls under way may still add (`OpBlocks` for each,
  less what they have changed already), stay within `LOGSIZE - 2`. The set of changes is
  counted with an injection into calls times blocks (`ChangesBound`).
- `LogTypes`, `SleepersAlwaysWoken`, `NeverPanics`, `SettlesAlways`: the run's
  invariants.
- `LogCorrect`: `Spec => Atomic`. `WriteHead` is the commit, `Crash` the crash,
  and the writes to the log, the copies home, the erased header and all of
  recovery are not seen (`CommitImplements`, `RestartImplements`,
  `CallsImplement`).

`ThreadsProofs`, for any number of slots, descriptors, files, folders and pages, and
any set of calls:

- `ThreadInvariant`: `ThreadInv` is an invariant. Each of its parts holds until
  one of the upsets it names. `GroupState` (no `exec` or `owner` upset): whoever is
  in a group has a live owner, so the step of a thread lands in a table that is
  somebody's; an owner that has exited has nothing left to close. `DirState` (no
  `exec`, `owner`, `orphan`): a thread is the child of a live member of its own
  group (`Raised`), which is why `wait` may compare two `tg->pid` to decide
  whether a directory goes. `RefState` (no `race`, `stale`, `leftover`, `exec`,
  `owner`): members do not come in between each other's calls (`Alone`), a call
  finds in the table what it found before (`Held`), an open file that is not in
  the table yet is nobody else's (`Fresh`), a file in a table has been opened
  (`Typed`), and the counts agree. The counts are cardinalities of sets of
  descriptors and calls; one lemma per step says by how much it changes them. A
  `dup` has its entry before its reference: `Surplus` maps each such call to
  one of its two entries, so a count that is behind is still above zero
  (`Referenced`), and `fileclose` cannot free a file that is in a table.
- `ThreadTypes`, `CountsExact`, `DirectoriesExact`, `GroupSurvives`: the run's
  invariants.

`InodesProofs`, for any number of processes, inodes and names, and any set of
calls and paths:

- `InodeInvariant`: `InodeInv` is an invariant, in four parts.
  - `BaseInv` holds whatever upset happened. `Shapes` says what a call has in hand
    at each of its steps, `Locks` that a lock belongs to exactly the calls that
    will release it and to an allocated inode, `InUse` that what was found to be a
    directory stays one while a call, a folder or a descriptor has it. With
    `RefsExact` these carry each other: an inode in some process's hand has a
    reference (`Placed`), so the `iput` of another does not free it. `PlacesAre`
    splits the count of the references by process, so that a step of one process
    changes one term (`RefsStep`); there is one lemma per action.
  - `TreeInv`: only directories have names in them (`OnlyDirs`), no two are in each
    other (`NoLoop`), and the entry `unlink` found is there until it removes it
    (`Unlinks`). `Unlinked0` is why an inode with no link and no user is freed: if
    all its references are with calls between the two halves of an `iput`, two
    of these overlapped (`late`).
  - `NameInv` (no `removed`, `link` upset): counts are names, calls that have
    changed only one of the two, and subdirectories; an entry names an allocated
    inode; a directory with no name is empty.
  - `CallInv` (no upset): what a call has in hand is allocated, so `ilock` does
    not meet a free inode.

  The last three parts are not proved action by action. `Effects` says that each
  step does one of a few things to the tree: nothing (`Quiet`), change a
  count, make an inode, enter a name, remove one, or a half of an `iput`; and
  one lemma per effect says what is left of each part.
- `PermissionsKept`: `Permitted` holds. `PermInv` says what was tested is still so: a
  process inside `unlink` with the directory locked may write it (`child`), and a new
  inode belongs to the process that has it locked (`created`). It is kept because
  `chmod` and `chown` lock the inode they change, so an inode that is locked keeps owner and
  permissions (`LockedRights`). `StepChange` says the five things a step may do to an
  inode, `StepLands` how a step comes to one of those two places, and `StepAlone` that
  it moves one process.
- `InodeTypes`, `ReferencesExact`, `LinkCountsExact`, `CallsComplete`: the run's
  invariants. That two calls wait for each other only around an `iput` is from
  `Locks` and `NoLoop`: the two could only be `unlink`s, each with the directory
  locked that is in the other's.

`ShellProofs`, for any number of processes, files, pipes, descriptors and keys,
any buffer sizes that divide `Width`, and any set of command lines that has the
parts of each:

- `ShellInvariant`: `ShellInv` is an invariant. Its parts are:
  - `TypeInv` and `Bounds`. The counts `nread`, `nwrite`, `r`, `w`, `e` are taken
    modulo `Width`, so that a pipe holds at most `PIPESIZE` bytes is a statement
    about differences modulo `Width`; `Forward`, `Backward`, `Extend`, `Shorten`, `Retract` and `KeyDoes` for the
    console's keys say how the differences change. `Readers` is what a console
    read needs to store one more byte in its buffer.
  - `RefInv`: `f->ref` is the number of descriptors and of calls of `pipe` that hold `f`, as
    cardinalities that each step changes by a known amount, and a process that is
    dead or was never made has no descriptor.
  - `HandsOK` and `HandInv`: which files a call of `pipe` has at each of its steps, that no
    two calls have the same one, and that such a file has no descriptor and one
    reference. So giving it back frees it, and the pipe of its end with it.
  - `OneEnd`: an end of a pipe belongs to one file, or to one process between
    `fileclose` and `pipeclose`. Without it a second file could have its pipe
    closed under it.
  - `EndsOpen`: `readopen` and `writeopen` say that somebody has the end, and the
    page is in use while one of them is set.
  - `Users`: who is inside `piperead` or `pipewrite` has a descriptor of that end,
    because the process sleeps in the call and nobody else closes its
    descriptors. This is why no page is freed under a sleeper.
  - `SleepInv`: why each sleeper sleeps (`WakeupsComing`, one process at a time), and
    that a slot without a process has no parent. A write fills the pipe before it
    sleeps, so a step that makes room wakes it; a read that sleeps found the pipe
    empty, so a step that adds a byte, or closes the end, wakes it.
- `ShellTypeOK`, `PipesAlwaysLive`, `WakeupsAlwaysCome`: the run's invariants.
- `PipesAreQueues`: `[][Queues]_vars`. A pipe is a queue of bytes (`Contents`): it
  changes only when a writer appends the bytes it parts with (`Gives`), a reader
  takes the oldest and returns with them (`Gets`), or the pipe is made; a read
  returns less than it asked for only if it empties the pipe, and nothing only at
  end of file. The proof is arithmetic: the slot of a byte is its count
  modulo `PIPESIZE`, counts wrap modulo `Width`, and because `PIPESIZE` divides `Width`
  the two agree (`SlotKept`, `SlotPlace`); `TakenOut` and `PutIn` then say what `nread`
  and `Put` do to the sequence of bytes.

The assumptions are `StreamsAssumption` of `Streams`, `ShellAssumption` of `Shell`,
`InodesAssumption` of `Inodes`, `ThreadsAssumption` of `Threads`, `ConstAssumption`
and `PickAssumption` of `CowMemory`, `LocksAssumption` of `KernelLocks`,
`SchedAssumption` of `Sched`, `CacheAssumption` of `BufCache` and `LogAssumption`
of `Log`. TLC evaluates each of them in the runs.

Only model-checked:

- liveness (`RoundRobin`, `Answered`, `Finishes`), which needs fairness;
- `InOrder` and `Complete` of `Shell`: they are about the sessions of the run (where
  two processes read one pipe the output may come in another order), and compare
  histories of whole command lines, which takes induction over the data. What is
  proved of it is each pipe's part (`PipesAreQueues`).

## 5. Plan

Done: all modules above. What would come next, in this order:

1. File contents over the block cache: `bmap`, `balloc`, `itrunc`, `readi`,
   `writei`, and the bound on the blocks a call changes that `Log` assumes.
2. User stacks and mutexes of the threads library.

## 6. Not modelled

- `uart.c`, `kbd.c`, `lapic.c`, `ioapic.c`, `mp.c`, `picirq.c`, the boot block and
  assembly: device registers and tables with no protocol between components.
  Keys reach the model through `consoleintr`.
- lab 1: the e820 scan and the symbol search are sequential loops over tables
  at boot; the rest is formatted output.
- `umalloc.c`, the user programs other than the shell, `cat` and `init`, and the
  tests (`usertests.c` alone is 1800 lines in each of four copies): sequential
  programs over the system calls.
- `mkfs.c` and the scripts: tools that run once when the system is built.
- Details of modelled steps:
  - `CowMemory.Shrink` unmaps at once. `growproc` that shrinks to size 0 returns an error before
    `switchuvm` (lab 2, `proc.c:168-172`), so the entries may live on in the CPU's TLB until
    the next switch.
  - `CowMemory.RefRoom` is a bound the code does not have (section 3).
  - `Threads.Exit` closes the files of the owner in one step; the code does it one by one
    (lab 3, `proc.c:484-501`) before it takes `ptable.lock`.
  - `Threads.Growproc` has neither the failure of `allocuvm`, which changes nothing, nor the
    error return for size 0; `Threads.Open` not the failures of `namei` and `ilock`, nor the
    reference of the file's inode.
  - `Inodes.PutTest` leaves out `ip->valid` (`fs.c:342`): an inode with a link count of 0 in a
    slot that was not read yet occurs after a `link` or `removed` upset only.
- Of the modelled components: `fstat`; the parser and the redirections of `sh.c`; the
  contents of files (`bmap`, `readi`, `writei`, `balloc`, `bfree`); the user stacks
  of `clone` and the mutexes of `ulib.c`; argument copying of `exec`; `setuid`.

Most lines of the repository are copies: the four labs share the greater part
of one kernel and of its user programs. Each definition is mapped to one of the
copies, the one whose lab is about it, so the mapped share of all lines is small
by construction; of the functions of one kernel that change shared state, nearly
all but those named above are modelled.
