------------------------------ MODULE CowMemory ------------------------------
(***************************************************************************)
(* The virtual memory of lab 2: copy-on-write fork, lazily allocated zero  *)
(* pages, and the page reference counts that say when a physical page may  *)
(* be written in place or returned to the free list.                       *)
(*                                                                         *)
(* Several processes run at once (one per CPU, or preempted inside the     *)
(* kernel), each with a page directory of its own.  What they share is the *)
(* free list (kmem.lock) and the reference counts (pageref_lock).  An      *)
(* action is one critical section on those, together with the code around  *)
(* it that touches only the process's own page tables; loops over the      *)
(* pages of an address space take one action per page, so the loops of     *)
(* fork, exec and wait interleave with the page faults of other processes. *)
(*                                                                         *)
(* Sizes are in pages.  A process executes from page 0.                    *)
(***************************************************************************)
EXTENDS Integers, FiniteSets

CONSTANTS
  Procs,      \* slots of ptable.proc
  InitProc,   \* initproc, which never exits
  Frames,     \* the physical pages kalloc hands out
  Zero,       \* zero_page: the shared page of zeros, outside the free list
  None,       \* the null pointer
  MaxPages,   \* pages below KERNBASE a process may have
  PtSpan,     \* pages one page table maps (1024 in the code)
  TextPages,  \* pages exec loads before the guard page and the stack
  RefLimit,   \* 2^8: values of a char of pageref[]
  Stores,     \* values a program stores in a page
  Pick(_)     \* the pages that may be at the head of a given free list

Pages   == 0 .. MaxPages - 1
Tables  == 0 .. MaxPages        \* page-directory indices, PDX(va)
AFrame  == Frames \cup {Zero}
ZeroVal == "zero"   \* a page of zeros
Junk    == "junk"   \* what kfree fills a page with
Image   == "image"  \* what exec loads
Values  == Stores \cup {ZeroVal, Junk, Image}

ASSUME ConstAssumption ==
  /\ InitProc \in Procs
  /\ IsFiniteSet(Frames) /\ Frames # {}
  /\ Zero \notin Frames /\ None \notin Frames \cup {Zero} \cup Procs
  /\ MaxPages \in Nat \ {0} /\ PtSpan \in Nat \ {0}
  /\ TextPages \in Nat \ {0} /\ RefLimit \in Nat \ {0}
ASSUME PickAssumption ==
  \A S \in SUBSET Frames : Pick(S) \subseteq S /\ (S # {} => Pick(S) # {})

VARIABLES
  free,     \* kmem.freelist
  pageref,  \* pageref[]: mappings of a page beyond the first
  content,  \* what each physical page holds
  dirs,     \* physical pages in use as page directories
  tbl,      \* tbl[d][i]: the page table entry i of directory d points to
  pa,       \* pa[d][v]: PTE_ADDR of page v in directory d, None if not PTE_P
  wr, us,   \* the <<d, v>> whose entry has PTE_W, PTE_U
  pc,       \* what a process is doing
  pgdir, sz, parent,   \* fields of struct proc
  dir, child, i        \* locals of the system call in progress

phys  == <<free, pageref, content>>
maps  == <<dirs, tbl, pa, wr, us>>
procs == <<pgdir, sz, parent>>
local == <<dir, child, i>>
vars  == <<phys, maps, pc, procs, local>>

NoMap == [v \in Pages |-> None]
NoTbl == [k \in Tables |-> None]

(***************************************************************************)
(* kalloc and kfree, each one critical section of kmem.lock                *)
(***************************************************************************)
\* kfree without its test of the count.
KfreeUntested(S) ==
  /\ pageref' = [f \in AFrame |-> IF f \in S THEN pageref[f] - 1 ELSE pageref[f]]
  /\ UNCHANGED <<content, free>>
\* kfree that frees a page whatever its count.
KfreeAlways(S) ==
  /\ content' = [f \in AFrame |-> IF f \in S \ {Zero} THEN Junk ELSE content[f]]
  /\ free' = free \cup (S \ {Zero})
  /\ UNCHANGED pageref

\* kfree of each page of S: a page with other references loses one, the zero
\* page stays, any other page is junked and goes back on the free list.
Kfree(S) ==
  LET last == {f \in S \ {Zero} : pageref[f] = 0} IN
  /\ pageref' = [f \in AFrame |-> IF f \in S /\ pageref[f] # 0
                                  THEN pageref[f] - 1 ELSE pageref[f]]
  /\ content' = [f \in AFrame |-> IF f \in last THEN Junk ELSE content[f]]
  /\ free' = free \cup last

\* walkpgdir(d, v, 1) finds the page table of page v, or takes a page from
\* `avail` for it.
HasTable(d, v) == tbl[d][v \div PtSpan] # None
Walk(d, v, avail) ==
  \/ /\ HasTable(d, v)
     /\ free' = avail
     /\ UNCHANGED tbl
  \/ /\ ~HasTable(d, v)
     /\ \E t \in Pick(avail) :
          /\ free' = avail \ {t}
          /\ tbl' = [tbl EXCEPT ![d][v \div PtSpan] = t]

SetPte(d, v, f, w, u) ==
  /\ pa' = [pa EXCEPT ![d][v] = f]
  /\ wr' = IF w THEN wr \cup {<<d, v>>} ELSE wr \ {<<d, v>>}
  /\ us' = IF u THEN us \cup {<<d, v>>} ELSE us \ {<<d, v>>}

ClearPte(d, v) == SetPte(d, v, None, FALSE, FALSE)

(***************************************************************************)
(* setupkvm: a new directory with no user page; the kernel's own page      *)
(* tables in it are not counted.                                           *)
(***************************************************************************)
Setupkvm(d) ==
  /\ d \in Pick(free)
  /\ free' = free \ {d}
  /\ dirs' = dirs \cup {d}

(***************************************************************************)
(* A process in user mode, or in a system call that accesses user memory.  *)
(***************************************************************************)
Here(p)    == pgdir[p]
Running(p) == pc[p] = "user" /\ pa[Here(p)][0] # None

\* A store that the page tables allow; the kernel ignores PTE_U.
Store(p, v, x, kernel) ==
  /\ Running(p)
  /\ <<Here(p), v>> \in wr
  /\ kernel \/ <<Here(p), v>> \in us
  /\ content' = [content EXCEPT ![pa[Here(p)][v]] = x]
  /\ UNCHANGED <<free, pageref, maps, pc, procs, local>>

\* trap(), T_PGFLT, of an access of user code that the handler refuses: there
\* is no user page at v, and the process is killed.
FaultKill(p, v) ==
  /\ pc[p] = "user"
  /\ <<Here(p), v>> \notin us
  /\ pc' = [pc EXCEPT ![p] = "killed"]
  /\ UNCHANGED <<phys, maps, procs, local>>

\* trap(), T_PGFLT, of a store to a page that is present and not writable.
WriteFault(p, v, kernel) ==
  /\ Running(p)
  /\ pa[Here(p)][v] # None
  /\ <<Here(p), v>> \notin wr
  /\ kernel \/ <<Here(p), v>> \in us

\* ZERO_PAGE(src): a private page of zeros takes its place.
FaultZero(p, v, kernel) ==
  /\ WriteFault(p, v, kernel)
  /\ pa[Here(p)][v] = Zero
  /\ \E mem \in Pick(free) :
       /\ free' = free \ {mem}
       /\ content' = [content EXCEPT ![mem] = ZeroVal]
       /\ pa' = [pa EXCEPT ![Here(p)][v] = mem]
       /\ wr' = wr \cup {<<Here(p), v>>}
  /\ UNCHANGED <<pageref, dirs, tbl, us, pc, procs, local>>

\* A slip: a shared page taken for a page of one's own.
FaultSoleShared(p, v, kernel) ==
  /\ WriteFault(p, v, kernel)
  /\ pa[Here(p)][v] # Zero
  /\ wr' = wr \cup {<<Here(p), v>>}
  /\ UNCHANGED <<phys, dirs, tbl, pa, us, pc, procs, local>>

\* The last mapping of the page: it becomes writable in place.
FaultSole(p, v, kernel) ==
  /\ WriteFault(p, v, kernel)
  /\ pa[Here(p)][v] # Zero
  /\ pageref[pa[Here(p)][v]] = 0
  /\ wr' = wr \cup {<<Here(p), v>>}
  /\ UNCHANGED <<phys, dirs, tbl, pa, us, pc, procs, local>>

\* A slip: the reference to the shared page is kept.
FaultCopyKeeps(p, v, kernel) ==
  LET src == pa[Here(p)][v] IN
  /\ WriteFault(p, v, kernel)
  /\ src # Zero /\ pageref[src] # 0
  /\ \E mem \in Pick(free) :
       /\ free' = free \ {mem}
       /\ content' = [content EXCEPT ![mem] = content[src]]
       /\ pa' = [pa EXCEPT ![Here(p)][v] = mem]
       /\ wr' = wr \cup {<<Here(p), v>>}
  /\ UNCHANGED <<pageref, dirs, tbl, us, pc, procs, local>>

\* Others map it too: the process gets a copy and drops its reference.
FaultCopy(p, v, kernel) ==
  LET src == pa[Here(p)][v] IN
  /\ WriteFault(p, v, kernel)
  /\ src # Zero
  /\ pageref[src] # 0
  /\ \E mem \in Pick(free) :
       /\ free' = free \ {mem}
       /\ content' = [content EXCEPT ![mem] = content[src]]
       /\ pa' = [pa EXCEPT ![Here(p)][v] = mem]
       /\ wr' = wr \cup {<<Here(p), v>>}
       /\ pageref' = [pageref EXCEPT ![src] = @ - 1]
  /\ UNCHANGED <<dirs, tbl, us, pc, procs, local>>

\* No page left for the private copy: the process is killed.  (In the kernel
\* the store just faults again, until there is a page.)
FaultNoMem(p, v) ==
  /\ WriteFault(p, v, FALSE)
  /\ pa[Here(p)][v] = Zero \/ pageref[pa[Here(p)][v]] # 0
  /\ free = {}
  /\ pc' = [pc EXCEPT ![p] = "killed"]
  /\ UNCHANGED <<phys, maps, procs, local>>

Access(p) ==
  \E v \in Pages :
    \/ FaultKill(p, v) \/ FaultNoMem(p, v)
    \/ \E kernel \in BOOLEAN :
         \/ \E x \in Stores : Store(p, v, x, kernel)
         \/ FaultZero(p, v, kernel)
         \/ FaultSole(p, v, kernel)
         \/ FaultCopy(p, v, kernel)

(***************************************************************************)
(* sbrk, one page at a time                                                *)
(***************************************************************************)
\* allocuvm maps the new page to the zero page, read-only.  When no page
\* table can be allocated the size still grows and the process is killed.
Grow(p) ==
  LET d == Here(p)  v == sz[p] IN
  /\ Running(p)
  /\ v < MaxPages
  /\ sz' = [sz EXCEPT ![p] = v + 1]
  /\ \/ /\ Walk(d, v, free)
        /\ SetPte(d, v, Zero, FALSE, TRUE)
        /\ UNCHANGED <<pageref, content, pc>>
     \/ /\ ~HasTable(d, v) /\ free = {}
        /\ pc' = [pc EXCEPT ![p] = "killed"]
        /\ UNCHANGED <<phys, tbl, pa, wr, us>>
  /\ UNCHANGED <<dirs, pgdir, parent, local>>

\* deallocuvm.  A new size of 0 is also its error value: then growproc leaves
\* sz alone though the page is gone.
Shrink(p) ==
  LET d == Here(p)  v == sz[p] - 1 IN
  /\ Running(p) /\ v \in Pages
  /\ Kfree({pa[d][v]} \ {None})
  /\ ClearPte(d, v)
  /\ sz' = IF v = 0 THEN sz ELSE [sz EXCEPT ![p] = v]
  /\ UNCHANGED <<dirs, tbl, pc, pgdir, parent, local>>

(***************************************************************************)
(* fork: allocproc and setupkvm, then copyuvm page by page                 *)
(***************************************************************************)
\* wait holds ptable.lock while it frees the child's memory.
PtableFree == \A p \in Procs : pc[p] = "free" => child[p] = None

Start(p, what, d, c) ==
  /\ dir' = [dir EXCEPT ![p] = d]
  /\ child' = [child EXCEPT ![p] = c]
  /\ i' = [i EXCEPT ![p] = 0]
  /\ pc' = IF what = "forkref"
           THEN [pc EXCEPT ![p] = what, ![c] = "embryo"]
           ELSE [pc EXCEPT ![p] = what]

\* Back in user mode; `others` says what became of other processes.
Return(p, others) ==
  /\ pc' = [others EXCEPT ![p] = "user"]
  /\ dir' = [dir EXCEPT ![p] = None]
  /\ child' = [child EXCEPT ![p] = None]
  /\ i' = [i EXCEPT ![p] = 0]

ForkBegin(p, c) ==
  /\ Running(p) /\ PtableFree
  /\ pc[c] = "unused"
  /\ \E d \in Frames : Setupkvm(d) /\ Start(p, "forkref", d, c)
  /\ UNCHANGED <<pageref, content, tbl, pa, wr, us, procs>>

\* The bound on a data page's count: there are fewer processes than values
\* of a char, but forks that gave up leave references behind.
RefRoom(p) ==
  LET f == pa[Here(p)][i[p]] IN f # Zero => pageref[f] + 1 < RefLimit

\* Slips: the page is not counted, or the parent may still write it.
ForkRefUncounted(p) ==
  LET d == Here(p)  v == i[p] IN
  /\ pc[p] = "forkref" /\ v < sz[p]
  /\ wr' = wr \ {<<d, v>>}
  /\ pc' = [pc EXCEPT ![p] = "forkmap"]
  /\ UNCHANGED <<phys, dirs, tbl, pa, us, procs, local>>
ForkRefWritable(p) ==
  LET d == Here(p)  v == i[p]  f == pa[d][v] IN
  /\ pc[p] = "forkref" /\ v < sz[p]
  /\ pageref' = [pageref EXCEPT ![f] = (@ + 1) % RefLimit]
  /\ pc' = [pc EXCEPT ![p] = "forkmap"]
  /\ UNCHANGED <<free, content, maps, procs, local>>

\* The parent's entry loses PTE_W and the page gains a reference ...
ForkRef(p) ==
  LET d == Here(p)  v == i[p]  f == pa[d][v] IN
  /\ pc[p] = "forkref" /\ v < sz[p]
  /\ wr' = wr \ {<<d, v>>}
  /\ pageref' = [pageref EXCEPT ![f] = (@ + 1) % RefLimit]
  /\ pc' = [pc EXCEPT ![p] = "forkmap"]
  /\ UNCHANGED <<free, content, dirs, tbl, pa, us, procs, local>>

\* ... before mappages enters it in the child's directory.
ForkMap(p) ==
  LET d == Here(p)  v == i[p] IN
  /\ pc[p] = "forkmap"
  /\ Walk(dir[p], v, free)
  /\ SetPte(dir[p], v, pa[d][v], FALSE, <<d, v>> \in us)
  /\ i' = [i EXCEPT ![p] = v + 1]
  /\ pc' = [pc EXCEPT ![p] = "forkref"]
  /\ UNCHANGED <<pageref, content, dirs, procs, dir, child>>

\* mappages finds no page for a page table: copyuvm and fork give up.  The
\* directory built so far and the references it took are not released.
ForkFail(p) ==
  /\ pc[p] = "forkmap"
  /\ ~HasTable(dir[p], i[p]) /\ free = {}
  /\ pgdir' = [pgdir EXCEPT ![child[p]] = None]
  /\ Return(p, [pc EXCEPT ![child[p]] = "unused"])
  /\ UNCHANGED <<phys, maps, sz, parent>>

ForkDone(p) ==
  LET c == child[p] IN
  /\ pc[p] = "forkref" /\ i[p] = sz[p] /\ PtableFree
  /\ pgdir' = [pgdir EXCEPT ![c] = dir[p]]
  /\ sz' = [sz EXCEPT ![c] = sz[p]]
  /\ parent' = [parent EXCEPT ![c] = p]
  /\ Return(p, [pc EXCEPT ![c] = "user"])
  /\ UNCHANGED <<phys, maps>>

(***************************************************************************)
(* exec: a new directory with the program, a guard page and a stack page   *)
(***************************************************************************)
ImagePages == TextPages + 2

ExecBegin(p) ==
  /\ Running(p)
  /\ \E d \in Frames : Setupkvm(d) /\ Start(p, "load", d, None)
  /\ UNCHANGED <<pageref, content, tbl, pa, wr, us, procs>>

\* A slip: the new page is not zeroed or loaded.
ExecPageRaw(p) ==
  LET v == i[p]  guard == v = TextPages IN
  /\ pc[p] = "load" /\ v < ImagePages /\ v < MaxPages
  /\ \E mem \in Pick(free) :
       /\ Walk(dir[p], v, free \ {mem})
       /\ SetPte(dir[p], v, mem, ~guard, ~guard)
  /\ i' = [i EXCEPT ![p] = v + 1]
  /\ UNCHANGED <<pageref, content, dirs, pc, procs, dir, child>>

\* The guard page is neither zeroed nor given PTE_W and PTE_U.
ExecPage(p) ==
  LET v == i[p]  guard == v = TextPages IN
  /\ pc[p] = "load" /\ v < ImagePages /\ v < MaxPages
  /\ \E mem \in Pick(free) :
       /\ Walk(dir[p], v, free \ {mem})
       /\ SetPte(dir[p], v, mem, ~guard, ~guard)
       /\ content' = IF guard THEN content
                     ELSE [content EXCEPT ![mem] = Image]
  /\ i' = [i EXCEPT ![p] = v + 1]
  /\ UNCHANGED <<pageref, dirs, pc, procs, dir, child>>

\* bad: no memory, a bad header or too many arguments.  The new directory is
\* freed and exec returns -1.
ExecFail(p) ==
  /\ pc[p] = "load"
  /\ Start(p, "free", dir[p], None)
  /\ UNCHANGED <<phys, maps, procs>>

\* Commit to the new image, then free the old one.
ExecCommit(p) ==
  /\ pc[p] = "load" /\ i[p] = ImagePages
  /\ pgdir' = [pgdir EXCEPT ![p] = dir[p]]
  /\ sz' = [sz EXCEPT ![p] = ImagePages]
  /\ Start(p, "free", Here(p), None)
  /\ UNCHANGED <<phys, maps, parent>>

(***************************************************************************)
(* exit, wait, and freevm page by page                                     *)
(***************************************************************************)
Exit(p) ==
  /\ p # InitProc /\ PtableFree
  /\ Running(p) \/ pc[p] = "killed"
  /\ pc' = [pc EXCEPT ![p] = "zombie"]
  /\ parent' = [c \in Procs |-> IF parent[c] = p THEN InitProc ELSE parent[c]]
  /\ UNCHANGED <<phys, maps, pgdir, sz, local>>

Reap(p, c) ==
  /\ Running(p) /\ PtableFree
  /\ parent[c] = p /\ pc[c] = "zombie"
  /\ Start(p, "free", pgdir[c], c)
  /\ UNCHANGED <<phys, maps, procs>>

\* freevm, the loop of deallocuvm: the pages present, from the first on.
FreePage(p) ==
  LET d == dir[p] IN
  /\ pc[p] = "free"
  /\ \E v \in Pages :
       /\ pa[d][v] # None /\ \A w \in 0 .. v - 1 : pa[d][w] = None
       /\ Kfree({pa[d][v]})
       /\ ClearPte(d, v)
  /\ UNCHANGED <<dirs, tbl, pc, procs, local>>

\* freevm, the page tables and the directory; wait then gives up the slot.
FreeDir(p) ==
  LET d == dir[p]  c == child[p] IN
  /\ pc[p] = "free" /\ pa[d] = NoMap
  /\ Kfree({d} \cup ({tbl[d][k] : k \in Tables} \ {None}))
  /\ dirs' = dirs \ {d}
  /\ tbl' = [tbl EXCEPT ![d] = NoTbl]
  /\ IF c = None
     THEN Return(p, pc) /\ UNCHANGED parent
     ELSE Return(p, [pc EXCEPT ![c] = "unused"])
          /\ parent' = [parent EXCEPT ![c] = None]
  /\ UNCHANGED <<pa, wr, us, pgdir, sz>>

(***************************************************************************)
(* After userinit: the first process, with one page of code.               *)
(***************************************************************************)
InitWith(d, f, t) ==
  /\ free = Frames \ {d, f, t}
  /\ content = [g \in AFrame |-> CASE g = Zero -> ZeroVal
                                   [] g = f    -> Image
                                   [] OTHER    -> Junk]
  /\ dirs = {d}
  /\ tbl = [g \in Frames |-> IF g = d THEN [NoTbl EXCEPT ![0] = t] ELSE NoTbl]
  /\ pa = [g \in Frames |-> IF g = d THEN [NoMap EXCEPT ![0] = f] ELSE NoMap]
  /\ wr = {<<d, 0>>} /\ us = {<<d, 0>>}
  /\ pgdir = [p \in Procs |-> IF p = InitProc THEN d ELSE None]
  /\ pageref = [g \in AFrame |-> 0]
  /\ pc = [p \in Procs |-> IF p = InitProc THEN "user" ELSE "unused"]
  /\ sz = [p \in Procs |-> IF p = InitProc THEN 1 ELSE 0]
  /\ parent = [p \in Procs |-> None]
  /\ dir = [p \in Procs |-> None]
  /\ child = [p \in Procs |-> None]
  /\ i = [p \in Procs |-> 0]

Init ==
  \E d \in Pick(Frames) : \E f \in Pick(Frames \ {d}) :
    \E t \in Pick(Frames \ {d, f}) : InitWith(d, f, t)

Fork(p) ==
  \/ \E c \in Procs : ForkBegin(p, c)
  \/ (ForkRef(p) /\ RefRoom(p)) \/ ForkMap(p) \/ ForkFail(p) \/ ForkDone(p)

Exec(p) == ExecBegin(p) \/ ExecPage(p) \/ ExecFail(p) \/ ExecCommit(p)

Wait(p) == (\E c \in Procs : Reap(p, c)) \/ FreePage(p) \/ FreeDir(p)

Next == \E p \in Procs :
  Access(p) \/ Grow(p) \/ Shrink(p) \/ Fork(p) \/ Exec(p) \/ Exit(p) \/ Wait(p)

Spec == Init /\ [][Next]_vars

-----------------------------------------------------------------------------
\* Page `v` of directory `d`, or about to be: copyuvm has counted it.
Pending(d, v, f) ==
  \E p \in Procs : /\ pc[p] = "forkmap" /\ dir[p] = d /\ i[p] = v
                  /\ pa[Here(p)][v] = f
Refs(f) == {m \in Frames \X Pages :
              pa[m[1]][m[2]] = f \/ Pending(m[1], m[2], f)}

Data == {f \in Frames : Refs(f) # {}}
TableFrames == {f \in Frames : \E d \in Frames, k \in Tables : tbl[d][k] = f}

\* A process that has user memory.
Alive(p) == pc[p] \notin {"unused", "embryo"}
Owned == {pgdir[p] : p \in {q \in Procs : Alive(q)}}
           \cup {dir[p] : p \in {q \in Procs : dir[q] # None}}
\* Directories no process will ever free.
Orphans == dirs \ Owned

TypeOK ==
  /\ free \subseteq Frames
  /\ pageref \in [AFrame -> 0 .. RefLimit - 1]
  /\ content \in [AFrame -> Values]
  /\ dirs \subseteq Frames
  /\ tbl \in [Frames -> [Tables -> Frames \cup {None}]]
  /\ pa \in [Frames -> [Pages -> AFrame \cup {None}]]
  /\ wr \subseteq Frames \X Pages /\ us \subseteq Frames \X Pages
  /\ pc \in [Procs -> {"unused", "embryo", "user", "forkref", "forkmap",
                       "load", "free", "killed", "zombie"}]
  /\ pgdir \in [Procs -> Frames \cup {None}]
  /\ sz \in [Procs -> 0 .. MaxPages]
  /\ parent \in [Procs -> Procs \cup {None}]
  /\ dir \in [Procs -> Frames \cup {None}]
  /\ child \in [Procs -> Procs \cup {None}]
  /\ i \in [Procs -> 0 .. MaxPages]

\* kalloc never hands out a page that is still in use, and no page serves
\* two purposes: free pages, directories, page tables and user pages are
\* disjoint (kalloc.c kfree/kalloc, vm.c walkpgdir/freevm).
RolesDisjoint ==
  /\ free \cap (dirs \cup TableFrames \cup Data) = {}
  /\ dirs \cap (TableFrames \cup Data) = {}
  /\ TableFrames \cap Data = {}

\* pageref never undercounts: a page with n mappings, those a fork is about
\* to enter included, has a count of at least n - 1, so the last kfree is
\* the one that frees it.
RefsCovered == \A f \in Frames : Cardinality(Refs(f)) <= pageref[f] + 1

\* A page that some process may write is mapped nowhere else, and never the
\* zero page: the isolation copy-on-write has to preserve.
WritableSole ==
  \A d \in Frames, v \in Pages :
    <<d, v>> \in wr => /\ pa[d][v] \in Frames
                       /\ Refs(pa[d][v]) = {<<d, v>>}

\* As long as no fork has given up half way, pageref is exact and every page
\* is free or in use: nothing leaks, whatever exits, execs and waits happen.
NoLostPage ==
  Orphans = {} =>
    /\ Frames = free \cup dirs \cup TableFrames \cup Data
    /\ \A f \in Data : pageref[f] + 1 = Cardinality(Refs(f))

\* The memory a program sees, through its page table.
View(p) ==
  IF pc[p] \in {"unused", "embryo", "killed", "zombie"} THEN [v \in {} |-> ZeroVal]
  ELSE [v \in {w \in Pages : pa[Here(p)][w] # None} |-> content[pa[Here(p)][v]]]

Private == INSTANCE PrivateMemory WITH mem <- [p \in Procs |-> View(p)]

\* lab2.md: the optimizations are transparent to the user-space.  Copy-on-
\* write fork, lazy zero pages and reference counting together implement
\* memory that fork copies outright and that no two processes share.
Transparent == Private!Spec

=============================================================================
