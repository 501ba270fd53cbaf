------------------------------- MODULE BufCache -------------------------------
(***************************************************************************)
(* The buffer cache (bio.c), its sleep locks (sleeplock.c) and the disk    *)
(* driver (ide.c) of lab 4; the other labs have the same files.  Any       *)
(* number of processes read, change and write blocks while the disk        *)
(* answers one request after the other.                                    *)
(*                                                                         *)
(* A step is one critical section of bcache.lock, of a sleep lock's        *)
(* spinlock or of idelock.  The callers are the file system and the log:   *)
(* a process has at most two buffers, takes the second with a greater      *)
(* block number (a log block or an indirect block comes first; numbers     *)
(* here are in that order), and gives both back after a bwrite.            *)
(***************************************************************************)
EXTENDS Integers, Sequences

CONSTANTS
  Procs,
  NBUF,       \* buffers in bcache.buf
  Blocks,     \* block numbers, in the order processes nest them
  Values,     \* what a block may hold
  None,       \* no block, process or buffer
  Zero,       \* what a new buffer and a new block hold
  Faulty      \* blocks the disk may fail to read

Bufs == 1 .. NBUF

ASSUME CacheAssumption ==
  /\ NBUF \in Nat
  /\ Blocks \subseteq Nat /\ None \notin Blocks
  /\ None \notin Procs /\ None \notin Bufs
  /\ Zero \in Values /\ Faulty \subseteq Blocks

VARIABLES
  order,      \* the list from bcache.head.next, most recently used first
  blockno,    \* b->blockno, None for a buffer never used (device 0)
  refcnt,     \* b->refcnt
  valid,      \* b->flags & B_VALID
  dirty,      \* b->flags & B_DIRTY
  data,       \* b->data
  holder,     \* b->lock: the process that holds it
  idequeue,   \* the requests of the disk
  active,     \* the request idestart has given the disk
  disk,       \* the blocks, on disk
  pc,         \* where each process is
  cur,        \* the buffer its call is about
  held        \* the buffers bread has given it

cache == <<order, blockno, refcnt>>
flags == <<valid, dirty, data>>
ide   == <<idequeue, active, disk>>
vars  == <<cache, flags, holder, ide, pc, cur, held>>

Goto(p, where) == pc' = [pc EXCEPT ![p] = where]
Wake(f, asleep, b, ready) ==
  [q \in Procs |-> IF f[q] = asleep /\ cur[q] = b THEN ready ELSE f[q]]

-----------------------------------------------------------------------------
(* bread                                                                   *)

\* The caller has no call under way, and nests blocks in order.
MayRead(p, n) ==
  /\ pc[p] \in {"idle", "use"}
  /\ held[p] # {} => /\ pc[p] = "use"
                     /\ \A b \in held[p] : held[p] = {b} /\ blockno[b] < n

\* bget, the block is cached.
BgetHit(p, n) ==
  /\ MayRead(p, n)
  /\ \E b \in Bufs :
       /\ blockno[b] = n
       /\ refcnt' = [refcnt EXCEPT ![b] = @ + 1]
       /\ cur' = [cur EXCEPT ![p] = b]
  /\ Goto(p, "lock")
  /\ UNCHANGED <<order, blockno, flags, holder, ide, held>>

\* A slip: a buffer the log has pinned is recycled.
FreePinnedToo == {i \in DOMAIN order : refcnt[order[i]] = 0}

\* The buffers bget may recycle, and the one it takes, if there is one.
Free == {i \in DOMAIN order : refcnt[order[i]] = 0 /\ ~dirty[order[i]]}
Oldest == {order[i] : i \in {j \in Free : \A k \in Free : k <= j}}

\* A slip: the search and the recycling are two critical sections.
BgetRecycleRace(p, n) ==
  /\ MayRead(p, n)
  /\ \E b \in Oldest :
       /\ blockno' = [blockno EXCEPT ![b] = n]
       /\ valid' = [valid EXCEPT ![b] = FALSE]
       /\ dirty' = [dirty EXCEPT ![b] = FALSE]
       /\ refcnt' = [refcnt EXCEPT ![b] = 1]
       /\ cur' = [cur EXCEPT ![p] = b]
  /\ Goto(p, "lock")
  /\ UNCHANGED <<order, data, holder, ide, held>>

\* bget, the block is not cached.
BgetRecycle(p, n) ==
  /\ MayRead(p, n)
  /\ \A b \in Bufs : blockno[b] # n
  /\ \E b \in Oldest :
       /\ blockno' = [blockno EXCEPT ![b] = n]
       /\ valid' = [valid EXCEPT ![b] = FALSE]
       /\ dirty' = [dirty EXCEPT ![b] = FALSE]
       /\ refcnt' = [refcnt EXCEPT ![b] = 1]
       /\ cur' = [cur EXCEPT ![p] = b]
  /\ Goto(p, "lock")
  /\ UNCHANGED <<order, data, holder, ide, held>>

\* acquiresleep: sleep while the lock is held.
SleepOnLock(p) ==
  /\ pc[p] = "lock" /\ holder[cur[p]] # None
  /\ Goto(p, "asleep")
  /\ UNCHANGED <<cache, flags, holder, ide, cur, held>>

\* A slip: the lock is not tested again after a wakeup.
AcquireSleepOnce(p) ==
  /\ pc[p] = "lock"
  /\ holder' = [holder EXCEPT ![cur[p]] = p]
  /\ Goto(p, "locked")
  /\ UNCHANGED <<cache, flags, ide, cur, held>>

AcquireSleep(p) ==
  /\ pc[p] = "lock" /\ holder[cur[p]] = None
  /\ holder' = [holder EXCEPT ![cur[p]] = p]
  /\ Goto(p, "locked")
  /\ UNCHANGED <<cache, flags, ide, cur, held>>

\* bread returns a buffer that is valid.
Return(p) ==
  /\ held' = [held EXCEPT ![p] = @ \cup {cur[p]}]
  /\ Goto(p, IF cur[p] \in held[p] THEN "done" ELSE "use")
  /\ UNCHANGED <<cache, flags, holder, ide, cur>>

ReadCached(p) == pc[p] = "locked" /\ valid[cur[p]] /\ Return(p)

-----------------------------------------------------------------------------
(* The disk.                                                               *)

\* idestart: the drive gets the request, and the data of a write.
Start(b) ==
  /\ active' = b
  /\ disk' = IF dirty'[b] THEN [disk EXCEPT ![blockno[b]] = data'[b]] ELSE disk

\* iderw, up to its sleep.
Enqueue(p) ==
  /\ idequeue' = Append(idequeue, cur[p])
  /\ IF idequeue = <<>> THEN Start(cur[p]) ELSE UNCHANGED <<active, disk>>
  /\ Goto(p, "iosleep")

ReadDisk(p) ==
  /\ pc[p] = "locked" /\ ~valid[cur[p]]
  /\ UNCHANGED <<cache, flags, holder, cur, held>>
  /\ Enqueue(p)

\* ideintr: the request at the head is done.  A read that failed leaves the
\* data of the block the buffer had before.
Serve(b) ==
  /\ idequeue' = Tail(idequeue)
  /\ valid' = [valid EXCEPT ![b] = TRUE]
  /\ dirty' = [dirty EXCEPT ![b] = FALSE]
  /\ pc' = Wake(pc, "iosleep", b, "iodone")
  /\ IF idequeue' # <<>> THEN Start(Head(idequeue'))
     ELSE active' = None /\ UNCHANGED disk

Ideintr ==
  /\ active # None
  /\ LET b == Head(idequeue)
         ok == [data EXCEPT ![b] = IF dirty[b] THEN @ ELSE disk[blockno[b]]]
     IN data' = ok /\ Serve(b)
  /\ UNCHANGED <<cache, holder, cur, held>>

IdeintrFailed ==
  /\ active # None
  /\ LET b == Head(idequeue)
     IN /\ ~dirty[b] /\ blockno[b] \in Faulty
        /\ UNCHANGED data
        /\ Serve(b)
  /\ UNCHANGED <<cache, holder, cur, held>>

\* The rest of iderw.
IderwDone(p) ==
  /\ pc[p] = "iodone"
  /\ valid[cur[p]] /\ ~dirty[cur[p]]
  /\ Return(p)

IderwAgain(p) ==
  /\ pc[p] = "iodone"
  /\ ~(valid[cur[p]] /\ ~dirty[cur[p]])
  /\ Goto(p, "iosleep")
  /\ UNCHANGED <<cache, flags, holder, ide, cur, held>>

\* kill makes a sleeper runnable before what it waits for has happened.
Kill(p) ==
  /\ \/ pc[p] = "asleep" /\ Goto(p, "lock")
     \/ pc[p] = "iosleep" /\ Goto(p, "iodone")
  /\ UNCHANGED <<cache, flags, holder, ide, cur, held>>

-----------------------------------------------------------------------------
(* What the callers do with a buffer, and brelse.                          *)

\* The block is changed and log_write pins it.
LogWrite(p, b, v) ==
  /\ pc[p] = "use" /\ b \in held[p]
  /\ data' = [data EXCEPT ![b] = v]
  /\ dirty' = [dirty EXCEPT ![b] = TRUE]
  /\ UNCHANGED <<cache, valid, holder, ide, pc, cur, held>>

\* The block is changed, and bwrite.
BWrite(p, b, v) ==
  /\ pc[p] = "use" /\ b \in held[p]
  /\ data' = [data EXCEPT ![b] = v]
  /\ dirty' = [dirty EXCEPT ![b] = TRUE]
  /\ idequeue' = Append(idequeue, b)
  /\ IF idequeue = <<>> THEN Start(b) ELSE UNCHANGED <<active, disk>>
  /\ cur' = [cur EXCEPT ![p] = b]
  /\ Goto(p, "iosleep")
  /\ UNCHANGED <<cache, valid, holder, held>>

\* A slip: nobody is woken.
ReleaseSleepQuietly(p, b) ==
  /\ pc[p] \in {"use", "done"} /\ b \in held[p]
  /\ holder' = [holder EXCEPT ![b] = None]
  /\ held' = [held EXCEPT ![p] = @ \ {b}]
  /\ cur' = [cur EXCEPT ![p] = b]
  /\ Goto(p, "drop")
  /\ UNCHANGED <<cache, flags, ide>>

\* brelse: releasesleep.
ReleaseSleep(p, b) ==
  /\ pc[p] \in {"use", "done"} /\ b \in held[p]
  /\ holder' = [holder EXCEPT ![b] = None]
  /\ held' = [held EXCEPT ![p] = @ \ {b}]
  /\ cur' = [cur EXCEPT ![p] = b]
  /\ pc' = [Wake(pc, "asleep", b, "lock") EXCEPT ![p] = "drop"]
  /\ UNCHANGED <<cache, flags, ide>>

\* A slip: the buffer is linked in at the head without being unlinked.
DropLinked(p) ==
  /\ pc[p] = "drop"
  /\ refcnt' = [refcnt EXCEPT ![cur[p]] = @ - 1]
  /\ order' = IF refcnt'[cur[p]] = 0 THEN <<cur[p]>> \o order ELSE order
  /\ Goto(p, IF held[p] = {} THEN "idle" ELSE "done")
  /\ UNCHANGED <<blockno, flags, holder, ide, cur, held>>

\* brelse: the reference; an unused buffer becomes the most recently used.
ToFront(b) ==
  LET at == CHOOSE i \in DOMAIN order : order[i] = b
  IN  [i \in DOMAIN order |-> IF i = 1 THEN b
                             ELSE IF i <= at THEN order[i - 1] ELSE order[i]]

Drop(p) ==
  /\ pc[p] = "drop"
  /\ refcnt' = [refcnt EXCEPT ![cur[p]] = @ - 1]
  /\ order' = IF refcnt'[cur[p]] = 0 THEN ToFront(cur[p]) ELSE order
  /\ Goto(p, IF held[p] = {} THEN "idle" ELSE "done")
  /\ UNCHANGED <<blockno, flags, holder, ide, cur, held>>

\* binit links each buffer in at the head.
Init ==
  /\ order = [i \in 1 .. NBUF |-> NBUF + 1 - i]
  /\ blockno = [b \in Bufs |-> None]
  /\ refcnt = [b \in Bufs |-> 0]
  /\ valid = [b \in Bufs |-> FALSE] /\ dirty = [b \in Bufs |-> FALSE]
  /\ data = [b \in Bufs |-> Zero]
  /\ holder = [b \in Bufs |-> None]
  /\ idequeue = <<>> /\ active = None
  /\ disk = [n \in Blocks |-> Zero]
  /\ pc = [p \in Procs |-> "idle"]
  /\ cur = [p \in Procs |-> None]
  /\ held = [p \in Procs |-> {}]

Step(p) ==
  \/ SleepOnLock(p) \/ AcquireSleep(p) \/ ReadCached(p) \/ ReadDisk(p)
  \/ IderwDone(p) \/ IderwAgain(p) \/ Drop(p)
  \/ \E b \in held[p] : ReleaseSleep(p, b)

Call(p) ==
  \/ \E n \in Blocks : BgetHit(p, n) \/ BgetRecycle(p, n)
  \/ \E b \in held[p], v \in Values : LogWrite(p, b, v) \/ BWrite(p, b, v)

Next ==
  \/ Ideintr \/ IdeintrFailed
  \/ \E p \in Procs : Step(p) \/ Call(p) \/ Kill(p)

\* The disk answers, and a process that need not wait goes on and gives its
\* buffers back.
Fairness == WF_vars(Ideintr) /\ \A p \in Procs : WF_vars(Step(p))

Spec == Init /\ [][Next]_vars /\ Fairness

-----------------------------------------------------------------------------
\* The ranges of the variables; order lists every buffer once.
Listed == \A b \in Bufs : \E i \in 1 .. NBUF : order[i] = b
TypeOK ==
  /\ order \in [1 .. NBUF -> Bufs] /\ Listed
  /\ blockno \in [Bufs -> Blocks \cup {None}]
  /\ refcnt \in [Bufs -> Nat]
  /\ valid \in [Bufs -> BOOLEAN] /\ dirty \in [Bufs -> BOOLEAN]
  /\ data \in [Bufs -> Values] /\ disk \in [Blocks -> Values]
  /\ holder \in [Bufs -> Procs \cup {None}]
  /\ idequeue \in Seq(Bufs) /\ active \in Bufs \cup {None}
  /\ pc \in [Procs -> {"idle", "lock", "asleep", "locked", "iosleep",
                       "iodone", "use", "done", "drop"}]
  /\ cur \in [Procs -> Bufs \cup {None}]
  /\ held \in [Procs -> SUBSET Bufs]

\* A block is in one buffer (bget searches and recycles under one lock), or
\* processes would change copies of it that do not meet.
OneBuffer ==
  \A b, c \in Bufs : blockno[b] = blockno[c] /\ blockno[b] # None => b = c

\* The checks of bwrite, brelse and iderw never fail: who has a buffer, or is
\* about to, holds its lock, whatever order the others are woken in.
NoPanic ==
  \A p \in Procs :
    /\ \A b \in held[p] : holder[b] = p
    /\ pc[p] \in {"locked", "iosleep", "iodone"} => holder[cur[p]] = p

\* Every call is answered: a process that waits for the disk gets its buffer,
\* and one that sleeps for a buffer is woken (in the first case it is not at
\* the lock before it has had the buffer, in the second not in use).
Answered ==
  \A p \in Procs :
    pc[p] \in {"iosleep", "asleep"} ~> pc[p] \in {"use", "done", "lock"}

\* What bread of block `n` returns, and to whom it has returned it.
Contents ==
  [n \in Blocks |->
     IF \E b \in Bufs : blockno[b] = n /\ valid[b]
     THEN data[CHOOSE b \in Bufs : blockno[b] = n /\ valid[b]]
     ELSE disk[n]]
Users ==
  [n \in Blocks |->
     IF \E p \in Procs : \E b \in held[p] : blockno[b] = n
     THEN CHOOSE p \in Procs : \E b \in held[p] : blockno[b] = n
     ELSE None]

Store == INSTANCE BlockStore WITH content <- Contents, user <- Users

\* bio.c: "Only one process at a time can use a buffer", and every process
\* sees the last change of a block, through recycling, pinning and the delayed
\* writes of the log, save what the disk fails to read.
Coherent == Store!Spec
===============================================================================
