-------------------------------- MODULE Log --------------------------------
(***************************************************************************)
(* The redo log of the file system, kernel/src/log.c (labs 2 to 4 have the *)
(* same file; lab 4's is cited).  File system calls run between begin_op   *)
(* and end_op; the last one to end writes the blocks they changed to the   *)
(* log, then the header that commits them, then the blocks in place, then  *)
(* the empty header.  A power failure may come between any two writes of   *)
(* the disk; the next boot starts with recover_from_log.                   *)
(*                                                                         *)
(* A step is one critical section of log.lock or one bwrite.  A bwrite of  *)
(* one block is atomic: BSIZE is the disk's sector.  A block log_write has *)
(* marked B_DIRTY stays in the buffer cache, and any other is read again   *)
(* from the disk when needed, so a buffer is never older than its block.   *)
(***************************************************************************)
EXTENDS Integers, Sequences, FiniteSets

CONSTANTS
  Procs,        \* processes that make file system calls
  Blocks,       \* the blocks outside the log
  Values,       \* what a block may hold
  Fresh,        \* what it holds on a new disk
  MAXOPBLOCKS,  \* blocks begin_op reserves for a call
  LOGSIZE,      \* nlog, the blocks of the log with its header
  OpBlocks      \* blocks a call really changes

ASSUME LogAssumption ==
  /\ Fresh \in Values
  /\ MAXOPBLOCKS \in Nat /\ LOGSIZE \in Nat
  /\ OpBlocks \in 1 .. MAXOPBLOCKS - 1
  /\ MAXOPBLOCKS < LOGSIZE

VARIABLES
  disk,         \* the blocks, on disk
  slots,        \* the log blocks after the header, on disk
  header,       \* the header's list of block numbers, on disk
  buf,          \* the blocks, as the buffer cache has them
  lh,           \* log.lh
  outstanding,  \* log.outstanding
  committing,   \* log.committing
  pc,           \* where each process is
  own,          \* history: the blocks the call of a process has changed
  tail,         \* the loop variable of write_log and install_trans
  boot          \* initlog: "read", "install", "erase", then "done"

ondisk == <<disk, slots, header>>
inmem == <<buf, lh, outstanding, committing, pc, own, tail, boot>>
vars == <<ondisk, inmem>>

Capacity == LOGSIZE - 1
Ops == {p \in Procs : pc[p] = "op"}
Entries(s) == {s[n] : n \in DOMAIN s}
WakeAll(f) == [p \in Procs |-> IF f[p] = "asleep" THEN "idle" ELSE f[p]]

-----------------------------------------------------------------------------
(* begin_op: sleep while a commit is under way or the log may run out.     *)

Up == boot = "done"
Fits == Len(lh) + (outstanding + 1) * MAXOPBLOCKS <= LOGSIZE

\* A slip: the call is counted before it waits.
BeginEarly(p) ==
  /\ Up /\ pc[p] = "idle"
  /\ outstanding' = outstanding + 1
  /\ pc' = [pc EXCEPT ![p] = IF committing \/ ~Fits THEN "asleep" ELSE "op"]
  /\ UNCHANGED <<ondisk, buf, lh, committing, own, tail, boot>>

Begin(p) ==
  /\ Up /\ pc[p] = "idle"
  /\ IF committing \/ ~Fits
     THEN pc' = [pc EXCEPT ![p] = "asleep"] /\ UNCHANGED outstanding
     ELSE pc' = [pc EXCEPT ![p] = "op"] /\ outstanding' = outstanding + 1
  /\ UNCHANGED <<ondisk, buf, lh, committing, own, tail, boot>>

\* A slip: without absorption, each call takes a new slot.
LogWriteTwice(p, b, v) ==
  /\ pc[p] = "op" /\ Len(lh) < Capacity
  /\ Cardinality(own[p] \cup {b}) <= OpBlocks
  /\ buf' = [buf EXCEPT ![b] = v]
  /\ lh' = Append(lh, b)
  /\ own' = [own EXCEPT ![p] = @ \cup {b}]
  /\ UNCHANGED <<ondisk, outstanding, committing, pc, tail, boot>>

\* The file system changes a block it holds and calls log_write.
LogWrite(p, b, v) ==
  /\ pc[p] = "op" /\ Len(lh) < Capacity
  /\ Cardinality(own[p] \cup {b}) <= OpBlocks
  /\ buf' = [buf EXCEPT ![b] = v]
  /\ lh' = IF b \in Entries(lh) THEN lh ELSE Append(lh, b)
  /\ own' = [own EXCEPT ![p] = @ \cup {b}]
  /\ UNCHANGED <<ondisk, outstanding, committing, pc, tail, boot>>

\* end_op, when other calls go on: the reservation is given back.
EndOther(p) ==
  /\ pc[p] = "op" /\ outstanding > 1 /\ ~committing
  /\ outstanding' = outstanding - 1
  /\ pc' = WakeAll([pc EXCEPT ![p] = "idle"])
  /\ own' = [own EXCEPT ![p] = {}]
  /\ UNCHANGED <<ondisk, buf, lh, committing, tail, boot>>

\* end_op of the last call, up to commit(): with nothing logged there is
\* nothing to write.
EndLast(p) ==
  /\ pc[p] = "op" /\ outstanding = 1 /\ ~committing
  /\ outstanding' = 0
  /\ committing' = TRUE
  /\ pc' = [pc EXCEPT ![p] = IF lh = <<>> THEN "finish" ELSE "log"]
  /\ own' = [own EXCEPT ![p] = {}]
  /\ tail' = 1
  /\ UNCHANGED <<ondisk, buf, lh, boot>>

-----------------------------------------------------------------------------
(* commit                                                                  *)

Goto(p, where) == pc' = [pc EXCEPT ![p] = where]

\* One bwrite of write_log; the loop ends in write_head.
WriteLog(p) ==
  /\ pc[p] = "log" /\ tail <= Len(lh)
  /\ slots' = [slots EXCEPT ![tail] = buf[lh[tail]]]
  /\ tail' = tail + 1
  /\ UNCHANGED <<disk, header, buf, lh, outstanding, committing, pc, own, boot>>

\* A slip: the header is written before the last block of the log is.
WriteHeadEarly(p) ==
  /\ pc[p] = "log" /\ tail >= Len(lh)
  /\ header' = lh
  /\ Goto(p, "install") /\ tail' = 1
  /\ UNCHANGED <<disk, slots, buf, lh, outstanding, committing, own, boot>>

\* The commit point.
WriteHead(p) ==
  /\ pc[p] = "log" /\ tail > Len(lh)
  /\ header' = lh
  /\ Goto(p, "install") /\ tail' = 1
  /\ UNCHANGED <<disk, slots, buf, lh, outstanding, committing, own, boot>>

\* One bwrite of install_trans: the log block goes to its place.
CopyHome ==
  /\ disk' = [disk EXCEPT ![lh[tail]] = slots[tail]]
  /\ buf' = [buf EXCEPT ![lh[tail]] = slots[tail]]
  /\ tail' = tail + 1

Install(p) ==
  /\ pc[p] = "install" /\ tail <= Len(lh)
  /\ CopyHome
  /\ UNCHANGED <<slots, header, lh, outstanding, committing, pc, own, boot>>

\* A slip: the list in memory is not cleared with the one on disk.
EraseDiskOnly(p) ==
  /\ pc[p] = "install" /\ tail > Len(lh)
  /\ header' = <<>>
  /\ Goto(p, "finish")
  /\ UNCHANGED <<disk, slots, buf, lh, outstanding, committing, own, tail, boot>>

\* log.lh.n = 0 and the second write_head.
Erase(p) ==
  /\ pc[p] = "install" /\ tail > Len(lh)
  /\ lh' = <<>>
  /\ header' = <<>>
  /\ Goto(p, "finish")
  /\ UNCHANGED <<disk, slots, buf, outstanding, committing, own, tail, boot>>

\* A slip: nobody is woken after the commit.
FinishQuietly(p) ==
  /\ pc[p] = "finish"
  /\ committing' = FALSE
  /\ Goto(p, "idle")
  /\ UNCHANGED <<ondisk, buf, lh, outstanding, own, tail, boot>>

Finish(p) ==
  /\ pc[p] = "finish"
  /\ committing' = FALSE
  /\ pc' = WakeAll([pc EXCEPT ![p] = "idle"])
  /\ UNCHANGED <<ondisk, buf, lh, outstanding, own, tail, boot>>

-----------------------------------------------------------------------------
(* A power failure, and initlog at the next boot.                          *)

Crash ==
  /\ buf' = disk
  /\ lh' = <<>>
  /\ outstanding' = 0
  /\ committing' = FALSE
  /\ pc' = [p \in Procs |-> "idle"]
  /\ own' = [p \in Procs |-> {}]
  /\ tail' = 1
  /\ boot' = "read"
  /\ UNCHANGED ondisk

ReadHead ==
  /\ boot = "read"
  /\ lh' = header
  /\ boot' = "install"
  /\ UNCHANGED <<ondisk, buf, outstanding, committing, pc, own, tail>>

RecoverInstall ==
  /\ boot = "install" /\ tail <= Len(lh)
  /\ CopyHome
  /\ UNCHANGED <<slots, header, lh, outstanding, committing, pc, own, boot>>

RecoverErase ==
  /\ boot = "install" /\ tail > Len(lh)
  /\ lh' = <<>>
  /\ header' = <<>>
  /\ boot' = "done"
  /\ UNCHANGED <<disk, slots, buf, outstanding, committing, pc, own, tail>>

Init ==
  /\ disk = [b \in Blocks |-> Fresh]
  /\ slots = [n \in 1 .. Capacity |-> Fresh]
  /\ header = <<>>
  /\ buf = disk
  /\ lh = <<>>
  /\ outstanding = 0 /\ committing = FALSE
  /\ pc = [p \in Procs |-> "idle"]
  /\ own = [p \in Procs |-> {}]
  /\ tail = 1 /\ boot = "read"

Next ==
  \/ Crash \/ ReadHead \/ RecoverInstall \/ RecoverErase
  \/ \E p \in Procs :
       \/ Begin(p) \/ EndOther(p) \/ EndLast(p)
       \/ WriteLog(p) \/ WriteHead(p) \/ Install(p) \/ Erase(p) \/ Finish(p)
       \/ \E b \in Blocks, v \in Values : LogWrite(p, b, v)

Spec == Init /\ [][Next]_vars

-----------------------------------------------------------------------------
\* The ranges of the variables; log.outstanding counts the calls under way.
TypeOK ==
  /\ disk \in [Blocks -> Values] /\ buf \in [Blocks -> Values]
  /\ slots \in [1 .. Capacity -> Values]
  /\ Len(header) <= Capacity /\ Entries(header) \subseteq Blocks
  /\ Len(lh) <= Capacity /\ Entries(lh) \subseteq Blocks
  /\ pc \in [Procs -> {"idle", "asleep", "op", "log", "install", "finish"}]
  /\ own \in [Procs -> SUBSET Blocks]
  /\ tail \in 1 .. Capacity + 1
  /\ boot \in {"read", "install", "done"}
  /\ committing \in BOOLEAN
  /\ outstanding = Cardinality(Ops)

\* The panics of log_write and end_op never happen: whatever calls overlap,
\* the log has a slot for each block they change, although begin_op reserves
\* LOGSIZE slots and the header takes one of them.
NoPanic ==
  /\ Ops # {} => Len(lh) < Capacity
  /\ committing => Ops = {}

\* A process asleep in begin_op has a wakeup coming: a commit is under way or
\* another call has yet to end.
SleepersWoken == (\E p \in Procs : pc[p] = "asleep") => committing \/ outstanding > 0

\* Between groups of calls the log is empty and every change is in place.
Settled == Up /\ ~committing /\ outstanding = 0 => lh = <<>> /\ header = <<>> /\ disk = buf

\* What a restart makes of the disk.
Recovered ==
  [b \in Blocks |-> IF b \in Entries(header)
                    THEN slots[CHOOSE n \in DOMAIN header : header[n] = b]
                    ELSE disk[b]]

Abstract == INSTANCE AtomicDisk WITH
  stable <- Recovered,
  volatile <- IF Up THEN buf ELSE Recovered,
  active <- Ops

\* Group commit is atomic (log.c: "the commit point" is write_head): no crash,
\* in a commit or in a recovery, shows part of a call's changes.
Atomic == Abstract!Spec
=============================================================================
