---------------------------- MODULE BufCacheProofs ----------------------------
(***************************************************************************)
(* The buffer cache implements one store of blocks, for any number of      *)
(* buffers, blocks and processes (Correct): Coherent, and on the way the   *)
(* ranges of the variables, OneBuffer and NoPanic.                         *)
(*                                                                         *)
(* The inductive invariant adds to these three who counts in b->refcnt     *)
(* (Counted), so that bget recycles no buffer in use; that each request of *)
(* the disk belongs to a process that waits for it (Requests), so that     *)
(* nobody changes a buffer the disk is at; and what the disk holds of the  *)
(* buffers without changes (Clean, Written), so that recycling and reading *)
(* again loses nothing.                                                    *)
(***************************************************************************)
EXTENDS BufCache, FiniteSetTheorems, TLAPS

Waiting == {"iosleep", "iodone"}
Coming  == {"lock", "asleep", "locked", "drop"}
Busy    == Waiting \cup Coming

\* A process uses the buffers it holds and the one its call is about.
Uses(b) == {p \in Procs : b \in held[p] \/ (pc[p] \in Busy /\ cur[p] = b)}
Counted ==
  \A b \in Bufs : IsFiniteSet(Uses(b)) /\ refcnt[b] = Cardinality(Uses(b))

Places ==
  /\ \A p \in Procs : pc[p] \in Busy => cur[p] \in Bufs
  /\ \A p \in Procs : pc[p] \in Coming => cur[p] \notin held[p]
  /\ \A p \in Procs : \A b \in held[p] : valid[b]

Named ==
  /\ \A b \in Bufs : refcnt[b] # 0 => blockno[b] \in Blocks
  /\ \A b \in Bufs : dirty[b] => valid[b] /\ blockno[b] \in Blocks

Requests ==
  /\ \A i, j \in 1 .. Len(idequeue) : idequeue[i] = idequeue[j] => i = j
  /\ \A i \in 1 .. Len(idequeue) :
       /\ \E p \in Procs : pc[p] \in Waiting /\ cur[p] = idequeue[i]
       /\ valid[idequeue[i]] => dirty[idequeue[i]]
  /\ active = IF idequeue = <<>> THEN None ELSE idequeue[1]

Clean ==
  \A b \in Bufs : valid[b] /\ ~dirty[b] /\ blockno[b] \in Blocks \ Faulty
    => data[b] = disk[blockno[b]]
Written ==
  active # None /\ dirty[active] => data[active] = disk[blockno[active]]

CacheInv ==
  /\ TypeOK /\ OneBuffer /\ NoPanic
  /\ Counted /\ Places /\ Named /\ Requests /\ Clean /\ Written

-----------------------------------------------------------------------------
(* Who may use a buffer.                                                   *)

\* A buffer in use is not one that bget recycles.
LEMMA InUse ==
  ASSUME CacheInv, NEW p \in Procs, NEW b \in Bufs, p \in Uses(b)
  PROVE  refcnt[b] # 0 /\ blockno[b] \in Blocks
<1>1. IsFiniteSet(Uses(b)) /\ refcnt[b] = Cardinality(Uses(b))
  BY DEF CacheInv, Counted
<1>2. Cardinality(Uses(b)) # 0
  BY <1>1, FS_EmptySet
<1> QED BY <1>1, <1>2 DEF CacheInv, Named

\* What a process holds or waits for with the lock, no other does.
LEMMA Alone ==
  ASSUME CacheInv, NEW p \in Procs, NEW q \in Procs, NEW b \in Bufs,
         b \in held[p] \/ (pc[p] \in {"locked"} \cup Waiting /\ cur[p] = b),
         b \in held[q] \/ (pc[q] \in {"locked"} \cup Waiting /\ cur[q] = b)
  PROVE  p = q
BY DEF CacheInv, NoPanic, Waiting

\* The buffer of a process that runs is not with the disk.
LEMMA NotQueued ==
  ASSUME CacheInv, NEW p \in Procs, NEW b \in Bufs, pc[p] \notin Waiting,
         b \in held[p] \/ (pc[p] = "locked" /\ cur[p] = b)
  PROVE  \A i \in 1 .. Len(idequeue) : idequeue[i] # b
<1> SUFFICES ASSUME NEW i \in 1 .. Len(idequeue), idequeue[i] = b
             PROVE  FALSE
  OBVIOUS
<1>1. PICK q \in Procs : pc[q] \in Waiting /\ cur[q] = b
  BY DEF CacheInv, Requests
<1> QED BY <1>1, Alone

\* A step that changes neither who uses what nor the counts.
LEMMA SameUses ==
  ASSUME CacheInv, UNCHANGED refcnt, \A b \in Bufs : Uses(b)' = Uses(b)
  PROVE  Counted'
BY DEF CacheInv, Counted

\* binit leaves a list of all buffers, none of them used.
LEMMA CacheInit == Init => CacheInv
<1> SUFFICES ASSUME Init PROVE CacheInv
  OBVIOUS
<1> USE CacheAssumption
<1>1. Listed
  <2>1. ASSUME NEW b \in Bufs PROVE \E i \in 1 .. NBUF : order[i] = b
    <3>1. NBUF + 1 - b \in 1 .. NBUF /\ order[NBUF + 1 - b] = b
      BY <2>1 DEF Init, Bufs
    <3> QED BY <3>1
  <2> QED BY <2>1 DEF Listed
<1>2. TypeOK
  BY <1>1 DEF Init, TypeOK, Bufs
<1>3. Counted
  <2>1. \A b \in Bufs : Uses(b) = {}
    BY DEF Init, Uses, Busy, Waiting, Coming
  <2> QED BY <2>1, FS_EmptySet DEF Counted, Init
<1>4. Requests
  BY DEF Init, Requests
<1> QED BY <1>2, <1>3, <1>4
  DEF Init, CacheInv, OneBuffer, NoPanic, Places, Named, Clean, Written, Busy, Waiting, Coming

-----------------------------------------------------------------------------
(* Each action keeps the invariant.                                        *)

\* A process that only moves on from one wait to another.
LEMMA Moves ==
  ASSUME CacheInv, NEW p \in Procs,
         SleepOnLock(p) \/ IderwAgain(p) \/ Kill(p)
  PROVE  CacheInv'
<1> USE DEF Busy, Waiting, Coming
<1>1. UNCHANGED <<cache, flags, holder, ide, cur, held>>
  BY DEF SleepOnLock, IderwAgain, Kill
<1>2. /\ pc' \in [Procs -> {"idle", "lock", "asleep", "locked", "iosleep",
                            "iodone", "use", "done", "drop"}]
      /\ \A q \in Procs : /\ pc'[q] \in Waiting <=> pc[q] \in Waiting
                          /\ pc'[q] \in Coming <=> pc[q] \in Coming
                          /\ pc'[q] = "locked" => pc[q] = "locked"
  BY DEF SleepOnLock, IderwAgain, Kill, Goto, CacheInv, TypeOK
<1> USE <1>1, <1>2 DEF cache, flags, ide
<1>3. Counted'
  <2>1. \A b \in Bufs : Uses(b)' = Uses(b)
    BY DEF Uses
  <2> QED BY <2>1, SameUses
<1>4. TypeOK' /\ OneBuffer' /\ NoPanic'
  BY DEF CacheInv, TypeOK, Listed, OneBuffer, NoPanic
<1>5. Places' /\ Named'
  BY DEF CacheInv, Places, Named
<1>6. Requests' /\ Clean' /\ Written'
  BY DEF CacheInv, Requests, Clean, Written
<1> QED BY <1>3, <1>4, <1>5, <1>6 DEF CacheInv

\* bget of a cached block: one user more.
LEMMA KeepsBgetHit ==
  ASSUME CacheInv, NEW p \in Procs, NEW n \in Blocks, BgetHit(p, n)
  PROVE  CacheInv'
<1> USE CacheAssumption DEF Busy, Waiting, Coming
<1>1. PICK b \in Bufs :
        /\ blockno[b] = n
        /\ refcnt' = [refcnt EXCEPT ![b] = @ + 1]
        /\ cur' = [cur EXCEPT ![p] = b]
  BY DEF BgetHit
<1>2. /\ pc' = [pc EXCEPT ![p] = "lock"]
      /\ pc[p] \in {"idle", "use"}
      /\ \A c \in held[p] : blockno[c] < n
      /\ UNCHANGED <<order, blockno, flags, holder, ide, held>>
  BY DEF BgetHit, Goto, MayRead
<1>3. TypeOK' /\ OneBuffer' /\ NoPanic'
  BY <1>1, <1>2 DEF CacheInv, TypeOK, Listed, OneBuffer, NoPanic, flags, ide
<1>4. b \notin held[p]
  BY <1>1, <1>2
<1>5. Counted'
  <2>1. Uses(b)' = Uses(b) \cup {p} /\ p \notin Uses(b)
    BY <1>1, <1>2, <1>4 DEF Uses, CacheInv, TypeOK
  <2>2. \A c \in Bufs : c # b => Uses(c)' = Uses(c)
    BY <1>1, <1>2 DEF Uses, CacheInv, TypeOK
  <2>3. IsFiniteSet(Uses(b)) /\ refcnt[b] = Cardinality(Uses(b))
    BY DEF CacheInv, Counted
  <2>4. IsFiniteSet(Uses(b)') /\ Cardinality(Uses(b)') = Cardinality(Uses(b)) + 1
    BY <2>1, <2>3, FS_AddElement
  <2>5. refcnt'[b] = refcnt[b] + 1 /\ \A c \in Bufs : c # b => refcnt'[c] = refcnt[c]
    BY <1>1 DEF CacheInv, TypeOK
  <2> QED BY <2>2, <2>3, <2>4, <2>5 DEF CacheInv, Counted
<1>6. Places' /\ Named'
  BY <1>1, <1>2, <1>4 DEF CacheInv, Places, Named, TypeOK, flags
<1>7. Requests'
  BY <1>1, <1>2 DEF CacheInv, Requests, TypeOK, flags, ide
<1>8. Clean' /\ Written'
  BY <1>2 DEF CacheInv, Clean, Written, flags, ide
<1> QED BY <1>3, <1>5, <1>6, <1>7, <1>8 DEF CacheInv

\* bget of another block: the buffer had no user, and nothing to write.
LEMMA KeepsBgetRecycle ==
  ASSUME CacheInv, NEW p \in Procs, NEW n \in Blocks, BgetRecycle(p, n)
  PROVE  CacheInv'
<1> USE CacheAssumption DEF Busy, Waiting, Coming
<1>0. \A b \in Oldest : b \in Bufs /\ refcnt[b] = 0 /\ ~dirty[b]
  BY DEF Oldest, Free, CacheInv, TypeOK
<1>1. PICK b \in Bufs :
        /\ refcnt[b] = 0 /\ ~dirty[b]
        /\ blockno' = [blockno EXCEPT ![b] = n]
        /\ valid' = [valid EXCEPT ![b] = FALSE]
        /\ dirty' = [dirty EXCEPT ![b] = FALSE]
        /\ refcnt' = [refcnt EXCEPT ![b] = 1]
        /\ cur' = [cur EXCEPT ![p] = b]
  BY <1>0 DEF BgetRecycle
<1>2. /\ pc' = [pc EXCEPT ![p] = "lock"]
      /\ pc[p] \in {"idle", "use"}
      /\ \A c \in Bufs : blockno[c] # n
      /\ UNCHANGED <<order, data, holder, ide, held>>
  BY DEF BgetRecycle, Goto, MayRead
<1>3. Uses(b) = {}
  BY <1>1, InUse DEF Uses
<1>4. \A i \in 1 .. Len(idequeue) : idequeue[i] # b
  BY <1>3 DEF CacheInv, Requests, Uses
<1>5. TypeOK'
  BY <1>1, <1>2 DEF CacheInv, TypeOK, Listed, ide
<1>6. OneBuffer' /\ NoPanic'
  BY <1>1, <1>2 DEF CacheInv, TypeOK, Listed, OneBuffer, NoPanic
<1>7. Counted'
  <2>1. Uses(b)' = {p}
    BY <1>1, <1>2, <1>3 DEF Uses, CacheInv, TypeOK
  <2>2. \A c \in Bufs : c # b => Uses(c)' = Uses(c)
    BY <1>1, <1>2 DEF Uses, CacheInv, TypeOK
  <2>3. refcnt'[b] = 1 /\ \A c \in Bufs : c # b => refcnt'[c] = refcnt[c]
    BY <1>1 DEF CacheInv, TypeOK
  <2> QED BY <2>1, <2>2, <2>3, FS_Singleton DEF CacheInv, Counted
<1>8. Places' /\ Named'
  <2>1. b \notin held[p] /\ \A q \in Procs : b \notin held[q]
    BY <1>3 DEF Uses
  <2> QED BY <1>1, <1>2, <2>1 DEF CacheInv, Places, Named, TypeOK
<1>9. Requests'
  <2>1. ASSUME NEW i \in 1 .. Len(idequeue)
        PROVE  /\ \E q \in Procs : pc'[q] \in Waiting /\ cur'[q] = idequeue[i]
               /\ valid'[idequeue[i]] => dirty'[idequeue[i]]
    <3>1. PICK q \in Procs : pc[q] \in Waiting /\ cur[q] = idequeue[i]
      BY DEF CacheInv, Requests
    <3>2. pc'[q] \in Waiting /\ cur'[q] = idequeue[i]
      BY <1>1, <1>2, <3>1 DEF CacheInv, TypeOK
    <3>3. idequeue[i] \in Bufs /\ idequeue[i] # b
      BY <1>4 DEF CacheInv, TypeOK
    <3>4. valid'[idequeue[i]] => dirty'[idequeue[i]]
      BY <1>1, <3>3 DEF CacheInv, Requests, TypeOK
    <3> QED BY <3>2, <3>4
  <2> QED BY <1>2, <2>1 DEF CacheInv, Requests, ide
<1>10. Clean' /\ Written'
  <2>1. active # b
    BY <1>4 DEF CacheInv, Requests, TypeOK
  <2> QED BY <1>1, <1>2, <2>1 DEF CacheInv, Clean, Written, TypeOK, ide
<1> QED BY <1>5, <1>6, <1>7, <1>8, <1>9, <1>10 DEF CacheInv

\* acquiresleep of a free lock.
LEMMA KeepsAcquireSleep ==
  ASSUME CacheInv, NEW p \in Procs, AcquireSleep(p)
  PROVE  CacheInv'
<1> USE CacheAssumption DEF Busy, Waiting, Coming
<1>1. /\ pc[p] = "lock" /\ holder[cur[p]] = None
      /\ holder' = [holder EXCEPT ![cur[p]] = p]
      /\ pc' = [pc EXCEPT ![p] = "locked"]
      /\ UNCHANGED <<cache, flags, ide, cur, held>>
  BY DEF AcquireSleep, Goto
<1>2. cur[p] \in Bufs
  BY <1>1 DEF CacheInv, Places
<1>3. Counted'
  <2>1. \A b \in Bufs : Uses(b)' = Uses(b)
    BY <1>1 DEF Uses, CacheInv, TypeOK
  <2> QED BY <1>1, <2>1, SameUses DEF cache
<1>4. TypeOK' /\ OneBuffer'
  <2>1. holder' \in [Bufs -> Procs \cup {None}]
    BY <1>1, <1>2 DEF CacheInv, TypeOK
  <2>2. pc' \in [Procs -> {"idle", "lock", "asleep", "locked", "iosleep",
                         "iodone", "use", "done", "drop"}]
    BY <1>1 DEF CacheInv, TypeOK
  <2> QED BY <1>1, <2>1, <2>2 DEF CacheInv, TypeOK, Listed, OneBuffer, cache, flags, ide
<1>5. NoPanic'
  <2>1. \A q \in Procs : \A b \in held[q] : b # cur[p] /\ holder'[b] = q
    BY <1>1 DEF CacheInv, TypeOK, NoPanic
  <2>2. ASSUME NEW q \in Procs, pc'[q] \in {"locked"} \cup Waiting
        PROVE  holder'[cur[q]] = q
    <3>1. CASE q = p
      BY <1>1, <1>2, <3>1 DEF CacheInv, TypeOK
    <3>2. CASE q # p
      <4>1. holder[cur[q]] = q /\ cur[q] \in Bufs
        BY <1>1, <2>2, <3>2 DEF CacheInv, TypeOK, NoPanic, Places
      <4> QED BY <1>1, <4>1 DEF CacheInv, TypeOK
    <3> QED BY <3>1, <3>2
  <2> QED BY <1>1, <2>1, <2>2 DEF NoPanic
<1>6. Places' /\ Named'
  BY <1>1 DEF CacheInv, TypeOK, Places, Named, cache, flags
<1>7. Requests' /\ Clean' /\ Written'
  BY <1>1 DEF CacheInv, TypeOK, Requests, Clean, Written, cache, flags, ide
<1> QED BY <1>3, <1>4, <1>5, <1>6, <1>7 DEF CacheInv

\* bread returns: the buffer is valid and not with the disk.
LEMMA KeepsReturn ==
  ASSUME CacheInv, NEW p \in Procs, ReadCached(p) \/ IderwDone(p)
  PROVE  CacheInv'
<1> USE CacheAssumption DEF Busy, Waiting, Coming
<1>1. /\ pc[p] \in {"locked", "iodone"} /\ valid[cur[p]]
      /\ pc[p] = "iodone" => ~dirty[cur[p]]
      /\ held' = [held EXCEPT ![p] = @ \cup {cur[p]}]
      /\ \E w \in {"use", "done"} : pc' = [pc EXCEPT ![p] = w]
      /\ UNCHANGED <<cache, flags, holder, ide, cur>>
  BY DEF ReadCached, IderwDone, Return, Goto
<1>2. cur[p] \in Bufs /\ holder[cur[p]] = p
  BY <1>1 DEF CacheInv, Places, NoPanic
<1>3. Counted'
  <2>1. \A b \in Bufs : Uses(b)' = Uses(b)
    BY <1>1 DEF Uses, CacheInv, TypeOK
  <2> QED BY <1>1, <2>1, SameUses DEF cache
<1>4. TypeOK' /\ OneBuffer'
  <2>1. held' \in [Procs -> SUBSET Bufs]
    BY <1>1, <1>2 DEF CacheInv, TypeOK
  <2>2. pc' \in [Procs -> {"idle", "lock", "asleep", "locked", "iosleep",
                         "iodone", "use", "done", "drop"}]
    BY <1>1 DEF CacheInv, TypeOK
  <2> QED BY <1>1, <2>1, <2>2 DEF CacheInv, TypeOK, Listed, OneBuffer, cache, flags, ide
<1>9. NoPanic'
  BY <1>1, <1>2 DEF CacheInv, TypeOK, NoPanic
<1>5. Places' /\ Named'
  BY <1>1, <1>2 DEF CacheInv, TypeOK, Places, Named, cache, flags
<1>6. \A i \in 1 .. Len(idequeue) : idequeue[i] # cur[p]
  <2>1. CASE pc[p] = "locked"
    BY <1>2, <2>1, NotQueued
  <2>2. CASE pc[p] = "iodone"
    BY <1>1, <2>2 DEF CacheInv, Requests
  <2> QED BY <1>1, <2>1, <2>2
<1>7. Requests'
  <2>1. \A i \in 1 .. Len(idequeue) :
          \E q \in Procs : pc'[q] \in Waiting /\ cur[q] = idequeue[i]
    BY <1>1, <1>6 DEF CacheInv, Requests, TypeOK
  <2> QED BY <1>1, <2>1 DEF CacheInv, Requests, flags, ide
<1>8. Clean' /\ Written'
  BY <1>1 DEF CacheInv, Clean, Written, cache, flags, ide
<1> QED BY <1>3, <1>4, <1>5, <1>7, <1>8, <1>9 DEF CacheInv

\* A request goes to the end of the queue, with its process behind it.
LEMMA Enqueues ==
  ASSUME CacheInv, NEW p \in Procs, NEW b \in Bufs, pc[p] \notin Waiting,
         \A i \in 1 .. Len(idequeue) : idequeue[i] # b,
         idequeue' = Append(idequeue, b),
         pc' = [pc EXCEPT ![p] = "iosleep"],
         cur'[p] = b, \A q \in Procs : q # p => cur'[q] = cur[q],
         UNCHANGED valid, \A c \in Bufs : c # b => dirty'[c] = dirty[c],
         valid[b] => dirty'[b],
         active' = IF idequeue = <<>> THEN b ELSE active
  PROVE  Requests'
<1>1. idequeue \in Seq(Bufs)
  BY DEF CacheInv, TypeOK
<1>2. /\ Len(idequeue') = Len(idequeue) + 1 /\ idequeue' # <<>>
      /\ Len(idequeue) \in Nat
      /\ idequeue'[Len(idequeue) + 1] = b
      /\ \A i \in 1 .. Len(idequeue) : idequeue'[i] = idequeue[i] /\ idequeue[i] \in Bufs
  BY <1>1
<1>3. ASSUME NEW i \in 1 .. Len(idequeue), NEW j \in 1 .. Len(idequeue), idequeue[i] = idequeue[j]
      PROVE  i = j
  BY <1>3 DEF CacheInv, Requests
<1>4. \A i, j \in 1 .. Len(idequeue') : idequeue'[i] = idequeue'[j] => i = j
  BY <1>2, <1>3
<1>5. ASSUME NEW i \in 1 .. Len(idequeue')
      PROVE  /\ \E q \in Procs : pc'[q] \in Waiting /\ cur'[q] = idequeue'[i]
             /\ valid'[idequeue'[i]] => dirty'[idequeue'[i]]
  <2>1. CASE i = Len(idequeue) + 1
    BY <1>2, <2>1 DEF CacheInv, TypeOK, Waiting
  <2>2. CASE i # Len(idequeue) + 1
    <3>1. i \in 1 .. Len(idequeue)
      BY <1>2, <2>2
    <3>2. PICK q \in Procs : pc[q] \in Waiting /\ cur[q] = idequeue[i]
      BY <3>1 DEF CacheInv, Requests
    <3>3. q # p /\ pc'[q] = pc[q] /\ cur'[q] = cur[q]
      BY <3>2 DEF CacheInv, TypeOK
    <3>4. valid'[idequeue[i]] => dirty'[idequeue[i]]
      BY <1>2, <3>1 DEF CacheInv, Requests
    <3> QED BY <1>2, <3>1, <3>2, <3>3, <3>4
  <2> QED BY <2>1, <2>2
<1>6. active' = IF idequeue' = <<>> THEN None ELSE idequeue'[1]
  BY <1>1, <1>2 DEF CacheInv, Requests
<1> QED BY <1>4, <1>5, <1>6 DEF Requests

\* iderw for a read.
LEMMA KeepsReadDisk ==
  ASSUME CacheInv, NEW p \in Procs, ReadDisk(p)
  PROVE  CacheInv'
<1> USE CacheAssumption DEF Busy, Waiting, Coming
<1> DEFINE b == cur[p]
<1>1. /\ pc[p] = "locked" /\ ~valid[b]
      /\ UNCHANGED <<order, blockno, refcnt, valid, dirty, data, holder, cur, held>>
      /\ idequeue' = Append(idequeue, b)
      /\ pc' = [pc EXCEPT ![p] = "iosleep"]
  BY DEF ReadDisk, Enqueue, Goto, cache, flags
<1>2. b \in Bufs /\ holder[b] = p /\ ~dirty[b]
  BY <1>1 DEF CacheInv, Places, NoPanic, Named
<1>3. \A i \in 1 .. Len(idequeue) : idequeue[i] # b
  BY <1>1, <1>2, NotQueued
<1>4. UNCHANGED disk /\ active' = IF idequeue = <<>> THEN b ELSE active
  BY <1>1, <1>2 DEF ReadDisk, Enqueue, Start
<1>5. Requests'
  <2>1. valid[b] => dirty'[b]
    BY <1>1
  <2> QED BY <1>1, <1>2, <1>3, <1>4, <2>1, Enqueues
<1>6. Counted'
  <2>1. \A c \in Bufs : Uses(c)' = Uses(c)
    BY <1>1 DEF Uses, CacheInv, TypeOK
  <2> QED BY <1>1, <2>1, SameUses
<1>7. TypeOK'
  <2>1. idequeue' \in Seq(Bufs) /\ active' \in Bufs \cup {None}
    BY <1>1, <1>2, <1>4 DEF CacheInv, TypeOK
  <2> QED BY <1>1, <1>4, <2>1 DEF CacheInv, TypeOK, Listed
<1>8. OneBuffer' /\ NoPanic' /\ Places' /\ Named'
  BY <1>1, <1>2 DEF CacheInv, TypeOK, OneBuffer, NoPanic, Places, Named
<1>9. Clean' /\ Written'
  BY <1>1, <1>2, <1>4 DEF CacheInv, Clean, Written
<1> QED BY <1>5, <1>6, <1>7, <1>8, <1>9 DEF CacheInv

\* A change that waits for the log.
LEMMA KeepsLogWrite ==
  ASSUME CacheInv, NEW p \in Procs, NEW b \in held[p], NEW v \in Values,
         LogWrite(p, b, v)
  PROVE  CacheInv'
<1> USE CacheAssumption DEF Busy, Waiting, Coming
<1>1. /\ pc[p] = "use"
      /\ data' = [data EXCEPT ![b] = v] /\ dirty' = [dirty EXCEPT ![b] = TRUE]
      /\ UNCHANGED <<order, blockno, refcnt, valid, holder, idequeue, active, disk, pc, cur, held>>
  BY DEF LogWrite, cache, ide
<1>2. b \in Bufs /\ valid[b] /\ blockno[b] \in Blocks
  BY InUse DEF CacheInv, TypeOK, Places, Uses
<1>3. \A i \in 1 .. Len(idequeue) : idequeue[i] # b
  BY <1>1, <1>2, NotQueued
<1>4. Counted'
  <2>1. \A c \in Bufs : Uses(c)' = Uses(c)
    BY <1>1 DEF Uses
  <2> QED BY <1>1, <2>1, SameUses
<1>5. TypeOK'
  BY <1>1, <1>2 DEF CacheInv, TypeOK, Listed
<1>6. OneBuffer' /\ NoPanic' /\ Places' /\ Named'
  BY <1>1, <1>2 DEF CacheInv, TypeOK, OneBuffer, NoPanic, Places, Named
<1>7. Requests'
  <2>1. \A c \in Bufs : dirty[c] => dirty'[c]
    BY <1>1 DEF CacheInv, TypeOK
  <2>2. \A i \in 1 .. Len(idequeue) : idequeue[i] \in Bufs
    BY DEF CacheInv, TypeOK
  <2> QED BY <1>1, <2>1, <2>2 DEF CacheInv, Requests
<1>8. Clean' /\ Written'
  <2>1. active # b
    BY <1>2, <1>3 DEF CacheInv, Requests, TypeOK
  <2> QED BY <1>1, <2>1 DEF CacheInv, Clean, Written, TypeOK
<1> QED BY <1>4, <1>5, <1>6, <1>7, <1>8 DEF CacheInv

\* A change that goes to the disk.
LEMMA KeepsBWrite ==
  ASSUME CacheInv, NEW p \in Procs, NEW b \in held[p], NEW v \in Values,
         BWrite(p, b, v)
  PROVE  CacheInv'
<1> USE CacheAssumption DEF Busy, Waiting, Coming
<1>1. /\ pc[p] = "use"
      /\ data' = [data EXCEPT ![b] = v] /\ dirty' = [dirty EXCEPT ![b] = TRUE]
      /\ idequeue' = Append(idequeue, b)
      /\ cur' = [cur EXCEPT ![p] = b] /\ pc' = [pc EXCEPT ![p] = "iosleep"]
      /\ UNCHANGED <<order, blockno, refcnt, valid, holder, held>>
  BY DEF BWrite, Goto, cache
<1>2. b \in Bufs /\ valid[b] /\ blockno[b] \in Blocks /\ holder[b] = p
  BY InUse DEF CacheInv, TypeOK, Places, Uses, NoPanic
<1>3. \A i \in 1 .. Len(idequeue) : idequeue[i] # b
  BY <1>1, <1>2, NotQueued
<1>4. dirty'[b] /\ data'[b] = v
  BY <1>1, <1>2 DEF CacheInv, TypeOK
<1>5. /\ active' = IF idequeue = <<>> THEN b ELSE active
      /\ disk' = IF idequeue = <<>> THEN [disk EXCEPT ![blockno[b]] = v] ELSE disk
  BY <1>4 DEF BWrite, Start
<1>6. Requests'
  <2>1. \A c \in Bufs : c # b => dirty'[c] = dirty[c]
    BY <1>1 DEF CacheInv, TypeOK
  <2>2. cur'[p] = b /\ \A q \in Procs : q # p => cur'[q] = cur[q]
    BY <1>1 DEF CacheInv, TypeOK
  <2> QED BY <1>1, <1>2, <1>3, <1>4, <1>5, <2>1, <2>2, Enqueues
<1>7. Counted'
  <2>1. \A c \in Bufs : Uses(c)' = Uses(c)
    BY <1>1 DEF Uses, CacheInv, TypeOK
  <2> QED BY <1>1, <2>1, SameUses
<1>8. TypeOK'
  <2>1. idequeue' \in Seq(Bufs) /\ active' \in Bufs \cup {None}
    BY <1>1, <1>2, <1>5 DEF CacheInv, TypeOK
  <2>2. disk' \in [Blocks -> Values]
    BY <1>2, <1>5 DEF CacheInv, TypeOK
  <2> QED BY <1>1, <1>2, <2>1, <2>2 DEF CacheInv, TypeOK, Listed
<1>9. OneBuffer' /\ NoPanic' /\ Places' /\ Named'
  BY <1>1, <1>2 DEF CacheInv, TypeOK, OneBuffer, NoPanic, Places, Named
<1>10. Clean'
  <2>1. ASSUME NEW c \in Bufs, valid[c], ~dirty'[c], blockno[c] \in Blocks \ Faulty
        PROVE  data'[c] = disk'[blockno[c]]
    <3>1. c # b /\ data'[c] = data[c] /\ ~dirty[c]
      BY <1>1, <1>4, <2>1 DEF CacheInv, TypeOK
    <3>2. blockno[c] # blockno[b]
      BY <1>2, <3>1 DEF CacheInv, OneBuffer
    <3>3. disk'[blockno[c]] = disk[blockno[c]]
      BY <1>5, <3>2, <2>1 DEF CacheInv, TypeOK
    <3> QED BY <2>1, <3>1, <3>3 DEF CacheInv, Clean
  <2> QED BY <1>1, <2>1 DEF Clean
<1>11. Written'
  <2>1. CASE idequeue = <<>>
    BY <1>1, <1>2, <1>4, <1>5, <2>1 DEF Written, CacheInv, TypeOK
  <2>2. CASE idequeue # <<>>
    <3>1. active # b /\ active \in Bufs
      BY <1>2, <1>3, <2>2 DEF CacheInv, Requests, TypeOK
    <3> QED BY <1>1, <1>5, <2>2, <3>1 DEF Written, CacheInv, TypeOK
  <2> QED BY <2>1, <2>2
<1> QED BY <1>6, <1>7, <1>8, <1>9, <1>10, <1>11 DEF CacheInv

\* An interrupt: the head of the queue is done, and the next one starts.
LEMMA KeepsServe ==
  ASSUME CacheInv, active # None, NEW b, b = Head(idequeue), Serve(b),
         UNCHANGED <<cache, holder, cur, held>>,
         data' \in [Bufs -> Values], \A c \in Bufs : c # b => data'[c] = data[c],
         dirty[b] => data'[b] = data[b],
         ~dirty[b] /\ blockno[b] \notin Faulty => data'[b] = disk[blockno[b]]
  PROVE  CacheInv'
<1> USE CacheAssumption DEF Busy, Waiting, Coming
<1> DEFINE a == idequeue'[1]
<1>1. /\ idequeue \in Seq(Bufs) /\ idequeue # <<>> /\ Len(idequeue) \in Nat \ {0}
      /\ b = idequeue[1] /\ b = active /\ b \in Bufs
  BY DEF CacheInv, TypeOK, Requests
<1>2. /\ idequeue' \in Seq(Bufs) /\ Len(idequeue') = Len(idequeue) - 1
      /\ idequeue' # <<>> => Len(idequeue') >= 1 /\ a \in Bufs
      /\ \A i \in 1 .. Len(idequeue') : /\ idequeue'[i] = idequeue[i + 1]
                                        /\ i + 1 \in 1 .. Len(idequeue)
                                        /\ idequeue'[i] \in Bufs
  BY <1>1 DEF Serve
<1>3. \A i \in 1 .. Len(idequeue') : idequeue'[i] # b
  BY <1>1, <1>2 DEF CacheInv, Requests
<1>4. /\ valid' = [valid EXCEPT ![b] = TRUE] /\ dirty' = [dirty EXCEPT ![b] = FALSE]
      /\ pc' = Wake(pc, "iosleep", b, "iodone")
      /\ UNCHANGED <<order, blockno, refcnt, holder, cur, held>>
  BY DEF Serve, cache
<1>5. /\ active' = IF idequeue' = <<>> THEN None ELSE a
      /\ disk' = IF idequeue' # <<>> /\ dirty'[a]
                 THEN [disk EXCEPT ![blockno[a]] = data'[a]] ELSE disk
  BY <1>2, <1>4 DEF Serve, Start
<1>6. /\ pc' \in [Procs -> {"idle", "lock", "asleep", "locked", "iosleep",
                            "iodone", "use", "done", "drop"}]
      /\ \A q \in Procs : /\ pc'[q] \in Waiting <=> pc[q] \in Waiting
                          /\ pc'[q] \notin Waiting => pc'[q] = pc[q]
  BY <1>4 DEF Wake, CacheInv, TypeOK
<1>7. blockno[b] \in Blocks
  <2>1. PICK q \in Procs : pc[q] \in Waiting /\ cur[q] = b
    BY <1>1 DEF CacheInv, Requests
  <2> QED BY <1>1, <2>1, InUse DEF Uses
<1>8. idequeue' # <<>> /\ dirty'[a] => a # b /\ dirty[a] /\ blockno[a] \in Blocks
  BY <1>1, <1>2, <1>3, <1>4 DEF CacheInv, TypeOK, Named
<1>9. TypeOK'
  <2>1. active' \in Bufs \cup {None}
    BY <1>2, <1>5
  <2>2. disk' \in [Blocks -> Values]
    BY <1>2, <1>5, <1>8 DEF CacheInv, TypeOK
  <2> QED BY <1>2, <1>4, <1>6, <2>1, <2>2 DEF CacheInv, TypeOK, Listed
<1>10. Counted'
  <2>1. \A c \in Bufs : Uses(c)' = Uses(c)
    BY <1>4, <1>6 DEF Uses
  <2> QED BY <1>4, <2>1, SameUses
<1>11. OneBuffer' /\ Named'
  BY <1>1, <1>4 DEF CacheInv, TypeOK, OneBuffer, Named
<1>12. NoPanic' /\ Places'
  <2>1. ASSUME NEW q \in Procs
        PROVE  pc'[q] = pc[q] \/ (pc[q] = "iosleep" /\ pc'[q] = "iodone")
    BY <1>4 DEF Wake
  <2>2. \A q \in Procs : \A c \in held[q] : holder[c] = q /\ valid'[c]
    BY <1>4 DEF CacheInv, TypeOK, NoPanic, Places
  <2>3. holder' = holder /\ cur' = cur /\ held' = held
    BY <1>4
  <2>4. ASSUME NEW q \in Procs, pc'[q] \in {"locked", "iosleep", "iodone"}
        PROVE  holder[cur[q]] = q
    <3>1. pc[q] \in {"locked", "iosleep", "iodone"}
      BY <2>1, <2>4
    <3> QED BY <3>1 DEF CacheInv, NoPanic
  <2>5. NoPanic'
    BY <2>2, <2>3, <2>4 DEF NoPanic
  <2>6. ASSUME NEW q \in Procs
        PROVE  /\ pc'[q] \in Busy => cur[q] \in Bufs
               /\ pc'[q] \in Coming => cur[q] \notin held[q]
    BY <2>1 DEF CacheInv, Places
  <2>7. Places'
    BY <2>2, <2>3, <2>6 DEF Places
  <2> QED BY <2>5, <2>7
<1>13. Requests'
  <2>1. ASSUME NEW i \in 1 .. Len(idequeue'), NEW j \in 1 .. Len(idequeue'), idequeue'[i] = idequeue'[j]
        PROVE  i = j
    <3>1. i + 1 = j + 1
      BY <1>2, <2>1 DEF CacheInv, Requests
    <3> QED BY <1>1, <1>2, <3>1
  <2>2. ASSUME NEW i \in 1 .. Len(idequeue')
        PROVE  /\ \E q \in Procs : pc'[q] \in Waiting /\ cur'[q] = idequeue'[i]
               /\ valid'[idequeue'[i]] => dirty'[idequeue'[i]]
    <3>1. PICK q \in Procs : pc[q] \in Waiting /\ cur[q] = idequeue[i + 1]
      BY <1>2 DEF CacheInv, Requests
    <3>2. valid[idequeue[i + 1]] => dirty[idequeue[i + 1]]
      BY <1>2 DEF CacheInv, Requests
    <3>3. idequeue[i + 1] # b /\ idequeue[i + 1] \in Bufs
      BY <1>2, <1>3
    <3>4. valid'[idequeue[i + 1]] => dirty'[idequeue[i + 1]]
      BY <1>4, <3>2, <3>3 DEF CacheInv, TypeOK
    <3> QED BY <1>2, <1>4, <1>6, <3>1, <3>4
  <2> QED BY <1>5, <2>1, <2>2 DEF Requests
<1>14. Clean'
  <2>1. ASSUME NEW c \in Bufs, valid'[c], ~dirty'[c], blockno[c] \in Blocks \ Faulty
        PROVE  data'[c] = disk'[blockno[c]]
    <3>1. data'[c] = disk[blockno[c]]
      <4>1. CASE c = b
        BY <1>1, <2>1, <4>1 DEF CacheInv, Written
      <4>2. CASE c # b
        <5>1. valid[c] /\ ~dirty[c]
          BY <1>1, <1>4, <2>1, <4>2 DEF CacheInv, TypeOK
        <5> QED BY <2>1, <4>2, <5>1 DEF CacheInv, Clean
      <4> QED BY <4>1, <4>2
    <3>2. disk'[blockno[c]] = disk[blockno[c]]
      <4>1. CASE idequeue' # <<>> /\ dirty'[a]
        <5>1. a \in Bufs /\ c # a
          BY <1>2, <2>1, <4>1
        <5>2. blockno[c] # blockno[a]
          BY <2>1, <5>1 DEF CacheInv, OneBuffer
        <5> QED BY <1>5, <2>1, <5>2 DEF CacheInv, TypeOK
      <4>2. CASE ~(idequeue' # <<>> /\ dirty'[a])
        BY <1>5, <4>2
      <4> QED BY <4>1, <4>2
    <3> QED BY <3>1, <3>2
  <2> QED BY <1>4, <2>1 DEF Clean
<1>15. Written'
  <2> SUFFICES ASSUME active' # None, dirty'[active']
               PROVE  data'[active'] = disk'[blockno'[active']]
    BY DEF Written
  <2>1. idequeue' # <<>> /\ active' = a
    BY <1>5
  <2>2. blockno[a] \in Blocks /\ disk' = [disk EXCEPT ![blockno[a]] = data'[a]]
    BY <1>5, <1>8, <2>1
  <2> QED BY <1>4, <2>1, <2>2 DEF CacheInv, TypeOK
<1> QED BY <1>9, <1>10, <1>11, <1>12, <1>13, <1>14, <1>15 DEF CacheInv

LEMMA KeepsIdeintr ==
  ASSUME CacheInv, Ideintr \/ IdeintrFailed
  PROVE  CacheInv'
<1> USE CacheAssumption
<1> DEFINE b == Head(idequeue)
<1>1. active # None /\ UNCHANGED <<cache, holder, cur, held>>
  BY DEF Ideintr, IdeintrFailed
<1>2. b \in Bufs /\ blockno[b] \in Blocks
  <2>1. b = idequeue[1] /\ 1 \in 1 .. Len(idequeue) /\ b \in Bufs
    BY <1>1 DEF CacheInv, Requests, TypeOK
  <2>2. PICK q \in Procs : pc[q] \in Waiting /\ cur[q] = b
    BY <2>1 DEF CacheInv, Requests
  <2> QED BY <2>1, <2>2, InUse DEF Uses, Busy
<1>3. CASE Ideintr
  <2>1. Serve(b) /\ data' = [data EXCEPT ![b] = IF dirty[b] THEN @ ELSE disk[blockno[b]]]
    BY <1>3 DEF Ideintr
  <2>2. /\ data' \in [Bufs -> Values] /\ \A c \in Bufs : c # b => data'[c] = data[c]
        /\ dirty[b] => data'[b] = data[b]
        /\ ~dirty[b] => data'[b] = disk[blockno[b]]
    BY <1>2, <2>1 DEF CacheInv, TypeOK
  <2> QED BY <1>1, <2>1, <2>2, KeepsServe
<1>4. CASE IdeintrFailed
  <2>1. Serve(b) /\ ~dirty[b] /\ blockno[b] \in Faulty /\ UNCHANGED data
    BY <1>4 DEF IdeintrFailed
  <2>2. data' \in [Bufs -> Values]
    BY <2>1 DEF CacheInv, TypeOK
  <2> QED BY <1>1, <2>1, <2>2, KeepsServe
<1> QED BY <1>3, <1>4

\* releasesleep: who slept for the lock tries again.
LEMMA KeepsReleaseSleep ==
  ASSUME CacheInv, NEW p \in Procs, NEW b \in held[p], ReleaseSleep(p, b)
  PROVE  CacheInv'
<1> USE CacheAssumption DEF Busy, Waiting, Coming
<1>1. /\ pc[p] \in {"use", "done"}
      /\ holder' = [holder EXCEPT ![b] = None]
      /\ held' = [held EXCEPT ![p] = @ \ {b}]
      /\ cur' = [cur EXCEPT ![p] = b]
      /\ UNCHANGED <<order, blockno, refcnt, valid, dirty, data, idequeue, active, disk>>
  BY DEF ReleaseSleep, cache, flags, ide
<1>2. b \in Bufs /\ holder[b] = p
  BY DEF CacheInv, TypeOK, NoPanic
<1>3. /\ pc' \in [Procs -> {"idle", "lock", "asleep", "locked", "iosleep",
                            "iodone", "use", "done", "drop"}]
      /\ pc'[p] = "drop"
      /\ \A q \in Procs : q # p => \/ pc'[q] = pc[q]
                                   \/ pc[q] = "asleep" /\ pc'[q] = "lock"
  BY DEF ReleaseSleep, Wake, CacheInv, TypeOK
<1>4. /\ cur'[p] = b /\ held'[p] = held[p] \ {b}
      /\ \A q \in Procs : q # p => cur'[q] = cur[q] /\ held'[q] = held[q]
  BY <1>1 DEF CacheInv, TypeOK
<1>5. TypeOK'
  BY <1>1, <1>2, <1>3 DEF CacheInv, TypeOK, Listed
<1>6. Counted'
  <2>1. \A c \in Bufs, q \in Procs : q \in Uses(c)' <=> q \in Uses(c)
    BY <1>1, <1>3, <1>4 DEF Uses
  <2>2. \A c \in Bufs : Uses(c)' = Uses(c)
    BY <2>1 DEF Uses
  <2> QED BY <1>1, <2>2, SameUses
<1>7. OneBuffer' /\ Named' /\ Clean' /\ Written'
  BY <1>1 DEF CacheInv, OneBuffer, Named, Clean, Written
<1>8. NoPanic'
  <2>1. ASSUME NEW q \in Procs, NEW c \in held'[q]
        PROVE  holder'[c] = q
    <3>1. c \in held[q] /\ c \in Bufs
      BY <1>4 DEF CacheInv, TypeOK
    <3>2. holder[c] = q
      BY <3>1 DEF CacheInv, NoPanic
    <3>3. c # b
      BY <1>2, <1>4, <3>2
    <3> QED BY <1>1, <3>1, <3>2, <3>3 DEF CacheInv, TypeOK
  <2>2. ASSUME NEW q \in Procs, pc'[q] \in {"locked", "iosleep", "iodone"}
        PROVE  holder'[cur'[q]] = q
    <3>1. q # p /\ pc[q] = pc'[q] /\ cur'[q] = cur[q]
      BY <1>3, <1>4, <2>2
    <3>2. cur[q] \in Bufs /\ holder[cur[q]] = q
      BY <2>2, <3>1 DEF CacheInv, NoPanic, Places
    <3> QED BY <1>1, <1>2, <3>1, <3>2 DEF CacheInv, TypeOK
  <2> QED BY <2>1, <2>2 DEF NoPanic
<1>9. Places'
  <2>1. ASSUME NEW q \in Procs
        PROVE  /\ pc'[q] \in Busy => cur'[q] \in Bufs
               /\ pc'[q] \in Coming => cur'[q] \notin held'[q]
               /\ \A c \in held'[q] : valid[c]
    BY <1>2, <1>3, <1>4 DEF CacheInv, Places
  <2> QED BY <1>1, <2>1 DEF Places
<1>10. Requests'
  <2>1. ASSUME NEW q \in Procs, pc[q] \in Waiting
        PROVE  pc'[q] \in Waiting /\ cur'[q] = cur[q]
    BY <1>1, <1>3, <1>4, <2>1
  <2> QED BY <1>1, <2>1 DEF CacheInv, Requests
<1> QED BY <1>5, <1>6, <1>7, <1>8, <1>9, <1>10 DEF CacheInv

\* The list has all buffers after one of them went to the front.
LEMMA ToFrontLists ==
  ASSUME CacheInv, NEW b \in Bufs
  PROVE  /\ ToFront(b) \in [1 .. NBUF -> Bufs]
         /\ \A c \in Bufs : \E i \in 1 .. NBUF : ToFront(b)[i] = c
<1> USE CacheAssumption
<1> DEFINE at == CHOOSE i \in DOMAIN order : order[i] = b
<1>1. order \in [1 .. NBUF -> Bufs] /\ DOMAIN order = 1 .. NBUF
  BY DEF CacheInv, TypeOK
<1>2. at \in 1 .. NBUF /\ order[at] = b
  BY <1>1 DEF CacheInv, TypeOK, Listed
<1>3. ToFront(b) = [i \in 1 .. NBUF |-> IF i = 1 THEN b
                                       ELSE IF i <= at THEN order[i - 1] ELSE order[i]]
  BY <1>1 DEF ToFront
<1> HIDE DEF at
<1>4. ToFront(b) \in [1 .. NBUF -> Bufs]
  BY <1>1, <1>2, <1>3
<1>5. ASSUME NEW c \in Bufs PROVE \E i \in 1 .. NBUF : ToFront(b)[i] = c
  <2>1. PICK i \in 1 .. NBUF : order[i] = c
    BY DEF CacheInv, TypeOK, Listed
  <2>2. CASE c = b
    <3>1. 1 \in 1 .. NBUF /\ ToFront(b)[1] = c
      BY <1>2, <1>3, <2>2
    <3> QED BY <3>1
  <2>3. CASE c # b /\ i < at
    <3>1. i + 1 \in 1 .. NBUF /\ ToFront(b)[i + 1] = c
      BY <1>2, <1>3, <2>1, <2>3
    <3> QED BY <3>1
  <2>4. CASE c # b /\ i > at
    <3>1. ToFront(b)[i] = c
      BY <1>2, <1>3, <2>1, <2>4
    <3> QED BY <3>1
  <2> QED BY <1>2, <2>1, <2>2, <2>3, <2>4
<1> QED BY <1>4, <1>5

\* brelse gives the reference back.
LEMMA KeepsDrop ==
  ASSUME CacheInv, NEW p \in Procs, Drop(p)
  PROVE  CacheInv'
<1> USE CacheAssumption DEF Busy, Waiting, Coming
<1>2. PICK b \in Bufs : b = cur[p] /\ b \notin held[p]
  BY DEF CacheInv, Places, Drop
<1>1. /\ pc[p] = "drop"
      /\ refcnt' = [refcnt EXCEPT ![b] = @ - 1]
      /\ order' = IF refcnt'[b] = 0 THEN ToFront(b) ELSE order
      /\ \E w \in {"idle", "done"} : pc' = [pc EXCEPT ![p] = w]
      /\ UNCHANGED <<blockno, valid, dirty, data, holder, idequeue, active, disk, cur, held>>
  BY <1>2 DEF Drop, Goto, flags, ide
<1>3. /\ pc' \in [Procs -> {"idle", "lock", "asleep", "locked", "iosleep",
                            "iodone", "use", "done", "drop"}]
      /\ pc'[p] \in {"idle", "done"} /\ \A q \in Procs : q # p => pc'[q] = pc[q]
  BY <1>1 DEF CacheInv, TypeOK
<1>4. /\ IsFiniteSet(Uses(b)) /\ refcnt[b] = Cardinality(Uses(b)) /\ refcnt[b] \in Nat
      /\ p \in Uses(b) /\ refcnt[b] # 0
  BY <1>1, <1>2, InUse DEF CacheInv, Counted, TypeOK, Uses
<1>5. refcnt'[b] = refcnt[b] - 1 /\ \A c \in Bufs : c # b => refcnt'[c] = refcnt[c]
  BY <1>1, <1>2 DEF CacheInv, TypeOK
<1>6. Counted'
  <2>1. \A c \in Bufs, q \in Procs : q \in Uses(c)' <=> q \in Uses(c) /\ (q # p \/ c # b)
    BY <1>1, <1>2, <1>3 DEF Uses
  <2>2. Uses(b)' = Uses(b) \ {p}
    BY <1>2, <2>1 DEF Uses
  <2>3. \A c \in Bufs : c # b => Uses(c)' = Uses(c)
    BY <2>1 DEF Uses
  <2>4. IsFiniteSet(Uses(b) \ {p}) /\ Cardinality(Uses(b) \ {p}) = refcnt[b] - 1
    BY <1>4, FS_RemoveElement
  <2> QED BY <1>5, <2>2, <2>3, <2>4 DEF CacheInv, Counted
<1>7. TypeOK'
  <2>1. order' \in [1 .. NBUF -> Bufs] /\ Listed'
    <3>1. CASE refcnt'[b] = 0
      BY <1>1, <3>1, ToFrontLists DEF Listed
    <3>2. CASE refcnt'[b] # 0
      BY <1>1, <3>2 DEF CacheInv, TypeOK, Listed
    <3> QED BY <3>1, <3>2
  <2>2. refcnt' \in [Bufs -> Nat]
    BY <1>1, <1>4 DEF CacheInv, TypeOK
  <2> QED BY <1>1, <1>3, <2>1, <2>2 DEF CacheInv, TypeOK
<1>8. OneBuffer' /\ Clean' /\ Written'
  BY <1>1 DEF CacheInv, OneBuffer, Clean, Written
<1>9. Named'
  BY <1>1, <1>4, <1>5 DEF CacheInv, Named
<1>10. NoPanic' /\ Places'
  BY <1>1, <1>3 DEF CacheInv, NoPanic, Places
<1>11. Requests'
  BY <1>1, <1>3 DEF CacheInv, Requests
<1> QED BY <1>6, <1>7, <1>8, <1>9, <1>10, <1>11 DEF CacheInv

-----------------------------------------------------------------------------
(* The invariant and what it contains.                                     *)

LEMMA CacheStep == CacheInv /\ [Next]_vars => CacheInv'
<1> SUFFICES ASSUME CacheInv, [Next]_vars PROVE CacheInv'
  OBVIOUS
<1>1. CASE Ideintr \/ IdeintrFailed
  BY <1>1, KeepsIdeintr
<1>2. ASSUME NEW p \in Procs, Step(p) PROVE CacheInv'
  <2>1. CASE SleepOnLock(p) \/ IderwAgain(p)
    BY <2>1, Moves
  <2>2. CASE AcquireSleep(p)
    BY <2>2, KeepsAcquireSleep
  <2>3. CASE ReadCached(p) \/ IderwDone(p)
    BY <2>3, KeepsReturn
  <2>4. CASE ReadDisk(p)
    BY <2>4, KeepsReadDisk
  <2>5. CASE Drop(p)
    BY <2>5, KeepsDrop
  <2>6. CASE \E b \in held[p] : ReleaseSleep(p, b)
    BY <2>6, KeepsReleaseSleep
  <2> QED BY <1>2, <2>1, <2>2, <2>3, <2>4, <2>5, <2>6 DEF Step
<1>3. ASSUME NEW p \in Procs, Call(p) PROVE CacheInv'
  <2>1. CASE \E n \in Blocks : BgetHit(p, n)
    BY <2>1, KeepsBgetHit
  <2>2. CASE \E n \in Blocks : BgetRecycle(p, n)
    BY <2>2, KeepsBgetRecycle
  <2>3. CASE \E b \in held[p], v \in Values : LogWrite(p, b, v)
    BY <2>3, KeepsLogWrite
  <2>4. CASE \E b \in held[p], v \in Values : BWrite(p, b, v)
    BY <2>4, KeepsBWrite
  <2> QED BY <1>3, <2>1, <2>2, <2>3, <2>4 DEF Call
<1>4. CASE \E p \in Procs : Kill(p)
  BY <1>4, Moves
<1>5. CASE UNCHANGED vars
  <2>1. \A b \in Bufs : Uses(b)' = Uses(b)
    BY <1>5 DEF vars, Uses
  <2>2. Counted'
    BY <1>5, <2>1, SameUses DEF vars, cache
  <2>3. TypeOK' /\ OneBuffer' /\ NoPanic'
    BY <1>5 DEF CacheInv, TypeOK, Listed, OneBuffer, NoPanic, vars, cache, flags, ide
  <2>4. Places' /\ Named' /\ Clean' /\ Written'
    BY <1>5 DEF CacheInv, Places, Named, Clean, Written, vars, cache, flags, ide
  <2>5. Requests'
    BY <1>5 DEF CacheInv, Requests, vars, cache, flags, ide
  <2> QED BY <2>2, <2>3, <2>4, <2>5 DEF CacheInv
<1> QED BY <1>1, <1>2, <1>3, <1>4, <1>5 DEF Next

\* The invariant holds in every behaviour of the cache (bio.c, ide.c).
THEOREM CacheInvariant == Spec => []CacheInv
BY CacheInit, CacheStep, PTL DEF Spec

\* The ranges of the variables, and the list of all buffers that brelse
\* relinks.
THEOREM CacheTypes == Spec => []TypeOK
<1>1. CacheInv => TypeOK
  BY DEF CacheInv
<1> QED BY <1>1, CacheInvariant, PTL

\* bget never gives a block a second buffer.
THEOREM BuffersDiffer == Spec => []OneBuffer
<1>1. CacheInv => OneBuffer
  BY DEF CacheInv
<1> QED BY <1>1, CacheInvariant, PTL

\* The checks of bwrite, brelse and iderw never fail.
THEOREM ChecksHold == Spec => []NoPanic
<1>1. CacheInv => NoPanic
  BY DEF CacheInv
<1> QED BY <1>1, CacheInvariant, PTL

-----------------------------------------------------------------------------
(* The refinement.                                                         *)

\* What the mapped variables are at a block, without their CHOOSE.
Read ==
  \A n \in Blocks :
    /\ \A b \in Bufs : blockno[b] = n /\ valid[b] => Contents[n] = data[b]
    /\ (\A b \in Bufs : ~(blockno[b] = n /\ valid[b])) => Contents[n] = disk[n]
Used ==
  \A n \in Blocks :
    /\ \A p \in Procs : \A b \in held[p] : blockno[b] = n => Users[n] = p
    /\ (\A p \in Procs : \A b \in held[p] : blockno[b] # n) => Users[n] = None
Mapped == Read /\ Used

LEMMA Mapping == CacheInv => Mapped
<1> SUFFICES ASSUME CacheInv, NEW n \in Blocks
             PROVE  /\ \A b \in Bufs : blockno[b] = n /\ valid[b] => Contents[n] = data[b]
                    /\ (\A b \in Bufs : ~(blockno[b] = n /\ valid[b])) => Contents[n] = disk[n]
                    /\ \A p \in Procs : \A b \in held[p] : blockno[b] = n => Users[n] = p
                    /\ (\A p \in Procs : \A b \in held[p] : blockno[b] # n) => Users[n] = None
  BY DEF Mapped, Read, Used
<1>1. \A b, c \in Bufs : blockno[b] = n /\ blockno[c] = n => b = c
  BY CacheAssumption DEF CacheInv, OneBuffer
<1>2. ASSUME NEW b \in Bufs, blockno[b] = n, valid[b] PROVE Contents[n] = data[b]
  <2>1. (CHOOSE c \in Bufs : blockno[c] = n /\ valid[c]) = b
    BY <1>1, <1>2
  <2> QED BY <1>2, <2>1 DEF Contents
<1>3. ASSUME \A b \in Bufs : ~(blockno[b] = n /\ valid[b]) PROVE Contents[n] = disk[n]
  BY <1>3 DEF Contents
<1>4. ASSUME NEW p \in Procs, NEW b \in held[p], blockno[b] = n PROVE Users[n] = p
  <2>1. ASSUME NEW q \in Procs, \E c \in held[q] : blockno[c] = n PROVE q = p
    <3>1. PICK c \in held[q] : blockno[c] = n
      BY <2>1
    <3>2. b \in Bufs /\ c \in Bufs
      BY DEF CacheInv, TypeOK
    <3> QED BY <1>1, <1>4, <3>1, <3>2 DEF CacheInv, NoPanic
  <2>2. (CHOOSE q \in Procs : \E c \in held[q] : blockno[c] = n) = p
    BY <1>4, <2>1
  <2> QED BY <1>4, <2>2 DEF Users
<1>5. ASSUME \A p \in Procs : \A b \in held[p] : blockno[b] # n PROVE Users[n] = None
  BY <1>5 DEF Users
<1> QED BY <1>2, <1>3, <1>4, <1>5

LEMMA MappingPrimed == CacheInv' => Mapped'
BY Mapping, PTL

\* The mapped variables are functions of the blocks.
LEMMA MappedFunctions ==
  /\ Contents = [n \in Blocks |-> Contents[n]] /\ Users = [n \in Blocks |-> Users[n]]
  /\ Contents' = [n \in Blocks |-> Contents'[n]] /\ Users' = [n \in Blocks |-> Users'[n]]
BY DEF Contents, Users

LEMMA SameContents ==
  ASSUME UNCHANGED <<blockno, valid, data, disk>>
  PROVE  UNCHANGED Contents
BY DEF Contents

LEMMA SameUsers ==
  ASSUME UNCHANGED <<blockno, held>>
  PROVE  UNCHANGED Users
BY DEF Users

LEMMA StoreInit == Init => Store!Init
BY CacheAssumption DEF Init, Store!Init, Contents, Users

\* bget changes nothing but, if the recycled block is faulty, its content.
LEMMA RecycleLoses ==
  ASSUME CacheInv, CacheInv', NEW p \in Procs, NEW n \in Blocks, BgetRecycle(p, n)
  PROVE  (\E m \in Faulty : Store!Lose(m)) \/ UNCHANGED <<Contents, Users>>
<1>0. \A b \in Oldest : b \in Bufs /\ refcnt[b] = 0 /\ ~dirty[b]
  BY DEF Oldest, Free, CacheInv, TypeOK
<1>1. PICK b \in Bufs :
        /\ refcnt[b] = 0 /\ ~dirty[b]
        /\ blockno' = [blockno EXCEPT ![b] = n]
        /\ valid' = [valid EXCEPT ![b] = FALSE]
  BY <1>0 DEF BgetRecycle
<1>2. /\ \A c \in Bufs : blockno[c] # n
      /\ UNCHANGED <<data, disk, held>>
  BY DEF BgetRecycle, ide
<1>3. \A q \in Procs : b \notin held[q]
  BY <1>1, InUse DEF Uses
<1>4. /\ blockno'[b] = n /\ ~valid'[b]
      /\ \A c \in Bufs : c # b => blockno'[c] = blockno[c] /\ valid'[c] = valid[c]
  BY <1>1 DEF CacheInv, TypeOK
<1>5. Mapped /\ Mapped'
  BY Mapping, MappingPrimed
<1>6. \A q \in Procs : held[q] \subseteq Bufs
  BY DEF CacheInv, TypeOK
<1>7. UNCHANGED Users
  <2>1. ASSUME NEW m \in Blocks PROVE Users'[m] = Users[m]
    <3>1. CASE \E q \in Procs : \E c \in held[q] : blockno[c] = m
      <4>1. PICK q \in Procs, c \in Bufs : c \in held[q] /\ blockno[c] = m
        BY <1>6, <3>1
      <4>2. c # b /\ blockno'[c] = m /\ c \in held'[q]
        BY <1>2, <1>3, <1>4, <1>6, <4>1
      <4> QED BY <1>5, <4>1, <4>2 DEF Mapped, Used
    <3>2. CASE \A q \in Procs : \A c \in held[q] : blockno[c] # m
      <4>1. \A q \in Procs : \A c \in held'[q] : blockno'[c] # m
        BY <1>2, <1>3, <1>4, <1>6, <3>2
      <4> QED BY <1>5, <3>2, <4>1 DEF Mapped, Used
    <3> QED BY <3>1, <3>2
  <2> QED BY <2>1, MappedFunctions
<1>8. ASSUME NEW m \in Blocks, m # blockno[b] PROVE Contents'[m] = Contents[m]
  <2>1. CASE \E c \in Bufs : blockno[c] = m /\ valid[c]
    <3>1. PICK c \in Bufs : blockno[c] = m /\ valid[c]
      BY <2>1
    <3>2. blockno'[c] = m /\ valid'[c] /\ data'[c] = data[c]
      BY <1>2, <1>4, <1>8, <3>1
    <3> QED BY <1>5, <3>1, <3>2 DEF Mapped, Read
  <2>2. CASE \A c \in Bufs : ~(blockno[c] = m /\ valid[c])
    <3>1. \A c \in Bufs : ~(blockno'[c] = m /\ valid'[c])
      BY <1>4, <2>2
    <3> QED BY <1>2, <1>5, <2>2, <3>1 DEF Mapped, Read
  <2> QED BY <2>1, <2>2
<1>9. CASE blockno[b] \notin Blocks
  BY <1>7, <1>8, <1>9, MappedFunctions
<1>10. CASE blockno[b] \in Blocks
  <2> DEFINE m == blockno[b]
  <2>1. \A c \in Bufs : blockno[c] = m => c = b
    BY <1>10, CacheAssumption DEF CacheInv, OneBuffer
  <2>2. Contents'[m] = disk[m]
    <3>1. \A c \in Bufs : ~(blockno'[c] = m /\ valid'[c])
      BY <1>4, <2>1
    <3> QED BY <1>2, <1>5, <1>10, <3>1 DEF Mapped, Read
  <2>3. CASE m \in Faulty
    <3>1. Users[m] = None
      BY <1>3, <1>5, <1>6, <1>10, <2>1 DEF Mapped, Used
    <3>2. Contents' = [Contents EXCEPT ![m] = disk[m]]
      BY <1>8, <1>10, <2>2, MappedFunctions
    <3>3. disk[m] \in Values
      BY <1>10 DEF CacheInv, TypeOK
    <3> QED BY <1>7, <2>3, <3>1, <3>2, <3>3 DEF Store!Lose
  <2>4. CASE m \notin Faulty
    <3>1. Contents[m] = disk[m]
      <4>1. CASE valid[b]
        BY <1>1, <1>5, <1>10, <2>4, <4>1 DEF Mapped, Read, CacheInv, Clean
      <4>2. CASE ~valid[b]
        BY <1>5, <1>10, <2>1, <4>2 DEF Mapped, Read
      <4> QED BY <4>1, <4>2
    <3>2. \A k \in Blocks : Contents'[k] = Contents[k]
      BY <1>8, <2>2, <3>1
    <3> QED BY <1>7, <3>2, MappedFunctions
  <2> QED BY <2>3, <2>4
<1> QED BY <1>9, <1>10

\* An interrupt changes nothing but the content of the block the disk failed
\* to read.
LEMMA ServeLoses ==
  ASSUME CacheInv, CacheInv', active # None, NEW b, b = Head(idequeue), Serve(b),
         UNCHANGED <<cache, held>>,
         \A c \in Bufs : c # b => data'[c] = data[c],
         \/ dirty[b] /\ data'[b] = data[b]
         \/ ~dirty[b] /\ data'[b] = disk[blockno[b]]
         \/ ~dirty[b] /\ data'[b] = data[b] /\ blockno[b] \in Faulty
  PROVE  (\E m \in Faulty : Store!Lose(m)) \/ UNCHANGED <<Contents, Users>>
<1> DEFINE a == idequeue'[1]
           n == blockno[b]
<1>1. /\ idequeue # <<>> /\ b = idequeue[1] /\ 1 \in 1 .. Len(idequeue) /\ b \in Bufs
      /\ idequeue \in Seq(Bufs)
  BY DEF CacheInv, TypeOK, Requests
<1>2. UNCHANGED <<blockno, held>>
  BY DEF cache
<1>3. /\ valid'[b] /\ ~dirty'[b]
      /\ \A c \in Bufs : c # b => valid'[c] = valid[c] /\ dirty'[c] = dirty[c]
  BY <1>1 DEF Serve, CacheInv, TypeOK
<1>4. /\ idequeue' # <<>> => a \in Bufs
      /\ disk' = IF idequeue' # <<>> /\ dirty'[a]
                 THEN [disk EXCEPT ![blockno[a]] = data'[a]] ELSE disk
  BY <1>1, <1>2 DEF Serve, Start
<1>5. n \in Blocks
  <2>1. PICK q \in Procs : pc[q] \in Waiting /\ cur[q] = b
    BY <1>1 DEF CacheInv, Requests
  <2> QED BY <1>1, <2>1, InUse DEF Uses, Busy
<1>6. dirty[b] <=> valid[b]
  BY <1>1 DEF CacheInv, Requests, Named
<1>7. \A c, d \in Bufs : blockno[c] = blockno[d] /\ blockno[c] \in Blocks => c = d
  BY CacheAssumption DEF CacheInv, OneBuffer
<1>8. UNCHANGED Users
  BY <1>2, SameUsers
<1>9. Mapped /\ Mapped'
  BY Mapping, MappingPrimed
<1>10. ASSUME NEW m \in Blocks, m # n PROVE Contents'[m] = Contents[m]
  <2>1. CASE \E c \in Bufs : blockno[c] = m /\ valid[c]
    <3>1. PICK c \in Bufs : blockno[c] = m /\ valid[c]
      BY <2>1
    <3>2. valid'[c] /\ data'[c] = data[c]
      BY <1>3, <1>10, <3>1
    <3> QED BY <1>2, <1>9, <3>1, <3>2 DEF Mapped, Read
  <2>2. CASE \A c \in Bufs : ~(blockno[c] = m /\ valid[c])
    <3>1. \A c \in Bufs : ~(blockno'[c] = m /\ valid'[c])
      BY <1>2, <1>3, <1>10, <2>2
    <3>2. disk'[m] = disk[m]
      <4>1. CASE idequeue' # <<>> /\ dirty'[a]
        <5>1. valid[a] /\ blockno[a] \in Blocks
          BY <1>3, <1>4, <4>1 DEF CacheInv, Named
        <5> QED BY <1>4, <2>2, <4>1, <5>1 DEF CacheInv, TypeOK
      <4> QED BY <1>4, <4>1
    <3> QED BY <1>9, <2>2, <3>1, <3>2 DEF Mapped, Read
  <2> QED BY <2>1, <2>2
<1>11. Contents'[n] = data'[b]
  BY <1>1, <1>2, <1>3, <1>5, <1>9 DEF Mapped, Read
<1>12. IF dirty[b] THEN Contents[n] = data[b] ELSE Contents[n] = disk[n]
  <2>1. CASE dirty[b]
    BY <1>1, <1>5, <1>6, <1>9, <2>1 DEF Mapped, Read
  <2>2. CASE ~dirty[b]
    <3>1. \A c \in Bufs : ~(blockno[c] = n /\ valid[c])
      BY <1>1, <1>5, <1>6, <1>7, <2>2
    <3> QED BY <1>5, <1>9, <2>2, <3>1 DEF Mapped, Read
  <2> QED BY <2>1, <2>2
<1>13. CASE ~dirty[b] /\ data'[b] = data[b] /\ n \in Faulty
  <2>1. Users[n] = None
    <3>1. ASSUME NEW q \in Procs, NEW c \in held[q] PROVE blockno[c] # n
      <4>1. valid[c] /\ c \in Bufs
        BY DEF CacheInv, Places, TypeOK
      <4> QED BY <1>1, <1>5, <1>6, <1>7, <1>13, <4>1
    <3> QED BY <1>5, <1>9, <3>1 DEF Mapped, Used
  <2>2. Contents' = [Contents EXCEPT ![n] = data[b]]
    BY <1>5, <1>10, <1>11, <1>13, MappedFunctions
  <2>3. data[b] \in Values
    BY <1>1 DEF CacheInv, TypeOK
  <2> QED BY <1>8, <1>13, <2>1, <2>2, <2>3 DEF Store!Lose
<1>14. CASE (dirty[b] /\ data'[b] = data[b]) \/ (~dirty[b] /\ data'[b] = disk[n])
  <2>1. \A m \in Blocks : Contents'[m] = Contents[m]
    BY <1>10, <1>11, <1>12, <1>14
  <2> QED BY <1>8, <2>1, MappedFunctions
<1> QED BY <1>13, <1>14

LEMMA IdeintrLoses ==
  ASSUME CacheInv, CacheInv', Ideintr \/ IdeintrFailed
  PROVE  (\E m \in Faulty : Store!Lose(m)) \/ UNCHANGED <<Contents, Users>>
<1> DEFINE b == Head(idequeue)
<1>1. active # None /\ UNCHANGED <<cache, held>>
  BY DEF Ideintr, IdeintrFailed
<1>2. b \in Bufs
  BY <1>1 DEF CacheInv, TypeOK, Requests
<1>3. CASE Ideintr
  <2>1. Serve(b) /\ data' = [data EXCEPT ![b] = IF dirty[b] THEN @ ELSE disk[blockno[b]]]
    BY <1>3 DEF Ideintr
  <2>2. /\ \A c \in Bufs : c # b => data'[c] = data[c]
        /\ IF dirty[b] THEN data'[b] = data[b] ELSE data'[b] = disk[blockno[b]]
    BY <1>2, <2>1 DEF CacheInv, TypeOK
  <2> QED BY <1>1, <2>1, <2>2, ServeLoses
<1>4. CASE IdeintrFailed
  BY <1>1, <1>4, ServeLoses DEF IdeintrFailed
<1> QED BY <1>3, <1>4

\* bread returns a buffer: a process has one user's right to the block.
LEMMA ReturnTakes ==
  ASSUME CacheInv, CacheInv', NEW p \in Procs, ReadCached(p) \/ IderwDone(p)
  PROVE  (\E n \in Blocks : Store!Take(p, n)) \/ UNCHANGED <<Contents, Users>>
<1> DEFINE n == blockno[cur[p]]
<1>1. /\ pc[p] \in {"locked", "iodone"}
      /\ held' = [held EXCEPT ![p] = @ \cup {cur[p]}]
      /\ UNCHANGED <<blockno, valid, data, disk>>
  BY DEF ReadCached, IderwDone, Return, cache, flags, ide
<1>2. PICK b \in Bufs : b = cur[p] /\ holder[b] = p
  BY <1>1 DEF CacheInv, Places, NoPanic, Busy, Waiting, Coming
<1>3. n \in Blocks
  BY <1>1, <1>2, InUse DEF Uses, Busy, Waiting, Coming
<1>4. UNCHANGED Contents
  BY <1>1, SameContents
<1>5. CASE b \in held[p]
  <2>1. held' = held
    BY <1>1, <1>2, <1>5 DEF CacheInv, TypeOK
  <2> QED BY <1>1, <1>4, <2>1, SameUsers
<1>6. CASE b \notin held[p]
  <2>1. Mapped /\ Mapped'
    BY Mapping, MappingPrimed
  <2>2. /\ b \in held'[p] /\ \A q \in Procs : q # p => held'[q] = held[q]
        /\ \A c : c \in held'[p] => c \in held[p] \/ c = b
        /\ held[p] \subseteq held'[p]
    BY <1>1, <1>2 DEF CacheInv, TypeOK
  <2>3. Users[n] = None
    <3>1. ASSUME NEW q \in Procs, NEW c \in held[q] PROVE blockno[c] # n
      <4>1. c \in Bufs /\ holder[c] = q
        BY DEF CacheInv, TypeOK, NoPanic
      <4>2. blockno[c] = n => c = b
        BY <1>2, <1>3, <4>1, CacheAssumption DEF CacheInv, OneBuffer
      <4> QED BY <1>2, <1>6, <4>1, <4>2
    <3> QED BY <1>3, <2>1, <3>1 DEF Mapped, Used
  <2>4. Users'[n] = p
    BY <1>1, <1>2, <1>3, <2>1, <2>2 DEF Mapped, Used
  <2>5. ASSUME NEW m \in Blocks, m # n PROVE Users'[m] = Users[m]
    <3>1. CASE \E q \in Procs : \E c \in held[q] : blockno[c] = m
      <4>1. PICK q \in Procs, c \in Bufs : c \in held[q] /\ blockno[c] = m
        BY <3>1 DEF CacheInv, TypeOK
      <4>2. c \in held'[q] /\ blockno'[c] = m
        BY <1>1, <2>2, <4>1
      <4> QED BY <2>1, <4>1, <4>2 DEF Mapped, Used
    <3>2. CASE \A q \in Procs : \A c \in held[q] : blockno[c] # m
      <4>1. \A q \in Procs : \A c \in held'[q] : blockno'[c] # m
        BY <1>1, <1>2, <2>2, <2>5, <3>2
      <4> QED BY <2>1, <3>2, <4>1 DEF Mapped, Used
    <3> QED BY <3>1, <3>2
  <2>6. Users' = [Users EXCEPT ![n] = p]
    BY <1>3, <2>4, <2>5, MappedFunctions
  <2> QED BY <1>3, <1>4, <2>3, <2>6 DEF Store!Take
<1> QED BY <1>5, <1>6

\* releasesleep takes it away again.
LEMMA ReleaseGives ==
  ASSUME CacheInv, CacheInv', NEW p \in Procs, NEW b \in held[p], ReleaseSleep(p, b)
  PROVE  \E n \in Blocks : Store!Give(p, n)
<1> DEFINE n == blockno[b]
<1>1. /\ held' = [held EXCEPT ![p] = @ \ {b}]
      /\ UNCHANGED <<blockno, valid, data, disk>>
  BY DEF ReleaseSleep, cache, flags, ide
<1>2. b \in Bufs /\ n \in Blocks /\ holder[b] = p
  BY InUse DEF CacheInv, TypeOK, NoPanic, Uses
<1>3. Mapped /\ Mapped'
  BY Mapping, MappingPrimed
<1>4. \A q \in Procs : held'[q] = IF q = p THEN held[p] \ {b} ELSE held[q]
  BY <1>1 DEF CacheInv, TypeOK
<1>5. \A q \in Procs : \A c \in held[q] :
        /\ c \in Bufs /\ holder[c] = q
        /\ blockno[c] = n => c = b
  BY <1>2, CacheAssumption DEF CacheInv, TypeOK, NoPanic, OneBuffer
<1>6. Users[n] = p
  BY <1>2, <1>3 DEF Mapped, Used
<1>7. Users'[n] = None
  <2>1. \A q \in Procs : \A c \in held'[q] : blockno'[c] # n
    BY <1>1, <1>2, <1>4, <1>5
  <2> QED BY <1>2, <1>3, <2>1 DEF Mapped, Used
<1>8. ASSUME NEW m \in Blocks, m # n PROVE Users'[m] = Users[m]
  <2>1. CASE \E q \in Procs : \E c \in held[q] : blockno[c] = m
    <3>1. PICK q \in Procs, c \in Bufs : c \in held[q] /\ blockno[c] = m
      BY <1>5, <2>1
    <3>2. c \in held'[q] /\ blockno'[c] = m
      BY <1>1, <1>4, <1>8, <3>1
    <3> QED BY <1>3, <3>1, <3>2 DEF Mapped, Used
  <2>2. CASE \A q \in Procs : \A c \in held[q] : blockno[c] # m
    <3>1. \A q \in Procs : \A c \in held'[q] : blockno'[c] # m
      BY <1>1, <1>4, <2>2
    <3> QED BY <1>3, <2>2, <3>1 DEF Mapped, Used
  <2> QED BY <2>1, <2>2
<1>9. Users' = [Users EXCEPT ![n] = None]
  BY <1>2, <1>7, <1>8, MappedFunctions
<1>10. UNCHANGED Contents
  BY <1>1, SameContents
<1> QED BY <1>2, <1>6, <1>9, <1>10 DEF Store!Give

\* A caller's change is one of the block, whether it waits for the log or
\* goes to the disk.
LEMMA CallsChange ==
  ASSUME CacheInv, CacheInv', NEW p \in Procs, NEW b \in held[p], NEW v \in Values,
         LogWrite(p, b, v) \/ BWrite(p, b, v)
  PROVE  \E n \in Blocks : Store!Change(p, n, v)
<1> DEFINE n == blockno[b]
<1>1. /\ data' = [data EXCEPT ![b] = v] /\ dirty' = [dirty EXCEPT ![b] = TRUE]
      /\ UNCHANGED <<blockno, valid, held>>
  BY DEF LogWrite, BWrite, cache
<1>2. b \in Bufs /\ n \in Blocks /\ valid[b]
  BY InUse DEF CacheInv, TypeOK, Places, Uses
<1>3. dirty'[b] /\ data'[b] = v /\ \A c \in Bufs : c # b => data'[c] = data[c]
  BY <1>1, <1>2 DEF CacheInv, TypeOK
<1>4. Mapped /\ Mapped'
  BY Mapping, MappingPrimed
<1>5. \A m \in Blocks : m # n => disk'[m] = disk[m]
  BY <1>2, <1>3 DEF LogWrite, BWrite, Start, ide, CacheInv, TypeOK
<1>6. Users[n] = p
  BY <1>2, <1>4 DEF Mapped, Used
<1>7. Contents'[n] = v
  BY <1>1, <1>2, <1>3, <1>4 DEF Mapped, Read
<1>8. ASSUME NEW m \in Blocks, m # n PROVE Contents'[m] = Contents[m]
  <2>1. CASE \E c \in Bufs : blockno[c] = m /\ valid[c]
    <3>1. PICK c \in Bufs : blockno[c] = m /\ valid[c]
      BY <2>1
    <3>2. data'[c] = data[c]
      BY <1>3, <1>8, <3>1
    <3> QED BY <1>1, <1>4, <3>1, <3>2 DEF Mapped, Read
  <2>2. CASE \A c \in Bufs : ~(blockno[c] = m /\ valid[c])
    BY <1>1, <1>4, <1>5, <1>8, <2>2 DEF Mapped, Read
  <2> QED BY <2>1, <2>2
<1>9. Contents' = [Contents EXCEPT ![n] = v]
  BY <1>2, <1>7, <1>8, MappedFunctions
<1>10. UNCHANGED Users
  BY <1>1, SameUsers
<1> QED BY <1>2, <1>6, <1>9, <1>10 DEF Store!Change

\* The other steps are not seen.
LEMMA Unseen ==
  ASSUME CacheInv, NEW p \in Procs,
         \/ SleepOnLock(p) \/ IderwAgain(p) \/ Kill(p) \/ AcquireSleep(p)
         \/ ReadDisk(p) \/ Drop(p) \/ \E n \in Blocks : BgetHit(p, n)
  PROVE  UNCHANGED <<Contents, Users>>
<1>1. UNCHANGED <<blockno, valid, data, held>>
  BY DEF SleepOnLock, IderwAgain, Kill, AcquireSleep, ReadDisk, Drop, BgetHit, cache, flags
<1>2. UNCHANGED disk
  <2>1. CASE ReadDisk(p)
    <3>1. PICK b \in Bufs : b = cur[p]
      BY <2>1 DEF ReadDisk, CacheInv, Places, Busy, Coming
    <3>2. ~dirty'[b]
      BY <2>1, <3>1 DEF ReadDisk, CacheInv, Named, flags
    <3> QED BY <2>1, <3>1, <3>2 DEF ReadDisk, Enqueue, Start
  <2>2. CASE ~ReadDisk(p)
    BY <2>2 DEF SleepOnLock, IderwAgain, Kill, AcquireSleep, Drop, BgetHit, ide
  <2> QED BY <2>1, <2>2
<1> QED BY <1>1, <1>2, SameContents, SameUsers

LEMMA StoreStep ==
  CacheInv /\ CacheInv' /\ [Next]_vars => [Store!Next]_Store!vars
<1> SUFFICES ASSUME CacheInv, CacheInv', [Next]_vars
             PROVE  Store!Next \/ UNCHANGED <<Contents, Users>>
  BY DEF Store!vars
<1>1. CASE Ideintr \/ IdeintrFailed
  BY <1>1, IdeintrLoses DEF Store!Next
<1>2. ASSUME NEW p \in Procs, Step(p)
      PROVE  Store!Next \/ UNCHANGED <<Contents, Users>>
  <2>1. CASE ReadCached(p) \/ IderwDone(p)
    BY <2>1, ReturnTakes DEF Store!Next
  <2>2. CASE \E b \in held[p] : ReleaseSleep(p, b)
    BY <2>2, ReleaseGives DEF Store!Next
  <2>3. CASE SleepOnLock(p) \/ AcquireSleep(p) \/ ReadDisk(p) \/ IderwAgain(p) \/ Drop(p)
    BY <2>3, Unseen
  <2> QED BY <1>2, <2>1, <2>2, <2>3 DEF Step
<1>3. ASSUME NEW p \in Procs, Call(p)
      PROVE  Store!Next \/ UNCHANGED <<Contents, Users>>
  <2>1. CASE \E n \in Blocks : BgetHit(p, n)
    BY <2>1, Unseen
  <2>2. CASE \E n \in Blocks : BgetRecycle(p, n)
    BY <2>2, RecycleLoses DEF Store!Next
  <2>3. CASE \E b \in held[p], v \in Values : LogWrite(p, b, v) \/ BWrite(p, b, v)
    BY <2>3, CallsChange DEF Store!Next
  <2> QED BY <1>3, <2>1, <2>2, <2>3 DEF Call
<1>4. CASE \E p \in Procs : Kill(p)
  BY <1>4, Unseen
<1>5. CASE UNCHANGED vars
  <2>1. UNCHANGED <<blockno, valid, data, disk, held>>
    BY <1>5 DEF vars, cache, flags, ide
  <2> QED BY <2>1, SameContents, SameUsers
<1> QED BY <1>1, <1>2, <1>3, <1>4, <1>5 DEF Next

\* bio.c is a store of blocks that one process at a time uses and changes.
THEOREM Correct == Spec => Coherent
BY StoreInit, StoreStep, CacheInvariant, PTL DEF Spec, Coherent, Store!Spec
=============================================================================
