------------------------------- MODULE LogProofs -------------------------------
(***************************************************************************)
(* The log makes groups of file system calls atomic (LogCorrect), for any  *)
(* number of processes, blocks and log blocks; and on the way it never     *)
(* overflows and wakes who waits for room.                                 *)
(*                                                                         *)
(* The inductive invariant says what each phase of a commit and of a       *)
(* recovery has made of the disk (Booting, Quiet, Progress, Cached), who   *)
(* may be in one (Alone), and why the log has room: each slot taken under  *)
(* a reservation is a change of a call that has not ended (Room).          *)
(***************************************************************************)
EXTENDS Log, FiniteSetTheorems, FunctionTheorems, TLAPS

Once(s) == \A i, j \in 1 .. Len(s) : s[i] = s[j] => i = j
Lists ==
  /\ lh \in Seq(Blocks) /\ header \in Seq(Blocks)
  /\ Once(lh) /\ Once(header)

\* The changes of the calls under way.
Changes == {x \in Procs \X Blocks : x[2] \in own[x[1]]}
Owned ==
  \A p \in Procs :
    /\ own[p] # {} => pc[p] = "op"
    /\ own[p] \subseteq Entries(lh)
    /\ IsFiniteSet(own[p]) /\ Cardinality(own[p]) <= OpBlocks
Room ==
  /\ IsFiniteSet(Ops) /\ IsFiniteSet(Changes)
  /\ Len(lh) + outstanding * OpBlocks <= LOGSIZE - 2 + Cardinality(Changes)
  /\ Len(header) <= LOGSIZE - 2

Committing(p) == pc[p] \in {"log", "install", "finish"}
Alone ==
  IF committing
  THEN Up /\ \E p \in Procs : Committing(p) /\ \A q \in Procs \ {p} : pc[q] \in {"idle", "asleep"}
  ELSE \A p \in Procs : ~Committing(p)

Booting ==
  /\ ~Up => /\ buf = disk /\ ~committing
            /\ \A p \in Procs : pc[p] = "idle"
  /\ boot = "read" => lh = <<>> /\ tail = 1
  /\ boot = "install" =>
       /\ header = lh
       /\ \A i \in 1 .. Len(lh) : i < tail => disk[lh[i]] = slots[i]
Quiet ==
  Up /\ ~committing => header = <<>> /\ (outstanding = 0 => lh = <<>>)
Cached == \A b \in Blocks : b \notin Entries(lh) => buf[b] = disk[b]
Progress ==
  \A p \in Procs :
    /\ pc[p] = "log" =>
         /\ header = <<>>
         /\ \A i \in 1 .. Len(lh) : i < tail => slots[i] = buf[lh[i]]
    /\ pc[p] = "install" =>
         /\ header = lh
         /\ \A i \in 1 .. Len(lh) : /\ slots[i] = buf[lh[i]]
                                    /\ i < tail => disk[lh[i]] = buf[lh[i]]
    /\ pc[p] = "finish" => header = <<>> /\ lh = <<>>

LogInv ==
  /\ TypeOK /\ SleepersWoken
  /\ Lists /\ Owned /\ Room /\ Alone /\ Booting /\ Quiet /\ Cached /\ Progress

-----------------------------------------------------------------------------
(* Lists, and the room in the log.                                         *)

LEMMA EntryAt ==
  ASSUME NEW s \in Seq(Blocks)
  PROVE  \A b : b \in Entries(s) <=> \E i \in 1 .. Len(s) : s[i] = b
BY DEF Entries

LEMMA Longer ==
  ASSUME NEW s \in Seq(Blocks), NEW b \in Blocks, Once(s), b \notin Entries(s)
  PROVE  /\ Append(s, b) \in Seq(Blocks) /\ Once(Append(s, b))
         /\ Len(Append(s, b)) = Len(s) + 1
         /\ \A i \in 1 .. Len(s) : Append(s, b)[i] = s[i]
         /\ Entries(Append(s, b)) = Entries(s) \cup {b}
<1> DEFINE t == Append(s, b)
<1>1. /\ t \in Seq(Blocks) /\ Len(t) = Len(s) + 1 /\ Len(s) \in Nat
      /\ t[Len(s) + 1] = b /\ \A i \in 1 .. Len(s) : t[i] = s[i]
  OBVIOUS
<1> HIDE DEF t
<1>2. \A i \in 1 .. Len(s) : s[i] # b
  BY EntryAt
<1>3. Once(t)
  <2> SUFFICES ASSUME NEW i \in 1 .. Len(t), NEW j \in 1 .. Len(t), t[i] = t[j]
               PROVE  i = j
    BY DEF Once
  <2>1. CASE i \in 1 .. Len(s) /\ j \in 1 .. Len(s)
    BY <1>1, <2>1 DEF Once
  <2> QED BY <1>1, <1>2, <2>1
<1>4. ASSUME NEW c PROVE c \in Entries(t) <=> c \in Entries(s) \cup {b}
  <2>1. c \in Entries(t) <=> \E i \in 1 .. Len(t) : t[i] = c
    BY <1>1, EntryAt
  <2>2. c \in Entries(s) <=> \E i \in 1 .. Len(s) : s[i] = c
    BY EntryAt
  <2>3. (\E i \in 1 .. Len(t) : t[i] = c) <=> (\E i \in 1 .. Len(s) : s[i] = c) \/ c = b
    BY <1>1
  <2> QED BY <2>1, <2>2, <2>3
<1> QED BY <1>1, <1>3, <1>4 DEF t

\* What a call reserves beyond what it may use.
LEMMA Reserve ==
  ASSUME NEW n \in Nat, NEW k \in Nat, NEW m \in Nat, k < m
  PROVE  n * k + n <= n * m
<1>1. n * (k + 1) <= n * m
  BY SMT
<1> QED BY <1>1, SMT

\* The sums of Room when a call ends (u and w are its products).
LEMMA GiveBack ==
  ASSUME NEW len \in Nat, NEW u \in Nat, NEW w \in Int, NEW k \in Nat, NEW size \in Nat,
         NEW c \in Nat, NEW d \in Nat,
         w = u - k, len + u <= size - 2 + c, d >= c - k
  PROVE  len + w <= size - 2 + d
OBVIOUS

\* And when a block is logged.
LEMMA TakeSlot ==
  ASSUME NEW len \in Nat, NEW u \in Nat, NEW size \in Nat, NEW c \in Nat, NEW m, NEW d,
         len + u <= size - 2 + c,
         \/ m = len /\ d \in {c, c + 1}
         \/ m = len + 1 /\ d = c + 1
  PROVE  m + u <= size - 2 + d
OBVIOUS

\* The calls under way have made no more changes than they may.
LEMMA ChangesBound ==
  ASSUME LogInv
  PROVE  /\ Cardinality(Changes) \in Nat /\ outstanding \in Nat
         /\ Cardinality(Changes) <= outstanding * OpBlocks
<1> USE LogAssumption
<1>1. IsFiniteSet(Ops) /\ IsFiniteSet(Changes) /\ outstanding = Cardinality(Ops)
  BY DEF LogInv, Room, TypeOK
<1>2. Cardinality(Changes) \in Nat /\ outstanding \in Nat
  BY <1>1, FS_CardinalityType
<1>3. OpBlocks \in Nat
  OBVIOUS
<1>4. ASSUME NEW p \in Procs PROVE Injection(own[p], 1 .. OpBlocks) # {}
  <2>1. IsFiniteSet(own[p]) /\ Cardinality(own[p]) <= OpBlocks
    BY DEF LogInv, Owned
  <2>2. Cardinality(own[p]) \in Nat /\ ExistsBijection(own[p], 1 .. Cardinality(own[p]))
    BY <2>1, FS_CardinalityType, Fun_ExistsBijSymmetric
  <2>3. PICK f \in Bijection(own[p], 1 .. Cardinality(own[p])) : TRUE
    BY <2>2, Fun_ExistsBij
  <2>4. f \in [own[p] -> 1 .. OpBlocks] /\ \A a, b \in own[p] : f[a] = f[b] => a = b
    BY <1>3, <2>1, <2>2, <2>3, Fun_BijectionProperties
  <2>5. f \in Injection(own[p], 1 .. OpBlocks)
    BY <2>4, Fun_IsInj
  <2> QED BY <2>5
<1> DEFINE g == [p \in Procs |-> CHOOSE f : f \in Injection(own[p], 1 .. OpBlocks)]
           F == [x \in Changes |-> <<x[1], g[x[1]][x[2]]>>]
<1>5. ASSUME NEW p \in Procs
      PROVE  g[p] \in [own[p] -> 1 .. OpBlocks] /\ \A a, b \in own[p] : g[p][a] = g[p][b] => a = b
  <2>1. g[p] \in Injection(own[p], 1 .. OpBlocks)
    BY <1>4
  <2> QED BY <2>1, Fun_InjectionProperties
<1> HIDE DEF g
<1>6. \A x \in Changes : x = <<x[1], x[2]>> /\ x[1] \in Ops /\ x[1] \in Procs /\ x[2] \in own[x[1]]
  BY DEF Changes, Ops, LogInv, Owned
<1>7. F \in [Changes -> Ops \X (1 .. OpBlocks)]
  BY <1>5, <1>6
<1>8. \A x, y \in Changes : F[x] = F[y] => x = y
  BY <1>5, <1>6
<1>9. F \in Injection(Changes, Ops \X (1 .. OpBlocks))
  BY <1>7, <1>8, Fun_IsInj
<1>10. IsFiniteSet(1 .. OpBlocks) /\ Cardinality(1 .. OpBlocks) = OpBlocks
  BY <1>3, FS_Interval
<1>11. /\ IsFiniteSet(Ops \X (1 .. OpBlocks))
       /\ Cardinality(Ops \X (1 .. OpBlocks)) = outstanding * OpBlocks
  BY <1>1, <1>10, FS_Product
<1>12. Cardinality(Changes) <= Cardinality(Ops \X (1 .. OpBlocks))
  BY <1>9, <1>11, FS_Injection
<1> QED BY <1>2, <1>11, <1>12

\* A call that ends takes no more than its own changes away.
LEMMA EndsWith ==
  ASSUME LogInv, NEW p \in Procs, own' = [own EXCEPT ![p] = {}]
  PROVE  IsFiniteSet(Changes') /\ Cardinality(Changes') >= Cardinality(Changes) - OpBlocks
<1> USE LogAssumption
<1> DEFINE T == {p} \X own[p]
<1>1. own[p] \subseteq Blocks /\ own'[p] = {} /\ \A q \in Procs : q # p => own'[q] = own[q]
  BY DEF LogInv, TypeOK
<1>2. Changes' = Changes \ T
  BY <1>1 DEF Changes
<1>3. IsFiniteSet(Changes) /\ IsFiniteSet(own[p]) /\ Cardinality(own[p]) <= OpBlocks
  BY DEF LogInv, Room, Owned
<1>4. IsFiniteSet(T) /\ Cardinality(T) = 1 * Cardinality(own[p])
  <2>1. IsFiniteSet({p}) /\ Cardinality({p}) = 1
    BY FS_Singleton
  <2> QED BY <1>3, <2>1, FS_Product
<1>5. Cardinality(Changes \cap T) <= Cardinality(T)
  BY <1>4, FS_Intersection
<1>6. /\ IsFiniteSet(Changes \ T)
      /\ Cardinality(Changes \ T) = Cardinality(Changes) - Cardinality(Changes \cap T)
  BY <1>3, FS_Difference
<1>7. /\ Cardinality(Changes) \in Nat /\ Cardinality(Changes \cap T) \in Nat
      /\ Cardinality(own[p]) \in Nat
  BY <1>3, <1>4, FS_CardinalityType, FS_Intersection
<1> HIDE DEF T
<1> QED BY <1>2, <1>3, <1>4, <1>5, <1>6, <1>7

\* While a process commits no call is under way.
LEMMA Committer ==
  ASSUME LogInv, NEW p \in Procs, Committing(p)
  PROVE  /\ committing /\ Up /\ Ops = {} /\ outstanding = 0 /\ Changes = {}
         /\ \A q \in Procs \ {p} : pc[q] \in {"idle", "asleep"}
         /\ \A q \in Procs : own[q] = {}
         /\ Len(lh) <= LOGSIZE - 2
<1>1. committing /\ Up /\ \A q \in Procs \ {p} : pc[q] \in {"idle", "asleep"}
  BY DEF LogInv, Alone, Committing
<1>2. Ops = {}
  BY <1>1 DEF Ops, Committing
<1>3. \A q \in Procs : own[q] = {}
  BY <1>1 DEF LogInv, Owned, Committing
<1>4. Changes = {}
  BY <1>3 DEF Changes
<1>5. outstanding = 0 /\ Cardinality(Changes) = 0
  BY <1>2, <1>4, FS_EmptySet DEF LogInv, TypeOK
<1>6. Len(lh) <= LOGSIZE - 2
  <2>1. Len(lh) \in Nat
    BY DEF LogInv, Lists
  <2> QED BY <1>5, <2>1, LogAssumption DEF LogInv, Room
<1> QED BY <1>1, <1>2, <1>3, <1>4, <1>5, <1>6

LEMMA LogInit == Init => LogInv
<1> SUFFICES ASSUME Init PROVE LogInv
  OBVIOUS
<1> USE LogAssumption DEF Init
<1>1. Ops = {} /\ Changes = {}
  BY DEF Ops, Changes
<1>2. /\ IsFiniteSet(Ops) /\ Cardinality(Ops) = 0
      /\ IsFiniteSet(Changes) /\ Cardinality(Changes) = 0
  BY <1>1, FS_EmptySet
<1>3. lh = <<>> /\ header = <<>> /\ Len(lh) = 0 /\ Entries(lh) = {} /\ Entries(header) = {}
  BY DEF Entries
<1>4. TypeOK /\ SleepersWoken
  <2>1. Capacity \in Nat /\ Len(lh) <= Capacity /\ Len(header) <= Capacity /\ 1 \in 1 .. Capacity + 1
    BY <1>3 DEF Capacity
  <2>2. /\ disk \in [Blocks -> Values] /\ slots \in [1 .. Capacity -> Values]
        /\ buf \in [Blocks -> Values] /\ own \in [Procs -> SUBSET Blocks]
        /\ pc \in [Procs -> {"idle", "asleep", "op", "log", "install", "finish"}]
    OBVIOUS
  <2>3. TypeOK
    BY <1>2, <1>3, <2>1, <2>2 DEF TypeOK
  <2> QED BY <2>3 DEF SleepersWoken
<1>5. Lists /\ Owned
  <2>1. \A p \in Procs : own[p] = {}
    OBVIOUS
  <2> QED BY <1>3, <2>1, FS_EmptySet DEF Lists, Owned, Once
<1>6. Room
  BY <1>2, <1>3 DEF Room
<1>7. Alone /\ Booting /\ Quiet /\ Cached /\ Progress
  BY <1>3 DEF Alone, Booting, Quiet, Cached, Progress, Committing, Up
<1> QED BY <1>4, <1>5, <1>6, <1>7 DEF LogInv

-----------------------------------------------------------------------------
(* begin_op, log_write and end_op.                                         *)

\* The phases that only read the disk and the lists.
LEMMA SameLists ==
  ASSUME LogInv, UNCHANGED <<disk, header, buf, lh>>
  PROVE  Lists' /\ Cached'
BY DEF LogInv, Lists, Once, Cached, Entries

LEMMA KeepsBegin ==
  ASSUME LogInv, NEW p \in Procs, Begin(p)
  PROVE  LogInv'
<1> USE LogAssumption
<1>1. /\ Up /\ pc[p] = "idle"
      /\ UNCHANGED <<ondisk, buf, lh, committing, own, tail, boot>>
      /\ UNCHANGED <<disk, slots, header>>
  BY DEF Begin, ondisk
<1>2. Lists' /\ Cached'
  BY <1>1, SameLists
<1>3. own[p] = {}
  BY <1>1 DEF LogInv, Owned
<1>4. CASE committing \/ ~Fits
  <2>1. pc' = [pc EXCEPT ![p] = "asleep"] /\ UNCHANGED outstanding
    BY <1>4 DEF Begin
  <2>2. \A q \in Procs : pc'[q] = pc[q] \/ (q = p /\ pc'[q] = "asleep")
    BY <2>1 DEF LogInv, TypeOK
  <2>3. Ops' = Ops
    BY <1>1, <2>2 DEF Ops
  <2>4. Owned'
    BY <1>1, <1>3, <2>2 DEF LogInv, Owned, Entries
  <2>5. Room'
    BY <1>1, <2>1, <2>3 DEF LogInv, Room, Changes
  <2>6. TypeOK'
    BY <1>1, <2>1, <2>3 DEF LogInv, TypeOK, Entries
  <2>7. SleepersWoken'
    <3>1. committing \/ outstanding > 0
      <4>1. ASSUME ~committing, outstanding = 0 PROVE FALSE
        <5>1. lh = <<>>
          BY <1>1, <4>1 DEF LogInv, Quiet
        <5> QED BY <1>4, <4>1, <5>1 DEF Fits
      <4>2. outstanding \in Nat
        BY ChangesBound
      <4> QED BY <4>1, <4>2
    <3> QED BY <1>1, <2>1, <3>1 DEF SleepersWoken
  <2>8. Alone' /\ Booting' /\ Quiet' /\ Progress'
    BY <1>1, <2>1, <2>2 DEF LogInv, Alone, Committing, Booting, Quiet, Progress, Up
  <2> QED BY <1>2, <2>4, <2>5, <2>6, <2>7, <2>8 DEF LogInv
<1>5. CASE ~committing /\ Fits
  <2>1. pc' = [pc EXCEPT ![p] = "op"] /\ outstanding' = outstanding + 1
    BY <1>5 DEF Begin
  <2>2. \A q \in Procs : pc'[q] = pc[q] \/ (q = p /\ pc'[q] = "op")
    BY <2>1 DEF LogInv, TypeOK
  <2>3. Ops' = Ops \cup {p} /\ p \notin Ops
    BY <1>1, <2>1 DEF Ops, LogInv, TypeOK
  <2>4. IsFiniteSet(Ops') /\ Cardinality(Ops') = Cardinality(Ops) + 1
    BY <2>3, FS_AddElement DEF LogInv, Room
  <2>5. Owned'
    BY <1>1, <1>3, <2>2 DEF LogInv, Owned, Entries
  <2>6. Room'
    <3>1. /\ Cardinality(Changes) \in Nat /\ outstanding \in Nat
          /\ Len(lh) \in Nat /\ OpBlocks \in Nat
      BY ChangesBound DEF LogInv, Lists
    <3>2. Len(lh) + (outstanding + 1) * OpBlocks <= LOGSIZE - 2
      <4>1. CASE outstanding = 0
        <5>1. lh = <<>>
          BY <1>1, <1>5, <4>1 DEF LogInv, Quiet
        <5> QED BY <3>1, <4>1, <5>1
      <4>2. CASE outstanding # 0
        <5>1. (outstanding + 1) * OpBlocks + (outstanding + 1) <= (outstanding + 1) * MAXOPBLOCKS
          <6>1. OpBlocks < MAXOPBLOCKS /\ MAXOPBLOCKS \in Nat /\ outstanding + 1 \in Nat
            BY <3>1
          <6> QED BY <3>1, <6>1, Reserve
        <5>2. Len(lh) + (outstanding + 1) * MAXOPBLOCKS <= LOGSIZE
          BY <1>5 DEF Fits
        <5>3. (outstanding + 1) * OpBlocks \in Nat /\ (outstanding + 1) * MAXOPBLOCKS \in Nat
          BY <3>1
        <5> QED BY <3>1, <4>2, <5>1, <5>2, <5>3
      <4> QED BY <4>1, <4>2
    <3>3. Changes' = Changes
      BY <1>1 DEF Changes
    <3>4. (outstanding + 1) * OpBlocks \in Nat
      BY <3>1
    <3>5. Len(lh) + (outstanding + 1) * OpBlocks <= LOGSIZE - 2 + Cardinality(Changes)
      BY <3>1, <3>2, <3>4
    <3> QED BY <1>1, <2>1, <2>4, <3>3, <3>5 DEF LogInv, Room
  <2>7. TypeOK' /\ SleepersWoken'
    <3>1. outstanding' = Cardinality(Ops')
      BY <2>1, <2>4 DEF LogInv, TypeOK
    <3>2. outstanding' > 0
      BY <2>1, ChangesBound
    <3>3. TypeOK'
      BY <1>1, <2>1, <3>1 DEF LogInv, TypeOK, Entries
    <3> QED BY <3>2, <3>3 DEF SleepersWoken
  <2>8. Alone' /\ Booting' /\ Progress'
    BY <1>1, <1>5, <2>1, <2>2 DEF LogInv, Alone, Committing, Booting, Progress, Up
  <2>9. Quiet'
    <3>1. outstanding' # 0
      BY <2>1, ChangesBound
    <3> QED BY <1>1, <3>1 DEF LogInv, Quiet, Up
  <2> QED BY <1>2, <2>5, <2>6, <2>7, <2>8, <2>9 DEF LogInv
<1> QED BY <1>4, <1>5

LEMMA KeepsLogWrite ==
  ASSUME LogInv, NEW p \in Procs, NEW b \in Blocks, NEW v \in Values, LogWrite(p, b, v)
  PROVE  LogInv'
<1> USE LogAssumption
<1>1. /\ pc[p] = "op" /\ Len(lh) < Capacity
      /\ Cardinality(own[p] \cup {b}) <= OpBlocks
      /\ buf' = [buf EXCEPT ![b] = v]
      /\ lh' = IF b \in Entries(lh) THEN lh ELSE Append(lh, b)
      /\ own' = [own EXCEPT ![p] = @ \cup {b}]
      /\ UNCHANGED <<ondisk, outstanding, committing, pc, tail, boot>>
      /\ UNCHANGED <<disk, slots, header>>
  BY DEF LogWrite, ondisk
<1>2. Up /\ ~committing /\ header = <<>> /\ \A q \in Procs : ~Committing(q)
  BY <1>1 DEF LogInv, Alone, Booting, Committing, Quiet, Up
<1>3. /\ lh' \in Seq(Blocks) /\ Once(lh') /\ Entries(lh') = Entries(lh) \cup {b}
      /\ Len(lh) \in Nat
      /\ Len(lh') = IF b \in Entries(lh) THEN Len(lh) ELSE Len(lh) + 1
  <2>1. CASE b \in Entries(lh)
    BY <1>1, <2>1 DEF LogInv, Lists, Once
  <2>2. CASE b \notin Entries(lh)
    <3>1. lh \in Seq(Blocks) /\ Once(lh)
      BY DEF LogInv, Lists
    <3> QED BY <1>1, <2>2, <3>1, Longer
  <2> QED BY <2>1, <2>2
<1>4. Lists'
  <2>1. header' \in Seq(Blocks) /\ Once(header)'
    BY <1>1 DEF LogInv, Lists, Once
  <2>2. Once(lh)'
    BY <1>3 DEF Once
  <2> QED BY <1>3, <2>1, <2>2 DEF Lists
<1>5. own'[p] = own[p] \cup {b} /\ \A q \in Procs : q # p => own'[q] = own[q]
  BY <1>1 DEF LogInv, TypeOK
<1>6. Owned'
  <2>1. IsFiniteSet(own'[p])
    BY <1>5, FS_AddElement DEF LogInv, Owned
  <2>2. Entries(lh)' = Entries(lh) \cup {b}
    BY <1>3 DEF Entries
  <2>3. ASSUME NEW q \in Procs
        PROVE  /\ own'[q] # {} => pc'[q] = "op"
               /\ own'[q] \subseteq Entries(lh)'
               /\ IsFiniteSet(own'[q]) /\ Cardinality(own'[q]) <= OpBlocks
    <3>1. CASE q = p
      BY <1>1, <1>5, <2>1, <2>2, <3>1 DEF LogInv, Owned
    <3>2. CASE q # p
      BY <1>1, <1>5, <2>2, <3>2 DEF LogInv, Owned
    <3> QED BY <3>1, <3>2
  <2> QED BY <2>3 DEF Owned
<1>7. Ops' = Ops
  BY <1>1 DEF Ops
<1>8. Room'
  <2>1. Changes' = Changes \cup {<<p, b>>}
    BY <1>5 DEF Changes
  <2>2. IsFiniteSet(Changes) /\ Cardinality(Changes) \in Nat /\ outstanding \in Nat
    BY ChangesBound DEF LogInv, Room
  <2>3. /\ IsFiniteSet(Changes')
        /\ Cardinality(Changes') =
             IF <<p, b>> \in Changes THEN Cardinality(Changes) ELSE Cardinality(Changes) + 1
    BY <2>1, <2>2, FS_AddElement
  <2>4. b \notin Entries(lh) => <<p, b>> \notin Changes
    BY DEF Changes, LogInv, Owned
  <2>5. outstanding * OpBlocks \in Nat
    BY <2>2
  <2>6. Len(lh) + outstanding * OpBlocks <= LOGSIZE - 2 + Cardinality(Changes)
    BY DEF LogInv, Room
  <2>7. Len(lh') + outstanding * OpBlocks <= LOGSIZE - 2 + Cardinality(Changes')
    <3>1. \/ Len(lh') = Len(lh) /\ Cardinality(Changes') \in {Cardinality(Changes), Cardinality(Changes) + 1}
          \/ Len(lh') = Len(lh) + 1 /\ Cardinality(Changes') = Cardinality(Changes) + 1
      BY <1>3, <2>3, <2>4
    <3>2. LOGSIZE \in Nat
      OBVIOUS
    <3> QED BY <1>3, <2>2, <2>5, <2>6, <3>1, <3>2, TakeSlot
  <2> QED BY <1>1, <1>7, <2>3, <2>7 DEF LogInv, Room
<1>9. TypeOK' /\ SleepersWoken'
  <2>1. Len(lh') <= Capacity /\ Entries(lh)' \subseteq Blocks
    BY <1>1, <1>3 DEF LogInv, TypeOK, Capacity, Entries
  <2>2. own' \in [Procs -> SUBSET Blocks] /\ buf' \in [Blocks -> Values]
    BY <1>1 DEF LogInv, TypeOK
  <2>3. Len(header') <= Capacity /\ Entries(header)' \subseteq Blocks
    BY <1>1 DEF LogInv, TypeOK, Entries
  <2> QED BY <1>1, <1>7, <2>1, <2>2, <2>3 DEF LogInv, TypeOK, SleepersWoken
<1>10. Cached'
  <2>1. ASSUME NEW c \in Blocks, c \notin Entries(lh) \cup {b} PROVE buf'[c] = disk[c]
    BY <1>1, <2>1 DEF LogInv, Cached, TypeOK
  <2>2. Entries(lh)' = Entries(lh) \cup {b}
    BY <1>3 DEF Entries
  <2> QED BY <1>1, <2>1, <2>2 DEF Cached
<1>11. Alone' /\ Booting' /\ Progress'
  BY <1>1, <1>2 DEF LogInv, Alone, Booting, Progress, Committing, Up
<1>12. Quiet'
  <2>1. outstanding # 0
    <3>1. p \in Ops
      BY <1>1 DEF Ops
    <3> QED BY <3>1, FS_EmptySet DEF LogInv, TypeOK, Room
  <2> QED BY <1>1, <1>2, <2>1 DEF Quiet
<1> QED BY <1>4, <1>6, <1>8, <1>9, <1>10, <1>11, <1>12 DEF LogInv

\* The call of p ends, and its reservation is given back.
LEMMA Ended ==
  ASSUME LogInv, NEW p \in Procs, pc[p] = "op",
         outstanding' = outstanding - 1, UNCHANGED <<ondisk, buf, lh>>,
         own' = [own EXCEPT ![p] = {}],
         \A q \in Procs : pc'[q] = "op" <=> pc[q] = "op" /\ q # p
  PROVE  Owned' /\ Room' /\ outstanding' = Cardinality(Ops)'
<1> USE LogAssumption
<1>1. own'[p] = {} /\ \A q \in Procs : q # p => own'[q] = own[q]
  BY DEF LogInv, TypeOK
<1>2. Ops' = Ops \ {p} /\ p \in Ops
  BY DEF Ops
<1>3. IsFiniteSet(Ops') /\ Cardinality(Ops') = Cardinality(Ops) - 1
  BY <1>2, FS_RemoveElement DEF LogInv, Room
<1>4. outstanding = Cardinality(Ops)
  BY DEF LogInv, TypeOK
<1>5. Owned'
  <2>1. ASSUME NEW q \in Procs
        PROVE  /\ own'[q] # {} => pc'[q] = "op"
               /\ own'[q] \subseteq Entries(lh)
               /\ IsFiniteSet(own'[q]) /\ Cardinality(own'[q]) <= OpBlocks
    <3>1. CASE q = p
      BY <1>1, <3>1, FS_EmptySet
    <3>2. CASE q # p
      BY <1>1, <3>2 DEF LogInv, Owned
    <3> QED BY <3>1, <3>2
  <2>2. Entries(lh)' = Entries(lh)
    BY DEF Entries
  <2> QED BY <2>1, <2>2 DEF Owned
<1>6. IsFiniteSet(Changes') /\ Cardinality(Changes') >= Cardinality(Changes) - OpBlocks
  BY EndsWith
<1>7. /\ Cardinality(Changes) \in Nat /\ outstanding \in Nat /\ OpBlocks \in Nat
      /\ Len(lh) \in Nat /\ Cardinality(Changes') \in Nat
  BY <1>6, ChangesBound, FS_CardinalityType DEF LogInv, Lists
<1>8. (outstanding - 1) * OpBlocks = outstanding * OpBlocks - OpBlocks
  BY <1>7, SMT
<1>9. outstanding * OpBlocks \in Nat
  BY <1>7
<1>10. Len(lh) + outstanding * OpBlocks <= LOGSIZE - 2 + Cardinality(Changes)
  BY DEF LogInv, Room
<1>11. Len(lh) + (outstanding - 1) * OpBlocks <= LOGSIZE - 2 + Cardinality(Changes')
  <2>1. LOGSIZE \in Nat /\ (outstanding - 1) * OpBlocks \in Int
    BY <1>7
  <2> QED BY <1>6, <1>7, <1>8, <1>9, <1>10, <2>1, GiveBack
<1>12. Room'
  BY <1>3, <1>6, <1>11 DEF LogInv, Room, ondisk
<1> QED BY <1>3, <1>4, <1>5, <1>12

LEMMA KeepsEndOther ==
  ASSUME LogInv, NEW p \in Procs, EndOther(p)
  PROVE  LogInv'
<1> USE LogAssumption
<1>1. /\ pc[p] = "op" /\ outstanding > 1 /\ ~committing
      /\ outstanding' = outstanding - 1
      /\ own' = [own EXCEPT ![p] = {}]
      /\ UNCHANGED <<ondisk, buf, lh, committing, tail, boot>>
      /\ UNCHANGED <<disk, slots, header>>
  BY DEF EndOther, ondisk
<1>2. /\ pc' \in [Procs -> {"idle", "asleep", "op", "log", "install", "finish"}]
      /\ pc'[p] = "idle"
      /\ \A q \in Procs : q # p => \/ pc'[q] = pc[q] /\ pc[q] # "asleep"
                                   \/ pc'[q] = "idle" /\ pc[q] = "asleep"
  BY DEF EndOther, WakeAll, LogInv, TypeOK
<1>3. Lists' /\ Cached'
  BY <1>1, SameLists
<1>4. Owned' /\ Room' /\ outstanding' = Cardinality(Ops)'
  <2>1. \A q \in Procs : pc'[q] = "op" <=> pc[q] = "op" /\ q # p
    BY <1>2
  <2> QED BY <1>1, <2>1, Ended
<1>5. TypeOK' /\ SleepersWoken'
  <2>1. own' \in [Procs -> SUBSET Blocks]
    BY <1>1 DEF LogInv, TypeOK
  <2>2. TypeOK'
    BY <1>1, <1>2, <1>4, <2>1 DEF LogInv, TypeOK, Entries
  <2>3. SleepersWoken'
    BY <1>2 DEF SleepersWoken
  <2> QED BY <2>2, <2>3
<1>6. Up /\ \A q \in Procs : ~Committing(q)
  BY <1>1 DEF LogInv, Alone, Booting
<1>7. Alone' /\ Booting' /\ Progress'
  BY <1>1, <1>2, <1>6 DEF LogInv, Alone, Booting, Progress, Committing, Up
<1>8. Quiet'
  <2>1. outstanding' # 0
    BY <1>1, ChangesBound
  <2> QED BY <1>1, <2>1 DEF LogInv, Quiet, Up
<1> QED BY <1>3, <1>4, <1>5, <1>7, <1>8 DEF LogInv

LEMMA KeepsEndLast ==
  ASSUME LogInv, NEW p \in Procs, EndLast(p)
  PROVE  LogInv'
<1> USE LogAssumption
<1>1. /\ pc[p] = "op" /\ outstanding = 1 /\ ~committing
      /\ outstanding' = 0 /\ committing'
      /\ own' = [own EXCEPT ![p] = {}]
      /\ tail' = 1
      /\ UNCHANGED <<ondisk, buf, lh, boot>>
      /\ UNCHANGED <<disk, slots, header>>
      /\ pc' = [pc EXCEPT ![p] = IF lh = <<>> THEN "finish" ELSE "log"]
  BY DEF EndLast, ondisk
<1>2. /\ pc' \in [Procs -> {"idle", "asleep", "op", "log", "install", "finish"}]
      /\ pc'[p] = IF lh = <<>> THEN "finish" ELSE "log"
      /\ \A q \in Procs : q # p => pc'[q] = pc[q]
  BY <1>1 DEF LogInv, TypeOK
<1>3. Lists' /\ Cached'
  BY <1>1, SameLists
<1>4. Owned' /\ Room' /\ outstanding' = Cardinality(Ops)'
  <2>1. \A q \in Procs : pc'[q] = "op" <=> pc[q] = "op" /\ q # p
    BY <1>2
  <2>2. outstanding' = outstanding - 1
    BY <1>1
  <2> QED BY <1>1, <2>1, <2>2, Ended
<1>5. Up /\ header = <<>> /\ \A q \in Procs : ~Committing(q)
  BY <1>1 DEF LogInv, Alone, Booting, Quiet
<1>6. \A q \in Procs : q # p => pc[q] # "op"
  <2>1. IsFiniteSet(Ops) /\ Cardinality(Ops) = 1 /\ p \in Ops
    BY <1>1 DEF LogInv, Room, TypeOK, Ops
  <2>2. \A q \in Ops : q = p
    BY <2>1, FS_Singleton
  <2> QED BY <2>2 DEF Ops
<1>7. TypeOK' /\ SleepersWoken'
  <2>1. own' \in [Procs -> SUBSET Blocks]
    BY <1>1 DEF LogInv, TypeOK
  <2>2. tail' \in 1 .. Capacity + 1
    BY <1>1 DEF Capacity
  <2>3. committing' \in BOOLEAN
    BY DEF EndLast
  <2>4. TypeOK'
    BY <1>1, <1>2, <1>4, <2>1, <2>2, <2>3 DEF LogInv, TypeOK, Entries
  <2> QED BY <1>1, <2>4 DEF SleepersWoken
<1>8. Alone'
  <2>1. \A q \in Procs \ {p} : pc'[q] \in {"idle", "asleep"}
    BY <1>2, <1>5, <1>6 DEF LogInv, TypeOK, Committing
  <2> QED BY <1>1, <1>2, <1>5, <2>1 DEF Alone, Committing, Up
<1>9. Booting' /\ Quiet'
  BY <1>1, <1>5 DEF LogInv, Booting, Quiet, Up
<1>10. Progress'
  <2>1. \A q \in Procs : q # p => pc'[q] \notin {"log", "install", "finish"}
    BY <1>2, <1>5 DEF Committing
  <2> QED BY <1>1, <1>2, <1>5, <2>1 DEF Progress
<1> QED BY <1>3, <1>4, <1>7, <1>8, <1>9, <1>10 DEF LogInv

-----------------------------------------------------------------------------
(* commit.                                                                 *)

\* With no call under way nothing is reserved.
LEMMA NoCalls ==
  ASSUME \A q \in Procs : own'[q] = {} /\ pc'[q] # "op",
         outstanding' = 0, Len(lh') \in Nat, Len(lh') <= LOGSIZE - 2, Len(header') <= LOGSIZE - 2
  PROVE  Owned' /\ Room' /\ outstanding' = Cardinality(Ops)'
<1> USE LogAssumption
<1>1. Ops' = {} /\ Changes' = {}
  BY DEF Ops, Changes
<1>2. /\ IsFiniteSet(Ops') /\ Cardinality(Ops') = 0
      /\ IsFiniteSet(Changes') /\ Cardinality(Changes') = 0
  BY <1>1, FS_EmptySet
<1>3. Room'
  BY <1>2 DEF Room
<1>4. Owned'
  <2>1. IsFiniteSet({}) /\ Cardinality({}) = 0 /\ 0 <= OpBlocks
    BY FS_EmptySet
  <2>2. ASSUME NEW q \in Procs
        PROVE  /\ own'[q] # {} => pc'[q] = "op"
               /\ own'[q] \subseteq Entries(lh)'
               /\ IsFiniteSet(own'[q]) /\ Cardinality(own'[q]) <= OpBlocks
    <3>1. own'[q] = {}
      OBVIOUS
    <3> QED BY <2>1, <3>1
  <2> QED BY <2>2 DEF Owned
<1> QED BY <1>2, <1>3, <1>4

\* What the steps of a commit leave as it is.
LEMMA Commits ==
  ASSUME LogInv, NEW p \in Procs, Committing(p),
         UNCHANGED <<outstanding, committing, own, boot>>,
         NEW where \in {"log", "install", "finish"}, pc' = [pc EXCEPT ![p] = where],
         Lists', Len(lh') <= LOGSIZE - 2, Len(header') <= LOGSIZE - 2
  PROVE  /\ Owned' /\ Room' /\ outstanding' = Cardinality(Ops)'
         /\ Alone' /\ Booting' /\ Quiet' /\ SleepersWoken'
         /\ Len(lh') <= Capacity /\ Entries(lh)' \subseteq Blocks
         /\ Len(header') <= Capacity /\ Entries(header)' \subseteq Blocks
         /\ pc' \in [Procs -> {"idle", "asleep", "op", "log", "install", "finish"}]
         /\ pc'[p] = where /\ \A q \in Procs \ {p} : pc'[q] \in {"idle", "asleep"}
<1> USE LogAssumption
<1>1. /\ committing /\ Up /\ outstanding = 0
      /\ \A q \in Procs \ {p} : pc[q] \in {"idle", "asleep"}
      /\ \A q \in Procs : own[q] = {}
  BY Committer
<1>2. /\ pc' \in [Procs -> {"idle", "asleep", "op", "log", "install", "finish"}]
      /\ pc'[p] = where /\ \A q \in Procs \ {p} : pc'[q] \in {"idle", "asleep"}
  BY <1>1 DEF LogInv, TypeOK
<1>3. Len(lh') \in Nat /\ Len(header') \in Nat
  BY DEF Lists
<1>4. Owned' /\ Room' /\ outstanding' = Cardinality(Ops)'
  <2>1. \A q \in Procs : own'[q] = {} /\ pc'[q] # "op"
    BY <1>1, <1>2
  <2> QED BY <1>1, <1>3, <2>1, NoCalls
<1>5. Alone' /\ Booting' /\ Quiet' /\ SleepersWoken'
  BY <1>1, <1>2 DEF Alone, Booting, Quiet, SleepersWoken, Committing, Up
<1>6. Len(lh') <= Capacity /\ Len(header') <= Capacity
  BY <1>3 DEF Capacity
<1>7. Entries(lh)' \subseteq Blocks /\ Entries(header)' \subseteq Blocks
  BY DEF Lists, Entries
<1> QED BY <1>2, <1>4, <1>5, <1>6, <1>7

LEMMA KeepsWriteLog ==
  ASSUME LogInv, NEW p \in Procs, WriteLog(p)
  PROVE  LogInv'
<1> USE LogAssumption
<1>1. /\ pc[p] = "log" /\ tail <= Len(lh)
      /\ slots' = [slots EXCEPT ![tail] = buf[lh[tail]]]
      /\ tail' = tail + 1
      /\ UNCHANGED <<disk, header, buf, lh, outstanding, committing, pc, own, boot>>
  BY DEF WriteLog
<1>2. Committing(p) /\ pc' = [pc EXCEPT ![p] = "log"]
  BY <1>1 DEF Committing, LogInv, TypeOK
<1>3. Lists' /\ Cached'
  BY <1>1, SameLists
<1>4. Len(lh) <= LOGSIZE - 2 /\ Len(lh) \in Nat /\ Len(header) <= LOGSIZE - 2
  BY <1>2, Committer DEF LogInv, Room, Lists
<1>5. /\ Owned' /\ Room' /\ outstanding' = Cardinality(Ops)'
      /\ Alone' /\ Booting' /\ Quiet' /\ SleepersWoken'
      /\ Len(lh') <= Capacity /\ Entries(lh)' \subseteq Blocks
      /\ Len(header') <= Capacity /\ Entries(header)' \subseteq Blocks
      /\ pc' \in [Procs -> {"idle", "asleep", "op", "log", "install", "finish"}]
      /\ pc'[p] = "log" /\ \A q \in Procs \ {p} : pc'[q] \in {"idle", "asleep"}
  BY <1>1, <1>2, <1>3, <1>4, Commits
<1>6. tail \in Nat /\ tail >= 1 /\ tail <= Capacity /\ tail \in 1 .. Len(lh) /\ Capacity \in Nat
  BY <1>1, <1>4 DEF LogInv, TypeOK, Capacity
<1>7. slots' \in [1 .. Capacity -> Values] /\ tail' \in 1 .. Capacity + 1
  <2>1. buf[lh[tail]] \in Values
    BY <1>6 DEF LogInv, TypeOK, Lists
  <2> QED BY <1>1, <1>6, <2>1 DEF LogInv, TypeOK
<1>8. TypeOK'
  BY <1>1, <1>5, <1>7 DEF LogInv, TypeOK
<1>9. Progress'
  <2>1. ASSUME NEW i \in 1 .. Len(lh), i < tail + 1 PROVE slots'[i] = buf[lh[i]]
    <3>1. i \in 1 .. Capacity
      BY <1>4 DEF Capacity
    <3>2. CASE i = tail
      BY <1>1, <3>1, <3>2 DEF LogInv, TypeOK
    <3>3. CASE i # tail
      <4>1. i < tail
        BY <1>6, <2>1, <3>3
      <4> QED BY <1>1, <3>1, <3>3, <4>1 DEF LogInv, TypeOK, Progress
    <3> QED BY <3>2, <3>3
  <2>2. header' = <<>>
    BY <1>1 DEF LogInv, Progress
  <2> QED BY <1>1, <1>5, <2>1, <2>2 DEF Progress
<1> QED BY <1>3, <1>5, <1>8, <1>9 DEF LogInv

LEMMA KeepsWriteHead ==
  ASSUME LogInv, NEW p \in Procs, WriteHead(p)
  PROVE  LogInv'
<1> USE LogAssumption
<1>1. /\ pc[p] = "log" /\ tail > Len(lh)
      /\ header' = lh /\ tail' = 1
      /\ pc' = [pc EXCEPT ![p] = "install"]
      /\ UNCHANGED <<disk, slots, buf, lh, outstanding, committing, own, boot>>
  BY DEF WriteHead, Goto
<1>2. Committing(p)
  BY <1>1 DEF Committing
<1>3. Lists' /\ Cached'
  BY <1>1 DEF LogInv, Lists, Once, Cached, Entries
<1>4. Len(lh) <= LOGSIZE - 2 /\ Len(lh) \in Nat
  BY <1>2, Committer DEF LogInv, Lists
<1>5. /\ Owned' /\ Room' /\ outstanding' = Cardinality(Ops)'
      /\ Alone' /\ Booting' /\ Quiet' /\ SleepersWoken'
      /\ Len(lh') <= Capacity /\ Entries(lh)' \subseteq Blocks
      /\ Len(header') <= Capacity /\ Entries(header)' \subseteq Blocks
      /\ pc' \in [Procs -> {"idle", "asleep", "op", "log", "install", "finish"}]
      /\ pc'[p] = "install" /\ \A q \in Procs \ {p} : pc'[q] \in {"idle", "asleep"}
  BY <1>1, <1>2, <1>3, <1>4, Commits
<1>6. tail' \in 1 .. Capacity + 1
  BY <1>1 DEF Capacity
<1>7. TypeOK'
  BY <1>1, <1>5, <1>6 DEF LogInv, TypeOK
<1>8. Progress'
  <2>1. ASSUME NEW i \in 1 .. Len(lh) PROVE slots[i] = buf[lh[i]] /\ ~(i < 1)
    <3>1. i < tail
      BY <1>1, <1>4 DEF LogInv, TypeOK
    <3> QED BY <1>1, <3>1 DEF LogInv, Progress
  <2> QED BY <1>1, <1>5, <2>1 DEF Progress
<1> QED BY <1>3, <1>5, <1>7, <1>8 DEF LogInv

LEMMA KeepsInstall ==
  ASSUME LogInv, NEW p \in Procs, Install(p)
  PROVE  LogInv' /\ buf' = buf
<1> USE LogAssumption
<1>1. /\ pc[p] = "install" /\ tail <= Len(lh)
      /\ disk' = [disk EXCEPT ![lh[tail]] = slots[tail]]
      /\ buf' = [buf EXCEPT ![lh[tail]] = slots[tail]]
      /\ tail' = tail + 1
      /\ UNCHANGED <<slots, header, lh, outstanding, committing, pc, own, boot>>
  BY DEF Install, CopyHome
<1>2. Committing(p) /\ pc' = [pc EXCEPT ![p] = "install"]
  BY <1>1 DEF Committing, LogInv, TypeOK
<1>3. Len(lh) <= LOGSIZE - 2 /\ Len(lh) \in Nat /\ Len(header) <= LOGSIZE - 2
  BY <1>2, Committer DEF LogInv, Room, Lists
<1>4. tail \in Nat /\ tail >= 1 /\ tail \in 1 .. Len(lh) /\ Capacity \in Nat
  BY <1>1, <1>3 DEF LogInv, TypeOK, Capacity
<1>5. lh[tail] \in Blocks /\ slots[tail] = buf[lh[tail]] /\ slots[tail] \in Values
  <2>1. lh[tail] \in Blocks
    BY <1>4 DEF LogInv, Lists
  <2>2. slots[tail] = buf[lh[tail]]
    BY <1>1, <1>4 DEF LogInv, Progress
  <2> QED BY <2>1, <2>2 DEF LogInv, TypeOK
<1>6. buf' = buf
  BY <1>1, <1>5 DEF LogInv, TypeOK
<1>7. disk' \in [Blocks -> Values] /\ \A b \in Blocks : disk'[b] = IF b = lh[tail] THEN buf[b] ELSE disk[b]
  BY <1>1, <1>5 DEF LogInv, TypeOK
<1>8. Lists'
  BY <1>1 DEF LogInv, Lists, Once
<1>9. Cached'
  <2>1. lh[tail] \in Entries(lh)
    BY <1>4 DEF Entries
  <2> QED BY <1>1, <1>6, <1>7, <2>1 DEF LogInv, Cached, Entries
<1>10. /\ Owned' /\ Room' /\ outstanding' = Cardinality(Ops)'
      /\ Alone' /\ Booting' /\ Quiet' /\ SleepersWoken'
      /\ Len(lh') <= Capacity /\ Entries(lh)' \subseteq Blocks
      /\ Len(header') <= Capacity /\ Entries(header)' \subseteq Blocks
      /\ pc' \in [Procs -> {"idle", "asleep", "op", "log", "install", "finish"}]
      /\ pc'[p] = "install" /\ \A q \in Procs \ {p} : pc'[q] \in {"idle", "asleep"}
  BY <1>1, <1>2, <1>8, <1>3, Commits
<1>11. tail' \in 1 .. Capacity + 1
  BY <1>1, <1>3, <1>4 DEF Capacity
<1>12. TypeOK'
  BY <1>1, <1>6, <1>7, <1>10, <1>11 DEF LogInv, TypeOK
<1>13. Progress'
  <2>1. ASSUME NEW i \in 1 .. Len(lh), i < tail + 1 PROVE disk'[lh[i]] = buf[lh[i]]
    <3>1. lh[i] \in Blocks
      BY DEF LogInv, Lists
    <3>2. CASE i = tail
      BY <1>7, <3>1, <3>2
    <3>3. CASE i # tail
      <4>1. i < tail
        BY <1>4, <2>1, <3>3
      <4>2. disk[lh[i]] = buf[lh[i]]
        BY <1>1, <4>1 DEF LogInv, Progress
      <4> QED BY <1>7, <3>1, <4>2
    <3> QED BY <3>2, <3>3
  <2>2. \A i \in 1 .. Len(lh) : slots[i] = buf[lh[i]]
    BY <1>1 DEF LogInv, Progress
  <2>3. header' = lh
    BY <1>1 DEF LogInv, Progress
  <2> QED BY <1>1, <1>6, <1>10, <2>1, <2>2, <2>3 DEF Progress
<1> QED BY <1>6, <1>8, <1>9, <1>10, <1>12, <1>13 DEF LogInv

\* At the end of install_trans every block is in its place.
LEMMA Installed ==
  ASSUME LogInv, NEW p \in Procs, pc[p] = "install", tail > Len(lh)
  PROVE  \A b \in Blocks : disk[b] = buf[b]
<1> SUFFICES ASSUME NEW b \in Blocks PROVE disk[b] = buf[b]
  OBVIOUS
<1>1. CASE b \notin Entries(lh)
  BY <1>1 DEF LogInv, Cached
<1>2. CASE b \in Entries(lh)
  <2>1. PICK i \in 1 .. Len(lh) : lh[i] = b
    BY <1>2, EntryAt DEF LogInv, Lists
  <2>2. i < tail
    BY <2>1 DEF LogInv, Lists, TypeOK
  <2> QED BY <2>1, <2>2 DEF LogInv, Progress
<1> QED BY <1>1, <1>2

LEMMA KeepsErase ==
  ASSUME LogInv, NEW p \in Procs, Erase(p)
  PROVE  LogInv'
<1> USE LogAssumption
<1>1. /\ pc[p] = "install" /\ tail > Len(lh)
      /\ lh' = <<>> /\ header' = <<>>
      /\ pc' = [pc EXCEPT ![p] = "finish"]
      /\ UNCHANGED <<disk, slots, buf, outstanding, committing, own, tail, boot>>
  BY DEF Erase, Goto
<1>2. Committing(p)
  BY <1>1 DEF Committing
<1>3. Lists' /\ Len(lh') = 0 /\ Len(header') = 0
  BY <1>1 DEF Lists, Once
<1>4. Cached'
  BY <1>1, Installed DEF Cached
<1>5. Len(lh') <= LOGSIZE - 2 /\ Len(header') <= LOGSIZE - 2
  BY <1>3
<1>6. /\ Owned' /\ Room' /\ outstanding' = Cardinality(Ops)'
      /\ Alone' /\ Booting' /\ Quiet' /\ SleepersWoken'
      /\ Len(lh') <= Capacity /\ Entries(lh)' \subseteq Blocks
      /\ Len(header') <= Capacity /\ Entries(header)' \subseteq Blocks
      /\ pc' \in [Procs -> {"idle", "asleep", "op", "log", "install", "finish"}]
      /\ pc'[p] = "finish" /\ \A q \in Procs \ {p} : pc'[q] \in {"idle", "asleep"}
  BY <1>1, <1>2, <1>3, <1>5, Commits
<1>7. TypeOK'
  BY <1>1, <1>6 DEF LogInv, TypeOK
<1>8. Progress'
  BY <1>1, <1>6 DEF Progress
<1> QED BY <1>3, <1>4, <1>6, <1>7, <1>8 DEF LogInv

LEMMA KeepsFinish ==
  ASSUME LogInv, NEW p \in Procs, Finish(p)
  PROVE  LogInv'
<1> USE LogAssumption
<1>1. /\ pc[p] = "finish" /\ committing' = FALSE
      /\ pc' = WakeAll([pc EXCEPT ![p] = "idle"])
      /\ UNCHANGED <<disk, slots, header, buf, lh, outstanding, own, tail, boot>>
  BY DEF Finish, ondisk
<1>2. Committing(p) /\ header = <<>> /\ lh = <<>>
  BY <1>1 DEF Committing, LogInv, Progress
<1>3. /\ Up /\ outstanding = 0 /\ \A q \in Procs : own[q] = {}
      /\ \A q \in Procs \ {p} : pc[q] \in {"idle", "asleep"}
  BY <1>2, Committer
<1>4. pc' \in [Procs -> {"idle"}]
  BY <1>1, <1>3 DEF WakeAll, LogInv, TypeOK
<1>5. Lists' /\ Cached'
  BY <1>1, SameLists
<1>6. Owned' /\ Room' /\ outstanding' = Cardinality(Ops)'
  <2>1. Len(lh') = 0 /\ Len(header') = 0 /\ 0 <= LOGSIZE - 2
    BY <1>1, <1>2
  <2>2. \A q \in Procs : own'[q] = {} /\ pc'[q] # "op"
    BY <1>1, <1>3, <1>4
  <2>3. outstanding' = 0
    BY <1>1, <1>3
  <2> QED BY <2>1, <2>2, <2>3, NoCalls
<1>7. TypeOK'
  <2>1. pc' \in [Procs -> {"idle", "asleep", "op", "log", "install", "finish"}]
    BY <1>4
  <2> QED BY <1>1, <1>6, <2>1 DEF LogInv, TypeOK, Entries
<1>8. SleepersWoken' /\ Alone' /\ Booting' /\ Quiet' /\ Progress'
  BY <1>1, <1>2, <1>3, <1>4 DEF SleepersWoken, Alone, Booting, Quiet, Progress, Committing, Up
<1> QED BY <1>5, <1>6, <1>7, <1>8 DEF LogInv

-----------------------------------------------------------------------------
(* A power failure and recover_from_log.                                   *)

\* Before the log is recovered no call has begun.
LEMMA Recovers ==
  ASSUME LogInv, ~Up
  PROVE  /\ buf = disk /\ ~committing /\ outstanding = 0
         /\ \A q \in Procs : pc[q] = "idle" /\ own[q] = {}
         /\ Len(lh) \in Nat /\ Len(lh) <= LOGSIZE - 2
<1>1. buf = disk /\ ~committing /\ \A q \in Procs : pc[q] = "idle"
  BY DEF LogInv, Booting
<1>2. \A q \in Procs : own[q] = {}
  BY <1>1 DEF LogInv, Owned
<1>3. Ops = {} /\ Changes = {}
  BY <1>1, <1>2 DEF Ops, Changes
<1>4. outstanding = 0 /\ Cardinality(Changes) = 0
  BY <1>3, FS_EmptySet DEF LogInv, TypeOK
<1>5. Len(lh) \in Nat /\ Len(lh) <= LOGSIZE - 2
  BY <1>4, LogAssumption DEF LogInv, Room, Lists
<1> QED BY <1>1, <1>2, <1>4, <1>5

LEMMA KeepsCrash ==
  ASSUME LogInv, Crash
  PROVE  LogInv'
<1> USE LogAssumption
<1>1. /\ buf' = disk /\ lh' = <<>> /\ outstanding' = 0 /\ committing' = FALSE
      /\ pc' = [q \in Procs |-> "idle"] /\ own' = [q \in Procs |-> {}]
      /\ tail' = 1 /\ boot' = "read"
      /\ UNCHANGED <<disk, slots, header>>
  BY DEF Crash, ondisk
<1>2. Lists' /\ Cached'
  BY <1>1 DEF LogInv, Lists, Once, Cached
<1>3. Owned' /\ Room' /\ outstanding' = Cardinality(Ops)'
  <2>1. Len(lh') = 0 /\ Len(header') <= LOGSIZE - 2
    BY <1>1 DEF LogInv, Room
  <2>2. \A q \in Procs : own'[q] = {} /\ pc'[q] # "op"
    BY <1>1
  <2> QED BY <1>1, <2>1, <2>2, NoCalls
<1>4. TypeOK'
  <2>1. /\ Len(lh') <= Capacity /\ tail' \in 1 .. Capacity + 1
        /\ Entries(lh)' \subseteq Blocks /\ Entries(header)' \subseteq Blocks
    BY <1>1 DEF Capacity, Entries, LogInv, TypeOK
  <2>2. /\ pc' \in [Procs -> {"idle", "asleep", "op", "log", "install", "finish"}]
        /\ own' \in [Procs -> SUBSET Blocks]
    BY <1>1
  <2> QED BY <1>1, <1>3, <2>1, <2>2 DEF LogInv, TypeOK
<1>5. SleepersWoken' /\ Alone' /\ Booting' /\ Quiet' /\ Progress'
  BY <1>1 DEF SleepersWoken, Alone, Booting, Quiet, Progress, Committing, Up
<1> QED BY <1>2, <1>3, <1>4, <1>5 DEF LogInv

LEMMA KeepsReadHead ==
  ASSUME LogInv, ReadHead
  PROVE  LogInv'
<1> USE LogAssumption
<1>1. /\ boot = "read" /\ lh' = header /\ boot' = "install"
      /\ UNCHANGED <<disk, slots, header, buf, outstanding, committing, pc, own, tail>>
  BY DEF ReadHead, ondisk
<1>2. /\ ~Up /\ tail = 1 /\ buf = disk /\ ~committing /\ outstanding = 0
      /\ \A q \in Procs : pc[q] = "idle" /\ own[q] = {}
  BY <1>1, Recovers DEF LogInv, Booting, Up
<1>3. Lists' /\ Cached'
  BY <1>1, <1>2 DEF LogInv, Lists, Once, Cached
<1>4. Owned' /\ Room' /\ outstanding' = Cardinality(Ops)'
  <2>1. Len(lh') \in Nat /\ Len(lh') <= LOGSIZE - 2 /\ Len(header') <= LOGSIZE - 2
    BY <1>1 DEF LogInv, Room, Lists
  <2>2. \A q \in Procs : own'[q] = {} /\ pc'[q] # "op"
    BY <1>1, <1>2
  <2> QED BY <1>1, <1>2, <2>1, <2>2, NoCalls
<1>5. TypeOK'
  BY <1>1, <1>4 DEF LogInv, TypeOK, Entries
<1>6. SleepersWoken' /\ Alone' /\ Quiet' /\ Progress'
  BY <1>1, <1>2 DEF SleepersWoken, Alone, Quiet, Progress, Committing, Up
<1>7. Booting'
  BY <1>1, <1>2 DEF Booting, Up
<1> QED BY <1>3, <1>4, <1>5, <1>6, <1>7 DEF LogInv

LEMMA KeepsRecoverInstall ==
  ASSUME LogInv, RecoverInstall
  PROVE  LogInv'
<1> USE LogAssumption
<1>1. /\ boot = "install" /\ tail <= Len(lh)
      /\ disk' = [disk EXCEPT ![lh[tail]] = slots[tail]]
      /\ buf' = [buf EXCEPT ![lh[tail]] = slots[tail]]
      /\ tail' = tail + 1
      /\ UNCHANGED <<slots, header, lh, outstanding, committing, pc, own, boot>>
  BY DEF RecoverInstall, CopyHome
<1>2. /\ ~Up /\ buf = disk /\ ~committing /\ outstanding = 0
      /\ \A q \in Procs : pc[q] = "idle" /\ own[q] = {}
      /\ Len(lh) \in Nat /\ Len(lh) <= LOGSIZE - 2
  BY <1>1, Recovers DEF Up
<1>3. tail \in Nat /\ tail \in 1 .. Len(lh) /\ tail \in 1 .. Capacity /\ Capacity \in Nat
  BY <1>1, <1>2 DEF LogInv, TypeOK, Capacity
<1>4. lh[tail] \in Blocks /\ slots[tail] \in Values
  BY <1>3 DEF LogInv, Lists, TypeOK
<1>5. /\ buf' = disk' /\ disk' \in [Blocks -> Values]
      /\ \A b \in Blocks : disk'[b] = IF b = lh[tail] THEN slots[tail] ELSE disk[b]
  BY <1>1, <1>2, <1>4 DEF LogInv, TypeOK
<1>6. Lists' /\ Cached'
  BY <1>1, <1>5 DEF LogInv, Lists, Once, Cached
<1>7. Owned' /\ Room' /\ outstanding' = Cardinality(Ops)'
  <2>1. Len(header') <= LOGSIZE - 2
    BY <1>1 DEF LogInv, Room
  <2>2. \A q \in Procs : own'[q] = {} /\ pc'[q] # "op"
    BY <1>1, <1>2
  <2> QED BY <1>1, <1>2, <2>1, <2>2, NoCalls
<1>8. TypeOK'
  BY <1>1, <1>3, <1>5, <1>7 DEF LogInv, TypeOK, Entries
<1>9. SleepersWoken' /\ Alone' /\ Quiet' /\ Progress'
  BY <1>1, <1>2 DEF SleepersWoken, Alone, Quiet, Progress, Committing, Up
<1>10. Booting'
  <2>1. header = lh /\ \A i \in 1 .. Len(lh) : i < tail => disk[lh[i]] = slots[i]
    BY <1>1 DEF LogInv, Booting
  <2>2. ASSUME NEW i \in 1 .. Len(lh), i < tail + 1 PROVE disk'[lh[i]] = slots[i]
    <3>1. lh[i] \in Blocks /\ (lh[i] = lh[tail] => i = tail)
      BY <1>3 DEF LogInv, Lists, Once
    <3>2. i = tail \/ i < tail
      BY <1>3, <2>2
    <3> QED BY <1>5, <2>1, <3>1, <3>2
  <2> QED BY <1>1, <1>2, <1>5, <2>1, <2>2 DEF Booting, Up
<1> QED BY <1>6, <1>7, <1>8, <1>9, <1>10 DEF LogInv

LEMMA KeepsRecoverErase ==
  ASSUME LogInv, RecoverErase
  PROVE  LogInv'
<1> USE LogAssumption
<1>1. /\ boot = "install" /\ tail > Len(lh)
      /\ lh' = <<>> /\ header' = <<>> /\ boot' = "done"
      /\ UNCHANGED <<disk, slots, buf, outstanding, committing, pc, own, tail>>
  BY DEF RecoverErase
<1>2. /\ ~Up /\ buf = disk /\ ~committing /\ outstanding = 0
      /\ \A q \in Procs : pc[q] = "idle" /\ own[q] = {}
  BY <1>1, Recovers DEF Up
<1>3. Lists' /\ Cached' /\ Len(lh') = 0 /\ Len(header') = 0
  BY <1>1, <1>2 DEF Lists, Once, Cached
<1>4. Owned' /\ Room' /\ outstanding' = Cardinality(Ops)'
  <2>1. \A q \in Procs : own'[q] = {} /\ pc'[q] # "op"
    BY <1>1, <1>2
  <2> QED BY <1>1, <1>2, <1>3, <2>1, NoCalls
<1>5. TypeOK'
  <2>1. /\ Len(lh') <= Capacity /\ Len(header') <= Capacity
        /\ Entries(lh)' = {} /\ Entries(header)' = {}
    BY <1>1, <1>3 DEF Capacity, Entries
  <2> QED BY <1>1, <1>4, <2>1 DEF LogInv, TypeOK
<1>6. SleepersWoken' /\ Alone' /\ Booting' /\ Quiet' /\ Progress'
  BY <1>1, <1>2 DEF SleepersWoken, Alone, Booting, Quiet, Progress, Committing, Up
<1> QED BY <1>3, <1>4, <1>5, <1>6 DEF LogInv

LEMMA KeepsStutter == LogInv /\ UNCHANGED vars => LogInv'
BY DEF LogInv, vars, ondisk, inmem, TypeOK, SleepersWoken, Lists, Once, Owned, Room, Ops, Changes,
   Alone, Committing, Booting, Quiet, Cached, Progress, Entries, Up

LEMMA LogStep == LogInv /\ [Next]_vars => LogInv'
<1> SUFFICES ASSUME LogInv, [Next]_vars PROVE LogInv'
  OBVIOUS
<1>1. CASE Crash BY <1>1, KeepsCrash
<1>2. CASE ReadHead BY <1>2, KeepsReadHead
<1>3. CASE RecoverInstall BY <1>3, KeepsRecoverInstall
<1>4. CASE RecoverErase BY <1>4, KeepsRecoverErase
<1>5. ASSUME NEW p \in Procs,
             \/ Begin(p) \/ EndOther(p) \/ EndLast(p)
             \/ WriteLog(p) \/ WriteHead(p) \/ Install(p) \/ Erase(p) \/ Finish(p)
             \/ \E b \in Blocks, v \in Values : LogWrite(p, b, v)
      PROVE  LogInv'
  BY <1>5, KeepsBegin, KeepsEndOther, KeepsEndLast, KeepsWriteLog, KeepsWriteHead, KeepsInstall,
     KeepsErase, KeepsFinish, KeepsLogWrite
<1>6. CASE UNCHANGED vars BY <1>6, KeepsStutter
<1> QED BY <1>1, <1>2, <1>3, <1>4, <1>5, <1>6 DEF Next

\* The invariant of the log.
THEOREM LogInvariant == Spec => []LogInv
<1> QED BY LogInit, LogStep, PTL DEF Spec

\* log.outstanding counts the calls under way and the lists stay in range.
THEOREM LogTypes == Spec => []TypeOK
<1>1. LogInv => TypeOK
  BY DEF LogInv
<1> QED BY <1>1, LogInvariant, PTL

\* A process asleep in begin_op has a wakeup coming.
THEOREM SleepersAlwaysWoken == Spec => []SleepersWoken
<1>1. LogInv => SleepersWoken
  BY DEF LogInv
<1> QED BY <1>1, LogInvariant, PTL

\* log_write finds a free slot and end_op no commit under way, however the
\* calls overlap: what a call leaves of its reservation pays for the header.
THEOREM NeverPanics == Spec => []NoPanic
<1>1. ASSUME LogInv PROVE NoPanic
  <2>1. Ops # {} => Len(lh) < Capacity
    <3>1. /\ Cardinality(Changes) \in Nat /\ outstanding \in Nat
          /\ Cardinality(Changes) <= outstanding * OpBlocks
      BY <1>1, ChangesBound
    <3>2. /\ Len(lh) + outstanding * OpBlocks <= LOGSIZE - 2 + Cardinality(Changes)
          /\ Len(lh) \in Nat /\ LOGSIZE \in Nat
      BY <1>1, LogAssumption DEF LogInv, Room, Lists
    <3>3. PICK w \in Nat : w = outstanding * OpBlocks
      BY <3>1, LogAssumption
    <3>4. Len(lh) <= LOGSIZE - 2
      BY <3>1, <3>2, <3>3
    <3> QED BY <3>2, <3>4 DEF Capacity
  <2>2. committing => Ops = {}
    <3>1. CASE committing
      <4>1. PICK p \in Procs : Committing(p)
        BY <1>1, <3>1 DEF LogInv, Alone
      <4> QED BY <1>1, <4>1, Committer
    <3> QED BY <3>1
  <2> QED BY <2>1, <2>2 DEF NoPanic
<1> QED BY <1>1, LogInvariant, PTL

\* Between groups of calls the log is empty and every change in its place.
THEOREM SettlesAlways == Spec => []Settled
<1>1. ASSUME LogInv PROVE Settled
  <2> SUFFICES ASSUME Up, ~committing, outstanding = 0
               PROVE  lh = <<>> /\ header = <<>> /\ disk = buf
    BY DEF Settled
  <2>1. lh = <<>> /\ header = <<>>
    BY <1>1 DEF LogInv, Quiet
  <2>2. \A b \in Blocks : buf[b] = disk[b]
    BY <1>1, <2>1 DEF LogInv, Cached, Entries
  <2>3. disk = buf
    BY <1>1, <2>2 DEF LogInv, TypeOK
  <2> QED BY <2>1, <2>3
<1> QED BY <1>1, LogInvariant, PTL

-----------------------------------------------------------------------------
(* Group commit is atomic.                                                 *)

\* A restart finds a block in the log, or else in its place.
Found ==
  /\ Recovered \in [Blocks -> Values]
  /\ \A b \in Blocks : b \notin Entries(header) => Recovered[b] = disk[b]
  /\ \A i \in 1 .. Len(header) : Recovered[header[i]] = slots[i]

LEMMA RecoveredAt == LogInv => Found
<1> SUFFICES ASSUME LogInv PROVE Found
  OBVIOUS
<1> USE LogAssumption
<1>1. header \in Seq(Blocks) /\ Len(header) \in Nat /\ Len(header) <= Capacity /\ Once(header)
  BY DEF LogInv, Lists, TypeOK
<1>2. DOMAIN header = 1 .. Len(header) /\ \A i \in 1 .. Len(header) : i \in 1 .. Capacity
  BY <1>1 DEF Capacity
<1>3. ASSUME NEW i \in 1 .. Len(header)
      PROVE  (CHOOSE n \in DOMAIN header : header[n] = header[i]) = i
  BY <1>1, <1>2 DEF Once
<1>4. \A b \in Blocks : b \notin Entries(header) => Recovered[b] = disk[b]
  BY DEF Recovered
<1>5. ASSUME NEW i \in 1 .. Len(header) PROVE Recovered[header[i]] = slots[i]
  <2>1. header[i] \in Blocks /\ header[i] \in Entries(header)
    BY <1>1, EntryAt
  <2> QED BY <1>3, <2>1 DEF Recovered
<1>6. ASSUME NEW b \in Blocks PROVE Recovered[b] \in Values
  <2>1. CASE b \notin Entries(header)
    BY <1>4, <2>1 DEF LogInv, TypeOK
  <2>2. CASE b \in Entries(header)
    <3>1. PICK i \in 1 .. Len(header) : header[i] = b
      BY <1>1, <2>2, EntryAt
    <3> QED BY <1>2, <1>5, <3>1 DEF LogInv, TypeOK
  <2> QED BY <2>1, <2>2
<1>7. Recovered \in [Blocks -> Values]
  BY <1>6 DEF Recovered
<1> QED BY <1>4, <1>5, <1>7 DEF Found

LEMMA RecoveredNext == LogInv' => Found'
BY RecoveredAt, PTL

Volatile == IF Up THEN buf ELSE Recovered

LEMMA SameRecovered ==
  ASSUME UNCHANGED <<disk, slots, header>>
  PROVE  Recovered' = Recovered
BY DEF Recovered, Entries

\* With an empty header a restart leaves the disk as it is.
EmptyHeader == header = <<>> => Recovered = disk

LEMMA EmptyAt == LogInv => EmptyHeader
<1> SUFFICES ASSUME LogInv, header = <<>> PROVE Recovered = disk
  BY DEF EmptyHeader
<1>1. Entries(header) = {}
  BY DEF Entries
<1> QED BY <1>1, RecoveredAt DEF Found, LogInv, TypeOK

LEMMA EmptyNext == LogInv' => EmptyHeader'
BY EmptyAt, PTL

\* Once the header is on disk, a restart makes what the cache holds.
CommittedHeader == (\E p \in Procs : pc[p] = "install") => Recovered = buf

LEMMA CommittedAt == LogInv => CommittedHeader
<1> SUFFICES ASSUME LogInv, NEW p \in Procs, pc[p] = "install" PROVE Recovered = buf
  BY DEF CommittedHeader
<1>1. /\ header = lh /\ lh \in Seq(Blocks)
      /\ \A i \in 1 .. Len(lh) : slots[i] = buf[lh[i]]
  BY DEF LogInv, Progress, Lists
<1>2. ASSUME NEW b \in Blocks PROVE Recovered[b] = buf[b]
  <2>1. CASE b \notin Entries(lh)
    BY <1>1, <2>1, RecoveredAt DEF Found, LogInv, Cached
  <2>2. CASE b \in Entries(lh)
    <3>1. PICK i \in 1 .. Len(lh) : lh[i] = b
      BY <1>1, <2>2, EntryAt
    <3>2. Recovered[lh[i]] = slots[i]
      BY <1>1, RecoveredAt DEF Found
    <3> QED BY <1>1, <3>1, <3>2
  <2> QED BY <2>1, <2>2
<1> QED BY <1>2, RecoveredAt DEF Found, LogInv, TypeOK

LEMMA CommittedNext == LogInv' => CommittedHeader'
BY CommittedAt, PTL

\* Copying a log block to its place again changes nothing a restart makes.
LEMMA CopyUnseen ==
  ASSUME LogInv, LogInv', header = lh, tail \in 1 .. Len(lh), CopyHome,
         UNCHANGED <<slots, header>>
  PROVE  Recovered' = Recovered
<1>1. lh \in Seq(Blocks) /\ lh[tail] \in Blocks /\ lh[tail] \in Entries(header)
  BY DEF LogInv, Lists, Entries
<1>2. \A b \in Blocks : b # lh[tail] => disk'[b] = disk[b]
  BY <1>1 DEF CopyHome, LogInv, TypeOK
<1>3. Entries(header)' = Entries(header)
  BY DEF Entries
<1>4. ASSUME NEW b \in Blocks PROVE Recovered'[b] = Recovered[b]
  <2>1. CASE b \notin Entries(header)
    BY <1>1, <1>2, <1>3, <2>1, RecoveredAt, RecoveredNext DEF Found
  <2>2. CASE b \in Entries(header)
    <3>1. PICK i \in 1 .. Len(header) : header[i] = b
      BY <1>1, <2>2, EntryAt
    <3>2. Recovered[header[i]] = slots[i] /\ Recovered'[header[i]] = slots[i]
      BY RecoveredAt, RecoveredNext DEF Found
    <3> QED BY <3>1, <3>2
  <2> QED BY <2>1, <2>2
<1> QED BY <1>4, RecoveredAt, RecoveredNext DEF Found

LEMMA AbstractInit == Init => Abstract!Init
<1> SUFFICES ASSUME Init PROVE Abstract!Init
  OBVIOUS
<1>1. Recovered = disk
  <2>1. header = <<>>
    BY DEF Init
  <2> QED BY <2>1, LogInit, EmptyAt DEF EmptyHeader
<1>2. ~Up /\ Ops = {}
  BY DEF Init, Up, Ops
<1> QED BY <1>1, <1>2 DEF Init, Abstract!Init

\* begin_op, log_write and end_op are the abstract calls.
LEMMA CallsImplement ==
  ASSUME LogInv, NEW p \in Procs,
         \/ Begin(p) \/ EndOther(p) \/ EndLast(p)
         \/ \E b \in Blocks, v \in Values : LogWrite(p, b, v)
  PROVE  Abstract!Next \/ UNCHANGED <<Recovered, Volatile, Ops>>
<1>1. Up /\ Up' /\ Recovered' = Recovered
  <2>1. UNCHANGED <<disk, slots, header, boot>>
    BY DEF Begin, EndOther, EndLast, LogWrite, ondisk
  <2>2. Up
    BY DEF Begin, EndOther, EndLast, LogWrite, LogInv, Booting
  <2> QED BY <2>1, <2>2, SameRecovered DEF Up
<1>2. CASE Begin(p)
  <2>1. Ops' = Ops \/ Ops' = Ops \cup {p}
    <3>1. CASE committing \/ ~Fits
      <4>1. \A q \in Procs : pc'[q] = "op" <=> pc[q] = "op"
        BY <1>2, <3>1 DEF Begin, LogInv, TypeOK
      <4> QED BY <4>1 DEF Ops
    <3>2. CASE ~(committing \/ ~Fits)
      <4>1. \A q \in Procs : pc'[q] = "op" <=> pc[q] = "op" \/ q = p
        BY <1>2, <3>2 DEF Begin, LogInv, TypeOK
      <4> QED BY <4>1 DEF Ops
    <3> QED BY <3>1, <3>2
  <2>2. Volatile' = Volatile
    BY <1>1, <1>2 DEF Begin, Volatile
  <2> QED BY <1>1, <2>1, <2>2 DEF Abstract!Next, Abstract!Begin, Volatile
<1>3. CASE EndOther(p) \/ EndLast(p)
  <2>1. \A q \in Procs : pc'[q] = "op" <=> pc[q] = "op" /\ q # p
    BY <1>3 DEF EndOther, EndLast, WakeAll, LogInv, TypeOK
  <2>2. Ops' = Ops \ {p}
    BY <2>1 DEF Ops
  <2>3. Volatile' = Volatile
    BY <1>1, <1>3 DEF EndOther, EndLast, Volatile
  <2> QED BY <1>1, <2>2, <2>3 DEF Abstract!Next, Abstract!End, Volatile
<1>4. ASSUME NEW b \in Blocks, NEW v \in Values, LogWrite(p, b, v)
      PROVE  Abstract!Next
  <2>1. Ops' = Ops /\ p \in Ops
    BY <1>4 DEF LogWrite, Ops
  <2>2. Volatile' = [Volatile EXCEPT ![b] = v]
    BY <1>1, <1>4 DEF LogWrite, Volatile
  <2> QED BY <1>1, <2>1, <2>2 DEF Abstract!Next, Abstract!Write, Volatile
<1> QED BY <1>2, <1>3, <1>4

\* The header's block is the commit point, and no other write is seen.
LEMMA CommitImplements ==
  ASSUME LogInv, LogInv', NEW p \in Procs,
         WriteLog(p) \/ WriteHead(p) \/ Install(p) \/ Erase(p) \/ Finish(p)
  PROVE  Abstract!Next \/ UNCHANGED <<Recovered, Volatile, Ops>>
<1>1. Committing(p) /\ Up /\ Up' /\ Ops = {}
  <2>1. Committing(p) /\ UNCHANGED boot
    BY DEF Committing, WriteLog, WriteHead, Install, Erase, Finish
  <2> QED BY <2>1, Committer DEF Up
<1>2. Ops' = {}
  <2>1. \A q \in Procs : pc[q] # "op"
    BY <1>1 DEF Ops
  <2>2. \A q \in Procs : pc'[q] # "op"
    BY <2>1 DEF WriteLog, WriteHead, Install, Erase, Finish, Goto, WakeAll, LogInv, TypeOK
  <2> QED BY <2>2 DEF Ops
<1>3. CASE WriteLog(p)
  <2>1. header = <<>> /\ header' = <<>> /\ UNCHANGED <<disk, buf>>
    BY <1>3 DEF WriteLog, LogInv, Progress
  <2> QED BY <1>1, <1>2, <2>1, EmptyAt, EmptyNext DEF EmptyHeader, Volatile
<1>4. CASE WriteHead(p)
  <2>1. pc'[p] = "install" /\ UNCHANGED buf
    BY <1>4 DEF WriteHead, Goto, LogInv, TypeOK
  <2>2. Recovered' = buf
    BY <2>1, CommittedNext DEF CommittedHeader
  <2> QED BY <1>1, <1>2, <2>1, <2>2 DEF Abstract!Next, Abstract!Commit, Volatile
<1>5. CASE Install(p)
  <2>1. header = lh /\ tail \in 1 .. Len(lh) /\ CopyHome /\ UNCHANGED <<slots, header>>
    BY <1>5 DEF Install, LogInv, Progress, TypeOK, Lists
  <2>2. Recovered' = Recovered
    BY <2>1, CopyUnseen
  <2> QED BY <1>1, <1>2, <1>5, <2>2, KeepsInstall DEF Volatile
<1>6. CASE Erase(p)
  <2>1. pc[p] = "install" /\ tail > Len(lh) /\ header' = <<>> /\ UNCHANGED <<disk, buf>>
    BY <1>6 DEF Erase
  <2>2. Recovered = buf
    BY <2>1, CommittedAt DEF CommittedHeader
  <2>3. Recovered' = disk
    BY <2>1, EmptyNext DEF EmptyHeader
  <2>4. disk = buf
    BY <2>1, Installed DEF LogInv, TypeOK
  <2> QED BY <1>1, <1>2, <2>1, <2>2, <2>3, <2>4 DEF Volatile
<1>7. CASE Finish(p)
  <2>1. UNCHANGED <<disk, slots, header, buf>>
    BY <1>7 DEF Finish, ondisk
  <2> QED BY <1>1, <1>2, <2>1, SameRecovered DEF Volatile
<1> QED BY <1>3, <1>4, <1>5, <1>6, <1>7

\* A power failure is the abstract one, and recovery is not seen.
LEMMA RestartImplements ==
  ASSUME LogInv, LogInv', Crash \/ ReadHead \/ RecoverInstall \/ RecoverErase
  PROVE  Abstract!Next \/ UNCHANGED <<Recovered, Volatile, Ops>>
<1>1. CASE Crash
  <2>1. Recovered' = Recovered
    BY <1>1, SameRecovered DEF Crash, ondisk
  <2>2. ~Up' /\ Ops' = {}
    BY <1>1 DEF Crash, Up, Ops
  <2> QED BY <2>1, <2>2 DEF Abstract!Next, Abstract!Crash, Volatile
<1>2. CASE ReadHead
  <2>1. Recovered' = Recovered
    BY <1>2, SameRecovered DEF ReadHead, ondisk
  <2>2. ~Up /\ ~Up' /\ Ops' = Ops
    BY <1>2 DEF ReadHead, Up, Ops
  <2> QED BY <2>1, <2>2 DEF Volatile
<1>3. CASE RecoverInstall
  <2>1. header = lh /\ tail \in 1 .. Len(lh) /\ CopyHome /\ UNCHANGED <<slots, header>>
    BY <1>3 DEF RecoverInstall, LogInv, Booting, TypeOK, Lists
  <2>2. Recovered' = Recovered
    BY <2>1, CopyUnseen
  <2>3. ~Up /\ ~Up' /\ Ops' = Ops
    BY <1>3 DEF RecoverInstall, Up, Ops
  <2> QED BY <2>2, <2>3 DEF Volatile
<1>4. CASE RecoverErase
  <2>1. /\ tail > Len(lh) /\ header' = <<>> /\ UNCHANGED <<disk, buf, pc>>
        /\ ~Up /\ Up' /\ buf = disk
    BY <1>4 DEF RecoverErase, Up, LogInv, Booting
  <2>2. /\ header = lh /\ lh \in Seq(Blocks)
        /\ \A i \in 1 .. Len(lh) : i < tail => disk[lh[i]] = slots[i]
    BY <1>4 DEF RecoverErase, LogInv, Booting, Lists
  <2>3. ASSUME NEW b \in Blocks PROVE Recovered[b] = disk[b]
    <3>1. CASE b \notin Entries(header)
      BY <3>1, RecoveredAt DEF Found
    <3>2. CASE b \in Entries(header)
      <4>1. PICK i \in 1 .. Len(header) : header[i] = b
        BY <2>2, <3>2, EntryAt
      <4>2. i < tail
        BY <2>1, <2>2, <4>1 DEF LogInv, TypeOK
      <4> QED BY <2>2, <4>1, <4>2, RecoveredAt DEF Found
    <3> QED BY <3>1, <3>2
  <2>4. Recovered = disk
    BY <2>3, RecoveredAt DEF Found, LogInv, TypeOK
  <2>5. Recovered' = disk
    BY <2>1, EmptyNext DEF EmptyHeader
  <2>6. Ops' = Ops
    BY <2>1 DEF Ops
  <2> QED BY <2>1, <2>4, <2>5, <2>6 DEF Volatile
<1> QED BY <1>1, <1>2, <1>3, <1>4

LEMMA AbstractStep ==
  LogInv /\ LogInv' /\ [Next]_vars => [Abstract!Next]_<<Recovered, Volatile, Ops>>
<1> SUFFICES ASSUME LogInv, LogInv', [Next]_vars
             PROVE  Abstract!Next \/ UNCHANGED <<Recovered, Volatile, Ops>>
  OBVIOUS
<1>1. CASE Crash \/ ReadHead \/ RecoverInstall \/ RecoverErase
  BY <1>1, RestartImplements
<1>2. ASSUME NEW p \in Procs,
             \/ Begin(p) \/ EndOther(p) \/ EndLast(p)
             \/ \E b \in Blocks, v \in Values : LogWrite(p, b, v)
      PROVE  Abstract!Next \/ UNCHANGED <<Recovered, Volatile, Ops>>
  BY <1>2, CallsImplement
<1>3. ASSUME NEW p \in Procs,
             WriteLog(p) \/ WriteHead(p) \/ Install(p) \/ Erase(p) \/ Finish(p)
      PROVE  Abstract!Next \/ UNCHANGED <<Recovered, Volatile, Ops>>
  BY <1>3, CommitImplements
<1>4. CASE UNCHANGED vars
  <2>1. UNCHANGED <<disk, slots, header, buf, boot, pc>>
    BY <1>4 DEF vars, ondisk, inmem
  <2> QED BY <2>1, SameRecovered DEF Volatile, Up, Ops
<1> QED BY <1>1, <1>2, <1>3, <1>4 DEF Next

\* log.c is a disk on which the changes of a group of calls are made together,
\* and on which a crash keeps the last group committed and nothing else.
THEOREM LogCorrect == Spec => Atomic
<1>1. LogInv /\ LogInv' /\ [Next]_vars
      => [Abstract!Next]_<<Recovered, IF Up THEN buf ELSE Recovered, Ops>>
  BY AbstractStep DEF Volatile
<1> QED BY <1>1, AbstractInit, LogInvariant, PTL DEF Spec, Atomic, Abstract!Spec
=============================================================================
