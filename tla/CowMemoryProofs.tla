--------------------------- MODULE CowMemoryProofs ---------------------------
(***************************************************************************)
(* Theorems about CowMemory, for every number of processes and pages.      *)
(***************************************************************************)
EXTENDS CowMemory, FiniteSetTheorems, TLAPS

Busy    == {"forkref", "forkmap", "load", "free"}   \* dir is in use
Forking == {"forkref", "forkmap"}

\* A system call in progress has a directory, a live process one of its own.
DirsHeld ==
  \A p \in Procs : /\ pc[p] \in Busy <=> dir[p] # None
                   /\ Alive(p) => pgdir[p] # None

\* fork holds an embryo and wait a zombie, which no other call holds.
ChildHeld ==
  \A p \in Procs :
    /\ pc[p] \in Forking => child[p] # None /\ pc[child[p]] = "embryo"
    /\ child[p] # None =>
         \/ pc[p] \in Forking
         \/ pc[p] = "free" /\ pc[child[p]] = "zombie"
    /\ \A q \in Procs : child[p] = child[q] => p = q \/ child[p] = None

\* The page fork is about to map is one of the parent's.
MapBelow == \A p \in Procs : pc[p] = "forkmap" => i[p] < sz[p]

StructInv == TypeOK /\ DirsHeld /\ ChildHeld /\ MapBelow

LEMMA PickIn == \A S \in SUBSET Frames : Pick(S) \subseteq S
BY PickAssumption

LEMMA StructInit == Init => StructInv
  <1> SUFFICES ASSUME Init PROVE StructInv
      OBVIOUS
  <1>1. PICK d \in Pick(Frames) : \E f \in Pick(Frames \ {d}) :
        \E t \in Pick(Frames \ {d, f}) : InitWith(d, f, t)
    BY DEF Init
  <1>2. PICK f \in Pick(Frames \ {d}) :
          \E t \in Pick(Frames \ {d, f}) : InitWith(d, f, t)
    BY <1>1
  <1>3. PICK t \in Pick(Frames \ {d, f}) : InitWith(d, f, t)
    BY <1>2
  <1>4. d \in Frames /\ f \in Frames /\ t \in Frames
    BY PickIn
  <1> USE <1>3, <1>4, ConstAssumption DEF InitWith
  <1>5. TypeOK
    <2>1. content \in [AFrame -> Values]
      BY DEF AFrame, Values
    <2>2. tbl \in [Frames -> [Tables -> Frames \cup {None}]]
      BY DEF NoTbl, Tables
    <2>3. pa \in [Frames -> [Pages -> AFrame \cup {None}]]
      BY DEF NoMap, Pages, AFrame
    <2>4. pageref \in [AFrame -> 0 .. RefLimit - 1]
      OBVIOUS
    <2>5. pgdir \in [Procs -> Frames \cup {None}] /\ sz \in [Procs -> 0 .. MaxPages]
      OBVIOUS
    <2> QED BY <2>1, <2>2, <2>3, <2>4, <2>5 DEF TypeOK, Pages
  <1>6. DirsHeld /\ ChildHeld /\ MapBelow
    BY DEF DirsHeld, ChildHeld, MapBelow, Busy, Forking, Alive
  <1> QED BY <1>5, <1>6 DEF StructInv

-----------------------------------------------------------------------------
(* What the shared helpers do to the types.                                *)

LEMMA KfreeType ==
  ASSUME TypeOK, NEW S \in SUBSET AFrame, Kfree(S)
  PROVE  /\ free' \subseteq Frames
         /\ pageref' \in [AFrame -> 0 .. RefLimit - 1]
         /\ content' \in [AFrame -> Values]
  <1>1. pageref \in [AFrame -> 0 .. RefLimit - 1] /\ free \subseteq Frames
        /\ content \in [AFrame -> Values]
    BY DEF TypeOK
  <1>2. pageref' \in [AFrame -> 0 .. RefLimit - 1]
    <2>1. \A f \in AFrame : pageref[f] # 0 => pageref[f] - 1 \in 0 .. RefLimit - 1
      BY <1>1, ConstAssumption
    <2> QED BY <1>1, <2>1 DEF Kfree
  <1>3. content' \in [AFrame -> Values]
    BY <1>1 DEF Kfree, Values
  <1>4. free' \subseteq Frames
    BY <1>1 DEF Kfree, AFrame
  <1> QED BY <1>2, <1>3, <1>4

LEMMA SetPteType ==
  ASSUME TypeOK, NEW d \in Frames, NEW v \in Pages, NEW f \in AFrame \cup {None},
         NEW w, NEW u, SetPte(d, v, f, w, u)
  PROVE  /\ pa' \in [Frames -> [Pages -> AFrame \cup {None}]]
         /\ wr' \subseteq Frames \X Pages /\ us' \subseteq Frames \X Pages
  BY DEF TypeOK, SetPte

LEMMA WalkType ==
  ASSUME TypeOK, NEW d \in Frames, NEW v \in Pages, NEW avail \in SUBSET Frames,
         Walk(d, v, avail)
  PROVE  /\ free' \subseteq Frames
         /\ tbl' \in [Frames -> [Tables -> Frames \cup {None}]]
  <1>1. tbl \in [Frames -> [Tables -> Frames \cup {None}]]
    BY DEF TypeOK
  <1>2. CASE free' = avail /\ UNCHANGED tbl
    BY <1>1, <1>2
  <1>3. ASSUME NEW t \in Pick(avail), free' = avail \ {t},
               tbl' = [tbl EXCEPT ![d][v \div PtSpan] = t]
        PROVE  /\ free' \subseteq Frames
               /\ tbl' \in [Frames -> [Tables -> Frames \cup {None}]]
    <2>1. t \in Frames
      BY <1>3, PickIn
    <2> DEFINE k == v \div PtSpan
    <2>2. tbl' = [tbl EXCEPT ![d] = [tbl[d] EXCEPT ![k] = t]]
      BY <1>3
    <2> HIDE DEF k
    <2>3. [tbl[d] EXCEPT ![k] = t] \in [Tables -> Frames \cup {None}]
      BY <1>1, <2>1
    <2>4. tbl' \in [Frames -> [Tables -> Frames \cup {None}]]
      BY <1>1, <2>2, <2>3
    <2>5. free' \subseteq Frames
      BY <1>3
    <2> QED BY <2>4, <2>5
  <1> QED BY <1>2, <1>3 DEF Walk

-----------------------------------------------------------------------------
(* Every action preserves StructInv.  First the accesses to user memory.   *)

LEMMA HeldChild ==
  ASSUME StructInv, NEW q \in Procs, NEW c \in Procs, child[q] = c
  PROVE  pc[c] \in {"embryo", "zombie"}
  <1>1. c # None
    BY ConstAssumption
  <1> QED BY <1>1 DEF StructInv, ChildHeld, Forking

LEMMA SameProcs ==
  ASSUME StructInv, TypeOK', UNCHANGED <<pc, procs, local>>
  PROVE  StructInv'
  BY DEF StructInv, DirsHeld, ChildHeld, MapBelow, Alive, procs, local

LEMMA HereFrame ==
  ASSUME StructInv, NEW p \in Procs, Alive(p)
  PROVE  Here(p) \in Frames
  BY DEF StructInv, TypeOK, DirsHeld, Here

LEMMA StructStore ==
  ASSUME StructInv, NEW p \in Procs, NEW v \in Pages, NEW x \in Stores,
         NEW kernel, Store(p, v, x, kernel)
  PROVE  StructInv'
  <1>1. TypeOK'
    BY DEF StructInv, TypeOK, Store, Values, maps, procs, local
  <1> QED BY <1>1, SameProcs DEF Store

LEMMA StructFaultZero ==
  ASSUME StructInv, NEW p \in Procs, NEW v \in Pages, NEW kernel,
         FaultZero(p, v, kernel)
  PROVE  StructInv'
  <1>1. Here(p) \in Frames
    BY HereFrame DEF FaultZero, WriteFault, Running, Alive
  <1>2. TypeOK'
    BY <1>1, PickIn DEF StructInv, TypeOK, FaultZero, AFrame, Values, procs, local
  <1> QED BY <1>2, SameProcs DEF FaultZero

LEMMA StructFaultSole ==
  ASSUME StructInv, NEW p \in Procs, NEW v \in Pages, NEW kernel,
         FaultSole(p, v, kernel)
  PROVE  StructInv'
  <1>1. Here(p) \in Frames
    BY HereFrame DEF FaultSole, WriteFault, Running, Alive
  <1>2. TypeOK'
    BY <1>1 DEF StructInv, TypeOK, FaultSole, phys, procs, local
  <1> QED BY <1>2, SameProcs DEF FaultSole

LEMMA StructFaultCopy ==
  ASSUME StructInv, NEW p \in Procs, NEW v \in Pages, NEW kernel,
         FaultCopy(p, v, kernel)
  PROVE  StructInv'
  <1> DEFINE src == pa[Here(p)][v]
  <1>1. Here(p) \in Frames
    BY HereFrame DEF FaultCopy, WriteFault, Running, Alive
  <1>2. PICK mem \in Pick(free) :
          /\ free' = free \ {mem}
          /\ content' = [content EXCEPT ![mem] = content[src]]
          /\ pa' = [pa EXCEPT ![Here(p)][v] = mem]
          /\ wr' = wr \cup {<<Here(p), v>>}
          /\ pageref' = [pageref EXCEPT ![src] = @ - 1]
    BY DEF FaultCopy
  <1>3. src \in AFrame /\ pageref[src] # 0
    BY <1>1 DEF FaultCopy, WriteFault, StructInv, TypeOK
  <1>4. mem \in Frames
    BY PickIn DEF StructInv, TypeOK
  <1>5. pageref[src] - 1 \in 0 .. RefLimit - 1
    <2>1. pageref \in [AFrame -> 0 .. RefLimit - 1]
      BY DEF StructInv, TypeOK
    <2> QED BY <1>3, <2>1, ConstAssumption
  <1> HIDE DEF src
  <1>6. TypeOK'
    <2>1. pageref' \in [AFrame -> 0 .. RefLimit - 1]
      BY <1>2, <1>5 DEF StructInv, TypeOK
    <2>2. content' \in [AFrame -> Values]
      BY <1>2, <1>3 DEF StructInv, TypeOK
    <2>3. pa' \in [Frames -> [Pages -> AFrame \cup {None}]]
      BY <1>1, <1>2, <1>4 DEF StructInv, TypeOK, AFrame
    <2> QED BY <1>1, <1>2, <2>1, <2>2, <2>3
        DEF StructInv, TypeOK, FaultCopy, procs, local
  <1> QED BY <1>6, SameProcs DEF FaultCopy

\* A process is killed.
LEMMA StructKilled ==
  ASSUME StructInv, NEW p \in Procs, pc[p] = "user",
         pc' = [pc EXCEPT ![p] = "killed"], UNCHANGED <<pgdir, local>>,
         \A q \in Procs \ {p} : sz'[q] = sz[q], TypeOK'
  PROVE  StructInv'
  <1> USE DEF StructInv
  <1>1. DirsHeld'
    BY DEF TypeOK, DirsHeld, Busy, Alive, local
  <1>2. ChildHeld'
    BY DEF TypeOK, ChildHeld, Forking, local
  <1>3. MapBelow'
    BY DEF TypeOK, MapBelow, local
  <1> QED BY <1>1, <1>2, <1>3

LEMMA StructKill ==
  ASSUME StructInv, NEW p \in Procs, NEW v \in Pages,
         FaultKill(p, v) \/ FaultNoMem(p, v)
  PROVE  StructInv'
  <1>1. /\ pc[p] = "user" /\ pc' = [pc EXCEPT ![p] = "killed"]
        /\ UNCHANGED <<phys, maps, procs, local>>
    BY DEF FaultKill, FaultNoMem, WriteFault, Running
  <1>2. TypeOK'
    BY <1>1 DEF StructInv, TypeOK, phys, maps, procs, local
  <1> QED BY <1>1, <1>2, StructKilled DEF procs

-----------------------------------------------------------------------------
(* sbrk                                                                    *)

\* The sizes change of a process outside fork.
LEMMA SameButSize ==
  ASSUME StructInv, UNCHANGED <<pc, pgdir, local>>, TypeOK',
         NEW p \in Procs, pc[p] = "user", \A q \in Procs \ {p} : sz'[q] = sz[q]
  PROVE  StructInv'
  <1> USE DEF StructInv
  <1>1. DirsHeld' /\ ChildHeld'
    BY DEF DirsHeld, ChildHeld, Alive, local
  <1>2. MapBelow'
    BY DEF MapBelow, local
  <1> QED BY <1>1, <1>2

LEMMA StructGrow ==
  ASSUME StructInv, NEW p \in Procs, Grow(p)
  PROVE  StructInv'
  <1> DEFINE d == Here(p)
  <1> DEFINE v == sz[p]
  <1>1. d \in Frames /\ pc[p] = "user"
    BY HereFrame DEF Grow, Running, Alive
  <1>2. v \in Pages /\ sz' = [sz EXCEPT ![p] = v + 1] /\ Zero \in AFrame
    BY ConstAssumption DEF Grow, StructInv, TypeOK, Pages, AFrame
  <1>3. /\ sz' \in [Procs -> 0 .. MaxPages]
        /\ \A q \in Procs \ {p} : sz'[q] = sz[q]
    BY <1>2, ConstAssumption DEF StructInv, TypeOK, Pages
  <1>4. UNCHANGED <<dirs, pgdir, parent, dir, child, i>>
    BY DEF Grow, local
  <1>5. CASE Walk(d, v, free) /\ SetPte(d, v, Zero, FALSE, TRUE)
             /\ UNCHANGED <<pageref, content, pc>>
    <2>1. TypeOK
      BY DEF StructInv
    <2> HIDE DEF d, v
    <2>2. /\ free' \subseteq Frames
          /\ tbl' \in [Frames -> [Tables -> Frames \cup {None}]]
      BY <1>1, <1>2, <1>5, <2>1, WalkType DEF TypeOK
    <2>3. /\ pa' \in [Frames -> [Pages -> AFrame \cup {None}]]
          /\ wr' \subseteq Frames \X Pages /\ us' \subseteq Frames \X Pages
      BY <1>1, <1>2, <1>5, <2>1, SetPteType
    <2>4. TypeOK'
      BY <1>3, <1>4, <1>5, <2>1, <2>2, <2>3 DEF TypeOK
    <2> QED BY <1>1, <1>3, <1>4, <1>5, <2>4, SameButSize DEF local
  <1>6. CASE /\ pc' = [pc EXCEPT ![p] = "killed"]
             /\ UNCHANGED <<phys, tbl, pa, wr, us>>
    <2>1. TypeOK'
      BY <1>3, <1>4, <1>6 DEF StructInv, TypeOK, phys
    <2> QED BY <1>1, <1>3, <1>4, <1>6, <2>1, StructKilled DEF local
  <1> QED BY <1>5, <1>6 DEF Grow

LEMMA StructShrink ==
  ASSUME StructInv, NEW p \in Procs, Shrink(p)
  PROVE  StructInv'
  <1> DEFINE d == Here(p)
  <1> DEFINE v == sz[p] - 1
  <1> DEFINE S == {pa[d][v]} \ {None}
  <1>1. /\ d \in Frames /\ pc[p] = "user" /\ v \in Pages /\ Kfree(S)
        /\ SetPte(d, v, None, FALSE, FALSE)
        /\ UNCHANGED <<dirs, tbl, pc, pgdir, parent, dir, child, i>>
    BY HereFrame DEF Shrink, Running, Alive, ClearPte, local
  <1>2. TypeOK /\ S \in SUBSET AFrame
    BY <1>1 DEF StructInv, TypeOK
  <1>3. sz' = [sz EXCEPT ![p] = v] \/ sz' = sz
    BY DEF Shrink
  <1>4. /\ sz' \in [Procs -> 0 .. MaxPages]
        /\ \A q \in Procs \ {p} : sz'[q] = sz[q]
    <2>1. v \in 0 .. MaxPages /\ sz \in [Procs -> 0 .. MaxPages]
      BY <1>1, <1>2, ConstAssumption DEF TypeOK, Pages
    <2> HIDE DEF v
    <2> QED BY <1>3, <2>1
  <1> HIDE DEF d, v, S
  <1>5. TypeOK'
    <2>1. /\ free' \subseteq Frames
          /\ pageref' \in [AFrame -> 0 .. RefLimit - 1]
          /\ content' \in [AFrame -> Values]
      BY <1>1, <1>2, KfreeType
    <2>2. /\ pa' \in [Frames -> [Pages -> AFrame \cup {None}]]
          /\ wr' \subseteq Frames \X Pages /\ us' \subseteq Frames \X Pages
      BY <1>1, <1>2, SetPteType
    <2> QED BY <1>1, <1>2, <1>4, <2>1, <2>2 DEF TypeOK
  <1> QED BY <1>1, <1>4, <1>5, SameButSize DEF local

-----------------------------------------------------------------------------
(* fork                                                                    *)

LEMMA SetupkvmType ==
  ASSUME TypeOK, NEW d \in Frames, Setupkvm(d)
  PROVE  free' \subseteq Frames /\ dirs' \subseteq Frames
  BY DEF TypeOK, Setupkvm

LEMMA StructForkBegin ==
  ASSUME StructInv, NEW p \in Procs, NEW c \in Procs, ForkBegin(p, c)
  PROVE  StructInv'
  <1>1. PICK d \in Frames : Setupkvm(d) /\ Start(p, "forkref", d, c)
    BY DEF ForkBegin
  <1>2. /\ pc[p] = "user" /\ pc[c] = "unused"
        /\ UNCHANGED <<pageref, content, tbl, pa, wr, us, pgdir, sz, parent>>
    BY DEF ForkBegin, Running, procs
  <1>3. /\ dir' = [dir EXCEPT ![p] = d]
        /\ child' = [child EXCEPT ![p] = c]
        /\ i' = [i EXCEPT ![p] = 0]
        /\ pc' = [pc EXCEPT ![p] = "forkref", ![c] = "embryo"]
    BY <1>1 DEF Start
  <1>4. TypeOK /\ DirsHeld /\ ChildHeld /\ MapBelow
    BY DEF StructInv
  <1>5. TypeOK'
    BY <1>1, <1>2, <1>3, <1>4, SetupkvmType, ConstAssumption DEF TypeOK
  <1>6. p # c /\ pc'[p] = "forkref" /\ pc'[c] = "embryo"
        /\ \A q \in Procs \ {p, c} : pc'[q] = pc[q]
    BY <1>2, <1>3, <1>4 DEF TypeOK
  <1>7. DirsHeld'
    BY <1>2, <1>3, <1>4, <1>6, ConstAssumption DEF DirsHeld, TypeOK, Busy, Alive
  <1>8. ChildHeld'
    <2>1. child'[p] = c /\ \A q \in Procs \ {p} : child'[q] = child[q]
      BY <1>3, <1>4 DEF TypeOK
    <2>2. \A q \in Procs : child[q] # c /\ child[q] # p
      BY <1>2, HeldChild
    <2>3. child[c] = None /\ c # None
      BY <1>2, <1>4, ConstAssumption DEF ChildHeld, Forking
    <2> QED BY <1>4, <1>6, <2>1, <2>2, <2>3 DEF ChildHeld, Forking, TypeOK
  <1>9. MapBelow'
    BY <1>2, <1>3, <1>4, <1>6 DEF MapBelow, TypeOK
  <1> QED BY <1>5, <1>7, <1>8, <1>9 DEF StructInv

LEMMA StructForkRef ==
  ASSUME StructInv, NEW p \in Procs, ForkRef(p)
  PROVE  StructInv'
  <1>1. TypeOK /\ DirsHeld /\ ChildHeld /\ MapBelow
    BY DEF StructInv
  <1>2. pc' = [pc EXCEPT ![p] = "forkmap"] /\ pc[p] = "forkref" /\ i[p] < sz[p]
    BY DEF ForkRef
  <1>3. UNCHANGED <<free, content, dirs, tbl, pa, us, pgdir, sz, parent, dir, child, i>>
    BY DEF ForkRef, procs, local
  <1>4. TypeOK'
    <2>1. Here(p) \in Frames
      BY <1>2, HereFrame DEF Alive
    <2>2. i[p] \in Pages
      BY <1>1, <1>2, ConstAssumption DEF TypeOK, Pages
    <2>3. \A n \in Int : n % RefLimit \in 0 .. RefLimit - 1
      BY ConstAssumption
    <2>4. pageref' \in [AFrame -> 0 .. RefLimit - 1]
      <3> DEFINE f == pa[Here(p)][i[p]]
      <3>1. pageref' = [pageref EXCEPT ![f] = (pageref[f] + 1) % RefLimit]
        BY DEF ForkRef
      <3>2. pageref \in [AFrame -> 0 .. RefLimit - 1]
        BY <1>1 DEF TypeOK
      <3> HIDE DEF f
      <3>3. f \in AFrame => (pageref[f] + 1) % RefLimit \in 0 .. RefLimit - 1
        BY <2>3, <3>2
      <3> QED BY <3>1, <3>2, <3>3
    <2>5. wr' \subseteq Frames \X Pages
      BY <1>1 DEF TypeOK, ForkRef
    <2> QED BY <1>1, <1>2, <1>3, <2>4, <2>5 DEF TypeOK
  <1>5. DirsHeld' /\ ChildHeld' /\ MapBelow'
    BY <1>1, <1>2, <1>3 DEF DirsHeld, ChildHeld, MapBelow, Busy, Forking, Alive, TypeOK
  <1> QED BY <1>4, <1>5 DEF StructInv

LEMMA StructForkMap ==
  ASSUME StructInv, NEW p \in Procs, ForkMap(p)
  PROVE  StructInv'
  <1> DEFINE d == dir[p]
  <1> DEFINE v == i[p]
  <1> DEFINE f == pa[Here(p)][v]
  <1>1. TypeOK /\ DirsHeld /\ ChildHeld /\ MapBelow
    BY DEF StructInv
  <1>2. /\ pc[p] = "forkmap" /\ pc' = [pc EXCEPT ![p] = "forkref"]
        /\ i' = [i EXCEPT ![p] = v + 1]
        /\ Walk(d, v, free)
        /\ SetPte(d, v, f, FALSE, <<Here(p), v>> \in us)
        /\ UNCHANGED <<pageref, content, dirs, pgdir, sz, parent, dir, child>>
    BY DEF ForkMap, procs
  <1>3. d \in Frames /\ Here(p) \in Frames
    BY <1>1, <1>2, HereFrame DEF DirsHeld, TypeOK, Busy, Alive
  <1>4. v \in Pages /\ v + 1 \in 0 .. MaxPages
    BY <1>1, <1>2, ConstAssumption DEF MapBelow, TypeOK, Pages
  <1>5. f \in AFrame \cup {None}
    BY <1>1, <1>3, <1>4 DEF TypeOK
  <1> HIDE DEF d, v, f
  <1>6. TypeOK'
    <2>1. /\ free' \subseteq Frames
          /\ tbl' \in [Frames -> [Tables -> Frames \cup {None}]]
      BY <1>1, <1>2, <1>3, <1>4, WalkType DEF TypeOK
    <2>2. /\ pa' \in [Frames -> [Pages -> AFrame \cup {None}]]
          /\ wr' \subseteq Frames \X Pages /\ us' \subseteq Frames \X Pages
      BY <1>1, <1>2, <1>3, <1>4, <1>5, SetPteType
    <2>3. i' \in [Procs -> 0 .. MaxPages]
      BY <1>1, <1>2, <1>4 DEF TypeOK
    <2> QED BY <1>1, <1>2, <2>1, <2>2, <2>3 DEF TypeOK
  <1>7. DirsHeld'
    BY <1>1, <1>2 DEF DirsHeld, Busy, Alive, TypeOK
  <1>8. ChildHeld'
    BY <1>1, <1>2 DEF ChildHeld, Forking, TypeOK
  <1>9. MapBelow'
    BY <1>1, <1>2 DEF MapBelow, TypeOK
  <1> QED BY <1>6, <1>7, <1>8, <1>9 DEF StructInv

LEMMA ReturnType ==
  ASSUME TypeOK, NEW p, NEW c, NEW s \in {"unused", "user"},
         Return(p, [pc EXCEPT ![c] = s])
  PROVE  /\ pc' \in [Procs -> {"unused", "embryo", "user", "forkref", "forkmap",
                               "load", "free", "killed", "zombie"}]
         /\ dir' \in [Procs -> Frames \cup {None}]
         /\ child' \in [Procs -> Procs \cup {None}]
         /\ i' \in [Procs -> 0 .. MaxPages]
  <1>1. 0 \in 0 .. MaxPages
    BY ConstAssumption
  <1> QED BY <1>1 DEF TypeOK, Return

\* A call ends: dir and child are given up, and the child's state settled.
LEMMA StructReturn ==
  ASSUME StructInv, TypeOK', NEW p \in Procs, NEW c, NEW s, pc[p] \in Busy,
         c = child[p], s \in {"unused", "user"}, Return(p, [pc EXCEPT ![c] = s]),
         \A q \in Procs : sz'[q] = sz[q] \/ q = c,
         \A q \in Procs : q # c => pgdir'[q] = pgdir[q],
         s = "user" => c \in Procs /\ pgdir'[c] # None
  PROVE  StructInv'
  <1>1. TypeOK /\ DirsHeld /\ ChildHeld /\ MapBelow
    BY DEF StructInv
  <1>2. /\ dir' = [dir EXCEPT ![p] = None] /\ child' = [child EXCEPT ![p] = None]
        /\ pc' = [[pc EXCEPT ![c] = s] EXCEPT ![p] = "user"]
        /\ i' = [i EXCEPT ![p] = 0]
    BY DEF Return
  <1>3. c # p /\ \A q \in Procs : q # p => child[q] # c \/ c = None
    <2>1. c \in Procs => pc[c] \in {"embryo", "zombie"}
      BY HeldChild
    <2> QED BY <1>1, <2>1 DEF ChildHeld, Busy, TypeOK
  <1>4. c \in Procs => pc[c] \in {"embryo", "zombie"} /\ dir[c] = None /\ child[c] = None
    BY <1>1, HeldChild DEF DirsHeld, ChildHeld, Busy, Forking
  <1>5. /\ pc'[p] = "user" /\ (c \in Procs => pc'[c] = s)
        /\ \A q \in Procs \ {p, c} : pc'[q] = pc[q]
    BY <1>1, <1>2, <1>3 DEF TypeOK
  <1>6. DirsHeld'
    <2>1. dir'[p] = None /\ \A q \in Procs \ {p} : dir'[q] = dir[q]
      BY <1>1, <1>2 DEF TypeOK
    <2>2. pgdir'[p] # None
      BY <1>1, <1>3 DEF DirsHeld, Alive, Busy
    <2>3. \A q \in Procs \ {p, c} : pgdir'[q] = pgdir[q]
      OBVIOUS
    <2>4. c \in Procs => pc'[c] = "unused" \/ pgdir'[c] # None
      BY <1>1, <1>4, <1>5 DEF DirsHeld, Alive
    <2> QED BY <1>1, <1>4, <1>5, <2>1, <2>2, <2>3, <2>4 DEF DirsHeld, Busy, Alive
  <1>7. ChildHeld'
    <2>1. child'[p] = None /\ \A q \in Procs \ {p} : child'[q] = child[q]
      BY <1>1, <1>2 DEF TypeOK
    <2>2. \A q \in Procs : child[q] # p
      BY HeldChild DEF Busy
    <2>3. \A q \in Procs \ {p} : child[q] # None =>
            q # c /\ child[q] \in Procs \ {p, c}
      BY <1>1, <1>3, <1>4, <2>2 DEF TypeOK
    <2>4. \A q \in Procs \ {p} : child[q] # None =>
            pc'[q] = pc[q] /\ pc'[child[q]] = pc[child[q]]
      BY <1>5, <2>3
    <2>5. pc'[c] \notin Forking \/ c \notin Procs
      BY <1>5 DEF Forking
    <2>6. \A q \in Procs \ {p} : pc'[q] \in Forking =>
            child[q] # None /\ pc'[q] = pc[q]
      BY <1>1, <1>5, <2>5 DEF ChildHeld
    <2> QED BY <1>1, <1>5, <2>1, <2>3, <2>4, <2>6 DEF ChildHeld, Forking
  <1>8. MapBelow'
    <2>1. \A q \in Procs \ {p, c} : i'[q] = i[q] /\ sz'[q] = sz[q]
      BY <1>1, <1>2 DEF TypeOK
    <2> QED BY <1>1, <1>5, <2>1 DEF MapBelow
  <1> QED BY <1>6, <1>7, <1>8 DEF StructInv

LEMMA StructForkFail ==
  ASSUME StructInv, NEW p \in Procs, ForkFail(p)
  PROVE  StructInv'
  <1> DEFINE c == child[p]
  <1>1. TypeOK
    BY DEF StructInv
  <1>2. /\ pc[p] = "forkmap" /\ pgdir' = [pgdir EXCEPT ![c] = None]
        /\ Return(p, [pc EXCEPT ![c] = "unused"])
        /\ UNCHANGED <<phys, maps, sz, parent>>
    BY DEF ForkFail
  <1>3. pc[p] \in Busy /\ c = child[p]
    BY <1>2 DEF Busy
  <1> HIDE DEF c
  <1>4. pgdir' \in [Procs -> Frames \cup {None}]
        /\ \A q \in Procs : q # c => pgdir'[q] = pgdir[q]
    BY <1>1, <1>2 DEF TypeOK
  <1>5. TypeOK'
    BY <1>1, <1>2, <1>4, ReturnType DEF TypeOK, phys, maps
  <1> QED BY <1>2, <1>3, <1>4, <1>5, StructReturn

LEMMA StructForkDone ==
  ASSUME StructInv, NEW p \in Procs, ForkDone(p)
  PROVE  StructInv'
  <1> DEFINE c == child[p]
  <1>1. TypeOK /\ dir[p] \in Frames
    BY DEF StructInv, ForkDone, DirsHeld, TypeOK, Busy
  <1>2. /\ pc[p] = "forkref" /\ pgdir' = [pgdir EXCEPT ![c] = dir[p]]
        /\ sz' = [sz EXCEPT ![c] = sz[p]]
        /\ parent' = [parent EXCEPT ![c] = p]
        /\ Return(p, [pc EXCEPT ![c] = "user"])
        /\ UNCHANGED <<phys, maps>>
    BY DEF ForkDone
  <1>3. pc[p] \in Busy /\ c = child[p]
    BY <1>2 DEF Busy
  <1> HIDE DEF c
  <1>4. /\ pgdir' \in [Procs -> Frames \cup {None}]
        /\ \A q \in Procs : q # c => pgdir'[q] = pgdir[q]
        /\ c \in Procs /\ pgdir'[c] # None
    <2>1. pgdir \in [Procs -> Frames \cup {None}] /\ dir[p] # None
      BY <1>1, ConstAssumption DEF TypeOK
    <2>2. \A q \in Procs : /\ q = c => pgdir'[q] = dir[p]
                           /\ q # c => pgdir'[q] = pgdir[q]
      BY <1>2, <2>1
    <2>3. pgdir' \in [Procs -> Frames \cup {None}]
      BY <1>1, <1>2, <2>1
    <2>4. c \in Procs
      BY <1>1, <1>2, <1>3 DEF StructInv, ChildHeld, Forking, TypeOK
    <2> QED BY <2>1, <2>2, <2>3, <2>4
  <1>5. /\ sz' \in [Procs -> 0 .. MaxPages]
        /\ \A q \in Procs : sz'[q] = sz[q] \/ q = c
    BY <1>1, <1>2 DEF TypeOK
  <1>6. TypeOK'
    <2>1. parent' \in [Procs -> Procs \cup {None}]
      BY <1>1, <1>2 DEF TypeOK
    <2> QED BY <1>1, <1>2, <1>4, <1>5, <2>1, ReturnType DEF TypeOK, phys, maps
  <1> QED BY <1>2, <1>3, <1>4, <1>5, <1>6, StructReturn

-----------------------------------------------------------------------------
(* exec, exit and wait                                                     *)

\* A call begins, or goes on to free a directory.
LEMMA StructStart ==
  ASSUME StructInv, TypeOK', NEW p \in Procs, NEW what \in {"load", "free"},
         NEW d \in Frames, NEW c \in Procs \cup {None}, Start(p, what, d, c),
         pc[p] = "user" \/ pc[p] = "load",
         c # None => /\ what = "free" /\ pc[c] = "zombie"
                     /\ \A q \in Procs : child[q] # c,
         \A q \in Procs : q # p => sz'[q] = sz[q],
         \A q \in Procs : pgdir'[q] # pgdir[q] => pgdir'[q] # None
  PROVE  StructInv'
  <1>1. TypeOK /\ DirsHeld /\ ChildHeld /\ MapBelow
    BY DEF StructInv
  <1>2. /\ dir' = [dir EXCEPT ![p] = d] /\ child' = [child EXCEPT ![p] = c]
        /\ i' = [i EXCEPT ![p] = 0] /\ pc' = [pc EXCEPT ![p] = what]
    BY DEF Start
  <1>3. pc'[p] = what /\ \A q \in Procs \ {p} : pc'[q] = pc[q]
    BY <1>1, <1>2 DEF TypeOK
  <1>4. DirsHeld'
    BY <1>1, <1>2, <1>3, ConstAssumption DEF DirsHeld, Busy, Alive, TypeOK
  <1>5. ChildHeld'
    <2>1. child'[p] = c /\ \A q \in Procs \ {p} : child'[q] = child[q]
      BY <1>1, <1>2 DEF TypeOK
    <2>2. \A q \in Procs : child[q] # p
      BY HeldChild
    <2>3. \A q \in Procs \ {p} : child[q] # None =>
            child[q] \in Procs \ {p} /\ pc'[child[q]] = pc[child[q]] /\ child[q] # c
      BY <1>1, <1>3, <2>2 DEF TypeOK
    <2>4. c # None => what = "free" /\ pc'[c] = "zombie"
      BY <1>3
    <2>5. \A q \in Procs \ {p} : pc'[q] \in Forking => child[q] # None
      BY <1>1, <1>3 DEF ChildHeld
    <2> QED BY <1>1, <1>3, <2>1, <2>3, <2>4, <2>5 DEF ChildHeld, Forking
  <1>6. MapBelow'
    BY <1>1, <1>2, <1>3 DEF MapBelow, TypeOK
  <1> QED BY <1>4, <1>5, <1>6 DEF StructInv

LEMMA StartType ==
  ASSUME TypeOK, NEW p, NEW what \in {"load", "free"}, NEW d \in Frames,
         NEW c \in Procs \cup {None}, Start(p, what, d, c)
  PROVE  /\ pc' \in [Procs -> {"unused", "embryo", "user", "forkref", "forkmap",
                               "load", "free", "killed", "zombie"}]
         /\ dir' \in [Procs -> Frames \cup {None}]
         /\ child' \in [Procs -> Procs \cup {None}]
         /\ i' \in [Procs -> 0 .. MaxPages]
  <1>1. 0 \in 0 .. MaxPages
    BY ConstAssumption
  <1> QED BY <1>1 DEF TypeOK, Start

LEMMA StructExecBegin ==
  ASSUME StructInv, NEW p \in Procs, ExecBegin(p)
  PROVE  StructInv'
  <1>1. PICK d \in Frames : Setupkvm(d) /\ Start(p, "load", d, None)
    BY DEF ExecBegin
  <1>2. pc[p] = "user" /\ UNCHANGED <<pageref, content, tbl, pa, wr, us, procs>>
    BY DEF ExecBegin, Running
  <1>3. TypeOK
    BY DEF StructInv
  <1>4. TypeOK'
    BY <1>1, <1>2, <1>3, StartType, SetupkvmType DEF TypeOK, procs
  <1> QED BY <1>1, <1>2, <1>4, StructStart DEF procs

LEMMA StructExecPage ==
  ASSUME StructInv, NEW p \in Procs, ExecPage(p)
  PROVE  StructInv'
  <1> DEFINE v == i[p]
  <1> DEFINE guard == v = TextPages
  <1>1. TypeOK /\ DirsHeld /\ ChildHeld /\ MapBelow
    BY DEF StructInv
  <1>2. PICK mem \in Pick(free) :
          /\ Walk(dir[p], v, free \ {mem})
          /\ SetPte(dir[p], v, mem, ~guard, ~guard)
          /\ content' = IF guard THEN content ELSE [content EXCEPT ![mem] = Image]
    BY DEF ExecPage
  <1>3. /\ pc[p] = "load" /\ v < MaxPages /\ i' = [i EXCEPT ![p] = v + 1]
        /\ UNCHANGED <<pageref, dirs, pc, procs, dir, child>>
    BY DEF ExecPage
  <1>4. /\ dir[p] \in Frames /\ mem \in Frames /\ v \in Pages /\ v + 1 \in 0 .. MaxPages
        /\ free \ {mem} \subseteq Frames
    <2>1. dir[p] \in Frames /\ mem \in Frames /\ free \ {mem} \subseteq Frames
      BY <1>1, <1>3, PickIn DEF DirsHeld, TypeOK, Busy
    <2>2. v \in 0 .. MaxPages /\ MaxPages \in Nat
      BY <1>1, ConstAssumption DEF TypeOK
    <2>3. v \in Pages /\ v + 1 \in 0 .. MaxPages
      BY <1>3, <2>2 DEF Pages
    <2> QED BY <2>1, <2>3
  <1> HIDE DEF v, guard
  <1>5. TypeOK'
    <2>1. /\ free' \subseteq Frames
          /\ tbl' \in [Frames -> [Tables -> Frames \cup {None}]]
      BY <1>1, <1>2, <1>4, WalkType
    <2>2. mem \in AFrame \cup {None} /\ mem \in AFrame
      BY <1>4 DEF AFrame
    <2>3. /\ pa' \in [Frames -> [Pages -> AFrame \cup {None}]]
          /\ wr' \subseteq Frames \X Pages /\ us' \subseteq Frames \X Pages
      BY <1>1, <1>2, <1>4, <2>2, SetPteType
    <2>4. content' \in [AFrame -> Values]
      BY <1>1, <1>2, <2>2 DEF TypeOK, Values
    <2>5. i' \in [Procs -> 0 .. MaxPages]
      BY <1>1, <1>3, <1>4 DEF TypeOK
    <2> QED BY <1>1, <1>3, <2>1, <2>3, <2>4, <2>5 DEF TypeOK, procs
  <1>6. DirsHeld' /\ ChildHeld'
    BY <1>1, <1>3 DEF DirsHeld, ChildHeld, Alive, procs
  <1>7. MapBelow'
    BY <1>1, <1>3 DEF MapBelow, TypeOK, procs
  <1> QED BY <1>5, <1>6, <1>7 DEF StructInv

LEMMA StructExecFail ==
  ASSUME StructInv, NEW p \in Procs, ExecFail(p)
  PROVE  StructInv'
  <1>1. /\ pc[p] = "load" /\ Start(p, "free", dir[p], None)
        /\ UNCHANGED <<phys, maps, procs>>
    BY DEF ExecFail
  <1>2. TypeOK /\ dir[p] \in Frames
    BY <1>1 DEF StructInv, DirsHeld, TypeOK, Busy
  <1>3. TypeOK'
    BY <1>1, <1>2, StartType DEF TypeOK, phys, maps, procs
  <1> QED BY <1>1, <1>2, <1>3, StructStart DEF procs

LEMMA StructExecCommit ==
  ASSUME StructInv, NEW p \in Procs, ExecCommit(p)
  PROVE  StructInv'
  <1>1. /\ pc[p] = "load" /\ i[p] = ImagePages
        /\ pgdir' = [pgdir EXCEPT ![p] = dir[p]]
        /\ sz' = [sz EXCEPT ![p] = ImagePages]
        /\ Start(p, "free", Here(p), None)
        /\ UNCHANGED <<phys, maps, parent>>
    BY DEF ExecCommit
  <1>2. TypeOK /\ dir[p] \in Frames /\ Here(p) \in Frames
    BY <1>1, HereFrame DEF StructInv, DirsHeld, TypeOK, Busy, Alive
  <1>3. /\ pgdir' \in [Procs -> Frames \cup {None}]
        /\ sz' \in [Procs -> 0 .. MaxPages]
        /\ \A q \in Procs : q # p => sz'[q] = sz[q]
    BY <1>1, <1>2 DEF TypeOK
  <1>4. \A q \in Procs : pgdir'[q] # pgdir[q] => pgdir'[q] # None
    BY <1>1, <1>2, ConstAssumption DEF TypeOK
  <1>5. TypeOK'
    BY <1>1, <1>2, <1>3, StartType DEF TypeOK, phys, maps
  <1> QED BY <1>1, <1>2, <1>3, <1>4, <1>5, StructStart

LEMMA StructExit ==
  ASSUME StructInv, NEW p \in Procs, Exit(p)
  PROVE  StructInv'
  <1>1. /\ pc[p] \in {"user", "killed"} /\ pc' = [pc EXCEPT ![p] = "zombie"]
        /\ parent' = [c \in Procs |-> IF parent[c] = p THEN InitProc ELSE parent[c]]
        /\ UNCHANGED <<phys, maps, pgdir, sz, local>>
    BY DEF Exit, Running
  <1>2. TypeOK /\ DirsHeld /\ ChildHeld /\ MapBelow
    BY DEF StructInv
  <1>3. parent' \in [Procs -> Procs \cup {None}]
    BY <1>1, <1>2, ConstAssumption DEF TypeOK
  <1>4. TypeOK'
    BY <1>1, <1>2, <1>3 DEF TypeOK, phys, maps, local
  <1>5. DirsHeld'
    BY <1>1, <1>2 DEF DirsHeld, Busy, Alive, TypeOK, local
  <1>6. ChildHeld'
    BY <1>1, <1>2 DEF ChildHeld, Forking, TypeOK, local
  <1>7. MapBelow'
    BY <1>1, <1>2 DEF MapBelow, TypeOK, local
  <1> QED BY <1>4, <1>5, <1>6, <1>7 DEF StructInv

LEMMA StructReap ==
  ASSUME StructInv, NEW p \in Procs, NEW c \in Procs, Reap(p, c)
  PROVE  StructInv'
  <1>1. /\ pc[p] = "user" /\ PtableFree /\ pc[c] = "zombie"
        /\ Start(p, "free", pgdir[c], c)
        /\ UNCHANGED <<phys, maps, procs>>
    BY DEF Reap, Running
  <1>2. TypeOK /\ pgdir[c] \in Frames
    BY <1>1 DEF StructInv, DirsHeld, TypeOK, Alive
  <1>3. TypeOK'
    BY <1>1, <1>2, StartType DEF TypeOK, phys, maps, procs
  <1>4. \A q \in Procs : child[q] # c
    <2>1. c # None
      BY ConstAssumption
    <2> QED BY <1>1, <2>1 DEF PtableFree, StructInv, ChildHeld, Forking
  <1> QED BY <1>1, <1>2, <1>3, <1>4, StructStart DEF procs

LEMMA StructFreePage ==
  ASSUME StructInv, NEW p \in Procs, FreePage(p)
  PROVE  StructInv'
  <1>1. PICK v \in Pages : /\ pa[dir[p]][v] # None
                           /\ Kfree({pa[dir[p]][v]})
                           /\ SetPte(dir[p], v, None, FALSE, FALSE)
    BY DEF FreePage, ClearPte
  <1>2. TypeOK /\ dir[p] \in Frames
    BY DEF StructInv, FreePage, DirsHeld, TypeOK, Busy
  <1>3. {pa[dir[p]][v]} \in SUBSET AFrame
    BY <1>1, <1>2 DEF TypeOK
  <1>4. UNCHANGED <<dirs, tbl, pc, procs, local>>
    BY DEF FreePage
  <1>5. TypeOK'
    <2>1. /\ free' \subseteq Frames
          /\ pageref' \in [AFrame -> 0 .. RefLimit - 1]
          /\ content' \in [AFrame -> Values]
      BY <1>1, <1>2, <1>3, KfreeType
    <2>2. /\ pa' \in [Frames -> [Pages -> AFrame \cup {None}]]
          /\ wr' \subseteq Frames \X Pages /\ us' \subseteq Frames \X Pages
      BY <1>1, <1>2, SetPteType
    <2> QED BY <1>2, <1>4, <2>1, <2>2 DEF TypeOK, procs, local
  <1> QED BY <1>4, <1>5, SameProcs

LEMMA StructFreeDir ==
  ASSUME StructInv, NEW p \in Procs, FreeDir(p)
  PROVE  StructInv'
  <1> DEFINE d == dir[p]
  <1> DEFINE c == child[p]
  <1> DEFINE S == {d} \cup ({tbl[d][k] : k \in Tables} \ {None})
  <1>1. /\ pc[p] = "free" /\ Kfree(S)
        /\ dirs' = dirs \ {d} /\ tbl' = [tbl EXCEPT ![d] = NoTbl]
        /\ UNCHANGED <<pa, wr, us, pgdir, sz>>
    BY DEF FreeDir
  <1>2. TypeOK /\ d \in Frames
    BY <1>1 DEF StructInv, DirsHeld, TypeOK, Busy
  <1>3. S \in SUBSET AFrame
    BY <1>2 DEF TypeOK, AFrame
  <1>4. /\ free' \subseteq Frames
        /\ pageref' \in [AFrame -> 0 .. RefLimit - 1]
        /\ content' \in [AFrame -> Values]
    <2> HIDE DEF S
    <2> QED BY <1>1, <1>2, <1>3, KfreeType
  <1>5. tbl' \in [Frames -> [Tables -> Frames \cup {None}]]
    BY <1>1, <1>2 DEF TypeOK, NoTbl
  <1> HIDE DEF S
  <1>6. Return(p, [pc EXCEPT ![c] = "unused"])
    <2>1. CASE c = None
      <3>1. [pc EXCEPT ![c] = "unused"] = pc
        BY <1>2, <2>1, ConstAssumption DEF TypeOK
      <3> QED BY <2>1, <3>1 DEF FreeDir
    <2> QED BY <2>1 DEF FreeDir
  <1>7. parent' \in [Procs -> Procs \cup {None}]
    BY <1>2 DEF FreeDir, TypeOK
  <1>8. TypeOK'
    <2> HIDE DEF c, d
    <2> QED BY <1>1, <1>2, <1>4, <1>5, <1>6, <1>7, ReturnType DEF TypeOK
  <1>9. pc[p] \in Busy
    BY <1>1 DEF Busy
  <1> QED BY <1>1, <1>6, <1>8, <1>9, StructReturn

-----------------------------------------------------------------------------

LEMMA StructNext == StructInv /\ [Next]_vars => StructInv'
  <1> SUFFICES ASSUME StructInv, [Next]_vars PROVE StructInv'
      OBVIOUS
  <1>1. CASE UNCHANGED vars
    BY <1>1 DEF vars, phys, maps, procs, local, StructInv, TypeOK, DirsHeld,
                ChildHeld, MapBelow, Alive
  <1>2. ASSUME NEW p \in Procs, Access(p) PROVE StructInv'
    BY <1>2, StructStore, StructFaultZero, StructFaultSole, StructFaultCopy,
       StructKill DEF Access
  <1>3. ASSUME NEW p \in Procs, Grow(p) \/ Shrink(p) PROVE StructInv'
    BY <1>3, StructGrow, StructShrink
  <1>4. ASSUME NEW p \in Procs, Fork(p) PROVE StructInv'
    BY <1>4, StructForkBegin, StructForkRef, StructForkMap, StructForkFail,
       StructForkDone DEF Fork
  <1>5. ASSUME NEW p \in Procs, Exec(p) PROVE StructInv'
    BY <1>5, StructExecBegin, StructExecPage, StructExecFail, StructExecCommit
       DEF Exec
  <1>6. ASSUME NEW p \in Procs, Exit(p) \/ Wait(p) PROVE StructInv'
    BY <1>6, StructExit, StructReap, StructFreePage, StructFreeDir DEF Wait
  <1> QED BY <1>1, <1>2, <1>3, <1>4, <1>5, <1>6 DEF Next

\* The state always has its type, and every call in progress holds what it
\* works on: fork a directory and an embryo, exec a directory, wait a zombie
\* and its directory, none of them held by another call.
THEOREM Struct == Spec => []StructInv
  <1>1. Init => StructInv
    BY StructInit
  <1>2. StructInv /\ [Next]_vars => StructInv'
    BY StructNext
  <1> QED BY <1>1, <1>2, PTL DEF Spec

\* TypeOK, which the runs check, is part of it.
THEOREM TypeCorrect == Spec => []TypeOK
  <1>1. StructInv => TypeOK
    BY DEF StructInv
  <1> QED BY <1>1, Struct, PTL

-----------------------------------------------------------------------------
(***************************************************************************)
(* The reference counts keep physical pages apart: no page in use is ever  *)
(* handed out, and a writable page has one mapping.                        *)
(***************************************************************************)

\* A live process has a directory of its own, and so has every system call in
\* progress; only wait works on the directory of another process, the zombie
\* it is reaping.
DirsOwned ==
  \A p \in Procs : /\ Alive(p) => pgdir[p] \in dirs
                   /\ dir[p] # None => dir[p] \in dirs
SoleOwner ==
  \A p, q \in Procs :
    /\ Alive(p) /\ Alive(q) /\ pgdir[p] = pgdir[q] => p = q
    /\ dir[p] = dir[q] => p = q \/ dir[p] = None
    /\ Alive(q) /\ dir[p] = pgdir[q] => pc[p] = "free" /\ child[p] = q
OwnInv == DirsOwned /\ SoleOwner

\* A page that is not a directory maps nothing, and a page table hangs in one
\* place.
Blank   == \A d \in Frames \ dirs : pa[d] = NoMap /\ tbl[d] = NoTbl
TblSole == \A d, e \in Frames : \A k, l \in Tables :
             tbl[d][k] = tbl[e][l] => tbl[d][k] = None \/ (d = e /\ k = l)

PageInv == Blank /\ TblSole /\ RolesDisjoint /\ RefsCovered /\ WritableSole
MemInv  == StructInv /\ OwnInv /\ PageInv

-----------------------------------------------------------------------------
(* Sets of mappings.                                                       *)

LEMMA RefsFinite == \A f \in Frames : IsFiniteSet(Refs(f))
  <1>1. IsFiniteSet(Pages)
    BY FS_Interval, ConstAssumption DEF Pages
  <1>2. IsFiniteSet(Frames \X Pages)
    BY <1>1, FS_Product, ConstAssumption
  <1>3. \A f \in Frames : Refs(f) \subseteq Frames \X Pages
    BY DEF Refs
  <1> QED BY <1>2, <1>3, FS_Subset

\* What n + 1 bounds before a step, k + 1 bounds after it.
LEMMA CardStep ==
  ASSUME NEW R, IsFiniteSet(R), NEW S, NEW n \in Nat, NEW k \in Nat,
         Cardinality(R) <= n + 1,
         \/ S \subseteq R /\ k = n
         \/ \E m \in R : S \subseteq R \ {m} /\ k = n - 1
         \/ \E m : S \subseteq R \cup {m} /\ k = n + 1
         \/ \E m : S \subseteq {m}
  PROVE  Cardinality(S) <= k + 1
  <1>1. Cardinality(R) \in Nat
    BY FS_CardinalityType
  <1>2. CASE S \subseteq R /\ k = n
    <2>1. IsFiniteSet(S) /\ Cardinality(S) <= Cardinality(R)
      BY <1>2, FS_Subset
    <2> QED BY <1>1, <1>2, <2>1, FS_CardinalityType
  <1>3. ASSUME NEW m \in R, S \subseteq R \ {m}, k = n - 1
        PROVE  Cardinality(S) <= k + 1
    <2>1. IsFiniteSet(R \ {m}) /\ Cardinality(R \ {m}) = Cardinality(R) - 1
      BY FS_RemoveElement
    <2>2. IsFiniteSet(S) /\ Cardinality(S) <= Cardinality(R \ {m})
      BY <1>3, <2>1, FS_Subset
    <2> QED BY <1>1, <1>3, <2>1, <2>2, FS_CardinalityType
  <1>4. ASSUME NEW m, S \subseteq R \cup {m}, k = n + 1
        PROVE  Cardinality(S) <= k + 1
    <2>1. IsFiniteSet(R \cup {m}) /\ Cardinality(R \cup {m}) <= Cardinality(R) + 1
      BY <1>1, FS_AddElement
    <2>2. IsFiniteSet(S) /\ Cardinality(S) <= Cardinality(R \cup {m})
      BY <1>4, <2>1, FS_Subset
    <2>3. Cardinality(S) \in Nat /\ Cardinality(R \cup {m}) \in Nat
      BY <2>1, <2>2, FS_CardinalityType
    <2> QED BY <1>1, <1>4, <2>1, <2>2, <2>3
  <1>5. ASSUME NEW m, S \subseteq {m}
        PROVE  Cardinality(S) <= k + 1
    <2>1. IsFiniteSet({m}) /\ Cardinality({m}) = 1
      BY FS_Singleton
    <2>2. Cardinality(S) <= 1 /\ Cardinality(S) \in Nat
      BY <1>5, <2>1, FS_Subset, FS_CardinalityType
    <2> QED BY <2>2
  <1> QED BY <1>2, <1>3, <1>4, <1>5

\* The count of a page keeps up with what a step does to its mappings.
CoverKept(f) ==
  \/ Refs(f)' \subseteq Refs(f) /\ pageref'[f] = pageref[f]
  \/ \E m \in Refs(f) : /\ Refs(f)' \subseteq Refs(f) \ {m}
                        /\ pageref'[f] = pageref[f] - 1
  \/ \E m : /\ Refs(f)' \subseteq Refs(f) \cup {m}
            /\ pageref'[f] = pageref[f] + 1
  \/ \E m : Refs(f)' \subseteq {m}

LEMMA CoverStep ==
  ASSUME TypeOK, TypeOK', RefsCovered, \A f \in Frames : CoverKept(f)
  PROVE  RefsCovered'
  <1> SUFFICES ASSUME NEW f \in Frames
               PROVE  Cardinality(Refs(f)') <= pageref'[f] + 1
      BY DEF RefsCovered
  <1>1. IsFiniteSet(Refs(f)) /\ Cardinality(Refs(f)) <= pageref[f] + 1
    BY RefsFinite DEF RefsCovered
  <1>2. pageref[f] \in Nat /\ pageref'[f] \in Nat
    BY ConstAssumption DEF TypeOK, AFrame
  <1>3. CoverKept(f)
    OBVIOUS
  <1> QED BY <1>1, <1>2, <1>3, CardStep DEF CoverKept

\* A writable entry of the next state was one already, or is the only mapping
\* of its page.
SoleKept(d, v) ==
  \/ /\ <<d, v>> \in wr /\ pa'[d][v] = pa[d][v]
     /\ Refs(pa[d][v])' \subseteq Refs(pa[d][v])
  \/ /\ pa'[d][v] \in Frames
     /\ \A f \in Frames : f = pa'[d][v] => Refs(f)' \subseteq {<<d, v>>}

LEMMA SoleStep ==
  ASSUME TypeOK', WritableSole,
         \A d \in Frames, v \in Pages : <<d, v>> \in wr' => SoleKept(d, v)
  PROVE  WritableSole'
  <1> SUFFICES ASSUME NEW d \in Frames, NEW v \in Pages, <<d, v>> \in wr'
               PROVE  /\ pa'[d][v] \in Frames
                      /\ \A f \in Frames : f = pa'[d][v] => Refs(f)' = {<<d, v>>}
      BY DEF WritableSole
  <1>1. \A f \in Frames : f = pa'[d][v] => <<d, v>> \in Refs(f)'
    BY DEF Refs
  <1>2. pa'[d][v] \in Frames
        /\ \A f \in Frames : f = pa'[d][v] => Refs(f)' \subseteq {<<d, v>>}
    <2>1. SoleKept(d, v)
      OBVIOUS
    <2> QED BY <2>1 DEF SoleKept, WritableSole
  <1> QED BY <1>1, <1>2

-----------------------------------------------------------------------------
(* Who owns a directory.                                                   *)

\* Steps that pass no directory on and take none.
LEMMA OwnSame ==
  ASSUME OwnInv, UNCHANGED <<pgdir, dir, dirs, child>>,
         \A q \in Procs : pc'[q] \notin {"unused", "embryo"} => Alive(q),
         \A q \in Procs : pc[q] = "free" => pc'[q] = "free"
  PROVE  OwnInv'
  BY DEF OwnInv, DirsOwned, SoleOwner, Alive

\* Two ways to take over a directory d: a call begins on a new one ...
LEMMA OwnBegin ==
  ASSUME StructInv, OwnInv, NEW p \in Procs, NEW d \in Frames \ dirs,
         dirs' = dirs \cup {d}, dir' = [dir EXCEPT ![p] = d],
         pc[p] = "user", pgdir' = pgdir,
         \A q \in Procs : pc'[q] \notin {"unused", "embryo"} => Alive(q),
         \A q \in Procs \ {p} : child'[q] = child[q]
                                /\ (pc[q] = "free" => pc'[q] = "free")
  PROVE  OwnInv'
  <1>1. TypeOK /\ DirsHeld
    BY DEF StructInv
  <1>2. dir'[p] = d /\ \A q \in Procs \ {p} : dir'[q] = dir[q]
    BY <1>1 DEF TypeOK
  <1>3. d # None /\ dir[p] = None
    BY <1>1, ConstAssumption DEF DirsHeld, Busy
  <1>4. \A q \in Procs : Alive(q)' => Alive(q)
    BY DEF Alive
  <1>5. DirsOwned'
    BY <1>2, <1>3, <1>4 DEF OwnInv, DirsOwned
  <1>6. \A q \in Procs : dir[q] # d /\ (Alive(q) => pgdir[q] # d)
    BY <1>3 DEF OwnInv, DirsOwned
  <1>7. SoleOwner'
    BY <1>2, <1>3, <1>4, <1>6 DEF OwnInv, SoleOwner
  <1> QED BY <1>5, <1>7 DEF OwnInv

LEMMA OwnForkBegin ==
  ASSUME MemInv, NEW p \in Procs, NEW c \in Procs, ForkBegin(p, c)
  PROVE  OwnInv'
  <1>1. PICK d \in Frames : Setupkvm(d) /\ Start(p, "forkref", d, c)
    BY DEF ForkBegin
  <1>2. pc[p] = "user" /\ pc[c] = "unused" /\ pgdir' = pgdir
    BY DEF ForkBegin, Running, procs
  <1>3. /\ dir' = [dir EXCEPT ![p] = d] /\ child' = [child EXCEPT ![p] = c]
        /\ pc' = [pc EXCEPT ![p] = "forkref", ![c] = "embryo"]
        /\ dirs' = dirs \cup {d} /\ d \in free
    BY <1>1, PickIn DEF Start, Setupkvm, MemInv, StructInv, TypeOK
  <1>4. StructInv /\ TypeOK /\ OwnInv /\ d \in Frames \ dirs
    BY <1>3 DEF MemInv, StructInv, PageInv, RolesDisjoint
  <1>5. \A q \in Procs : pc'[q] \notin {"unused", "embryo"} => Alive(q)
    BY <1>2, <1>3, <1>4 DEF TypeOK, Alive
  <1>6. \A q \in Procs \ {p} : child'[q] = child[q]
                               /\ (pc[q] = "free" => pc'[q] = "free")
    BY <1>2, <1>3, <1>4 DEF TypeOK
  <1> QED BY <1>2, <1>3, <1>4, <1>5, <1>6, OwnBegin

LEMMA OwnExecBegin ==
  ASSUME MemInv, NEW p \in Procs, ExecBegin(p)
  PROVE  OwnInv'
  <1>1. PICK d \in Frames : Setupkvm(d) /\ Start(p, "load", d, None)
    BY DEF ExecBegin
  <1>2. pc[p] = "user" /\ pgdir' = pgdir
    BY DEF ExecBegin, Running, procs
  <1>3. /\ dir' = [dir EXCEPT ![p] = d] /\ child' = [child EXCEPT ![p] = None]
        /\ pc' = [pc EXCEPT ![p] = "load"]
        /\ dirs' = dirs \cup {d} /\ d \in free
    BY <1>1, PickIn DEF Start, Setupkvm, MemInv, StructInv, TypeOK
  <1>4. StructInv /\ TypeOK /\ OwnInv /\ d \in Frames \ dirs
    BY <1>3 DEF MemInv, StructInv, PageInv, RolesDisjoint
  <1>5. \A q \in Procs : pc'[q] \notin {"unused", "embryo"} => Alive(q)
    BY <1>2, <1>3, <1>4 DEF TypeOK, Alive
  <1>6. \A q \in Procs \ {p} : child'[q] = child[q]
                               /\ (pc[q] = "free" => pc'[q] = "free")
    BY <1>2, <1>3, <1>4 DEF TypeOK
  <1> QED BY <1>2, <1>3, <1>4, <1>5, <1>6, OwnBegin

\* A directory that no child's slot names.
LEMMA OwnPlain ==
  ASSUME MemInv, NEW p \in Procs, dir[p] # None, pc[p] # "free"
  PROVE  \A q \in Procs : Alive(q) => pgdir[q] # dir[p]
  BY DEF MemInv, OwnInv, SoleOwner

LEMMA OwnForkFail ==
  ASSUME MemInv, NEW p \in Procs, ForkFail(p)
  PROVE  OwnInv'
  <1> DEFINE c == child[p]
  <1>1. /\ pc[p] = "forkmap" /\ pgdir' = [pgdir EXCEPT ![c] = None]
        /\ dir' = [dir EXCEPT ![p] = None] /\ child' = [child EXCEPT ![p] = None]
        /\ pc' = [[pc EXCEPT ![c] = "unused"] EXCEPT ![p] = "user"]
        /\ dirs' = dirs
    BY DEF ForkFail, Return, maps
  <1>2. TypeOK /\ DirsHeld /\ ChildHeld /\ OwnInv
    BY DEF MemInv, StructInv
  <1>3. c \in Procs /\ c # p /\ pc[c] = "embryo"
    BY <1>1, <1>2 DEF ChildHeld, Forking, TypeOK
  <1> HIDE DEF c
  <1>4. /\ pc'[p] = "user" /\ pc'[c] = "unused" /\ dir'[p] = None
        /\ \A q \in Procs \ {p, c} : pc'[q] = pc[q]
        /\ \A q \in Procs \ {p} : dir'[q] = dir[q] /\ child'[q] = child[q]
        /\ \A q \in Procs \ {c} : pgdir'[q] = pgdir[q]
    BY <1>1, <1>2, <1>3 DEF TypeOK
  <1>5. \A q \in Procs : Alive(q)' => Alive(q) /\ q # c
    BY <1>1, <1>4 DEF Alive
  <1>6. dir[c] = None
    BY <1>2, <1>3 DEF DirsHeld, Busy
  <1>7. DirsOwned'
    BY <1>1, <1>2, <1>4, <1>5 DEF OwnInv, DirsOwned
  <1>8. \A q \in Procs : Alive(q) => pgdir[q] # None
    BY <1>2 DEF DirsHeld
  <1>9. SoleOwner'
    BY <1>2, <1>3, <1>4, <1>5, <1>6, <1>8 DEF OwnInv, SoleOwner
  <1> QED BY <1>7, <1>9 DEF OwnInv

LEMMA OwnForkDone ==
  ASSUME MemInv, NEW p \in Procs, ForkDone(p)
  PROVE  OwnInv'
  <1> DEFINE c == child[p]
  <1>1. /\ pc[p] = "forkref" /\ pgdir' = [pgdir EXCEPT ![c] = dir[p]]
        /\ dir' = [dir EXCEPT ![p] = None] /\ child' = [child EXCEPT ![p] = None]
        /\ pc' = [[pc EXCEPT ![c] = "user"] EXCEPT ![p] = "user"]
        /\ dirs' = dirs
    BY DEF ForkDone, Return, maps
  <1>2. TypeOK /\ DirsHeld /\ ChildHeld /\ OwnInv
    BY DEF MemInv, StructInv
  <1>3. c \in Procs /\ c # p /\ pc[c] = "embryo" /\ dir[p] # None
    BY <1>1, <1>2 DEF ChildHeld, DirsHeld, Forking, Busy, TypeOK
  <1>4. \A q \in Procs : Alive(q) => pgdir[q] # dir[p]
    BY <1>1, <1>3, OwnPlain
  <1> HIDE DEF c
  <1>5. /\ pc'[p] = "user" /\ pc'[c] = "user" /\ dir'[p] = None
        /\ \A q \in Procs \ {p, c} : pc'[q] = pc[q]
        /\ \A q \in Procs \ {p} : dir'[q] = dir[q] /\ child'[q] = child[q]
        /\ \A q \in Procs \ {c} : pgdir'[q] = pgdir[q]
        /\ pgdir'[c] = dir[p]
    BY <1>1, <1>2, <1>3 DEF TypeOK
  <1>6. Alive(p) /\ \A q \in Procs : Alive(q)' /\ q # c => Alive(q)
    BY <1>1, <1>5 DEF Alive
  <1>7. dir[c] = None
    BY <1>2, <1>3 DEF DirsHeld, Busy
  <1>8. DirsOwned'
    BY <1>1, <1>2, <1>3, <1>5, <1>6 DEF OwnInv, DirsOwned
  <1>9. \A q \in Procs : q # p => dir[q] # dir[p]
    BY <1>2, <1>3 DEF OwnInv, SoleOwner
  <1>10. \A q \in Procs : Alive(q) => pgdir[q] # None
    BY <1>2 DEF DirsHeld
  <1>11. SoleOwner'
    <2>1. \A q, r \in Procs : Alive(q)' /\ Alive(r)' /\ pgdir'[q] = pgdir'[r] => q = r
      BY <1>2, <1>4, <1>5, <1>6 DEF OwnInv, SoleOwner
    <2>2. \A q, r \in Procs : dir'[q] = dir'[r] => q = r \/ dir'[q] = None
      BY <1>2, <1>5 DEF OwnInv, SoleOwner
    <2>3. \A q, r \in Procs : Alive(r)' /\ dir'[q] = pgdir'[r] =>
                                pc'[q] = "free" /\ child'[q] = r
      BY <1>2, <1>3, <1>5, <1>6, <1>7, <1>9, <1>10 DEF OwnInv, SoleOwner
    <2> QED BY <2>1, <2>2, <2>3 DEF SoleOwner
  <1> QED BY <1>8, <1>11 DEF OwnInv

LEMMA OwnExecFail ==
  ASSUME MemInv, NEW p \in Procs, ExecFail(p)
  PROVE  OwnInv'
  <1>1. /\ pc[p] = "load" /\ pc' = [pc EXCEPT ![p] = "free"]
        /\ dir' = [dir EXCEPT ![p] = dir[p]] /\ child' = [child EXCEPT ![p] = None]
        /\ UNCHANGED <<dirs, pgdir>>
    BY DEF ExecFail, Start, maps, procs
  <1>2. TypeOK /\ DirsHeld /\ ChildHeld /\ OwnInv
    BY DEF MemInv, StructInv
  <1>3. child[p] = None
    BY <1>1, <1>2 DEF ChildHeld, Forking
  <1>4. UNCHANGED <<dir, child>>
    BY <1>1, <1>2, <1>3 DEF TypeOK
  <1>5. \A q \in Procs : /\ pc'[q] \notin {"unused", "embryo"} => Alive(q)
                         /\ pc[q] = "free" => pc'[q] = "free"
    BY <1>1, <1>2 DEF TypeOK, Alive
  <1> QED BY <1>1, <1>2, <1>4, <1>5, OwnSame

LEMMA OwnExecCommit ==
  ASSUME MemInv, NEW p \in Procs, ExecCommit(p)
  PROVE  OwnInv'
  <1>1. /\ pc[p] = "load" /\ pgdir' = [pgdir EXCEPT ![p] = dir[p]]
        /\ dir' = [dir EXCEPT ![p] = pgdir[p]] /\ child' = [child EXCEPT ![p] = None]
        /\ pc' = [pc EXCEPT ![p] = "free"] /\ dirs' = dirs
    BY DEF ExecCommit, Start, Here, maps
  <1>2. TypeOK /\ DirsHeld /\ ChildHeld /\ OwnInv
    BY DEF MemInv, StructInv
  <1>3. Alive(p) /\ dir[p] # None /\ pgdir[p] # None
    BY <1>1, <1>2 DEF DirsHeld, Busy, Alive
  <1>4. \A q \in Procs : Alive(q) => pgdir[q] # dir[p]
    BY <1>1, <1>3, OwnPlain
  <1>5. /\ pgdir'[p] = dir[p] /\ dir'[p] = pgdir[p] /\ child'[p] = None
        /\ pc'[p] = "free"
        /\ \A q \in Procs \ {p} : pc'[q] = pc[q] /\ dir'[q] = dir[q]
                                  /\ pgdir'[q] = pgdir[q] /\ child'[q] = child[q]
    BY <1>1, <1>2 DEF TypeOK
  <1>6. \A q \in Procs : Alive(q)' <=> Alive(q)
    BY <1>3, <1>5 DEF Alive
  <1>7. \A q \in Procs : dir[q] # pgdir[p]
    <2>1. \A q \in Procs : child[q] = p => pc[q] # "free"
      BY <1>1, <1>2, ConstAssumption DEF ChildHeld, TypeOK, Forking
    <2> QED BY <1>2, <1>3, <2>1 DEF OwnInv, SoleOwner
  <1>8. DirsOwned'
    BY <1>1, <1>2, <1>3, <1>5, <1>6 DEF OwnInv, DirsOwned
  <1>9. SoleOwner'
    <2>1. \A q, r \in Procs : Alive(q)' /\ Alive(r)' /\ pgdir'[q] = pgdir'[r] => q = r
      BY <1>2, <1>4, <1>5, <1>6 DEF OwnInv, SoleOwner
    <2>2. \A q, r \in Procs : dir'[q] = dir'[r] => q = r \/ dir'[q] = None
      BY <1>2, <1>5, <1>7 DEF OwnInv, SoleOwner
    <2>3. \A q, r \in Procs : Alive(r)' /\ dir'[q] = pgdir'[r] =>
                                pc'[q] = "free" /\ child'[q] = r
      BY <1>2, <1>3, <1>4, <1>5, <1>6, <1>7 DEF OwnInv, SoleOwner
    <2> QED BY <2>1, <2>2, <2>3 DEF SoleOwner
  <1> QED BY <1>8, <1>9 DEF OwnInv

LEMMA OwnReap ==
  ASSUME MemInv, NEW p \in Procs, NEW c \in Procs, Reap(p, c)
  PROVE  OwnInv'
  <1>1. /\ pc[p] = "user" /\ pc[c] = "zombie" /\ PtableFree
        /\ dir' = [dir EXCEPT ![p] = pgdir[c]] /\ child' = [child EXCEPT ![p] = c]
        /\ pc' = [pc EXCEPT ![p] = "free"] /\ UNCHANGED <<dirs, pgdir>>
    BY DEF Reap, Running, Start, maps, procs
  <1>2. TypeOK /\ DirsHeld /\ ChildHeld /\ OwnInv
    BY DEF MemInv, StructInv
  <1>3. /\ pc'[p] = "free" /\ dir'[p] = pgdir[c] /\ child'[p] = c
        /\ \A q \in Procs \ {p} : pc'[q] = pc[q] /\ dir'[q] = dir[q]
                                  /\ child'[q] = child[q]
    BY <1>1, <1>2 DEF TypeOK
  <1>4. Alive(c) /\ \A q \in Procs : Alive(q)' => Alive(q)
    BY <1>1, <1>3 DEF Alive
  <1>5. dir[p] = None /\ pgdir[c] # None
    BY <1>1, <1>2, <1>4 DEF DirsHeld, Busy
  <1>6. \A q \in Procs : dir[q] # pgdir[c]
    <2>1. c # None
      BY ConstAssumption
    <2> QED BY <1>1, <1>2, <1>4, <2>1 DEF OwnInv, SoleOwner, PtableFree
  <1>7. DirsOwned'
    BY <1>1, <1>2, <1>3, <1>4 DEF OwnInv, DirsOwned
  <1>8. SoleOwner'
    <2>1. \A q, r \in Procs : Alive(q)' /\ Alive(r)' /\ pgdir'[q] = pgdir'[r] => q = r
      BY <1>1, <1>2, <1>4 DEF OwnInv, SoleOwner
    <2>2. \A q, r \in Procs : dir'[q] = dir'[r] => q = r \/ dir'[q] = None
      BY <1>2, <1>3, <1>6 DEF OwnInv, SoleOwner
    <2>3. \A q, r \in Procs : Alive(r)' /\ dir'[q] = pgdir'[r] =>
                                pc'[q] = "free" /\ child'[q] = r
      BY <1>1, <1>2, <1>3, <1>4 DEF OwnInv, SoleOwner
    <2> QED BY <2>1, <2>2, <2>3 DEF SoleOwner
  <1> QED BY <1>7, <1>8 DEF OwnInv

\* The directory freed is nobody's, once the slot of the child is given up.
LEMMA FreedUnowned ==
  ASSUME MemInv, NEW p \in Procs, pc[p] = "free"
  PROVE  /\ dir[p] \in dirs
         /\ \A q \in Procs : dir[q] = dir[p] => q = p
         /\ \A q \in Procs : Alive(q) /\ pgdir[q] = dir[p] =>
                               q = child[p] /\ pc[q] = "zombie"
  <1>1. dir[p] # None
    BY DEF MemInv, StructInv, DirsHeld, Busy
  <1>2. child[p] # None => pc[child[p]] = "zombie"
    BY DEF MemInv, StructInv, ChildHeld, Forking
  <1>3. \A q \in Procs : q # None
    BY ConstAssumption
  <1> QED BY <1>1, <1>2, <1>3 DEF MemInv, OwnInv, DirsOwned, SoleOwner

LEMMA OwnFreeDir ==
  ASSUME MemInv, NEW p \in Procs, FreeDir(p)
  PROVE  OwnInv'
  <1> DEFINE c == child[p]
  <1>1. TypeOK /\ DirsHeld /\ ChildHeld /\ OwnInv
    BY DEF MemInv, StructInv
  <1>2. /\ pc[p] = "free" /\ pgdir' = pgdir /\ dirs' = dirs \ {dir[p]}
        /\ dir' = [dir EXCEPT ![p] = None] /\ child' = [child EXCEPT ![p] = None]
        /\ pc' = IF c = None THEN [pc EXCEPT ![p] = "user"]
                 ELSE [[pc EXCEPT ![c] = "unused"] EXCEPT ![p] = "user"]
    BY DEF FreeDir, Return
  <1>3. c # None => c \in Procs /\ c # p
    BY <1>1, <1>2 DEF ChildHeld, TypeOK, Forking
  <1>4. \A q \in Procs : c # q \/ c # None
    BY ConstAssumption
  <1>5. /\ pc'[p] = "user" /\ (c # None => pc'[c] = "unused")
        /\ \A q \in Procs \ {p, c} : pc'[q] = pc[q]
        /\ dir'[p] = None
        /\ \A q \in Procs \ {p} : dir'[q] = dir[q] /\ child'[q] = child[q]
    BY <1>1, <1>2, <1>3 DEF TypeOK
  <1>6. \A q \in Procs : Alive(q)' => Alive(q) /\ q # c
    BY <1>2, <1>4, <1>5 DEF Alive
  <1>7. /\ \A q \in Procs : dir[q] = dir[p] => q = p
        /\ \A q \in Procs : Alive(q) /\ pgdir[q] = dir[p] => q = c
    BY <1>2, FreedUnowned
  <1>8. \A q \in Procs : dir[q] # None => q # c
    BY <1>1, <1>2, <1>3, <1>4 DEF DirsHeld, ChildHeld, Busy, Forking
  <1> HIDE DEF c
  <1>9. DirsOwned'
    BY <1>1, <1>2, <1>5, <1>6, <1>7 DEF OwnInv, DirsOwned
  <1>10. \A q \in Procs : Alive(q) => pgdir[q] # None
    BY <1>1 DEF DirsHeld
  <1>11. SoleOwner'
    <2>1. \A q, r \in Procs : Alive(q)' /\ Alive(r)' /\ pgdir'[q] = pgdir'[r] => q = r
      BY <1>1, <1>2, <1>6 DEF OwnInv, SoleOwner
    <2>2. \A q, r \in Procs : dir'[q] = dir'[r] => q = r \/ dir'[q] = None
      BY <1>1, <1>5 DEF OwnInv, SoleOwner
    <2>3. \A q, r \in Procs : Alive(r)' /\ dir'[q] = pgdir'[r] =>
                                pc'[q] = "free" /\ child'[q] = r
      <3> SUFFICES ASSUME NEW q \in Procs, NEW r \in Procs,
                          Alive(r)', dir'[q] = pgdir[r]
                   PROVE  pc'[q] = "free" /\ child'[q] = r
          BY <1>2
      <3>1. Alive(r) /\ pgdir[r] # None
        BY <1>6, <1>10
      <3>2. q # p /\ dir[q] = pgdir[r] /\ q # c
        BY <1>5, <1>8, <3>1
      <3> QED BY <1>1, <1>5, <3>1, <3>2 DEF OwnInv, SoleOwner
    <2> QED BY <2>1, <2>2, <2>3 DEF SoleOwner
  <1> QED BY <1>9, <1>11 DEF OwnInv

\* The other actions pass no directory on.
LEMMA OwnRest ==
  ASSUME MemInv, NEW p \in Procs,
         Access(p) \/ Grow(p) \/ Shrink(p) \/ ForkRef(p) \/ ForkMap(p)
           \/ ExecPage(p) \/ Exit(p) \/ FreePage(p) \/ UNCHANGED vars
  PROVE  OwnInv'
  <1>1. TypeOK /\ OwnInv
    BY DEF MemInv, StructInv
  <1>2. UNCHANGED <<pgdir, dir, dirs, child>>
    <2>1. CASE Access(p)
      BY <2>1 DEF Access, FaultKill, FaultNoMem, Store, FaultZero, FaultSole, FaultCopy,
                  maps, procs, local
    <2>2. CASE Grow(p) \/ Shrink(p) \/ ForkRef(p) \/ ForkMap(p) \/ ExecPage(p)
      BY <2>2 DEF Grow, Shrink, ForkRef, ForkMap, ExecPage, procs, local
    <2>3. CASE Exit(p) \/ FreePage(p) \/ UNCHANGED vars
      BY <2>3 DEF Exit, FreePage, vars, maps, procs, local
    <2> QED BY <2>1, <2>2, <2>3
  <1>3. \/ pc' = pc
        \/ pc[p] \notin {"unused", "embryo", "free"} /\ \E s : pc' = [pc EXCEPT ![p] = s]
    <2>1. CASE Access(p)
      BY <2>1 DEF Access, FaultKill, FaultNoMem, Store, FaultZero, FaultSole, FaultCopy,
                  WriteFault, Running
    <2>2. CASE Grow(p) \/ Shrink(p) \/ ForkRef(p) \/ ForkMap(p) \/ ExecPage(p)
      BY <2>2 DEF Grow, Shrink, ForkRef, ForkMap, ExecPage, Running
    <2>3. CASE Exit(p) \/ FreePage(p) \/ UNCHANGED vars
      BY <2>3 DEF Exit, FreePage, vars, Running
    <2> QED BY <2>1, <2>2, <2>3
  <1>4. \A q \in Procs : /\ pc'[q] \notin {"unused", "embryo"} => Alive(q)
                         /\ pc[q] = "free" => pc'[q] = "free"
    BY <1>1, <1>3 DEF TypeOK, Alive
  <1> QED BY <1>1, <1>2, <1>4, OwnSame

LEMMA OwnNext == MemInv /\ [Next]_vars => OwnInv'
  <1> SUFFICES ASSUME MemInv, [Next]_vars PROVE OwnInv'
      OBVIOUS
  <1>1. CASE UNCHANGED vars
    BY <1>1, OwnRest, ConstAssumption
  <1>2. ASSUME NEW p \in Procs, Access(p) \/ Grow(p) \/ Shrink(p) \/ Exit(p)
        PROVE  OwnInv'
    BY <1>2, OwnRest
  <1>3. ASSUME NEW p \in Procs, Fork(p) PROVE OwnInv'
    BY <1>3, OwnRest, OwnForkBegin, OwnForkFail, OwnForkDone DEF Fork
  <1>4. ASSUME NEW p \in Procs, Exec(p) PROVE OwnInv'
    BY <1>4, OwnRest, OwnExecBegin, OwnExecFail, OwnExecCommit DEF Exec
  <1>5. ASSUME NEW p \in Procs, Wait(p) PROVE OwnInv'
    BY <1>5, OwnRest, OwnReap, OwnFreeDir DEF Wait
  <1> QED BY <1>1, <1>2, <1>3, <1>4, <1>5 DEF Next

-----------------------------------------------------------------------------
(* What a step does to the mappings.                                       *)

\* No fork comes to hold a counted page it has not mapped yet.
NoNewPend ==
  \A q \in Procs : pc'[q] = "forkmap" =>
    pc[q] = "forkmap" /\ dir'[q] = dir[q] /\ i'[q] = i[q] /\ pgdir'[q] = pgdir[q]

\* No fork is about to map a page of d or into d.
Quiet(d) == \A q \in Procs : pc[q] = "forkmap" => dir[q] # d /\ pgdir[q] # d

LEMMA RefsSame ==
  ASSUME NoNewPend, pa' = pa
  PROVE  \A f : Refs(f)' \subseteq Refs(f)
  BY DEF NoNewPend, Refs, Pending, Here

LEMMA RefsPut ==
  ASSUME TypeOK, NoNewPend, NEW d \in Frames, NEW v \in Pages, NEW g, Quiet(d),
         pa' = [pa EXCEPT ![d][v] = g]
  PROVE  \A f : /\ f # g => Refs(f)' \subseteq Refs(f) \ {<<d, v>>}
                /\ f = g => Refs(f)' \subseteq Refs(f) \cup {<<d, v>>}
  <1> SUFFICES ASSUME NEW f, NEW e \in Frames, NEW w \in Pages,
                      <<e, w>> \in Refs(f)'
               PROVE  IF e = d /\ w = v THEN f = g ELSE <<e, w>> \in Refs(f)
      BY DEF Refs
  <1>1. pa'[e][w] = IF e = d /\ w = v THEN g ELSE pa[e][w]
    BY DEF TypeOK
  <1>2. CASE pa'[e][w] = f
    BY <1>1, <1>2 DEF Refs
  <1>3. CASE \E q \in Procs : /\ pc'[q] = "forkmap" /\ dir'[q] = e /\ i'[q] = w
                              /\ pa'[pgdir'[q]][w] = f
    <2>1. PICK q \in Procs : /\ pc'[q] = "forkmap" /\ dir'[q] = e /\ i'[q] = w
                             /\ pa'[pgdir'[q]][w] = f
      BY <1>3
    <2>2. /\ pc[q] = "forkmap" /\ dir[q] = e /\ i[q] = w
          /\ pgdir'[q] = pgdir[q] /\ e # d /\ pgdir[q] # d
      BY <2>1 DEF NoNewPend, Quiet
    <2>3. pa'[pgdir[q]] = pa[pgdir[q]]
      BY <2>2 DEF TypeOK
    <2>4. Pending(e, w, f)
      BY <2>1, <2>2, <2>3 DEF Pending, Here
    <2> QED BY <2>2, <2>4 DEF Refs
  <1> QED BY <1>2, <1>3 DEF Refs, Pending, Here

LEMMA UserQuiet ==
  ASSUME MemInv, NEW p \in Procs, pc[p] = "user"
  PROVE  Here(p) \in dirs /\ Here(p) \in Frames /\ Quiet(Here(p))
  <1>1. Alive(p)
    BY DEF Alive
  <1>2. Here(p) \in dirs /\ dirs \subseteq Frames
    BY <1>1 DEF MemInv, OwnInv, DirsOwned, Here, StructInv, TypeOK
  <1>3. Quiet(Here(p))
    BY <1>1 DEF MemInv, OwnInv, SoleOwner, Quiet, Here, Alive
  <1> QED BY <1>2, <1>3

LEMMA DirQuiet ==
  ASSUME MemInv, NEW p \in Procs, pc[p] \in {"load", "free"}
  PROVE  dir[p] \in dirs /\ dir[p] \in Frames /\ Quiet(dir[p])
  <1>1. dir[p] # None
    BY DEF MemInv, StructInv, DirsHeld, Busy
  <1>2. dir[p] \in dirs /\ dirs \subseteq Frames
    BY <1>1 DEF MemInv, OwnInv, DirsOwned, StructInv, TypeOK
  <1>3. Quiet(dir[p])
    <2> SUFFICES ASSUME NEW q \in Procs, pc[q] = "forkmap"
                 PROVE  dir[q] # dir[p] /\ pgdir[q] # dir[p]
        BY DEF Quiet
    <2>1. dir[q] # dir[p]
      BY <1>1 DEF MemInv, OwnInv, SoleOwner
    <2>2. pgdir[q] = dir[p] => pc[p] = "free" /\ child[p] = q
      BY DEF MemInv, OwnInv, SoleOwner, Alive
    <2>3. pc[p] = "free" /\ child[p] = q => pc[q] = "zombie"
      BY ConstAssumption DEF MemInv, StructInv, ChildHeld, Forking
    <2> QED BY <2>1, <2>2, <2>3
  <1> QED BY <1>2, <1>3

\* walkpgdir takes at most one page, for a page table of d.
LEMMA WalkEffect ==
  ASSUME TypeOK, TblSole, RolesDisjoint, NEW d \in Frames, NEW v,
         NEW avail \in SUBSET free, Walk(d, v, avail)
  PROVE  \E T \in SUBSET avail :
           /\ free' = avail \ T
           /\ TableFrames' \subseteq TableFrames \cup T
           /\ TblSole'
           /\ \A e \in Frames \ {d} : tbl'[e] = tbl[e]
  <1>1. CASE free' = avail /\ tbl' = tbl
    <2>1. TableFrames' = TableFrames /\ TblSole'
      BY <1>1 DEF TableFrames, TblSole
    <2> QED BY <1>1, <2>1
  <1>2. ASSUME NEW t \in Pick(avail), free' = avail \ {t},
               tbl' = [tbl EXCEPT ![d][v \div PtSpan] = t]
        PROVE  \E T \in SUBSET avail :
                 /\ free' = avail \ T
                 /\ TableFrames' \subseteq TableFrames \cup T
                 /\ TblSole'
                 /\ \A e \in Frames \ {d} : tbl'[e] = tbl[e]
    <2> DEFINE n == v \div PtSpan
    <2>1. t \in avail /\ t \in free /\ t \in Frames
      BY <1>2, PickIn DEF TypeOK
    <2>2. tbl' = [tbl EXCEPT ![d] = [tbl[d] EXCEPT ![n] = t]]
      BY <1>2
    <2> HIDE DEF n
    <2>3. \A e \in Frames, k \in Tables :
            tbl'[e][k] = IF e = d /\ k = n THEN t ELSE tbl[e][k]
      BY <2>2 DEF TypeOK
    <2>4. \A e \in Frames, k \in Tables : tbl[e][k] # t
      BY <2>1 DEF RolesDisjoint, TableFrames
    <2>5. TblSole'
      BY <2>3, <2>4 DEF TblSole
    <2>6. TableFrames' \subseteq TableFrames \cup {t}
      BY <2>3 DEF TableFrames
    <2>7. \A e \in Frames \ {d} : tbl'[e] = tbl[e]
      BY <2>2 DEF TypeOK
    <2> QED BY <1>2, <2>1, <2>5, <2>6, <2>7
  <1> QED BY <1>1, <1>2 DEF Walk

\* A count of 0 means one mapping at most.
LEMMA LastRef ==
  ASSUME TypeOK, RefsCovered, NEW f \in Frames, pageref[f] = 0, NEW m \in Refs(f)
  PROVE  Refs(f) = {m}
  <1>1. IsFiniteSet(Refs(f)) /\ Cardinality(Refs(f)) <= 1
    BY RefsFinite DEF RefsCovered
  <1>2. IsFiniteSet({m}) /\ Cardinality({m}) = 1
    BY FS_Singleton
  <1>3. {m} \in SUBSET Refs(f)
    OBVIOUS
  <1>4. Cardinality({m}) <= Cardinality(Refs(f))
        /\ (Cardinality({m}) = Cardinality(Refs(f)) => {m} = Refs(f))
    BY <1>1, <1>3, FS_Subset
  <1> QED BY <1>1, <1>2, <1>4, FS_CardinalityType

-----------------------------------------------------------------------------
(* The page invariant, action by action.                                   *)

\* Steps that touch no page, table or count, and may make pages read-only.
LEMMA PageSame ==
  ASSUME MemInv, TypeOK', NoNewPend, UNCHANGED <<free, pageref, dirs, tbl, pa>>,
         wr' \subseteq wr
  PROVE  PageInv'
  <1>1. TypeOK /\ PageInv
    BY DEF MemInv, StructInv
  <1>2. \A f : Refs(f)' \subseteq Refs(f)
    BY RefsSame
  <1>3. RefsCovered'
    BY <1>1, <1>2, CoverStep DEF CoverKept, PageInv
  <1>4. WritableSole'
    BY <1>1, <1>2, SoleStep DEF SoleKept, PageInv
  <1>5. RolesDisjoint'
    BY <1>1, <1>2 DEF PageInv, RolesDisjoint, Data, TableFrames
  <1>6. Blank' /\ TblSole'
    BY <1>1 DEF PageInv, Blank, TblSole
  <1> QED BY <1>3, <1>4, <1>5, <1>6 DEF PageInv

\* A new directory.
LEMMA PageSetup ==
  ASSUME MemInv, TypeOK', NoNewPend, NEW d \in Frames, Setupkvm(d),
         UNCHANGED <<pageref, tbl, pa, wr>>
  PROVE  PageInv'
  <1>1. TypeOK /\ PageInv
    BY DEF MemInv, StructInv
  <1>2. \A f : Refs(f)' \subseteq Refs(f)
    BY RefsSame
  <1>3. RefsCovered'
    BY <1>1, <1>2, CoverStep DEF CoverKept, PageInv
  <1>4. WritableSole'
    BY <1>1, <1>2, SoleStep DEF SoleKept, PageInv
  <1>5. d \in free /\ free' = free \ {d} /\ dirs' = dirs \cup {d}
    BY <1>1, PickIn DEF Setupkvm, TypeOK
  <1>6. RolesDisjoint'
    <2>1. Data' \subseteq Data /\ TableFrames' = TableFrames
      BY <1>2 DEF Data, TableFrames
    <2> QED BY <1>1, <1>5, <2>1 DEF PageInv, RolesDisjoint
  <1>7. Blank' /\ TblSole'
    BY <1>1, <1>5 DEF PageInv, Blank, TblSole
  <1> QED BY <1>3, <1>4, <1>6, <1>7 DEF PageInv

\* What a fault or exec does: a page off the free list, and page tables T,
\* take the place of whatever page v of d was; the count of what was mapped
\* there may drop.
LEMMA PagePut ==
  ASSUME MemInv, TypeOK', NoNewPend, NEW d \in dirs, NEW v \in Pages, Quiet(d),
         NEW mem \in free, NEW T \in SUBSET (free \ {mem}),
         free' = free \ ({mem} \cup T),
         TableFrames' \subseteq TableFrames \cup T, TblSole',
         \A e \in Frames \ {d} : tbl'[e] = tbl[e],
         dirs' = dirs, pa' = [pa EXCEPT ![d][v] = mem],
         wr' \subseteq wr \cup {<<d, v>>},
         \A f \in Frames \ {mem} :
           pageref'[f] # pageref[f] => /\ <<d, v>> \in Refs(f)
                                       /\ pageref'[f] = pageref[f] - 1
  PROVE  PageInv'
  <1>1. TypeOK /\ PageInv /\ d \in Frames
    BY DEF MemInv, StructInv, TypeOK
  <1>2. \A f : /\ f # mem => Refs(f)' \subseteq Refs(f) \ {<<d, v>>}
               /\ f = mem => Refs(f)' \subseteq Refs(f) \cup {<<d, v>>}
    BY <1>1, RefsPut
  <1>3. mem \in Frames /\ Refs(mem) = {}
    BY <1>1 DEF PageInv, RolesDisjoint, Data, TypeOK
  <1>4. RefsCovered'
    <2>1. CoverKept(mem)
      BY <1>2, <1>3 DEF CoverKept
    <2>2. \A f \in Frames \ {mem} : CoverKept(f)
      BY <1>2 DEF CoverKept
    <2> QED BY <1>1, <2>1, <2>2, CoverStep DEF PageInv
  <1>5. \A e \in Frames, w \in Pages :
          pa'[e][w] = IF e = d /\ w = v THEN mem ELSE pa[e][w]
    BY <1>1 DEF TypeOK
  <1>6. WritableSole'
    <2> SUFFICES ASSUME NEW e \in Frames, NEW w \in Pages, <<e, w>> \in wr'
                 PROVE  SoleKept(e, w)
        BY <1>1, SoleStep DEF PageInv
    <2>1. CASE e = d /\ w = v
      BY <1>2, <1>3, <1>5, <2>1 DEF SoleKept
    <2>2. CASE ~(e = d /\ w = v)
      <3>1. <<e, w>> \in wr /\ pa'[e][w] = pa[e][w]
        BY <1>5, <2>2
      <3>2. pa[e][w] \in Frames /\ <<e, w>> \in Refs(pa[e][w])
        BY <1>1, <3>1 DEF PageInv, WritableSole, Refs
      <3>3. pa[e][w] # mem
        BY <1>3, <3>2
      <3> QED BY <1>2, <3>1, <3>3 DEF SoleKept
    <2> QED BY <2>1, <2>2
  <1>7. RolesDisjoint'
    <2>1. Data' \subseteq Data \cup {mem}
      BY <1>2 DEF Data
    <2> QED BY <1>1, <2>1 DEF PageInv, RolesDisjoint
  <1>8. Blank'
    BY <1>1, <1>5 DEF PageInv, Blank, TypeOK, NoMap
  <1> QED BY <1>4, <1>6, <1>7, <1>8 DEF PageInv

LEMMA PageFaultZero ==
  ASSUME MemInv, TypeOK', NEW p \in Procs, NEW v \in Pages, NEW kernel,
         FaultZero(p, v, kernel)
  PROVE  PageInv'
  <1> DEFINE d == Here(p)
  <1>1. PICK mem \in Pick(free) :
          /\ free' = free \ {mem} /\ pa' = [pa EXCEPT ![d][v] = mem]
          /\ wr' = wr \cup {<<d, v>>}
    BY DEF FaultZero
  <1>2. pc[p] = "user" /\ UNCHANGED <<pageref, dirs, tbl, pc, procs, local>>
    BY DEF FaultZero, WriteFault, Running
  <1>3. d \in dirs /\ Quiet(d)
    BY <1>2, UserQuiet
  <1>4. mem \in free /\ NoNewPend
    BY <1>2, PickIn DEF MemInv, StructInv, TypeOK, NoNewPend, procs, local
  <1>5. TableFrames' = TableFrames /\ TblSole'
    BY <1>2 DEF MemInv, PageInv, TblSole, TableFrames
  <1>6. {} \in SUBSET (free \ {mem}) /\ free' = free \ ({mem} \cup {})
    BY <1>1
  <1> HIDE DEF d
  <1> QED BY <1>1, <1>2, <1>3, <1>4, <1>5, <1>6, PagePut

LEMMA PageFaultCopy ==
  ASSUME MemInv, TypeOK', NEW p \in Procs, NEW v \in Pages, NEW kernel,
         FaultCopy(p, v, kernel)
  PROVE  PageInv'
  <1> DEFINE d == Here(p)
  <1> DEFINE src == pa[d][v]
  <1>1. PICK mem \in Pick(free) :
          /\ free' = free \ {mem} /\ pa' = [pa EXCEPT ![d][v] = mem]
          /\ wr' = wr \cup {<<d, v>>}
          /\ pageref' = [pageref EXCEPT ![src] = pageref[src] - 1]
    BY DEF FaultCopy
  <1>2. pc[p] = "user" /\ UNCHANGED <<dirs, tbl, pc, procs, local>>
    BY DEF FaultCopy, WriteFault, Running
  <1>3. d \in dirs /\ d \in Frames /\ Quiet(d)
    BY <1>2, UserQuiet
  <1>4. mem \in free /\ NoNewPend
    BY <1>2, PickIn DEF MemInv, StructInv, TypeOK, NoNewPend, procs, local
  <1>5. TableFrames' = TableFrames /\ TblSole'
    BY <1>2 DEF MemInv, PageInv, TblSole, TableFrames
  <1>6. {} \in SUBSET (free \ {mem}) /\ free' = free \ ({mem} \cup {})
    BY <1>1
  <1>7. \A f \in Frames : pageref'[f] # pageref[f] =>
          <<d, v>> \in Refs(f) /\ pageref'[f] = pageref[f] - 1
    BY <1>1, <1>3 DEF MemInv, StructInv, TypeOK, AFrame, Refs
  <1> HIDE DEF d, src
  <1> QED BY <1>1, <1>2, <1>3, <1>4, <1>5, <1>6, <1>7, PagePut

LEMMA PageExecPage ==
  ASSUME MemInv, TypeOK', NEW p \in Procs, ExecPage(p)
  PROVE  PageInv'
  <1> DEFINE d == dir[p]
  <1> DEFINE v == i[p]
  <1>1. PICK mem \in Pick(free) :
          /\ Walk(d, v, free \ {mem})
          /\ SetPte(d, v, mem, ~(v = TextPages), ~(v = TextPages))
    BY DEF ExecPage
  <1>2. pc[p] = "load" /\ v < MaxPages
        /\ i' = [i EXCEPT ![p] = v + 1]
        /\ UNCHANGED <<pageref, dirs, pc, procs, dir, child>>
    BY DEF ExecPage
  <1>3. d \in dirs /\ d \in Frames /\ Quiet(d)
    BY <1>2, DirQuiet
  <1>4. TypeOK /\ PageInv /\ v \in Pages
    BY <1>2, ConstAssumption DEF MemInv, StructInv, TypeOK, Pages
  <1>5. mem \in free /\ free \ {mem} \in SUBSET free
    BY <1>4, PickIn DEF TypeOK
  <1>6. NoNewPend
    BY <1>2, <1>4 DEF TypeOK, NoNewPend, procs
  <1>7. pa' = [pa EXCEPT ![d][v] = mem] /\ wr' \subseteq wr \cup {<<d, v>>}
    BY <1>1 DEF SetPte
  <1> HIDE DEF d, v
  <1>8. PICK T \in SUBSET (free \ {mem}) :
          /\ free' = (free \ {mem}) \ T
          /\ TableFrames' \subseteq TableFrames \cup T
          /\ TblSole'
          /\ \A e \in Frames \ {d} : tbl'[e] = tbl[e]
    BY <1>1, <1>3, <1>4, <1>5, WalkEffect DEF PageInv
  <1>9. free' = free \ ({mem} \cup T)
    BY <1>8
  <1> QED BY <1>2, <1>3, <1>4, <1>5, <1>6, <1>7, <1>8, <1>9, PagePut

\* The sole mapping becomes writable.
LEMMA PageFaultSole ==
  ASSUME MemInv, TypeOK', NEW p \in Procs, NEW v \in Pages, NEW kernel,
         FaultSole(p, v, kernel)
  PROVE  PageInv'
  <1> DEFINE d == Here(p)
  <1> DEFINE f == pa[d][v]
  <1>1. /\ pc[p] = "user" /\ f # None /\ f # Zero /\ pageref[f] = 0
        /\ wr' = wr \cup {<<d, v>>}
        /\ UNCHANGED <<phys, dirs, tbl, pa, pc, procs, local>>
    BY DEF FaultSole, WriteFault, Running
  <1>2. TypeOK /\ PageInv /\ d \in Frames
    BY <1>1, UserQuiet DEF MemInv, StructInv
  <1>3. f \in Frames /\ <<d, v>> \in Refs(f)
    BY <1>1, <1>2 DEF TypeOK, AFrame, Refs
  <1>4. Refs(f) = {<<d, v>>}
    BY <1>1, <1>2, <1>3, LastRef DEF PageInv
  <1>5. NoNewPend
    BY <1>1 DEF NoNewPend, procs, local
  <1>6. \A g : Refs(g)' \subseteq Refs(g)
    BY <1>1, <1>5, RefsSame
  <1>7. RefsCovered'
    BY <1>1, <1>2, <1>6, CoverStep DEF CoverKept, PageInv, phys
  <1>8. WritableSole'
    <2>1. \A g \in Frames : g = pa'[d][v] => Refs(g)' \subseteq {<<d, v>>}
      BY <1>1, <1>4, <1>6
    <2>2. SoleKept(d, v)
      BY <1>1, <1>3, <2>1 DEF SoleKept
    <2>3. \A e \in Frames, w \in Pages : <<e, w>> \in wr => SoleKept(e, w)
      BY <1>1, <1>6 DEF SoleKept
    <2> QED BY <1>1, <1>2, <2>2, <2>3, SoleStep DEF PageInv
  <1>9. RolesDisjoint' /\ Blank' /\ TblSole'
    BY <1>1, <1>2, <1>6 DEF PageInv, RolesDisjoint, Data, TableFrames, Blank, TblSole, phys
  <1> QED BY <1>7, <1>8, <1>9 DEF PageInv

\* Page v of d becomes g, read-only, and no page of the free list gains a
\* mapping; page tables T are taken.
LEMMA PageRemap ==
  ASSUME MemInv, TypeOK', NEW d \in dirs, NEW v \in Pages, NEW g,
         pa' = [pa EXCEPT ![d][v] = g], wr' \subseteq wr \ {<<d, v>>},
         \A f \in Frames : Refs(f)' \subseteq Refs(f),
         NEW T \in SUBSET free, free' = free \ T,
         TableFrames' \subseteq TableFrames \cup T, TblSole',
         \A e \in Frames \ {d} : tbl'[e] = tbl[e],
         UNCHANGED <<dirs, pageref>>
  PROVE  PageInv'
  <1>1. TypeOK /\ PageInv /\ d \in Frames
    BY DEF MemInv, StructInv, TypeOK
  <1>2. \A e \in Frames, w \in Pages :
          pa'[e][w] = IF e = d /\ w = v THEN g ELSE pa[e][w]
    BY <1>1 DEF TypeOK
  <1>3. RefsCovered'
    BY <1>1, CoverStep DEF CoverKept, PageInv
  <1>4. WritableSole'
    <2> SUFFICES ASSUME NEW e \in Frames, NEW w \in Pages, <<e, w>> \in wr'
                 PROVE  SoleKept(e, w)
        BY <1>1, SoleStep DEF PageInv
    <2>1. <<e, w>> \in wr /\ pa'[e][w] = pa[e][w]
      BY <1>2
    <2>2. pa[e][w] \in Frames
      BY <1>1, <2>1 DEF PageInv, WritableSole
    <2> QED BY <2>1, <2>2 DEF SoleKept
  <1>5. RolesDisjoint'
    <2>1. Data' \subseteq Data
      BY DEF Data
    <2> QED BY <1>1, <2>1 DEF PageInv, RolesDisjoint
  <1>6. Blank'
    BY <1>1, <1>2 DEF PageInv, Blank, TypeOK, NoMap
  <1> QED BY <1>3, <1>4, <1>5, <1>6 DEF PageInv

LEMMA PageGrow ==
  ASSUME MemInv, TypeOK', NEW p \in Procs, Grow(p)
  PROVE  PageInv'
  <1> DEFINE d == Here(p)
  <1> DEFINE v == sz[p]
  <1>1. pc[p] = "user" /\ v < MaxPages /\ UNCHANGED <<dirs, pgdir, parent, local>>
    BY DEF Grow, Running
  <1>2. d \in dirs /\ d \in Frames /\ Quiet(d)
    BY <1>1, UserQuiet
  <1>3. TypeOK /\ PageInv /\ v \in Pages
    <2>1. TypeOK /\ PageInv
      BY DEF MemInv, StructInv
    <2>2. sz[p] \in 0 .. MaxPages
      BY <2>1 DEF TypeOK
    <2> QED BY <1>1, <2>1, <2>2, ConstAssumption DEF Pages
  <1>4. CASE /\ Walk(d, v, free) /\ SetPte(d, v, Zero, FALSE, TRUE)
             /\ UNCHANGED <<pageref, content, pc>>
    <2>1. pa' = [pa EXCEPT ![d][v] = Zero] /\ wr' = wr \ {<<d, v>>}
      BY <1>4 DEF SetPte
    <2>2. NoNewPend
      BY <1>1, <1>4 DEF NoNewPend, local
    <2> HIDE DEF d, v
    <2>3. \A f \in Frames : Refs(f)' \subseteq Refs(f)
      BY <1>2, <1>3, <2>1, <2>2, RefsPut, ConstAssumption
    <2>4. PICK T \in SUBSET free :
            /\ free' = free \ T
            /\ TableFrames' \subseteq TableFrames \cup T
            /\ TblSole'
            /\ \A e \in Frames \ {d} : tbl'[e] = tbl[e]
      BY <1>2, <1>3, <1>4, WalkEffect DEF PageInv
    <2> QED BY <1>1, <1>2, <1>3, <1>4, <2>1, <2>3, <2>4, PageRemap
  <1>5. CASE pc' = [pc EXCEPT ![p] = "killed"] /\ UNCHANGED <<phys, tbl, pa, wr, us>>
    <2>1. NoNewPend
      BY <1>1, <1>3, <1>5 DEF NoNewPend, TypeOK, local
    <2> QED BY <1>1, <1>5, <2>1, PageSame DEF phys
  <1> QED BY <1>4, <1>5 DEF Grow

LEMMA PageForkMap ==
  ASSUME MemInv, TypeOK', NEW p \in Procs, ForkMap(p)
  PROVE  PageInv'
  <1> DEFINE d == dir[p]
  <1> DEFINE v == i[p]
  <1> DEFINE g == pa[Here(p)][v]
  <1>1. /\ pc[p] = "forkmap" /\ Walk(d, v, free)
        /\ pa' = [pa EXCEPT ![d][v] = g] /\ wr' = wr \ {<<d, v>>}
        /\ pc' = [pc EXCEPT ![p] = "forkref"] /\ i' = [i EXCEPT ![p] = v + 1]
        /\ UNCHANGED <<pageref, dirs, pgdir, dir>>
    BY DEF ForkMap, SetPte, procs
  <1>2. TypeOK /\ PageInv /\ DirsHeld /\ MapBelow /\ OwnInv
    BY DEF MemInv, StructInv
  <1>3. v \in Pages
    BY <1>1, <1>2, ConstAssumption DEF MapBelow, TypeOK, Pages
  <1>4. d # None /\ d \in dirs /\ d \in Frames
    BY <1>1, <1>2 DEF DirsHeld, Busy, OwnInv, DirsOwned, TypeOK
  <1>5. \A q \in Procs : pc'[q] = "forkmap" =>
          /\ pc[q] = "forkmap" /\ q # p /\ i'[q] = i[q]
          /\ pgdir[q] # d /\ pa'[pgdir[q]] = pa[pgdir[q]]
    <2> SUFFICES ASSUME NEW q \in Procs, pc'[q] = "forkmap"
                 PROVE  /\ pc[q] = "forkmap" /\ q # p /\ i'[q] = i[q]
                        /\ pgdir[q] # d /\ pa'[pgdir[q]] = pa[pgdir[q]]
        OBVIOUS
    <2>1. pc[q] = "forkmap" /\ q # p /\ i'[q] = i[q]
      BY <1>1, <1>2 DEF TypeOK
    <2>2. pgdir[q] # d
      BY <1>1, <1>2, <2>1 DEF OwnInv, SoleOwner, Alive
    <2> HIDE DEF d
    <2>3. pa'[pgdir[q]] = pa[pgdir[q]]
      BY <1>1, <1>2, <2>2 DEF TypeOK
    <2> QED BY <2>1, <2>2, <2>3
  <1>6. Pending(d, v, g)
    BY <1>1 DEF Pending
  <1> HIDE DEF d, v, g
  <1>7. \A f \in Frames : Refs(f)' \subseteq Refs(f)
    <2> SUFFICES ASSUME NEW f \in Frames, NEW e \in Frames, NEW w \in Pages,
                        <<e, w>> \in Refs(f)'
                 PROVE  <<e, w>> \in Refs(f)
        BY DEF Refs
    <2>1. CASE pa'[e][w] = f
      <3>1. pa'[e][w] = IF e = d /\ w = v THEN g ELSE pa[e][w]
        BY <1>1, <1>2, <1>3, <1>4 DEF TypeOK
      <3> QED BY <1>6, <2>1, <3>1 DEF Refs
    <2>2. ASSUME NEW q \in Procs, pc'[q] = "forkmap", dir'[q] = e, i'[q] = w,
                 pa'[pgdir'[q]][w] = f
          PROVE  <<e, w>> \in Refs(f)
      <3>1. Pending(e, w, f)
        BY <1>1, <1>5, <2>2 DEF Pending, Here
      <3> QED BY <3>1 DEF Refs
    <2> QED BY <2>1, <2>2 DEF Refs, Pending, Here
  <1>8. PICK T \in SUBSET free :
          /\ free' = free \ T
          /\ TableFrames' \subseteq TableFrames \cup T
          /\ TblSole'
          /\ \A e \in Frames \ {d} : tbl'[e] = tbl[e]
    BY <1>1, <1>2, <1>4, WalkEffect DEF PageInv
  <1> QED BY <1>1, <1>3, <1>4, <1>7, <1>8, PageRemap

\* The page is counted and the parent's entry read-only before the child's
\* directory has it.
LEMMA PageForkRef ==
  ASSUME MemInv, TypeOK', NEW p \in Procs, ForkRef(p), RefRoom(p)
  PROVE  PageInv'
  <1> DEFINE d == Here(p)
  <1> DEFINE v == i[p]
  <1> DEFINE g == pa[d][v]
  <1>1. /\ pc[p] = "forkref" /\ v < sz[p] /\ wr' = wr \ {<<d, v>>}
        /\ pageref' = [pageref EXCEPT ![g] = (pageref[g] + 1) % RefLimit]
        /\ pc' = [pc EXCEPT ![p] = "forkmap"]
        /\ UNCHANGED <<free, dirs, tbl, pa, pgdir, dir, i>>
    BY DEF ForkRef, procs, local
  <1>2. TypeOK /\ PageInv /\ d \in Frames
    BY <1>1, HereFrame DEF MemInv, StructInv, Alive
  <1>3. v \in Pages
    BY <1>1, <1>2, ConstAssumption DEF TypeOK, Pages
  <1>4. g # Zero => pageref[g] + 1 < RefLimit
    BY DEF RefRoom
  <1>5. \A q \in Procs : pc'[q] = "forkmap" => q = p \/ pc[q] = "forkmap"
    BY <1>1, <1>2 DEF TypeOK
  <1>6. \A f : /\ f # g => Refs(f)' \subseteq Refs(f)
               /\ Refs(f)' \subseteq Refs(f) \cup {<<dir[p], v>>}
    <2> SUFFICES ASSUME NEW f, NEW e \in Frames, NEW w \in Pages,
                        <<e, w>> \in Refs(f)', <<e, w>> \notin Refs(f)
                 PROVE  f = g /\ e = dir[p] /\ w = v
        BY DEF Refs
    <2>1. pa[e][w] # f /\ ~Pending(e, w, f)
      BY DEF Refs
    <2>2. PICK q \in Procs : /\ pc'[q] = "forkmap" /\ dir[q] = e /\ i[q] = w
                             /\ pa[pgdir[q]][w] = f
      BY <1>1, <2>1 DEF Refs, Pending, Here
    <2> QED BY <1>5, <2>1, <2>2 DEF Pending, Here
  <1>7. \A f \in Frames : pageref'[f] = IF f = g THEN pageref[f] + 1 ELSE pageref[f]
    <2>1. g \in Frames => (pageref[g] + 1) % RefLimit = pageref[g] + 1
      <3>1. g \in Frames => g # Zero /\ pageref[g] \in Nat
        BY <1>2, ConstAssumption DEF TypeOK, AFrame
      <3>2. \A n \in Nat : n < RefLimit => n % RefLimit = n
        BY ConstAssumption
      <3> HIDE DEF g
      <3> QED BY <1>4, <3>1, <3>2
    <2> HIDE DEF g
    <2> QED BY <1>1, <1>2, <2>1 DEF TypeOK, AFrame
  <1>8. RefsCovered'
    <2>1. \A f \in Frames : CoverKept(f)
      BY <1>6, <1>7 DEF CoverKept
    <2> QED BY <1>2, <2>1, CoverStep DEF PageInv
  <1>9. WritableSole'
    <2> SUFFICES ASSUME NEW e \in Frames, NEW w \in Pages, <<e, w>> \in wr'
                 PROVE  SoleKept(e, w)
        BY <1>2, SoleStep DEF PageInv
    <2>1. <<e, w>> \in wr /\ pa'[e][w] = pa[e][w] /\ <<e, w>> # <<d, v>>
      BY <1>1
    <2>2. pa[e][w] \in Frames /\ Refs(pa[e][w]) = {<<e, w>>}
      BY <1>2, <2>1 DEF PageInv, WritableSole
    <2>3. pa[e][w] # g
      BY <1>2, <1>3, <2>1, <2>2 DEF Refs
    <2> QED BY <1>1, <1>6, <2>1, <2>3 DEF SoleKept
  <1>10. RolesDisjoint'
    <2>1. Data' \subseteq Data
      <3>1. <<d, v>> \in Refs(g)
        BY <1>2, <1>3 DEF Refs
      <3> QED BY <1>6, <3>1 DEF Data
    <2> QED BY <1>1, <1>2, <2>1 DEF PageInv, RolesDisjoint, TableFrames
  <1>11. Blank' /\ TblSole'
    BY <1>1, <1>2 DEF PageInv, Blank, TblSole
  <1> QED BY <1>8, <1>9, <1>10, <1>11 DEF PageInv

\* Page v of d is unmapped and given to kfree.
LEMMA PageDrop ==
  ASSUME MemInv, TypeOK', NoNewPend, NEW d \in dirs, NEW v \in Pages, Quiet(d),
         Kfree({pa[d][v]} \ {None}), ClearPte(d, v), UNCHANGED <<dirs, tbl>>
  PROVE  PageInv'
  <1> DEFINE g == pa[d][v]
  <1>1. TypeOK /\ PageInv /\ d \in Frames /\ None \notin Frames
    BY ConstAssumption DEF MemInv, StructInv, TypeOK
  <1>2. pa' = [pa EXCEPT ![d][v] = None] /\ wr' = wr \ {<<d, v>>}
    BY DEF ClearPte, SetPte
  <1>3. \A f \in Frames : Refs(f)' \subseteq Refs(f) \ {<<d, v>>}
    BY <1>1, <1>2, RefsPut
  <1>4. <<d, v>> \in Refs(g)
    BY <1>1 DEF Refs
  <1>5. /\ \A f \in Frames : pageref'[f] = IF f = g /\ pageref[f] # 0
                                           THEN pageref[f] - 1 ELSE pageref[f]
        /\ free' = free \cup {f \in Frames : f = g /\ pageref[f] = 0}
    <2>1. g \in Frames \cup {Zero, None}
      BY <1>1 DEF TypeOK, AFrame
    <2> HIDE DEF g
    <2>2. Kfree({g} \ {None})
      BY DEF g
    <2> QED BY <1>1, <2>1, <2>2, ConstAssumption DEF Kfree, AFrame
  <1>6. RefsCovered'
    <2>1. \A f \in Frames : CoverKept(f)
      BY <1>3, <1>4, <1>5 DEF CoverKept
    <2> QED BY <1>1, <2>1, CoverStep DEF PageInv
  <1>7. \A e \in Frames, w \in Pages :
          pa'[e][w] = IF e = d /\ w = v THEN None ELSE pa[e][w]
    BY <1>1, <1>2 DEF TypeOK
  <1>8. WritableSole'
    <2> SUFFICES ASSUME NEW e \in Frames, NEW w \in Pages, <<e, w>> \in wr'
                 PROVE  SoleKept(e, w)
        BY <1>1, SoleStep DEF PageInv
    <2>1. <<e, w>> \in wr /\ pa'[e][w] = pa[e][w]
      BY <1>2, <1>7
    <2>2. pa[e][w] \in Frames
      BY <1>1, <2>1 DEF PageInv, WritableSole
    <2> QED BY <1>3, <2>1, <2>2 DEF SoleKept
  <1>9. RolesDisjoint'
    <2> DEFINE L == {f \in Frames : f = g /\ pageref[f] = 0}
    <2>1. \A f \in L : Refs(f) = {<<d, v>>}
      BY <1>1, <1>4, LastRef DEF PageInv
    <2>2. Data' \subseteq Data \ L /\ L \subseteq Data
      BY <1>3, <1>4, <2>1 DEF Data
    <2>3. TableFrames' = TableFrames
      BY DEF TableFrames
    <2> HIDE DEF L
    <2>4. free' = free \cup L
      BY <1>5 DEF L
    <2> QED BY <1>1, <2>2, <2>3, <2>4 DEF PageInv, RolesDisjoint
  <1>10. Blank' /\ TblSole'
    BY <1>1, <1>7 DEF PageInv, Blank, TblSole, TypeOK, NoMap
  <1> QED BY <1>6, <1>8, <1>9, <1>10 DEF PageInv

LEMMA PageShrink ==
  ASSUME MemInv, TypeOK', NEW p \in Procs, Shrink(p)
  PROVE  PageInv'
  <1> DEFINE d == Here(p)
  <1> DEFINE v == sz[p] - 1
  <1>1. /\ pc[p] = "user" /\ v \in Pages /\ Kfree({pa[d][v]} \ {None})
        /\ ClearPte(d, v) /\ UNCHANGED <<dirs, tbl, pc, pgdir, local>>
    BY DEF Shrink, Running
  <1>2. d \in dirs /\ Quiet(d)
    BY <1>1, UserQuiet
  <1>3. NoNewPend
    BY <1>1 DEF NoNewPend, local
  <1> HIDE DEF d, v
  <1> QED BY <1>1, <1>2, <1>3, PageDrop

LEMMA PageFreePage ==
  ASSUME MemInv, TypeOK', NEW p \in Procs, FreePage(p)
  PROVE  PageInv'
  <1> DEFINE d == dir[p]
  <1>1. PICK v \in Pages : pa[d][v] # None /\ Kfree({pa[d][v]}) /\ ClearPte(d, v)
    BY DEF FreePage
  <1>2. pc[p] = "free" /\ UNCHANGED <<dirs, tbl, pc, procs, local>>
    BY DEF FreePage
  <1>3. d \in dirs /\ Quiet(d)
    BY <1>2, DirQuiet
  <1>4. NoNewPend
    BY <1>2 DEF NoNewPend, procs, local
  <1>5. Kfree({pa[d][v]} \ {None})
    <2>1. {pa[d][v]} \ {None} = {pa[d][v]}
      BY <1>1
    <2> QED BY <1>1, <2>1
  <1> HIDE DEF d
  <1> QED BY <1>1, <1>2, <1>3, <1>4, <1>5, PageDrop

\* The directory and its page tables go; nothing maps them.
LEMMA PageFreeDir ==
  ASSUME MemInv, TypeOK', NEW p \in Procs, FreeDir(p)
  PROVE  PageInv'
  <1> DEFINE d == dir[p]
  <1> DEFINE S == {d} \cup ({tbl[d][k] : k \in Tables} \ {None})
  <1>1. /\ pc[p] = "free" /\ pa[d] = NoMap /\ Kfree(S) /\ dirs' = dirs \ {d}
        /\ tbl' = [tbl EXCEPT ![d] = NoTbl]
        /\ UNCHANGED <<pa, wr, pgdir>>
    BY DEF FreeDir
  <1>2. TypeOK /\ PageInv /\ d \in dirs /\ d \in Frames
    BY <1>1, DirQuiet DEF MemInv, StructInv
  <1>3. NoNewPend
    <2>1. \A q \in Procs : pc'[q] = "forkmap" => pc[q] = "forkmap" /\ q # p
      BY <1>2 DEF FreeDir, Return, TypeOK
    <2>2. \A q \in Procs : q # p => dir'[q] = dir[q] /\ i'[q] = i[q]
      BY <1>2 DEF FreeDir, Return, TypeOK
    <2> QED BY <1>1, <2>1, <2>2 DEF NoNewPend
  <1>4. \A f : Refs(f)' \subseteq Refs(f)
    BY <1>1, <1>3, RefsSame
  <1>5. S \subseteq Frames /\ S \cap Data = {}
    BY <1>2 DEF TypeOK, PageInv, RolesDisjoint, TableFrames
  <1>6. \A f \in S : Refs(f) = {}
    BY <1>5 DEF Data
  <1>7. \A e \in Frames, k \in Tables :
          tbl'[e][k] = IF e = d THEN None ELSE tbl[e][k]
    BY <1>1, <1>2 DEF TypeOK, NoTbl
  <1>8. TableFrames' \subseteq TableFrames \ S
    <2> SUFFICES ASSUME NEW f \in Frames, NEW e \in Frames, NEW k \in Tables,
                        tbl'[e][k] = f
                 PROVE  f \in TableFrames /\ f \notin S
        BY DEF TableFrames
    <2>1. e # d /\ tbl[e][k] = f
      BY <1>7, ConstAssumption
    <2>2. f \in TableFrames
      BY <2>1 DEF TableFrames
    <2>3. f # d
      BY <1>2, <2>2 DEF PageInv, RolesDisjoint
    <2>4. \A l \in Tables : tbl[d][l] # f
      BY <1>2, <2>1, ConstAssumption DEF PageInv, TblSole
    <2> QED BY <2>2, <2>3, <2>4
  <1>9. dirs \cap S \subseteq {d}
    BY <1>2 DEF PageInv, RolesDisjoint, TableFrames, TypeOK
  <1>10. Blank'
    BY <1>1, <1>2 DEF PageInv, Blank, TypeOK, NoTbl
  <1>11. TblSole'
    BY <1>2, <1>7 DEF PageInv, TblSole
  <1> HIDE DEF S, d
  <1>12. RefsCovered'
    <2>1. \A f \in Frames : f \notin S => pageref'[f] = pageref[f]
      BY <1>1 DEF Kfree, AFrame
    <2>2. \A f \in Frames : CoverKept(f)
      BY <1>4, <1>6, <2>1 DEF CoverKept
    <2> QED BY <1>2, <2>2, CoverStep DEF PageInv
  <1>13. WritableSole'
    BY <1>1, <1>2, <1>4, SoleStep DEF SoleKept, PageInv
  <1>14. RolesDisjoint'
    <2>1. Data' \subseteq Data
      BY <1>4 DEF Data
    <2>2. free' \subseteq free \cup S
      BY <1>1 DEF Kfree
    <2>3. dirs' \cap S = {}
      BY <1>1, <1>9
    <2> QED BY <1>1, <1>2, <1>5, <1>8, <2>1, <2>2, <2>3 DEF PageInv, RolesDisjoint
  <1> QED BY <1>10, <1>11, <1>12, <1>13, <1>14 DEF PageInv

\* The actions that only move between calls.
LEMMA PageRest ==
  ASSUME MemInv, TypeOK', NEW p \in Procs,
         \/ \E v \in Pages : FaultKill(p, v) \/ FaultNoMem(p, v)
         \/ \E v \in Pages, x \in Stores, kernel \in BOOLEAN : Store(p, v, x, kernel)
         \/ ForkFail(p) \/ ForkDone(p) \/ ExecFail(p) \/ ExecCommit(p) \/ Exit(p)
         \/ \E c \in Procs : Reap(p, c)
         \/ UNCHANGED vars
  PROVE  PageInv'
  <1>1. TypeOK
    BY DEF MemInv, StructInv
  <1>2. UNCHANGED <<free, pageref, dirs, tbl, pa, wr>>
    BY DEF FaultKill, FaultNoMem, Store, ForkFail, ForkDone, ExecFail, ExecCommit,
           Exit, Reap, vars, phys, maps
  <1>3. \A q \in Procs : pc'[q] = "forkmap" => pc[q] = "forkmap"
    <2>1. CASE ForkFail(p) \/ ForkDone(p)
      BY <1>1, <2>1 DEF ForkFail, ForkDone, Return, TypeOK
    <2>2. CASE ExecFail(p) \/ ExecCommit(p) \/ \E c \in Procs : Reap(p, c)
      BY <1>1, <2>2 DEF ExecFail, ExecCommit, Reap, Start, TypeOK
    <2>3. CASE \E v \in Pages : FaultKill(p, v) \/ FaultNoMem(p, v)
      BY <1>1, <2>3 DEF FaultKill, FaultNoMem, TypeOK
    <2>4. CASE Exit(p)
      BY <1>1, <2>4 DEF Exit, TypeOK
    <2> QED BY <2>1, <2>2, <2>3, <2>4 DEF Store, vars
  <1>4. \A q \in Procs : pc'[q] = "forkmap" => dir'[q] = dir[q] /\ i'[q] = i[q]
    <2>1. CASE ForkFail(p) \/ ForkDone(p)
      BY <1>1, <2>1 DEF ForkFail, ForkDone, Return, TypeOK
    <2>2. CASE ExecFail(p) \/ ExecCommit(p) \/ \E c \in Procs : Reap(p, c)
      BY <1>1, <2>2 DEF ExecFail, ExecCommit, Reap, Start, TypeOK
    <2> QED BY <2>1, <2>2 DEF FaultKill, FaultNoMem, Store, Exit, vars, local
  <1>5. \A q \in Procs : pc'[q] = "forkmap" => pgdir'[q] = pgdir[q]
    <2>1. CASE ForkFail(p) \/ ForkDone(p)
      <3>1. pc[child[p]] = "embryo"
        BY <2>1 DEF ForkFail, ForkDone, MemInv, StructInv, ChildHeld, Forking
      <3>2. \A q \in Procs : q # child[p] => pgdir'[q] = pgdir[q]
        BY <1>1, <2>1 DEF ForkFail, ForkDone, TypeOK
      <3> QED BY <1>3, <3>1, <3>2
    <2>2. CASE ExecCommit(p)
      <3>1. pc'[p] = "free"
        BY <1>1, <2>2 DEF ExecCommit, Start, TypeOK
      <3> QED BY <1>1, <2>2, <3>1 DEF ExecCommit, TypeOK
    <2> QED BY <2>1, <2>2 DEF FaultKill, FaultNoMem, Store, ExecFail, Exit, Reap, vars,
                              procs
  <1>6. NoNewPend
    BY <1>3, <1>4, <1>5 DEF NoNewPend
  <1> QED BY <1>2, <1>6, PageSame

LEMMA PageBegin ==
  ASSUME MemInv, TypeOK', NEW p \in Procs,
         ExecBegin(p) \/ \E c \in Procs : ForkBegin(p, c)
  PROVE  PageInv'
  <1>1. TypeOK
    BY DEF MemInv, StructInv
  <1>2. PICK d \in Frames : Setupkvm(d)
    BY DEF ExecBegin, ForkBegin
  <1>3. UNCHANGED <<pageref, tbl, pa, wr, pgdir>>
    BY DEF ExecBegin, ForkBegin, procs
  <1>4. \A q \in Procs : pc'[q] = "forkmap" => pc[q] = "forkmap" /\ q # p
    BY <1>1 DEF ExecBegin, ForkBegin, Start, TypeOK
  <1>5. \A q \in Procs : q # p => dir'[q] = dir[q] /\ i'[q] = i[q]
    BY <1>1 DEF ExecBegin, ForkBegin, Start, TypeOK
  <1>6. NoNewPend
    BY <1>3, <1>4, <1>5 DEF NoNewPend
  <1> QED BY <1>2, <1>3, <1>6, PageSetup

LEMMA PageNext ==
  ASSUME MemInv, TypeOK', [Next]_vars
  PROVE  PageInv'
  <1>1. CASE UNCHANGED vars
    BY <1>1, PageRest, ConstAssumption
  <1>2. ASSUME NEW p \in Procs, Access(p) PROVE PageInv'
    BY <1>2, PageRest, PageFaultZero, PageFaultSole, PageFaultCopy DEF Access
  <1>3. ASSUME NEW p \in Procs, Grow(p) \/ Shrink(p) \/ Exit(p) PROVE PageInv'
    BY <1>3, PageGrow, PageShrink, PageRest
  <1>4. ASSUME NEW p \in Procs, Fork(p) PROVE PageInv'
    BY <1>4, PageBegin, PageForkRef, PageForkMap, PageRest DEF Fork
  <1>5. ASSUME NEW p \in Procs, Exec(p) PROVE PageInv'
    BY <1>5, PageBegin, PageExecPage, PageRest DEF Exec
  <1>6. ASSUME NEW p \in Procs, Wait(p) PROVE PageInv'
    BY <1>6, PageFreePage, PageFreeDir, PageRest DEF Wait
  <1> QED BY <1>1, <1>2, <1>3, <1>4, <1>5, <1>6 DEF Next

-----------------------------------------------------------------------------

LEMMA MemInit == Init => MemInv
  <1> SUFFICES ASSUME Init PROVE MemInv
      OBVIOUS
  <1>1. PICK d \in Pick(Frames) : \E f \in Pick(Frames \ {d}) :
        \E t \in Pick(Frames \ {d, f}) : InitWith(d, f, t)
    BY DEF Init
  <1>2. PICK f \in Pick(Frames \ {d}) :
          \E t \in Pick(Frames \ {d, f}) : InitWith(d, f, t)
    BY <1>1
  <1>3. PICK t \in Pick(Frames \ {d, f}) : InitWith(d, f, t)
    BY <1>2
  <1>4. d \in Frames /\ f \in Frames \ {d} /\ t \in Frames \ {d, f}
    BY PickIn
  <1>5. StructInv /\ TypeOK
    BY StructInit DEF StructInv
  <1>6. \A p \in Procs : /\ Alive(p) => p = InitProc /\ pgdir[p] = d
                         /\ dir[p] = None /\ pc[p] # "forkmap"
    BY <1>3 DEF InitWith, Alive
  <1>7. dirs = {d} /\ d # None
    BY <1>3, <1>4, ConstAssumption DEF InitWith
  <1>8. OwnInv
    BY <1>6, <1>7 DEF OwnInv, DirsOwned, SoleOwner
  <1>9. \A e \in Frames, v \in Pages :
          pa[e][v] = IF e = d /\ v = 0 THEN f ELSE None
    BY <1>3 DEF InitWith, NoMap
  <1>10. \A e \in Frames, k \in Tables :
          tbl[e][k] = IF e = d /\ k = 0 THEN t ELSE None
    BY <1>3 DEF InitWith, NoTbl
  <1>11. \A g \in Frames : /\ g # f => Refs(g) = {}
                           /\ Refs(g) \subseteq {<<d, 0>>}
    BY <1>6, <1>9, ConstAssumption DEF Refs, Pending
  <1>12. TableFrames \subseteq {t} /\ Data \subseteq {f}
    BY <1>10, <1>11, ConstAssumption DEF TableFrames, Data
  <1>13. RolesDisjoint
    BY <1>3, <1>4, <1>12 DEF RolesDisjoint, InitWith
  <1>14. RefsCovered
    <2> SUFFICES ASSUME NEW g \in Frames PROVE Cardinality(Refs(g)) <= pageref[g] + 1
        BY DEF RefsCovered
    <2>1. pageref[g] \in Nat
      BY <1>5, ConstAssumption DEF TypeOK, AFrame
    <2>2. IsFiniteSet({}) /\ Cardinality({}) = 0
      BY FS_EmptySet
    <2> QED BY <1>11, <2>1, <2>2, CardStep
  <1>15. WritableSole
    <2>1. wr = {<<d, 0>>} /\ 0 \in Pages /\ pa[d][0] = f
      BY <1>3, <1>4, <1>9, ConstAssumption DEF InitWith, Pages
    <2>2. Refs(f) = {<<d, 0>>}
      BY <1>4, <1>11, <2>1 DEF Refs
    <2> QED BY <1>4, <2>1, <2>2 DEF WritableSole
  <1>16. Blank /\ TblSole
    BY <1>3, <1>7, <1>10 DEF Blank, TblSole, InitWith
  <1> QED BY <1>5, <1>8, <1>13, <1>14, <1>15, <1>16 DEF MemInv, PageInv

LEMMA MemNext == MemInv /\ [Next]_vars => MemInv'
  <1> SUFFICES ASSUME MemInv, [Next]_vars PROVE MemInv'
      OBVIOUS
  <1>1. StructInv' /\ TypeOK'
    BY StructNext DEF MemInv, StructInv
  <1> QED BY <1>1, OwnNext, PageNext DEF MemInv

\* Every directory has the owner the code takes for granted, no page table
\* hangs in two directories, and the counts cover the mappings, whatever the
\* processes, pages and memory.
THEOREM MemInvariant == Spec => []MemInv
  <1>1. Init => MemInv
    BY MemInit
  <1>2. MemInv /\ [Next]_vars => MemInv'
    BY MemNext
  <1> QED BY <1>1, <1>2, PTL DEF Spec

\* RolesDisjoint, which the run cow_paging checks: kalloc never hands out a
\* page in use, and no page serves two purposes.
THEOREM RolesApart == Spec => []RolesDisjoint
  <1>1. MemInv => RolesDisjoint
    BY DEF MemInv, PageInv
  <1> QED BY <1>1, MemInvariant, PTL

\* RefsCovered: no page is freed while an entry, or a fork about to enter it,
\* still refers to it.
THEOREM CountsCover == Spec => []RefsCovered
  <1>1. MemInv => RefsCovered
    BY DEF MemInv, PageInv
  <1> QED BY <1>1, MemInvariant, PTL

\* WritableSole: what one process may write no other process maps.
THEOREM WritersAlone == Spec => []WritableSole
  <1>1. MemInv => WritableSole
    BY DEF MemInv, PageInv
  <1> QED BY <1>1, MemInvariant, PTL

(***************************************************************************)
(* Copy-on-write fork, lazy zero pages and reference counts implement      *)
(* memory that is copied at fork and shared with nobody: CowMemory         *)
(* implements PrivateMemory.  And no page is lost.                         *)
(***************************************************************************)

\* The pages below n of directory d are mapped and no other.
Shaped(d, n) == \A v \in Pages : pa[d][v] # None <=> v < n

\* A process has memory up to sz, or has given up all of it with sbrk.
Live(p) ==
  pc[p] \notin {"unused", "embryo", "killed", "zombie"} =>
    \/ sz[p] >= 1 /\ Shaped(pgdir[p], sz[p])
    \/ pc[p] = "user" /\ pa[pgdir[p]] = NoMap

\* fork's new directory maps what the parent's maps, as far as it has come.
Copied(p) ==
  pc[p] \in Forking =>
    \A v \in Pages : pa[dir[p]][v] = IF v < i[p] THEN pa[pgdir[p]][v] ELSE None

\* exec's new directory holds the program, as far as it has come.
Loaded(p) ==
  pc[p] = "load" =>
    /\ Shaped(dir[p], i[p])
    /\ \A v \in Pages : v < i[p] =>
         content[pa[dir[p]][v]] = IF v = TextPages THEN Junk ELSE Image

JunkFree == \A f \in free : content[f] = Junk
ZeroKept == content[Zero] = ZeroVal

DataInv == /\ \A p \in Procs : Live(p) /\ Copied(p) /\ Loaded(p)
           /\ JunkFree /\ ZeroKept
FullInv == MemInv /\ DataInv

-----------------------------------------------------------------------------
(* What a process does to its own directory leaves the others alone.       *)

\* Outside directory d every entry, and the page behind it, stays as it is.
OnlyIn(d) ==
  \A e \in Frames : e # d =>
    /\ pa'[e] = pa[e]
    /\ \A v \in Pages : pa[e][v] # None => content'[pa[e][v]] = content[pa[e][v]]

\* A process whose call goes on as it was.
SameCall(q) ==
  /\ pc'[q] = pc[q] /\ pgdir'[q] = pgdir[q] /\ sz'[q] = sz[q]
  /\ dir'[q] = dir[q] /\ i'[q] = i[q]

LEMMA CallKept ==
  ASSUME TypeOK, NEW q \in Procs, SameCall(q), Live(q), Copied(q), Loaded(q),
         NEW d, OnlyIn(d),
         Alive(q) => pgdir[q] \in Frames \ {d},
         dir[q] # None => dir[q] # d,
         pc[q] \in Busy => dir[q] # None
  PROVE  Live(q)' /\ Copied(q)' /\ Loaded(q)'
  <1>1. Alive(q) => pa'[pgdir[q]] = pa[pgdir[q]]
    BY DEF OnlyIn
  <1>2. pc[q] \in Busy =>
          /\ pa'[dir[q]] = pa[dir[q]]
          /\ \A v \in Pages : pa[dir[q]][v] # None =>
               content'[pa[dir[q]][v]] = content[pa[dir[q]][v]]
    BY DEF OnlyIn, TypeOK
  <1>3. Live(q)'
    BY <1>1 DEF Live, SameCall, Shaped, Alive
  <1>4. Copied(q)'
    BY <1>1, <1>2 DEF Copied, SameCall, Forking, Busy, Alive
  <1>5. Loaded(q)'
    BY <1>2 DEF Loaded, SameCall, Shaped, Busy
  <1> QED BY <1>3, <1>4, <1>5

\* The same for every other process, when d is the directory in use by p.
LEMMA OthersKept ==
  ASSUME FullInv, NEW p \in Procs, NEW d \in Frames, OnlyIn(d),
         \/ Alive(p) /\ d = pgdir[p] /\ pc[p] # "zombie"
         \/ d = dir[p]
         \/ d \notin dirs,
         NEW q \in Procs \ {p}, SameCall(q), q # child[p] \/ pc[p] # "free"
  PROVE  Live(q)' /\ Copied(q)' /\ Loaded(q)'
  <1>1. TypeOK /\ DirsHeld /\ ChildHeld /\ OwnInv /\ None \notin Frames
    BY ConstAssumption DEF FullInv, MemInv, StructInv
  <1>2. Live(q) /\ Copied(q) /\ Loaded(q)
    BY DEF FullInv, DataInv
  <1>3. Alive(q) => pgdir[q] \in Frames \ {d}
    <2>1. Alive(q) => pgdir[q] \in dirs /\ dirs \subseteq Frames
      BY <1>1 DEF OwnInv, DirsOwned, TypeOK
    <2> QED BY <1>1, <2>1 DEF OwnInv, SoleOwner
  <1>4. dir[q] # None => dir[q] # d
    <2>1. dir[q] # None => dir[q] \in dirs
      BY <1>1 DEF OwnInv, DirsOwned
    <2>2. pc[p] # "zombie" /\ Alive(p) => dir[q] # pgdir[p]
      <3>1. child[q] = p => pc[q] # "free" \/ pc[p] = "zombie"
        BY <1>1, ConstAssumption DEF ChildHeld, Forking
      <3> QED BY <1>1, <3>1 DEF OwnInv, SoleOwner
    <2> QED BY <1>1, <2>1, <2>2 DEF OwnInv, SoleOwner
  <1>5. pc[q] \in Busy => dir[q] # None
    BY <1>1 DEF DirsHeld
  <1> QED BY <1>1, <1>2, <1>3, <1>4, <1>5, CallKept

\* A process that is not in a call has only memory to keep.
LEMMA UserCall ==
  ASSUME NEW q, pc'[q] \notin Busy, Live(q)'
  PROVE  Live(q)' /\ Copied(q)' /\ Loaded(q)'
  BY DEF Copied, Loaded, Busy, Forking

LEMMA RunningShape ==
  ASSUME FullInv, NEW p \in Procs, Running(p)
  PROVE  sz[p] >= 1 /\ Shaped(Here(p), sz[p])
  <1>1. 0 \in Pages
    BY ConstAssumption DEF Pages
  <1> QED BY <1>1 DEF FullInv, DataInv, Live, Running, Here, NoMap

\* Views.  A view is what a live process maps.
Seen(p) == pc[p] \notin {"unused", "embryo", "killed", "zombie"}

LEMMA ViewSame ==
  ASSUME NEW q, UNCHANGED View(q) \/ (~Seen(q) /\ ~Seen(q)')
                \/ (/\ Seen(q) /\ Seen(q)' /\ pgdir'[q] = pgdir[q]
                    /\ pa'[pgdir[q]] = pa[pgdir[q]]
                    /\ \A v \in Pages : pa[pgdir[q]][v] # None =>
                         content'[pa[pgdir[q]][v]] = content[pa[pgdir[q]][v]])
  PROVE  UNCHANGED View(q)
  BY DEF View, Seen, Here

LEMMA OthersView ==
  ASSUME FullInv, NEW p \in Procs, NEW d, OnlyIn(d),
         \/ Alive(p) /\ d = pgdir[p]
         \/ d = dir[p] /\ d # None,
         NEW q \in Procs \ {p}, Seen(q)' <=> Seen(q), Seen(q) => pgdir'[q] = pgdir[q]
  PROVE  UNCHANGED View(q)
  <1>1. CASE ~Seen(q)
    BY <1>1, ViewSame
  <1>2. CASE Seen(q)
    <2>1. TypeOK /\ ChildHeld /\ OwnInv
      BY DEF FullInv, MemInv, StructInv
    <2>2. pgdir[q] \in Frames
      BY <1>2, <2>1 DEF OwnInv, DirsOwned, TypeOK, Seen, Alive
    <2>3. pgdir[q] # d
      <3>1. pgdir[q] = dir[p] => pc[p] = "free" /\ child[p] = q
        BY <1>2, <2>1 DEF OwnInv, SoleOwner, Seen, Alive
      <3>2. ~(pc[p] = "free" /\ child[p] = q)
        BY <1>2, <2>1, ConstAssumption DEF ChildHeld, Seen, Forking
      <3> QED BY <1>2, <2>1, <3>1, <3>2 DEF OwnInv, SoleOwner, Seen, Alive
    <2> QED BY <1>2, <2>2, <2>3, ViewSame DEF OnlyIn
  <1> QED BY <1>1, <1>2

-----------------------------------------------------------------------------
(* One step for all the actions: p's own part is to be shown, the others'  *)
(* follows.                                                                *)

Own(q) == Live(q) /\ Copied(q) /\ Loaded(q)
Gone(q) == pc[q] \in {"unused", "embryo", "killed", "zombie"}

LEMMA DataStep ==
  ASSUME FullInv, NEW p \in Procs, NEW d \in Frames, OnlyIn(d),
         \/ Alive(p) /\ d = pgdir[p] /\ pc[p] # "zombie"
         \/ d = dir[p]
         \/ d \notin dirs,
         \A q \in Procs \ {p} : SameCall(q) \/ Gone(q)' \/ Own(q)',
         Own(p)', JunkFree', ZeroKept'
  PROVE  DataInv'
  <1>1. ASSUME NEW q \in Procs \ {p}, SameCall(q), ~Gone(q)'
        PROVE  Own(q)'
    <2>1. pc[p] = "free" => child[p] # q
      <3>1. pc[q] # "zombie" /\ q # None
        BY <1>1, ConstAssumption DEF SameCall, Gone
      <3> QED BY <3>1 DEF FullInv, MemInv, StructInv, ChildHeld, Forking
    <2> QED BY <1>1, <2>1, OthersKept DEF Own
  <1>2. \A q : Gone(q)' => Own(q)'
    BY DEF Gone, Own, Live, Copied, Loaded, Forking
  <1> QED BY <1>1, <1>2 DEF DataInv, Own

\* Steps that change no page and no entry.
LEMMA OnlyNone ==
  ASSUME pa' = pa, content' = content, NEW d
  PROVE  OnlyIn(d)
  BY DEF OnlyIn

LEMMA MapsIn == \A e \in Frames, w \in Pages : <<e, w>> \in Refs(pa[e][w])
  BY DEF Refs

LEMMA FreeUnmapped ==
  ASSUME TypeOK, RolesDisjoint, NEW mem \in free, NEW e \in Frames, NEW w \in Pages
  PROVE  pa[e][w] # mem
  <1>1. mem \in Frames /\ mem \notin Data
    BY DEF TypeOK, RolesDisjoint
  <1>2. Refs(mem) = {}
    BY <1>1 DEF Data
  <1> QED BY <1>2, MapsIn

\* A page off the free list is put in directory d, and filled.
LEMMA OnlyPut ==
  ASSUME MemInv, NEW d \in Frames, NEW v \in Pages, NEW g, NEW mem \in free,
         pa' = [pa EXCEPT ![d][v] = g],
         \A f \in AFrame : f # mem => content'[f] = content[f]
  PROVE  OnlyIn(d)
  <1>1. TypeOK /\ RolesDisjoint
    BY DEF MemInv, PageInv, StructInv
  <1> SUFFICES ASSUME NEW e \in Frames \ {d}
               PROVE  /\ pa'[e] = pa[e]
                      /\ \A w \in Pages : pa[e][w] # None =>
                           content'[pa[e][w]] = content[pa[e][w]]
      BY DEF OnlyIn
  <1>2. pa'[e] = pa[e]
    BY <1>1 DEF TypeOK
  <1>3. ASSUME NEW w \in Pages, pa[e][w] # None
        PROVE  content'[pa[e][w]] = content[pa[e][w]]
    <2>1. pa[e][w] \in AFrame
      BY <1>1, <1>3 DEF TypeOK
    <2>3. pa[e][w] # mem
      BY <1>1, FreeUnmapped
    <2> QED BY <2>1, <2>3
  <1> QED BY <1>2, <1>3

\* A page with one mapping, page v of d, changes.
LEMMA OnlySole ==
  ASSUME MemInv, NEW d \in Frames, NEW v \in Pages, NEW g \in Frames,
         Refs(g) \subseteq {<<d, v>>},
         \A e \in Frames : e # d => pa'[e] = pa[e],
         \A f \in AFrame : f # g => content'[f] = content[f]
  PROVE  OnlyIn(d)
  <1>1. TypeOK
    BY DEF MemInv, StructInv
  <1>2. ASSUME NEW e \in Frames \ {d}, NEW w \in Pages, pa[e][w] # None
        PROVE  content'[pa[e][w]] = content[pa[e][w]]
    <2>1. pa[e][w] \in AFrame
      BY <1>1, <1>2 DEF TypeOK
    <2>2. pa[e][w] # g
      <3>1. <<e, w>> \in Refs(pa[e][w]) /\ <<e, w>> # <<d, v>>
        BY MapsIn
      <3> QED BY <3>1
    <2> QED BY <2>1, <2>2
  <1> QED BY <1>2 DEF OnlyIn

\* kfree of a page unmapped from d changes no page mapped elsewhere.
LEMMA OnlyKfree ==
  ASSUME MemInv, NEW d \in Frames, NEW v \in Pages,
         Kfree({pa[d][v]} \ {None}), ClearPte(d, v)
  PROVE  OnlyIn(d) /\ (JunkFree => JunkFree') /\ (ZeroKept => ZeroKept')
  <1> DEFINE g == pa[d][v]
  <1> DEFINE last == {f \in ({g} \ {None}) \ {Zero} : pageref[f] = 0}
  <1>1. TypeOK /\ RefsCovered
    BY DEF MemInv, PageInv, StructInv
  <1>2. /\ content' = [f \in AFrame |-> IF f \in last THEN Junk ELSE content[f]]
        /\ free' = free \cup last
    BY DEF Kfree
  <1>3. pa' = [pa EXCEPT ![d][v] = None]
    BY DEF ClearPte, SetPte
  <1>4. \A e \in Frames : e # d => pa'[e] = pa[e]
    BY <1>1, <1>3 DEF TypeOK
  <1>5. (JunkFree => JunkFree') /\ (ZeroKept => ZeroKept')
    <2>1. last \subseteq AFrame /\ Zero \notin last /\ free \subseteq AFrame
          /\ Zero \in AFrame
      BY <1>1 DEF TypeOK, AFrame
    <2> HIDE DEF last
    <2> QED BY <1>2, <2>1 DEF JunkFree, ZeroKept
  <1>6. CASE last = {}
    <2>1. \A f \in AFrame : content'[f] = content[f]
      BY <1>2, <1>6
    <2>2. OnlyIn(d)
      BY <1>1, <1>4, <2>1 DEF OnlyIn, TypeOK
    <2> QED BY <1>5, <2>2
  <1>7. CASE last # {}
    <2>1. g \in Frames /\ pageref[g] = 0 /\ last = {g}
      BY <1>1, <1>7 DEF TypeOK, AFrame
    <2>2. <<d, v>> \in Refs(g)
      BY DEF Refs
    <2>3. Refs(g) = {<<d, v>>}
      BY <1>1, <2>1, <2>2, LastRef
    <2>4. \A f \in AFrame : f # g => content'[f] = content[f]
      BY <1>2, <2>1
    <2> HIDE DEF g
    <2>5. OnlyIn(d)
      BY <1>4, <2>1, <2>3, <2>4, OnlySole
    <2> QED BY <1>5, <2>5
  <1> QED BY <1>6, <1>7

-----------------------------------------------------------------------------
(* The faults and stores of a process.                                     *)

LEMMA UserOwn ==
  ASSUME FullInv, NEW p \in Procs, pc[p] = "user"
  PROVE  /\ TypeOK /\ Here(p) \in Frames /\ Alive(p) /\ Here(p) = pgdir[p]
         /\ Here(p) \in dirs /\ JunkFree /\ ZeroKept /\ PageInv
  BY UserQuiet DEF FullInv, DataInv, MemInv, StructInv, Alive, Here

\* A fault that replaces or keeps a mapped page leaves the shape.
LEMMA FaultOwn ==
  ASSUME FullInv, NEW p \in Procs, Running(p), SameCall(p),
         \A v \in Pages : pa'[Here(p)][v] # None <=> pa[Here(p)][v] # None
  PROVE  Own(p)'
  <1>1. sz[p] >= 1 /\ Shaped(Here(p), sz[p])
    BY RunningShape
  <1>2. pc'[p] = "user"
    BY DEF SameCall, Running
  <1>3. Live(p)'
    BY <1>1 DEF Live, Shaped, SameCall, Here
  <1> QED BY <1>2, <1>3, UserCall DEF Own, Busy

LEMMA AllSame ==
  ASSUME UNCHANGED <<pc, procs, local>>
  PROVE  \A q : SameCall(q)
  BY DEF SameCall, procs, local

LEMMA DataStore ==
  ASSUME FullInv, NEW p \in Procs, NEW v \in Pages, NEW x \in Stores, NEW kernel,
         Store(p, v, x, kernel)
  PROVE  DataInv' /\ OnlyIn(Here(p))
  <1> DEFINE d == Here(p)
  <1> DEFINE f == pa[d][v]
  <1>1. /\ Running(p) /\ pc[p] = "user" /\ <<d, v>> \in wr
        /\ content' = [content EXCEPT ![f] = x]
        /\ UNCHANGED <<free, pa, pc, procs, local>>
    BY DEF Store, Running, maps
  <1>2. /\ TypeOK /\ d \in Frames /\ d = pgdir[p] /\ Alive(p) /\ JunkFree
        /\ ZeroKept /\ PageInv
    BY <1>1, UserOwn
  <1>3. f \in Frames /\ Refs(f) = {<<d, v>>}
    BY <1>1, <1>2 DEF PageInv, WritableSole
  <1>4. \A g \in AFrame : g # f => content'[g] = content[g]
    BY <1>1, <1>2 DEF TypeOK
  <1>5. \A q : SameCall(q)
    BY <1>1, AllSame
  <1>6. Own(p)'
    BY <1>1, <1>5, FaultOwn
  <1>7. f \notin free
    BY <1>2, <1>3 DEF PageInv, RolesDisjoint, Data
  <1> HIDE DEF f, d
  <1>8. OnlyIn(d)
    BY <1>1, <1>2, <1>3, <1>4, OnlySole DEF FullInv
  <1>9. JunkFree' /\ ZeroKept'
    <2>1. free \subseteq AFrame /\ f # Zero /\ Zero \in AFrame
      BY <1>2, <1>3, ConstAssumption DEF TypeOK, AFrame
    <2> QED BY <1>1, <1>2, <1>4, <1>7, <2>1 DEF JunkFree, ZeroKept
  <1>10. DataInv'
    BY <1>1, <1>2, <1>5, <1>6, <1>8, <1>9, DataStep
  <1> QED BY <1>8, <1>10 DEF d

LEMMA DataFaultZero ==
  ASSUME FullInv, NEW p \in Procs, NEW v \in Pages, NEW kernel,
         FaultZero(p, v, kernel)
  PROVE  DataInv' /\ UNCHANGED View(p) /\ OnlyIn(Here(p))
  <1> DEFINE d == Here(p)
  <1>1. PICK mem \in Pick(free) :
          /\ free' = free \ {mem} /\ pa' = [pa EXCEPT ![d][v] = mem]
          /\ content' = [content EXCEPT ![mem] = ZeroVal]
    BY DEF FaultZero
  <1>2. /\ Running(p) /\ pc[p] = "user" /\ pa[d][v] = Zero
        /\ UNCHANGED <<pc, procs, local>>
    BY DEF FaultZero, WriteFault, Running
  <1>3. /\ TypeOK /\ d \in Frames /\ d = pgdir[p] /\ Alive(p) /\ JunkFree
        /\ ZeroKept /\ PageInv
    BY <1>2, UserOwn
  <1>4. mem \in free /\ mem \in Frames /\ mem # Zero /\ mem # None /\ Zero # None
    BY <1>3, PickIn, ConstAssumption DEF TypeOK
  <1>5. \A g \in AFrame : content'[g] = IF g = mem THEN ZeroVal ELSE content[g]
    BY <1>1, <1>3 DEF TypeOK
  <1>6. OnlyIn(d)
    BY <1>1, <1>3, <1>4, <1>5, OnlyPut DEF FullInv
  <1>7. \A q : SameCall(q)
    BY <1>2, AllSame
  <1>8. \A w \in Pages : pa'[d][w] = IF w = v THEN mem ELSE pa[d][w]
    BY <1>1, <1>3 DEF TypeOK
  <1>9. Own(p)'
    BY <1>2, <1>4, <1>7, <1>8, FaultOwn
  <1>10. JunkFree' /\ ZeroKept'
    <2>1. free \subseteq AFrame /\ Zero \in AFrame
      BY <1>3 DEF TypeOK, AFrame
    <2> QED BY <1>1, <1>3, <1>4, <1>5, <2>1 DEF JunkFree, ZeroKept
  <1>11. DataInv'
    BY <1>2, <1>3, <1>6, <1>7, <1>9, <1>10, DataStep
  <1>12. UNCHANGED View(p)
    <2>1. \A w \in Pages : pa'[d][w] # None <=> pa[d][w] # None
      BY <1>2, <1>4, <1>8
    <2>2. \A w \in Pages : pa[d][w] # None => content'[pa'[d][w]] = content[pa[d][w]]
      <3>1. \A w \in Pages : pa[d][w] # mem
        BY <1>3, <1>4, FreeUnmapped DEF PageInv
      <3>2. \A w \in Pages : pa[d][w] # None => pa[d][w] \in AFrame
        BY <1>3 DEF TypeOK
      <3>3. mem \in AFrame
        BY <1>4 DEF AFrame
      <3> QED BY <1>2, <1>3, <1>5, <1>8, <3>1, <3>2, <3>3 DEF ZeroKept
    <2>3. pgdir'[p] = pgdir[p] /\ pc'[p] = "user"
      BY <1>2, <1>7 DEF SameCall
    <2> QED BY <1>2, <1>3, <2>1, <2>2, <2>3 DEF View, Here
  <1> QED BY <1>6, <1>11, <1>12

LEMMA DataFaultCopy ==
  ASSUME FullInv, NEW p \in Procs, NEW v \in Pages, NEW kernel,
         FaultCopy(p, v, kernel)
  PROVE  DataInv' /\ UNCHANGED View(p) /\ OnlyIn(Here(p))
  <1> DEFINE d == Here(p)
  <1> DEFINE src == pa[d][v]
  <1>1. PICK mem \in Pick(free) :
          /\ free' = free \ {mem} /\ pa' = [pa EXCEPT ![d][v] = mem]
          /\ content' = [content EXCEPT ![mem] = content[src]]
    BY DEF FaultCopy
  <1>2. /\ Running(p) /\ pc[p] = "user" /\ src # None
        /\ UNCHANGED <<pc, procs, local>>
    BY DEF FaultCopy, WriteFault, Running
  <1>3. /\ TypeOK /\ d \in Frames /\ d = pgdir[p] /\ Alive(p) /\ JunkFree
        /\ ZeroKept /\ PageInv
    BY <1>2, UserOwn
  <1>4. mem \in free /\ mem \in Frames /\ mem # Zero /\ mem # None
    BY <1>3, PickIn, ConstAssumption DEF TypeOK
  <1>5. \A g \in AFrame : content'[g] = IF g = mem THEN content[src] ELSE content[g]
    BY <1>1, <1>3 DEF TypeOK
  <1>6. OnlyIn(d)
    BY <1>1, <1>3, <1>4, <1>5, OnlyPut DEF FullInv
  <1>7. \A q : SameCall(q)
    BY <1>2, AllSame
  <1>8. \A w \in Pages : pa'[d][w] = IF w = v THEN mem ELSE pa[d][w]
    BY <1>1, <1>3 DEF TypeOK
  <1>9. Own(p)'
    BY <1>2, <1>4, <1>7, <1>8, FaultOwn
  <1>10. JunkFree' /\ ZeroKept'
    <2>1. free \subseteq AFrame /\ Zero \in AFrame
      BY <1>3 DEF TypeOK, AFrame
    <2> QED BY <1>1, <1>3, <1>4, <1>5, <2>1 DEF JunkFree, ZeroKept
  <1>11. DataInv'
    BY <1>2, <1>3, <1>6, <1>7, <1>9, <1>10, DataStep
  <1>12. UNCHANGED View(p)
    <2>1. \A w \in Pages : pa'[d][w] # None <=> pa[d][w] # None
      BY <1>2, <1>4, <1>8
    <2>2. \A w \in Pages : pa[d][w] # None => content'[pa'[d][w]] = content[pa[d][w]]
      <3>1. \A w \in Pages : pa[d][w] # mem
        BY <1>3, <1>4, FreeUnmapped DEF PageInv
      <3>2. \A w \in Pages : pa[d][w] # None => pa[d][w] \in AFrame
        BY <1>3 DEF TypeOK
      <3>3. mem \in AFrame
        BY <1>4 DEF AFrame
      <3> QED BY <1>2, <1>5, <1>8, <3>1, <3>2, <3>3
    <2>3. pgdir'[p] = pgdir[p] /\ pc'[p] = "user"
      BY <1>2, <1>7 DEF SameCall
    <2> QED BY <1>2, <1>3, <2>1, <2>2, <2>3 DEF View, Here
  <1> QED BY <1>6, <1>11, <1>12

LEMMA DataFaultSole ==
  ASSUME FullInv, NEW p \in Procs, NEW v \in Pages, NEW kernel,
         FaultSole(p, v, kernel)
  PROVE  DataInv' /\ UNCHANGED View(p) /\ OnlyIn(Here(p))
  <1>1. Running(p) /\ pc[p] = "user" /\ UNCHANGED <<phys, pa, pc, procs, local>>
    BY DEF FaultSole, WriteFault, Running
  <1>2. OnlyIn(Here(p)) /\ \A q : SameCall(q)
    BY <1>1, OnlyNone, AllSame DEF phys
  <1>3. Own(p)'
    BY <1>1, <1>2, FaultOwn
  <1>4. /\ Here(p) \in Frames /\ Here(p) = pgdir[p] /\ Alive(p)
        /\ JunkFree' /\ ZeroKept'
    BY <1>1, UserOwn DEF JunkFree, ZeroKept, phys
  <1>5. DataInv'
    BY <1>1, <1>2, <1>3, <1>4, DataStep
  <1>6. UNCHANGED View(p)
    BY <1>1 DEF View, Here, phys, procs
  <1> QED BY <1>2, <1>5, <1>6

-----------------------------------------------------------------------------
(* sbrk, and processes that are killed or exit.                            *)

\* A process gives up its memory while its directory is left to be freed.
LEMMA DataGone ==
  ASSUME FullInv, NEW p \in Procs, pc[p] \in {"user", "killed"}, Gone(p)',
         \A q \in Procs \ {p} : SameCall(q),
         UNCHANGED <<free, content, pa>>
  PROVE  DataInv'
  <1>1. Alive(p) /\ pc[p] # "zombie"
    BY DEF Alive
  <1>2. pgdir[p] \in Frames
    BY <1>1 DEF FullInv, MemInv, StructInv, TypeOK, OwnInv, DirsOwned
  <1>3. OnlyIn(pgdir[p])
    BY OnlyNone
  <1>4. Own(p)'
    BY DEF Own, Gone, Live, Copied, Loaded, Forking
  <1>5. JunkFree' /\ ZeroKept'
    BY DEF FullInv, DataInv, JunkFree, ZeroKept
  <1> QED BY <1>1, <1>2, <1>3, <1>4, <1>5, DataStep

LEMMA DataKill ==
  ASSUME FullInv, NEW p \in Procs,
         Exit(p) \/ \E v \in Pages : FaultKill(p, v) \/ FaultNoMem(p, v)
  PROVE  DataInv' /\ Gone(p)' /\ \A q \in Procs \ {p} : UNCHANGED View(q)
  <1>1. /\ pc[p] \in {"user", "killed"}
        /\ pc' = [pc EXCEPT ![p] = "killed"] \/ pc' = [pc EXCEPT ![p] = "zombie"]
        /\ UNCHANGED <<phys, maps, pgdir, sz, local>>
    BY DEF Exit, FaultKill, FaultNoMem, WriteFault, Running, procs
  <1>2. TypeOK
    BY DEF FullInv, MemInv, StructInv
  <1>3. Gone(p)' /\ \A q \in Procs \ {p} : pc'[q] = pc[q]
    BY <1>1, <1>2 DEF Gone, TypeOK
  <1>4. \A q \in Procs \ {p} : SameCall(q)
    BY <1>1, <1>3 DEF SameCall, local
  <1>5. UNCHANGED <<free, content, pa>>
    BY <1>1 DEF phys, maps
  <1>6. \A q \in Procs \ {p} : UNCHANGED View(q)
    BY <1>1, <1>3, <1>5 DEF View, Here
  <1> QED BY <1>1, <1>3, <1>4, <1>5, <1>6, DataGone

\* sbrk of one page: a page of zeros on top, or the process is killed.
LEMMA DataGrow ==
  ASSUME FullInv, NEW p \in Procs, Grow(p)
  PROVE  /\ DataInv' /\ \A q \in Procs \ {p} : UNCHANGED View(q)
         /\ \/ Gone(p)'
            \/ /\ pc'[p] = "user" /\ pgdir'[p] = pgdir[p] /\ content' = content
               /\ sz[p] \in Pages
               /\ \A w \in Pages : pa'[pgdir[p]][w] =
                                     IF w = sz[p] THEN Zero ELSE pa[pgdir[p]][w]
  <1> DEFINE d == Here(p)
  <1> DEFINE v == sz[p]
  <1>1. /\ Running(p) /\ pc[p] = "user" /\ v < MaxPages
        /\ sz' = [sz EXCEPT ![p] = v + 1] /\ UNCHANGED <<pgdir, local>>
    BY DEF Grow, Running
  <1>2. /\ TypeOK /\ d \in Frames /\ d = pgdir[p] /\ Alive(p) /\ JunkFree
        /\ ZeroKept /\ PageInv
    BY <1>1, UserOwn
  <1>3. v \in Pages /\ v \in Nat
    <2>1. v \in 0 .. MaxPages
      BY <1>2 DEF TypeOK
    <2> QED BY <1>1, <2>1, ConstAssumption DEF Pages
  <1>4. /\ sz'[p] = v + 1
        /\ \A q \in Procs \ {p} : sz'[q] = sz[q]
    BY <1>1, <1>2 DEF TypeOK
  <1>5. CASE /\ Walk(d, v, free) /\ SetPte(d, v, Zero, FALSE, TRUE)
             /\ UNCHANGED <<pageref, content, pc>>
    <2>1. pa' = [pa EXCEPT ![d][v] = Zero]
      BY <1>5 DEF SetPte
    <2>2. free' \subseteq free
      BY <1>5 DEF Walk
    <2>3. \A w \in Pages : pa'[d][w] = IF w = v THEN Zero ELSE pa[d][w]
      BY <1>2, <2>1 DEF TypeOK
    <2>4. OnlyIn(d)
      <3>1. \A e \in Frames : e # d => pa'[e] = pa[e]
        BY <1>2, <2>1 DEF TypeOK
      <3> QED BY <1>5, <3>1 DEF OnlyIn
    <2>5. \A q \in Procs \ {p} : SameCall(q)
      BY <1>1, <1>4, <1>5 DEF SameCall, local
    <2>6. Own(p)'
      <3>1. v >= 1 /\ Shaped(d, v)
        BY <1>1, RunningShape
      <3>2. \A w \in Pages : w < v + 1 <=> w < v \/ w = v
        BY <1>3 DEF Pages
      <3>3. Live(p)'
        BY <1>1, <1>2, <1>3, <1>4, <2>3, <3>1, <3>2, ConstAssumption DEF Live, Shaped
      <3>4. pc'[p] = "user"
        BY <1>1, <1>5
      <3> QED BY <3>3, <3>4, UserCall DEF Own, Busy
    <2>7. JunkFree' /\ ZeroKept'
      BY <1>2, <1>5, <2>2 DEF JunkFree, ZeroKept
    <2>8. DataInv'
      BY <1>1, <1>2, <2>4, <2>5, <2>6, <2>7, DataStep
    <2>9. ASSUME NEW q \in Procs \ {p} PROVE UNCHANGED View(q)
      BY <1>1, <1>2, <1>5, <2>4, OthersView DEF Seen
    <2> QED BY <1>1, <1>2, <1>3, <1>5, <2>3, <2>8, <2>9
  <1>6. CASE pc' = [pc EXCEPT ![p] = "killed"] /\ UNCHANGED <<phys, tbl, pa, wr, us>>
    <2>1. Gone(p)' /\ \A q \in Procs \ {p} : pc'[q] = pc[q]
      BY <1>2, <1>6 DEF Gone, TypeOK
    <2>2. \A q \in Procs \ {p} : SameCall(q)
      BY <1>1, <1>4, <2>1 DEF SameCall, local
    <2>3. DataInv'
      BY <1>1, <1>6, <2>1, <2>2, DataGone DEF phys
    <2>4. \A q \in Procs \ {p} : UNCHANGED View(q)
      BY <1>1, <1>6, <2>1 DEF View, Here, phys
    <2> QED BY <2>1, <2>3, <2>4
  <1> QED BY <1>5, <1>6 DEF Grow

LEMMA DataShrink ==
  ASSUME FullInv, NEW p \in Procs, Shrink(p)
  PROVE  /\ DataInv' /\ \A q \in Procs \ {p} : UNCHANGED View(q)
         /\ pc'[p] = "user" /\ pgdir'[p] = pgdir[p] /\ sz[p] - 1 \in Pages
         /\ \A w \in Pages : pa'[pgdir[p]][w] =
                               IF w = sz[p] - 1 THEN None ELSE pa[pgdir[p]][w]
         /\ \A w \in Pages : pa'[pgdir[p]][w] # None =>
              content'[pa[pgdir[p]][w]] = content[pa[pgdir[p]][w]]
  <1> DEFINE d == Here(p)
  <1> DEFINE v == sz[p] - 1
  <1>1. /\ Running(p) /\ pc[p] = "user" /\ v \in Pages
        /\ Kfree({pa[d][v]} \ {None}) /\ ClearPte(d, v)
        /\ sz' = IF v = 0 THEN sz ELSE [sz EXCEPT ![p] = v]
        /\ UNCHANGED <<pc, pgdir, local>>
    BY DEF Shrink, Running
  <1>2. /\ TypeOK /\ d \in Frames /\ d = pgdir[p] /\ Alive(p) /\ JunkFree
        /\ ZeroKept /\ PageInv
    BY <1>1, UserOwn
  <1>3. OnlyIn(d) /\ JunkFree' /\ ZeroKept'
    <2> HIDE DEF d, v
    <2> QED BY <1>1, <1>2, OnlyKfree DEF FullInv
  <1>4. \A w \in Pages : pa'[d][w] = IF w = v THEN None ELSE pa[d][w]
    BY <1>1, <1>2 DEF ClearPte, SetPte, TypeOK
  <1>5. \A q \in Procs \ {p} : SameCall(q)
    BY <1>1, <1>2 DEF SameCall, TypeOK, local
  <1>6. sz[p] >= 1 /\ Shaped(d, sz[p]) /\ sz[p] \in Nat
    BY <1>1, <1>2, RunningShape, ConstAssumption DEF TypeOK
  <1>7. Own(p)'
    <2>1. CASE v = 0
      <3>1. \A w \in Pages : pa'[d][w] = None
        BY <1>4, <1>6, <2>1 DEF Shaped, Pages
      <3>2. pa' \in [Frames -> [Pages -> AFrame \cup {None}]]
        BY <1>1, <1>2 DEF TypeOK, ClearPte, SetPte
      <3>3. pa'[d] = NoMap
        BY <1>2, <3>1, <3>2 DEF NoMap
      <3> QED BY <1>1, <1>2, <3>3, UserCall DEF Own, Live, Busy
    <2>2. CASE v # 0
      <3>1. sz'[p] = v /\ v >= 1
        BY <1>1, <1>2, <1>6, <2>2 DEF TypeOK
      <3>2. \A w \in Pages : w < v <=> w < sz[p] /\ w # v
        BY <1>6 DEF Pages
      <3>3. \A w \in Pages : pa'[d][w] # None <=> w < v
        BY <1>4, <1>6, <3>2 DEF Shaped
      <3>4. Live(p)'
        BY <1>1, <1>2, <3>1, <3>3 DEF Live, Shaped
      <3> QED BY <1>1, <3>4, UserCall DEF Own, Busy
    <2> QED BY <2>1, <2>2
  <1>8. DataInv'
    BY <1>1, <1>2, <1>3, <1>5, <1>7, DataStep
  <1>9. ASSUME NEW q \in Procs \ {p} PROVE UNCHANGED View(q)
    BY <1>1, <1>2, <1>3, OthersView DEF Seen
  <1>10. ASSUME NEW w \in Pages, pa'[d][w] # None
         PROVE  content'[pa[d][w]] = content[pa[d][w]]
    <2>1. w # v /\ pa[d][w] # None /\ pa[d][w] \in AFrame
      BY <1>2, <1>4, <1>10 DEF TypeOK
    <2>2. CASE pa[d][w] # pa[d][v] \/ pa[d][w] = Zero \/ pageref[pa[d][w]] # 0
      BY <1>1, <2>1, <2>2 DEF Kfree
    <2>3. CASE pa[d][w] = pa[d][v] /\ pa[d][w] # Zero /\ pageref[pa[d][w]] = 0
      <3>1. <<d, w>> \in Refs(pa[d][w]) /\ <<d, v>> \in Refs(pa[d][w])
            /\ <<d, w>> # <<d, v>>
        BY <1>1, <1>2, <2>1, <2>3, MapsIn
      <3>2. pa[d][w] \in Frames
        BY <2>1, <2>3 DEF AFrame
      <3> QED BY <1>2, <2>3, <3>1, <3>2, LastRef DEF PageInv
    <2> QED BY <2>2, <2>3
  <1> QED BY <1>1, <1>2, <1>4, <1>8, <1>9, <1>10

-----------------------------------------------------------------------------
(* fork, exec and wait                                                     *)

\* A step of a call in which no page or entry changes.
LEMMA DataQuiet ==
  ASSUME FullInv, NEW p \in Procs, ~Gone(p),
         \A q \in Procs \ {p} : SameCall(q) \/ Gone(q)' \/ Own(q)',
         Own(p)', UNCHANGED <<content, pa>>, free' \subseteq free
  PROVE  DataInv'
  <1>1. Alive(p) /\ pc[p] # "zombie"
    BY DEF Alive, Gone
  <1>2. pgdir[p] \in Frames
    BY <1>1 DEF FullInv, MemInv, StructInv, TypeOK, OwnInv, DirsOwned
  <1>3. OnlyIn(pgdir[p])
    BY OnlyNone
  <1>4. JunkFree' /\ ZeroKept'
    BY DEF FullInv, DataInv, JunkFree, ZeroKept
  <1> QED BY <1>1, <1>2, <1>3, <1>4, DataStep

\* Nobody's memory changes when no entry and no page does.
LEMMA ViewsQuiet ==
  ASSUME UNCHANGED <<content, pa>>, NEW q,
         Seen(q)' <=> Seen(q), Seen(q) => pgdir'[q] = pgdir[q]
  PROVE  UNCHANGED View(q)
  BY ViewSame

LEMMA CallOwn ==
  ASSUME FullInv, NEW p \in Procs, pc[p] \in Busy
  PROVE  /\ TypeOK /\ Alive(p) /\ ~Gone(p) /\ Seen(p)
         /\ dir[p] \in Frames /\ dir[p] \in dirs /\ pgdir[p] \in Frames
         /\ dir[p] # pgdir[p]
         /\ sz[p] >= 1 /\ Shaped(pgdir[p], sz[p])
         /\ JunkFree /\ ZeroKept /\ PageInv
  <1>1. TypeOK /\ DirsHeld /\ ChildHeld /\ OwnInv /\ None \notin Frames
    BY ConstAssumption DEF FullInv, MemInv, StructInv
  <1>2. Alive(p) /\ ~Gone(p) /\ Seen(p) /\ pc[p] # "zombie"
    BY DEF Alive, Gone, Seen, Busy
  <1>3. dir[p] \in Frames /\ dir[p] \in dirs /\ pgdir[p] \in Frames
    BY <1>1, <1>2 DEF DirsHeld, OwnInv, DirsOwned, TypeOK
  <1>4. dir[p] # pgdir[p]
    <2>1. child[p] = p => pc[p] \notin {"free"}
      BY <1>1, ConstAssumption DEF ChildHeld, Forking
    <2> QED BY <1>1, <1>2, <2>1 DEF OwnInv, SoleOwner
  <1>5. sz[p] >= 1 /\ Shaped(pgdir[p], sz[p])
    BY DEF FullInv, DataInv, Live, Busy
  <1> QED BY <1>1, <1>2, <1>3, <1>4, <1>5 DEF FullInv, DataInv, MemInv

\* fork and exec take a directory, which maps nothing.
LEMMA DataBegin ==
  ASSUME FullInv, NEW p \in Procs,
         ExecBegin(p) \/ \E c \in Procs : ForkBegin(p, c)
  PROVE  DataInv' /\ \A q \in Procs : UNCHANGED View(q)
  <1>1. Running(p) /\ pc[p] = "user" /\ UNCHANGED <<content, pa, pgdir, sz>>
    BY DEF ExecBegin, ForkBegin, Running, procs
  <1>2. TypeOK /\ Here(p) = pgdir[p] /\ PageInv
    BY <1>1, UserOwn
  <1>3. PICK d \in Frames :
          /\ Setupkvm(d)
          /\ \/ Start(p, "load", d, None)
             \/ \E c \in Procs : pc[c] = "unused" /\ Start(p, "forkref", d, c)
    BY DEF ExecBegin, ForkBegin
  <1>4. d \in free /\ free' \subseteq free
    BY <1>2, <1>3, PickIn DEF Setupkvm, TypeOK
  <1>5. pa[d] = NoMap
    BY <1>2, <1>4 DEF PageInv, Blank, RolesDisjoint
  <1>6. /\ dir'[p] = d /\ i'[p] = 0
        /\ \A q \in Procs \ {p} : dir'[q] = dir[q] /\ i'[q] = i[q]
    BY <1>2, <1>3 DEF Start, TypeOK
  <1>7. /\ pc'[p] \in {"load", "forkref"}
        /\ \A q \in Procs \ {p} : pc'[q] = pc[q]
                                  \/ (pc[q] = "unused" /\ pc'[q] = "embryo")
    BY <1>1, <1>2, <1>3 DEF Start, TypeOK
  <1>8. Own(p)'
    <2>1. sz[p] >= 1 /\ Shaped(pgdir[p], sz[p])
      BY <1>1, <1>2, RunningShape
    <2>2. \A v \in Pages : pa[d][v] = None /\ ~(v < 0)
      BY <1>5 DEF NoMap, Pages
    <2>3. Live(p)'
      BY <1>1, <2>1 DEF Live, Shaped
    <2>4. Copied(p)' /\ Loaded(p)'
      BY <1>1, <1>6, <2>2 DEF Copied, Loaded, Shaped
    <2> QED BY <2>3, <2>4 DEF Own
  <1>9. \A q \in Procs \ {p} : SameCall(q) \/ Gone(q)'
    BY <1>1, <1>6, <1>7 DEF SameCall, Gone
  <1>10. DataInv'
    BY <1>1, <1>4, <1>8, <1>9, DataQuiet DEF Gone
  <1>11. \A q \in Procs : Seen(q)' <=> Seen(q)
    BY <1>1, <1>7 DEF Seen
  <1> QED BY <1>1, <1>10, <1>11, ViewsQuiet

LEMMA DataForkRef ==
  ASSUME FullInv, NEW p \in Procs, ForkRef(p)
  PROVE  DataInv' /\ \A q \in Procs : UNCHANGED View(q)
  <1>1. /\ pc[p] = "forkref" /\ pc' = [pc EXCEPT ![p] = "forkmap"]
        /\ UNCHANGED <<free, content, pa, pgdir, sz, dir, i>>
    BY DEF ForkRef, procs, local
  <1>2. TypeOK /\ ~Gone(p)
    BY <1>1, CallOwn DEF Busy
  <1>3. pc'[p] = "forkmap" /\ \A q \in Procs \ {p} : pc'[q] = pc[q]
    BY <1>1, <1>2 DEF TypeOK
  <1>4. Own(p)'
    BY <1>1, <1>3 DEF FullInv, DataInv, Own, Live, Copied, Loaded, Shaped, Forking
  <1>5. \A q \in Procs \ {p} : SameCall(q)
    BY <1>1, <1>3 DEF SameCall
  <1>6. DataInv'
    BY <1>1, <1>2, <1>4, <1>5, DataQuiet
  <1>7. \A q \in Procs : Seen(q)' <=> Seen(q)
    BY <1>1, <1>3 DEF Seen
  <1> QED BY <1>1, <1>6, <1>7, ViewsQuiet

LEMMA DataForkMap ==
  ASSUME FullInv, NEW p \in Procs, ForkMap(p)
  PROVE  DataInv' /\ \A q \in Procs : UNCHANGED View(q)
  <1> DEFINE d == dir[p]
  <1> DEFINE v == i[p]
  <1> DEFINE g == pa[pgdir[p]][v]
  <1>1. /\ pc[p] = "forkmap" /\ Walk(d, v, free)
        /\ pa' = [pa EXCEPT ![d][v] = g]
        /\ pc' = [pc EXCEPT ![p] = "forkref"] /\ i' = [i EXCEPT ![p] = v + 1]
        /\ UNCHANGED <<content, pgdir, sz, dir>>
    BY DEF ForkMap, SetPte, procs, Here
  <1>2. /\ TypeOK /\ d \in Frames /\ pgdir[p] \in Frames /\ d # pgdir[p]
        /\ JunkFree /\ ZeroKept
    BY <1>1, CallOwn DEF Busy
  <1>3. v \in Pages /\ v \in Nat
    <2>1. MapBelow /\ v \in 0 .. MaxPages /\ sz[p] \in 0 .. MaxPages
      BY <1>2 DEF FullInv, MemInv, StructInv, TypeOK
    <2> QED BY <1>1, <2>1, ConstAssumption DEF MapBelow, Pages
  <1>4. free' \subseteq free
    BY <1>1 DEF Walk
  <1>5. /\ pa'[pgdir[p]] = pa[pgdir[p]]
        /\ \A w \in Pages : pa'[d][w] = IF w = v THEN g ELSE pa[d][w]
        /\ \A e \in Frames : e # d => pa'[e] = pa[e]
    BY <1>1, <1>2 DEF TypeOK
  <1>6. OnlyIn(d)
    BY <1>1, <1>5 DEF OnlyIn
  <1>7. pc'[p] = "forkref" /\ i'[p] = v + 1
        /\ \A q \in Procs \ {p} : pc'[q] = pc[q] /\ i'[q] = i[q]
    BY <1>1, <1>2 DEF TypeOK
  <1>8. Own(p)'
    <2>1. Live(p) /\ Copied(p)
      BY DEF FullInv, DataInv
    <2>2. \A w \in Pages : w < v + 1 <=> w < v \/ w = v
      BY <1>3 DEF Pages
    <2>3. Live(p)'
      BY <1>1, <1>5, <2>1 DEF Live, Shaped
    <2>4. Copied(p)'
      BY <1>1, <1>5, <1>7, <2>1, <2>2 DEF Copied, Forking
    <2> QED BY <1>7, <2>3, <2>4 DEF Own, Loaded
  <1>9. \A q \in Procs \ {p} : SameCall(q)
    BY <1>1, <1>7 DEF SameCall
  <1>10. JunkFree' /\ ZeroKept'
    BY <1>1, <1>2, <1>4 DEF JunkFree, ZeroKept
  <1>11. DataInv'
    BY <1>2, <1>6, <1>8, <1>9, <1>10, DataStep
  <1>12. ASSUME NEW q \in Procs \ {p} PROVE UNCHANGED View(q)
    <2>1. (Seen(q)' <=> Seen(q)) /\ d # None
      BY <1>2, <1>7, ConstAssumption DEF Seen
    <2> QED BY <1>1, <1>6, <2>1, OthersView
  <1>13. UNCHANGED View(p)
    BY <1>1, <1>5, <1>7, ViewSame DEF Seen
  <1> QED BY <1>11, <1>12, <1>13

LEMMA DataForkFail ==
  ASSUME FullInv, NEW p \in Procs, ForkFail(p)
  PROVE  DataInv' /\ \A q \in Procs : UNCHANGED View(q)
  <1> DEFINE c == child[p]
  <1>1. /\ pc[p] = "forkmap" /\ pgdir' = [pgdir EXCEPT ![c] = None]
        /\ Return(p, [pc EXCEPT ![c] = "unused"])
        /\ UNCHANGED <<free, content, pa, sz>>
    BY DEF ForkFail, phys, maps
  <1>2. TypeOK /\ ~Gone(p)
    BY <1>1, CallOwn DEF Busy
  <1>3. c \in Procs /\ pc[c] = "embryo" /\ c # p
    BY <1>1, <1>2 DEF FullInv, MemInv, StructInv, ChildHeld, Forking, TypeOK
  <1> HIDE DEF c
  <1>4. /\ pc'[p] = "user" /\ pc'[c] = "unused" /\ pgdir'[p] = pgdir[p]
        /\ \A q \in Procs \ {p, c} : pc'[q] = pc[q]
        /\ \A q \in Procs \ {p} : dir'[q] = dir[q] /\ i'[q] = i[q]
        /\ \A q \in Procs \ {c} : pgdir'[q] = pgdir[q]
    BY <1>1, <1>2, <1>3 DEF Return, TypeOK
  <1>5. \A q \in Procs \ {p} : SameCall(q) \/ Gone(q)'
    BY <1>1, <1>4 DEF SameCall, Gone
  <1>6. Live(p)'
    BY <1>1, <1>4 DEF FullInv, DataInv, Live, Shaped
  <1>7. Own(p)'
    BY <1>4, <1>6, UserCall DEF Own, Busy
  <1>8. DataInv'
    BY <1>1, <1>2, <1>5, <1>7, DataQuiet
  <1>9. ASSUME NEW q \in Procs PROVE UNCHANGED View(q)
    <2>1. (Seen(q)' <=> Seen(q)) /\ (Seen(q) => pgdir'[q] = pgdir[q])
      BY <1>1, <1>3, <1>4 DEF Seen
    <2> QED BY <1>1, <2>1, ViewsQuiet
  <1> QED BY <1>8, <1>9

\* fork returns: the child's memory is the parent's.
LEMMA DataForkDone ==
  ASSUME FullInv, NEW p \in Procs, ForkDone(p)
  PROVE  /\ DataInv' /\ Seen(p) /\ 0 \in DOMAIN View(p)
         /\ \E c \in Procs \ {p} :
              /\ ~Seen(c) /\ View(c)' = View(p)
              /\ \A q \in Procs \ {c} : UNCHANGED View(q)
  <1>0. PICK c \in Procs : c = child[p]
    <2>1. child[p] \in Procs
      BY DEF FullInv, MemInv, StructInv, ForkDone, ChildHeld, Forking, TypeOK
    <2> QED BY <2>1
  <1>1. /\ pc[p] = "forkref" /\ i[p] = sz[p]
        /\ pgdir' = [pgdir EXCEPT ![c] = dir[p]]
        /\ sz' = [sz EXCEPT ![c] = sz[p]]
        /\ Return(p, [pc EXCEPT ![c] = "user"])
        /\ UNCHANGED <<free, content, pa>>
    BY <1>0 DEF ForkDone, phys, maps
  <1>2. /\ TypeOK /\ ~Gone(p) /\ Seen(p) /\ sz[p] >= 1 /\ Shaped(pgdir[p], sz[p])
    BY <1>1, CallOwn DEF Busy
  <1>3. c \in Procs /\ pc[c] = "embryo" /\ c # p
    BY <1>0, <1>1, <1>2 DEF FullInv, MemInv, StructInv, ChildHeld, Forking, TypeOK
  <1>4. /\ pc'[p] = "user" /\ pc'[c] = "user" /\ pgdir'[c] = dir[p]
        /\ sz'[c] = sz[p]
        /\ \A q \in Procs \ {p, c} : pc'[q] = pc[q]
        /\ \A q \in Procs \ {p} : dir'[q] = dir[q] /\ i'[q] = i[q]
        /\ \A q \in Procs \ {c} : pgdir'[q] = pgdir[q] /\ sz'[q] = sz[q]
    BY <1>1, <1>2, <1>3 DEF Return, TypeOK
  <1>5. \A v \in Pages : pa[dir[p]][v] = pa[pgdir[p]][v]
    BY <1>1, <1>2 DEF FullInv, DataInv, Copied, Forking, Shaped
  <1>6. Live(p)'
    <2>1. pgdir'[p] = pgdir[p] /\ sz'[p] = sz[p]
      BY <1>3, <1>4
    <2> QED BY <1>1, <1>2, <2>1 DEF Live, Shaped
  <1>7. Live(c)'
    <2>1. Shaped(dir[p], sz[p])
      BY <1>2, <1>5 DEF Shaped
    <2> QED BY <1>1, <1>2, <1>4, <2>1 DEF Live, Shaped
  <1>8. DataInv'
    <2>1. Own(p)'
      BY <1>4, <1>6, UserCall DEF Own, Busy
    <2>2. Own(c)'
      BY <1>4, <1>7, UserCall DEF Own, Busy
    <2>3. \A q \in Procs \ {p} : SameCall(q) \/ Own(q)'
      BY <1>4, <2>2 DEF SameCall
    <2> QED BY <1>1, <1>2, <2>1, <2>3, DataQuiet
  <1>10. ASSUME NEW q \in Procs \ {c} PROVE UNCHANGED View(q)
    BY <1>1, <1>4, <1>10, ViewsQuiet DEF Seen
  <1>11. View(c)' = View(p)
    <2>1. View(c)' = [v \in {w \in Pages : pa[dir[p]][w] # None} |-> content[pa[dir[p]][v]]]
      BY <1>1, <1>4 DEF View, Here
    <2>2. View(p) = [v \in {w \in Pages : pa[pgdir[p]][w] # None} |->
                       content[pa[pgdir[p]][v]]]
      BY <1>1 DEF View, Here
    <2>3. {w \in Pages : pa[dir[p]][w] # None} = {w \in Pages : pa[pgdir[p]][w] # None}
      BY <1>5
    <2> QED BY <1>5, <2>1, <2>2, <2>3
  <1>12. 0 \in DOMAIN View(p)
    <2>1. 0 \in Pages /\ pa[pgdir[p]][0] # None
      <3>1. sz[p] \in Nat /\ 0 \in Pages
        BY <1>2, ConstAssumption DEF Pages, TypeOK
      <3> QED BY <1>2, <3>1 DEF Shaped
    <2> QED BY <1>1, <2>1 DEF View, Here
  <1>13. ~Seen(c)
    BY <1>3 DEF Seen
  <1> QED BY <1>2, <1>3, <1>8, <1>10, <1>11, <1>12, <1>13

LEMMA DataExecPage ==
  ASSUME FullInv, NEW p \in Procs, ExecPage(p)
  PROVE  DataInv' /\ \A q \in Procs : UNCHANGED View(q)
  <1> DEFINE d == dir[p]
  <1> DEFINE v == i[p]
  <1> DEFINE guard == v = TextPages
  <1>1. PICK mem \in Pick(free) :
          /\ Walk(d, v, free \ {mem})
          /\ pa' = [pa EXCEPT ![d][v] = mem]
          /\ content' = IF guard THEN content ELSE [content EXCEPT ![mem] = Image]
    BY DEF ExecPage, SetPte
  <1>2. /\ pc[p] = "load" /\ v < MaxPages /\ i' = [i EXCEPT ![p] = v + 1]
        /\ UNCHANGED <<pc, pgdir, sz, dir>>
    BY DEF ExecPage, procs
  <1>3. /\ TypeOK /\ d \in Frames /\ pgdir[p] \in Frames /\ d # pgdir[p]
        /\ JunkFree /\ ZeroKept /\ PageInv /\ RolesDisjoint
    BY <1>2, CallOwn DEF Busy, PageInv
  <1>4. v \in Pages /\ v \in Nat
    <2>1. v \in 0 .. MaxPages
      BY <1>3 DEF TypeOK
    <2> QED BY <1>2, <2>1, ConstAssumption DEF Pages
  <1>5. mem \in free /\ mem \in Frames /\ mem \in AFrame /\ mem # Zero /\ mem # None
    BY <1>3, PickIn, ConstAssumption DEF TypeOK, AFrame
  <1>6. \A f \in AFrame : f # mem => content'[f] = content[f]
    BY <1>1, <1>3 DEF TypeOK
  <1>7. content'[mem] = IF guard THEN Junk ELSE Image
    BY <1>1, <1>3, <1>5 DEF TypeOK, JunkFree
  <1>8. OnlyIn(d)
    <2> HIDE DEF d, v, guard
    <2> QED BY <1>1, <1>3, <1>4, <1>5, <1>6, OnlyPut DEF FullInv
  <1>9. free' \subseteq free \ {mem}
    BY <1>1 DEF Walk
  <1>10. JunkFree' /\ ZeroKept'
    <2>1. free \subseteq AFrame /\ Zero \in AFrame
      BY <1>3 DEF TypeOK, AFrame
    <2> QED BY <1>3, <1>5, <1>6, <1>9, <2>1 DEF JunkFree, ZeroKept
  <1>11. i'[p] = v + 1 /\ \A q \in Procs \ {p} : i'[q] = i[q]
    BY <1>2, <1>3 DEF TypeOK
  <1>12. /\ pa'[pgdir[p]] = pa[pgdir[p]]
         /\ \A w \in Pages : pa'[d][w] = IF w = v THEN mem ELSE pa[d][w]
    BY <1>1, <1>3 DEF TypeOK
  <1>13. Own(p)'
    <2>1. Live(p) /\ Loaded(p)
      BY DEF FullInv, DataInv
    <2>2. \A w \in Pages : w < v + 1 <=> w < v \/ w = v
      BY <1>4 DEF Pages
    <2>3. Live(p)'
      BY <1>2, <1>12, <2>1 DEF Live, Shaped
    <2>4. /\ Shaped(d, v)
          /\ \A w \in Pages : w < v =>
               content[pa[d][w]] = IF w = TextPages THEN Junk ELSE Image
      BY <1>2, <2>1 DEF Loaded
    <2>5. \A w \in Pages : pa'[d][w] # None <=> w < v + 1
      BY <1>5, <1>12, <2>2, <2>4 DEF Shaped
    <2>6. \A w \in Pages : w < v => pa[d][w] \in AFrame /\ pa[d][w] # mem
      BY <1>3, <1>5, <2>4, FreeUnmapped DEF Shaped, TypeOK
    <2>7. \A w \in Pages : w < v + 1 =>
            content'[pa'[d][w]] = IF w = TextPages THEN Junk ELSE Image
      <3> SUFFICES ASSUME NEW w \in Pages, w < v + 1
                   PROVE  content'[pa'[d][w]] = IF w = TextPages THEN Junk ELSE Image
          OBVIOUS
      <3>1. CASE w = v
        BY <1>7, <1>12, <3>1
      <3>2. CASE w # v
        <4>1. w < v /\ pa'[d][w] = pa[d][w]
          BY <1>12, <2>2, <3>2
        <4> QED BY <1>6, <2>4, <2>6, <4>1
      <3> QED BY <3>1, <3>2
    <2>8. Loaded(p)'
      BY <1>2, <1>11, <2>5, <2>7 DEF Loaded, Shaped
    <2>9. Copied(p)'
      BY <1>2 DEF Copied, Forking
    <2> QED BY <2>3, <2>8, <2>9 DEF Own
  <1>14. \A q \in Procs \ {p} : SameCall(q)
    BY <1>2, <1>11 DEF SameCall
  <1>15. DataInv'
    BY <1>3, <1>8, <1>10, <1>13, <1>14, DataStep
  <1>16. ASSUME NEW q \in Procs \ {p} PROVE UNCHANGED View(q)
    <2>1. (Seen(q)' <=> Seen(q)) /\ d # None
      BY <1>2, <1>3, ConstAssumption DEF Seen
    <2> QED BY <1>2, <1>8, <2>1, OthersView
  <1>17. UNCHANGED View(p)
    <2>1. \A w \in Pages : pa[pgdir[p]][w] # None =>
            content'[pa[pgdir[p]][w]] = content[pa[pgdir[p]][w]]
      BY <1>3, <1>8 DEF OnlyIn
    <2> QED BY <1>2, <1>12, <2>1, ViewSame DEF Seen
  <1> QED BY <1>15, <1>16, <1>17

LEMMA DataExecFail ==
  ASSUME FullInv, NEW p \in Procs, ExecFail(p)
  PROVE  DataInv' /\ \A q \in Procs : UNCHANGED View(q)
  <1>1. /\ pc[p] = "load" /\ Start(p, "free", dir[p], None)
        /\ UNCHANGED <<free, content, pa, pgdir, sz>>
    BY DEF ExecFail, phys, maps, procs
  <1>2. TypeOK /\ ~Gone(p)
    BY <1>1, CallOwn DEF Busy
  <1>3. /\ pc'[p] = "free"
        /\ \A q \in Procs \ {p} : pc'[q] = pc[q] /\ dir'[q] = dir[q] /\ i'[q] = i[q]
    BY <1>1, <1>2 DEF Start, TypeOK
  <1>4. Live(p)'
    BY <1>1, <1>3 DEF FullInv, DataInv, Live, Shaped
  <1>5. Own(p)'
    BY <1>3, <1>4 DEF Own, Copied, Loaded, Forking
  <1>6. \A q \in Procs \ {p} : SameCall(q)
    BY <1>1, <1>3 DEF SameCall
  <1>7. DataInv'
    BY <1>1, <1>2, <1>5, <1>6, DataQuiet
  <1>8. \A q \in Procs : Seen(q)' <=> Seen(q)
    BY <1>1, <1>3 DEF Seen
  <1> QED BY <1>1, <1>7, <1>8, ViewsQuiet

\* exec takes effect: the memory is the image.
LEMMA DataExecCommit ==
  ASSUME FullInv, NEW p \in Procs, ExecCommit(p)
  PROVE  /\ DataInv' /\ 0 \in DOMAIN View(p)
         /\ View(p)' = [v \in 0 .. TextPages + 1 |->
                          IF v = TextPages THEN Junk ELSE Image]
         /\ \A q \in Procs \ {p} : UNCHANGED View(q)
  <1>1. /\ pc[p] = "load" /\ i[p] = ImagePages
        /\ pgdir' = [pgdir EXCEPT ![p] = dir[p]]
        /\ sz' = [sz EXCEPT ![p] = ImagePages]
        /\ Start(p, "free", Here(p), None)
        /\ UNCHANGED <<free, content, pa>>
    BY DEF ExecCommit, phys, maps
  <1>2. TypeOK /\ ~Gone(p) /\ sz[p] >= 1 /\ Shaped(pgdir[p], sz[p])
    BY <1>1, CallOwn DEF Busy
  <1>3. /\ pc'[p] = "free" /\ pgdir'[p] = dir[p] /\ sz'[p] = ImagePages
        /\ \A q \in Procs \ {p} : /\ pc'[q] = pc[q] /\ dir'[q] = dir[q] /\ i'[q] = i[q]
                                  /\ pgdir'[q] = pgdir[q] /\ sz'[q] = sz[q]
    BY <1>1, <1>2 DEF Start, TypeOK
  <1>4. /\ Shaped(dir[p], ImagePages)
        /\ \A v \in Pages : v < ImagePages =>
             content[pa[dir[p]][v]] = IF v = TextPages THEN Junk ELSE Image
    BY <1>1 DEF FullInv, DataInv, Loaded
  <1>5. ImagePages \in 0 .. MaxPages /\ ImagePages >= 1 /\ ImagePages \in Nat
    BY <1>1, <1>2, ConstAssumption DEF TypeOK, ImagePages
  <1>6. Live(p)'
    BY <1>1, <1>3, <1>4, <1>5 DEF Live, Shaped
  <1>7. Own(p)'
    BY <1>3, <1>6 DEF Own, Copied, Loaded, Forking
  <1>8. \A q \in Procs \ {p} : SameCall(q)
    BY <1>3 DEF SameCall
  <1>9. DataInv'
    BY <1>1, <1>2, <1>7, <1>8, DataQuiet
  <1>10. ASSUME NEW q \in Procs \ {p} PROVE UNCHANGED View(q)
    BY <1>1, <1>3, ViewsQuiet DEF Seen
  <1>11. View(p)' = [v \in 0 .. TextPages + 1 |->
                       IF v = TextPages THEN Junk ELSE Image]
    <2>1. View(p)' = [v \in {w \in Pages : pa[dir[p]][w] # None} |->
                        content[pa[dir[p]][v]]]
      BY <1>1, <1>3 DEF View, Here
    <2>2. {w \in Pages : pa[dir[p]][w] # None} = 0 .. TextPages + 1
      <3>1. \A w : w \in 0 .. TextPages + 1 <=> w \in Pages /\ w < ImagePages
        BY <1>5, ConstAssumption DEF Pages, ImagePages
      <3> QED BY <1>4, <3>1 DEF Shaped
    <2>3. \A v \in 0 .. TextPages + 1 :
            content[pa[dir[p]][v]] = IF v = TextPages THEN Junk ELSE Image
      BY <1>4, <1>5, ConstAssumption DEF Pages, ImagePages
    <2> QED BY <2>1, <2>2, <2>3
  <1>12. 0 \in DOMAIN View(p)
    <2>1. 0 \in Pages /\ sz[p] \in Nat
      BY <1>2, ConstAssumption DEF Pages, TypeOK
    <2>2. pa[pgdir[p]][0] # None
      BY <1>2, <2>1 DEF Shaped
    <2> QED BY <1>1, <2>1, <2>2 DEF View, Here
  <1> QED BY <1>9, <1>10, <1>11, <1>12

LEMMA DataReap ==
  ASSUME FullInv, NEW p \in Procs, NEW c \in Procs, Reap(p, c)
  PROVE  DataInv' /\ \A q \in Procs : UNCHANGED View(q)
  <1>1. /\ Running(p) /\ pc[p] = "user" /\ Start(p, "free", pgdir[c], c)
        /\ UNCHANGED <<free, content, pa, pgdir, sz>>
    BY DEF Reap, Running, phys, maps, procs
  <1>2. TypeOK /\ Here(p) = pgdir[p]
    BY <1>1, UserOwn
  <1>3. /\ pc'[p] = "free"
        /\ \A q \in Procs \ {p} : pc'[q] = pc[q] /\ dir'[q] = dir[q] /\ i'[q] = i[q]
    BY <1>1, <1>2 DEF Start, TypeOK
  <1>4. Live(p)'
    BY <1>1, <1>2, RunningShape DEF Live, Shaped
  <1>5. Own(p)'
    BY <1>3, <1>4 DEF Own, Copied, Loaded, Forking
  <1>6. \A q \in Procs \ {p} : SameCall(q)
    BY <1>1, <1>3 DEF SameCall
  <1>7. DataInv'
    BY <1>1, <1>5, <1>6, DataQuiet DEF Gone
  <1>8. \A q \in Procs : Seen(q)' <=> Seen(q)
    BY <1>1, <1>3 DEF Seen
  <1> QED BY <1>1, <1>7, <1>8, ViewsQuiet

LEMMA DataFreePage ==
  ASSUME FullInv, NEW p \in Procs, FreePage(p)
  PROVE  DataInv' /\ \A q \in Procs : UNCHANGED View(q)
  <1> DEFINE d == dir[p]
  <1>1. PICK v \in Pages : pa[d][v] # None /\ Kfree({pa[d][v]}) /\ ClearPte(d, v)
    BY DEF FreePage
  <1>2. pc[p] = "free" /\ UNCHANGED <<pc, procs, local>>
    BY DEF FreePage
  <1>3. /\ TypeOK /\ d \in Frames /\ pgdir[p] \in Frames /\ d # pgdir[p]
        /\ JunkFree /\ ZeroKept
    BY <1>2, CallOwn DEF Busy
  <1>4. Kfree({pa[d][v]} \ {None})
    <2>1. {pa[d][v]} \ {None} = {pa[d][v]}
      BY <1>1
    <2> QED BY <1>1, <2>1
  <1>5. OnlyIn(d) /\ JunkFree' /\ ZeroKept'
    <2> HIDE DEF d
    <2> QED BY <1>1, <1>3, <1>4, OnlyKfree DEF FullInv
  <1>6. pa'[pgdir[p]] = pa[pgdir[p]]
    BY <1>3, <1>5 DEF OnlyIn
  <1>7. \A q : SameCall(q)
    BY <1>2, AllSame
  <1>8. Own(p)'
    <2>1. pc'[p] = "free" /\ pgdir'[p] = pgdir[p] /\ sz'[p] = sz[p]
      BY <1>2, <1>7 DEF SameCall
    <2>2. Live(p)'
      BY <1>2, <1>6, <2>1 DEF FullInv, DataInv, Live, Shaped
    <2> QED BY <2>1, <2>2 DEF Own, Copied, Loaded, Forking
  <1>9. DataInv'
    BY <1>3, <1>5, <1>7, <1>8, DataStep
  <1>10. ASSUME NEW q \in Procs \ {p} PROVE UNCHANGED View(q)
    <2>1. d # None /\ (Seen(q)' <=> Seen(q)) /\ pgdir'[q] = pgdir[q]
      BY <1>3, <1>7, ConstAssumption DEF Seen, SameCall
    <2> QED BY <1>5, <2>1, OthersView
  <1>11. UNCHANGED View(p)
    <2>1. \A w \in Pages : pa[pgdir[p]][w] # None =>
            content'[pa[pgdir[p]][w]] = content[pa[pgdir[p]][w]]
      BY <1>3, <1>5 DEF OnlyIn
    <2>2. Seen(p) /\ Seen(p)' /\ pgdir'[p] = pgdir[p]
      BY <1>2, <1>7 DEF Seen, SameCall
    <2> QED BY <1>6, <2>1, <2>2, ViewSame
  <1> QED BY <1>9, <1>10, <1>11

LEMMA DataFreeDir ==
  ASSUME FullInv, NEW p \in Procs, FreeDir(p)
  PROVE  DataInv' /\ \A q \in Procs : UNCHANGED View(q)
  <1> DEFINE d == dir[p]
  <1> DEFINE S == {d} \cup ({tbl[d][k] : k \in Tables} \ {None})
  <1>1. pc[p] = "free" /\ Kfree(S) /\ UNCHANGED <<pa, pgdir, sz>>
    BY DEF FreeDir
  <1>2. /\ TypeOK /\ d \in Frames /\ d \in dirs /\ pgdir[p] \in Frames /\ ~Gone(p)
        /\ JunkFree /\ ZeroKept /\ PageInv
    BY <1>1, CallOwn DEF Busy
  <1>3. S \subseteq Frames /\ S \cap Data = {}
    BY <1>2 DEF TypeOK, PageInv, RolesDisjoint, TableFrames
  <1>4. PICK c \in Procs \cup {None} : c = child[p]
    BY <1>2 DEF TypeOK
  <1>5. c \in Procs => pc[c] = "zombie" /\ c # p
    BY <1>1, <1>4, ConstAssumption DEF FullInv, MemInv, StructInv, ChildHeld, Forking
  <1>6. /\ pc'[p] = "user" /\ (c \in Procs => pc'[c] = "unused")
        /\ \A q \in Procs \ {p, c} : pc'[q] = pc[q]
        /\ \A q \in Procs \ {p} : dir'[q] = dir[q] /\ i'[q] = i[q]
    BY <1>2, <1>4, <1>5, ConstAssumption DEF FreeDir, Return, TypeOK
  <1> HIDE DEF S, d
  <1>7. /\ \A f \in AFrame : f \notin S => content'[f] = content[f]
        /\ \A f \in AFrame : content'[f] = content[f] \/ content'[f] = Junk
        /\ \A f \in free' : f \in free \/ content'[f] = Junk
        /\ content'[Zero] = content[Zero]
    BY <1>1, <1>2, <1>3, ConstAssumption DEF Kfree, TypeOK, AFrame
  <1>8. \A e \in Frames, w \in Pages : pa[e][w] # None => pa[e][w] \in AFrame \ S
    <2>1. \A e \in Frames, w \in Pages : pa[e][w] \in Frames => pa[e][w] \in Data
      BY MapsIn DEF Data
    <2> QED BY <1>2, <1>3, <2>1, ConstAssumption DEF TypeOK, AFrame
  <1>9. OnlyIn(pgdir[p]) /\ OnlyIn(d)
    BY <1>1, <1>7, <1>8 DEF OnlyIn
  <1>10. JunkFree' /\ ZeroKept'
    <2>1. free \subseteq AFrame
      BY <1>2 DEF TypeOK, AFrame
    <2> QED BY <1>2, <1>7, <2>1 DEF JunkFree, ZeroKept
  <1>11. Live(p)'
    BY <1>1, <1>6 DEF FullInv, DataInv, Live, Shaped
  <1>12. Own(p)'
    BY <1>6, <1>11, UserCall DEF Own, Busy
  <1>13. \A q \in Procs \ {p} : SameCall(q) \/ Gone(q)'
    BY <1>1, <1>6 DEF SameCall, Gone
  <1>14. DataInv'
    BY <1>2, <1>9, <1>10, <1>12, <1>13, DataStep DEF d
  <1>15. ASSUME NEW q \in Procs PROVE UNCHANGED View(q)
    <2>1. Seen(q)' <=> Seen(q)
      BY <1>1, <1>5, <1>6 DEF Seen
    <2>2. Seen(q) => pgdir[q] \in Frames
      BY <1>2 DEF FullInv, MemInv, OwnInv, DirsOwned, TypeOK, Seen, Alive
    <2>3. Seen(q) => \A w \in Pages : pa[pgdir[q]][w] # None =>
                       content'[pa[pgdir[q]][w]] = content[pa[pgdir[q]][w]]
      BY <1>7, <1>8, <2>2
    <2> QED BY <1>1, <2>1, <2>3, ViewSame
  <1> QED BY <1>14, <1>15

-----------------------------------------------------------------------------
(* The steps of PrivateMemory.                                             *)

LEMMA DataInit == Init => FullInv /\ Private!Init
  <1> SUFFICES ASSUME Init PROVE FullInv /\ Private!Init
      OBVIOUS
  <1>1. PICK d \in Pick(Frames) : \E f \in Pick(Frames \ {d}) :
        \E t \in Pick(Frames \ {d, f}) : InitWith(d, f, t)
    BY DEF Init
  <1>2. PICK f \in Pick(Frames \ {d}) :
          \E t \in Pick(Frames \ {d, f}) : InitWith(d, f, t)
    BY <1>1
  <1>3. PICK t \in Pick(Frames \ {d, f}) : InitWith(d, f, t)
    BY <1>2
  <1>4. d \in Frames /\ f \in Frames \ {d} /\ f # None /\ f # Zero
    BY PickIn, ConstAssumption
  <1>5. \A w \in Pages : pa[d][w] = IF w = 0 THEN f ELSE None
    BY <1>3, <1>4 DEF InitWith, NoMap
  <1>6. /\ pgdir[InitProc] = d /\ pc[InitProc] = "user" /\ sz[InitProc] = 1
        /\ \A q \in Procs : /\ q # InitProc => pc[q] = "unused"
                            /\ pc[q] \notin Busy
    BY <1>3, ConstAssumption DEF InitWith, Busy
  <1>7. Shaped(d, 1)
    BY <1>4, <1>5 DEF Shaped, Pages
  <1>8. \A q \in Procs : Live(q) /\ Copied(q) /\ Loaded(q)
    <2>1. \A q \in Procs : Live(q)
      BY <1>6, <1>7 DEF Live
    <2>2. \A q \in Procs : Copied(q) /\ Loaded(q)
      BY <1>6 DEF Copied, Loaded, Forking, Busy
    <2> QED BY <2>1, <2>2
  <1>9. JunkFree /\ ZeroKept
    <2>1. \A g \in Frames \ {f} : content[g] = Junk
      BY <1>3, ConstAssumption DEF InitWith, AFrame
    <2>2. content[Zero] = ZeroVal
      <3>1. Zero \in AFrame
        BY DEF AFrame
      <3> QED BY <1>3, <1>4, <3>1 DEF InitWith
    <2>3. free = Frames \ {d, f, t}
      BY <1>3 DEF InitWith
    <2>4. \A g \in free : g \in Frames \ {f}
      BY <2>3
    <2> QED BY <2>1, <2>2, <2>4 DEF JunkFree, ZeroKept
  <1>10. MemInv
    BY MemInit
  <1>11. content[f] = Image
    BY <1>3, <1>4 DEF InitWith, AFrame
  <1>12. View(InitProc) = [v \in {0} |-> Image]
    <2>1. View(InitProc) = [v \in {w \in Pages : pa[d][w] # None} |-> content[pa[d][v]]]
      BY <1>6 DEF View, Here
    <2>2. {w \in Pages : pa[d][w] # None} = {0}
      BY <1>4, <1>5, ConstAssumption DEF Pages
    <2>3. \A v \in {0} : content[pa[d][v]] = Image
      BY <1>5, <1>11, ConstAssumption DEF Pages
    <2> QED BY <2>1, <2>2, <2>3
  <1>13. \A q \in Procs : q # InitProc => View(q) = [v \in {} |-> ZeroVal]
    BY <1>6 DEF View
  <1>14. Private!Init
    BY <1>12, <1>13 DEF Private!Init, Private!Nothing
  <1> QED BY <1>8, <1>9, <1>10, <1>14 DEF FullInv, DataInv

Views == [p \in Procs |-> View(p)]

LEMMA ViewsSame ==
  ASSUME \A q \in Procs : UNCHANGED View(q)
  PROVE  UNCHANGED Views
  BY DEF Views

LEMMA ViewsBecome ==
  ASSUME NEW p \in Procs, NEW m, View(p)' = m,
         \A q \in Procs \ {p} : UNCHANGED View(q)
  PROVE  Private!Become(p, m)
  <1>1. \A q \in Procs : View(q)' = IF q = p THEN m ELSE View(q)
    OBVIOUS
  <1> HIDE DEF View
  <1>2. [q \in Procs |-> View(q)]' = [[q \in Procs |-> View(q)] EXCEPT ![p] = m]
    BY <1>1
  <1> QED BY <1>2 DEF Private!Become

LEMMA GoneView ==
  ASSUME NEW q, Gone(q)'
  PROVE  View(q)' = Private!Nothing
  BY DEF Gone, View, Private!Nothing

LEMMA DieStep ==
  ASSUME NEW p \in Procs, Gone(p)', \A q \in Procs \ {p} : UNCHANGED View(q)
  PROVE  Private!Next
  <1>1. Private!Die(p)
    BY GoneView, ViewsBecome DEF Private!Die
  <1> QED BY <1>1 DEF Private!Next

\* The domain of a view, and what it shows.
LEMMA RunningView ==
  ASSUME FullInv, NEW p \in Procs, Running(p)
  PROVE  /\ sz[p] \in 1 .. MaxPages
         /\ View(p) = [v \in 0 .. sz[p] - 1 |-> content[pa[pgdir[p]][v]]]
         /\ \A v \in Pages : pa[pgdir[p]][v] # None <=> v \in 0 .. sz[p] - 1
  <1>1. sz[p] >= 1 /\ Shaped(pgdir[p], sz[p])
    BY RunningShape DEF Here
  <1>2. sz[p] \in 0 .. MaxPages /\ sz[p] \in Nat /\ MaxPages \in Nat
    BY ConstAssumption DEF FullInv, MemInv, StructInv, TypeOK
  <1>3. \A v : v \in 0 .. sz[p] - 1 <=> v \in Pages /\ v < sz[p]
    BY <1>1, <1>2 DEF Pages
  <1>4. {w \in Pages : pa[pgdir[p]][w] # None} = 0 .. sz[p] - 1
    BY <1>1, <1>3 DEF Shaped
  <1>5. View(p) = [v \in {w \in Pages : pa[pgdir[p]][w] # None} |->
                     content[pa[pgdir[p]][v]]]
    BY DEF View, Running, Here
  <1> QED BY <1>1, <1>2, <1>3, <1>4, <1>5 DEF Shaped

LEMMA StoreStep ==
  ASSUME FullInv, NEW p \in Procs, NEW v \in Pages, NEW x \in Stores, NEW kernel,
         Store(p, v, x, kernel)
  PROVE  Private!Next
  <1> DEFINE d == pgdir[p]
  <1> DEFINE f == pa[d][v]
  <1>1. /\ Running(p) /\ pc[p] = "user" /\ <<d, v>> \in wr
        /\ content' = [content EXCEPT ![f] = x]
        /\ UNCHANGED <<pa, pc, sz, pgdir>>
    BY DEF Store, Running, Here, maps, procs
  <1>2. TypeOK /\ d \in Frames /\ Alive(p) /\ PageInv /\ Here(p) = d
    BY <1>1, UserOwn
  <1>3. f \in Frames /\ Refs(f) = {<<d, v>>} /\ f \in AFrame /\ f # None
    BY <1>1, <1>2, ConstAssumption DEF PageInv, WritableSole, AFrame
  <1>4. OnlyIn(d)
    BY <1>2, DataStore
  <1>5. \A q \in Procs \ {p} : UNCHANGED View(q)
    BY <1>1, <1>2, <1>4, OthersView DEF Seen
  <1>6. /\ View(p) = [w \in 0 .. sz[p] - 1 |-> content[pa[d][w]]]
        /\ \A w \in Pages : pa[d][w] # None <=> w \in 0 .. sz[p] - 1
        /\ sz[p] \in 1 .. MaxPages
    BY <1>1, RunningView
  <1>7. v \in 0 .. sz[p] - 1
    BY <1>3, <1>6
  <1>8. \A w \in 0 .. sz[p] - 1 :
          content'[pa[d][w]] = IF w = v THEN x ELSE content[pa[d][w]]
    <2> SUFFICES ASSUME NEW w \in 0 .. sz[p] - 1
                 PROVE  content'[pa[d][w]] = IF w = v THEN x ELSE content[pa[d][w]]
        OBVIOUS
    <2>1. w \in Pages
      BY <1>6, ConstAssumption DEF Pages
    <2>2. pa[d][w] \in AFrame
      BY <1>2, <1>6, <2>1 DEF TypeOK
    <2>3. w # v => pa[d][w] # f
      <3>1. <<d, w>> \in Refs(pa[d][w])
        BY <1>2, <2>1, MapsIn
      <3>2. w # v => <<d, w>> \notin {<<d, v>>}
        OBVIOUS
      <3> HIDE DEF f
      <3> QED BY <1>3, <3>1, <3>2
    <2>4. w = v => pa[d][w] = f
      OBVIOUS
    <2> HIDE DEF f
    <2> QED BY <1>1, <1>2, <1>3, <2>2, <2>3, <2>4 DEF TypeOK
  <1>9. View(p)' = [View(p) EXCEPT ![v] = x]
    <2>1. View(p)' = [w \in {u \in Pages : pa[d][u] # None} |-> content'[pa[d][w]]]
      BY <1>1 DEF View, Here
    <2>2. {u \in Pages : pa[d][u] # None} = 0 .. sz[p] - 1
      BY <1>6, ConstAssumption DEF Pages
    <2>3. View(p)' = [w \in 0 .. sz[p] - 1 |-> content'[pa[d][w]]]
      BY <2>1, <2>2
    <2>4. [View(p) EXCEPT ![v] = x]
            = [w \in 0 .. sz[p] - 1 |-> IF w = v THEN x ELSE content[pa[d][w]]]
      BY <1>6, <1>7
    <2>5. [w \in 0 .. sz[p] - 1 |-> content'[pa[d][w]]]
            = [w \in 0 .. sz[p] - 1 |-> IF w = v THEN x ELSE content[pa[d][w]]]
      BY <1>8
    <2> QED BY <2>3, <2>4, <2>5
  <1>10. Private!Become(p, [View(p) EXCEPT ![v] = x])
    BY <1>5, <1>9, ViewsBecome
  <1>11. v \in DOMAIN View(p)
    BY <1>6, <1>7
  <1>12. Private!Store(p)
    BY <1>10, <1>11 DEF Private!Store
  <1> QED BY <1>12 DEF Private!Next

LEMMA GrowStep ==
  ASSUME FullInv, NEW p \in Procs, Grow(p)
  PROVE  Private!Next
  <1>1. /\ \A q \in Procs \ {p} : UNCHANGED View(q)
        /\ \/ Gone(p)'
           \/ /\ pc'[p] = "user" /\ pgdir'[p] = pgdir[p] /\ content' = content
              /\ sz[p] \in Pages
              /\ \A w \in Pages : pa'[pgdir[p]][w] =
                                    IF w = sz[p] THEN Zero ELSE pa[pgdir[p]][w]
    BY DataGrow
  <1>2. CASE Gone(p)'
    BY <1>1, <1>2, DieStep
  <1>3. CASE /\ pc'[p] = "user" /\ pgdir'[p] = pgdir[p] /\ content' = content
             /\ sz[p] \in Pages
             /\ \A w \in Pages : pa'[pgdir[p]][w] =
                                   IF w = sz[p] THEN Zero ELSE pa[pgdir[p]][w]
    <2> DEFINE n == sz[p]
    <2> DEFINE d == pgdir[p]
    <2>1. Running(p) /\ content[Zero] = ZeroVal
      BY DEF Grow, FullInv, DataInv, ZeroKept
    <2>2. /\ View(p) = [v \in 0 .. n - 1 |-> content[pa[d][v]]]
          /\ \A v \in Pages : pa[d][v] # None <=> v \in 0 .. n - 1
          /\ n \in 1 .. MaxPages
      BY <2>1, RunningView
    <2>3. n \in 1 .. MaxPages - 1 /\ n \in Nat
      BY <1>3, <2>2, ConstAssumption DEF Pages
    <2>4. View(p)' = [v \in {w \in Pages : pa'[d][w] # None} |-> content[pa'[d][v]]]
      BY <1>3 DEF View, Here
    <2>5. {w \in Pages : pa'[d][w] # None} = 0 .. n
      <3>1. \A w : w \in 0 .. n <=> w \in Pages /\ (w = n \/ w \in 0 .. n - 1)
        BY <2>3, ConstAssumption DEF Pages
      <3> QED BY <1>3, <2>2, <3>1, ConstAssumption
    <2>6. \A v \in 0 .. n : content[pa'[d][v]] =
                              IF v = n THEN ZeroVal ELSE View(p)[v]
      <3>1. \A v \in 0 .. n : v \in Pages /\ (v = n \/ v \in 0 .. n - 1)
        BY <2>3, ConstAssumption DEF Pages
      <3> QED BY <1>3, <2>1, <2>2, <3>1
    <2>7. View(p)' = [v \in 0 .. n |-> IF v = n THEN ZeroVal ELSE View(p)[v]]
      BY <2>4, <2>5, <2>6
    <2>8. DOMAIN View(p) = 0 .. n - 1
      BY <2>2
    <2>9. Private!Become(p, [v \in 0 .. n |-> IF v = n THEN ZeroVal ELSE View(p)[v]])
      BY <1>1, <2>7, ViewsBecome
    <2>10. Private!Grow(p)
      BY <2>3, <2>8, <2>9 DEF Private!Grow
    <2> QED BY <2>10 DEF Private!Next
  <1> QED BY <1>1, <1>2, <1>3

LEMMA ShrinkStep ==
  ASSUME FullInv, NEW p \in Procs, Shrink(p)
  PROVE  Private!Next
  <1> DEFINE n == sz[p]
  <1> DEFINE d == pgdir[p]
  <1>1. /\ \A q \in Procs \ {p} : UNCHANGED View(q)
        /\ pc'[p] = "user" /\ pgdir'[p] = d /\ n - 1 \in Pages
        /\ \A w \in Pages : pa'[d][w] = IF w = n - 1 THEN None ELSE pa[d][w]
        /\ \A w \in Pages : pa'[d][w] # None => content'[pa[d][w]] = content[pa[d][w]]
    BY DataShrink
  <1>2. /\ View(p) = [v \in 0 .. n - 1 |-> content[pa[d][v]]]
        /\ \A v \in Pages : pa[d][v] # None <=> v \in 0 .. n - 1
        /\ n \in 1 .. MaxPages
    BY RunningView DEF Shrink
  <1>3. View(p)' = [v \in {w \in Pages : pa'[d][w] # None} |-> content'[pa'[d][v]]]
    BY <1>1 DEF View, Here
  <1>4. {w \in Pages : pa'[d][w] # None} = 0 .. n - 2
    <2>1. \A w : w \in 0 .. n - 2 <=> w \in Pages /\ w # n - 1 /\ w \in 0 .. n - 1
      BY <1>2, ConstAssumption DEF Pages
    <2> QED BY <1>1, <1>2, <2>1
  <1>5. \A v \in 0 .. n - 2 : content'[pa'[d][v]] = View(p)[v]
    <2>1. \A v \in 0 .. n - 2 : v \in Pages /\ v # n - 1 /\ v \in 0 .. n - 1
      BY <1>2, ConstAssumption DEF Pages
    <2> QED BY <1>1, <1>2, <2>1
  <1>6. View(p)' = [v \in 0 .. n - 2 |-> View(p)[v]]
    BY <1>3, <1>4, <1>5
  <1>7. Private!Become(p, [v \in 0 .. n - 2 |-> View(p)[v]])
    BY <1>1, <1>6, ViewsBecome
  <1>8. DOMAIN View(p) = 0 .. n - 1
    BY <1>2
  <1>9. Private!Shrink(p)
    BY <1>2, <1>7, <1>8 DEF Private!Shrink
  <1> QED BY <1>9 DEF Private!Next

LEMMA ForkStep ==
  ASSUME FullInv, NEW p \in Procs, ForkDone(p)
  PROVE  Private!Next
  <1>1. PICK c \in Procs \ {p} :
          /\ ~Seen(c) /\ View(c)' = View(p)
          /\ \A q \in Procs \ {c} : UNCHANGED View(q)
    BY DataForkDone
  <1>2. View(p) # Private!Nothing
    <2>1. 0 \in DOMAIN View(p)
      BY DataForkDone
    <2> QED BY <2>1 DEF Private!Nothing
  <1>3. View(c) = Private!Nothing
    BY <1>1 DEF View, Seen, Private!Nothing
  <1>4. Private!Become(c, View(p))
    BY <1>1, ViewsBecome
  <1>5. Private!Fork(p)
    BY <1>2, <1>3, <1>4 DEF Private!Fork
  <1> QED BY <1>5 DEF Private!Next

LEMMA ExecStep ==
  ASSUME FullInv, NEW p \in Procs, ExecCommit(p)
  PROVE  Private!Next
  <1>1. /\ 0 \in DOMAIN View(p)
        /\ View(p)' = [v \in 0 .. TextPages + 1 |->
                         IF v = TextPages THEN Junk ELSE Image]
        /\ \A q \in Procs \ {p} : UNCHANGED View(q)
    BY DataExecCommit
  <1>2. View(p) # Private!Nothing
    BY <1>1 DEF Private!Nothing
  <1>3. Private!Become(p, Private!TheImage)
    BY <1>1, ViewsBecome DEF Private!TheImage
  <1>4. Private!Exec(p)
    BY <1>2, <1>3 DEF Private!Exec
  <1> QED BY <1>4 DEF Private!Next

-----------------------------------------------------------------------------

LEMMA FullNext ==
  ASSUME FullInv, [Next]_vars
  PROVE  FullInv' /\ (Private!Next \/ UNCHANGED Views)
  <1>1. MemInv'
    BY MemNext DEF FullInv
  <1>2. CASE UNCHANGED vars
    <2>1. DataInv'
      BY <1>2 DEF FullInv, DataInv, Live, Copied, Loaded, JunkFree, ZeroKept, Shaped,
                  vars, phys, maps, procs, local
    <2>2. \A q \in Procs : UNCHANGED View(q)
      BY <1>2 DEF View, Here, vars, phys, maps, procs
    <2> QED BY <1>1, <2>1, <2>2, ViewsSame DEF FullInv
  <1>3. ASSUME NEW p \in Procs, Access(p)
        PROVE  DataInv' /\ (Private!Next \/ UNCHANGED Views)
    <2>1. CASE \E v \in Pages : FaultKill(p, v) \/ FaultNoMem(p, v)
      BY <2>1, DataKill, DieStep
    <2>2. ASSUME NEW v \in Pages, NEW x \in Stores, NEW kernel, Store(p, v, x, kernel)
          PROVE  DataInv' /\ Private!Next
      BY <2>2, DataStore, StoreStep
    <2>3. ASSUME NEW v \in Pages, NEW kernel,
                 \/ FaultZero(p, v, kernel) \/ FaultSole(p, v, kernel)
                 \/ FaultCopy(p, v, kernel)
          PROVE  DataInv' /\ UNCHANGED Views
      <3>1. DataInv' /\ UNCHANGED View(p) /\ OnlyIn(Here(p))
        BY <2>3, DataFaultZero, DataFaultSole, DataFaultCopy
      <3>2. pc[p] = "user" /\ UNCHANGED <<pc, procs>>
        BY <2>3 DEF FaultZero, FaultSole, FaultCopy, WriteFault, Running
      <3>3. Alive(p) /\ Here(p) = pgdir[p]
        BY <3>2, UserOwn
      <3>4. \A q \in Procs \ {p} : UNCHANGED View(q)
        BY <3>1, <3>2, <3>3, OthersView DEF Seen, procs
      <3> QED BY <3>1, <3>4, ViewsSame
    <2> QED BY <1>3, <2>1, <2>2, <2>3 DEF Access
  <1>4. ASSUME NEW p \in Procs, Grow(p) \/ Shrink(p) \/ Exit(p)
        PROVE  DataInv' /\ Private!Next
    BY <1>4, DataGrow, DataShrink, DataKill, GrowStep, ShrinkStep, DieStep
  <1>5. ASSUME NEW p \in Procs, Fork(p)
        PROVE  DataInv' /\ (Private!Next \/ UNCHANGED Views)
    BY <1>5, DataBegin, DataForkRef, DataForkMap, DataForkFail, DataForkDone,
       ForkStep, ViewsSame DEF Fork
  <1>6. ASSUME NEW p \in Procs, Exec(p)
        PROVE  DataInv' /\ (Private!Next \/ UNCHANGED Views)
    BY <1>6, DataBegin, DataExecPage, DataExecFail, DataExecCommit, ExecStep,
       ViewsSame DEF Exec
  <1>7. ASSUME NEW p \in Procs, Wait(p)
        PROVE  DataInv' /\ (Private!Next \/ UNCHANGED Views)
    BY <1>7, DataReap, DataFreePage, DataFreeDir, ViewsSame DEF Wait
  <1> QED BY <1>1, <1>2, <1>3, <1>4, <1>5, <1>6, <1>7 DEF Next, FullInv

\* Transparent, which the runs cow_paging and cow_exec check: whatever pages
\* the kernel shares and however fork, exec, wait, sbrk and page faults
\* interleave, programs see memory of their own, copied when fork returns.
THEOREM Isolated == Spec => Transparent
  <1>1. Init => FullInv /\ Private!Init
    BY DataInit
  <1>2. FullInv /\ [Next]_vars => FullInv'
    BY FullNext
  <1>3. FullInv /\ [Next]_vars => [Private!Next]_Views
    BY FullNext
  <1> QED BY <1>1, <1>2, <1>3, PTL DEF Spec, Transparent, Private!Spec, Views

-----------------------------------------------------------------------------
(* No page is lost: as long as no fork has given up half way, every        *)
(* physical page is free or in use and its count is exact.                 *)

\* The count of a page says how many places refer to it.
Exact(f) == IF Refs(f) = {} THEN pageref[f] = 0
            ELSE pageref[f] + 1 = Cardinality(Refs(f))
InUse    == free \cup dirs \cup TableFrames \cup Data
Accounted == Frames \subseteq InUse /\ \A f \in Frames : Exact(f)

\* A directory without owner keeps the references its fork took.
KeepInv == Orphans = {} => Accounted

-----------------------------------------------------------------------------
(* Owners come and go.                                                     *)

\* No directory that nobody owned gains an owner.
OwnersKept ==
  /\ \A q \in Procs : Alive(q)' => pgdir'[q] \in Owned \cup free
  /\ \A q \in Procs : dir'[q] # None => dir'[q] \in Owned \cup free

LEMMA OrphansStay ==
  ASSUME MemInv, OwnersKept, dirs \ Owned \subseteq dirs', Orphans' = {}
  PROVE  Orphans = {}
  <1>1. dirs \cap free = {}
    BY DEF MemInv, PageInv, RolesDisjoint
  <1>2. \A d \in Owned' : d \in Owned \cup free
    BY DEF OwnersKept, Owned
  <1> QED BY <1>1, <1>2 DEF Orphans

LEMMA OwnedIs ==
  ASSUME NEW q \in Procs
  PROVE  /\ Alive(q) => pgdir[q] \in Owned
         /\ dir[q] # None => dir[q] \in Owned
  BY DEF Owned

LEMMA OwnersSame ==
  ASSUME UNCHANGED <<pgdir, dir>>,
         \A q \in Procs : Alive(q)' => Alive(q)
  PROVE  OwnersKept
  BY OwnedIs DEF OwnersKept

\* fork gives up: the directory it built has no owner from now on.
LEMMA ForkFailOrphan ==
  ASSUME MemInv, NEW p \in Procs, ForkFail(p)
  PROVE  Orphans' # {}
  <1> DEFINE d == dir[p]
  <1> DEFINE c == child[p]
  <1>1. /\ pc[p] = "forkmap" /\ pgdir' = [pgdir EXCEPT ![c] = None]
        /\ dir' = [dir EXCEPT ![p] = None]
        /\ pc' = [[pc EXCEPT ![c] = "unused"] EXCEPT ![p] = "user"]
        /\ dirs' = dirs
    BY DEF ForkFail, Return, maps
  <1>2. TypeOK /\ DirsHeld /\ ChildHeld /\ OwnInv
    BY DEF MemInv, StructInv
  <1>3. c \in Procs /\ c # p /\ pc[c] = "embryo"
    BY <1>1, <1>2 DEF ChildHeld, Forking, TypeOK
  <1>4. d # None /\ d \in dirs
    BY <1>1, <1>2 DEF DirsHeld, Busy, OwnInv, DirsOwned
  <1>5. \A q \in Procs : Alive(q) => pgdir[q] # d
    BY <1>1, <1>4, OwnPlain
  <1>6. \A q \in Procs : q # p => dir[q] # d
    BY <1>2, <1>4 DEF OwnInv, SoleOwner
  <1> HIDE DEF c, d
  <1>7. \A q \in Procs : Alive(q)' => Alive(q) /\ q # c
    <2>1. pc'[c] = "unused" /\ \A q \in Procs \ {p, c} : pc'[q] = pc[q]
      BY <1>1, <1>2, <1>3 DEF TypeOK
    <2>2. Alive(p) /\ p # c
      BY <1>1, <1>3 DEF Alive
    <2> QED BY <2>1, <2>2 DEF Alive
  <1>8. \A q \in Procs : Alive(q)' => pgdir'[q] # d
    BY <1>1, <1>2, <1>5, <1>7 DEF TypeOK
  <1>9. \A q \in Procs : dir'[q] # d
    BY <1>1, <1>2, <1>4, <1>6 DEF TypeOK
  <1>10. d \notin Owned'
    BY <1>8, <1>9 DEF Owned
  <1> QED BY <1>1, <1>4, <1>10 DEF Orphans

-----------------------------------------------------------------------------
(* Exact counts.                                                           *)

ExactKept(f) ==
  \/ Refs(f)' = Refs(f) /\ pageref'[f] = pageref[f]
  \/ \E m \in Refs(f) :
       /\ Refs(f)' = Refs(f) \ {m}
       /\ pageref'[f] = IF pageref[f] = 0 THEN 0 ELSE pageref[f] - 1
  \/ \E m : /\ m \notin Refs(f) /\ Refs(f) # {}
            /\ Refs(f)' = Refs(f) \cup {m} /\ pageref'[f] = pageref[f] + 1
  \/ \E m : Refs(f) = {} /\ Refs(f)' = {m} /\ pageref'[f] = pageref[f]

LEMMA CardRefs ==
  ASSUME NEW f \in Frames
  PROVE  /\ IsFiniteSet(Refs(f)) /\ Cardinality(Refs(f)) \in Nat
         /\ Cardinality(Refs(f)) = 0 <=> Refs(f) = {}
  <1>1. IsFiniteSet(Refs(f))
    BY RefsFinite
  <1> QED BY <1>1, FS_CardinalityType, FS_EmptySet

LEMMA ExactStep ==
  ASSUME TypeOK, NEW f \in Frames, Exact(f), ExactKept(f)
  PROVE  Exact(f)'
  <1> DEFINE R == Refs(f)
  <1>1. IsFiniteSet(R) /\ Cardinality(R) \in Nat /\ (Cardinality(R) = 0 <=> R = {})
    BY CardRefs
  <1>2. pageref[f] \in Nat
    BY ConstAssumption DEF TypeOK, AFrame
  <1>3. CASE Refs(f)' = R /\ pageref'[f] = pageref[f]
    BY <1>3 DEF Exact
  <1>4. ASSUME NEW m \in R, Refs(f)' = R \ {m},
               pageref'[f] = IF pageref[f] = 0 THEN 0 ELSE pageref[f] - 1
        PROVE  Exact(f)'
    <2>1. /\ IsFiniteSet(R \ {m}) /\ Cardinality(R \ {m}) = Cardinality(R) - 1
      BY <1>1, <1>4, FS_RemoveElement
    <2>2. pageref[f] + 1 = Cardinality(R)
      BY <1>4 DEF Exact
    <2>3. R \ {m} = {} <=> Cardinality(R \ {m}) = 0
      BY <2>1, FS_EmptySet
    <2> HIDE DEF R
    <2> QED BY <1>1, <1>2, <1>4, <2>1, <2>2, <2>3 DEF Exact
  <1>5. ASSUME NEW m, m \notin R, R # {}, Refs(f)' = R \cup {m},
               pageref'[f] = pageref[f] + 1
        PROVE  Exact(f)'
    <2>1. Cardinality(R \cup {m}) = Cardinality(R) + 1
      BY <1>1, <1>5, FS_AddElement
    <2>2. pageref[f] + 1 = Cardinality(R)
      BY <1>5 DEF Exact
    <2> HIDE DEF R
    <2>3. R \cup {m} # {}
      OBVIOUS
    <2> QED BY <1>1, <1>2, <1>5, <2>1, <2>2, <2>3 DEF Exact
  <1>6. ASSUME NEW m, R = {}, Refs(f)' = {m}, pageref'[f] = pageref[f]
        PROVE  Exact(f)'
    <2>1. Cardinality({m}) = 1
      BY FS_Singleton
    <2>2. pageref[f] = 0
      BY <1>6 DEF Exact
    <2> QED BY <1>6, <2>1, <2>2 DEF Exact
  <1> HIDE DEF R
  <1>7. \/ Refs(f)' = R /\ pageref'[f] = pageref[f]
        \/ \E m \in R : /\ Refs(f)' = R \ {m}
                        /\ pageref'[f] = IF pageref[f] = 0 THEN 0 ELSE pageref[f] - 1
        \/ \E m : /\ m \notin R /\ R # {}
                  /\ Refs(f)' = R \cup {m} /\ pageref'[f] = pageref[f] + 1
        \/ \E m : R = {} /\ Refs(f)' = {m} /\ pageref'[f] = pageref[f]
    BY DEF ExactKept, R
  <1> QED BY <1>3, <1>4, <1>5, <1>6, <1>7

\* A page with two mappings has a count, so the last mapping of a page goes
\* with a count of 0.
LEMMA LastExact ==
  ASSUME TypeOK, NEW f \in Frames, Exact(f), NEW m \in Refs(f)
  PROVE  pageref[f] = 0 <=> Refs(f) \ {m} = {}
  <1>1. IsFiniteSet(Refs(f)) /\ Cardinality(Refs(f)) \in Nat
    BY CardRefs
  <1>2. /\ IsFiniteSet(Refs(f) \ {m})
        /\ Cardinality(Refs(f) \ {m}) = Cardinality(Refs(f)) - 1
    BY <1>1, FS_RemoveElement
  <1>3. Refs(f) \ {m} = {} <=> Cardinality(Refs(f) \ {m}) = 0
    BY <1>2, FS_EmptySet
  <1>4. pageref[f] + 1 = Cardinality(Refs(f)) /\ pageref[f] \in Nat
    BY ConstAssumption DEF Exact, TypeOK, AFrame
  <1> QED BY <1>1, <1>2, <1>3, <1>4

LEMMA KeepStep ==
  ASSUME TypeOK, KeepInv, Orphans' = {} => Orphans = {},
         Accounted => /\ \A f \in Frames : ExactKept(f)
                      /\ \A f \in Frames : f \in InUse => f \in InUse'
  PROVE  KeepInv'
  <1>1. Accounted => Accounted'
    BY ExactStep DEF Accounted
  <1> QED BY <1>1 DEF KeepInv

-----------------------------------------------------------------------------
(* What a step does to the mappings, exactly.                              *)

\* No fork stops holding a page it has counted, and none begins to.
SamePend ==
  \A q \in Procs :
    /\ pc'[q] = "forkmap" <=> pc[q] = "forkmap"
    /\ pc[q] = "forkmap" => dir'[q] = dir[q] /\ i'[q] = i[q] /\ pgdir'[q] = pgdir[q]

LEMMA SameRefs ==
  ASSUME SamePend, pa' = pa
  PROVE  \A f : Refs(f)' = Refs(f)
  <1>1. \A d, v, f : Pending(d, v, f)' <=> Pending(d, v, f)
    BY DEF SamePend, Pending, Here
  <1> QED BY <1>1 DEF Refs

LEMMA PutRefs ==
  ASSUME TypeOK, SamePend, NEW d \in Frames, NEW v \in Pages, NEW g, Quiet(d),
         pa' = [pa EXCEPT ![d][v] = g]
  PROVE  \A f : Refs(f)' = IF f = g THEN Refs(f) \cup {<<d, v>>}
                           ELSE Refs(f) \ {<<d, v>>}
  <1>1. \A e \in Frames, w \in Pages :
          pa'[e][w] = IF e = d /\ w = v THEN g ELSE pa[e][w]
    BY DEF TypeOK
  <1>2. \A q \in Procs : pc[q] = "forkmap" => pa'[pgdir[q]] = pa[pgdir[q]]
    BY DEF TypeOK, Quiet
  <1>3. \A e, w, f : Pending(e, w, f)' <=> Pending(e, w, f)
    BY <1>2 DEF SamePend, Pending, Here
  <1>4. \A w, f : ~Pending(d, w, f)
    BY DEF Pending, Quiet
  <1>5. ASSUME NEW f, NEW e \in Frames, NEW w \in Pages
        PROVE  <<e, w>> \in Refs(f)' <=>
                 IF e = d /\ w = v THEN f = g ELSE <<e, w>> \in Refs(f)
    BY <1>1, <1>3, <1>4 DEF Refs
  <1>6. \A f : Refs(f) \subseteq Frames \X Pages /\ Refs(f)' \subseteq Frames \X Pages
    BY DEF Refs
  <1> SUFFICES ASSUME NEW f
               PROVE  Refs(f)' = IF f = g THEN Refs(f) \cup {<<d, v>>}
                                 ELSE Refs(f) \ {<<d, v>>}
      OBVIOUS
  <1>7. \A m : m \in Refs(f)' <=> m \in IF f = g THEN Refs(f) \cup {<<d, v>>}
                                        ELSE Refs(f) \ {<<d, v>>}
    <2> SUFFICES ASSUME NEW m \in Frames \X Pages
                 PROVE  m \in Refs(f)' <=>
                          m \in IF f = g THEN Refs(f) \cup {<<d, v>>}
                                ELSE Refs(f) \ {<<d, v>>}
        BY <1>6
    <2>1. PICK e \in Frames, w \in Pages : m = <<e, w>>
      OBVIOUS
    <2> QED BY <1>5, <2>1
  <1> QED BY <1>7

LEMMA DivBound ==
  ASSUME NEW n \in Nat, NEW m \in Nat \ {0}
  PROVE  n \div m \in 0 .. n
OBVIOUS

LEMMA TableIndex == \A v \in Pages : v \div PtSpan \in Tables
  <1> SUFFICES ASSUME NEW v \in Pages PROVE v \div PtSpan \in Tables
      OBVIOUS
  <1>1. v \in Nat /\ v < MaxPages /\ MaxPages \in Nat
    BY ConstAssumption DEF Pages
  <1>2. v \div PtSpan \in 0 .. v
    BY <1>1, DivBound, ConstAssumption
  <1> QED BY <1>1, <1>2 DEF Tables

\* The page walkpgdir takes becomes a page table, and no page table is lost.
LEMMA WalkKeeps ==
  ASSUME TypeOK, NEW d \in Frames, NEW v \in Pages, NEW avail \in SUBSET Frames,
         Walk(d, v, avail)
  PROVE  avail \cup TableFrames \subseteq free' \cup TableFrames'
  <1>1. CASE free' = avail /\ tbl' = tbl
    BY <1>1 DEF TableFrames
  <1>2. ASSUME ~HasTable(d, v), NEW t \in Pick(avail), free' = avail \ {t},
               tbl' = [tbl EXCEPT ![d][v \div PtSpan] = t]
        PROVE  avail \cup TableFrames \subseteq free' \cup TableFrames'
    <2>1. t \in Frames
      BY PickIn
    <2> DEFINE n == v \div PtSpan
    <2>2. n \in Tables /\ tbl[d][n] = None
      BY <1>2, TableIndex DEF HasTable
    <2>3. tbl' = [tbl EXCEPT ![d] = [tbl[d] EXCEPT ![n] = t]]
      BY <1>2
    <2> HIDE DEF n
    <2>4. \A e \in Frames, k \in Tables :
            tbl'[e][k] = IF e = d /\ k = n THEN t ELSE tbl[e][k]
      BY <2>3 DEF TypeOK
    <2>5. t \in TableFrames'
      BY <2>1, <2>2, <2>4 DEF TableFrames
    <2>6. ASSUME NEW f \in TableFrames PROVE f \in TableFrames'
      <3>1. PICK e \in Frames, k \in Tables : tbl[e][k] = f
        BY DEF TableFrames
      <3>2. f \in Frames /\ f # None
        BY ConstAssumption DEF TableFrames
      <3>3. tbl'[e][k] = f
        BY <2>2, <2>4, <3>1, <3>2
      <3> QED BY <3>2, <3>3 DEF TableFrames
    <2> QED BY <1>2, <2>5, <2>6
  <1> QED BY <1>1, <1>2 DEF Walk

-----------------------------------------------------------------------------
(* The actions.                                                            *)

LEMMA FullParts ==
  FullInv => /\ TypeOK /\ MemInv /\ PageInv /\ OwnInv /\ DirsHeld /\ ChildHeld
             /\ MapBelow /\ RolesDisjoint /\ None \notin Frames /\ Zero \notin Frames
BY ConstAssumption DEF FullInv, MemInv, StructInv, PageInv

\* Steps that change no mapping and no count of a page in use.
LEMMA KeepSame ==
  ASSUME FullInv, KeepInv, OwnersKept,
         Orphans \subseteq dirs',
         \A f \in Frames : Refs(f)' = Refs(f),
         Accounted =>
           /\ \A f \in Frames : pageref'[f] = pageref[f]
           /\ free \cup dirs \cup TableFrames \subseteq free' \cup dirs' \cup TableFrames'
  PROVE  KeepInv'
  <1>1. Orphans' = {} => Orphans = {}
    BY FullParts, OrphansStay DEF Orphans
  <1>2. Accounted => \A f \in Frames : ExactKept(f)
    BY DEF ExactKept
  <1>3. Data' = Data
    BY DEF Data
  <1>4. Accounted => \A f \in Frames : f \in InUse => f \in InUse'
    BY <1>3 DEF InUse
  <1> QED BY <1>1, <1>2, <1>4, FullParts, KeepStep

\* The actions that move between calls, and those that only change access.
LEMMA KeepRest ==
  ASSUME FullInv, KeepInv, SamePend, OwnersKept,
         UNCHANGED <<free, pageref, dirs, tbl, pa>>
  PROVE  KeepInv'
  <1>1. \A f \in Frames : Refs(f)' = Refs(f)
    BY SameRefs
  <1>2. TableFrames' = TableFrames
    BY DEF TableFrames
  <1> QED BY <1>1, <1>2, KeepSame DEF Orphans

\* A page off the free list takes the place of page v of d, which loses one
\* of its references.
LEMMA KeepPut ==
  ASSUME FullInv, KeepInv, SamePend, OwnersKept,
         NEW d \in Frames, NEW v \in Pages, Quiet(d), NEW mem \in free,
         pa' = [pa EXCEPT ![d][v] = mem], dirs' = dirs,
         free \cup TableFrames \subseteq free' \cup TableFrames' \cup {mem},
         \A f \in Frames : f # pa[d][v] => pageref'[f] = pageref[f],
         \A f \in Frames : f = pa[d][v] =>
           pageref[f] # 0 /\ pageref'[f] = pageref[f] - 1
  PROVE  KeepInv'
  <1>1. TypeOK /\ RolesDisjoint /\ mem \in Frames
    BY FullParts DEF TypeOK
  <1>2. Orphans' = {} => Orphans = {}
    BY FullParts, OrphansStay
  <1>3. \A f : Refs(f)' = IF f = mem THEN Refs(f) \cup {<<d, v>>}
                          ELSE Refs(f) \ {<<d, v>>}
    BY <1>1, PutRefs
  <1>4. Refs(mem) = {} /\ mem # pa[d][v]
    BY <1>1, FreeUnmapped DEF RolesDisjoint, Data
  <1>5. \A f \in Frames : <<d, v>> \in Refs(f) <=> f = pa[d][v]
    BY DEF Refs, Pending, Quiet
  <1>6. ASSUME NEW f \in Frames PROVE ExactKept(f)
    <2>1. CASE f = mem
      <3>1. Refs(f) = {} /\ Refs(f)' = {<<d, v>>} /\ pageref'[f] = pageref[f]
        BY <1>3, <1>4, <2>1
      <3> QED BY <3>1 DEF ExactKept
    <2>2. CASE f # mem /\ f = pa[d][v]
      <3>1. /\ <<d, v>> \in Refs(f) /\ Refs(f)' = Refs(f) \ {<<d, v>>}
            /\ pageref'[f] = IF pageref[f] = 0 THEN 0 ELSE pageref[f] - 1
        BY <1>3, <1>5, <2>2
      <3> QED BY <3>1 DEF ExactKept
    <2>3. CASE f # mem /\ f # pa[d][v]
      <3>1. Refs(f)' = Refs(f) /\ pageref'[f] = pageref[f]
        BY <1>3, <1>5, <2>3
      <3> QED BY <3>1 DEF ExactKept
    <2> QED BY <2>1, <2>2, <2>3
  <1>7. ASSUME Accounted, NEW f \in Data PROVE f \in Data'
    <2>1. f \in Frames /\ Refs(f) # {} /\ Exact(f)
      BY <1>7 DEF Data, Accounted
    <2>2. CASE f = pa[d][v]
      <3>1. Refs(f) \ {<<d, v>>} # {}
        BY <1>1, <1>5, <2>1, <2>2, LastExact
      <3> QED BY <1>3, <2>1, <3>1 DEF Data
    <2>3. CASE f # pa[d][v]
      BY <1>3, <1>5, <2>1, <2>3 DEF Data
    <2> QED BY <2>2, <2>3
  <1>8. mem \in Data'
    BY <1>1, <1>3 DEF Data
  <1>9. Accounted => \A f \in Frames : f \in InUse => f \in InUse'
    BY <1>7, <1>8 DEF InUse
  <1> QED BY <1>1, <1>2, <1>6, <1>9, KeepStep

\* Page v of d is unmapped and given to kfree.
LEMMA KeepDrop ==
  ASSUME FullInv, KeepInv, SamePend, OwnersKept,
         NEW d \in Frames, NEW v \in Pages, Quiet(d),
         Kfree({pa[d][v]} \ {None}), ClearPte(d, v), UNCHANGED <<dirs, tbl>>
  PROVE  KeepInv'
  <1>1. TypeOK /\ RolesDisjoint /\ None \notin Frames /\ Zero \notin Frames
    BY FullParts
  <1>2. Orphans' = {} => Orphans = {}
    BY FullParts, OrphansStay
  <1>3. pa' = [pa EXCEPT ![d][v] = None]
    BY DEF ClearPte, SetPte
  <1>4. \A f \in Frames : Refs(f)' = Refs(f) \ {<<d, v>>}
    <2>1. \A f : Refs(f)' = IF f = None THEN Refs(f) \cup {<<d, v>>}
                            ELSE Refs(f) \ {<<d, v>>}
      BY <1>1, <1>3, PutRefs
    <2> QED BY <1>1, <2>1
  <1>5. \A f \in Frames : <<d, v>> \in Refs(f) <=> f = pa[d][v]
    BY DEF Refs, Pending, Quiet
  <1>6. PICK g : g = pa[d][v]
    OBVIOUS
  <1>7. Kfree({g} \ {None}) /\ g \in Frames \cup {Zero, None}
    BY <1>1, <1>6 DEF TypeOK, AFrame
  <1>8. /\ \A f \in Frames : pageref'[f] = IF f = g /\ pageref[f] # 0
                                           THEN pageref[f] - 1 ELSE pageref[f]
        /\ free' = free \cup {f \in Frames : f = g /\ pageref[f] = 0}
    BY <1>1, <1>7, ConstAssumption DEF Kfree, AFrame
  <1>9. ASSUME NEW f \in Frames PROVE ExactKept(f)
    <2>1. CASE f = g
      <3>1. /\ <<d, v>> \in Refs(f) /\ Refs(f)' = Refs(f) \ {<<d, v>>}
            /\ pageref'[f] = IF pageref[f] = 0 THEN 0 ELSE pageref[f] - 1
        BY <1>4, <1>5, <1>6, <1>8, <2>1
      <3> QED BY <3>1 DEF ExactKept
    <2>2. CASE f # g
      <3>1. Refs(f)' = Refs(f) /\ pageref'[f] = pageref[f]
        BY <1>4, <1>5, <1>6, <1>8, <2>2
      <3> QED BY <3>1 DEF ExactKept
    <2> QED BY <2>1, <2>2
  <1>10. ASSUME Accounted, NEW f \in Data PROVE f \in Data' \cup free'
    <2>1. f \in Frames /\ Refs(f) # {} /\ Exact(f)
      BY <1>10 DEF Data, Accounted
    <2>2. CASE f = g
      <3>1. pageref[f] = 0 <=> Refs(f) \ {<<d, v>>} = {}
        BY <1>1, <1>5, <1>6, <2>1, <2>2, LastExact
      <3> QED BY <1>4, <1>8, <2>1, <2>2, <3>1 DEF Data
    <2>3. CASE f # g
      BY <1>4, <1>5, <1>6, <2>1, <2>3 DEF Data
    <2> QED BY <2>2, <2>3
  <1>11. free \subseteq free' /\ TableFrames' = TableFrames
    BY <1>8 DEF TableFrames
  <1>12. Accounted => \A f \in Frames : f \in InUse => f \in InUse'
    BY <1>10, <1>11 DEF InUse
  <1> QED BY <1>1, <1>2, <1>9, <1>12, KeepStep

LEMMA PendSame ==
  ASSUME UNCHANGED <<pc, dir, i, pgdir>>
  PROVE  SamePend
BY DEF SamePend

LEMMA KeepFaults ==
  ASSUME FullInv, KeepInv, NEW p \in Procs, NEW v \in Pages, NEW kernel,
         \/ FaultZero(p, v, kernel) \/ FaultSole(p, v, kernel)
         \/ FaultCopy(p, v, kernel) \/ \E x \in Stores : Store(p, v, x, kernel)
  PROVE  KeepInv'
  <1>1. UNCHANGED <<pc, procs, local, dirs, tbl>>
    BY DEF FaultZero, FaultSole, FaultCopy, Store, maps
  <1>2. SamePend
    BY <1>1, PendSame DEF procs, local
  <1>3. OwnersKept
    BY <1>1, OwnersSame DEF procs, local, Alive
  <1>4. CASE FaultSole(p, v, kernel) \/ \E x \in Stores : Store(p, v, x, kernel)
    <2>1. UNCHANGED <<free, pageref, pa>>
      BY <1>4 DEF FaultSole, Store, phys, maps
    <2> QED BY <1>1, <1>2, <1>3, <2>1, KeepRest
  <1>5. CASE FaultZero(p, v, kernel) \/ FaultCopy(p, v, kernel)
    <2> DEFINE d == Here(p)
    <2>1. pc[p] = "user" /\ pa[d][v] # None
      BY <1>5 DEF FaultZero, FaultCopy, WriteFault, Running
    <2>2. d \in Frames /\ Quiet(d)
      BY <2>1, UserQuiet, FullParts
    <2>3. PICK mem \in Pick(free) : free' = free \ {mem} /\ pa' = [pa EXCEPT ![d][v] = mem]
      BY <1>5 DEF FaultZero, FaultCopy
    <2>4. mem \in free
      BY PickIn, FullParts DEF TypeOK
    <2>5. free \cup TableFrames \subseteq free' \cup TableFrames' \cup {mem}
      BY <1>1, <2>3 DEF TableFrames
    <2>6. /\ \A f \in Frames : f # pa[d][v] => pageref'[f] = pageref[f]
          /\ \A f \in Frames : f = pa[d][v] =>
               pageref[f] # 0 /\ pageref'[f] = pageref[f] - 1
      <3>1. CASE FaultZero(p, v, kernel)
        BY <3>1, FullParts DEF FaultZero
      <3>2. CASE FaultCopy(p, v, kernel)
        BY <3>2, FullParts DEF FaultCopy, TypeOK, AFrame
      <3> QED BY <1>5, <3>1, <3>2
    <2> HIDE DEF d
    <2> QED BY <1>1, <1>2, <1>3, <2>2, <2>3, <2>4, <2>5, <2>6, KeepPut
  <1> QED BY <1>4, <1>5

\* A process is killed.
LEMMA KeepKilled ==
  ASSUME FullInv, KeepInv, NEW p \in Procs, pc[p] = "user",
         pc' = [pc EXCEPT ![p] = "killed"],
         UNCHANGED <<pgdir, dir, i, free, pageref, dirs, tbl, pa>>
  PROVE  KeepInv'
  <1>1. SamePend /\ \A q \in Procs : Alive(q)' => Alive(q)
    BY FullParts DEF SamePend, Alive, TypeOK
  <1> QED BY <1>1, OwnersSame, KeepRest

LEMMA KeepKill ==
  ASSUME FullInv, KeepInv, NEW p \in Procs, NEW v \in Pages,
         FaultKill(p, v) \/ FaultNoMem(p, v)
  PROVE  KeepInv'
  <1>1. /\ pc[p] = "user" /\ pc' = [pc EXCEPT ![p] = "killed"]
        /\ UNCHANGED <<phys, maps, procs, local>>
    BY DEF FaultKill, FaultNoMem, WriteFault, Running
  <1> QED BY <1>1, KeepKilled DEF phys, maps, procs, local

LEMMA KeepGrow ==
  ASSUME FullInv, KeepInv, NEW p \in Procs, Grow(p)
  PROVE  KeepInv'
  <1> DEFINE d == Here(p)
  <1> DEFINE v == sz[p]
  <1>1. Running(p) /\ pc[p] = "user" /\ v < MaxPages /\ UNCHANGED <<dirs, pgdir, local>>
    BY DEF Grow, Running
  <1>2. d \in Frames /\ Quiet(d)
    BY <1>1, UserQuiet, FullParts
  <1>3. v \in Pages
    <2>1. sz[p] \in 0 .. MaxPages
      BY FullParts DEF TypeOK
    <2> QED BY <1>1, <2>1, ConstAssumption DEF Pages
  <1>4. pa[d][v] = None
    <2>1. ~(v < v)
      BY <1>3 DEF Pages
    <2> QED BY <1>1, <1>3, <2>1, RunningShape DEF Shaped
  <1>5. CASE /\ Walk(d, v, free) /\ SetPte(d, v, Zero, FALSE, TRUE)
             /\ UNCHANGED <<pageref, content, pc>>
    <2>1. SamePend /\ OwnersKept
      BY <1>1, <1>5, PendSame, OwnersSame DEF local, Alive
    <2>2. pa' = [pa EXCEPT ![d][v] = Zero]
      BY <1>5 DEF SetPte
    <2> HIDE DEF d, v
    <2>3. \A f \in Frames : Refs(f)' = Refs(f) \ {<<d, v>>}
      <3>1. \A f : Refs(f)' = IF f = Zero THEN Refs(f) \cup {<<d, v>>}
                              ELSE Refs(f) \ {<<d, v>>}
        BY <1>2, <1>3, <2>1, <2>2, PutRefs, FullParts
      <3> QED BY <3>1, FullParts
    <2>4. \A f \in Frames : <<d, v>> \notin Refs(f)
      BY <1>2, <1>4, FullParts DEF Refs, Pending, Quiet
    <2>5. \A f \in Frames : Refs(f)' = Refs(f)
      BY <2>3, <2>4
    <2>6. free \cup TableFrames \subseteq free' \cup TableFrames'
      BY <1>2, <1>3, <1>5, WalkKeeps, FullParts DEF TypeOK
    <2> QED BY <1>1, <1>5, <2>1, <2>5, <2>6, KeepSame DEF Orphans
  <1>6. CASE pc' = [pc EXCEPT ![p] = "killed"] /\ UNCHANGED <<phys, tbl, pa, wr, us>>
    BY <1>1, <1>6, KeepKilled DEF phys, local
  <1> QED BY <1>5, <1>6 DEF Grow

LEMMA KeepShrink ==
  ASSUME FullInv, KeepInv, NEW p \in Procs, Shrink(p)
  PROVE  KeepInv'
  <1> DEFINE d == Here(p)
  <1> DEFINE v == sz[p] - 1
  <1>1. /\ pc[p] = "user" /\ v \in Pages /\ Kfree({pa[d][v]} \ {None})
        /\ ClearPte(d, v) /\ UNCHANGED <<dirs, tbl, pc, pgdir, local>>
    BY DEF Shrink, Running
  <1>2. d \in Frames /\ Quiet(d)
    BY <1>1, UserQuiet, FullParts
  <1>3. SamePend /\ OwnersKept
    BY <1>1, PendSame, OwnersSame DEF local, Alive
  <1> HIDE DEF d, v
  <1> QED BY <1>1, <1>2, <1>3, KeepDrop

\* ForkRef counts one reference more to the page the parent maps.
LEMMA KeepForkRef ==
  ASSUME FullInv, KeepInv, NEW p \in Procs, ForkRef(p), RefRoom(p)
  PROVE  KeepInv'
  <1> DEFINE d == Here(p)
  <1> DEFINE v == i[p]
  <1> DEFINE g == pa[d][v]
  <1>1. /\ pc[p] = "forkref" /\ v < sz[p]
        /\ pageref' = [pageref EXCEPT ![g] = (pageref[g] + 1) % RefLimit]
        /\ pc' = [pc EXCEPT ![p] = "forkmap"]
        /\ UNCHANGED <<free, dirs, tbl, pa, pgdir, dir, i>>
    BY DEF ForkRef, procs, local
  <1>2. TypeOK /\ Live(p) /\ Copied(p) /\ d \in Frames
    BY <1>1, HereFrame DEF FullInv, DataInv, MemInv, StructInv, Alive
  <1>3. v \in Pages
    BY <1>1, <1>2, ConstAssumption DEF TypeOK, Pages
  <1>4. g # None /\ <<d, v>> \in Refs(g)
    <2>1. Shaped(d, sz[p])
      BY <1>1, <1>2 DEF Live, Here
    <2>2. \A w \in Pages : pa[d][w] # None <=> w < sz[p]
      BY <2>1 DEF Shaped
    <2> QED BY <1>1, <1>2, <1>3, <2>2 DEF Refs
  <1>5. dir[p] \in Frames /\ pa[dir[p]][v] = None
    <2>1. dir[p] # None
      BY <1>1, FullParts DEF DirsHeld, Busy
    <2>2. ~(v < v)
      BY <1>3 DEF Pages
    <2> QED BY <1>1, <1>2, <1>3, <2>1, <2>2 DEF Copied, Forking, TypeOK
  <1>6. g # Zero => pageref[g] + 1 < RefLimit
    BY DEF RefRoom
  <1>7. \A f \in Frames : pageref'[f] = IF f = g THEN pageref[f] + 1 ELSE pageref[f]
    <2>1. g \in Frames => (pageref[g] + 1) % RefLimit = pageref[g] + 1
      <3>1. g \in Frames => g # Zero /\ pageref[g] \in Nat
        BY <1>2, ConstAssumption DEF TypeOK, AFrame
      <3>2. \A n \in Nat : n < RefLimit => n % RefLimit = n
        BY ConstAssumption
      <3> HIDE DEF g
      <3> QED BY <1>6, <3>1, <3>2
    <2> HIDE DEF g
    <2> QED BY <1>1, <1>2, <2>1 DEF TypeOK, AFrame
  <1>8. pc'[p] = "forkmap" /\ \A q \in Procs : q # p => pc'[q] = pc[q]
    BY <1>1, <1>2 DEF TypeOK
  <1>9. \A f : \A e \in Frames, w \in Pages :
          Pending(e, w, f)' <=> Pending(e, w, f) \/ (e = dir[p] /\ w = v /\ f = g)
    BY <1>1, <1>8 DEF Pending, Here
  <1>10. ASSUME NEW f, NEW e \in Frames, NEW w \in Pages
         PROVE  <<e, w>> \in Refs(f)' <=>
                  <<e, w>> \in Refs(f) \/ (e = dir[p] /\ w = v /\ f = g)
    BY <1>1, <1>9 DEF Refs
  <1>11. \A f : /\ f # g => Refs(f)' = Refs(f)
                /\ f = g => Refs(f)' = Refs(f) \cup {<<dir[p], v>>}
    <2>1. \A f : Refs(f) \subseteq Frames \X Pages /\ Refs(f)' \subseteq Frames \X Pages
      BY DEF Refs
    <2> SUFFICES ASSUME NEW f
                 PROVE  /\ f # g => Refs(f)' = Refs(f)
                        /\ f = g => Refs(f)' = Refs(f) \cup {<<dir[p], v>>}
        OBVIOUS
    <2>2. \A m : m \in Refs(f)' <=> m \in Refs(f) \/ (m = <<dir[p], v>> /\ f = g)
      <3>1. <<dir[p], v>> \in Frames \X Pages
        BY <1>3, <1>5
      <3> SUFFICES ASSUME NEW m \in Frames \X Pages
                   PROVE  m \in Refs(f)' <=>
                            m \in Refs(f) \/ (m = <<dir[p], v>> /\ f = g)
          BY <2>1, <3>1
      <3>2. PICK e \in Frames, w \in Pages : m = <<e, w>>
        OBVIOUS
      <3> QED BY <1>10, <3>2
    <2> QED BY <2>2
  <1>12. <<dir[p], v>> \notin Refs(g)
    <2>1. ~Pending(dir[p], v, g)
      <3>1. dir[p] # None
        BY <1>5, FullParts
      <3> QED BY <1>1, <3>1, FullParts DEF Pending, OwnInv, SoleOwner
    <2> QED BY <1>4, <1>5, <2>1 DEF Refs
  <1> HIDE DEF g, d, v
  <1>13. ASSUME NEW f \in Frames PROVE ExactKept(f)
    <2>1. CASE f = g
      <3>1. /\ <<dir[p], v>> \notin Refs(f) /\ Refs(f) # {}
            /\ Refs(f)' = Refs(f) \cup {<<dir[p], v>>}
            /\ pageref'[f] = pageref[f] + 1
        BY <1>4, <1>7, <1>11, <1>12, <2>1
      <3> QED BY <3>1 DEF ExactKept
    <2>2. CASE f # g
      <3>1. Refs(f)' = Refs(f) /\ pageref'[f] = pageref[f]
        BY <1>7, <1>11, <2>2
      <3> QED BY <3>1 DEF ExactKept
    <2> QED BY <2>1, <2>2
  <1>14. Data \subseteq Data' /\ TableFrames' = TableFrames
    <2>1. \A f : Refs(f) \subseteq Refs(f)'
      BY <1>11
    <2> QED BY <1>1, <2>1 DEF Data, TableFrames
  <1>15. \A f \in Frames : f \in InUse => f \in InUse'
    BY <1>1, <1>14 DEF InUse
  <1>16. Orphans' = {} => Orphans = {}
    <2>1. \A q \in Procs : Alive(q)' => Alive(q)
      BY <1>1, <1>8 DEF Alive
    <2> QED BY <1>1, <2>1, OwnersSame, OrphansStay, FullParts
  <1> QED BY <1>2, <1>13, <1>15, <1>16, KeepStep

\* ForkMap turns the reference it holds into a mapping.
LEMMA KeepForkMap ==
  ASSUME FullInv, KeepInv, NEW p \in Procs, ForkMap(p)
  PROVE  KeepInv'
  <1> DEFINE d == dir[p]
  <1> DEFINE v == i[p]
  <1> DEFINE g == pa[Here(p)][v]
  <1>1. /\ pc[p] = "forkmap" /\ Walk(d, v, free)
        /\ pa' = [pa EXCEPT ![d][v] = g]
        /\ pc' = [pc EXCEPT ![p] = "forkref"] /\ i' = [i EXCEPT ![p] = v + 1]
        /\ UNCHANGED <<pageref, dirs, pgdir, dir>>
    BY DEF ForkMap, SetPte, procs
  <1>2. TypeOK /\ DirsHeld /\ MapBelow /\ OwnInv /\ Copied(p)
    BY FullParts DEF FullInv, DataInv
  <1>3. v \in Pages
    BY <1>1, <1>2, ConstAssumption DEF MapBelow, TypeOK, Pages
  <1>4. d # None /\ d \in Frames
    BY <1>1, <1>2 DEF DirsHeld, Busy, TypeOK
  <1>5. pa[d][v] = None
    <2>1. ~(v < v)
      BY <1>3 DEF Pages
    <2> QED BY <1>1, <1>2, <1>3, <2>1 DEF Copied, Forking
  <1>6. /\ pc'[p] = "forkref"
        /\ \A q \in Procs : q # p => pc'[q] = pc[q] /\ i'[q] = i[q]
    BY <1>1, <1>2 DEF TypeOK
  <1>7. \A e \in Frames, w \in Pages :
          pa'[e][w] = IF e = d /\ w = v THEN g ELSE pa[e][w]
    BY <1>1, <1>2 DEF TypeOK
  <1>8. \A q \in Procs : pc[q] = "forkmap" =>
          pgdir[q] # d /\ pa'[pgdir[q]] = pa[pgdir[q]]
    <2> SUFFICES ASSUME NEW q \in Procs, pc[q] = "forkmap"
                 PROVE  pgdir[q] # d /\ pa'[pgdir[q]] = pa[pgdir[q]]
        OBVIOUS
    <2>1. pgdir[q] # d
      BY <1>1, <1>2 DEF OwnInv, SoleOwner, Alive
    <2> HIDE DEF d
    <2> QED BY <1>1, <1>2, <2>1 DEF TypeOK
  <1>9. \A e, w, f :
          Pending(e, w, f) <=> Pending(e, w, f)' \/ (e = d /\ w = v /\ f = g)
    BY <1>1, <1>6, <1>8 DEF Pending, Here
  <1>10. \A w, f : ~Pending(d, w, f)'
    <2>1. \A q \in Procs : q # p => dir[q] # d
      BY <1>2, <1>4 DEF OwnInv, SoleOwner
    <2> QED BY <1>1, <1>6, <2>1 DEF Pending
  <1> HIDE DEF d, v, g
  <1>11. ASSUME NEW f \in Frames PROVE Refs(f)' = Refs(f)
    <2>1. Refs(f) \subseteq Frames \X Pages /\ Refs(f)' \subseteq Frames \X Pages
      BY DEF Refs
    <2>2. f # None
      BY FullParts
    <2>3. ASSUME NEW e \in Frames, NEW w \in Pages
          PROVE  <<e, w>> \in Refs(f)' <=> <<e, w>> \in Refs(f)
      BY <1>5, <1>7, <1>9, <1>10, <2>2 DEF Refs
    <2>4. \A m \in Frames \X Pages : m \in Refs(f)' <=> m \in Refs(f)
      <3> TAKE m \in Frames \X Pages
      <3>1. PICK e \in Frames, w \in Pages : m = <<e, w>>
        OBVIOUS
      <3> QED BY <2>3, <3>1
    <2> QED BY <2>1, <2>4
  <1>12. free \cup TableFrames \subseteq free' \cup TableFrames'
    BY <1>1, <1>2, <1>3, <1>4, WalkKeeps DEF TypeOK
  <1>13. OwnersKept
    <2>1. \A q \in Procs : Alive(q)' => Alive(q)
      BY <1>1, <1>6 DEF Alive
    <2> QED BY <1>1, <2>1, OwnersSame
  <1> QED BY <1>1, <1>11, <1>12, <1>13, KeepSame DEF Orphans

\* A call begins on a new directory.
LEMMA KeepBegin ==
  ASSUME FullInv, KeepInv, NEW p \in Procs,
         ExecBegin(p) \/ \E c \in Procs : ForkBegin(p, c)
  PROVE  KeepInv'
  <1>1. TypeOK
    BY FullParts
  <1>2. PICK d \in Frames : /\ Setupkvm(d)
                            /\ \/ Start(p, "load", d, None)
                               \/ \E c \in Procs : pc[c] = "unused" /\ Start(p, "forkref", d, c)
    BY DEF ExecBegin, ForkBegin
  <1>3. UNCHANGED <<pageref, tbl, pa, pgdir>> /\ pc[p] = "user"
    BY DEF ExecBegin, ForkBegin, procs, Running
  <1>4. d \in free /\ free' = free \ {d} /\ dirs' = dirs \cup {d}
    BY <1>1, <1>2, PickIn DEF Setupkvm, TypeOK
  <1>5. /\ dir'[p] = d /\ \A q \in Procs : q # p => dir'[q] = dir[q] /\ i'[q] = i[q]
        /\ \A q \in Procs : pc'[q] = "forkmap" <=> pc[q] = "forkmap"
        /\ \A q \in Procs : Alive(q)' => Alive(q)
    <2>1. dir' = [dir EXCEPT ![p] = d] /\ i' = [i EXCEPT ![p] = 0]
      BY <1>2 DEF Start
    <2>2. /\ pc'[p] # "forkmap"
          /\ \A q \in Procs \ {p} :
               \/ pc'[q] = pc[q]
               \/ pc[q] = "unused" /\ pc'[q] = "embryo"
      <3>1. CASE Start(p, "load", d, None)
        BY <1>1, <3>1 DEF Start, TypeOK
      <3>2. ASSUME NEW c \in Procs, pc[c] = "unused", Start(p, "forkref", d, c)
            PROVE  /\ pc'[p] # "forkmap"
                   /\ \A q \in Procs \ {p} :
                        \/ pc'[q] = pc[q]
                        \/ pc[q] = "unused" /\ pc'[q] = "embryo"
        <4>1. c # p /\ pc' = [[pc EXCEPT ![p] = "forkref"] EXCEPT ![c] = "embryo"]
          BY <1>3, <3>2 DEF Start
        <4> QED BY <1>1, <3>2, <4>1 DEF TypeOK
      <3> QED BY <1>2, <3>1, <3>2
    <2> QED BY <1>1, <1>3, <2>1, <2>2 DEF TypeOK, Alive
  <1>6. SamePend
    BY <1>3, <1>5 DEF SamePend
  <1>7. OwnersKept
    BY <1>3, <1>4, <1>5, OwnedIs DEF OwnersKept
  <1>8. \A f \in Frames : Refs(f)' = Refs(f)
    BY <1>3, <1>6, SameRefs
  <1>9. TableFrames' = TableFrames
    BY <1>3 DEF TableFrames
  <1> QED BY <1>3, <1>4, <1>7, <1>8, <1>9, KeepSame DEF Orphans

LEMMA KeepForkDone ==
  ASSUME FullInv, KeepInv, NEW p \in Procs, ForkDone(p)
  PROVE  KeepInv'
  <1> DEFINE c == child[p]
  <1>1. /\ pc[p] = "forkref" /\ pgdir' = [pgdir EXCEPT ![c] = dir[p]]
        /\ dir' = [dir EXCEPT ![p] = None] /\ i' = [i EXCEPT ![p] = 0]
        /\ pc' = [[pc EXCEPT ![c] = "user"] EXCEPT ![p] = "user"]
        /\ UNCHANGED <<free, pageref, dirs, tbl, pa>>
    BY DEF ForkDone, Return, maps, phys
  <1>2. TypeOK /\ DirsHeld /\ ChildHeld
    BY FullParts
  <1>3. c \in Procs /\ c # p /\ pc[c] = "embryo" /\ dir[p] # None
    BY <1>1, <1>2 DEF ChildHeld, DirsHeld, Forking, Busy, TypeOK
  <1> HIDE DEF c
  <1>4. /\ pc'[p] = "user" /\ pc'[c] = "user" /\ dir'[p] = None
        /\ pgdir'[c] = dir[p]
        /\ \A q \in Procs \ {p, c} : pc'[q] = pc[q]
        /\ \A q \in Procs \ {p} : dir'[q] = dir[q] /\ i'[q] = i[q]
        /\ \A q \in Procs \ {c} : pgdir'[q] = pgdir[q]
    BY <1>1, <1>2, <1>3 DEF TypeOK
  <1>5. SamePend
    BY <1>1, <1>3, <1>4 DEF SamePend
  <1>6. \A q \in Procs : Alive(q)' => Alive(q) \/ q = c
    BY <1>1, <1>4 DEF Alive
  <1>7. OwnersKept
    BY <1>3, <1>4, <1>6, OwnedIs DEF OwnersKept
  <1> QED BY <1>1, <1>5, <1>7, KeepRest

\* exec changes directories, and sets about to free the old one or, when it
\* fails, the new one.
LEMMA KeepExecTurn ==
  ASSUME FullInv, KeepInv, NEW p \in Procs, ExecFail(p) \/ ExecCommit(p)
  PROVE  KeepInv'
  <1>1. TypeOK /\ DirsHeld
    BY FullParts
  <1>2. pc[p] = "load" /\ UNCHANGED <<free, pageref, dirs, tbl, pa>>
    BY DEF ExecFail, ExecCommit, maps, phys
  <1>3. /\ pc' = [pc EXCEPT ![p] = "free"] /\ i' = [i EXCEPT ![p] = 0]
        /\ \/ dir' = [dir EXCEPT ![p] = dir[p]] /\ pgdir' = pgdir
           \/ dir' = [dir EXCEPT ![p] = pgdir[p]]
              /\ pgdir' = [pgdir EXCEPT ![p] = dir[p]]
    BY DEF ExecFail, ExecCommit, Start, Here, procs
  <1>4. Alive(p) /\ dir[p] # None
    BY <1>1, <1>2 DEF DirsHeld, Busy, Alive
  <1>5. /\ pc'[p] = "free"
        /\ \A q \in Procs \ {p} : /\ pc'[q] = pc[q] /\ dir'[q] = dir[q]
                                  /\ i'[q] = i[q] /\ pgdir'[q] = pgdir[q]
        /\ dir'[p] \in {dir[p], pgdir[p]} /\ pgdir'[p] \in {dir[p], pgdir[p]}
    BY <1>1, <1>3 DEF TypeOK
  <1>6. SamePend
    BY <1>2, <1>5 DEF SamePend
  <1>7. \A q \in Procs : Alive(q)' => Alive(q)
    BY <1>4, <1>5 DEF Alive
  <1>8. OwnersKept
    BY <1>4, <1>5, <1>7, OwnedIs DEF OwnersKept
  <1> QED BY <1>2, <1>6, <1>8, KeepRest

LEMMA KeepExecPage ==
  ASSUME FullInv, KeepInv, NEW p \in Procs, ExecPage(p)
  PROVE  KeepInv'
  <1> DEFINE d == dir[p]
  <1> DEFINE v == i[p]
  <1>1. PICK mem \in Pick(free) :
          /\ Walk(d, v, free \ {mem})
          /\ SetPte(d, v, mem, ~(v = TextPages), ~(v = TextPages))
    BY DEF ExecPage
  <1>2. /\ pc[p] = "load" /\ v < MaxPages /\ i' = [i EXCEPT ![p] = v + 1]
        /\ UNCHANGED <<pageref, dirs, pc, pgdir, dir>>
    BY DEF ExecPage, procs
  <1>3. d \in Frames /\ Quiet(d)
    BY <1>2, DirQuiet, FullParts
  <1>4. TypeOK /\ Loaded(p)
    BY FullParts DEF FullInv, DataInv
  <1>5. v \in Pages
    BY <1>2, <1>4, ConstAssumption DEF TypeOK, Pages
  <1>6. mem \in free /\ free \ {mem} \in SUBSET Frames
    BY <1>4, PickIn DEF TypeOK
  <1>7. pa[d][v] = None
    <2>1. ~(v < v)
      BY <1>5 DEF Pages
    <2> QED BY <1>2, <1>4, <1>5, <2>1 DEF Loaded, Shaped
  <1>8. SamePend
    BY <1>2, <1>4 DEF SamePend, TypeOK
  <1>9. OwnersKept
    BY <1>2, OwnersSame DEF Alive
  <1>10. pa' = [pa EXCEPT ![d][v] = mem]
    BY <1>1 DEF SetPte
  <1> HIDE DEF d, v
  <1>11. (free \ {mem}) \cup TableFrames \subseteq free' \cup TableFrames'
    BY <1>1, <1>3, <1>4, <1>5, <1>6, WalkKeeps
  <1>12. free \cup TableFrames \subseteq free' \cup TableFrames' \cup {mem}
    BY <1>11
  <1>13. \A f \in Frames : f # pa[d][v]
    BY <1>7, FullParts
  <1> QED BY <1>2, <1>3, <1>5, <1>6, <1>8, <1>9, <1>10, <1>12, <1>13, KeepPut

LEMMA KeepExit ==
  ASSUME FullInv, KeepInv, NEW p \in Procs, Exit(p)
  PROVE  KeepInv'
  <1>1. /\ pc[p] \in {"user", "killed"} /\ pc' = [pc EXCEPT ![p] = "zombie"]
        /\ UNCHANGED <<free, pageref, dirs, tbl, pa, pgdir, dir, i>>
    BY DEF Exit, Running, phys, maps, local
  <1>2. SamePend /\ \A q \in Procs : Alive(q)' => Alive(q)
    BY <1>1, FullParts DEF SamePend, Alive, TypeOK
  <1> QED BY <1>1, <1>2, OwnersSame, KeepRest

LEMMA KeepReap ==
  ASSUME FullInv, KeepInv, NEW p \in Procs, NEW c \in Procs, Reap(p, c)
  PROVE  KeepInv'
  <1>1. TypeOK
    BY FullParts
  <1>2. /\ pc[p] = "user" /\ pc[c] = "zombie" /\ pc' = [pc EXCEPT ![p] = "free"]
        /\ dir' = [dir EXCEPT ![p] = pgdir[c]] /\ i' = [i EXCEPT ![p] = 0]
        /\ UNCHANGED <<free, pageref, dirs, tbl, pa, pgdir>>
    BY DEF Reap, Running, Start, phys, maps, procs
  <1>3. /\ pc'[p] = "free" /\ dir'[p] = pgdir[c]
        /\ \A q \in Procs \ {p} : pc'[q] = pc[q] /\ dir'[q] = dir[q] /\ i'[q] = i[q]
    BY <1>1, <1>2 DEF TypeOK
  <1>4. SamePend
    BY <1>2, <1>3 DEF SamePend
  <1>5. Alive(c) /\ \A q \in Procs : Alive(q)' => Alive(q)
    BY <1>2, <1>3 DEF Alive
  <1>6. OwnersKept
    BY <1>2, <1>3, <1>5, OwnedIs DEF OwnersKept
  <1> QED BY <1>2, <1>4, <1>6, KeepRest

LEMMA KeepFreePage ==
  ASSUME FullInv, KeepInv, NEW p \in Procs, FreePage(p)
  PROVE  KeepInv'
  <1> DEFINE d == dir[p]
  <1>1. PICK v \in Pages : pa[d][v] # None /\ Kfree({pa[d][v]}) /\ ClearPte(d, v)
    BY DEF FreePage
  <1>2. pc[p] = "free" /\ UNCHANGED <<dirs, tbl, pc, pgdir, dir, i>>
    BY DEF FreePage, procs, local
  <1>3. d \in Frames /\ Quiet(d)
    BY <1>2, DirQuiet, FullParts
  <1>4. SamePend /\ OwnersKept
    BY <1>2, PendSame, OwnersSame DEF Alive
  <1>5. Kfree({pa[d][v]} \ {None})
    <2>1. {pa[d][v]} \ {None} = {pa[d][v]}
      BY <1>1
    <2> QED BY <1>1, <2>1
  <1> HIDE DEF d
  <1> QED BY <1>1, <1>2, <1>3, <1>4, <1>5, KeepDrop

\* The directory and its page tables go back on the free list.
LEMMA KeepFreeDir ==
  ASSUME FullInv, KeepInv, NEW p \in Procs, FreeDir(p)
  PROVE  KeepInv'
  <1> DEFINE d == dir[p]
  <1> DEFINE S == {d} \cup ({tbl[d][k] : k \in Tables} \ {None})
  <1> DEFINE c == child[p]
  <1>1. /\ pc[p] = "free" /\ Kfree(S) /\ dirs' = dirs \ {d}
        /\ tbl' = [tbl EXCEPT ![d] = NoTbl]
        /\ dir' = [dir EXCEPT ![p] = None] /\ i' = [i EXCEPT ![p] = 0]
        /\ UNCHANGED <<pa, pgdir>>
    BY DEF FreeDir, Return
  <1>2. pc' = IF c = None THEN [pc EXCEPT ![p] = "user"]
              ELSE [[pc EXCEPT ![c] = "unused"] EXCEPT ![p] = "user"]
    BY DEF FreeDir, Return
  <1>3. TypeOK /\ PageInv /\ d \in dirs /\ d \in Frames /\ ChildHeld /\ DirsHeld
    BY <1>1, DirQuiet, FullParts
  <1>4. c # None => c \in Procs /\ c # p /\ pc[c] = "zombie"
    BY <1>1, <1>3 DEF ChildHeld, TypeOK, Forking
  <1>5. Alive(p) /\ d # None
    BY <1>1, <1>3 DEF Alive, DirsHeld, Busy
  <1>6. /\ \A q \in Procs : pc'[q] = "forkmap" <=> pc[q] = "forkmap"
        /\ \A q \in Procs : Alive(q)' => Alive(q)
    <2>1. CASE c = None
      <3>1. pc'[p] = "user" /\ \A q \in Procs \ {p} : pc'[q] = pc[q]
        BY <1>2, <1>3, <2>1 DEF TypeOK
      <3> QED BY <1>1, <3>1 DEF Alive
    <2>2. CASE c # None
      <3> HIDE DEF c
      <3>1. /\ pc'[p] = "user" /\ pc'[c] = "unused"
            /\ \A q \in Procs \ {p, c} : pc'[q] = pc[q]
        BY <1>2, <1>3, <1>4, <2>2 DEF TypeOK
      <3> QED BY <1>1, <1>4, <2>2, <3>1 DEF Alive
    <2> QED BY <2>1, <2>2
  <1>7. \A q \in Procs : q # p => dir'[q] = dir[q] /\ i'[q] = i[q]
    BY <1>1, <1>3 DEF TypeOK
  <1>8. SamePend
    BY <1>1, <1>6, <1>7 DEF SamePend
  <1>9. OwnersKept
    <2>1. dir'[p] = None
      BY <1>1, <1>3 DEF TypeOK
    <2> QED BY <1>1, <1>6, <1>7, <2>1, OwnedIs DEF OwnersKept
  <1>10. \A f \in Frames : Refs(f)' = Refs(f)
    BY <1>1, <1>8, SameRefs
  <1>11. S \subseteq Frames /\ S \cap Data = {}
    BY <1>3 DEF TypeOK, PageInv, RolesDisjoint, TableFrames
  <1>12. d \in S /\ \A k \in Tables : tbl[d][k] \in S \cup {None}
    OBVIOUS
  <1>13. d \in Owned
    BY <1>5, OwnedIs
  <1> HIDE DEF S, d, c
  <1>14. Accounted => \A f \in S : pageref[f] = 0
    BY <1>11 DEF Accounted, Exact, Data
  <1>15. Accounted => \A f \in Frames : pageref'[f] = pageref[f]
    BY <1>1, <1>14 DEF Kfree, AFrame
  <1>16. Accounted => S \subseteq free'
    <2>1. Zero \notin S
      BY <1>11, FullParts
    <2> QED BY <1>1, <1>14, <2>1 DEF Kfree
  <1>17. free \subseteq free'
    BY <1>1 DEF Kfree
  <1>18. TableFrames \subseteq S \cup TableFrames'
    <2> SUFFICES ASSUME NEW f \in TableFrames PROVE f \in S \cup TableFrames'
        OBVIOUS
    <2>1. PICK e \in Frames, k \in Tables : tbl[e][k] = f
      BY DEF TableFrames
    <2>2. f \in Frames /\ f # None
      BY FullParts DEF TableFrames
    <2>3. CASE e = d
      BY <1>12, <2>1, <2>2, <2>3
    <2>4. CASE e # d
      <3>1. tbl'[e][k] = f
        BY <1>1, <1>3, <2>1, <2>4 DEF TypeOK
      <3> QED BY <2>2, <3>1 DEF TableFrames
    <2> QED BY <2>3, <2>4
  <1>19. Accounted => free \cup dirs \cup TableFrames
                        \subseteq free' \cup dirs' \cup TableFrames'
    BY <1>1, <1>12, <1>16, <1>17, <1>18
  <1>20. Orphans \subseteq dirs'
    BY <1>1, <1>13 DEF Orphans
  <1> QED BY <1>9, <1>10, <1>15, <1>19, <1>20, KeepSame

-----------------------------------------------------------------------------

LEMMA KeepInit == Init => KeepInv
  <1> SUFFICES ASSUME Init PROVE Accounted
      BY DEF KeepInv
  <1>1. PICK d \in Pick(Frames) : \E f \in Pick(Frames \ {d}) :
        \E t \in Pick(Frames \ {d, f}) : InitWith(d, f, t)
    BY DEF Init
  <1>2. PICK f \in Pick(Frames \ {d}) :
          \E t \in Pick(Frames \ {d, f}) : InitWith(d, f, t)
    BY <1>1
  <1>3. PICK t \in Pick(Frames \ {d, f}) : InitWith(d, f, t)
    BY <1>2
  <1>4. d \in Frames /\ f \in Frames \ {d} /\ t \in Frames \ {d, f}
    BY PickIn
  <1>5. 0 \in Pages /\ 0 \in Tables
    BY ConstAssumption DEF Pages, Tables
  <1>6. \A p \in Procs : pc[p] # "forkmap"
    BY <1>3 DEF InitWith
  <1>7. \A e \in Frames, v \in Pages :
          pa[e][v] = IF e = d /\ v = 0 THEN f ELSE None
    BY <1>3 DEF InitWith, NoMap
  <1>8. /\ \A g \in Frames : g # f => Refs(g) = {}
        /\ Refs(f) = {<<d, 0>>}
    BY <1>4, <1>5, <1>6, <1>7, ConstAssumption DEF Refs, Pending
  <1>9. f \in Data
    BY <1>4, <1>8 DEF Data
  <1>10. t \in TableFrames
    <2>1. tbl[d][0] = t
      BY <1>3, <1>4, <1>5 DEF InitWith, NoTbl
    <2> QED BY <1>4, <1>5, <2>1 DEF TableFrames
  <1>11. Frames \subseteq InUse
    BY <1>3, <1>9, <1>10 DEF InUse, InitWith
  <1>12. \A g \in Frames : Exact(g)
    <2>1. \A g \in Frames : pageref[g] = 0
      BY <1>3 DEF InitWith, AFrame
    <2>2. Cardinality({<<d, 0>>}) = 1
      BY FS_Singleton
    <2> QED BY <1>8, <2>1, <2>2 DEF Exact
  <1> QED BY <1>11, <1>12 DEF Accounted

LEMMA KeepNext == FullInv /\ KeepInv /\ [Next]_vars => KeepInv'
  <1> SUFFICES ASSUME FullInv, KeepInv, [Next]_vars PROVE KeepInv'
      OBVIOUS
  <1>1. CASE UNCHANGED vars
    <2>1. UNCHANGED <<pc, dir, i, pgdir, free, pageref, dirs, tbl, pa>>
      BY <1>1 DEF vars, phys, maps, procs, local
    <2>2. OwnersKept
      BY <2>1, OwnersSame DEF Alive
    <2> QED BY <2>1, <2>2, PendSame, KeepRest
  <1>2. ASSUME NEW p \in Procs, Access(p) PROVE KeepInv'
    BY <1>2, KeepFaults, KeepKill DEF Access
  <1>3. ASSUME NEW p \in Procs, Grow(p) \/ Shrink(p) \/ Exit(p) PROVE KeepInv'
    BY <1>3, KeepGrow, KeepShrink, KeepExit
  <1>4. ASSUME NEW p \in Procs, Fork(p) PROVE KeepInv'
    <2>1. CASE ForkFail(p)
      BY <2>1, ForkFailOrphan, FullParts DEF KeepInv
    <2> QED BY <1>4, <2>1, KeepBegin, KeepForkRef, KeepForkMap, KeepForkDone DEF Fork
  <1>5. ASSUME NEW p \in Procs, Exec(p) PROVE KeepInv'
    BY <1>5, KeepBegin, KeepExecPage, KeepExecTurn DEF Exec
  <1>6. ASSUME NEW p \in Procs, Wait(p) PROVE KeepInv'
    BY <1>6, KeepReap, KeepFreePage, KeepFreeDir DEF Wait
  <1> QED BY <1>1, <1>2, <1>3, <1>4, <1>5, <1>6 DEF Next

\* NoLostPage, which the run cow_exec checks: as long as no fork has given up
\* half way, the counts are exact and every page is free or in use, whatever
\* the processes, pages and memory.
THEOREM NothingLost == Spec => []NoLostPage
  <1>1. Init => FullInv /\ KeepInv
    BY DataInit, KeepInit
  <1>2. (FullInv /\ KeepInv) /\ [Next]_vars => (FullInv /\ KeepInv)'
    BY FullNext, KeepNext
  <1>3. FullInv /\ KeepInv => NoLostPage
    <2> SUFFICES ASSUME FullInv, KeepInv, Orphans = {}
                 PROVE  /\ Frames = free \cup dirs \cup TableFrames \cup Data
                        /\ \A f \in Data : pageref[f] + 1 = Cardinality(Refs(f))
        BY DEF NoLostPage
    <2>1. InUse \subseteq Frames
      BY FullParts DEF InUse, TypeOK, TableFrames, Data
    <2> QED BY <2>1 DEF KeepInv, Accounted, InUse, Exact, Data
  <1> QED BY <1>1, <1>2, <1>3, PTL DEF Spec

=============================================================================
