---------------------------- MODULE InodesProofs ----------------------------
(***************************************************************************)
(* Theorems about Inodes, for any number of processes, inodes and names    *)
(* and any set of calls.                                                   *)
(***************************************************************************)
EXTENDS Inodes, FiniteSetTheorems, SequenceTheorems, WellFoundedInduction, TLAPS

\* What a call has in hand at each of its steps, and what it looked up for.
InDir == Creating \cup {"linkto", "unlink", "taken", "child", "full"}
Shape(c) ==
  /\ c.at = None <=> c.pc \in {"idle", "created", "linkbad", "unlinked"}
  /\ c.ip = None <=> c.then # "linkto" /\ c.pc \notin {"created", "child", "unlinked"}
  /\ c.pc \in InDir => c.path # <<>>
  /\ c.past => c.put # <<>>
  /\ c.pc = "child" => c.path[1] \in Names
  /\ CASE c.pc = "idle" -> c.then = "none"
       [] c.pc = "walk" -> c.then # "none"
       [] c.pc \in {"created", "found"} -> c.then \in Creating
       [] c.pc \in {"taken", "linkbad"} -> c.then = "linkto"
       [] c.pc \in {"child", "full", "unlinked"} -> c.then = "unlink"
       [] OTHER -> c.then = c.pc
Shapes == \A p \in Procs : Shape(k[p])

\* The inode a call has locked; an inode that is locked is allocated.
Locked(c) ==
  CASE c.pc \in {"created", "unlinked"} -> c.ip
    [] c.pc \in {"taken", "child", "full"} -> c.at
    [] OTHER -> None
Locks ==
  \A i \in Inums : /\ \A p \in Procs : lock[i] = p <=> Locked(k[p]) = i
                   /\ lock[i] # None => ino[i].type # "free"

\* What was found to be a directory, or a file, is one as long as a call, a
\* working directory or a descriptor has it.
InUse ==
  \A p \in Procs : /\ k[p].pc \in InDir => IsDir(k[p].at)
                   /\ k[p].then = "linkto" => ino[k[p].ip].type \notin {"free", "dir"}
                   /\ IsDir(cwd[p])
                   /\ fd[p] # None => ino[fd[p]].type # "free"

BaseInv == TypeOK /\ Shapes /\ Locks /\ RefsExact /\ InUse

\* Only directories have names in them, no two are in each other, and the
\* entry that unlink found is there until it has it removed.
OnlyDirs == \A i \in Inums : ~IsDir(i) => ino[i].entries = NoEntries
NoLoop   == \A d, e \in Inums : \A n, m \in Names :
              ~(ino[d].entries[n] = e /\ ino[e].entries[m] = d)
Unlinks  == \A p \in Procs : k[p].pc = "child" =>
              ino[k[p].at].entries[k[p].path[1]] = k[p].ip
\* Who is between the two halves of an iput of i.
Putting(i) == {p \in Procs : k[p].past /\ Head(k[p].put) = i}
Unlinked0 == \A i \in Inums :
  ino[i].type # "free" /\ ino[i].nlink = 0 /\ ref[i] = Cardinality(Putting(i)) => i \in late

TreeInv == OnlyDirs /\ NoLoop /\ Unlinks /\ Unlinked0

\* Names and counts, as long as they go together.
Counted(i) ==
  ino[i].type # "free" =>
    ino[i].nlink = Cardinality(Named(i)) + Cardinality(Pending(i))
                   + Cardinality(Subdirs(i)) + (IF i = ROOTINO THEN 1 ELSE 0)
NameInv ==
  upset \cap {"removed", "link"} = {} =>
    /\ IsDir(ROOTINO) /\ ino[ROOTINO].up = ROOTINO
    /\ \A i \in Inums :
         /\ Counted(i)
         /\ Named(i) # {} => ino[i].type # "free"
         /\ \A x \in Named(i) : IsDir(i) => ino[i].up = x[1]
         /\ IsDir(i) /\ i # ROOTINO /\ Named(i) = {} => ino[i].entries = NoEntries

\* Without upset no call has an inode in hand that is gone.
CallInv ==
  upset = {} =>
    /\ \A p \in Procs : k[p].at # None => ino[k[p].at].type # "free"
    /\ panic \in {"no", "ialloc", "iget"}

InodeInv == BaseInv /\ TreeInv /\ NameInv /\ CallInv

-----------------------------------------------------------------------------
(* Counting.                                                               *)

LEMMA Constants ==
  /\ IsFiniteSet(Procs) /\ IsFiniteSet(Names) /\ {".", ".."} \cap Names = {}
  /\ uid \in [Procs -> Nat]
  /\ IsFiniteSet(Inums) /\ Inums \subseteq Nat \ {0} /\ Inums # {}
  /\ None \notin Inums /\ None \notin Procs /\ MaxForgot \in Nat
  /\ \A kt \in Kits, p \in Procs :
       /\ kt.calls[p] \subseteq Calls
       /\ kt.paths[p] \subseteq Seq(Names \cup {".", ".."})
BY InodesAssumption

LEMMA LeastIn == \A S : S \subseteq Inums /\ S # {} => Least(S) \in S
  <1>1. SUFFICES ASSUME NEW S, S \subseteq Inums, S # {} PROVE Least(S) \in S
    OBVIOUS
  <1>2. S \subseteq Nat
    BY <1>1, Constants
  <1>3. PICK n \in S : \A m \in S : <<m, n>> \notin OpToRel(<, Nat)
    BY <1>1, <1>2, NatLessThanWellFounded, WFMin
  <1>4. ASSUME NEW m \in S PROVE n <= m
    <2>1. m \in Nat /\ n \in Nat
      BY <1>2
    <2>2. ~(m < n)
      BY <1>3, <2>1 DEF OpToRel
    <2> QED BY <2>1, <2>2
  <1> QED BY <1>4 DEF Least

LEMMA RootIn == ROOTINO \in Inums
BY LeastIn, Constants DEF ROOTINO

Is(x, i) == IF x = i THEN 1 ELSE 0

LEMMA AddIf ==
  ASSUME NEW S, IsFiniteSet(S), NEW x, x \notin S, NEW T, S \subseteq T, T \subseteq S \cup {x}
  PROVE  IsFiniteSet(T) /\ Cardinality(T) = Cardinality(S) + (IF x \in T THEN 1 ELSE 0)
  <1>0. Cardinality(S) \in Nat
    BY FS_CardinalityType
  <1>1. CASE x \in T
    <2>1. T = S \cup {x}
      BY <1>1
    <2> QED BY <2>1, <1>1, FS_AddElement
  <1>2. CASE x \notin T
    <2>1. T = S
      BY <1>2
    <2> QED BY <2>1, <1>2, <1>0
  <1> QED BY <1>1, <1>2

\* What the calls, folders and descriptors of one process refer to.
First(s)   == IF s = <<>> THEN None ELSE Head(s)
Second(s)  == IF Len(s) < 2 THEN None ELSE s[2]
Puts(s, i) == Is(First(s), i) + Is(Second(s), i)
Has(c, d, f, i) == Is(c.at, i) + Is(c.ip, i) + Is(d, i) + Is(f, i) + Puts(c.put, i)

LEMMA Iss == \A x, i : Is(x, i) \in {0, 1} /\ Is(i, i) = 1 /\ (x # i => Is(x, i) = 0)
BY DEF Is

LEMMA PutTypes == /\ \A s \in PutSeqs : s = <<>> \/ (\E i \in Inums : s = <<i>>)
                                        \/ (\E i, j \in Inums : s = <<i, j>>)
                  /\ <<>> \in PutSeqs
                  /\ \A i \in Inums : <<i>> \in PutSeqs
                  /\ \A i, j \in Inums : <<i, j>> \in PutSeqs
BY DEF PutSeqs

LEMMA PutCounts ==
  /\ \A i \in Inums : Puts(<<>>, i) = 0
  /\ \A i \in Inums : \A a : Puts(<<a>>, i) = Is(a, i)
  /\ \A i \in Inums : \A a, b : Puts(<<a, b>>, i) = Is(a, i) + Is(b, i)
  <1>1. None \notin Inums
    BY Constants
  <1>2. First(<<>>) = None /\ Second(<<>>) = None
    BY DEF First, Second
  <1>3. \A a : First(<<a>>) = a /\ Second(<<a>>) = None
    BY DEF First, Second
  <1>4. \A a, b : First(<<a, b>>) = a /\ Second(<<a, b>>) = b
    BY DEF First, Second
  <1> QED BY <1>1, <1>2, <1>3, <1>4 DEF Puts, Is

LEMMA PutFirst ==
  ASSUME NEW s \in PutSeqs, s # <<>>
  PROVE  /\ Head(s) \in Inums /\ Tail(s) \in PutSeqs
         /\ \A i \in Inums : Puts(s, i) = Is(Head(s), i) + Puts(Tail(s), i)
  <1>1. CASE \E a \in Inums : s = <<a>>
    <2>1. PICK a \in Inums : s = <<a>>
      BY <1>1
    <2>2. Head(s) = a /\ Tail(s) = <<>>
      BY <2>1
    <2> QED BY <2>1, <2>2, PutTypes, PutCounts, Iss
  <1>2. CASE \E a, b \in Inums : s = <<a, b>>
    <2>1. PICK a, b \in Inums : s = <<a, b>>
      BY <1>2
    <2>2. Head(s) = a /\ Tail(s) = <<b>>
      BY <2>1
    <2> QED BY <2>1, <2>2, PutTypes, PutCounts, Iss
  <1> QED BY <1>1, <1>2, PutTypes

\* The places of one process among all.
All(pl, i) == {x \in Procs \X Wheres : pl[x] = i}
Others(pl, i, p) == {x \in Procs \X Wheres : pl[x] = i /\ x[1] # p}

LEMMA WheresFinite == IsFiniteSet(Wheres)
  <1>1. IsFiniteSet({"at"})
    BY FS_Singleton
  <1>2. IsFiniteSet({"at"} \cup {"ip"})
    BY <1>1, FS_AddElement
  <1>3. IsFiniteSet({"at"} \cup {"ip"} \cup {"cwd"})
    BY <1>2, FS_AddElement
  <1>4. IsFiniteSet({"at"} \cup {"ip"} \cup {"cwd"} \cup {"fd"})
    BY <1>3, FS_AddElement
  <1>5. IsFiniteSet({"at"} \cup {"ip"} \cup {"cwd"} \cup {"fd"} \cup {"put"})
    BY <1>4, FS_AddElement
  <1>6. IsFiniteSet({"at"} \cup {"ip"} \cup {"cwd"} \cup {"fd"} \cup {"put"}
                    \cup {"next"})
    BY <1>5, FS_AddElement
  <1>7. Wheres = {"at"} \cup {"ip"} \cup {"cwd"} \cup {"fd"} \cup {"put"}
                    \cup {"next"}
    BY DEF Wheres
  <1> QED BY <1>6, <1>7

LEMMA Split ==
  ASSUME NEW pl, NEW p \in Procs, NEW i
  PROVE  /\ IsFiniteSet(All(pl, i)) /\ Cardinality(Others(pl, i, p)) \in Nat
         /\ Cardinality(All(pl, i)) = Cardinality(Others(pl, i, p))
              + Is(pl[<<p, "at">>], i) + Is(pl[<<p, "ip">>], i)
              + Is(pl[<<p, "cwd">>], i) + Is(pl[<<p, "fd">>], i)
              + Is(pl[<<p, "put">>], i) + Is(pl[<<p, "next">>], i)
  <1>a. PICK Z : Z = {x \in Procs \X Wheres : pl[x] = i}
    OBVIOUS
  <1>b. PICK R : R = {x \in Procs \X Wheres : pl[x] = i /\ x[1] # p}
    OBVIOUS
  <1>1. IsFiniteSet(Wheres)
    BY WheresFinite
  <1>2. IsFiniteSet(Procs \X Wheres)
    BY <1>1, Constants, FS_Product
  <1>3. IsFiniteSet(Z) /\ IsFiniteSet(R)
    <2>1. Z \in SUBSET (Procs \X Wheres) /\ R \in SUBSET (Procs \X Wheres)
      BY <1>a, <1>b
    <2> QED BY <2>1, <1>2, FS_Subset
  <1>4. PICK S1 : S1 = R \cup {y \in {<<p, "at">>} : pl[<<p, "at">>] = i}
    OBVIOUS
  <1>5. PICK S2 : S2 = S1 \cup {y \in {<<p, "ip">>} : pl[<<p, "ip">>] = i}
    OBVIOUS
  <1>6. PICK S3 : S3 = S2 \cup {y \in {<<p, "cwd">>} : pl[<<p, "cwd">>] = i}
    OBVIOUS
  <1>7. PICK S4 : S4 = S3 \cup {y \in {<<p, "fd">>} : pl[<<p, "fd">>] = i}
    OBVIOUS
  <1>8. PICK S5 : S5 = S4 \cup {y \in {<<p, "put">>} : pl[<<p, "put">>] = i}
    OBVIOUS
  <1>9. PICK S6 : S6 = S5 \cup {y \in {<<p, "next">>} : pl[<<p, "next">>] = i}
    OBVIOUS
  <1>10. \A w, v : w # v => <<p, w>> # <<p, v>>
    OBVIOUS
  <1>11. \A x \in R : x[1] # p
    BY <1>b
  <1>12. /\ <<p, "at">> \notin R /\ <<p, "ip">> \notin S1 /\ <<p, "cwd">> \notin S2
         /\ <<p, "fd">> \notin S3 /\ <<p, "put">> \notin S4 /\ <<p, "next">> \notin S5
    <2>1. \A w : <<p, w>> \notin R
      BY <1>11
    <2> QED BY <2>1, <1>4, <1>5, <1>6, <1>7, <1>8, <1>10
  <1>13. IsFiniteSet(S1) /\ Cardinality(S1) = Cardinality(R) + Is(pl[<<p, "at">>], i)
    <2>1. R \subseteq S1 /\ S1 \subseteq R \cup {<<p, "at">>}
      BY <1>4
    <2>2. <<p, "at">> \in S1 <=> pl[<<p, "at">>] = i
      BY <1>4, <1>12
    <2>3. IsFiniteSet(S1) /\ Cardinality(S1) = Cardinality(R) + (IF <<p, "at">> \in S1 THEN 1 ELSE 0)
      <3>1. <<p, "at">> \notin R /\ IsFiniteSet(R)
        BY <1>12, <1>3
      <3> QED BY <3>1, <2>1, AddIf
    <2> QED BY <2>2, <2>3 DEF Is
  <1>14. IsFiniteSet(S2) /\ Cardinality(S2) = Cardinality(S1) + Is(pl[<<p, "ip">>], i)
    <2>1. S1 \subseteq S2 /\ S2 \subseteq S1 \cup {<<p, "ip">>}
      BY <1>5
    <2>2. <<p, "ip">> \in S2 <=> pl[<<p, "ip">>] = i
      BY <1>5, <1>12
    <2>3. IsFiniteSet(S2) /\ Cardinality(S2) = Cardinality(S1) + (IF <<p, "ip">> \in S2 THEN 1 ELSE 0)
      <3>1. <<p, "ip">> \notin S1 /\ IsFiniteSet(S1)
        BY <1>12, <1>13
      <3> QED BY <3>1, <2>1, AddIf
    <2> QED BY <2>2, <2>3 DEF Is
  <1>15. IsFiniteSet(S3) /\ Cardinality(S3) = Cardinality(S2) + Is(pl[<<p, "cwd">>], i)
    <2>1. S2 \subseteq S3 /\ S3 \subseteq S2 \cup {<<p, "cwd">>}
      BY <1>6
    <2>2. <<p, "cwd">> \in S3 <=> pl[<<p, "cwd">>] = i
      BY <1>6, <1>12
    <2>3. IsFiniteSet(S3) /\ Cardinality(S3) = Cardinality(S2) + (IF <<p, "cwd">> \in S3 THEN 1 ELSE 0)
      <3>1. <<p, "cwd">> \notin S2 /\ IsFiniteSet(S2)
        BY <1>12, <1>14
      <3> QED BY <3>1, <2>1, AddIf
    <2> QED BY <2>2, <2>3 DEF Is
  <1>16. IsFiniteSet(S4) /\ Cardinality(S4) = Cardinality(S3) + Is(pl[<<p, "fd">>], i)
    <2>1. S3 \subseteq S4 /\ S4 \subseteq S3 \cup {<<p, "fd">>}
      BY <1>7
    <2>2. <<p, "fd">> \in S4 <=> pl[<<p, "fd">>] = i
      BY <1>7, <1>12
    <2>3. IsFiniteSet(S4) /\ Cardinality(S4) = Cardinality(S3) + (IF <<p, "fd">> \in S4 THEN 1 ELSE 0)
      <3>1. <<p, "fd">> \notin S3 /\ IsFiniteSet(S3)
        BY <1>12, <1>15
      <3> QED BY <3>1, <2>1, AddIf
    <2> QED BY <2>2, <2>3 DEF Is
  <1>17. IsFiniteSet(S5) /\ Cardinality(S5) = Cardinality(S4) + Is(pl[<<p, "put">>], i)
    <2>1. S4 \subseteq S5 /\ S5 \subseteq S4 \cup {<<p, "put">>}
      BY <1>8
    <2>2. <<p, "put">> \in S5 <=> pl[<<p, "put">>] = i
      BY <1>8, <1>12
    <2>3. IsFiniteSet(S5) /\ Cardinality(S5) = Cardinality(S4) + (IF <<p, "put">> \in S5 THEN 1 ELSE 0)
      <3>1. <<p, "put">> \notin S4 /\ IsFiniteSet(S4)
        BY <1>12, <1>16
      <3> QED BY <3>1, <2>1, AddIf
    <2> QED BY <2>2, <2>3 DEF Is
  <1>18. IsFiniteSet(S6) /\ Cardinality(S6) = Cardinality(S5) + Is(pl[<<p, "next">>], i)
    <2>1. S5 \subseteq S6 /\ S6 \subseteq S5 \cup {<<p, "next">>}
      BY <1>9
    <2>2. <<p, "next">> \in S6 <=> pl[<<p, "next">>] = i
      BY <1>9, <1>12
    <2>3. IsFiniteSet(S6) /\ Cardinality(S6) = Cardinality(S5) + (IF <<p, "next">> \in S6 THEN 1 ELSE 0)
      <3>1. <<p, "next">> \notin S5 /\ IsFiniteSet(S5)
        BY <1>12, <1>17
      <3> QED BY <3>1, <2>1, AddIf
    <2> QED BY <2>2, <2>3 DEF Is
  <1>19. S6 = Z
    <2>1. ASSUME NEW x \in Z PROVE x \in S6
      <3>1. x \in Procs \X Wheres /\ pl[x] = i /\ x = <<x[1], x[2]>>
        BY <1>a
      <3>2. CASE x[1] # p
        BY <3>1, <3>2, <1>b, <1>4, <1>5, <1>6, <1>7, <1>8, <1>9
      <3>3. CASE x[1] = p
        <4>1. x[2] \in {"at", "ip", "cwd", "fd", "put", "next"} /\ x = <<p, x[2]>>
          BY <3>1, <3>3 DEF Wheres
        <4> QED BY <3>1, <4>1, <1>4, <1>5, <1>6, <1>7, <1>8, <1>9
      <3> QED BY <3>2, <3>3
    <2>2. S6 \subseteq Z
      <3>1. R \subseteq Z
        BY <1>a, <1>b
      <3>2. \A w \in Wheres : <<p, w>> \in Procs \X Wheres
        OBVIOUS
      <3>3. {"at", "ip", "cwd", "fd", "put", "next"} = Wheres
        BY DEF Wheres
      <3> QED BY <3>1, <3>2, <3>3, <1>a, <1>4, <1>5, <1>6, <1>7, <1>8, <1>9
    <2> QED BY <2>1, <2>2
  <1>20. Cardinality(R) \in Nat
    BY <1>3, FS_CardinalityType
  <1>21. /\ Is(pl[<<p, "at">>], i) \in Nat /\ Is(pl[<<p, "ip">>], i) \in Nat
         /\ Is(pl[<<p, "cwd">>], i) \in Nat /\ Is(pl[<<p, "fd">>], i) \in Nat
         /\ Is(pl[<<p, "put">>], i) \in Nat /\ Is(pl[<<p, "next">>], i) \in Nat
    BY DEF Is
  <1>22. Cardinality(Z) = Cardinality(R)
              + Is(pl[<<p, "at">>], i) + Is(pl[<<p, "ip">>], i)
              + Is(pl[<<p, "cwd">>], i) + Is(pl[<<p, "fd">>], i)
              + Is(pl[<<p, "put">>], i) + Is(pl[<<p, "next">>], i)
    BY <1>13, <1>14, <1>15, <1>16, <1>17, <1>18, <1>19
  <1> QED BY <1>a, <1>b, <1>3, <1>20, <1>22 DEF All, Others

LEMMA PlacesAre ==
  ASSUME NEW p
  PROVE  /\ Place(p, "at") = k[p].at /\ Place(p, "ip") = k[p].ip
         /\ Place(p, "cwd") = cwd[p] /\ Place(p, "fd") = fd[p]
         /\ Place(p, "put") = First(k[p].put) /\ Place(p, "next") = Second(k[p].put)
BY DEF Place, First, Second

LEMMA PlacesStep ==
  ASSUME NEW p, k'[p] = k[p], cwd'[p] = cwd[p], fd'[p] = fd[p]
  PROVE  \A w : Place(p, w)' = Place(p, w)
BY DEF Place

\* A step of p changes the references of p.
LEMMA RefsStep ==
  ASSUME RefsExact, NEW p \in Procs, NEW c, NEW d, NEW f,
         k'[p] = c, cwd'[p] = d, fd'[p] = f,
         \A q \in Procs \ {p} : k'[q] = k[q] /\ cwd'[q] = cwd[q] /\ fd'[q] = fd[q],
         \A i \in Inums : forgot[i] \in Nat /\ forgot'[i] \in Nat,
         \A i \in Inums : ref'[i] = ref[i] + Has(c, d, f, i) - Has(k[p], cwd[p], fd[p], i)
                                    + forgot'[i] - forgot[i]
  PROVE  RefsExact'
  <1>1. SUFFICES ASSUME NEW i \in Inums PROVE ref'[i] = Cardinality(Places(i)') + forgot'[i]
    BY DEF RefsExact
  <1>2. PICK a : a = [x \in Procs \X Wheres |-> Place(x[1], x[2])]
    OBVIOUS
  <1>3. PICK b : b = [x \in Procs \X Wheres |-> Place(x[1], x[2])']
    OBVIOUS
  <1>4. Others(a, i, p) = Others(b, i, p)
    <2>1. ASSUME NEW x \in Procs \X Wheres, x[1] # p PROVE a[x] = b[x]
      <3>1. x[1] \in Procs \ {p}
        BY <2>1
      <3>2. Place(x[1], x[2])' = Place(x[1], x[2])
        BY <3>1, PlacesStep
      <3> QED BY <3>2, <1>2, <1>3
    <2> QED BY <2>1 DEF Others
  <1>6. Places(i) = All(a, i)
    BY <1>2 DEF Places, All
  <1>7. Places(i)' = All(b, i)
    BY <1>3 DEF Places, All
  <1>8. \A w \in {"at", "ip", "cwd", "fd", "put", "next"} : <<p, w>> \in Procs \X Wheres
    BY DEF Wheres
  <1>9. /\ a[<<p, "at">>] = k[p].at /\ a[<<p, "ip">>] = k[p].ip
        /\ a[<<p, "cwd">>] = cwd[p] /\ a[<<p, "fd">>] = fd[p]
        /\ a[<<p, "put">>] = First(k[p].put) /\ a[<<p, "next">>] = Second(k[p].put)
    BY <1>2, <1>8, PlacesAre
  <1>10. /\ Place(p, "at")' = c.at /\ Place(p, "ip")' = c.ip
         /\ Place(p, "cwd")' = d /\ Place(p, "fd")' = f
         /\ Place(p, "put")' = First(c.put) /\ Place(p, "next")' = Second(c.put)
    BY DEF Place, First, Second
  <1>11. /\ b[<<p, "at">>] = c.at /\ b[<<p, "ip">>] = c.ip
         /\ b[<<p, "cwd">>] = d /\ b[<<p, "fd">>] = f
         /\ b[<<p, "put">>] = First(c.put) /\ b[<<p, "next">>] = Second(c.put)
    BY <1>3, <1>8, <1>10
  <1>12. /\ Cardinality(Others(a, i, p)) \in Nat
         /\ Cardinality(Places(i)) = Cardinality(Others(a, i, p))
              + Is(k[p].at, i) + Is(k[p].ip, i) + Is(cwd[p], i) + Is(fd[p], i)
              + Is(First(k[p].put), i) + Is(Second(k[p].put), i)
    <2>1. /\ Cardinality(Others(a, i, p)) \in Nat
          /\ Cardinality(All(a, i)) = Cardinality(Others(a, i, p))
              + Is(a[<<p, "at">>], i) + Is(a[<<p, "ip">>], i)
              + Is(a[<<p, "cwd">>], i) + Is(a[<<p, "fd">>], i)
              + Is(a[<<p, "put">>], i) + Is(a[<<p, "next">>], i)
      BY Split
    <2> QED BY <2>1, <1>6, <1>9
  <1>13. Cardinality(Places(i)') = Cardinality(Others(a, i, p))
              + Is(c.at, i) + Is(c.ip, i) + Is(d, i) + Is(f, i)
              + Is(First(c.put), i) + Is(Second(c.put), i)
    <2>1. /\ Cardinality(Others(b, i, p)) \in Nat
          /\ Cardinality(All(b, i)) = Cardinality(Others(b, i, p))
              + Is(b[<<p, "at">>], i) + Is(b[<<p, "ip">>], i)
              + Is(b[<<p, "cwd">>], i) + Is(b[<<p, "fd">>], i)
              + Is(b[<<p, "put">>], i) + Is(b[<<p, "next">>], i)
      BY Split
    <2> QED BY <2>1, <1>4, <1>7, <1>11
  <1>14. ref[i] = Cardinality(Places(i)) + forgot[i]
    BY DEF RefsExact
  <1>15. /\ Is(c.at, i) \in Nat /\ Is(c.ip, i) \in Nat /\ Is(d, i) \in Nat /\ Is(f, i) \in Nat
         /\ Is(First(c.put), i) \in Nat /\ Is(Second(c.put), i) \in Nat
         /\ Is(k[p].at, i) \in Nat /\ Is(k[p].ip, i) \in Nat /\ Is(cwd[p], i) \in Nat
         /\ Is(fd[p], i) \in Nat /\ Is(First(k[p].put), i) \in Nat
         /\ Is(Second(k[p].put), i) \in Nat
    BY Iss
  <1>16. ref'[i] = ref[i] + Has(c, d, f, i) - Has(k[p], cwd[p], fd[p], i)
                   + forgot'[i] - forgot[i]
    OBVIOUS
  <1>17. forgot[i] \in Nat /\ forgot'[i] \in Nat
    OBVIOUS
  <1> QED BY <1>12, <1>13, <1>14, <1>15, <1>16, <1>17 DEF Has, Puts

\* An inode that is in some place has a reference, and is not freed by a call
\* that has it in another.
LEMMA Placed ==
  ASSUME TypeOK, RefsExact, NEW i \in Inums, NEW x \in Places(i)
  PROVE  ref[i] >= 1 /\ (\A y \in Places(i) : y # x => ref[i] >= 2)
  <1>1. IsFiniteSet(Places(i)) /\ Cardinality(Places(i)) \in Nat
    <2>1. x[1] \in Procs
      BY DEF Places
    <2>2. PICK a : a = [z \in Procs \X Wheres |-> Place(z[1], z[2])]
      OBVIOUS
    <2>3. Places(i) = All(a, i)
      BY <2>2 DEF Places, All
    <2>4. IsFiniteSet(Places(i))
      BY <2>1, <2>3, Split
    <2> QED BY <2>4, FS_CardinalityType
  <1>2. ref[i] = Cardinality(Places(i)) + forgot[i] /\ forgot[i] \in Nat
    BY Constants DEF RefsExact, TypeOK
  <1>3. /\ IsFiniteSet(Places(i) \ {x})
        /\ Cardinality(Places(i) \ {x}) = Cardinality(Places(i)) - 1
        /\ Cardinality(Places(i) \ {x}) \in Nat
    BY <1>1, FS_RemoveElement, FS_CardinalityType
  <1>4. ASSUME NEW y \in Places(i), y # x PROVE Cardinality(Places(i) \ {x}) > 0
    <2>1. Places(i) \ {x} # {}
      BY <1>4
    <2> QED BY <1>3, <2>1, FS_EmptySet
  <1> QED BY <1>1, <1>2, <1>3, <1>4

-----------------------------------------------------------------------------
(* What every step does to types, locks, references and uses.              *)

InodesOK ==
  /\ ino \in [Inums -> Inode]
  /\ \A i \in Inums : /\ ino[i].type = "free" => ino[i] = NoInode
                      /\ (ino[i].up # None) = IsDir(i)

\* The step of p leaves it in call c with folder d and descriptor f.
Moves(p, c, d, f) ==
  /\ c \in Call /\ Shape(c) /\ d \in Inums /\ f \in Inums \cup {None}
  /\ k' = [k EXCEPT ![p] = c] /\ cwd' = [cwd EXCEPT ![p] = d] /\ fd' = [fd EXCEPT ![p] = f]
  /\ late' \subseteq Inums /\ upset' \subseteq {"gone", "removed", "link"} /\ kit' = kit
LocksStep(p, c) ==
  /\ lock' \in [Inums -> Procs \cup {None}]
  /\ \A i \in Inums : lock'[i] = IF Locked(c) = i THEN p
                                 ELSE IF lock[i] = p THEN None ELSE lock[i]
  /\ \A i \in Inums : Locked(c) = i => lock[i] \in {None, p} /\ ino'[i].type # "free"
RefStep(p, c, d, f) ==
  /\ ref' \in [Inums -> Int] /\ forgot' \in [Inums -> 0 .. MaxForgot]
  /\ \A i \in Inums : ref'[i] = ref[i] + Has(c, d, f, i) - Has(k[p], cwd[p], fd[p], i)
                                + forgot'[i] - forgot[i]
\* What others have in use or locked stays what it is.
Kept(p) ==
  \A i \in Inums : /\ ino[i].type # "free"
                   /\ lock[i] \notin {None, p} \/ (\E x \in Places(i) : x[1] # p)
                   => ino'[i].type = ino[i].type
Own(c, d, f) ==
  /\ c.pc \in InDir => ino'[c.at].type = "dir"
  /\ c.then = "linkto" => ino'[c.ip].type \notin {"free", "dir"}
  /\ ino'[d].type = "dir" /\ (f # None => ino'[f].type # "free")

LEMMA TypeParts ==
  TypeOK <=>
    /\ InodesOK
    /\ ref \in [Inums -> Nat] /\ lock \in [Inums -> Procs \cup {None}]
    /\ \A i \in Inums : lock[i] # None =>
         k[lock[i]].pc \in {"created", "taken", "child", "full", "unlinked"}
    /\ cwd \in [Procs -> Inums] /\ fd \in [Procs -> Inums \cup {None}]
    /\ k \in [Procs -> Call] /\ kit \in Kits
    /\ forgot \in [Inums -> 0 .. MaxForgot] /\ late \subseteq Inums
    /\ upset \subseteq {"gone", "removed", "link"}
BY DEF TypeOK, InodesOK

RefInts == ref \in [Inums -> Int] /\ forgot \in [Inums -> 0 .. MaxForgot]
RefNats == ref \in [Inums -> Nat]

LEMMA RefsAreNat == RefsExact /\ RefInts => RefNats
  <1>1. SUFFICES ASSUME RefsExact, RefInts, NEW i \in Inums PROVE ref[i] \in Nat
    BY DEF RefNats, RefInts
  <1>2. PICK a : a = [z \in Procs \X Wheres |-> Place(z[1], z[2])]
    OBVIOUS
  <1>3. Places(i) = All(a, i)
    BY <1>2 DEF Places, All
  <1>4. IsFiniteSet(Places(i))
    <2>1. CASE Procs = {}
      <3>1. Places(i) = {}
        BY <2>1 DEF Places
      <3> QED BY <3>1, FS_EmptySet
    <2>2. CASE Procs # {}
      BY <2>2, <1>3, Split
    <2> QED BY <2>1, <2>2
  <1>5. Cardinality(Places(i)) \in Nat
    BY <1>4, FS_CardinalityType
  <1>6. ref[i] = Cardinality(Places(i)) + forgot[i] /\ forgot[i] \in Nat
    BY <1>1, Constants DEF RefsExact, RefInts
  <1> QED BY <1>5, <1>6

LEMMA BaseStep ==
  ASSUME BaseInv, NEW p \in Procs, NEW c, NEW d, NEW f,
         Moves(p, c, d, f), InodesOK', LocksStep(p, c), RefStep(p, c, d, f), Kept(p),
         Own(c, d, f)
  PROVE  BaseInv'
  <1>1. TypeOK /\ Shapes /\ Locks /\ RefsExact /\ InUse
    BY DEF BaseInv
  <1>2. /\ k \in [Procs -> Call] /\ cwd \in [Procs -> Inums]
        /\ fd \in [Procs -> Inums \cup {None}] /\ lock \in [Inums -> Procs \cup {None}]
        /\ ino \in [Inums -> Inode] /\ forgot \in [Inums -> 0 .. MaxForgot] /\ kit \in Kits
    BY <1>1 DEF TypeOK
  <1>3. /\ c \in Call /\ k' \in [Procs -> Call] /\ cwd' \in [Procs -> Inums]
        /\ fd' \in [Procs -> Inums \cup {None}]
        /\ k'[p] = c /\ cwd'[p] = d /\ fd'[p] = f
    BY <1>2 DEF Moves
  <1>4. \A q \in Procs \ {p} : k'[q] = k[q] /\ cwd'[q] = cwd[q] /\ fd'[q] = fd[q]
    BY <1>2 DEF Moves
  <1>5. RefsExact'
    <2>1. \A i \in Inums : forgot[i] \in Nat /\ forgot'[i] \in Nat
      BY <1>2, Constants DEF RefStep
    <2>2. \A i \in Inums : ref'[i] = ref[i] + Has(c, d, f, i) - Has(k[p], cwd[p], fd[p], i)
                                + forgot'[i] - forgot[i]
      BY DEF RefStep
    <2> QED BY <1>1, <1>3, <1>4, <2>1, <2>2, RefsStep
  <1>6. ref' \in [Inums -> Nat]
    <2>1. RefsExact' /\ RefInts' => RefNats'
      BY RefsAreNat, PTL
    <2> QED BY <1>5, <2>1 DEF RefStep, RefInts, RefNats
  <1>7. Shapes'
    <2>1. ASSUME NEW q \in Procs PROVE Shape(k'[q])
      <3>1. CASE q = p
        BY <3>1, <1>3 DEF Moves
      <3>2. CASE q # p
        BY <3>2, <1>1, <1>4 DEF Shapes
      <3> QED BY <3>1, <3>2
    <2> QED BY <2>1 DEF Shapes
  <1>8. Locks'
    <2>1. SUFFICES ASSUME NEW i \in Inums
                   PROVE  /\ \A q \in Procs : lock'[i] = q <=> Locked(k'[q]) = i
                          /\ lock'[i] # None => ino'[i].type # "free"
      BY DEF Locks, Locked
    <2>2. /\ \A q \in Procs : lock[i] = q <=> Locked(k[q]) = i
          /\ lock[i] # None => ino[i].type # "free"
      BY <1>1 DEF Locks
    <2>3. /\ lock'[i] = IF Locked(c) = i THEN p ELSE IF lock[i] = p THEN None ELSE lock[i]
          /\ Locked(c) = i => lock[i] \in {None, p} /\ ino'[i].type # "free"
      BY DEF LocksStep
    <2>4. ASSUME NEW q \in Procs PROVE lock'[i] = q <=> Locked(k'[q]) = i
      BY <2>2, <2>3, <1>3, <1>4, Constants
    <2>5. lock'[i] # None => ino'[i].type # "free"
      BY <2>2, <2>3 DEF Kept
    <2> QED BY <2>4, <2>5
  <1>9. InUse'
    <2>1. SUFFICES ASSUME NEW q \in Procs
                   PROVE  /\ k'[q].pc \in InDir => ino'[k'[q].at].type = "dir"
                          /\ k'[q].then = "linkto" => ino'[k'[q].ip].type \notin {"free", "dir"}
                          /\ ino'[cwd'[q]].type = "dir"
                          /\ fd'[q] # None => ino'[fd'[q]].type # "free"
      BY DEF InUse, IsDir
    <2>2. CASE q = p
      BY <2>2, <1>3 DEF Own
    <2>3. CASE q # p
      <3>1. k'[q] = k[q] /\ cwd'[q] = cwd[q] /\ fd'[q] = fd[q]
        BY <1>4, <2>3
      <3>2. /\ k[q].pc \in InDir => ino[k[q].at].type = "dir"
            /\ k[q].then = "linkto" => ino[k[q].ip].type \notin {"free", "dir"}
            /\ ino[cwd[q]].type = "dir"
            /\ fd[q] # None => ino[fd[q]].type # "free"
        BY <1>1 DEF InUse, IsDir
      <3>3. ASSUME NEW w \in Wheres, Place(q, w) \in Inums, ino[Place(q, w)].type # "free"
            PROVE  ino'[Place(q, w)].type = ino[Place(q, w)].type
        <4>1. <<q, w>> \in Places(Place(q, w)) /\ <<q, w>>[1] # p
          BY <2>3 DEF Places
        <4> QED BY <4>1, <3>3 DEF Kept
      <3>4. /\ "at" \in Wheres /\ "ip" \in Wheres /\ "cwd" \in Wheres /\ "fd" \in Wheres
            /\ Place(q, "at") = k[q].at /\ Place(q, "ip") = k[q].ip
            /\ Place(q, "cwd") = cwd[q] /\ Place(q, "fd") = fd[q]
        BY PlacesAre DEF Wheres
      <3>5. /\ k[q].pc \in InDir => k[q].at \in Inums
            /\ k[q].then = "linkto" => k[q].ip \in Inums
            /\ cwd[q] \in Inums /\ (fd[q] # None => fd[q] \in Inums)
        BY <1>1, <1>2 DEF Shapes, Shape, Call, InDir, Creating
      <3> QED BY <3>1, <3>2, <3>3, <3>4, <3>5
    <2> QED BY <2>2, <2>3
  <1>10. TypeOK'
    <2>1. \A i \in Inums : lock'[i] # None =>
            k'[lock'[i]].pc \in {"created", "taken", "child", "full", "unlinked"}
      <3>1. SUFFICES ASSUME NEW i \in Inums, lock'[i] # None
                     PROVE  k'[lock'[i]].pc \in {"created", "taken", "child", "full", "unlinked"}
        OBVIOUS
      <3>2. lock'[i] \in Procs
        BY <3>1 DEF LocksStep
      <3>3. Locked(k'[lock'[i]]) = i
        BY <1>8, <3>2 DEF Locks
      <3>4. Locked(k'[lock'[i]]) # None
        BY <3>3, Constants
      <3> QED BY <3>4 DEF Locked
    <2>2. lock' \in [Inums -> Procs \cup {None}] /\ forgot' \in [Inums -> 0 .. MaxForgot]
      BY DEF LocksStep, RefStep
    <2>3. /\ late' \subseteq Inums /\ upset' \subseteq {"gone", "removed", "link"}
          /\ kit' \in Kits
      BY <1>2 DEF Moves
    <2> QED BY <1>3, <1>6, <2>1, <2>2, <2>3 DEF TypeOK, InodesOK
  <1> QED BY <1>5, <1>7, <1>8, <1>9, <1>10 DEF BaseInv

LEMMA NoneIs == \A i \in Inums : Is(None, i) = 0
BY Constants DEF Is

LEMMA Hand ==
  ASSUME BaseInv, NEW p \in Procs
  PROVE  /\ TypeOK /\ Shapes /\ Locks /\ RefsExact /\ InUse /\ InodesOK
         /\ k \in [Procs -> Call] /\ k[p] \in Call /\ Shape(k[p]) /\ k[p].put \in PutSeqs
         /\ cwd \in [Procs -> Inums] /\ fd \in [Procs -> Inums \cup {None}]
         /\ lock \in [Inums -> Procs \cup {None}] /\ ino \in [Inums -> Inode]
         /\ ref \in [Inums -> Nat] /\ forgot \in [Inums -> 0 .. MaxForgot]
         /\ late \subseteq Inums /\ upset \subseteq {"gone", "removed", "link"} /\ kit \in Kits
  <1>1. TypeOK /\ Shapes /\ Locks /\ RefsExact /\ InUse
    BY DEF BaseInv
  <1>2. InodesOK /\ k \in [Procs -> Call] /\ ino \in [Inums -> Inode]
    BY <1>1 DEF TypeOK, InodesOK
  <1>3. k[p] \in Call /\ Shape(k[p])
    BY <1>1, <1>2 DEF Shapes
  <1>4. k[p].put \in PutSeqs
    BY <1>3 DEF Call
  <1>5. /\ cwd \in [Procs -> Inums] /\ fd \in [Procs -> Inums \cup {None}]
        /\ lock \in [Inums -> Procs \cup {None}]
        /\ ref \in [Inums -> Nat] /\ forgot \in [Inums -> 0 .. MaxForgot]
        /\ late \subseteq Inums /\ upset \subseteq {"gone", "removed", "link"} /\ kit \in Kits
    BY <1>1 DEF TypeOK
  <1> QED BY <1>1, <1>2, <1>3, <1>4, <1>5

\* The calls with nothing locked.
Loose == Calls \cup {"idle", "walk", "found", "linkto", "linkbad", "load"}

LEMMA LooseCalls ==
  /\ \A c : c.pc \in Loose => Locked(c) = None
  /\ \A c \in Call : c.pc \notin Loose => c.pc \in {"created", "taken", "child", "full", "unlinked"}
BY DEF Loose, Locked, Calls, Creating, Call

LEMMA SameLocks ==
  ASSUME BaseInv, NEW p \in Procs, NEW c, lock' = lock, Locked(c) = Locked(k[p]),
         \A i \in Inums : ino[i].type # "free" => ino'[i].type # "free"
  PROVE  LocksStep(p, c)
  <1>1. lock \in [Inums -> Procs \cup {None}] /\ Locks
    BY Hand
  <1>2. \A i \in Inums : /\ lock[i] = p <=> Locked(k[p]) = i
                         /\ lock[i] # None => ino[i].type # "free"
    BY <1>1 DEF Locks
  <1> QED BY <1>1, <1>2, Constants DEF LocksStep

LEMMA FreedLock ==
  ASSUME BaseInv, NEW p \in Procs, NEW c, c.pc \in Loose,
         Locked(k[p]) \in Inums, lock' = [lock EXCEPT ![Locked(k[p])] = None]
  PROVE  LocksStep(p, c)
  <1>1. lock \in [Inums -> Procs \cup {None}] /\ Locks
    BY Hand
  <1>2. \A i \in Inums : lock[i] = p <=> Locked(k[p]) = i
    BY <1>1 DEF Locks
  <1>3. Locked(c) = None
    BY LooseCalls
  <1> QED BY <1>1, <1>2, <1>3, Constants DEF LocksStep

LEMMA NewLock ==
  ASSUME BaseInv, NEW p \in Procs, NEW c, NEW j \in Inums, Locked(c) = j,
         Locked(k[p]) = None \/ (Locked(k[p]) \in Inums \ {j}),
         lock[j] = None, ino'[j].type # "free",
         \/ lock' = [lock EXCEPT ![j] = p] /\ Locked(k[p]) = None
         \/ lock' = [lock EXCEPT ![Locked(k[p])] = None, ![j] = p] /\ Locked(k[p]) # None
  PROVE  LocksStep(p, c)
  <1>1. lock \in [Inums -> Procs \cup {None}] /\ Locks
    BY Hand
  <1>2. \A i \in Inums : lock[i] = p <=> Locked(k[p]) = i
    BY <1>1 DEF Locks
  <1>3. CASE Locked(k[p]) = None
    BY <1>1, <1>2, <1>3, Constants DEF LocksStep
  <1>4. CASE Locked(k[p]) # None
    <2>1. PICK l \in Inums : l = Locked(k[p]) /\ l # j
      BY <1>4
    <2>2. lock' = [lock EXCEPT ![l] = None, ![j] = p]
      BY <1>4, <2>1
    <2> QED BY <1>1, <1>2, <2>1, <2>2, Constants DEF LocksStep
  <1> QED BY <1>3, <1>4

LEMMA SameInos == ASSUME BaseInv, NEW p \in Procs, ino' = ino PROVE InodesOK' /\ Kept(p)
BY Hand DEF InodesOK, Kept, IsDir

LEMMA SameTypes ==
  ASSUME NEW p, \A i \in Inums : ino[i].type # "free" => ino'[i].type = ino[i].type
  PROVE  Kept(p)
BY DEF Kept

LEMMA RefsEven ==
  ASSUME BaseInv, NEW p \in Procs, NEW c, NEW d, NEW f, ref' = ref, forgot' = forgot,
         \A i \in Inums : Has(c, d, f, i) = Has(k[p], cwd[p], fd[p], i),
         \A i \in Inums : Has(c, d, f, i) \in Nat
  PROVE  RefStep(p, c, d, f)
  <1>1. ref \in [Inums -> Nat] /\ forgot \in [Inums -> 0 .. MaxForgot] /\ MaxForgot \in Nat
    BY Hand, Constants
  <1> QED BY <1>1 DEF RefStep

LEMMA RefsGot ==
  ASSUME BaseInv, NEW p \in Procs, NEW c, NEW d, NEW f, NEW j \in Inums,
         ref' = [ref EXCEPT ![j] = @ + 1], forgot' = forgot,
         \A i \in Inums : Has(c, d, f, i) = Has(k[p], cwd[p], fd[p], i) + Is(j, i),
         \A i \in Inums : Has(k[p], cwd[p], fd[p], i) \in Nat
  PROVE  RefStep(p, c, d, f)
  <1>1. ref \in [Inums -> Nat] /\ forgot \in [Inums -> 0 .. MaxForgot] /\ MaxForgot \in Nat
    BY Hand, Constants
  <1>2. \A i \in Inums : ref'[i] = ref[i] + Is(j, i)
    BY <1>1 DEF Is
  <1>3. \A i \in Inums : Is(j, i) \in Nat
    BY Iss
  <1> QED BY <1>1, <1>2, <1>3 DEF RefStep

LEMMA HasNat == \A c, d, f, i : Has(c, d, f, i) \in Nat
  <1>1. \A x, i : Is(x, i) \in Nat
    BY Iss
  <1> QED BY <1>1 DEF Has, Puts

\* p returns from its call.
LEMMA IdleCall ==
  ASSUME NEW s \in PutSeqs
  PROVE  [pc |-> "idle", then |-> "none", path |-> <<>>, at |-> None, ip |-> None,
          again |-> <<>>, put |-> s, past |-> FALSE] \in Call
  <1>1. <<>> \in Seq(Names \cup {".", ".."})
    OBVIOUS
  <1> QED BY <1>1 DEF Call

Back(s) == [Idle EXCEPT !.put = s]

LEMMA ReturnIs ==
  ASSUME NEW s \in PutSeqs
  PROVE  /\ Back(s) \in Call /\ Shape(Back(s)) /\ Locked(Back(s)) = None
         /\ Back(s).pc = "idle" /\ Back(s).then = "none" /\ Back(s).at = None
         /\ Back(s).ip = None /\ Back(s).put = s /\ Back(s).past = FALSE
  <1>0. PICK c : c = Back(s)
    OBVIOUS
  <1>1. c = [pc |-> "idle", then |-> "none", path |-> <<>>, at |-> None, ip |-> None,
             again |-> <<>>, put |-> s, past |-> FALSE]
    BY <1>0 DEF Idle, Back
  <1>2. c \in Call
    BY <1>1, IdleCall
  <1>3. Shape(c)
    BY <1>1 DEF Shape, InDir, Creating
  <1>4. Locked(c) = None
    BY <1>1 DEF Locked
  <1>5. /\ c.pc = "idle" /\ c.then = "none" /\ c.at = None /\ c.ip = None /\ c.put = s
        /\ c.past = FALSE
    BY <1>1
  <1> QED BY <1>0, <1>2, <1>3, <1>4, <1>5

LEMMA ReturnHas ==
  ASSUME NEW s \in PutSeqs, NEW d, NEW f, NEW i \in Inums
  PROVE  Has(Back(s), d, f, i) = Is(d, i) + Is(f, i) + Puts(s, i)
  <1>1. Back(s).at = None /\ Back(s).ip = None /\ Back(s).put = s
    BY ReturnIs
  <1>2. Is(None, i) = 0
    BY NoneIs
  <1>3. Is(d, i) \in Nat /\ Is(f, i) \in Nat
    BY Iss
  <1>4. Is(First(s), i) \in Nat /\ Is(Second(s), i) \in Nat
    BY Iss
  <1> QED BY <1>1, <1>2, <1>3, <1>4 DEF Has, Puts

LEMMA InHand ==
  ASSUME NEW c \in Call, Shape(c)
  PROVE  /\ c.pc = "idle" => c.at = None /\ c.ip = None /\ c.then = "none"
         /\ c.pc = "walk" => c.at \in Inums
         /\ c.pc \in {"open", "link", "chdir", "chattr", "exec", "load"} =>
              c.at \in Inums /\ c.ip = None /\ c.then = c.pc
         /\ c.pc = "found" => c.at \in Inums /\ c.ip = None /\ c.then \in Creating
         /\ c.pc \in Creating \cup {"unlink"} =>
              c.at \in Inums /\ c.ip = None /\ c.then = c.pc /\ c.path # <<>>
         /\ c.pc = "linkto" =>
              c.at \in Inums /\ c.ip \in Inums /\ c.then = "linkto" /\ c.path # <<>>
         /\ c.pc = "taken" => c.at \in Inums /\ c.ip \in Inums /\ c.then = "linkto"
         /\ c.pc = "linkbad" => c.at = None /\ c.ip \in Inums /\ c.then = "linkto"
         /\ c.pc = "child" =>
              /\ c.at \in Inums /\ c.ip \in Inums /\ c.then = "unlink" /\ c.path # <<>>
              /\ c.path[1] \in Names
         /\ c.pc = "full" => c.at \in Inums /\ c.ip = None /\ c.then = "unlink"
         /\ c.pc = "created" => c.at = None /\ c.ip \in Inums /\ c.then \in Creating
         /\ c.pc = "unlinked" => c.at = None /\ c.ip \in Inums /\ c.then = "unlink"
         /\ c.put = <<>> => c.past = FALSE
  <1>1. c.at \in Inums \cup {None} /\ c.ip \in Inums \cup {None} /\ c.past \in BOOLEAN
    BY DEF Call
  <1>2. c.at = None <=> c.pc \in {"idle", "created", "linkbad", "unlinked"}
    BY DEF Shape
  <1>3. c.ip = None <=> c.then # "linkto" /\ c.pc \notin {"created", "child", "unlinked"}
    BY DEF Shape
  <1>4. c.pc \in InDir => c.path # <<>>
    BY DEF Shape
  <1>5. c.put = <<>> => c.past = FALSE
    BY <1>1 DEF Shape
  <1>6. /\ c.pc = "child" => c.path[1] \in Names
        /\ c.pc = "idle" => c.then = "none"
        /\ c.pc \in {"created", "found"} => c.then \in Creating
        /\ c.pc \in {"taken", "linkbad"} => c.then = "linkto"
        /\ c.pc \in {"child", "full", "unlinked"} => c.then = "unlink"
        /\ c.pc \notin {"idle", "walk", "created", "found", "taken", "linkbad", "child", "full",
                        "unlinked"} => c.then = c.pc
    BY DEF Shape
  <1> QED BY <1>1, <1>2, <1>3, <1>4, <1>5, <1>6 DEF InDir, Creating

LEMMA HasIs ==
  ASSUME NEW c, c.put = <<>>
  PROVE  \A d, f : \A i \in Inums : Has(c, d, f, i) = Is(c.at, i) + Is(c.ip, i) + Is(d, i) + Is(f, i)
  <1>1. \A x, i : Is(x, i) \in Nat
    BY Iss
  <1>2. \A i \in Inums : Puts(c.put, i) = 0
    BY PutCounts
  <1> QED BY <1>1, <1>2 DEF Has

\* Every inode that is allocated stays what it is.
KindsKept == InodesOK' /\ \A i \in Inums : ino[i].type # "free" => ino'[i].type = ino[i].type

LEMMA Mine ==
  ASSUME BaseInv, NEW p \in Procs
  PROVE  /\ k[p] \in Call /\ Shape(k[p]) /\ k[p].put \in PutSeqs /\ InodesOK
         /\ ino[cwd[p]].type = "dir" /\ (fd[p] # None => ino[fd[p]].type # "free")
         /\ cwd = [cwd EXCEPT ![p] = cwd[p]] /\ fd = [fd EXCEPT ![p] = fd[p]]
         /\ cwd[p] \in Inums /\ fd[p] \in Inums \cup {None}
         /\ late \subseteq Inums /\ upset \subseteq {"gone", "removed", "link"}
         /\ (ino' = ino => KindsKept)
BY Hand DEF InUse, IsDir, InodesOK, KindsKept

\* A return that leaves the references in the places they are in, or moves them.
ReturnStep(p, d, f, s) ==
  /\ d \in Inums /\ f \in Inums \cup {None} /\ s \in PutSeqs
  /\ k' = [k EXCEPT ![p] = Back(s)]
  /\ cwd' = [cwd EXCEPT ![p] = d] /\ fd' = [fd EXCEPT ![p] = f]
  /\ UNCHANGED <<ref, forgot, kit>> /\ KindsKept
  /\ late' \subseteq Inums /\ upset' \subseteq {"gone", "removed", "link"}
  /\ \/ k[p].pc \in Loose /\ lock' = lock
     \/ Locked(k[p]) \in Inums /\ lock' = [lock EXCEPT ![Locked(k[p])] = None]
  /\ \A i \in Inums : Has(k[p], cwd[p], fd[p], i) = Is(d, i) + Is(f, i) + Puts(s, i)
  /\ ino[d].type = "dir" /\ (f # None => ino[f].type # "free")

LEMMA Returns ==
  ASSUME BaseInv, NEW p \in Procs, NEW d, NEW f, NEW s, ReturnStep(p, d, f, s)
  PROVE  BaseInv'
  <1>1. /\ Back(s) \in Call /\ Shape(Back(s)) /\ Locked(Back(s)) = None
        /\ Back(s).pc = "idle" /\ Back(s).then = "none"
        /\ \A i \in Inums : Has(Back(s), d, f, i) = Is(d, i) + Is(f, i) + Puts(s, i)
    <2>1. s \in PutSeqs
      BY DEF ReturnStep
    <2>2. \A i \in Inums : Has(Back(s), d, f, i) = Is(d, i) + Is(f, i) + Puts(s, i)
      BY <2>1, ReturnHas
    <2>3. /\ Back(s) \in Call /\ Shape(Back(s)) /\ Locked(Back(s)) = None
          /\ Back(s).pc = "idle" /\ Back(s).then = "none"
      BY <2>1, ReturnIs
    <2> QED BY <2>2, <2>3
  <1>2. Moves(p, Back(s), d, f)
    BY <1>1 DEF Moves, ReturnStep
  <1>3. Own(Back(s), d, f)
    BY <1>1 DEF Own, InDir, Creating, KindsKept, ReturnStep
  <1>4. Kept(p)
    BY SameTypes DEF KindsKept, ReturnStep
  <1>5. RefStep(p, Back(s), d, f)
    <2>1. \A i \in Inums : Has(Back(s), d, f, i) = Has(k[p], cwd[p], fd[p], i)
      BY <1>1 DEF ReturnStep
    <2>2. \A i \in Inums : Has(Back(s), d, f, i) \in Nat
      BY HasNat
    <2>3. ref' = ref /\ forgot' = forgot
      BY DEF ReturnStep
    <2> QED BY <2>1, <2>2, <2>3, RefsEven
  <1>6. LocksStep(p, Back(s))
    <2>1. CASE k[p].pc \in Loose /\ lock' = lock
      <3>1. Locked(k[p]) = None
        BY <2>1, LooseCalls
      <3>2. \A i \in Inums : ino[i].type # "free" => ino'[i].type # "free"
        BY DEF KindsKept, ReturnStep
      <3> QED BY <2>1, <3>1, <3>2, <1>1, SameLocks
    <2>2. CASE Locked(k[p]) \in Inums /\ lock' = [lock EXCEPT ![Locked(k[p])] = None]
      <3>1. Back(s).pc \in Loose
        BY <1>1 DEF Loose
      <3> QED BY <2>2, <3>1, FreedLock
    <2> QED BY <2>1, <2>2 DEF ReturnStep
  <1>7. InodesOK'
    BY DEF ReturnStep, KindsKept
  <1> QED BY <1>2, <1>3, <1>4, <1>5, <1>6, <1>7, BaseStep


-----------------------------------------------------------------------------
(* The steps of a call that return from it.                                *)

OneHeld(p, i) ==
  /\ k[p].put = <<>> /\ i \in Inums
  /\ \/ k[p].at = i /\ k[p].ip = None
     \/ k[p].at = None /\ k[p].ip = i
LockGone(p) ==
  \/ k[p].pc \in Loose /\ lock' = lock
  \/ Locked(k[p]) \in Inums /\ lock' = [lock EXCEPT ![Locked(k[p])] = None]

LEMMA OneHand ==
  ASSUME BaseInv, NEW p \in Procs, NEW i, OneHeld(p, i)
  PROVE  \A j \in Inums : Has(k[p], cwd[p], fd[p], j) = Is(i, j) + Is(cwd[p], j) + Is(fd[p], j)
  <1>1. \A j \in Inums : Has(k[p], cwd[p], fd[p], j)
                         = Is(k[p].at, j) + Is(k[p].ip, j) + Is(cwd[p], j) + Is(fd[p], j)
    BY HasIs DEF OneHeld
  <1>2. CASE k[p].at = i /\ k[p].ip = None
    BY <1>1, <1>2, NoneIs, Iss
  <1>3. CASE k[p].at = None /\ k[p].ip = i
    BY <1>1, <1>3, NoneIs, Iss
  <1> QED BY <1>2, <1>3 DEF OneHeld

LEMMA OpenBase == ASSUME BaseInv, NEW p \in Procs, Open(p), kit' = kit PROVE BaseInv'
  <1>1. PICK i : i = k[p].at
    OBVIOUS
  <1>2. k[p].pc = "open" /\ k[p].put = <<>> /\ k[p].pc \in Loose
    BY DEF Open, At, Loose, Calls
  <1>3. i \in Inums /\ k[p].ip = None
    BY <1>1, <1>2, Mine, InHand
  <1>4. ino[i].type # "free"
    BY <1>1, <1>2 DEF Open, Ilock, Target
  <1>5. \A j \in Inums : Has(k[p], cwd[p], fd[p], j) = Is(i, j) + Is(cwd[p], j) + Is(fd[p], j)
    <2>1. OneHeld(p, i)
      BY <1>1, <1>2, <1>3 DEF OneHeld
    <2> QED BY <2>1, OneHand
  <1>6. KindsKept /\ UNCHANGED <<ref, forgot, late, upset, kit, lock, cwd>>
    BY Mine DEF Open, history
  <1>7. CASE fd[p] = None /\ fd' = [fd EXCEPT ![p] = i] /\ Return(p, <<>>)
    <2>1. \A j \in Inums : Has(k[p], cwd[p], fd[p], j) = Is(cwd[p], j) + Is(i, j) + Puts(<<>>, j)
      BY <1>5, <1>7, PutCounts, NoneIs, Iss
    <2>2. ReturnStep(p, cwd[p], i, <<>>)
      BY <1>2, <1>3, <1>4, <1>6, <1>7, <2>1, Mine, PutTypes DEF ReturnStep, Return, Go, Back
    <2> QED BY <2>2, Returns
  <1>8. CASE Return(p, <<i>>) /\ UNCHANGED fd
    <2>1. \A j \in Inums : Has(k[p], cwd[p], fd[p], j) = Is(cwd[p], j) + Is(fd[p], j) + Puts(<<i>>, j)
      BY <1>3, <1>5, PutCounts, Iss
    <2>2. ReturnStep(p, cwd[p], fd[p], <<i>>)
      BY <1>2, <1>3, <1>6, <1>8, <2>1, Mine, PutTypes DEF ReturnStep, Return, Go, Back
    <2> QED BY <2>2, Returns
  <1> QED BY <1>1, <1>7, <1>8 DEF Open

LEMMA CloseBase == ASSUME BaseInv, NEW p \in Procs, Close(p), kit' = kit PROVE BaseInv'
  <1>1. /\ k[p].pc = "idle" /\ k[p].put = <<>> /\ k[p].pc \in Loose /\ fd[p] # None
        /\ fd' = [fd EXCEPT ![p] = None] /\ Return(p, <<fd[p]>>)
    BY DEF Close, At, Loose
  <1>2. k[p].at = None /\ k[p].ip = None /\ fd[p] \in Inums
    BY <1>1, Mine, InHand
  <1>3. \A j \in Inums : Has(k[p], cwd[p], fd[p], j)
                         = Is(cwd[p], j) + Is(None, j) + Puts(<<fd[p]>>, j)
    BY <1>1, <1>2, HasIs, PutCounts, NoneIs, Iss
  <1>4. KindsKept /\ UNCHANGED <<ref, forgot, late, upset, kit, lock, cwd>>
    BY Mine DEF Close, history
  <1>5. ReturnStep(p, cwd[p], None, <<fd[p]>>)
    BY <1>1, <1>2, <1>3, <1>4, Mine, PutTypes DEF ReturnStep, Return, Go, Back
  <1> QED BY <1>5, Returns

\* open with O_CREATE keeps the inode, or puts it.
KeepStep(p, i) ==
  /\ Keep(p, i) /\ OneHeld(p, i) /\ ino[i].type # "free" /\ LockGone(p)
  /\ UNCHANGED <<ino, ref, cwd, forgot, late, upset, kit>>

LEMMA KeepBase ==
  ASSUME BaseInv, NEW p \in Procs, NEW i, KeepStep(p, i)
  PROVE  BaseInv'
  <1>0. /\ i \in Inums /\ ino[i].type # "free" /\ LockGone(p)
        /\ UNCHANGED <<ino, ref, cwd, forgot, late, upset, kit>>
    BY DEF KeepStep, OneHeld
  <1>1. \A j \in Inums : Has(k[p], cwd[p], fd[p], j) = Is(i, j) + Is(cwd[p], j) + Is(fd[p], j)
    BY OneHand DEF KeepStep
  <1>2. KindsKept
    BY <1>0, Mine
  <1>3. CASE fd[p] = None /\ fd' = [fd EXCEPT ![p] = i] /\ Return(p, <<>>)
    <2>1. \A j \in Inums : Has(k[p], cwd[p], fd[p], j) = Is(cwd[p], j) + Is(i, j) + Puts(<<>>, j)
      BY <1>1, <1>3, PutCounts, NoneIs, Iss
    <2>2. ReturnStep(p, cwd[p], i, <<>>)
      BY <1>2, <1>3, <2>1, <1>0, Mine, PutTypes DEF ReturnStep, Return, Go, Back, LockGone
    <2> QED BY <2>2, Returns
  <1>4. CASE Return(p, <<i>>) /\ UNCHANGED fd
    <2>1. \A j \in Inums : Has(k[p], cwd[p], fd[p], j) = Is(cwd[p], j) + Is(fd[p], j) + Puts(<<i>>, j)
      BY <1>0, <1>1, PutCounts, Iss
    <2>2. ReturnStep(p, cwd[p], fd[p], <<i>>)
      BY <1>2, <1>4, <2>1, <1>0, Mine, PutTypes DEF ReturnStep, Return, Go, Back, LockGone
    <2> QED BY <2>2, Returns
  <1> QED BY <1>3, <1>4 DEF KeepStep, Keep

\* The call puts the inode it has.
PutStep(p, i) ==
  /\ Return(p, <<i>>) /\ OneHeld(p, i) /\ LockGone(p) /\ KindsKept
  /\ UNCHANGED <<ref, cwd, fd, forgot, late, kit>> /\ upset' \subseteq {"gone", "removed", "link"}

LEMMA PutBase ==
  ASSUME BaseInv, NEW p \in Procs, NEW i, PutStep(p, i)
  PROVE  BaseInv'
  <1>0. i \in Inums
    BY DEF PutStep, OneHeld
  <1>1. \A j \in Inums : Has(k[p], cwd[p], fd[p], j) = Is(i, j) + Is(cwd[p], j) + Is(fd[p], j)
    BY OneHand DEF PutStep
  <1>2. \A j \in Inums : Has(k[p], cwd[p], fd[p], j) = Is(cwd[p], j) + Is(fd[p], j) + Puts(<<i>>, j)
    BY <1>0, <1>1, PutCounts, Iss
  <1>3. ReturnStep(p, cwd[p], fd[p], <<i>>)
    BY <1>0, <1>2, Mine, PutTypes DEF ReturnStep, Return, Go, Back, PutStep, LockGone
  <1> QED BY <1>3, Returns

LEMMA CreatedBase == ASSUME BaseInv, NEW p \in Procs, Created(p), kit' = kit PROVE BaseInv'
  <1>1. k[p].pc = "created" /\ k[p].put = <<>> /\ Keep(p, k[p].ip)
    BY DEF Created, At
  <1>2. PICK i \in Inums : i = k[p].ip /\ k[p].at = None
    BY <1>1, Mine, InHand
  <1>3. Locked(k[p]) = i
    BY <1>1, <1>2 DEF Locked
  <1>4. ino[i].type # "free"
    <2>1. Locks
      BY Hand
    <2> QED BY <1>3, <2>1, Constants DEF Locks
  <1>5. lock' = [lock EXCEPT ![Locked(k[p])] = None]
        /\ UNCHANGED <<ino, ref, cwd, forgot, late, upset, kit>>
    BY <1>2, <1>3 DEF Created, history
  <1>6. KeepStep(p, i)
    BY <1>1, <1>2, <1>3, <1>4, <1>5 DEF KeepStep, OneHeld, LockGone
  <1> QED BY <1>6, KeepBase

LEMMA CreateFoundBase == ASSUME BaseInv, NEW p \in Procs, CreateFound(p), kit' = kit PROVE BaseInv'
  <1>1. k[p].pc = "found" /\ k[p].put = <<>> /\ k[p].pc \in Loose
    BY DEF CreateFound, At, Loose
  <1>2. PICK i \in Inums : i = k[p].at /\ k[p].ip = None
    BY <1>1, Mine, InHand
  <1>3. ino[i].type # "free"
    BY <1>1, <1>2 DEF CreateFound, Ilock, Target
  <1>4. UNCHANGED <<ino, ref, cwd, lock, forgot, late, upset, kit>>
    BY DEF CreateFound, history
  <1>5. CASE Keep(p, i)
    <2>1. KeepStep(p, i)
      BY <1>1, <1>2, <1>3, <1>4, <1>5 DEF KeepStep, OneHeld, LockGone
    <2> QED BY <2>1, KeepBase
  <1>6. CASE Return(p, <<i>>) /\ UNCHANGED fd
    <2>1. PutStep(p, i)
      BY <1>1, <1>2, <1>4, <1>6, Mine DEF PutStep, OneHeld, LockGone
    <2> QED BY <2>1, PutBase
  <1> QED BY <1>2, <1>5, <1>6 DEF CreateFound

-----------------------------------------------------------------------------
(* The steps that start to walk a path.                                    *)

Walker(call, path, from, ip) ==
  [Idle EXCEPT !.pc = "walk", !.then = call, !.path = path, !.at = from, !.ip = ip,
               !.again = IF call = "exec" THEN <<from, path>> ELSE <<>>]
NamePath == Seq(Names \cup {".", ".."})

LEMMA WalkerCall ==
  ASSUME NEW call \in Calls \cup {"linkto", "load"}, NEW path \in NamePath,
         NEW from \in Inums, NEW ip \in Inums \cup {None},
         NEW again \in {<<>>} \cup (Inums \X NamePath)
  PROVE  [pc |-> "walk", then |-> call, path |-> path, at |-> from, ip |-> ip,
          again |-> again, put |-> <<>>, past |-> FALSE] \in Call
  <1>1. <<>> \in PutSeqs
    BY PutTypes
  <1> QED BY <1>1 DEF Call, NamePath

LEMMA WalkerIs ==
  ASSUME NEW call \in Calls \cup {"linkto", "load"}, NEW path \in NamePath,
         NEW from \in Inums, NEW ip \in Inums \cup {None}, ip = None <=> call # "linkto"
  PROVE  /\ Walker(call, path, from, ip) \in Call /\ Shape(Walker(call, path, from, ip))
         /\ Locked(Walker(call, path, from, ip)) = None
         /\ Walker(call, path, from, ip).pc = "walk" /\ Walker(call, path, from, ip).then = call
         /\ Walker(call, path, from, ip).at = from /\ Walker(call, path, from, ip).ip = ip
         /\ Walker(call, path, from, ip).put = <<>>
  <1>0. PICK c : c = Walker(call, path, from, ip)
    OBVIOUS
  <1>a. PICK again : again = IF call = "exec" THEN <<from, path>> ELSE <<>>
    OBVIOUS
  <1>b. again \in {<<>>} \cup (Inums \X NamePath)
    BY <1>a
  <1>1. c = [pc |-> "walk", then |-> call, path |-> path, at |-> from, ip |-> ip,
             again |-> again, put |-> <<>>, past |-> FALSE]
    BY <1>0, <1>a DEF Walker, Idle
  <1>2. c \in Call
    BY <1>1, <1>b, WalkerCall
  <1>3. Shape(c)
    <2>1. call # "none" /\ from # None
      BY Constants DEF Calls, Creating
    <2>2. /\ c.pc = "walk" /\ c.then = call /\ c.path = path /\ c.at = from /\ c.ip = ip
          /\ c.past = FALSE
      BY <1>1
    <2> QED BY <2>1, <2>2 DEF Shape, InDir, Creating
  <1>4. Locked(c) = None
    BY <1>1 DEF Locked
  <1>5. /\ c.pc = "walk" /\ c.then = call /\ c.at = from /\ c.ip = ip /\ c.put = <<>>
    BY <1>1
  <1> QED BY <1>0, <1>2, <1>3, <1>4, <1>5

StartStep(p, call, path, from, ip) ==
  /\ call \in Calls \cup {"linkto", "load"} /\ path \in NamePath
  /\ from \in Inums /\ ip \in Inums \cup {None} /\ (ip = None <=> call # "linkto")
  /\ ip # None => ino[ip].type \notin {"free", "dir"}
  /\ k' = [k EXCEPT ![p] = Walker(call, path, from, ip)]
  /\ k[p].pc \in Loose /\ KindsKept /\ UNCHANGED <<lock, cwd, fd, late, upset, kit>>
  /\ ref' = [ref EXCEPT ![from] = @ + 1] /\ forgot' \in [Inums -> 0 .. MaxForgot]
  /\ \A j \in Inums : Has(k[p], cwd[p], fd[p], j)
                      = Is(ip, j) + Is(cwd[p], j) + Is(fd[p], j) + forgot'[j] - forgot[j]

LEMMA Starts ==
  ASSUME BaseInv, NEW p \in Procs, NEW call, NEW path, NEW from, NEW ip,
         StartStep(p, call, path, from, ip)
  PROVE  BaseInv'
  <1>0. PICK c : c = Walker(call, path, from, ip)
    OBVIOUS
  <1>1. /\ call \in Calls \cup {"linkto", "load"} /\ path \in NamePath
        /\ from \in Inums /\ ip \in Inums \cup {None} /\ (ip = None <=> call # "linkto")
        /\ k' = [k EXCEPT ![p] = c]
    BY <1>0 DEF StartStep
  <1>2. /\ c \in Call /\ Shape(c) /\ Locked(c) = None /\ c.pc = "walk" /\ c.then = call
        /\ c.at = from /\ c.ip = ip /\ c.put = <<>>
    BY <1>0, <1>1, WalkerIs
  <1>3. UNCHANGED <<lock, cwd, fd, late, upset, kit>> /\ KindsKept /\ k[p].pc \in Loose
    BY DEF StartStep
  <1>4. Moves(p, c, cwd[p], fd[p])
    BY <1>1, <1>2, <1>3, Mine DEF Moves
  <1>5. InodesOK' /\ Kept(p)
    BY <1>3, SameTypes DEF KindsKept
  <1>6. LocksStep(p, c)
    <2>1. Locked(k[p]) = None
      BY <1>3, LooseCalls
    <2>2. \A i \in Inums : ino[i].type # "free" => ino'[i].type # "free"
      BY <1>3 DEF KindsKept
    <2> QED BY <1>2, <1>3, <2>1, <2>2, SameLocks
  <1>7. Own(c, cwd[p], fd[p])
    <2>1. c.pc \notin InDir
      BY <1>2 DEF InDir, Creating
    <2>2. c.then = "linkto" => ino'[c.ip].type \notin {"free", "dir"}
      BY <1>1, <1>2, <1>3 DEF StartStep, KindsKept
    <2>3. ino'[cwd[p]].type = "dir" /\ (fd[p] # None => ino'[fd[p]].type # "free")
      BY <1>3, Mine DEF KindsKept
    <2> QED BY <2>1, <2>2, <2>3 DEF Own
  <1>8. RefStep(p, c, cwd[p], fd[p])
    <2>1. \A j \in Inums : Has(c, cwd[p], fd[p], j)
                           = Is(from, j) + Is(ip, j) + Is(cwd[p], j) + Is(fd[p], j)
      BY <1>2, HasIs
    <2>2. \A j \in Inums : Has(k[p], cwd[p], fd[p], j)
                      = Is(ip, j) + Is(cwd[p], j) + Is(fd[p], j) + forgot'[j] - forgot[j]
      BY DEF StartStep
    <2>3. ref \in [Inums -> Nat] /\ forgot \in [Inums -> 0 .. MaxForgot] /\ MaxForgot \in Nat
      BY Hand, Constants
    <2>4. ref' = [ref EXCEPT ![from] = @ + 1] /\ forgot' \in [Inums -> 0 .. MaxForgot]
      BY DEF StartStep
    <2>5. \A j \in Inums : ref'[j] = ref[j] + Is(from, j)
      BY <1>1, <2>3, <2>4 DEF Is
    <2>6. ref' \in [Inums -> Int]
      <3>1. ref[from] + 1 \in Int /\ ref \in [Inums -> Int]
        BY <1>1, <2>3
      <3> QED BY <3>1, <2>4
    <2>7. ASSUME NEW j \in Inums
          PROVE  ref'[j] = ref[j] + Has(c, cwd[p], fd[p], j) - Has(k[p], cwd[p], fd[p], j)
                                + forgot'[j] - forgot[j]
      <3>1. /\ Is(from, j) \in Nat /\ Is(ip, j) \in Nat /\ Is(cwd[p], j) \in Nat
            /\ Is(fd[p], j) \in Nat
        BY Iss
      <3>2. ref[j] \in Nat /\ forgot[j] \in Int /\ forgot'[j] \in Int
        BY <2>3, <2>4
      <3> QED BY <2>1, <2>2, <2>5, <3>1, <3>2
    <2> QED BY <2>4, <2>6, <2>7 DEF RefStep
  <1> QED BY <1>4, <1>5, <1>6, <1>7, <1>8, BaseStep

LEMMA FromIn == ASSUME BaseInv, NEW p \in Procs, NEW from \in From(p) PROVE from \in Inums
BY Mine, RootIn DEF From, If

LEMMA PathIn ==
  ASSUME BaseInv, NEW p \in Procs
  PROVE  /\ \A path \in kit.paths[p] : path \in NamePath
         /\ \A call \in kit.calls[p] : call \in Calls
  <1>1. kit \in Kits
    BY Hand
  <1> QED BY <1>1, Constants DEF NamePath

LEMMA StartIs ==
  ASSUME NEW p, NEW from, NEW call, NEW path, NEW ip, Start(p, from, call, path, ip)
  PROVE  k' = [k EXCEPT ![p] = Walker(call, path, from, ip)] /\ ref' = [ref EXCEPT ![from] = @ + 1]
BY DEF Start, Go, Iget, Walker

LEMMA BeginBase == ASSUME BaseInv, NEW p \in Procs, Begin(p), kit' = kit PROVE BaseInv'
  <1>1. /\ k[p].pc = "idle" /\ k[p].put = <<>> /\ k[p].pc \in Loose
        /\ UNCHANGED <<ino, lock, cwd, fd, forgot, late, upset, kit>>
    BY DEF Begin, At, Loose, history
  <1>2. PICK call \in kit.calls[p], path \in kit.paths[p], from \in From(p) :
          Start(p, from, call, path, None)
    BY DEF Begin
  <1>3. /\ call \in Calls /\ path \in NamePath /\ from \in Inums
        /\ call # "linkto"
    BY FromIn, PathIn DEF Calls, Creating
  <1>4. \A j \in Inums : Has(k[p], cwd[p], fd[p], j)
                      = Is(None, j) + Is(cwd[p], j) + Is(fd[p], j) + forgot'[j] - forgot[j]
    <2>1. k[p].at = None /\ k[p].ip = None
      BY <1>1, Mine, InHand
    <2>2. \A j \in Inums : Has(k[p], cwd[p], fd[p], j)
                           = Is(None, j) + Is(None, j) + Is(cwd[p], j) + Is(fd[p], j)
      BY <1>1, <2>1, HasIs
    <2>3. \A j \in Inums : forgot[j] \in Int
      BY Hand, Constants
    <2> QED BY <1>1, <2>2, <2>3, NoneIs, Iss
  <1>5. KindsKept /\ forgot' \in [Inums -> 0 .. MaxForgot]
    BY <1>1, Mine, Hand
  <1>6. StartStep(p, call, path, from, None)
    BY <1>1, <1>2, <1>3, <1>4, <1>5, StartIs DEF StartStep
  <1> QED BY <1>6, Starts

LEMMA LinkBase == ASSUME BaseInv, NEW p \in Procs, Link(p), kit' = kit PROVE BaseInv'
  <1>1. k[p].pc = "link" /\ k[p].put = <<>> /\ k[p].pc \in Loose
    BY DEF Link, At, Loose, Calls
  <1>2. PICK i \in Inums : i = k[p].at /\ k[p].ip = None
    BY <1>1, Mine, InHand
  <1>3. ino[i].type # "free" /\ UNCHANGED <<lock, cwd, fd, forgot, late, upset, kit>>
    BY <1>1, <1>2 DEF Link, Ilock, Target, history
  <1>4. CASE IsDir(i)
    <2>1. Return(p, <<i>>) /\ UNCHANGED <<ino, ref>>
      BY <1>2, <1>4 DEF Link
    <2>2. PutStep(p, i)
      BY <1>1, <1>2, <1>3, <2>1, Mine DEF PutStep, OneHeld, LockGone
    <2> QED BY <2>2, PutBase
  <1>5. CASE ~IsDir(i)
    <2>1. ino' = [ino EXCEPT ![i].nlink = @ + 1]
      BY <1>2, <1>5 DEF Link
    <2>2. PICK path \in kit.paths[p], from \in From(p) : Start(p, from, "linkto", path, i)
      BY <1>2, <1>5 DEF Link
    <2>3. KindsKept
      <3>1. ino \in [Inums -> Inode]
        BY Hand
      <3>2. InodesOK
        BY Hand
      <3>3. /\ \A j \in Inums : ino'[j].type = ino[j].type /\ ino'[j].up = ino[j].up
            /\ \A j \in Inums : ino[j].type = "free" => ino'[j] = ino[j]
            /\ ino' \in [Inums -> Inode]
        BY <1>3, <2>1, <3>1 DEF Inode
      <3>4. ASSUME NEW j \in Inums
            PROVE  /\ ino'[j].type = "free" => ino'[j] = NoInode
                   /\ (ino'[j].up # None) = (ino'[j].type = "dir")
        <4>1. /\ ino[j].type = "free" => ino[j] = NoInode
              /\ (ino[j].up # None) = (ino[j].type = "dir")
          BY <3>2 DEF InodesOK, IsDir
        <4> QED BY <3>3, <4>1
      <3>5. InodesOK'
        BY <3>3, <3>4 DEF InodesOK, IsDir
      <3> QED BY <3>3, <3>5 DEF KindsKept
    <2>4. path \in NamePath /\ from \in Inums /\ i # None
      BY FromIn, PathIn, Constants
    <2>5. \A j \in Inums : Has(k[p], cwd[p], fd[p], j)
                      = Is(i, j) + Is(cwd[p], j) + Is(fd[p], j) + forgot'[j] - forgot[j]
      <3>1. \A j \in Inums : Has(k[p], cwd[p], fd[p], j) = Is(i, j) + Is(cwd[p], j) + Is(fd[p], j)
        BY <1>1, <1>2, OneHand DEF OneHeld
      <3>2. \A j \in Inums : forgot[j] \in Int
        BY Hand, Constants
      <3> QED BY <1>3, <3>1, <3>2, Iss
    <2>6. forgot' \in [Inums -> 0 .. MaxForgot] /\ ino[i].type \notin {"free", "dir"}
      BY <1>3, <1>5, Hand DEF IsDir
    <2>7. StartStep(p, "linkto", path, from, i)
      BY <1>1, <1>3, <2>2, <2>3, <2>4, <2>5, <2>6, StartIs DEF StartStep
    <2> QED BY <2>7, Starts
  <1> QED BY <1>4, <1>5

\* A call that gives up its right to the inode gives up its reference with it.
LEMMA ForgetIs ==
  ASSUME BaseInv, NEW p \in Procs, NEW i \in Inums, Forget(i)
  PROVE  /\ forgot' \in [Inums -> 0 .. MaxForgot]
         /\ \A j \in Inums : forgot'[j] = forgot[j] + Is(i, j)
  <1>1. forgot \in [Inums -> 0 .. MaxForgot] /\ MaxForgot \in Nat
    BY Hand, Constants
  <1>2. forgot' = [forgot EXCEPT ![i] = @ + 1]
    BY DEF Forget
  <1>3. \A j \in Inums : forgot'[j] = forgot[j] + Is(i, j)
    BY <1>1, <1>2 DEF Is
  <1>4. forgot[i] < MaxForgot
    <2>1. IsFiniteSet({j \in Inums : forgot[j] > 0})
      <3>1. {j \in Inums : forgot[j] > 0} \in SUBSET Inums
        OBVIOUS
      <3> QED BY <3>1, Constants, FS_Subset
    <2>2. Cardinality({j \in Inums : forgot[j] > 0}) \in Nat
      BY <2>1, FS_CardinalityType
    <2>3. Cardinality({j \in Inums : forgot[j] > 0}) + forgot[i] < MaxForgot
      BY DEF Forget
    <2>4. forgot[i] \in Nat
      BY <1>1
    <2> QED BY <1>1, <2>2, <2>3, <2>4
  <1>5. forgot[i] + 1 \in 0 .. MaxForgot
    BY <1>1, <1>4
  <1> QED BY <1>1, <1>2, <1>3, <1>5

LEMMA ForgetReturns ==
  ASSUME BaseInv, NEW p \in Procs, NEW i, OneHeld(p, i), Return(p, <<>>), Forget(i),
         k[p].pc \in Loose, UNCHANGED <<ino, ref, lock, cwd, fd, late, upset, kit>>
  PROVE  BaseInv'
  <1>0. i \in Inums
    BY DEF OneHeld
  <1>1. /\ Back(<<>>) \in Call /\ Shape(Back(<<>>)) /\ Locked(Back(<<>>)) = None
        /\ Back(<<>>).pc = "idle" /\ Back(<<>>).then = "none"
    BY PutTypes, ReturnIs
  <1>2. k' = [k EXCEPT ![p] = Back(<<>>)]
    BY DEF Return, Go, Back
  <1>3. Moves(p, Back(<<>>), cwd[p], fd[p])
    BY <1>1, <1>2, Mine DEF Moves
  <1>4. InodesOK' /\ Kept(p)
    BY SameInos
  <1>5. Own(Back(<<>>), cwd[p], fd[p])
    BY <1>1, Mine DEF Own, InDir, Creating
  <1>6. LocksStep(p, Back(<<>>))
    <2>1. Locked(k[p]) = None /\ \A j \in Inums : ino[j].type # "free" => ino'[j].type # "free"
      BY LooseCalls
    <2> QED BY <1>1, <2>1, SameLocks
  <1>7. RefStep(p, Back(<<>>), cwd[p], fd[p])
    <2>1. \A j \in Inums : Has(Back(<<>>), cwd[p], fd[p], j) = Is(cwd[p], j) + Is(fd[p], j) + Puts(<<>>, j)
      BY PutTypes, ReturnHas
    <2>2. \A j \in Inums : Puts(<<>>, j) = 0
      BY PutCounts
    <2>3. \A j \in Inums : Has(k[p], cwd[p], fd[p], j) = Is(i, j) + Is(cwd[p], j) + Is(fd[p], j)
      BY OneHand
    <2>4. /\ forgot' \in [Inums -> 0 .. MaxForgot]
          /\ \A j \in Inums : forgot'[j] = forgot[j] + Is(i, j)
      BY <1>0, ForgetIs
    <2>5. /\ forgot \in [Inums -> 0 .. MaxForgot] /\ MaxForgot \in Nat
          /\ ref \in [Inums -> Nat]
      BY Hand, Constants
    <2>6. ASSUME NEW j \in Inums
          PROVE  ref'[j] = ref[j] + Has(Back(<<>>), cwd[p], fd[p], j)
                           - Has(k[p], cwd[p], fd[p], j) + forgot'[j] - forgot[j]
      <3>1. Is(i, j) \in Nat /\ Is(cwd[p], j) \in Nat /\ Is(fd[p], j) \in Nat
        BY Iss
      <3>2. ref'[j] = ref[j] /\ ref[j] \in Nat /\ forgot[j] \in Int
        BY <2>5
      <3>3. Has(Back(<<>>), cwd[p], fd[p], j) = Is(cwd[p], j) + Is(fd[p], j)
        BY <2>1, <2>2, <3>1
      <3>4. Has(k[p], cwd[p], fd[p], j) = Is(i, j) + Is(cwd[p], j) + Is(fd[p], j)
        BY <2>3
      <3>5. forgot'[j] = forgot[j] + Is(i, j)
        BY <2>4
      <3> QED BY <3>1, <3>2, <3>3, <3>4, <3>5
    <2> QED BY <2>4, <2>5, <2>6 DEF RefStep
  <1> QED BY <1>3, <1>4, <1>5, <1>6, <1>7, BaseStep

LEMMA ExecBase == ASSUME BaseInv, NEW p \in Procs, Exec(p), kit' = kit PROVE BaseInv'
  <1>1. k[p].pc = "exec" /\ k[p].put = <<>> /\ k[p].pc \in Loose
    BY DEF Exec, At, Loose, Calls
  <1>2. PICK i \in Inums : i = k[p].at /\ k[p].ip = None
    BY <1>1, Mine, InHand
  <1>3. UNCHANGED <<ino, lock, cwd, fd, late, upset, kit>> /\ Forget(i) /\ OneHeld(p, i)
    BY <1>1, <1>2 DEF Exec, OneHeld
  <1>4. CASE ValidRead(p, i)
    <2>1. PICK path \in kit.paths[p], from \in From(p) : Start(p, from, "load", path, None)
      BY <1>2, <1>4 DEF Exec
    <2>2. path \in NamePath /\ from \in Inums
      BY FromIn, PathIn
    <2>3. /\ forgot' \in [Inums -> 0 .. MaxForgot]
          /\ \A j \in Inums : forgot'[j] = forgot[j] + Is(i, j)
      BY <1>3, ForgetIs
    <2>4. \A j \in Inums : Has(k[p], cwd[p], fd[p], j)
                      = Is(None, j) + Is(cwd[p], j) + Is(fd[p], j) + forgot'[j] - forgot[j]
      <3>1. \A j \in Inums : Has(k[p], cwd[p], fd[p], j) = Is(i, j) + Is(cwd[p], j) + Is(fd[p], j)
        BY <1>3, OneHand
      <3>2. \A j \in Inums : forgot[j] \in Int
        BY Hand, Constants
      <3> QED BY <2>3, <3>1, <3>2, NoneIs, Iss
    <2>5. KindsKept
      BY <1>3, Mine
    <2>6. StartStep(p, "load", path, from, None)
      BY <1>1, <1>3, <2>1, <2>2, <2>3, <2>4, <2>5, StartIs DEF StartStep
    <2> QED BY <2>6, Starts
  <1>5. CASE ~ValidRead(p, i)
    <2>1. Return(p, <<>>) /\ UNCHANGED ref
      BY <1>2, <1>5 DEF Exec
    <2> QED BY <1>1, <1>3, <2>1, ForgetReturns
  <1> QED BY <1>4, <1>5

-----------------------------------------------------------------------------
(* The other steps that return, or that keep the call going.               *)

\* An inode changes, but not what it is.
InoSet(i, v) ==
  /\ i \in Inums /\ ino[i].type # "free" /\ v \in Inode
  /\ v.type = ino[i].type /\ v.up = ino[i].up /\ ino' = [ino EXCEPT ![i] = v]

LEMMA InoSets ==
  ASSUME BaseInv, NEW p \in Procs, NEW i, NEW v, InoSet(i, v)
  PROVE  KindsKept
  <1>1. ino \in [Inums -> Inode]
    BY Hand
  <1>2. InodesOK
    BY Hand
  <1>3. /\ \A j \in Inums : ino'[j].type = ino[j].type /\ ino'[j].up = ino[j].up
        /\ \A j \in Inums : ino[j].type = "free" => ino'[j] = ino[j]
        /\ ino' \in [Inums -> Inode]
    BY <1>1 DEF InoSet
  <1>4. ASSUME NEW j \in Inums
        PROVE  /\ ino'[j].type = "free" => ino'[j] = NoInode
               /\ (ino'[j].up # None) = (ino'[j].type = "dir")
    <2>1. /\ ino[j].type = "free" => ino[j] = NoInode
          /\ (ino[j].up # None) = (ino[j].type = "dir")
      BY <1>2 DEF InodesOK, IsDir
    <2> QED BY <1>3, <2>1
  <1>5. InodesOK'
    BY <1>3, <1>4 DEF InodesOK, IsDir
  <1> QED BY <1>3, <1>5 DEF KindsKept

LEMMA Alloc ==
  ASSUME BaseInv, NEW p \in Procs
  PROVE  \A i \in Inums : /\ lock[i] # None => ino[i].type # "free"
                          /\ lock[i] = p <=> Locked(k[p]) = i
BY Hand DEF Locks

LEMMA LoadBase == ASSUME BaseInv, NEW p \in Procs, Load(p), kit' = kit PROVE BaseInv'
  <1>1. k[p].pc = "load" /\ k[p].put = <<>> /\ k[p].pc \in Loose
    BY DEF Load, At, Loose
  <1>2. PICK i \in Inums : i = k[p].at /\ k[p].ip = None
    BY <1>1, Mine, InHand
  <1>3. Return(p, <<i>>) /\ UNCHANGED <<ino, ref, lock, cwd, fd, forgot, late, upset>>
    BY <1>2 DEF Load, state, history
  <1>4. PutStep(p, i)
    BY <1>1, <1>2, <1>3, Mine DEF PutStep, OneHeld, LockGone
  <1> QED BY <1>4, PutBase

LEMMA ChdirBase == ASSUME BaseInv, NEW p \in Procs, Chdir(p), kit' = kit PROVE BaseInv'
  <1>1. k[p].pc = "chdir" /\ k[p].put = <<>> /\ k[p].pc \in Loose
    BY DEF Chdir, At, Loose, Calls
  <1>2. PICK i \in Inums : i = k[p].at /\ k[p].ip = None
    BY <1>1, Mine, InHand
  <1>3. UNCHANGED <<ino, ref, lock, fd, forgot, late, upset, kit>> /\ KindsKept
    BY Mine DEF Chdir, history
  <1>4. CASE Return(p, <<i>>) /\ UNCHANGED cwd
    <2>1. PutStep(p, i)
      BY <1>1, <1>2, <1>3, <1>4, Mine DEF PutStep, OneHeld, LockGone
    <2> QED BY <2>1, PutBase
  <1>5. CASE IsDir(i) /\ Return(p, <<cwd[p]>>) /\ cwd' = [cwd EXCEPT ![p] = i]
    <2>1. \A j \in Inums : Has(k[p], cwd[p], fd[p], j) = Is(i, j) + Is(cwd[p], j) + Is(fd[p], j)
      BY <1>1, <1>2, OneHand DEF OneHeld
    <2>2. cwd[p] \in Inums
      BY Mine
    <2>3. \A j \in Inums : Has(k[p], cwd[p], fd[p], j) = Is(i, j) + Is(fd[p], j) + Puts(<<cwd[p]>>, j)
      BY <2>1, <2>2, PutCounts, Iss
    <2>4. ReturnStep(p, i, fd[p], <<cwd[p]>>)
      BY <1>1, <1>3, <1>5, <2>2, <2>3, Mine, PutTypes DEF ReturnStep, Return, Go, Back, IsDir
    <2> QED BY <2>4, Returns
  <1> QED BY <1>2, <1>4, <1>5 DEF Chdir

LEMMA ChattrBase == ASSUME BaseInv, NEW p \in Procs, Chattr(p), kit' = kit PROVE BaseInv'
  <1>1. k[p].pc = "chattr" /\ k[p].put = <<>> /\ k[p].pc \in Loose
    BY DEF Chattr, At, Loose, Calls
  <1>2. PICK i \in Inums : i = k[p].at /\ k[p].ip = None
    BY <1>1, Mine, InHand
  <1>3. UNCHANGED <<ref, lock, cwd, fd, late, upset, kit>> /\ OneHeld(p, i)
        /\ ino[i].type # "free"
    BY <1>1, <1>2 DEF Chattr, OneHeld, Ilock, Target
  <1>4. CASE ValidOwner(p, i)
    <2>1. ino[i] \in Inode /\ \A q \in Procs : uid[q] \in Nat
      BY <1>3, Hand, Constants
    <2>2. Return(p, <<i>>) /\ UNCHANGED forgot
      BY <1>2, <1>4 DEF Chattr
    <2>3. PICK v : InoSet(i, v)
      <3>1. CASE \E perms \in SUBSET {"r", "w"} : ino' = [ino EXCEPT ![i].perms = perms]
        <4>1. PICK perms \in SUBSET {"r", "w"} : ino' = [ino EXCEPT ![i].perms = perms]
          BY <3>1
        <4>2. PICK v : v = [ino[i] EXCEPT !.perms = perms]
          OBVIOUS
        <4>3. ino' = [ino EXCEPT ![i] = v]
          BY <4>1, <4>2
        <4>4. v \in Inode /\ v.type = ino[i].type /\ v.up = ino[i].up
          BY <2>1, <4>2 DEF Inode
        <4> QED BY <1>3, <4>3, <4>4 DEF InoSet
      <3>2. CASE \E q \in Procs : ino' = [ino EXCEPT ![i].owner = uid[q]]
        <4>1. PICK q \in Procs : ino' = [ino EXCEPT ![i].owner = uid[q]]
          BY <3>2
        <4>2. PICK v : v = [ino[i] EXCEPT !.owner = uid[q]]
          OBVIOUS
        <4>3. ino' = [ino EXCEPT ![i] = v]
          BY <4>1, <4>2
        <4>4. v \in Inode /\ v.type = ino[i].type /\ v.up = ino[i].up
          BY <2>1, <4>2 DEF Inode
        <4> QED BY <1>3, <4>3, <4>4 DEF InoSet
      <3> QED BY <1>2, <1>4, <3>1, <3>2 DEF Chattr
    <2>4. KindsKept
      BY <2>3, InoSets
    <2>5. PutStep(p, i)
      BY <1>1, <1>3, <2>2, <2>4, Mine DEF PutStep, LockGone
    <2> QED BY <2>5, PutBase
  <1>5. CASE ~ValidOwner(p, i)
    <2>1. Forget(i) /\ Return(p, <<>>) /\ UNCHANGED ino
      BY <1>2, <1>5 DEF Chattr
    <2> QED BY <1>1, <1>3, <2>1, ForgetReturns
  <1> QED BY <1>4, <1>5

LEMMA UnlinkFullBase == ASSUME BaseInv, NEW p \in Procs, UnlinkFull(p), kit' = kit PROVE BaseInv'
  <1>1. k[p].pc = "full" /\ k[p].put = <<>>
    BY DEF UnlinkFull, At
  <1>2. PICK i \in Inums : i = k[p].at /\ k[p].ip = None
    BY <1>1, Mine, InHand
  <1>3. Locked(k[p]) = i
    BY <1>1, <1>2 DEF Locked
  <1>4. /\ lock' = [lock EXCEPT ![Locked(k[p])] = None] /\ Return(p, <<i>>)
        /\ UNCHANGED <<ino, ref, cwd, fd, forgot, late, upset>>
    BY <1>2, <1>3 DEF UnlinkFull, history
  <1>5. PutStep(p, i)
    BY <1>1, <1>2, <1>3, <1>4, Mine DEF PutStep, OneHeld, LockGone
  <1> QED BY <1>5, PutBase

LEMMA NlinkSet ==
  ASSUME BaseInv, NEW p \in Procs, NEW i \in Inums, ino[i].type # "free",
         ino' = [ino EXCEPT ![i].nlink = @ - 1]
  PROVE  KindsKept
  <1>1. ino[i] \in Inode
    BY Hand
  <1>2. PICK v : v = [ino[i] EXCEPT !.nlink = @ - 1]
    OBVIOUS
  <1>3. ino' = [ino EXCEPT ![i] = v]
    BY <1>2
  <1>4. v \in Inode /\ v.type = ino[i].type /\ v.up = ino[i].up
    BY <1>1, <1>2 DEF Inode
  <1>5. InoSet(i, v)
    BY <1>3, <1>4 DEF InoSet
  <1> QED BY <1>5, InoSets

LEMMA UnlinkedBase == ASSUME BaseInv, NEW p \in Procs, Unlinked(p), kit' = kit PROVE BaseInv'
  <1>1. k[p].pc = "unlinked" /\ k[p].put = <<>>
    BY DEF Unlinked, At
  <1>2. PICK i \in Inums : i = k[p].ip /\ k[p].at = None
    BY <1>1, Mine, InHand
  <1>3. Locked(k[p]) = i
    BY <1>1, <1>2 DEF Locked
  <1>4. /\ lock' = [lock EXCEPT ![Locked(k[p])] = None] /\ Return(p, <<i>>)
        /\ ino' = [ino EXCEPT ![i].nlink = @ - 1]
        /\ UNCHANGED <<ref, cwd, fd, forgot, late, upset>>
    BY <1>2, <1>3 DEF Unlinked, history
  <1>5. ino[i].type # "free"
    BY <1>3, Alloc, Constants
  <1>6. KindsKept
    BY <1>4, <1>5, NlinkSet
  <1>7. PutStep(p, i)
    BY <1>1, <1>2, <1>3, <1>4, <1>6, Mine DEF PutStep, OneHeld, LockGone
  <1> QED BY <1>7, PutBase

LEMMA LinkBadBase == ASSUME BaseInv, NEW p \in Procs, LinkBad(p), kit' = kit PROVE BaseInv'
  <1>1. k[p].pc = "linkbad" /\ k[p].put = <<>> /\ k[p].pc \in Loose
    BY DEF LinkBad, At, Loose
  <1>2. PICK i \in Inums : i = k[p].ip /\ k[p].at = None
    BY <1>1, Mine, InHand
  <1>3. /\ Return(p, <<i>>) /\ ino' = [ino EXCEPT ![i].nlink = @ - 1]
        /\ UNCHANGED <<ref, lock, cwd, fd, forgot, late, upset>>
    BY <1>2 DEF LinkBad, history
  <1>4. ino[i].type # "free"
    BY <1>1, <1>2 DEF LinkBad, Ilock, Target
  <1>5. KindsKept
    BY <1>3, <1>4, NlinkSet
  <1>6. PutStep(p, i)
    BY <1>1, <1>2, <1>3, <1>5, Mine DEF PutStep, OneHeld, LockGone
  <1> QED BY <1>6, PutBase

\* A step after which p is in call c.
GoStep(p, c) ==
  /\ c \in Call /\ Shape(c) /\ k' = [k EXCEPT ![p] = c]
  /\ UNCHANGED <<cwd, fd, forgot, late, kit>> /\ upset' \subseteq {"gone", "removed", "link"}
  /\ KindsKept /\ LocksStep(p, c) /\ RefStep(p, c, cwd[p], fd[p])
  /\ c.pc \in InDir => ino[c.at].type = "dir"
  /\ c.then = "linkto" => ino[c.ip].type \notin {"free", "dir"}

LEMMA GoesOn ==
  ASSUME BaseInv, NEW p \in Procs, NEW c, GoStep(p, c)
  PROVE  BaseInv'
  <1>1. Moves(p, c, cwd[p], fd[p])
    BY Mine DEF Moves, GoStep
  <1>2. InodesOK' /\ Kept(p)
    BY SameTypes DEF GoStep, KindsKept
  <1>3. Own(c, cwd[p], fd[p])
    <2>1. KindsKept
      BY DEF GoStep
    <2>2. c.pc \in InDir => ino[c.at].type = "dir"
      BY DEF GoStep
    <2>3. c.then = "linkto" => ino[c.ip].type \notin {"free", "dir"}
      BY DEF GoStep
    <2>4. c \in Call /\ Shape(c)
      BY DEF GoStep
    <2>5. (c.pc \in InDir => c.at \in Inums) /\ (c.then = "linkto" => c.ip \in Inums)
      BY <2>4 DEF Shape, Call, InDir, Creating
    <2>6. c.pc \in InDir => ino'[c.at].type = "dir"
      BY <2>1, <2>2, <2>5 DEF KindsKept
    <2>7. c.then = "linkto" => ino'[c.ip].type \notin {"free", "dir"}
      BY <2>1, <2>3, <2>5 DEF KindsKept
    <2>8. ino'[cwd[p]].type = "dir" /\ (fd[p] # None => ino'[fd[p]].type # "free")
      BY <2>1, Mine DEF KindsKept
    <2> QED BY <2>6, <2>7, <2>8 DEF Own
  <1>4. LocksStep(p, c) /\ RefStep(p, c, cwd[p], fd[p])
    BY DEF GoStep
  <1> QED BY <1>1, <1>2, <1>3, <1>4, BaseStep

-----------------------------------------------------------------------------
(* The steps after which the call goes on.                                 *)

\* What there is to know of the call p goes on in.
Next1(p, c, pc, at, ip, s) ==
  /\ c \in Call /\ k' = [k EXCEPT ![p] = c]
  /\ c.pc = pc /\ c.then = k[p].then /\ c.at = at /\ c.ip = ip /\ c.put = s
  /\ c.past = k[p].past
Pcs == Calls \cup {"idle", "walk", "created", "found", "linkto", "taken", "linkbad",
                   "child", "full", "unlinked", "load"}

NextStep(p, c, pc, at, ip, s) ==
  /\ pc \in Pcs /\ at \in Inums \cup {None} /\ ip \in Inums \cup {None} /\ s \in PutSeqs
  /\ k' = [k EXCEPT ![p] = c]
  /\ \/ c = [k[p] EXCEPT !.pc = pc] /\ at = k[p].at /\ ip = k[p].ip /\ s = k[p].put
     \/ c = [k[p] EXCEPT !.pc = pc, !.put = s] /\ at = k[p].at /\ ip = k[p].ip
     \/ c = [k[p] EXCEPT !.pc = pc, !.ip = ip] /\ at = k[p].at /\ s = k[p].put
     \/ c = [k[p] EXCEPT !.pc = pc, !.at = at, !.put = s] /\ ip = k[p].ip
     \/ c = [k[p] EXCEPT !.pc = pc, !.ip = ip, !.put = s] /\ at = k[p].at
     \/ c = [k[p] EXCEPT !.pc = pc, !.at = at, !.ip = ip, !.put = s]

LEMMA NextCall ==
  ASSUME BaseInv, NEW p \in Procs, NEW c, NEW pc, NEW at, NEW ip, NEW s,
         NextStep(p, c, pc, at, ip, s)
  PROVE  Next1(p, c, pc, at, ip, s) /\ c.path = k[p].path
  <1>1. k[p] \in Call
    BY Mine
  <1>2. c.path = k[p].path /\ c.then = k[p].then /\ c.past = k[p].past
    BY <1>1 DEF Call, NextStep
  <1>3. c.pc = pc /\ c.at = at /\ c.ip = ip /\ c.put = s
    BY <1>1 DEF Call, NextStep
  <1>4. c \in Call
    <2>0. pc \in Pcs /\ at \in Inums \cup {None} /\ ip \in Inums \cup {None} /\ s \in PutSeqs
      BY DEF NextStep
    <2>1. CASE c = [k[p] EXCEPT !.pc = pc]
      BY <1>1, <2>0, <2>1 DEF Call, Pcs
    <2>2. CASE c = [k[p] EXCEPT !.pc = pc, !.put = s]
      BY <1>1, <2>0, <2>2 DEF Call, Pcs
    <2>3. CASE c = [k[p] EXCEPT !.pc = pc, !.ip = ip]
      BY <1>1, <2>0, <2>3 DEF Call, Pcs
    <2>4. CASE c = [k[p] EXCEPT !.pc = pc, !.at = at, !.put = s]
      BY <1>1, <2>0, <2>4 DEF Call, Pcs
    <2>5. CASE c = [k[p] EXCEPT !.pc = pc, !.ip = ip, !.put = s]
      BY <1>1, <2>0, <2>5 DEF Call, Pcs
    <2>6. CASE c = [k[p] EXCEPT !.pc = pc, !.at = at, !.ip = ip, !.put = s]
      BY <1>1, <2>0, <2>6 DEF Call, Pcs
    <2> QED BY <2>1, <2>2, <2>3, <2>4, <2>5, <2>6 DEF NextStep
  <1>5. k' = [k EXCEPT ![p] = c]
    BY DEF NextStep
  <1> QED BY <1>2, <1>3, <1>4, <1>5 DEF Next1

NextWalkStep(p, c, pc, at, s) ==
  /\ pc \in Pcs /\ at \in Inums /\ s \in PutSeqs /\ k' = [k EXCEPT ![p] = c] /\ k[p].path # <<>>
  /\ c = [k[p] EXCEPT !.pc = pc, !.at = at, !.path = Tail(@), !.put = s]

LEMMA NextWalk ==
  ASSUME BaseInv, NEW p \in Procs, NEW c, NEW pc, NEW at, NEW s, NextWalkStep(p, c, pc, at, s)
  PROVE  Next1(p, c, pc, at, k[p].ip, s) /\ c.path = Tail(k[p].path)
  <1>1. k[p] \in Call
    BY Mine
  <1>2. k[p].path \in Seq(Names \cup {".", ".."})
    BY <1>1 DEF Call
  <1>3. Tail(k[p].path) \in Seq(Names \cup {".", ".."})
    BY <1>2 DEF NextWalkStep
  <1>4. c \in Call /\ c.path = Tail(k[p].path) /\ c.then = k[p].then /\ c.past = k[p].past
    BY <1>1, <1>3 DEF Call, Pcs, NextWalkStep
  <1>5. c.pc = pc /\ c.at = at /\ c.ip = k[p].ip /\ c.put = s
    BY <1>1 DEF Call, NextWalkStep
  <1> QED BY <1>4, <1>5 DEF Next1, NextWalkStep

\* The references of a call that has put s to do.
LEMMA HasAll ==
  ASSUME NEW c, NEW s, c.put = s
  PROVE  \A d, f : \A i \in Inums :
           Has(c, d, f, i) = Is(c.at, i) + Is(c.ip, i) + Is(d, i) + Is(f, i) + Puts(s, i)
BY DEF Has

LEMMA PutsNat == \A s, i : Puts(s, i) \in Nat
  <1>1. \A x, i : Is(x, i) \in Nat
    BY Iss
  <1> QED BY <1>1 DEF Puts

\* p gives up what it has locked, or has nothing locked before and after.
LEMMA LockLeft ==
  ASSUME BaseInv, NEW p \in Procs, NEW c, KindsKept, c.pc \in Loose, LockGone(p)
  PROVE  LocksStep(p, c)
  <1>1. CASE k[p].pc \in Loose /\ lock' = lock
    <2>1. Locked(k[p]) = None /\ Locked(c) = None
      BY <1>1, LooseCalls
    <2>2. \A i \in Inums : ino[i].type # "free" => ino'[i].type # "free"
      BY DEF KindsKept
    <2> QED BY <1>1, <2>1, <2>2, SameLocks
  <1>2. CASE Locked(k[p]) \in Inums /\ lock' = [lock EXCEPT ![Locked(k[p])] = None]
    BY <1>2, FreedLock
  <1> QED BY <1>1, <1>2 DEF LockGone

\* link gives the count back later.
RefusedStep(p, s) ==
  /\ LinkRefused(p, s) /\ k[p].then = "linkto" /\ k[p].put = <<>>
  /\ s \in PutSeqs /\ (\E d \in Inums : d = k[p].at /\ s = <<d>>)
  /\ UNCHANGED <<ref, cwd, fd, forgot, late, kit>> /\ upset' \subseteq {"gone", "removed", "link"}
  /\ KindsKept /\ LockGone(p)

LEMMA Refuses ==
  ASSUME BaseInv, NEW p \in Procs, NEW s, RefusedStep(p, s)
  PROVE  BaseInv'
  <1>1. /\ k[p].then = "linkto" /\ k[p].put = <<>> /\ s \in PutSeqs
        /\ UNCHANGED <<ref, cwd, fd, forgot, late, kit>>
        /\ upset' \subseteq {"gone", "removed", "link"} /\ KindsKept /\ LockGone(p)
    BY DEF RefusedStep
  <1>2. PICK d \in Inums : d = k[p].at /\ s = <<d>>
    BY DEF RefusedStep
  <1>3. PICK i \in Inums : i = k[p].ip
    BY <1>1, Mine DEF Shape, Call
  <1>4. PICK c : c = [k[p] EXCEPT !.pc = "linkbad", !.at = None, !.put = s]
    OBVIOUS
  <1>5. Next1(p, c, "linkbad", None, i, s)
    <2>1. k' = [k EXCEPT ![p] = c] /\ "linkbad" \in Pcs
      BY <1>4 DEF LinkRefused, Go, RefusedStep, Pcs
    <2>2. NextStep(p, c, "linkbad", None, i, s)
      BY <1>1, <1>3, <1>4, <2>1 DEF NextStep
    <2> QED BY <2>2, NextCall
  <1>6. /\ c \in Call /\ k' = [k EXCEPT ![p] = c] /\ c.pc = "linkbad" /\ c.then = "linkto"
        /\ c.at = None /\ c.ip = i /\ c.put = s /\ c.past = FALSE
    <2>1. k[p].past = FALSE
      BY <1>1, Mine, InHand
    <2> QED BY <1>1, <1>5, <2>1 DEF Next1
  <1>7. Shape(c)
    BY <1>3, <1>6, Constants DEF Shape, InDir, Creating
  <1>8. LocksStep(p, c)
    <2>1. c.pc \in Loose
      BY <1>6 DEF Loose
    <2> QED BY <1>1, <2>1, LockLeft
  <1>9. RefStep(p, c, cwd[p], fd[p])
    <2>1. \A j \in Inums : Has(c, cwd[p], fd[p], j)
                           = Is(None, j) + Is(i, j) + Is(cwd[p], j) + Is(fd[p], j) + Puts(s, j)
      BY <1>6, HasAll
    <2>2. \A j \in Inums : Has(k[p], cwd[p], fd[p], j)
                           = Is(d, j) + Is(i, j) + Is(cwd[p], j) + Is(fd[p], j)
      BY <1>1, <1>2, <1>3, HasIs
    <2>3. \A j \in Inums : Puts(s, j) = Is(d, j)
      BY <1>2, PutCounts
    <2>4. \A j \in Inums : Has(c, cwd[p], fd[p], j) = Has(k[p], cwd[p], fd[p], j)
      BY <2>1, <2>2, <2>3, NoneIs, Iss
    <2> QED BY <1>1, <2>4, HasNat, RefsEven
  <1>10. ino[i].type \notin {"free", "dir"} /\ c.pc \notin InDir
    BY <1>1, <1>3, <1>6, Hand DEF InUse, InDir, Creating
  <1>11. GoStep(p, c)
    BY <1>1, <1>6, <1>7, <1>8, <1>9, <1>10 DEF GoStep
  <1> QED BY <1>11, GoesOn

LEMMA LinkTakenBase == ASSUME BaseInv, NEW p \in Procs, LinkTaken(p), kit' = kit PROVE BaseInv'
  <1>1. k[p].pc = "taken" /\ k[p].put = <<>>
    BY DEF LinkTaken, At
  <1>2. PICK d \in Inums : d = k[p].at /\ k[p].then = "linkto"
    BY <1>1, Mine, InHand
  <1>3. Locked(k[p]) = d
    BY <1>1, <1>2 DEF Locked
  <1>4. /\ lock' = [lock EXCEPT ![Locked(k[p])] = None] /\ LinkRefused(p, <<d>>)
        /\ UNCHANGED <<ino, ref, cwd, fd, forgot, late, upset>>
    BY <1>2, <1>3 DEF LinkTaken, history
  <1>5. RefusedStep(p, <<d>>)
    BY <1>1, <1>2, <1>3, <1>4, Mine, PutTypes DEF RefusedStep, LockGone
  <1> QED BY <1>5, Refuses

LEMMA LookupIn ==
  ASSUME BaseInv, NEW p \in Procs, NEW d \in Inums, NEW n \in Names \cup {".", ".."}
  PROVE  /\ Lookup(d, n) \in Inums \cup {None}
         /\ IsDir(d) /\ Lookup(d, n) = None => n \in Names
         /\ n \in Names => Lookup(d, n) = ino[d].entries[n]
  <1>1. ino[d] \in Inode /\ InodesOK
    BY Hand
  <1>2. ino[d].up \in Inums \cup {None} /\ \A m \in Names : ino[d].entries[m] \in Inums \cup {None}
    BY <1>1 DEF Inode
  <1>3. IsDir(d) => ino[d].up # None
    BY <1>1 DEF InodesOK
  <1>4. n = "." => Lookup(d, n) = d
    BY DEF Lookup
  <1>5. n = ".." => Lookup(d, n) = ino[d].up
    BY DEF Lookup
  <1>6. n \in Names => Lookup(d, n) = ino[d].entries[n]
    BY Constants DEF Lookup
  <1> QED BY <1>2, <1>3, <1>4, <1>5, <1>6, Constants

LEMMA NameOf ==
  ASSUME BaseInv, NEW p \in Procs, k[p].path # <<>>
  PROVE  k[p].path[1] \in Names \cup {".", ".."} /\ Head(k[p].path) = k[p].path[1]
  <1>1. k[p].path \in Seq(Names \cup {".", ".."})
    BY Mine DEF Call
  <1> QED BY <1>1

LEMMA LinkToBase == ASSUME BaseInv, NEW p \in Procs, LinkTo(p), kit' = kit PROVE BaseInv'
  <1>1. k[p].pc = "linkto" /\ k[p].put = <<>> /\ k[p].pc \in Loose
    BY DEF LinkTo, At, Loose
  <1>2. PICK d \in Inums, i \in Inums : d = k[p].at /\ i = k[p].ip
    BY <1>1, Mine, InHand
  <1>3. k[p].then = "linkto" /\ k[p].path # <<>> /\ k[p].past = FALSE
    BY <1>1, Mine, InHand
  <1>4. PICK n \in Names \cup {".", ".."} : n = k[p].path[1]
    BY <1>3, NameOf
  <1>5. PICK old \in Inums \cup {None} : old = Lookup(d, n)
    BY LookupIn
  <1>6. /\ lock[d] = None /\ ino[d].type = "dir" /\ ino[i].type \notin {"free", "dir"}
        /\ UNCHANGED <<cwd, fd, forgot, late>>
    <2>1. lock[d] = None /\ UNCHANGED <<cwd, fd, forgot, late>>
      BY <1>1, <1>2 DEF LinkTo, Ilock, Target
    <2>2. ino[d].type = "dir" /\ ino[i].type \notin {"free", "dir"}
      BY <1>1, <1>2, <1>3, Hand DEF InUse, InDir, IsDir
    <2> QED BY <2>1, <2>2
  <1>7. CASE old # None
    <2>1. /\ Iget(old) /\ lock' = [lock EXCEPT ![d] = p] /\ UNCHANGED ino
          /\ Go(p, [k[p] EXCEPT !.pc = "taken", !.put = <<old>>])
          /\ upset' = upset \cup Gone(d, n)
      BY <1>2, <1>4, <1>5, <1>7 DEF LinkTo
    <2>2. PICK c : c = [k[p] EXCEPT !.pc = "taken", !.put = <<old>>]
      OBVIOUS
    <2>3. Next1(p, c, "taken", d, i, <<old>>)
      <3>1. k' = [k EXCEPT ![p] = c] /\ "taken" \in Pcs /\ <<old>> \in PutSeqs
        BY <1>7, <2>1, <2>2, PutTypes DEF Go, Pcs
      <3>2. NextStep(p, c, "taken", d, i, <<old>>)
        BY <1>2, <2>2, <3>1 DEF NextStep
      <3> QED BY <3>2, NextCall
    <2>4. /\ c \in Call /\ k' = [k EXCEPT ![p] = c] /\ c.pc = "taken" /\ c.then = "linkto"
          /\ c.at = d /\ c.ip = i /\ c.put = <<old>> /\ c.past = FALSE /\ c.path = k[p].path
      <3>1. c.path = k[p].path
        BY <2>2, Mine DEF Call
      <3> QED BY <1>3, <2>3, <3>1 DEF Next1
    <2>5. Shape(c)
      BY <1>3, <2>4, Constants DEF Shape, InDir, Creating
    <2>6. KindsKept
      BY <2>1, Mine
    <2>7. LocksStep(p, c)
      <3>1. Locked(c) = d /\ Locked(k[p]) = None
        BY <1>1, <2>4, LooseCalls DEF Locked
      <3>2. ino'[d].type # "free"
        BY <1>6, <2>1
      <3> QED BY <1>6, <2>1, <3>1, <3>2, NewLock
    <2>8. RefStep(p, c, cwd[p], fd[p])
      <3>1. \A j \in Inums : Has(c, cwd[p], fd[p], j)
              = Is(d, j) + Is(i, j) + Is(cwd[p], j) + Is(fd[p], j) + Puts(<<old>>, j)
        BY <2>4, HasAll
      <3>2. \A j \in Inums : Has(k[p], cwd[p], fd[p], j)
              = Is(d, j) + Is(i, j) + Is(cwd[p], j) + Is(fd[p], j)
        BY <1>1, <1>2, HasIs
      <3>3. \A j \in Inums : Has(c, cwd[p], fd[p], j) = Has(k[p], cwd[p], fd[p], j) + Is(old, j)
        BY <3>1, <3>2, PutCounts
      <3>4. ref' = [ref EXCEPT ![old] = @ + 1] /\ forgot' = forgot
        BY <1>6, <2>1 DEF Iget
      <3> QED BY <1>7, <3>3, <3>4, HasNat, RefsGot
    <2>9. upset' \subseteq {"gone", "removed", "link"}
      BY <2>1, Mine DEF Gone, If
    <2>10. GoStep(p, c)
      BY <1>6, <2>4, <2>5, <2>6, <2>7, <2>8, <2>9 DEF GoStep
    <2> QED BY <2>10, GoesOn
  <1>8. CASE old = None
    <2>1. /\ ino' = [ino EXCEPT ![d].entries[n] = i] /\ UNCHANGED <<ref, lock>>
          /\ IF ValidWrite(p, d) THEN Return(p, <<d, i>>) ELSE LinkRefused(p, <<d>>)
          /\ upset' = upset \cup If(~ValidWrite(p, d), "link") \cup If(ino[d].nlink = 0, "removed")
      BY <1>2, <1>4, <1>5, <1>8 DEF LinkTo
    <2>2. n \in Names
      BY <1>5, <1>6, <1>8, LookupIn DEF IsDir
    <2>3. KindsKept
      <3>1. PICK v : v = [ino[d] EXCEPT !.entries = [@ EXCEPT ![n] = i]]
        OBVIOUS
      <3>2. ino' = [ino EXCEPT ![d] = v]
        BY <2>1, <3>1
      <3>3. v \in Inode /\ v.type = ino[d].type /\ v.up = ino[d].up
        <4>1. ino[d] \in Inode
          BY Hand
        <4>2. [ino[d].entries EXCEPT ![n] = i] \in [Names -> Inums \cup {None}]
          BY <2>2, <4>1 DEF Inode
        <4> QED BY <3>1, <4>1, <4>2 DEF Inode
      <3>4. InoSet(d, v)
        BY <1>6, <3>2, <3>3 DEF InoSet
      <3> QED BY <3>4, InoSets
    <2>4. upset' \subseteq {"gone", "removed", "link"}
      BY <2>1, Mine DEF If
    <2>5. CASE ValidWrite(p, d)
      <3>1. \A j \in Inums : Has(k[p], cwd[p], fd[p], j)
              = Is(d, j) + Is(i, j) + Is(cwd[p], j) + Is(fd[p], j)
        BY <1>1, <1>2, HasIs
      <3>2. \A j \in Inums : Has(k[p], cwd[p], fd[p], j)
              = Is(cwd[p], j) + Is(fd[p], j) + Puts(<<d, i>>, j)
        BY <3>1, PutCounts, Iss
      <3>3. Return(p, <<d, i>>)
        BY <2>1, <2>5
      <3>4. ReturnStep(p, cwd[p], fd[p], <<d, i>>)
        BY <1>1, <1>6, <2>1, <2>3, <2>4, <3>2, <3>3, Mine, PutTypes
        DEF ReturnStep, Return, Go, Back
      <3> QED BY <3>4, Returns
    <2>6. CASE ~ValidWrite(p, d)
      <3>1. RefusedStep(p, <<d>>)
        BY <1>1, <1>2, <1>3, <1>6, <2>1, <2>3, <2>4, <2>6, PutTypes DEF RefusedStep, LockGone
      <3> QED BY <3>1, Refuses
    <2> QED BY <2>5, <2>6
  <1> QED BY <1>7, <1>8

LEMMA UnlinkBase == ASSUME BaseInv, NEW p \in Procs, Unlink(p), kit' = kit PROVE BaseInv'
  <1>1. k[p].pc = "unlink" /\ k[p].put = <<>> /\ k[p].pc \in Loose
    BY DEF Unlink, At, Loose, Calls
  <1>2. PICK d \in Inums : d = k[p].at
    BY <1>1, Mine, InHand
  <1>3. k[p].ip = None /\ k[p].then = "unlink" /\ k[p].path # <<>> /\ k[p].past = FALSE
    BY <1>1, Mine, InHand
  <1>4. PICK n \in Names \cup {".", ".."} : n = k[p].path[1]
    BY <1>3, NameOf
  <1>5. PICK i \in Inums \cup {None} : i = Lookup(d, n)
    BY LookupIn
  <1>6. /\ lock[d] = None /\ ino[d].type = "dir"
        /\ UNCHANGED <<ino, cwd, fd, forgot, late, upset>> /\ KindsKept
    <2>1. lock[d] = None /\ UNCHANGED <<ino, cwd, fd, forgot, late, upset>>
      BY <1>1, <1>2 DEF Unlink, Ilock, Target, history
    <2>2. ino[d].type = "dir"
      BY <1>1, <1>2, <1>3, Hand DEF InUse, InDir, IsDir
    <2> QED BY <2>1, <2>2, Mine
  <1>7. CASE Return(p, <<d>>) /\ UNCHANGED <<ref, lock>>
    <2>1. PutStep(p, d)
      BY <1>1, <1>2, <1>3, <1>6, <1>7, Mine DEF PutStep, OneHeld, LockGone
    <2> QED BY <2>1, PutBase
  <1>8. CASE n \in Names /\ i # None /\ Iget(i) /\ lock' = [lock EXCEPT ![d] = p]
             /\ Go(p, [k[p] EXCEPT !.pc = "child", !.ip = i])
    <2>2. PICK c : c = [k[p] EXCEPT !.pc = "child", !.ip = i]
      OBVIOUS
    <2>3. Next1(p, c, "child", d, i, <<>>) /\ c.path = k[p].path
      <3>1. k' = [k EXCEPT ![p] = c] /\ "child" \in Pcs /\ <<>> \in PutSeqs
        BY <1>8, <2>2, PutTypes DEF Go, Pcs
      <3>2. NextStep(p, c, "child", d, i, <<>>)
        BY <1>1, <1>2, <2>2, <3>1 DEF NextStep
      <3> QED BY <3>2, NextCall
    <2>4. /\ c \in Call /\ k' = [k EXCEPT ![p] = c] /\ c.pc = "child" /\ c.then = "unlink"
          /\ c.at = d /\ c.ip = i /\ c.put = <<>> /\ c.past = FALSE /\ c.path = k[p].path
      BY <1>3, <2>3 DEF Next1
    <2>5. Shape(c)
      BY <1>3, <1>4, <1>8, <2>4, Constants DEF Shape, InDir, Creating
    <2>6. LocksStep(p, c)
      <3>1. Locked(c) = d /\ Locked(k[p]) = None
        BY <1>1, <2>4, LooseCalls DEF Locked
      <3>2. ino'[d].type # "free"
        BY <1>6
      <3> QED BY <1>6, <1>8, <3>1, <3>2, NewLock
    <2>7. RefStep(p, c, cwd[p], fd[p])
      <3>1. \A j \in Inums : Has(c, cwd[p], fd[p], j)
              = Is(d, j) + Is(i, j) + Is(cwd[p], j) + Is(fd[p], j)
        BY <2>4, HasIs
      <3>2. \A j \in Inums : Has(k[p], cwd[p], fd[p], j)
              = Is(d, j) + Is(None, j) + Is(cwd[p], j) + Is(fd[p], j)
        BY <1>1, <1>2, <1>3, HasIs
      <3>3. \A j \in Inums : Has(c, cwd[p], fd[p], j) = Has(k[p], cwd[p], fd[p], j) + Is(i, j)
        BY <3>1, <3>2, NoneIs, Iss
      <3>4. ref' = [ref EXCEPT ![i] = @ + 1] /\ forgot' = forgot
        BY <1>6, <1>8 DEF Iget
      <3> QED BY <1>8, <3>3, <3>4, HasNat, RefsGot
    <2>8. upset' \subseteq {"gone", "removed", "link"} /\ c.then # "linkto"
      BY <1>6, <2>4, Mine
    <2>9. GoStep(p, c)
      BY <1>6, <2>4, <2>5, <2>6, <2>7, <2>8 DEF GoStep
    <2> QED BY <2>9, GoesOn
  <1> QED BY <1>2, <1>4, <1>5, <1>7, <1>8 DEF Unlink

LEMMA UnlinkChildBase ==
  ASSUME BaseInv, NEW p \in Procs, UnlinkChild(p), kit' = kit
  PROVE  BaseInv'
  <1>1. k[p].pc = "child" /\ k[p].put = <<>>
    BY DEF UnlinkChild, At
  <1>2. PICK d \in Inums, i \in Inums : d = k[p].at /\ i = k[p].ip
    BY <1>1, Mine, InHand
  <1>3. k[p].then = "unlink" /\ k[p].path # <<>> /\ k[p].past = FALSE
    BY <1>1, Mine, InHand
  <1>4. /\ Locked(k[p]) = d /\ lock[d] = p /\ lock[i] = None /\ i # d
        /\ ino[i].type # "free" /\ ino[d].type = "dir"
        /\ UNCHANGED <<ref, cwd, fd, forgot, late, upset>>
    <2>1. Locked(k[p]) = d
      BY <1>1, <1>2 DEF Locked
    <2>2. lock[d] = p
      BY <2>1, Alloc
    <2>3. /\ lock[i] = None /\ ino[i].type # "free"
          /\ UNCHANGED <<ref, cwd, fd, forgot, late, upset>>
      BY <1>1, <1>2 DEF UnlinkChild, Ilock, Target, history
    <2>4. ino[d].type = "dir"
      BY <1>1, <1>2, Hand DEF InUse, InDir, IsDir
    <2> QED BY <2>1, <2>2, <2>3, <2>4, Constants
  <1>5. \A j \in Inums : Has(k[p], cwd[p], fd[p], j)
                         = Is(d, j) + Is(i, j) + Is(cwd[p], j) + Is(fd[p], j)
    BY <1>1, <1>2, HasIs
  <1>6. CASE IsDir(i) /\ ino[i].entries # NoEntries
    <2>1. /\ Go(p, [k[p] EXCEPT !.pc = "full", !.ip = None, !.put = <<i>>])
          /\ UNCHANGED <<ino, lock>>
      BY <1>2, <1>6 DEF UnlinkChild
    <2>2. PICK c : c = [k[p] EXCEPT !.pc = "full", !.ip = None, !.put = <<i>>]
      OBVIOUS
    <2>3. Next1(p, c, "full", d, None, <<i>>) /\ c.path = k[p].path
      <3>1. k' = [k EXCEPT ![p] = c] /\ "full" \in Pcs /\ <<i>> \in PutSeqs
        BY <2>1, <2>2, PutTypes DEF Go, Pcs
      <3>2. NextStep(p, c, "full", d, None, <<i>>)
        BY <1>1, <1>2, <2>2, <3>1 DEF NextStep
      <3> QED BY <3>2, NextCall
    <2>4. /\ c \in Call /\ k' = [k EXCEPT ![p] = c] /\ c.pc = "full" /\ c.then = "unlink"
          /\ c.at = d /\ c.ip = None /\ c.put = <<i>> /\ c.past = FALSE /\ c.path = k[p].path
      BY <1>3, <2>3 DEF Next1
    <2>5. Shape(c)
      BY <1>3, <2>4, Constants DEF Shape, InDir, Creating
    <2>6. KindsKept
      BY <2>1, Mine
    <2>7. LocksStep(p, c)
      <3>1. Locked(c) = Locked(k[p])
        BY <1>4, <2>4 DEF Locked
      <3>2. \A j \in Inums : ino[j].type # "free" => ino'[j].type # "free"
        BY <2>1
      <3> QED BY <2>1, <3>1, <3>2, SameLocks
    <2>8. RefStep(p, c, cwd[p], fd[p])
      <3>1. \A j \in Inums : Has(c, cwd[p], fd[p], j)
              = Is(d, j) + Is(None, j) + Is(cwd[p], j) + Is(fd[p], j) + Puts(<<i>>, j)
        BY <2>4, HasAll
      <3>2. \A j \in Inums : Has(c, cwd[p], fd[p], j) = Has(k[p], cwd[p], fd[p], j)
        BY <1>5, <3>1, PutCounts, NoneIs, Iss
      <3> QED BY <1>4, <3>2, HasNat, RefsEven
    <2>9. upset' \subseteq {"gone", "removed", "link"} /\ c.then # "linkto"
      BY <1>4, <2>4, Mine
    <2>10. GoStep(p, c)
      BY <1>4, <2>4, <2>5, <2>6, <2>7, <2>8, <2>9 DEF GoStep
    <2> QED BY <2>10, GoesOn
  <1>7. CASE ~(IsDir(i) /\ ino[i].entries # NoEntries)
    <2>1. /\ ino' = [ino EXCEPT ![d].entries[k[p].path[1]] = None,
                               ![d].nlink = IF IsDir(i) THEN @ - 1 ELSE @]
          /\ lock' = [lock EXCEPT ![d] = None, ![i] = p]
          /\ Go(p, [k[p] EXCEPT !.pc = "unlinked", !.at = None, !.put = <<d>>])
      BY <1>2, <1>7 DEF UnlinkChild
    <2>2. PICK c : c = [k[p] EXCEPT !.pc = "unlinked", !.at = None, !.put = <<d>>]
      OBVIOUS
    <2>3. Next1(p, c, "unlinked", None, i, <<d>>) /\ c.path = k[p].path
      <3>1. k' = [k EXCEPT ![p] = c] /\ "unlinked" \in Pcs /\ <<d>> \in PutSeqs
        BY <2>1, <2>2, PutTypes DEF Go, Pcs
      <3>2. NextStep(p, c, "unlinked", None, i, <<d>>)
        BY <1>1, <1>2, <2>2, <3>1 DEF NextStep
      <3> QED BY <3>2, NextCall
    <2>4. /\ c \in Call /\ k' = [k EXCEPT ![p] = c] /\ c.pc = "unlinked" /\ c.then = "unlink"
          /\ c.at = None /\ c.ip = i /\ c.put = <<d>> /\ c.past = FALSE
      BY <1>3, <2>3 DEF Next1
    <2>5. Shape(c)
      BY <2>4, Constants DEF Shape, InDir, Creating
    <2>6. KindsKept
      <3>1. k[p].path[1] \in Names
        BY <1>1, Mine, InHand
      <3>2. PICK v : v = [ino[d] EXCEPT !.entries[k[p].path[1]] = None,
                                        !.nlink = IF IsDir(i) THEN @ - 1 ELSE @]
        OBVIOUS
      <3>3. ino' = [ino EXCEPT ![d] = v]
        BY <2>1, <3>2
      <3>4. v \in Inode /\ v.type = ino[d].type /\ v.up = ino[d].up
        <4>1. ino[d] \in Inode
          BY Hand
        <4>2. [ino[d].entries EXCEPT ![k[p].path[1]] = None] \in [Names -> Inums \cup {None}]
          BY <4>1 DEF Inode
        <4>3. (IF IsDir(i) THEN ino[d].nlink - 1 ELSE ino[d].nlink) \in Int
          BY <4>1 DEF Inode
        <4> QED BY <3>1, <3>2, <4>1, <4>2, <4>3 DEF Inode
      <3>5. InoSet(d, v)
        BY <1>4, <3>3, <3>4 DEF InoSet
      <3> QED BY <3>5, InoSets
    <2>7. LocksStep(p, c)
      <3>1. Locked(c) = i
        BY <2>4 DEF Locked
      <3>2. ino'[i].type # "free"
        BY <1>4, <2>6 DEF KindsKept
      <3>3. lock' = [lock EXCEPT ![Locked(k[p])] = None, ![i] = p]
        BY <1>4, <2>1
      <3> QED BY <1>4, <3>1, <3>2, <3>3, Constants, NewLock
    <2>8. RefStep(p, c, cwd[p], fd[p])
      <3>1. \A j \in Inums : Has(c, cwd[p], fd[p], j)
              = Is(None, j) + Is(i, j) + Is(cwd[p], j) + Is(fd[p], j) + Puts(<<d>>, j)
        BY <2>4, HasAll
      <3>2. \A j \in Inums : Has(c, cwd[p], fd[p], j) = Has(k[p], cwd[p], fd[p], j)
        BY <1>5, <3>1, PutCounts, NoneIs, Iss
      <3> QED BY <1>4, <3>2, HasNat, RefsEven
    <2>9. upset' \subseteq {"gone", "removed", "link"} /\ c.then # "linkto"
          /\ c.pc \notin InDir
      BY <1>4, <2>4, Mine DEF InDir, Creating
    <2>10. GoStep(p, c)
      BY <1>4, <2>4, <2>5, <2>6, <2>7, <2>8, <2>9 DEF GoStep
    <2> QED BY <2>10, GoesOn
  <1> QED BY <1>6, <1>7

LEMMA PcIn == \A c \in Call : c.then # "none" => c.then \in Pcs
BY DEF Call, Pcs

LEMMA LongerTail ==
  ASSUME NEW S, NEW s \in Seq(S), s # <<>>, Len(s) # 1
  PROVE  Tail(s) # <<>>
  <1>1. Len(s) \in Nat
    OBVIOUS
  <1>2. Len(s) # 0
    BY EmptySeq
  <1>3. Tail(s) \in Seq(S) /\ Len(Tail(s)) = Len(s) - 1
    BY HeadTailProperties
  <1>4. Len(Tail(s)) # 0
    BY <1>1, <1>2, <1>3
  <1> QED BY <1>3, <1>4, EmptySeq

LEMMA WalkFails ==
  ASSUME BaseInv, NEW p \in Procs, k[p].pc = "walk", k[p].put = <<>>, Fails(p, <<k[p].at>>),
         UNCHANGED <<ino, ref, lock, cwd, fd, forgot, late, kit>>,
         upset' \subseteq {"gone", "removed", "link"}
  PROVE  BaseInv'
  <1>1. PICK d \in Inums : d = k[p].at
    BY Mine, InHand
  <1>2. KindsKept /\ k[p].pc \in Loose
    BY Mine DEF Loose
  <1>3. CASE k[p].then = "linkto"
    <2>1. RefusedStep(p, <<d>>)
      BY <1>1, <1>2, <1>3, PutTypes DEF RefusedStep, LockGone, Fails
    <2> QED BY <2>1, Refuses
  <1>4. CASE k[p].then # "linkto"
    <2>1. k[p].ip = None
      BY <1>4, Mine DEF Shape
    <2>2. PutStep(p, d)
      BY <1>1, <1>2, <1>4, <2>1 DEF PutStep, OneHeld, LockGone, Fails
    <2> QED BY <2>2, PutBase
  <1> QED BY <1>3, <1>4

LEMMA WalkStays ==
  ASSUME BaseInv, NEW p \in Procs, k[p].pc = "walk", k[p].put = <<>>, IsDir(k[p].at),
         k[p].path # <<>>, WantsParent(p), Go(p, [k[p] EXCEPT !.pc = k[p].then]),
         UNCHANGED <<ino, ref, lock, cwd, fd, forgot, late, kit>>,
         upset' \subseteq {"gone", "removed", "link"}
  PROVE  BaseInv'
  <1>1. PICK d \in Inums : d = k[p].at
    BY Mine, InHand
  <1>2. k[p].path # <<>> /\ k[p].past = FALSE
    BY Mine, InHand
  <1>3. PICK t : t = k[p].then
    OBVIOUS
  <1>4. t \in {"create", "mkdir", "mknod", "linkto", "unlink"}
    BY <1>3 DEF WantsParent
  <1>5. PICK c : c = [k[p] EXCEPT !.pc = t]
    OBVIOUS
  <1>6. Next1(p, c, t, d, k[p].ip, <<>>) /\ c.path = k[p].path
    <2>1. k' = [k EXCEPT ![p] = c] /\ t \in Pcs /\ <<>> \in PutSeqs /\ k[p].ip \in Inums \cup {None}
      BY <1>3, <1>4, <1>5, PutTypes, Mine DEF Go, Pcs, Calls, Creating, Call
    <2>2. NextStep(p, c, t, d, k[p].ip, <<>>)
      BY <1>1, <1>5, <2>1 DEF NextStep
    <2> QED BY <2>2, NextCall
  <1>7. /\ c \in Call /\ k' = [k EXCEPT ![p] = c] /\ c.pc = t /\ c.then = t
        /\ c.at = d /\ c.ip = k[p].ip /\ c.put = <<>> /\ c.past = FALSE /\ c.path = k[p].path
    BY <1>2, <1>3, <1>6 DEF Next1
  <1>8. k[p].ip = None <=> t # "linkto"
    BY <1>3, Mine DEF Shape
  <1>9. Shape(c)
    BY <1>2, <1>4, <1>7, <1>8, Constants DEF Shape, InDir, Creating
  <1>10. KindsKept
    BY Mine
  <1>11. c.pc \in Loose /\ k[p].pc \in Loose
    BY <1>4, <1>7 DEF Loose, Calls, Creating
  <1>12. LocksStep(p, c)
    BY <1>10, <1>11, LockLeft DEF LockGone
  <1>13. RefStep(p, c, cwd[p], fd[p])
    <2>1. \A j \in Inums : Has(c, cwd[p], fd[p], j)
            = Is(d, j) + Is(k[p].ip, j) + Is(cwd[p], j) + Is(fd[p], j)
      BY <1>7, HasIs
    <2>2. \A j \in Inums : Has(k[p], cwd[p], fd[p], j)
            = Is(d, j) + Is(k[p].ip, j) + Is(cwd[p], j) + Is(fd[p], j)
      BY <1>1, HasIs
    <2> QED BY <2>1, <2>2, HasNat, RefsEven
  <1>14. c.then = "linkto" => ino[c.ip].type \notin {"free", "dir"}
    BY <1>3, <1>7, Hand DEF InUse
  <1>15. ino[c.at].type = "dir"
    BY <1>1, <1>7 DEF IsDir
  <1>16. GoStep(p, c)
    BY <1>7, <1>9, <1>10, <1>12, <1>13, <1>14, <1>15 DEF GoStep
  <1> QED BY <1>16, GoesOn

LEMMA WalkGoesOn ==
  ASSUME BaseInv, NEW p \in Procs, k[p].pc = "walk", k[p].put = <<>>, NEW next \in Inums,
         k[p].path # <<>>, ~(WantsParent(p) /\ Len(k[p].path) = 1), Iget(next),
         Go(p, [k[p] EXCEPT !.pc = IF Len(k[p].path) = 1 THEN k[p].then ELSE "walk",
                            !.at = next, !.path = Tail(@), !.put = <<k[p].at>>]),
         UNCHANGED <<ino, lock, cwd, fd, forgot, late, kit>>,
         upset' \subseteq {"gone", "removed", "link"}
  PROVE  BaseInv'
  <1>1. PICK d \in Inums : d = k[p].at
    BY Mine, InHand
  <1>2. k[p].path # <<>> /\ k[p].past = FALSE
    BY Mine, InHand
  <1>3. PICK t : t = IF Len(k[p].path) = 1 THEN k[p].then ELSE "walk"
    OBVIOUS
  <1>4. k[p].then # "none"
    BY Mine DEF Shape
  <1>5. PICK c : c = [k[p] EXCEPT !.pc = t, !.at = next, !.path = Tail(@), !.put = <<d>>]
    OBVIOUS
  <1>6. Next1(p, c, t, next, k[p].ip, <<d>>) /\ c.path = Tail(k[p].path)
    <2>1. k' = [k EXCEPT ![p] = c]
      BY <1>1, <1>3, <1>5 DEF Go
    <2>2. t \in Pcs
      BY <1>3, <1>4, PcIn, Mine DEF Pcs
    <2>3. <<d>> \in PutSeqs
      BY PutTypes
    <2>4. NextWalkStep(p, c, t, next, <<d>>)
      BY <1>2, <1>5, <2>1, <2>2, <2>3 DEF NextWalkStep
    <2> QED BY <2>4, NextWalk
  <1>7. /\ c \in Call /\ k' = [k EXCEPT ![p] = c] /\ c.pc = t /\ c.then = k[p].then
        /\ c.at = next /\ c.ip = k[p].ip /\ c.put = <<d>> /\ c.past = FALSE
        /\ c.path = Tail(k[p].path)
    BY <1>2, <1>6 DEF Next1
  <1>8. k[p].ip = None <=> k[p].then # "linkto"
    BY Mine DEF Shape
  <1>9. /\ k[p].then \in Calls \cup {"linkto", "load"}
        /\ \/ t = "walk"
           \/ t = k[p].then /\ t \in {"open", "link", "chdir", "chattr", "exec", "load"}
        /\ t = "walk" => Tail(k[p].path) # <<>>
    <2>1. k[p].then \in Calls \cup {"linkto", "load"}
      BY <1>4, Mine DEF Call
    <2>2. k[p].path \in Seq(Names \cup {".", ".."})
      BY Mine DEF Call
    <2>3. Len(k[p].path) # 1 => Tail(k[p].path) # <<>>
      BY <1>2, <2>2, LongerTail
    <2>4. Len(k[p].path) = 1 => k[p].then \notin {"create", "mkdir", "mknod", "linkto", "unlink"}
      BY DEF WantsParent
    <2>5. k[p].then # "walk"
      BY <2>1 DEF Calls, Creating
    <2>6. CASE Len(k[p].path) = 1
      <3>1. t = k[p].then
        BY <1>3, <2>6
      <3> QED BY <2>1, <2>4, <2>5, <2>6, <3>1 DEF Calls, Creating
    <2>7. CASE Len(k[p].path) # 1
      <3>1. t = "walk"
        BY <1>3, <2>7
      <3> QED BY <2>1, <2>3, <2>7, <3>1
    <2> QED BY <2>6, <2>7
  <1>10. Shape(c)
    <2>1. c.pc = "walk" => c.path # <<>>
      BY <1>7, <1>9
    <2>2. \/ c.pc = "walk"
          \/ c.pc = c.then /\ c.pc \in {"open", "link", "chdir", "chattr", "exec", "load"}
      BY <1>7, <1>9
    <2>3. c.at # None /\ (c.ip = None <=> c.then # "linkto") /\ c.past = FALSE /\ c.then # "none"
      BY <1>4, <1>7, <1>8, Constants
    <2> QED BY <2>1, <2>2, <2>3 DEF Shape, InDir, Creating
  <1>11. KindsKept
    BY Mine
  <1>12. c.pc \in Loose /\ k[p].pc \in Loose /\ c.pc \notin InDir
    BY <1>7, <1>9 DEF Loose, Calls, Creating, InDir
  <1>13. LocksStep(p, c)
    BY <1>11, <1>12, LockLeft DEF LockGone
  <1>14. RefStep(p, c, cwd[p], fd[p])
    <2>1. \A j \in Inums : Has(c, cwd[p], fd[p], j)
            = Is(next, j) + Is(k[p].ip, j) + Is(cwd[p], j) + Is(fd[p], j) + Puts(<<d>>, j)
      BY <1>7, HasAll
    <2>2. \A j \in Inums : Has(k[p], cwd[p], fd[p], j)
            = Is(d, j) + Is(k[p].ip, j) + Is(cwd[p], j) + Is(fd[p], j)
      BY <1>1, HasIs
    <2>3. \A j \in Inums : Has(c, cwd[p], fd[p], j) = Has(k[p], cwd[p], fd[p], j) + Is(next, j)
      BY <2>1, <2>2, PutCounts, Iss
    <2>4. ref' = [ref EXCEPT ![next] = @ + 1] /\ forgot' = forgot
      BY DEF Iget
    <2> QED BY <2>3, <2>4, HasNat, RefsGot
  <1>15. c.then = "linkto" => ino[c.ip].type \notin {"free", "dir"}
    BY <1>7, Hand DEF InUse
  <1>16. GoStep(p, c)
    BY <1>7, <1>10, <1>11, <1>12, <1>13, <1>14, <1>15 DEF GoStep
  <1> QED BY <1>16, GoesOn

LEMMA WalkBase == ASSUME BaseInv, NEW p \in Procs, Walk(p), kit' = kit PROVE BaseInv'
  <1>1. k[p].pc = "walk" /\ k[p].put = <<>>
    BY DEF Walk, At
  <1>2. PICK d \in Inums : d = k[p].at
    BY <1>1, Mine, InHand
  <1>3. k[p].path # <<>>
    BY DEF Walk
  <1>4. PICK name \in Names \cup {".", ".."} : name = Head(k[p].path)
    BY <1>3, NameOf
  <1>5. PICK next \in Inums \cup {None} : next = Lookup(d, name)
    BY LookupIn
  <1>6. /\ UNCHANGED <<ino, lock, cwd, fd, forgot, late, kit>>
        /\ upset' \in {upset, upset \cup Gone(d, name)}
    BY <1>2, <1>4 DEF Walk
  <1>7. upset' \subseteq {"gone", "removed", "link"}
    BY <1>6, Mine DEF Gone, If
  <1>8. CASE Fails(p, <<d>>) /\ ref' = ref
    BY <1>1, <1>2, <1>6, <1>7, <1>8, WalkFails
  <1>9. CASE IsDir(d) /\ WantsParent(p) /\ Go(p, [k[p] EXCEPT !.pc = k[p].then]) /\ ref' = ref
    BY <1>1, <1>2, <1>3, <1>6, <1>7, <1>9, WalkStays
  <1>10. CASE /\ next # None /\ ~(WantsParent(p) /\ Len(k[p].path) = 1) /\ Iget(next)
              /\ Go(p, [k[p] EXCEPT !.pc = IF Len(k[p].path) = 1 THEN k[p].then ELSE "walk",
                                    !.at = next, !.path = Tail(@), !.put = <<d>>])
    BY <1>1, <1>2, <1>3, <1>6, <1>7, <1>10, WalkGoesOn
  <1> QED BY <1>2, <1>4, <1>5, <1>8, <1>9, <1>10 DEF Walk, Looks

\* A path without elements names what namex starts at.
LEMMA WalkArrives ==
  ASSUME BaseInv, NEW p \in Procs, k[p].pc = "walk", k[p].put = <<>>, ~WantsParent(p),
         Go(p, [k[p] EXCEPT !.pc = k[p].then]),
         UNCHANGED <<ino, ref, lock, cwd, fd, forgot, late, kit>>, upset' = upset
  PROVE  BaseInv'
  <1>1. PICK d \in Inums : d = k[p].at
    BY Mine, InHand
  <1>2. k[p].past = FALSE
    BY Mine, InHand
  <1>3. PICK t : t = k[p].then
    OBVIOUS
  <1>4. t \in {"open", "link", "chdir", "chattr", "exec", "load"}
    <2>1. k[p].then # "none"
      BY Mine DEF Shape
    <2>2. k[p].then \in Calls \cup {"linkto", "load"}
      BY <2>1, Mine DEF Call
    <2> QED BY <1>3, <2>2 DEF WantsParent, Calls, Creating
  <1>5. PICK c : c = [k[p] EXCEPT !.pc = t]
    OBVIOUS
  <1>6. Next1(p, c, t, d, k[p].ip, <<>>) /\ c.path = k[p].path
    <2>1. k' = [k EXCEPT ![p] = c] /\ t \in Pcs /\ <<>> \in PutSeqs /\ k[p].ip \in Inums \cup {None}
      BY <1>3, <1>4, <1>5, PutTypes, Mine DEF Go, Pcs, Calls, Creating, Call
    <2>2. NextStep(p, c, t, d, k[p].ip, <<>>)
      BY <1>1, <1>5, <2>1 DEF NextStep
    <2> QED BY <2>2, NextCall
  <1>7. /\ c \in Call /\ k' = [k EXCEPT ![p] = c] /\ c.pc = t /\ c.then = t
        /\ c.at = d /\ c.ip = k[p].ip /\ c.put = <<>> /\ c.past = FALSE
    BY <1>2, <1>3, <1>6 DEF Next1
  <1>8. k[p].ip = None
    BY <1>3, <1>4, Mine DEF Shape
  <1>9. Shape(c)
    BY <1>4, <1>7, <1>8, Constants DEF Shape, InDir, Creating
  <1>10. KindsKept
    BY Mine
  <1>11. c.pc \in Loose /\ k[p].pc \in Loose /\ c.pc \notin InDir /\ c.then # "linkto"
    BY <1>4, <1>7 DEF Loose, Calls, Creating, InDir
  <1>12. LocksStep(p, c)
    BY <1>10, <1>11, LockLeft DEF LockGone
  <1>13. RefStep(p, c, cwd[p], fd[p])
    <2>1. \A j \in Inums : Has(c, cwd[p], fd[p], j)
            = Is(d, j) + Is(k[p].ip, j) + Is(cwd[p], j) + Is(fd[p], j)
      BY <1>7, HasIs
    <2>2. \A j \in Inums : Has(k[p], cwd[p], fd[p], j)
            = Is(d, j) + Is(k[p].ip, j) + Is(cwd[p], j) + Is(fd[p], j)
      BY <1>1, HasIs
    <2> QED BY <2>1, <2>2, HasNat, RefsEven
  <1>14. upset' \subseteq {"gone", "removed", "link"}
    BY Mine
  <1>15. GoStep(p, c)
    BY <1>7, <1>9, <1>10, <1>11, <1>12, <1>13, <1>14 DEF GoStep
  <1> QED BY <1>15, GoesOn

LEMMA WalkNowhereBase ==
  ASSUME BaseInv, NEW p \in Procs, WalkNowhere(p), kit' = kit PROVE BaseInv'
  <1>1. /\ k[p].pc = "walk" /\ k[p].put = <<>>
        /\ UNCHANGED <<ino, ref, lock, cwd, fd, forgot, late, upset, kit>>
    BY DEF WalkNowhere, At, state, history
  <1>2. upset' \subseteq {"gone", "removed", "link"}
    BY <1>1, Mine
  <1>3. CASE Fails(p, <<k[p].at>>)
    BY <1>1, <1>2, <1>3, WalkFails
  <1>4. CASE ~WantsParent(p) /\ Go(p, [k[p] EXCEPT !.pc = k[p].then])
    BY <1>1, <1>4, WalkArrives
  <1> QED BY <1>3, <1>4 DEF WalkNowhere

\* create finds the name: the call goes on with what it names.
LEMMA CreateOld ==
  ASSUME BaseInv, NEW p \in Procs, k[p].pc \in Creating, k[p].put = <<>>, NEW old \in Inums,
         Iget(old), Go(p, [k[p] EXCEPT !.pc = "found", !.at = old, !.put = <<k[p].at>>]),
         UNCHANGED <<ino, lock, cwd, fd, forgot, late, kit>>,
         upset' \subseteq {"gone", "removed", "link"}
  PROVE  BaseInv'
  <1>1. PICK d \in Inums : d = k[p].at
    BY Mine, InHand
  <1>2. k[p].ip = None /\ k[p].then \in Creating /\ k[p].past = FALSE /\ k[p].then = k[p].pc
    BY Mine, InHand
  <1>3. PICK c : c = [k[p] EXCEPT !.pc = "found", !.at = old, !.put = <<d>>]
    OBVIOUS
  <1>4. Next1(p, c, "found", old, None, <<d>>)
    <2>1. k' = [k EXCEPT ![p] = c] /\ "found" \in Pcs /\ <<d>> \in PutSeqs
      BY <1>1, <1>3, PutTypes DEF Go, Pcs
    <2>2. NextStep(p, c, "found", old, None, <<d>>)
      BY <1>2, <1>3, <2>1 DEF NextStep
    <2> QED BY <2>2, NextCall
  <1>5. /\ c \in Call /\ k' = [k EXCEPT ![p] = c] /\ c.pc = "found" /\ c.then \in Creating
        /\ c.at = old /\ c.ip = None /\ c.put = <<d>> /\ c.past = FALSE
    BY <1>2, <1>4 DEF Next1
  <1>6. Shape(c)
    BY <1>5, Constants DEF Shape, InDir, Creating
  <1>7. KindsKept
    BY Mine
  <1>8. k[p].pc \in Loose /\ c.pc \in Loose /\ c.pc \notin InDir /\ c.then # "linkto"
    BY <1>5 DEF Loose, Calls, InDir, Creating
  <1>9. LocksStep(p, c)
    BY <1>7, <1>8, LockLeft DEF LockGone
  <1>10. RefStep(p, c, cwd[p], fd[p])
    <2>1. \A j \in Inums : Has(c, cwd[p], fd[p], j)
            = Is(old, j) + Is(None, j) + Is(cwd[p], j) + Is(fd[p], j) + Puts(<<d>>, j)
      BY <1>5, HasAll
    <2>2. \A j \in Inums : Has(k[p], cwd[p], fd[p], j)
            = Is(d, j) + Is(None, j) + Is(cwd[p], j) + Is(fd[p], j)
      BY <1>1, <1>2, HasIs
    <2>3. \A j \in Inums : Has(c, cwd[p], fd[p], j) = Has(k[p], cwd[p], fd[p], j) + Is(old, j)
      BY <2>1, <2>2, PutCounts, Iss
    <2>4. ref' = [ref EXCEPT ![old] = @ + 1] /\ forgot' = forgot
      BY DEF Iget
    <2> QED BY <2>3, <2>4, HasNat, RefsGot
  <1>11. GoStep(p, c)
    BY <1>5, <1>6, <1>7, <1>8, <1>9, <1>10 DEF GoStep
  <1> QED BY <1>11, GoesOn

\* create makes the inode i in directory d, under the name n.
MakeStep(p, d, n, i, kind) ==
  /\ k[p].pc \in Creating /\ k[p].put = <<>> /\ k[p].at = d
  /\ d \in Inums /\ n \in Names /\ i \in Inums /\ ino[i].type = "free" /\ ino[d].type = "dir"
  /\ kind \in {"file", "dir", "dev"} /\ Iget(i)
  /\ lock' = [lock EXCEPT ![i] = p]
  /\ ino' = [ino EXCEPT ![d].entries[n] = i, ![d].nlink = IF kind = "dir" THEN @ + 1 ELSE @,
                        ![i] = NewInode(p, kind, d)]
  /\ Go(p, [k[p] EXCEPT !.pc = "created", !.at = None, !.ip = i, !.put = <<d>>])
  /\ upset' = upset \cup If(ino[d].nlink = 0, "removed")
  /\ UNCHANGED <<cwd, fd, forgot, late>>

Made(p, d, n, i, kind) ==
  /\ i # d /\ ino' \in [Inums -> Inode] /\ ino'[i].type = kind /\ ino'[i].nlink = 1
  /\ ino'[i].entries = NoEntries /\ ino'[i].up = (IF kind = "dir" THEN d ELSE None)
  /\ ino'[d].type = "dir" /\ ino'[d].up = ino[d].up
  /\ ino'[d].entries = [ino[d].entries EXCEPT ![n] = i]
  /\ ino'[d].nlink = (IF kind = "dir" THEN ino[d].nlink + 1 ELSE ino[d].nlink)
  /\ \A j \in Inums \ {d, i} : ino'[j] = ino[j]

LEMMA MakeIs ==
  ASSUME BaseInv, NEW p \in Procs, NEW d, NEW n, NEW i, NEW kind, MakeStep(p, d, n, i, kind)
  PROVE  Made(p, d, n, i, kind)
  <1>1. /\ d \in Inums /\ n \in Names /\ i \in Inums /\ ino[i].type = "free"
        /\ ino[d].type = "dir" /\ kind \in {"file", "dir", "dev"}
    BY DEF MakeStep
  <1>2. i # d /\ ino \in [Inums -> Inode] /\ uid[p] \in Nat
    BY <1>1, Hand, Constants
  <1>3. PICK v : v = [ino[d] EXCEPT !.entries[n] = i,
                                    !.nlink = IF kind = "dir" THEN @ + 1 ELSE @]
    OBVIOUS
  <1>4. PICK w : w = NewInode(p, kind, d)
    OBVIOUS
  <1>5. ino' = [ino EXCEPT ![d] = v, ![i] = w]
    <2>1. ino' = [ino EXCEPT ![d].entries[n] = i,
                             ![d].nlink = IF kind = "dir" THEN @ + 1 ELSE @, ![i] = w]
      BY <1>4 DEF MakeStep
    <2> QED BY <1>1, <1>2, <1>3, <2>1
  <1>6. /\ v \in Inode /\ v.type = "dir" /\ v.up = ino[d].up
        /\ v.entries = [ino[d].entries EXCEPT ![n] = i]
        /\ v.nlink = (IF kind = "dir" THEN ino[d].nlink + 1 ELSE ino[d].nlink)
    <2>1. ino[d] \in Inode
      BY <1>1, <1>2
    <2>2. [ino[d].entries EXCEPT ![n] = i] \in [Names -> Inums \cup {None}]
      BY <1>1, <2>1 DEF Inode
    <2>3. (IF kind = "dir" THEN ino[d].nlink + 1 ELSE ino[d].nlink) \in Int
      BY <2>1 DEF Inode
    <2>4. v.entries = [ino[d].entries EXCEPT ![n] = i]
      BY <1>3, <2>1 DEF Inode
    <2>5. v.nlink = (IF kind = "dir" THEN ino[d].nlink + 1 ELSE ino[d].nlink)
      BY <1>3, <2>1 DEF Inode
    <2>6. v \in Inode /\ v.type = ino[d].type /\ v.up = ino[d].up
      BY <1>3, <2>1, <2>2, <2>3 DEF Inode
    <2> QED BY <1>1, <2>4, <2>5, <2>6
  <1>7. /\ w \in Inode /\ w.type = kind /\ w.nlink = 1 /\ w.entries = NoEntries
        /\ w.up = (IF kind = "dir" THEN d ELSE None)
    <2>1. NoEntries \in [Names -> Inums \cup {None}]
      BY DEF NoEntries
    <2>2. w = [type |-> kind, nlink |-> 1, up |-> IF kind = "dir" THEN d ELSE None,
               entries |-> NoEntries, owner |-> uid[p], perms |-> {}]
      BY <1>4 DEF NewInode
    <2> QED BY <1>1, <1>2, <2>1, <2>2 DEF Inode
  <1>8. ino'[d] = v /\ ino'[i] = w /\ ino' \in [Inums -> Inode]
        /\ \A j \in Inums \ {d, i} : ino'[j] = ino[j]
    BY <1>1, <1>2, <1>5, <1>6, <1>7
  <1> QED BY <1>2, <1>4, <1>6, <1>7, <1>8 DEF Made

LEMMA MakeBase ==
  ASSUME BaseInv, NEW p \in Procs, NEW d, NEW n, NEW i, NEW kind, MakeStep(p, d, n, i, kind),
         kit' = kit
  PROVE  BaseInv'
  <1>1. /\ k[p].pc \in Creating /\ k[p].put = <<>> /\ k[p].at = d
        /\ d \in Inums /\ n \in Names /\ i \in Inums /\ ino[i].type = "free"
        /\ ino[d].type = "dir" /\ kind \in {"file", "dir", "dev"}
        /\ UNCHANGED <<cwd, fd, forgot, late, kit>>
    BY DEF MakeStep
  <1>2. k[p].ip = None /\ k[p].then \in Creating /\ k[p].past = FALSE
    BY <1>1, Mine, InHand
  <1>3. PICK c : c = [k[p] EXCEPT !.pc = "created", !.at = None, !.ip = i, !.put = <<d>>]
    OBVIOUS
  <1>4. Next1(p, c, "created", None, i, <<d>>)
    <2>1. k' = [k EXCEPT ![p] = c] /\ "created" \in Pcs /\ <<d>> \in PutSeqs
      BY <1>1, <1>3, PutTypes DEF Go, Pcs, MakeStep
    <2>2. NextStep(p, c, "created", None, i, <<d>>)
      BY <1>1, <1>3, <2>1 DEF NextStep
    <2> QED BY <2>2, NextCall
  <1>5. /\ c \in Call /\ k' = [k EXCEPT ![p] = c] /\ c.pc = "created" /\ c.then \in Creating
        /\ c.at = None /\ c.ip = i /\ c.put = <<d>> /\ c.past = FALSE
    BY <1>2, <1>4 DEF Next1
  <1>6. Shape(c)
    BY <1>1, <1>5, Constants DEF Shape, InDir, Creating
  <1>7. /\ i # d /\ ino' \in [Inums -> Inode] /\ ino'[i].type = kind
        /\ ino'[i].up = (IF kind = "dir" THEN d ELSE None)
        /\ ino'[d].type = "dir" /\ ino'[d].up = ino[d].up
        /\ \A j \in Inums \ {d, i} : ino'[j] = ino[j]
    <2>1. Made(p, d, n, i, kind)
      BY MakeIs
    <2> QED BY <2>1 DEF Made
  <1>8. KindsKept
    <2>1. InodesOK
      BY Hand
    <2>2. ASSUME NEW j \in Inums
          PROVE  /\ ino'[j].type = "free" => ino'[j] = NoInode
                 /\ (ino'[j].up # None) = (ino'[j].type = "dir")
                 /\ ino[j].type # "free" => ino'[j].type = ino[j].type
      <3>1. /\ ino[j].type = "free" => ino[j] = NoInode
            /\ (ino[j].up # None) = (ino[j].type = "dir")
        BY <2>1 DEF InodesOK, IsDir
      <3>2. CASE j = i
        BY <1>1, <1>7, <3>2, Constants
      <3>3. CASE j = d
        BY <1>1, <1>7, <3>1, <3>3
      <3>4. CASE j \notin {d, i}
        BY <1>7, <3>1, <3>4
      <3> QED BY <3>2, <3>3, <3>4
    <2>3. InodesOK'
      BY <1>7, <2>2 DEF InodesOK, IsDir
    <2> QED BY <2>2, <2>3 DEF KindsKept
  <1>9. LocksStep(p, c)
    <2>1. Locked(c) = i /\ Locked(k[p]) = None
      <3>1. k[p].pc \in Loose
        BY <1>1 DEF Loose, Calls
      <3> QED BY <1>5, <3>1, LooseCalls DEF Locked
    <2>2. lock[i] = None /\ lock' = [lock EXCEPT ![i] = p]
      BY <1>1, Alloc DEF MakeStep
    <2>3. ino'[i].type # "free"
      BY <1>1, <1>7
    <2> QED BY <1>1, <2>1, <2>2, <2>3, NewLock
  <1>10. RefStep(p, c, cwd[p], fd[p])
    <2>1. \A j \in Inums : Has(c, cwd[p], fd[p], j)
            = Is(None, j) + Is(i, j) + Is(cwd[p], j) + Is(fd[p], j) + Puts(<<d>>, j)
      BY <1>5, HasAll
    <2>2. \A j \in Inums : Has(k[p], cwd[p], fd[p], j)
            = Is(d, j) + Is(None, j) + Is(cwd[p], j) + Is(fd[p], j)
      BY <1>1, <1>2, HasIs
    <2>3. \A j \in Inums : Has(c, cwd[p], fd[p], j) = Has(k[p], cwd[p], fd[p], j) + Is(i, j)
      BY <1>1, <2>1, <2>2, PutCounts, Iss
    <2>4. ref' = [ref EXCEPT ![i] = @ + 1] /\ forgot' = forgot
      BY <1>1 DEF Iget, MakeStep
    <2> QED BY <1>1, <2>3, <2>4, HasNat, RefsGot
  <1>11. c.pc \notin InDir /\ c.then # "linkto"
    BY <1>5 DEF InDir, Creating
  <1>12. upset' \subseteq {"gone", "removed", "link"}
    BY Mine DEF MakeStep, If
  <1>13. GoStep(p, c)
    BY <1>1, <1>5, <1>6, <1>8, <1>9, <1>10, <1>11, <1>12 DEF GoStep
  <1> QED BY <1>13, GoesOn

LEMMA SameBase ==
  ASSUME BaseInv, NEW p \in Procs,
         UNCHANGED <<ino, ref, lock, cwd, fd, k, kit, forgot, late>>,
         upset' \subseteq {"gone", "removed", "link"}
  PROVE  BaseInv'
  <1>1. TypeOK'
    BY DEF BaseInv, TypeOK, IsDir
  <1>2. Shapes' /\ Locks' /\ InUse'
    BY DEF BaseInv, Shapes, Locks, InUse, IsDir
  <1>3. RefsExact'
    BY DEF BaseInv, RefsExact, Places, Place
  <1> QED BY <1>1, <1>2, <1>3 DEF BaseInv

\* What create does, by what it finds.
Finds(p, old) ==
  /\ Iget(old) /\ UNCHANGED <<ino, lock>>
  /\ Go(p, [k[p] EXCEPT !.pc = "found", !.at = old, !.put = <<k[p].at>>])
  /\ upset' = upset \cup Gone(k[p].at, k[p].path[1])
  /\ old = Lookup(k[p].at, k[p].path[1])
MakesNew(p, n, i, kind) ==
  /\ MakeStep(p, k[p].at, n, i, kind)
  /\ n = k[p].path[1] /\ ino[k[p].at].entries[n] = None

LEMMA CreateCases ==
  ASSUME BaseInv, NEW p \in Procs, Create(p)
  PROVE  \/ /\ Return(p, <<k[p].at>>) /\ UNCHANGED <<ino, ref, lock, panic, upset>>
         \/ \E old \in Inums : Finds(p, old)
         \/ panic' = "ialloc" /\ UNCHANGED <<ino, ref, lock, k, upset>>
         \/ \E n \in Names, i \in Inums, kind \in {"file", "dir", "dev"} :
              MakesNew(p, n, i, kind)
  <1>1. k[p].pc \in Creating /\ k[p].put = <<>> /\ UNCHANGED <<cwd, fd, forgot, late>>
    BY DEF Create
  <1>2. PICK d \in Inums : d = k[p].at
    BY <1>1, Mine, InHand
  <1>3. ino[d].type = "dir" /\ k[p].path # <<>>
    <2>1. k[p].pc \in InDir
      BY <1>1 DEF InDir
    <2> QED BY <1>1, <1>2, <2>1, Mine, InHand, Hand DEF InUse, IsDir
  <1>4. PICK n \in Names \cup {".", ".."} : n = k[p].path[1]
    BY <1>3, NameOf
  <1>5. PICK old \in Inums \cup {None} : old = Lookup(d, n)
    BY LookupIn
  <1>6. PICK free : free = {j \in Inums : ino[j].type = "free"}
    OBVIOUS
  <1>7. PICK kind : kind = Kind(k[p].pc)
    OBVIOUS
  <1>8. kind \in {"file", "dir", "dev"}
    BY <1>7 DEF Kind
  <1>9. CASE ~ValidWrite(p, d)
    BY <1>2, <1>4, <1>5, <1>6, <1>7, <1>9 DEF Create
  <1>10. CASE ValidWrite(p, d) /\ old # None
    <2>1. /\ Iget(old) /\ UNCHANGED <<ino, lock>>
          /\ Go(p, [k[p] EXCEPT !.pc = "found", !.at = old, !.put = <<d>>])
          /\ upset' = upset \cup Gone(d, n)
      BY <1>2, <1>4, <1>5, <1>6, <1>7, <1>10 DEF Create
    <2>2. Finds(p, old)
      BY <1>2, <1>4, <1>5, <2>1 DEF Finds
    <2> QED BY <1>10, <2>2
  <1>11. CASE ValidWrite(p, d) /\ old = None /\ free = {}
    <2>1. Check("ialloc", FALSE) /\ UNCHANGED <<ino, ref, lock, k, upset>>
      BY <1>2, <1>4, <1>5, <1>6, <1>7, <1>11 DEF Create
    <2> QED BY <2>1 DEF Check
  <1>12. CASE ValidWrite(p, d) /\ old = None /\ free # {}
    <2>1. PICK i : i = Least(free)
      OBVIOUS
    <2>2. i \in Inums /\ ino[i].type = "free"
      <3>1. free \subseteq Inums
        BY <1>6
      <3>2. i \in free
        BY <1>12, <2>1, <3>1, LeastIn
      <3> QED BY <1>6, <3>2
    <2>3. n \in Names /\ ino[d].entries[n] = None
      BY <1>3, <1>5, <1>12, LookupIn DEF IsDir
    <2>4. /\ Iget(i) /\ lock' = [lock EXCEPT ![i] = p]
          /\ ino' = [ino EXCEPT ![d].entries[n] = i,
                                ![d].nlink = IF kind = "dir" THEN @ + 1 ELSE @,
                                ![i] = NewInode(p, kind, d)]
          /\ Go(p, [k[p] EXCEPT !.pc = "created", !.at = None, !.ip = i, !.put = <<d>>])
          /\ upset' = upset \cup If(ino[d].nlink = 0, "removed")
      BY <1>2, <1>4, <1>5, <1>6, <1>7, <1>12, <2>1 DEF Create
    <2>5. MakeStep(p, d, n, i, kind)
      BY <1>1, <1>2, <1>3, <1>8, <2>2, <2>3, <2>4 DEF MakeStep
    <2>6. MakesNew(p, n, i, kind)
      BY <1>2, <1>4, <2>3, <2>5 DEF MakesNew
    <2> QED BY <1>8, <2>2, <2>3, <2>6
  <1> QED BY <1>9, <1>10, <1>11, <1>12

LEMMA CreateBase == ASSUME BaseInv, NEW p \in Procs, Create(p), kit' = kit PROVE BaseInv'
  <1>1. k[p].pc \in Creating /\ k[p].put = <<>> /\ UNCHANGED <<cwd, fd, forgot, late>>
    BY DEF Create
  <1>2. k[p].at \in Inums /\ k[p].ip = None /\ k[p].pc \in Loose
    BY <1>1, Mine, InHand DEF Loose, Calls
  <1>3. CASE Return(p, <<k[p].at>>) /\ UNCHANGED <<ino, ref, lock, panic, upset>>
    <2>1. PutStep(p, k[p].at)
      BY <1>1, <1>2, <1>3, Mine DEF PutStep, OneHeld, LockGone
    <2> QED BY <2>1, PutBase
  <1>4. ASSUME NEW old \in Inums, Finds(p, old) PROVE BaseInv'
    <2>1. /\ Iget(old) /\ UNCHANGED <<ino, lock>>
          /\ Go(p, [k[p] EXCEPT !.pc = "found", !.at = old, !.put = <<k[p].at>>])
      BY <1>4 DEF Finds
    <2>2. upset' \subseteq {"gone", "removed", "link"}
      BY <1>4, Mine DEF Gone, If, Finds
    <2> QED BY <1>1, <2>1, <2>2, CreateOld
  <1>5. CASE UNCHANGED <<ino, ref, lock, k, upset>>
    <2>1. upset' \subseteq {"gone", "removed", "link"}
      BY <1>5, Mine
    <2> QED BY <1>1, <1>5, <2>1, SameBase
  <1>6. ASSUME NEW n, NEW i, NEW kind, MakesNew(p, n, i, kind) PROVE BaseInv'
    BY <1>6, MakeBase DEF MakesNew
  <1> QED BY <1>3, <1>4, <1>5, <1>6, CreateCases

-----------------------------------------------------------------------------
(* iput.                                                                   *)

LEMMA FirstPlace ==
  ASSUME BaseInv, NEW p \in Procs, k[p].put # <<>>
  PROVE  /\ Head(k[p].put) \in Inums /\ First(k[p].put) = Head(k[p].put)
         /\ <<p, "put">> \in Places(Head(k[p].put))
  <1>1. Head(k[p].put) \in Inums
    BY Mine, PutFirst
  <1>2. Place(p, "put") = Head(k[p].put) /\ First(k[p].put) = Head(k[p].put)
    BY DEF Place, First
  <1>3. <<p, "put">> \in Procs \X Wheres
    BY DEF Wheres
  <1> QED BY <1>1, <1>2, <1>3 DEF Places

\* An inode that is freed by an iput is in no other place.
LEMMA OnlyPlace ==
  ASSUME BaseInv, NEW p \in Procs, k[p].put # <<>>, ref[Head(k[p].put)] = 1
  PROVE  \A x \in Places(Head(k[p].put)) : x = <<p, "put">>
  <1>1. PICK i \in Inums : i = Head(k[p].put) /\ <<p, "put">> \in Places(i)
    BY FirstPlace
  <1>2. TypeOK /\ RefsExact
    BY Hand
  <1>3. ASSUME NEW y \in Places(i), y # <<p, "put">> PROVE FALSE
    <2>1. ref[i] >= 2
      BY <1>1, <1>2, <1>3, Placed
    <2> QED BY <1>1, <2>1
  <1> QED BY <1>1, <1>3

LEMMA PutTestBase == ASSUME BaseInv, NEW p \in Procs, PutTest(p), kit' = kit PROVE BaseInv'
  <1>1. k[p].put # <<>> /\ k[p].past = FALSE
    BY Mine DEF PutTest, Call
  <1>2. PICK i \in Inums : i = Head(k[p].put)
    BY <1>1, FirstPlace
  <1>3. /\ lock[i] = None /\ UNCHANGED <<ref, lock, cwd, fd, forgot>>
        /\ Go(p, [k[p] EXCEPT !.past = TRUE])
    BY <1>2 DEF PutTest
  <1>4. /\ ino' = IF ino[i].nlink = 0 /\ ref[i] = 1 THEN [ino EXCEPT ![i] = NoInode] ELSE ino
        /\ late' \subseteq Inums /\ upset' \subseteq {"gone", "removed", "link"}
    <2>1. ino' = IF ino[i].nlink = 0 /\ ref[i] = 1 THEN [ino EXCEPT ![i] = NoInode] ELSE ino
      BY <1>2 DEF PutTest
    <2>2. late' \subseteq late \cup {i}
      BY <1>2 DEF PutTest
    <2>3. upset' \subseteq upset \cup {"removed"}
      BY DEF PutTest, If
    <2> QED BY <2>1, <2>2, <2>3, Mine
  <1>5. /\ ino \in [Inums -> Inode] /\ InodesOK /\ k \in [Procs -> Call]
        /\ k[p] \in Call /\ Shape(k[p])
    BY Hand
  <1>6. PICK c : c = [k[p] EXCEPT !.past = TRUE]
    OBVIOUS
  <1>7. /\ c \in Call /\ c.past = TRUE
        /\ c.pc = k[p].pc /\ c.then = k[p].then /\ c.path = k[p].path
        /\ c.at = k[p].at /\ c.ip = k[p].ip /\ c.put = k[p].put
    BY <1>5, <1>6 DEF Call
  <1>8. Shape(c)
    BY <1>1, <1>5, <1>7 DEF Shape
  <1>9. Moves(p, c, cwd[p], fd[p])
    <2>1. k' = [k EXCEPT ![p] = c]
      BY <1>3, <1>6 DEF Go
    <2> QED BY <1>3, <1>4, <1>7, <1>8, <2>1, Mine DEF Moves
  <1>10. NoInode \in Inode /\ NoInode.type = "free" /\ NoInode.up = None
    <2>1. NoEntries \in [Names -> Inums \cup {None}]
      BY DEF NoEntries
    <2> QED BY <2>1 DEF NoInode, Inode
  <1>11. \A j \in Inums : j # i => ino'[j] = ino[j]
    BY <1>4, <1>5
  <1>12. ino' = ino \/ (ino'[i] = NoInode /\ ref[i] = 1)
    BY <1>4, <1>5
  <1>13. InodesOK'
    <2>1. ino' \in [Inums -> Inode]
      BY <1>4, <1>5, <1>10
    <2>2. ASSUME NEW j \in Inums
          PROVE  /\ ino'[j].type = "free" => ino'[j] = NoInode
                 /\ (ino'[j].up # None) = (ino'[j].type = "dir")
      <3>1. /\ ino[j].type = "free" => ino[j] = NoInode
            /\ (ino[j].up # None) = (ino[j].type = "dir")
        BY <1>5 DEF InodesOK, IsDir
      <3> QED BY <1>10, <1>11, <1>12, <3>1
    <2> QED BY <2>1, <2>2 DEF InodesOK, IsDir
  <1>14. \A j \in Inums : j = i /\ ino' # ino => \A x \in Places(j) : x = <<p, "put">>
    BY <1>1, <1>2, <1>12, OnlyPlace
  <1>15. Kept(p)
    BY <1>3, <1>11, <1>14, Constants DEF Kept
  <1>16. LocksStep(p, c)
    <2>1. Locked(c) = Locked(k[p])
      BY <1>7 DEF Locked
    <2>2. \A j \in Inums : /\ lock[j] # None => ino[j].type # "free"
                           /\ lock[j] = p <=> Locked(k[p]) = j
      BY Alloc
    <2>3. lock \in [Inums -> Procs \cup {None}]
      BY Hand
    <2> QED BY <1>3, <1>11, <2>1, <2>2, <2>3, Constants DEF LocksStep
  <1>17. RefStep(p, c, cwd[p], fd[p])
    <2>1. \A j \in Inums : Has(c, cwd[p], fd[p], j) = Has(k[p], cwd[p], fd[p], j)
      BY <1>7 DEF Has
    <2> QED BY <1>3, <2>1, HasNat, RefsEven
  <1>18. ASSUME NEW w \in Wheres, w # "put", Place(p, w) \in Inums
         PROVE  ino'[Place(p, w)] = ino[Place(p, w)]
    <2>1. <<p, w>> \in Places(Place(p, w)) /\ <<p, w>> # <<p, "put">>
      BY <1>18 DEF Places
    <2> QED BY <1>11, <1>14, <1>18, <2>1
  <1>19. Own(c, cwd[p], fd[p])
    <2>1. /\ "at" \in Wheres /\ "ip" \in Wheres /\ "cwd" \in Wheres /\ "fd" \in Wheres
          /\ Place(p, "at") = k[p].at /\ Place(p, "ip") = k[p].ip
          /\ Place(p, "cwd") = cwd[p] /\ Place(p, "fd") = fd[p]
      BY PlacesAre DEF Wheres
    <2>2. /\ k[p].at \in Inums => ino'[k[p].at] = ino[k[p].at]
          /\ k[p].ip \in Inums => ino'[k[p].ip] = ino[k[p].ip]
          /\ cwd[p] \in Inums => ino'[cwd[p]] = ino[cwd[p]]
          /\ fd[p] \in Inums => ino'[fd[p]] = ino[fd[p]]
      BY <1>18, <2>1
    <2>3. /\ k[p].pc \in InDir => k[p].at \in Inums /\ ino[k[p].at].type = "dir"
          /\ k[p].then = "linkto" => k[p].ip \in Inums /\ ino[k[p].ip].type \notin {"free", "dir"}
      <3>1. /\ k[p].pc \in InDir => k[p].at \in Inums
            /\ k[p].then = "linkto" => k[p].ip \in Inums
        BY <1>5 DEF Shape, Call, InDir, Creating
      <3> QED BY <3>1, Hand DEF InUse, IsDir
    <2>4. /\ cwd[p] \in Inums /\ ino[cwd[p]].type = "dir"
          /\ fd[p] # None => fd[p] \in Inums /\ ino[fd[p]].type # "free"
      BY Mine
    <2> QED BY <1>7, <2>2, <2>3, <2>4 DEF Own
  <1> QED BY <1>9, <1>13, <1>15, <1>16, <1>17, <1>19, BaseStep

LEMMA PutDoneBase == ASSUME BaseInv, NEW p \in Procs, PutDone(p), kit' = kit PROVE BaseInv'
  <1>1. /\ k[p].put # <<>> /\ UNCHANGED <<ino, lock, cwd, fd, forgot, late, upset, kit>>
        /\ Go(p, [k[p] EXCEPT !.past = FALSE, !.put = Tail(@)])
    BY DEF PutDone, history
  <1>2. PICK i \in Inums : i = Head(k[p].put)
    BY <1>1, FirstPlace
  <1>3. ref' = [ref EXCEPT ![i] = @ - 1]
    BY <1>2 DEF PutDone
  <1>4. /\ Tail(k[p].put) \in PutSeqs
        /\ \A j \in Inums : Puts(k[p].put, j) = Is(i, j) + Puts(Tail(k[p].put), j)
    BY <1>1, <1>2, Mine, PutFirst
  <1>5. PICK s : s = Tail(k[p].put)
    OBVIOUS
  <1>6. PICK c : c = [k[p] EXCEPT !.past = FALSE, !.put = s]
    OBVIOUS
  <1>7. /\ c \in Call /\ c.past = FALSE /\ c.put = s
        /\ c.pc = k[p].pc /\ c.then = k[p].then /\ c.path = k[p].path
        /\ c.at = k[p].at /\ c.ip = k[p].ip
    BY <1>4, <1>5, <1>6, Mine DEF Call
  <1>8. Shape(c)
    BY <1>7, Mine DEF Shape
  <1>9. KindsKept
    BY <1>1, Mine
  <1>10. LocksStep(p, c)
    <2>1. Locked(c) = Locked(k[p])
      BY <1>7 DEF Locked
    <2> QED BY <1>1, <2>1, SameLocks
  <1>11. RefStep(p, c, cwd[p], fd[p])
    <2>1. \A j \in Inums : Has(c, cwd[p], fd[p], j)
            = Is(k[p].at, j) + Is(k[p].ip, j) + Is(cwd[p], j) + Is(fd[p], j) + Puts(s, j)
      BY <1>7, HasAll
    <2>2. \A j \in Inums : Has(k[p], cwd[p], fd[p], j)
            = Is(k[p].at, j) + Is(k[p].ip, j) + Is(cwd[p], j) + Is(fd[p], j) + Puts(k[p].put, j)
      BY HasAll
    <2>3. \A j \in Inums : Has(k[p], cwd[p], fd[p], j) = Has(c, cwd[p], fd[p], j) + Is(i, j)
      <3>1. SUFFICES ASSUME NEW j \in Inums
                     PROVE  Has(k[p], cwd[p], fd[p], j) = Has(c, cwd[p], fd[p], j) + Is(i, j)
        OBVIOUS
      <3>2. /\ Is(k[p].at, j) \in Nat /\ Is(k[p].ip, j) \in Nat /\ Is(cwd[p], j) \in Nat
            /\ Is(fd[p], j) \in Nat /\ Is(i, j) \in Nat
        BY Iss
      <3>3. Puts(s, j) \in Nat /\ Puts(k[p].put, j) = Is(i, j) + Puts(s, j)
        BY <1>4, <1>5, PutsNat
      <3>4. Has(c, cwd[p], fd[p], j)
            = Is(k[p].at, j) + Is(k[p].ip, j) + Is(cwd[p], j) + Is(fd[p], j) + Puts(s, j)
        BY <2>1
      <3>5. Has(k[p], cwd[p], fd[p], j)
            = Is(k[p].at, j) + Is(k[p].ip, j) + Is(cwd[p], j) + Is(fd[p], j) + Puts(k[p].put, j)
        BY <2>2
      <3> QED BY <3>2, <3>3, <3>4, <3>5
    <2>4. ref \in [Inums -> Nat] /\ forgot \in [Inums -> 0 .. MaxForgot] /\ MaxForgot \in Nat
      BY Hand, Constants
    <2>5. \A j \in Inums : ref'[j] = ref[j] - Is(i, j)
      BY <1>3, <2>4 DEF Is
    <2>6. ref' \in [Inums -> Int]
      <3>1. ref[i] - 1 \in Int /\ ref \in [Inums -> Int]
        BY <2>4
      <3> QED BY <1>3, <3>1
    <2>7. ASSUME NEW j \in Inums
          PROVE  ref'[j] = ref[j] + Has(c, cwd[p], fd[p], j) - Has(k[p], cwd[p], fd[p], j)
                                + forgot'[j] - forgot[j]
      <3>1. Is(i, j) \in Nat /\ Has(c, cwd[p], fd[p], j) \in Nat
        BY Iss, HasNat
      <3>2. ref[j] \in Nat /\ forgot[j] \in Nat /\ forgot'[j] = forgot[j]
        BY <1>1, <2>4
      <3> QED BY <2>3, <2>5, <3>1, <3>2
    <2> QED BY <1>1, <2>4, <2>6, <2>7 DEF RefStep
  <1>12. /\ c.pc \in InDir => ino[c.at].type = "dir"
         /\ c.then = "linkto" => ino[c.ip].type \notin {"free", "dir"}
    BY <1>7, Hand DEF InUse, IsDir
  <1>13. GoStep(p, c)
    <2>1. k' = [k EXCEPT ![p] = c]
      BY <1>1, <1>5, <1>6 DEF Go
    <2> QED BY <1>1, <1>7, <1>8, <1>9, <1>10, <1>11, <1>12, <2>1, Mine DEF GoStep
  <1> QED BY <1>13, GoesOn

LEMMA NoTypeBase == ASSUME BaseInv, NEW p \in Procs, NoType(p), kit' = kit PROVE BaseInv'
  <1>1. UNCHANGED <<ino, ref, lock, cwd, fd, k, kit, forgot, late, upset>>
    BY DEF NoType, state, history
  <1> QED BY <1>1, Mine, SameBase

-----------------------------------------------------------------------------
LEMMA BaseInit == Init => BaseInv
  <1>1. SUFFICES ASSUME Init PROVE BaseInv
    OBVIOUS
  <1>2. /\ k = [p \in Procs |-> Idle] /\ cwd = [p \in Procs |-> ROOTINO]
        /\ fd = [p \in Procs |-> None] /\ lock = [i \in Inums |-> None]
        /\ forgot = [i \in Inums |-> 0] /\ kit \in Kits /\ late = {} /\ upset = {}
        /\ ref = [i \in Inums |-> IF i = ROOTINO THEN Cardinality(Procs) ELSE 0]
    BY <1>1 DEF Init
  <1>3. Idle \in Call /\ Shape(Idle) /\ Locked(Idle) = None
    <2>1. Idle = [pc |-> "idle", then |-> "none", path |-> <<>>, at |-> None, ip |-> None,
                  again |-> <<>>, put |-> <<>>, past |-> FALSE]
      BY DEF Idle
    <2>2. Idle \in Call
      BY <2>1, IdleCall, PutTypes
    <2>3. Shape(Idle)
      BY <2>1 DEF Shape, InDir, Creating
    <2>4. Locked(Idle) = None
      BY <2>1 DEF Locked
    <2> QED BY <2>2, <2>3, <2>4
  <1>4. /\ Idle.pc = "idle" /\ Idle.then = "none" /\ Idle.at = None /\ Idle.ip = None
        /\ Idle.put = <<>>
    BY DEF Idle
  <1>5. ROOTINO \in Inums /\ IsFiniteSet(Procs) /\ Cardinality(Procs) \in Nat
    BY RootIn, Constants, FS_CardinalityType
  <1>6. PICK r : r = [NoInode EXCEPT !.type = "dir", !.nlink = 1, !.up = ROOTINO, !.perms = {"r", "w"}]
    OBVIOUS
  <1>7. /\ r \in Inode /\ r.type = "dir" /\ r.up = ROOTINO
        /\ NoInode \in Inode /\ NoInode.type = "free" /\ NoInode.up = None
    <2>1. NoEntries \in [Names -> Inums \cup {None}]
      BY DEF NoEntries
    <2>2. NoInode = [type |-> "free", nlink |-> 0, up |-> None, entries |-> NoEntries,
                     owner |-> 0, perms |-> {}]
      BY DEF NoInode
    <2>3. NoInode \in Inode /\ NoInode.type = "free" /\ NoInode.up = None
      BY <2>1, <2>2 DEF Inode
    <2>4. r.type = "dir" /\ r.up = ROOTINO
      BY <1>6, <2>3 DEF Inode
    <2>5. r \in Inode
      <3>1. r = [type |-> "dir", nlink |-> 1, up |-> ROOTINO, entries |-> NoEntries,
                 owner |-> 0, perms |-> {"r", "w"}]
        BY <1>6, <2>2
      <3>2. {"r", "w"} \in SUBSET {"r", "w"}
        OBVIOUS
      <3> QED BY <1>5, <2>1, <3>1, <3>2 DEF Inode
    <2> QED BY <2>3, <2>4, <2>5
  <1>8. \A i \in Inums : ino[i] = IF i = ROOTINO THEN r ELSE NoInode
    BY <1>1, <1>6 DEF Init
  <1>9. InodesOK
    <2>1. ino \in [Inums -> Inode]
      <3>1. ino = [i \in Inums |-> IF i = ROOTINO THEN r ELSE NoInode]
        BY <1>1, <1>6 DEF Init
      <3> QED BY <1>7, <3>1
    <2>2. ASSUME NEW i \in Inums
          PROVE  /\ ino[i].type = "free" => ino[i] = NoInode
                 /\ (ino[i].up # None) = (ino[i].type = "dir")
      BY <1>5, <1>7, <1>8, Constants
    <2> QED BY <2>1, <2>2 DEF InodesOK, IsDir
  <1>10. TypeOK
    <2>1. /\ ref \in [Inums -> Nat] /\ lock \in [Inums -> Procs \cup {None}]
          /\ \A i \in Inums : lock[i] = None
      BY <1>2, <1>5
    <2>2. cwd \in [Procs -> Inums] /\ fd \in [Procs -> Inums \cup {None}] /\ k \in [Procs -> Call]
      BY <1>2, <1>3, <1>5
    <2>3. forgot \in [Inums -> 0 .. MaxForgot]
      BY <1>2, Constants
    <2> QED BY <1>2, <1>9, <2>1, <2>2, <2>3, TypeParts
  <1>11. Shapes
    BY <1>2, <1>3 DEF Shapes
  <1>12. Locks
    BY <1>2, <1>3, Constants DEF Locks
  <1>13. InUse
    <2>1. \A p \in Procs : k[p] = Idle /\ cwd[p] = ROOTINO /\ fd[p] = None
      BY <1>2
    <2>2. Idle.pc \notin InDir /\ Idle.then # "linkto"
      BY <1>4 DEF InDir, Creating
    <2>3. ino[ROOTINO].type = "dir"
      BY <1>5, <1>7, <1>8
    <2> QED BY <2>1, <2>2, <2>3 DEF InUse, IsDir
  <1>14. RefsExact
    <2>1. SUFFICES ASSUME NEW i \in Inums PROVE ref[i] = Cardinality(Places(i)) + forgot[i]
      BY DEF RefsExact
    <2>2. \A p \in Procs : /\ Place(p, "at") = None /\ Place(p, "ip") = None
                           /\ Place(p, "cwd") = ROOTINO /\ Place(p, "fd") = None
                           /\ Place(p, "put") = None /\ Place(p, "next") = None
      <3>1. Len(<<>>) < 2
        OBVIOUS
      <3> QED BY <1>2, <1>4, <3>1 DEF Place
    <2>3. CASE i # ROOTINO
      <3>1. Places(i) = {}
        <4>1. ASSUME NEW x \in Places(i) PROVE FALSE
          <5>1. x[1] \in Procs /\ x[2] \in Wheres /\ Place(x[1], x[2]) = i
            BY DEF Places
          <5>2. x[2] \in {"at", "ip", "cwd", "fd", "put", "next"}
            BY <5>1 DEF Wheres
          <5> QED BY <2>2, <2>3, <5>1, <5>2, Constants
        <4> QED BY <4>1
      <3>2. Cardinality(Places(i)) = 0
        BY <3>1, FS_EmptySet
      <3> QED BY <1>2, <2>3, <3>2
    <2>4. CASE i = ROOTINO
      <3>1. Places(i) = Procs \X {"cwd"}
        <4>1. ASSUME NEW x \in Places(i) PROVE x \in Procs \X {"cwd"}
          <5>1. x[1] \in Procs /\ x[2] \in Wheres /\ Place(x[1], x[2]) = i /\ x = <<x[1], x[2]>>
            BY DEF Places
          <5>2. x[2] \in {"at", "ip", "cwd", "fd", "put", "next"}
            BY <5>1 DEF Wheres
          <5>3. x[2] = "cwd"
            BY <1>5, <2>2, <2>4, <5>1, <5>2, Constants
          <5> QED BY <5>1, <5>3
        <4>2. ASSUME NEW q \in Procs PROVE <<q, "cwd">> \in Places(i)
          BY <2>2, <2>4 DEF Places, Wheres
        <4> QED BY <4>1, <4>2
      <3>2. IsFiniteSet({"cwd"}) /\ Cardinality({"cwd"}) = 1
        BY FS_Singleton
      <3>3. Cardinality(Procs \X {"cwd"}) = Cardinality(Procs) * 1
        BY <1>5, <3>2, FS_Product
      <3>4. ref[i] = Cardinality(Procs) /\ forgot[i] = 0
        BY <1>2, <2>4
      <3> QED BY <1>5, <3>1, <3>3, <3>4
    <2> QED BY <2>3, <2>4
  <1> QED BY <1>10, <1>11, <1>12, <1>13, <1>14 DEF BaseInv

LEMMA BaseNext == BaseInv /\ [Next]_vars => BaseInv'
  <1>1. SUFFICES ASSUME BaseInv, [Next]_vars PROVE BaseInv'
    OBVIOUS
  <1>2. CASE UNCHANGED vars
    <2>1. TypeOK'
      BY <1>1, <1>2 DEF BaseInv, TypeOK, IsDir, vars, state, history
    <2>2. Shapes' /\ Locks' /\ InUse'
      BY <1>1, <1>2 DEF BaseInv, Shapes, Locks, InUse, IsDir, vars, state, history
    <2>3. RefsExact'
      BY <1>1, <1>2 DEF BaseInv, RefsExact, Places, Place, vars, state, history
    <2> QED BY <2>1, <2>2, <2>3 DEF BaseInv
  <1>3. CASE Next
    <2>1. PICK p \in Procs : Step(p)
      BY <1>3 DEF Next
    <2>2. kit' = kit
      BY <1>3 DEF Next
    <2>3. CASE PutTest(p) \/ PutDone(p) \/ NoType(p)
      BY <1>1, <2>2, <2>3, PutTestBase, PutDoneBase, NoTypeBase
    <2>4. CASE Begin(p) \/ WalkNowhere(p) \/ Walk(p) \/ Open(p) \/ Close(p)
      BY <1>1, <2>2, <2>4, BeginBase, WalkNowhereBase, WalkBase, OpenBase, CloseBase
    <2>5. CASE Create(p) \/ Created(p) \/ CreateFound(p) \/ Link(p)
      BY <1>1, <2>2, <2>5, CreateBase, CreatedBase, CreateFoundBase, LinkBase
    <2>6. CASE LinkTo(p) \/ LinkTaken(p) \/ LinkBad(p) \/ Unlink(p)
      BY <1>1, <2>2, <2>6, LinkToBase, LinkTakenBase, LinkBadBase, UnlinkBase
    <2>7. CASE UnlinkChild(p) \/ UnlinkFull(p) \/ Unlinked(p) \/ Chdir(p)
      BY <1>1, <2>2, <2>7, UnlinkChildBase, UnlinkFullBase, UnlinkedBase, ChdirBase
    <2>8. CASE Chattr(p) \/ Exec(p) \/ Load(p)
      BY <1>1, <2>2, <2>8, ChattrBase, ExecBase, LoadBase
    <2> QED BY <2>1, <2>3, <2>4, <2>5, <2>6, <2>7, <2>8 DEF Step
  <1> QED BY <1>1, <1>2, <1>3

-----------------------------------------------------------------------------
(* What the steps of a process do to names and counts: nothing, or change  *)
(* a count, make an inode, enter a name or take one away.                  *)

\* The inode whose count and names the call has changed only one of.
Owes(c) == IF c.pc = "unlinked" \/ c.then = "linkto" THEN c.ip ELSE None

Others1(p) ==
  /\ \A q \in Procs \ {p} : k'[q] = k[q] /\ cwd'[q] = cwd[q] /\ fd'[q] = fd[q]
  /\ upset \subseteq upset' /\ late \subseteq late'
\* p puts nothing: the inodes keep their references.
More(p) ==
  /\ Others1(p) /\ k'[p].past = FALSE
  /\ \A i \in Inums : ref[i] <= ref'[i] /\ forgot[i] <= forgot'[i]
\* What p has in hand next: nothing, what it had, where a path starts, or what
\* a directory has.
Reached(p, x) ==
  \/ x \in {None, k[p].at} \cup From(p)
  \/ \E n \in Names \cup {".", ".."} :
       /\ k[p].at \in Inums /\ x = Lookup(k[p].at, n) /\ IsDir(k[p].at)
       /\ lock[k[p].at] = None /\ Gone(k[p].at, n) \subseteq upset'
Panics(p) ==
  \/ panic' \in {panic, "ialloc", "iget"}
  \/ panic' = "unlink" /\ k[p].pc = "child" /\ ino[k[p].ip].nlink < 1
  \/ NoType(p)
SameTree ==
  \A i \in Inums : /\ ino'[i].type = ino[i].type /\ ino'[i].nlink = ino[i].nlink
                   /\ ino'[i].up = ino[i].up /\ ino'[i].entries = ino[i].entries
ChildIs(c) == c.pc = "child" => ino[c.at].entries[c.path[1]] = c.ip

Quiet(p) ==
  /\ More(p) /\ SameTree /\ Owes(k'[p]) = Owes(k[p]) /\ ChildIs(k'[p])
  /\ Reached(p, k'[p].at) /\ Panics(p)
\* link counts an inode, or a call gives a count back.
Counts(p, i, more) ==
  /\ More(p) /\ i \in Inums /\ ino[i].type # "free"
  /\ ino' = IF more THEN [ino EXCEPT ![i].nlink = @ + 1] ELSE [ino EXCEPT ![i].nlink = @ - 1]
  /\ IF more THEN Owes(k[p]) = None /\ Owes(k'[p]) = i
             ELSE Owes(k[p]) = i /\ Owes(k'[p]) = None
  /\ \E w \in Wheres : Place(p, w)' = i
  /\ k'[p].pc # "child" /\ Reached(p, k'[p].at) /\ Panics(p)
Makes(p, d, n, i, kind) ==
  /\ More(p) /\ MakeStep(p, d, n, i, kind) /\ ino[d].entries[n] = None
  /\ Owes(k'[p]) = None /\ Owes(k[p]) = None /\ k'[p].at = None /\ k'[p].ip = i
  /\ k'[p].pc = "created" /\ k'[p].put = <<d>> /\ lock[d] = None /\ Panics(p)
\* link enters the name.
Enters(p, d, n, i) ==
  /\ More(p) /\ d \in Inums /\ i \in Inums /\ n \in Names
  /\ ino[d].type = "dir" /\ ino[d].entries[n] = None /\ ino[i].type \notin {"free", "dir"}
  /\ lock[d] = None /\ ino' = [ino EXCEPT ![d].entries[n] = i]
  /\ Owes(k[p]) = i /\ (Owes(k'[p]) = None \/ "link" \in upset')
  /\ (ino[d].nlink = 0 => "removed" \in upset')
  /\ k'[p].pc # "child" /\ k'[p].at = None /\ Panics(p)
\* unlink takes the name away.
Removes(p, d, n, i) ==
  /\ More(p) /\ d \in Inums /\ i \in Inums /\ n \in Names /\ i # d
  /\ k[p].pc = "child" /\ k[p].at = d /\ k[p].ip = i /\ k[p].path[1] = n
  /\ lock[d] = p /\ ino[d].type = "dir" /\ ino[i].type # "free"
  /\ (IsDir(i) => ino[i].entries = NoEntries)
  /\ ino' = [ino EXCEPT ![d].entries[n] = None, ![d].nlink = IF IsDir(i) THEN @ - 1 ELSE @]
  /\ Owes(k[p]) = None /\ Owes(k'[p]) = i
  /\ k'[p].pc = "unlinked" /\ k'[p].at = None /\ k'[p].put = <<d>> /\ Panics(p)

Effect(p) ==
  \/ Quiet(p) \/ PutTest(p) \/ PutDone(p)
  \/ \E i \in Inums : \E more \in BOOLEAN : Counts(p, i, more)
  \/ \E d, i \in Inums, n \in Names :
       \/ \E kind \in {"file", "dir", "dev"} : Makes(p, d, n, i, kind)
       \/ Enters(p, d, n, i) \/ Removes(p, d, n, i)

LEMMA RefsGrow ==
  ASSUME BaseInv, NEW p \in Procs, forgot' = forgot,
         ref' = ref \/ (\E j \in Inums : ref' = [ref EXCEPT ![j] = @ + 1])
  PROVE  \A i \in Inums : ref[i] <= ref'[i] /\ forgot[i] <= forgot'[i]
  <1>1. ref \in [Inums -> Nat] /\ forgot \in [Inums -> 0 .. MaxForgot] /\ MaxForgot \in Nat
    BY Hand, Constants
  <1> QED BY <1>1

LEMMA ForgetGrows ==
  ASSUME BaseInv, NEW p \in Procs, NEW i \in Inums, Forget(i),
         ref' = ref \/ (\E j \in Inums : ref' = [ref EXCEPT ![j] = @ + 1])
  PROVE  \A j \in Inums : ref[j] <= ref'[j] /\ forgot[j] <= forgot'[j]
  <1>1. ref \in [Inums -> Nat] /\ forgot \in [Inums -> 0 .. MaxForgot] /\ MaxForgot \in Nat
    BY Hand, Constants
  <1>2. \A j \in Inums : forgot'[j] = forgot[j] + Is(i, j)
    BY ForgetIs
  <1>3. \A j \in Inums : Is(i, j) \in Nat
    BY Iss
  <1> QED BY <1>1, <1>2, <1>3

\* A step that only changes what p is in the middle of.
LEMMA OneMoves ==
  ASSUME BaseInv, NEW p \in Procs, NEW c, k' = [k EXCEPT ![p] = c],
         cwd' = cwd \/ (\E d : cwd' = [cwd EXCEPT ![p] = d]),
         fd' = fd \/ (\E f : fd' = [fd EXCEPT ![p] = f]),
         upset \subseteq upset', late' = late
  PROVE  Others1(p) /\ k'[p] = c
  <1>1. k \in [Procs -> Call] /\ cwd \in [Procs -> Inums] /\ fd \in [Procs -> Inums \cup {None}]
    BY Hand
  <1> QED BY <1>1 DEF Others1

QuietReturn(p, s) ==
  /\ Return(p, s) /\ s \in PutSeqs /\ SameTree /\ k[p].pc # "unlinked" /\ k[p].then # "linkto"
  /\ cwd' = cwd \/ (\E d : cwd' = [cwd EXCEPT ![p] = d])
  /\ fd' = fd \/ (\E f : fd' = [fd EXCEPT ![p] = f])
  /\ upset \subseteq upset' /\ late' = late /\ ref' = ref /\ Panics(p)
  /\ \A i \in Inums : ref[i] <= ref'[i] /\ forgot[i] <= forgot'[i]

LEMMA ReturnsQuiet ==
  ASSUME BaseInv, NEW p \in Procs, NEW s, QuietReturn(p, s)
  PROVE  Quiet(p)
  <1>1. s \in PutSeqs /\ k' = [k EXCEPT ![p] = Back(s)]
    BY DEF QuietReturn, Return, Go, Back
  <1>2. /\ Back(s).pc = "idle" /\ Back(s).then = "none" /\ Back(s).at = None
        /\ Back(s).past = FALSE
    BY <1>1, ReturnIs
  <1>3. Others1(p) /\ k'[p] = Back(s)
    <2>1. /\ cwd' = cwd \/ (\E d : cwd' = [cwd EXCEPT ![p] = d])
          /\ fd' = fd \/ (\E f : fd' = [fd EXCEPT ![p] = f])
          /\ upset \subseteq upset' /\ late' = late
      BY DEF QuietReturn
    <2> QED BY <1>1, <2>1, OneMoves
  <1>4. More(p)
    BY <1>2, <1>3 DEF More, QuietReturn
  <1>5. Owes(k'[p]) = Owes(k[p])
    BY <1>2, <1>3 DEF Owes, QuietReturn
  <1>6. ChildIs(k'[p]) /\ Reached(p, k'[p].at)
    BY <1>2, <1>3 DEF ChildIs, Reached
  <1> QED BY <1>4, <1>5, <1>6 DEF Quiet, QuietReturn

LEMMA SameTrees == ino' = ino => SameTree
BY DEF SameTree

LEMMA NoTypeQuiet == ASSUME BaseInv, NEW p \in Procs, NoType(p), Unlinks PROVE Quiet(p)
  <1>1. /\ UNCHANGED <<ino, ref, lock, cwd, fd, k, forgot, late, upset>> /\ k[p].put = <<>>
        /\ k = [k EXCEPT ![p] = k[p]]
    BY Hand DEF NoType, state, history
  <1>2. Others1(p)
    BY <1>1 DEF Others1
  <1>3. \A i \in Inums : ref[i] <= ref'[i] /\ forgot[i] <= forgot'[i]
    BY <1>1, RefsGrow
  <1>4. k'[p].past = FALSE
    BY <1>1, Mine, InHand
  <1>5. More(p)
    BY <1>2, <1>3, <1>4 DEF More
  <1>6. Owes(k'[p]) = Owes(k[p]) /\ Reached(p, k'[p].at) /\ ChildIs(k'[p])
    BY <1>1 DEF Owes, Reached, ChildIs, Unlinks
  <1>7. Panics(p) /\ SameTree
    BY <1>1, SameTrees DEF Panics
  <1> QED BY <1>5, <1>6, <1>7 DEF Quiet

\* The steps that return and leave the tree alone.
LEMMA OpenQuiet == ASSUME BaseInv, NEW p \in Procs, Open(p) PROVE Quiet(p)
  <1>1. /\ k[p].pc = "open" /\ k[p].put = <<>> /\ UNCHANGED <<ino, ref, cwd, panic, forgot, late, upset>>
    BY DEF Open, At, history
  <1>2. k[p].at \in Inums /\ k[p].then = "open"
    BY <1>1, Mine, InHand
  <1>3. \A i \in Inums : ref[i] <= ref'[i] /\ forgot[i] <= forgot'[i]
    BY <1>1, RefsGrow
  <1>4. PICK s \in PutSeqs : /\ Return(p, s)
                             /\ fd' = fd \/ (\E f : fd' = [fd EXCEPT ![p] = f])
    BY <1>2, PutTypes DEF Open
  <1>5. QuietReturn(p, s)
    BY <1>1, <1>2, <1>3, <1>4, SameTrees DEF QuietReturn, Panics
  <1> QED BY <1>5, ReturnsQuiet

LEMMA CloseQuiet == ASSUME BaseInv, NEW p \in Procs, Close(p) PROVE Quiet(p)
  <1>1. /\ k[p].pc = "idle" /\ k[p].put = <<>> /\ UNCHANGED <<ino, ref, cwd, panic, forgot, late, upset>>
        /\ Return(p, <<fd[p]>>) /\ fd' = [fd EXCEPT ![p] = None] /\ fd[p] # None
    BY DEF Close, At, history
  <1>2. k[p].then = "none" /\ <<fd[p]>> \in PutSeqs
    BY <1>1, Mine, InHand, PutTypes
  <1>3. \A i \in Inums : ref[i] <= ref'[i] /\ forgot[i] <= forgot'[i]
    BY <1>1, RefsGrow
  <1>4. QuietReturn(p, <<fd[p]>>)
    BY <1>1, <1>2, <1>3, SameTrees DEF QuietReturn, Panics
  <1> QED BY <1>4, ReturnsQuiet

LEMMA KeepIs ==
  ASSUME NEW p, NEW i \in Inums, Keep(p, i)
  PROVE  \E s \in PutSeqs : Return(p, s) /\ (fd' = fd \/ (\E f : fd' = [fd EXCEPT ![p] = f]))
BY PutTypes DEF Keep

LEMMA CreatedQuiet == ASSUME BaseInv, NEW p \in Procs, Created(p) PROVE Quiet(p)
  <1>1. /\ k[p].pc = "created" /\ k[p].put = <<>> /\ UNCHANGED <<ino, ref, cwd, panic, forgot, late, upset>>
        /\ Keep(p, k[p].ip)
    BY DEF Created, At, history
  <1>2. k[p].ip \in Inums /\ k[p].then # "linkto"
    BY <1>1, Mine, InHand DEF Creating
  <1>3. \A i \in Inums : ref[i] <= ref'[i] /\ forgot[i] <= forgot'[i]
    BY <1>1, RefsGrow
  <1>4. PICK s \in PutSeqs : /\ Return(p, s)
                             /\ fd' = fd \/ (\E f : fd' = [fd EXCEPT ![p] = f])
    BY <1>1, <1>2, KeepIs
  <1>5. QuietReturn(p, s)
    BY <1>1, <1>2, <1>3, <1>4, SameTrees DEF QuietReturn, Panics
  <1> QED BY <1>5, ReturnsQuiet

LEMMA CreateFoundQuiet == ASSUME BaseInv, NEW p \in Procs, CreateFound(p) PROVE Quiet(p)
  <1>1. k[p].pc = "found" /\ k[p].put = <<>> /\ UNCHANGED <<ino, ref, cwd, panic, forgot, late, upset>>
    BY DEF CreateFound, At, history
  <1>2. k[p].at \in Inums /\ k[p].then # "linkto"
    BY <1>1, Mine, InHand DEF Creating
  <1>3. \A i \in Inums : ref[i] <= ref'[i] /\ forgot[i] <= forgot'[i]
    BY <1>1, RefsGrow
  <1>4. PICK s \in PutSeqs : /\ Return(p, s)
                             /\ fd' = fd \/ (\E f : fd' = [fd EXCEPT ![p] = f])
    <2>1. Keep(p, k[p].at) \/ (Return(p, <<k[p].at>>) /\ UNCHANGED fd)
      BY DEF CreateFound
    <2> QED BY <1>2, <2>1, KeepIs, PutTypes
  <1>5. QuietReturn(p, s)
    BY <1>1, <1>2, <1>3, <1>4, SameTrees DEF QuietReturn, Panics
  <1> QED BY <1>5, ReturnsQuiet

LEMMA UnlinkFullQuiet == ASSUME BaseInv, NEW p \in Procs, UnlinkFull(p) PROVE Quiet(p)
  <1>1. /\ k[p].pc = "full" /\ k[p].put = <<>> /\ Return(p, <<k[p].at>>)
        /\ UNCHANGED <<ino, ref, cwd, fd, panic, forgot, late, upset>>
    BY DEF UnlinkFull, At, history
  <1>2. <<k[p].at>> \in PutSeqs /\ k[p].then = "unlink"
    BY <1>1, Mine, InHand, PutTypes
  <1>3. \A i \in Inums : ref[i] <= ref'[i] /\ forgot[i] <= forgot'[i]
    BY <1>1, RefsGrow
  <1>4. QuietReturn(p, <<k[p].at>>)
    BY <1>1, <1>2, <1>3, SameTrees DEF QuietReturn, Panics
  <1> QED BY <1>4, ReturnsQuiet

LEMMA LoadQuiet == ASSUME BaseInv, NEW p \in Procs, Load(p) PROVE Quiet(p)
  <1>1. /\ k[p].pc = "load" /\ k[p].put = <<>> /\ Return(p, <<k[p].at>>)
        /\ UNCHANGED <<ino, ref, cwd, fd, panic, forgot, late, upset>>
    BY DEF Load, At, state, history
  <1>2. <<k[p].at>> \in PutSeqs /\ k[p].then = "load"
    BY <1>1, Mine, InHand, PutTypes
  <1>3. \A i \in Inums : ref[i] <= ref'[i] /\ forgot[i] <= forgot'[i]
    BY <1>1, RefsGrow
  <1>4. QuietReturn(p, <<k[p].at>>)
    BY <1>1, <1>2, <1>3, SameTrees DEF QuietReturn, Panics
  <1> QED BY <1>4, ReturnsQuiet

LEMMA ChdirQuiet == ASSUME BaseInv, NEW p \in Procs, Chdir(p) PROVE Quiet(p)
  <1>1. k[p].pc = "chdir" /\ k[p].put = <<>> /\ UNCHANGED <<ino, ref, fd, panic, forgot, late, upset>>
    BY DEF Chdir, At, history
  <1>2. k[p].at \in Inums /\ k[p].then = "chdir"
    BY <1>1, Mine, InHand
  <1>3. \A i \in Inums : ref[i] <= ref'[i] /\ forgot[i] <= forgot'[i]
    BY <1>1, RefsGrow
  <1>4. PICK s \in PutSeqs : /\ Return(p, s)
                             /\ cwd' = cwd \/ (\E d : cwd' = [cwd EXCEPT ![p] = d])
    BY <1>2, Mine, PutTypes DEF Chdir
  <1>5. QuietReturn(p, s)
    BY <1>1, <1>2, <1>3, <1>4, SameTrees DEF QuietReturn, Panics
  <1> QED BY <1>5, ReturnsQuiet

LEMMA ChattrQuiet == ASSUME BaseInv, NEW p \in Procs, Chattr(p) PROVE Quiet(p)
  <1>1. k[p].pc = "chattr" /\ k[p].put = <<>> /\ UNCHANGED <<ref, cwd, fd, panic, late, upset>>
    BY DEF Chattr, At
  <1>2. PICK i \in Inums : i = k[p].at /\ k[p].then = "chattr"
    BY <1>1, Mine, InHand
  <1>3. CASE ValidOwner(p, i)
    <2>1. Return(p, <<i>>) /\ UNCHANGED forgot
      BY <1>2, <1>3 DEF Chattr
    <2>2. \/ \E perms \in SUBSET {"r", "w"} : ino' = [ino EXCEPT ![i].perms = perms]
          \/ \E q \in Procs : ino' = [ino EXCEPT ![i].owner = uid[q]]
      BY <1>2, <1>3 DEF Chattr
    <2>3. SameTree
      <3>1. ino \in [Inums -> Inode]
        BY Hand
      <3>2. ASSUME NEW j \in Inums
            PROVE  /\ ino'[j].type = ino[j].type /\ ino'[j].nlink = ino[j].nlink
                   /\ ino'[j].up = ino[j].up /\ ino'[j].entries = ino[j].entries
        BY <2>2, <3>1 DEF Inode
      <3> QED BY <3>2 DEF SameTree
    <2>4. \A j \in Inums : ref[j] <= ref'[j] /\ forgot[j] <= forgot'[j]
      BY <1>1, <2>1, RefsGrow
    <2>5. QuietReturn(p, <<i>>)
      BY <1>1, <1>2, <2>1, <2>3, <2>4, PutTypes DEF QuietReturn, Panics
    <2> QED BY <2>5, ReturnsQuiet
  <1>4. CASE ~ValidOwner(p, i)
    <2>1. Forget(i) /\ Return(p, <<>>) /\ UNCHANGED ino
      BY <1>2, <1>4 DEF Chattr
    <2>2. \A j \in Inums : ref[j] <= ref'[j] /\ forgot[j] <= forgot'[j]
      BY <1>1, <2>1, ForgetGrows
    <2>3. QuietReturn(p, <<>>)
      BY <1>1, <1>2, <2>1, <2>2, SameTrees, PutTypes DEF QuietReturn, Panics
    <2> QED BY <2>3, ReturnsQuiet
  <1> QED BY <1>3, <1>4

\* The steps that go on, and leave the tree alone.
QuietStep(p, c) ==
  /\ k' = [k EXCEPT ![p] = c] /\ c.past = FALSE /\ Owes(c) = Owes(k[p]) /\ ChildIs(c)
  /\ Reached(p, c.at) /\ Panics(p) /\ ino' = ino /\ UNCHANGED <<cwd, fd, late>>
  /\ upset \subseteq upset'
  /\ \A i \in Inums : ref[i] <= ref'[i] /\ forgot[i] <= forgot'[i]

LEMMA StepsQuiet ==
  ASSUME BaseInv, NEW p \in Procs, NEW c, QuietStep(p, c)
  PROVE  Quiet(p)
  <1>1. /\ k' = [k EXCEPT ![p] = c] /\ UNCHANGED <<cwd, fd, late>> /\ upset \subseteq upset'
    BY DEF QuietStep
  <1>2. Others1(p) /\ k'[p] = c
    BY <1>1, OneMoves
  <1>3. More(p)
    BY <1>2 DEF More, QuietStep
  <1> QED BY <1>2, <1>3, SameTrees DEF Quiet, QuietStep

LEMMA IgetIs ==
  ASSUME NEW i, Iget(i)
  PROVE  ref' = [ref EXCEPT ![i] = @ + 1] /\ panic' \in {panic, "iget"}
BY DEF Iget, Check

LEMMA OwesIs ==
  /\ \A c : c.pc # "unlinked" /\ c.then # "linkto" => Owes(c) = None
  /\ \A c : c.then = "linkto" => Owes(c) = c.ip
  /\ \A c : c.pc = "unlinked" => Owes(c) = c.ip
BY DEF Owes

\* A path is started on.
Walks(p, call, path, from, ip) ==
  /\ call \in Calls \cup {"linkto", "load"} /\ path \in NamePath /\ from \in From(p)
  /\ ip \in Inums \cup {None} /\ (ip = None <=> call # "linkto") /\ Start(p, from, call, path, ip)
Walked(p, c, from, ip) ==
  /\ k' = [k EXCEPT ![p] = c] /\ c.past = FALSE /\ Owes(c) = ip /\ c.pc = "walk"
  /\ c.at = from /\ c.ip = ip /\ ref' = [ref EXCEPT ![from] = @ + 1] /\ panic' \in {panic, "iget"}
  /\ from \in Inums

LEMMA WalkerStep ==
  ASSUME BaseInv, NEW p \in Procs, NEW call, NEW path, NEW from, NEW ip,
         Walks(p, call, path, from, ip)
  PROVE  \E c : Walked(p, c, from, ip)
  <1>1. /\ call \in Calls \cup {"linkto", "load"} /\ path \in NamePath
        /\ from \in Inums /\ ip \in Inums \cup {None} /\ (ip = None <=> call # "linkto")
    BY FromIn DEF Walks
  <1>2. PICK c : c = Walker(call, path, from, ip)
    OBVIOUS
  <1>3. /\ Shape(c) /\ c \in Call /\ c.pc = "walk" /\ c.then = call /\ c.at = from /\ c.ip = ip
        /\ c.put = <<>>
    BY <1>1, <1>2, WalkerIs
  <1>4. c.past = FALSE
    BY <1>3, InHand
  <1>5. Owes(c) = ip
    <2>1. c.pc # "unlinked"
      BY <1>3
    <2> QED BY <1>1, <1>3, <2>1, OwesIs
  <1>6. k' = [k EXCEPT ![p] = c] /\ Iget(from)
    BY <1>2 DEF Walks, Start, Go, Walker
  <1> QED BY <1>1, <1>3, <1>4, <1>5, <1>6, IgetIs DEF Walked

LEMMA BeginQuiet == ASSUME BaseInv, NEW p \in Procs, Begin(p) PROVE Quiet(p)
  <1>1. k[p].pc = "idle" /\ k[p].put = <<>> /\ UNCHANGED <<ino, lock, cwd, fd, forgot, late, upset>>
    BY DEF Begin, At, history
  <1>2. PICK call \in kit.calls[p], path \in kit.paths[p], from \in From(p) :
          Start(p, from, call, path, None)
    BY DEF Begin
  <1>3. call \in Calls \cup {"linkto", "load"} /\ path \in NamePath /\ call # "linkto"
    BY PathIn DEF Calls, Creating
  <1>4. PICK c : Walked(p, c, from, None)
    <2>1. Walks(p, call, path, from, None)
      BY <1>2, <1>3 DEF Walks
    <2> QED BY <2>1, WalkerStep
  <1>5. /\ k' = [k EXCEPT ![p] = c] /\ c.past = FALSE /\ Owes(c) = None /\ c.pc = "walk"
        /\ c.at = from /\ panic' \in {panic, "iget"} /\ ref' = [ref EXCEPT ![from] = @ + 1]
        /\ from \in Inums
    BY <1>4 DEF Walked
  <1>6. Owes(k[p]) = None
    BY <1>1, Mine, InHand, OwesIs
  <1>7. \A i \in Inums : ref[i] <= ref'[i] /\ forgot[i] <= forgot'[i]
    BY <1>1, <1>5, RefsGrow
  <1>8. QuietStep(p, c)
    BY <1>1, <1>5, <1>6, <1>7 DEF QuietStep, ChildIs, Reached, Panics
  <1> QED BY <1>8, StepsQuiet

LEMMA ExecQuiet == ASSUME BaseInv, NEW p \in Procs, Exec(p) PROVE Quiet(p)
  <1>1. k[p].pc = "exec" /\ k[p].put = <<>> /\ UNCHANGED <<ino, lock, cwd, fd, late, upset>>
    BY DEF Exec, At
  <1>2. PICK i \in Inums : i = k[p].at /\ k[p].then = "exec"
    BY <1>1, Mine, InHand
  <1>3. Forget(i) /\ Owes(k[p]) = None
    BY <1>1, <1>2, OwesIs DEF Exec
  <1>4. CASE ValidRead(p, i)
    <2>1. PICK path \in kit.paths[p], from \in From(p) : Start(p, from, "load", path, None)
      BY <1>2, <1>4 DEF Exec
    <2>2. path \in NamePath
      BY PathIn
    <2>3. PICK c : Walked(p, c, from, None)
      <3>1. Walks(p, "load", path, from, None)
        BY <2>1, <2>2 DEF Walks
      <3> QED BY <3>1, WalkerStep
    <2>4. /\ k' = [k EXCEPT ![p] = c] /\ c.past = FALSE /\ Owes(c) = None /\ c.pc = "walk"
          /\ c.at = from /\ panic' \in {panic, "iget"} /\ ref' = [ref EXCEPT ![from] = @ + 1]
          /\ from \in Inums
      BY <2>3 DEF Walked
    <2>5. \A j \in Inums : ref[j] <= ref'[j] /\ forgot[j] <= forgot'[j]
      BY <1>3, <2>4, ForgetGrows
    <2>6. QuietStep(p, c)
      BY <1>1, <1>3, <2>4, <2>5 DEF QuietStep, ChildIs, Reached, Panics
    <2> QED BY <2>6, StepsQuiet
  <1>5. CASE ~ValidRead(p, i)
    <2>1. Return(p, <<>>) /\ UNCHANGED <<ref, panic>>
      BY <1>2, <1>5 DEF Exec
    <2>2. \A j \in Inums : ref[j] <= ref'[j] /\ forgot[j] <= forgot'[j]
      BY <1>3, <2>1, ForgetGrows
    <2>3. QuietReturn(p, <<>>)
      BY <1>1, <1>2, <2>1, <2>2, SameTrees, PutTypes DEF QuietReturn, Panics
    <2> QED BY <2>3, ReturnsQuiet
  <1> QED BY <1>4, <1>5

\* link fails, and has still to give back the count.
Refused(p, c) ==
  /\ k' = [k EXCEPT ![p] = c] /\ c.past = FALSE /\ c.pc = "linkbad"
  /\ c.then = "linkto" /\ c.at = None /\ c.ip = k[p].ip /\ Owes(c) = Owes(k[p])

LEMMA RefusedIs ==
  ASSUME BaseInv, NEW p \in Procs, NEW d \in Inums, k[p].then = "linkto", k[p].put = <<>>,
         LinkRefused(p, <<d>>)
  PROVE  \E c : Refused(p, c)
  <1>1. PICK c : c = [k[p] EXCEPT !.pc = "linkbad", !.at = None, !.put = <<d>>]
    OBVIOUS
  <1>2. k' = [k EXCEPT ![p] = c] /\ k[p] \in Call /\ k[p].past = FALSE
    BY <1>1, Mine, InHand DEF LinkRefused, Go
  <1>3. /\ c.pc = "linkbad" /\ c.at = None /\ c.then = "linkto" /\ c.ip = k[p].ip
        /\ c.past = FALSE
    BY <1>1, <1>2 DEF Call
  <1>4. Owes(c) = Owes(k[p])
    BY <1>3, OwesIs
  <1> QED BY <1>2, <1>3, <1>4 DEF Refused

LEMMA RefusedQuiet ==
  ASSUME BaseInv, NEW p \in Procs, NEW d \in Inums, k[p].then = "linkto", k[p].put = <<>>,
         LinkRefused(p, <<d>>), UNCHANGED <<ino, ref, cwd, fd, panic, forgot, late>>,
         upset \subseteq upset'
  PROVE  Quiet(p)
  <1>1. PICK c : Refused(p, c)
    BY RefusedIs
  <1>2. \A j \in Inums : ref[j] <= ref'[j] /\ forgot[j] <= forgot'[j]
    BY RefsGrow
  <1>3. QuietStep(p, c)
    BY <1>1, <1>2 DEF QuietStep, ChildIs, Reached, Panics, Refused
  <1> QED BY <1>3, StepsQuiet

LEMMA LinkTakenQuiet == ASSUME BaseInv, NEW p \in Procs, LinkTaken(p) PROVE Quiet(p)
  <1>1. /\ k[p].pc = "taken" /\ k[p].put = <<>> /\ LinkRefused(p, <<k[p].at>>)
        /\ UNCHANGED <<ino, ref, cwd, fd, panic, forgot, late, upset>>
    BY DEF LinkTaken, At, history
  <1>2. k[p].at \in Inums /\ k[p].then = "linkto"
    BY <1>1, Mine, InHand
  <1> QED BY <1>1, <1>2, RefusedQuiet

LEMMA WalkQuiet == ASSUME BaseInv, NEW p \in Procs, Walk(p) PROVE Quiet(p)
  <1>1. k[p].pc = "walk" /\ k[p].put = <<>> /\ k[p].past = FALSE /\ k[p].path # <<>>
    <2>1. k[p].pc = "walk" /\ k[p].put = <<>> /\ k[p].path # <<>>
      BY DEF Walk, At
    <2> QED BY <2>1, Mine, InHand
  <1>2. PICK d \in Inums : d = k[p].at
    BY <1>1, Mine, InHand
  <1>3. PICK name \in Names \cup {".", ".."} : name = Head(k[p].path)
    BY <1>1, NameOf
  <1>4. PICK next \in Inums \cup {None} : next = Lookup(d, name)
    BY LookupIn
  <1>5. /\ UNCHANGED <<ino, cwd, fd, forgot, late>> /\ upset \subseteq upset'
        /\ lock[d] = None
    BY <1>1, <1>2, <1>3 DEF Walk, Ilock, Target
  <1>6. CASE Fails(p, <<d>>) /\ UNCHANGED <<ref, panic>>
    <2>1. CASE k[p].then = "linkto"
      BY <1>1, <1>5, <1>6, <2>1, RefusedQuiet DEF Fails
    <2>2. CASE k[p].then # "linkto"
      <3>1. \A j \in Inums : ref[j] <= ref'[j] /\ forgot[j] <= forgot'[j]
        BY <1>5, <1>6, RefsGrow
      <3>2. QuietReturn(p, <<d>>)
        BY <1>1, <1>5, <1>6, <2>2, <3>1, SameTrees, PutTypes DEF QuietReturn, Panics, Fails
      <3> QED BY <3>2, ReturnsQuiet
    <2> QED BY <2>1, <2>2
  <1>7. CASE WantsParent(p) /\ Go(p, [k[p] EXCEPT !.pc = k[p].then]) /\ UNCHANGED <<ref, panic>>
    <2>1. PICK c : c = [k[p] EXCEPT !.pc = k[p].then]
      OBVIOUS
    <2>2. /\ k' = [k EXCEPT ![p] = c] /\ c.pc = k[p].then /\ c.then = k[p].then
          /\ c.ip = k[p].ip /\ c.at = k[p].at /\ c.past = FALSE
      BY <1>1, <1>7, <2>1, Mine DEF Call, Go
    <2>3. c.pc \notin {"child", "unlinked"}
      BY <1>7, <2>2 DEF WantsParent
    <2>4. Owes(c) = Owes(k[p])
      BY <1>1, <2>2, <2>3 DEF Owes
    <2>5. \A j \in Inums : ref[j] <= ref'[j] /\ forgot[j] <= forgot'[j]
      BY <1>5, <1>7, RefsGrow
    <2>6. QuietStep(p, c)
      BY <1>5, <1>7, <2>2, <2>3, <2>4, <2>5 DEF QuietStep, ChildIs, Reached, Panics
    <2> QED BY <2>6, StepsQuiet
  <1>8. CASE /\ next # None /\ IsDir(d) /\ Iget(next) /\ upset' = upset \cup Gone(d, name)
             /\ Go(p, [k[p] EXCEPT !.pc = IF Len(k[p].path) = 1 THEN k[p].then ELSE "walk",
                                   !.at = next, !.path = Tail(@), !.put = <<d>>])
    <2>1. PICK t : t = IF Len(k[p].path) = 1 THEN k[p].then ELSE "walk"
      OBVIOUS
    <2>2. PICK c : c = [k[p] EXCEPT !.pc = t, !.at = next, !.path = Tail(@), !.put = <<d>>]
      OBVIOUS
    <2>3. /\ k' = [k EXCEPT ![p] = c] /\ c.pc = t /\ c.then = k[p].then
          /\ c.ip = k[p].ip /\ c.at = next /\ c.past = FALSE
      BY <1>1, <1>8, <2>1, <2>2, Mine DEF Call, Go
    <2>4. t \notin {"child", "unlinked"}
      BY <2>1, Mine DEF Call, Calls, Creating
    <2>5. Owes(c) = Owes(k[p])
      BY <1>1, <2>3, <2>4 DEF Owes
    <2>6. ref' = [ref EXCEPT ![next] = @ + 1] /\ panic' \in {panic, "iget"}
      BY <1>8, IgetIs
    <2>7. \A j \in Inums : ref[j] <= ref'[j] /\ forgot[j] <= forgot'[j]
      BY <1>5, <1>8, <2>6, RefsGrow
    <2>8. Reached(p, c.at)
      BY <1>2, <1>4, <1>5, <1>8, <2>3 DEF Reached
    <2>9. QuietStep(p, c)
      BY <1>5, <2>3, <2>4, <2>5, <2>6, <2>7, <2>8 DEF QuietStep, ChildIs, Panics
    <2> QED BY <2>9, StepsQuiet
  <1> QED BY <1>2, <1>3, <1>4, <1>6, <1>7, <1>8 DEF Walk, Looks

LEMMA WalkNowhereQuiet == ASSUME BaseInv, NEW p \in Procs, WalkNowhere(p) PROVE Quiet(p)
  <1>1. /\ k[p].pc = "walk" /\ k[p].put = <<>>
        /\ UNCHANGED <<ino, ref, lock, cwd, fd, panic, forgot, late, upset>>
    BY DEF WalkNowhere, At, state, history
  <1>2. PICK d \in Inums : d = k[p].at /\ k[p].past = FALSE
    BY <1>1, Mine, InHand
  <1>3. \A j \in Inums : ref[j] <= ref'[j] /\ forgot[j] <= forgot'[j]
    BY <1>1, RefsGrow
  <1>4. CASE Fails(p, <<d>>)
    <2>1. CASE k[p].then = "linkto"
      BY <1>1, <1>4, <2>1, RefusedQuiet DEF Fails
    <2>2. CASE k[p].then # "linkto"
      <3>1. QuietReturn(p, <<d>>)
        BY <1>1, <1>3, <1>4, <2>2, SameTrees, PutTypes DEF QuietReturn, Panics, Fails
      <3> QED BY <3>1, ReturnsQuiet
    <2> QED BY <2>1, <2>2
  <1>5. CASE ~WantsParent(p) /\ Go(p, [k[p] EXCEPT !.pc = k[p].then])
    <2>1. PICK c : c = [k[p] EXCEPT !.pc = k[p].then]
      OBVIOUS
    <2>2. /\ k' = [k EXCEPT ![p] = c] /\ c.pc = k[p].then /\ c.then = k[p].then
          /\ c.ip = k[p].ip /\ c.at = k[p].at /\ c.past = FALSE
      BY <1>2, <1>5, <2>1, Mine DEF Call, Go
    <2>3. c.pc \notin {"child", "unlinked"}
      BY <2>2, Mine DEF Call, Calls, Creating
    <2>4. Owes(c) = Owes(k[p])
      BY <1>1, <2>2, <2>3 DEF Owes
    <2>5. QuietStep(p, c)
      BY <1>1, <1>3, <2>2, <2>3, <2>4 DEF QuietStep, ChildIs, Reached, Panics
    <2> QED BY <2>5, StepsQuiet
  <1> QED BY <1>2, <1>4, <1>5 DEF WalkNowhere

LEMMA UnlinkQuiet == ASSUME BaseInv, NEW p \in Procs, Unlink(p) PROVE Quiet(p)
  <1>1. k[p].pc = "unlink" /\ k[p].put = <<>> /\ UNCHANGED <<ino, cwd, fd, forgot, late, upset>>
    BY DEF Unlink, At, history
  <1>2. PICK d \in Inums : d = k[p].at /\ k[p].then = "unlink" /\ k[p].path # <<>> /\ k[p].past = FALSE
    BY <1>1, Mine, InHand
  <1>3. PICK n \in Names \cup {".", ".."} : n = k[p].path[1]
    BY <1>2, NameOf
  <1>4. PICK i \in Inums \cup {None} : i = Lookup(d, n)
    BY LookupIn
  <1>5. Owes(k[p]) = None
    BY <1>1, <1>2, OwesIs
  <1>6. CASE Return(p, <<d>>) /\ UNCHANGED <<ref, lock, panic>>
    <2>1. \A j \in Inums : ref[j] <= ref'[j] /\ forgot[j] <= forgot'[j]
      BY <1>1, <1>6, RefsGrow
    <2>2. QuietReturn(p, <<d>>)
      BY <1>1, <1>2, <1>6, <2>1, SameTrees, PutTypes DEF QuietReturn, Panics
    <2> QED BY <2>2, ReturnsQuiet
  <1>7. CASE /\ n \notin {".", ".."} /\ i # None /\ Iget(i)
             /\ Go(p, [k[p] EXCEPT !.pc = "child", !.ip = i])
    <2>1. PICK c : c = [k[p] EXCEPT !.pc = "child", !.ip = i]
      OBVIOUS
    <2>2. /\ k' = [k EXCEPT ![p] = c] /\ c.pc = "child" /\ c.then = "unlink"
          /\ c.ip = i /\ c.at = d /\ c.past = FALSE /\ c.path[1] = n
      BY <1>2, <1>3, <1>7, <2>1, Mine DEF Call, Go
    <2>3. ino[d].entries[n] = i
      BY <1>4, <1>7, LookupIn
    <2>4. ref' = [ref EXCEPT ![i] = @ + 1] /\ panic' \in {panic, "iget"}
      BY <1>7, IgetIs
    <2>5. \A j \in Inums : ref[j] <= ref'[j] /\ forgot[j] <= forgot'[j]
      BY <1>1, <1>7, <2>4, RefsGrow
    <2>6. Owes(c) = None
      BY <2>2, OwesIs
    <2>7. Reached(p, c.at)
      BY <1>2, <2>2 DEF Reached
    <2>8. QuietStep(p, c)
      BY <1>1, <1>5, <2>2, <2>3, <2>4, <2>5, <2>6, <2>7 DEF QuietStep, ChildIs, Panics
    <2> QED BY <2>8, StepsQuiet
  <1> QED BY <1>2, <1>3, <1>4, <1>6, <1>7 DEF Unlink

LEMMA CreateEffect ==
  ASSUME BaseInv, NEW p \in Procs, Create(p)
  PROVE  Quiet(p) \/ (\E d, i \in Inums, n \in Names, kind \in {"file", "dir", "dev"} :
                        Makes(p, d, n, i, kind))
  <1>1. /\ k[p].pc \in Creating /\ k[p].put = <<>> /\ UNCHANGED <<cwd, fd, forgot, late>>
        /\ lock[k[p].at] = None
    <2>1. k[p].pc \in Creating /\ k[p].put = <<>> /\ UNCHANGED <<cwd, fd, forgot, late>>
      BY DEF Create
    <2>2. Target(p) = k[p].at
      BY <2>1 DEF Target, Creating
    <2> QED BY <2>1, <2>2 DEF Create, Ilock
  <1>2. PICK d \in Inums : d = k[p].at /\ k[p].path # <<>> /\ k[p].past = FALSE /\ k[p].ip = None
    BY <1>1, Mine, InHand
  <1>3. Owes(k[p]) = None /\ k[p].then \in Creating
    <2>1. k[p].then \in Creating /\ k[p].pc # "unlinked"
      BY <1>1, Mine, InHand DEF Creating
    <2>2. k[p].then # "linkto"
      BY <2>1 DEF Creating
    <2> QED BY <2>1, <2>2, OwesIs
  <1>4. IsDir(d) /\ k[p].path[1] \in Names \cup {".", ".."}
    <2>1. k[p].pc \in InDir
      BY <1>1 DEF InDir
    <2> QED BY <1>2, <2>1, NameOf, Hand DEF InUse
  <1>5. CASE Return(p, <<k[p].at>>) /\ UNCHANGED <<ino, ref, lock, panic, upset>>
    <2>1. \A j \in Inums : ref[j] <= ref'[j] /\ forgot[j] <= forgot'[j]
      BY <1>1, <1>5, RefsGrow
    <2>2. QuietReturn(p, <<k[p].at>>)
      <3>1. k[p].pc # "unlinked" /\ k[p].then # "linkto"
        BY <1>1, <1>3 DEF Creating
      <3>2. <<k[p].at>> \in PutSeqs
        BY <1>2, PutTypes
      <3> QED BY <1>1, <1>5, <2>1, <3>1, <3>2, SameTrees DEF QuietReturn, Panics
    <2> QED BY <2>2, ReturnsQuiet
  <1>6. ASSUME NEW old \in Inums, Finds(p, old) PROVE Quiet(p)
    <2>1. /\ Iget(old) /\ UNCHANGED <<ino, lock>>
          /\ Go(p, [k[p] EXCEPT !.pc = "found", !.at = old, !.put = <<k[p].at>>])
          /\ upset' = upset \cup Gone(k[p].at, k[p].path[1])
          /\ old = Lookup(k[p].at, k[p].path[1])
      BY <1>6 DEF Finds
    <2>2. PICK c : c = [k[p] EXCEPT !.pc = "found", !.at = old, !.put = <<k[p].at>>]
      OBVIOUS
    <2>3. /\ k' = [k EXCEPT ![p] = c] /\ c.pc = "found" /\ c.then = k[p].then /\ c.at = old
          /\ c.past = FALSE
      BY <1>2, <2>1, <2>2, Mine DEF Call, Go
    <2>4. Owes(c) = None
      <3>1. c.then # "linkto" /\ c.pc # "unlinked"
        BY <1>3, <2>3 DEF Creating
      <3> QED BY <3>1, OwesIs
    <2>5. ref' = [ref EXCEPT ![old] = @ + 1] /\ panic' \in {panic, "iget"}
      BY <2>1, IgetIs
    <2>6. \A j \in Inums : ref[j] <= ref'[j] /\ forgot[j] <= forgot'[j]
      BY <1>1, <2>5, RefsGrow
    <2>7. Reached(p, c.at)
      BY <1>1, <1>2, <1>4, <2>1, <2>3 DEF Reached
    <2>8. QuietStep(p, c)
      BY <1>1, <1>3, <2>1, <2>3, <2>4, <2>5, <2>6, <2>7 DEF QuietStep, ChildIs, Panics
    <2> QED BY <2>8, StepsQuiet
  <1>7. CASE panic' = "ialloc" /\ UNCHANGED <<ino, ref, lock, k, upset>>
    <2>1. k' = [k EXCEPT ![p] = k[p]]
      BY <1>7, Hand
    <2>2. \A j \in Inums : ref[j] <= ref'[j] /\ forgot[j] <= forgot'[j]
      BY <1>1, <1>7, RefsGrow
    <2>3. k[p].pc # "child"
      BY <1>1 DEF Creating
    <2>4. QuietStep(p, k[p])
      BY <1>1, <1>2, <1>7, <2>1, <2>2, <2>3 DEF QuietStep, ChildIs, Reached, Panics
    <2> QED BY <2>4, StepsQuiet
  <1>8. ASSUME NEW n \in Names, NEW i \in Inums, NEW kind \in {"file", "dir", "dev"},
               MakesNew(p, n, i, kind)
        PROVE  Makes(p, d, n, i, kind)
    <2>1. MakeStep(p, d, n, i, kind) /\ ino[d].entries[n] = None
      BY <1>2, <1>8 DEF MakesNew
    <2>2. PICK c : c = [k[p] EXCEPT !.pc = "created", !.at = None, !.ip = i, !.put = <<d>>]
      OBVIOUS
    <2>3. /\ k' = [k EXCEPT ![p] = c] /\ c.pc = "created" /\ c.then = k[p].then /\ c.at = None
          /\ c.ip = i /\ c.put = <<d>> /\ c.past = FALSE
      BY <1>2, <2>1, <2>2, Mine DEF Call, Go, MakeStep
    <2>4. Owes(c) = None
      <3>1. c.then # "linkto" /\ c.pc # "unlinked"
        BY <1>3, <2>3 DEF Creating
      <3> QED BY <3>1, OwesIs
    <2>5. ref' = [ref EXCEPT ![i] = @ + 1] /\ panic' \in {panic, "iget"}
      BY <2>1, IgetIs DEF MakeStep
    <2>6. \A j \in Inums : ref[j] <= ref'[j] /\ forgot[j] <= forgot'[j]
      BY <1>1, <2>5, RefsGrow
    <2>7. Others1(p) /\ k'[p] = c
      <3>1. upset \subseteq upset'
        BY <2>1 DEF MakeStep
      <3> QED BY <1>1, <2>3, <3>1, OneMoves
    <2>8. More(p)
      BY <2>3, <2>6, <2>7 DEF More
    <2> QED BY <1>1, <1>2, <1>3, <2>1, <2>3, <2>4, <2>5, <2>7, <2>8 DEF Makes, Panics
  <1> QED BY <1>2, <1>5, <1>6, <1>7, <1>8, CreateCases

\* The steps that change counts and names.
LEMMA LinkEffect ==
  ASSUME BaseInv, NEW p \in Procs, Link(p)
  PROVE  Quiet(p) \/ (\E i \in Inums : Counts(p, i, TRUE))
  <1>1. k[p].pc = "link" /\ k[p].put = <<>> /\ UNCHANGED <<lock, cwd, fd, forgot, late, upset>>
    BY DEF Link, At, history
  <1>2. PICK i \in Inums : i = k[p].at /\ k[p].then = "link"
    BY <1>1, Mine, InHand
  <1>3. ino[i].type # "free" /\ Owes(k[p]) = None
    BY <1>1, <1>2, OwesIs DEF Link, Ilock, Target
  <1>4. CASE IsDir(i)
    <2>1. Return(p, <<i>>) /\ UNCHANGED <<ino, ref, panic>>
      BY <1>2, <1>4 DEF Link
    <2>2. \A j \in Inums : ref[j] <= ref'[j] /\ forgot[j] <= forgot'[j]
      BY <1>1, <2>1, RefsGrow
    <2>3. QuietReturn(p, <<i>>)
      BY <1>1, <1>2, <2>1, <2>2, SameTrees, PutTypes DEF QuietReturn, Panics
    <2> QED BY <2>3, ReturnsQuiet
  <1>5. CASE ~IsDir(i)
    <2>1. ino' = [ino EXCEPT ![i].nlink = @ + 1]
      BY <1>2, <1>5 DEF Link
    <2>2. PICK path \in kit.paths[p], from \in From(p) : Start(p, from, "linkto", path, i)
      BY <1>2, <1>5 DEF Link
    <2>3. path \in NamePath /\ i # None
      BY PathIn, Constants
    <2>4. PICK c : Walked(p, c, from, i)
      <3>1. Walks(p, "linkto", path, from, i)
        BY <2>2, <2>3 DEF Walks
      <3> QED BY <3>1, WalkerStep
    <2>5. /\ k' = [k EXCEPT ![p] = c] /\ c.past = FALSE /\ Owes(c) = i /\ c.pc = "walk"
          /\ c.at = from /\ c.ip = i /\ panic' \in {panic, "iget"}
          /\ ref' = [ref EXCEPT ![from] = @ + 1] /\ from \in Inums
      BY <2>4 DEF Walked
    <2>6. \A j \in Inums : ref[j] <= ref'[j] /\ forgot[j] <= forgot'[j]
      BY <1>1, <2>5, RefsGrow
    <2>7. Others1(p) /\ k'[p] = c
      BY <1>1, <2>5, OneMoves
    <2>8. More(p)
      BY <2>5, <2>6, <2>7 DEF More
    <2>9. Place(p, "ip")' = i /\ "ip" \in Wheres
      BY <2>5, <2>7 DEF Place, Wheres
    <2>10. Counts(p, i, TRUE)
      BY <1>3, <2>1, <2>5, <2>7, <2>8, <2>9 DEF Counts, Reached, Panics
    <2> QED BY <2>10
  <1> QED BY <1>4, <1>5

\* The calls that give a count back.
LEMMA CountBack ==
  ASSUME BaseInv, NEW p \in Procs, NEW i \in Inums, ino[i].type # "free", Return(p, <<i>>),
         ino' = [ino EXCEPT ![i].nlink = @ - 1], Owes(k[p]) = i,
         UNCHANGED <<ref, cwd, fd, panic, forgot, late, upset>>
  PROVE  Counts(p, i, FALSE)
  <1>1. k' = [k EXCEPT ![p] = Back(<<i>>)] /\ <<i>> \in PutSeqs
    BY PutTypes DEF Return, Go, Back
  <1>2. /\ Back(<<i>>).pc = "idle" /\ Back(<<i>>).then = "none" /\ Back(<<i>>).at = None
        /\ Back(<<i>>).put = <<i>> /\ Back(<<i>>).past = FALSE
    BY <1>1, ReturnIs
  <1>3. Others1(p) /\ k'[p] = Back(<<i>>)
    BY <1>1, OneMoves
  <1>4. \A j \in Inums : ref[j] <= ref'[j] /\ forgot[j] <= forgot'[j]
    BY RefsGrow
  <1>5. More(p)
    BY <1>2, <1>3, <1>4 DEF More
  <1>6. Owes(k'[p]) = None
    BY <1>2, <1>3, OwesIs
  <1>7. Place(p, "put")' = i /\ "put" \in Wheres
    BY <1>2, <1>3 DEF Place, Wheres
  <1> QED BY <1>2, <1>3, <1>5, <1>6, <1>7 DEF Counts, Reached, Panics

LEMMA LinkBadEffect ==
  ASSUME BaseInv, NEW p \in Procs, LinkBad(p)
  PROVE  \E i \in Inums : Counts(p, i, FALSE)
  <1>1. k[p].pc = "linkbad" /\ k[p].put = <<>>
    BY DEF LinkBad, At
  <1>2. PICK i \in Inums : i = k[p].ip /\ k[p].then = "linkto"
    BY <1>1, Mine, InHand
  <1>3. /\ Return(p, <<i>>) /\ ino' = [ino EXCEPT ![i].nlink = @ - 1]
        /\ UNCHANGED <<ref, cwd, fd, panic, forgot, late, upset>> /\ ino[i].type # "free"
    BY <1>1, <1>2 DEF LinkBad, history, Ilock, Target
  <1>4. Owes(k[p]) = i
    BY <1>2, OwesIs
  <1> QED BY <1>3, <1>4, CountBack

LEMMA UnlinkedEffect ==
  ASSUME BaseInv, NEW p \in Procs, Unlinked(p)
  PROVE  \E i \in Inums : Counts(p, i, FALSE)
  <1>1. k[p].pc = "unlinked" /\ k[p].put = <<>>
    BY DEF Unlinked, At
  <1>2. PICK i \in Inums : i = k[p].ip
    BY <1>1, Mine, InHand
  <1>3. /\ Return(p, <<i>>) /\ ino' = [ino EXCEPT ![i].nlink = @ - 1]
        /\ UNCHANGED <<ref, cwd, fd, panic, forgot, late, upset>>
    BY <1>2 DEF Unlinked, history
  <1>4. Owes(k[p]) = i
    BY <1>1, <1>2, OwesIs
  <1>5. ino[i].type # "free"
    <2>1. Locked(k[p]) = i
      BY <1>1, <1>2 DEF Locked
    <2> QED BY <2>1, Alloc, Constants
  <1> QED BY <1>3, <1>4, <1>5, CountBack

LEMMA LinkToEffect ==
  ASSUME BaseInv, NEW p \in Procs, LinkTo(p)
  PROVE  Quiet(p) \/ (\E d, i \in Inums, n \in Names : Enters(p, d, n, i))
  <1>1. k[p].pc = "linkto" /\ k[p].put = <<>> /\ UNCHANGED <<cwd, fd, forgot, late>>
    BY DEF LinkTo, At
  <1>2. PICK d \in Inums, i \in Inums : d = k[p].at /\ i = k[p].ip
    BY <1>1, Mine, InHand
  <1>3. k[p].then = "linkto" /\ k[p].path # <<>> /\ k[p].past = FALSE
    BY <1>1, Mine, InHand
  <1>4. PICK n \in Names \cup {".", ".."} : n = k[p].path[1]
    BY <1>3, NameOf
  <1>5. PICK old \in Inums \cup {None} : old = Lookup(d, n)
    BY LookupIn
  <1>6. /\ lock[d] = None /\ ino[d].type = "dir" /\ ino[i].type \notin {"free", "dir"}
        /\ Owes(k[p]) = i
    <2>1. lock[d] = None
      BY <1>1, <1>2 DEF LinkTo, Ilock, Target
    <2>2. ino[d].type = "dir" /\ ino[i].type \notin {"free", "dir"}
      BY <1>1, <1>2, <1>3, Hand DEF InUse, InDir, IsDir
    <2> QED BY <1>2, <1>3, <2>1, <2>2, OwesIs
  <1>7. CASE old # None
    <2>1. /\ Iget(old) /\ UNCHANGED ino
          /\ Go(p, [k[p] EXCEPT !.pc = "taken", !.put = <<old>>])
          /\ upset' = upset \cup Gone(d, n)
      BY <1>2, <1>4, <1>5, <1>7 DEF LinkTo
    <2>2. PICK c : c = [k[p] EXCEPT !.pc = "taken", !.put = <<old>>]
      OBVIOUS
    <2>3. /\ k' = [k EXCEPT ![p] = c] /\ c.pc = "taken" /\ c.then = "linkto"
          /\ c.at = k[p].at /\ c.ip = i /\ c.past = FALSE
      BY <1>2, <1>3, <2>1, <2>2, Mine DEF Call, Go
    <2>4. ref' = [ref EXCEPT ![old] = @ + 1] /\ panic' \in {panic, "iget"}
      BY <2>1, IgetIs
    <2>5. \A j \in Inums : ref[j] <= ref'[j] /\ forgot[j] <= forgot'[j]
      BY <1>1, <1>7, <2>4, RefsGrow
    <2>6. Owes(c) = Owes(k[p])
      BY <1>6, <2>3, OwesIs
    <2>7. QuietStep(p, c)
      BY <1>1, <2>1, <2>3, <2>4, <2>5, <2>6 DEF QuietStep, ChildIs, Reached, Panics
    <2> QED BY <2>7, StepsQuiet
  <1>8. CASE old = None
    <2>1. /\ ino' = [ino EXCEPT ![d].entries[n] = i] /\ UNCHANGED <<ref, lock, panic>>
          /\ IF ValidWrite(p, d) THEN Return(p, <<d, i>>) ELSE LinkRefused(p, <<d>>)
          /\ upset' = upset \cup If(~ValidWrite(p, d), "link") \cup If(ino[d].nlink = 0, "removed")
      BY <1>2, <1>4, <1>5, <1>8 DEF LinkTo
    <2>2. n \in Names /\ ino[d].entries[n] = None
      BY <1>5, <1>6, <1>8, LookupIn DEF IsDir
    <2>3. \A j \in Inums : ref[j] <= ref'[j] /\ forgot[j] <= forgot'[j]
      BY <1>1, <2>1, RefsGrow
    <2>4. upset \subseteq upset' /\ (ino[d].nlink = 0 => "removed" \in upset')
      BY <2>1 DEF If
    <2>5. CASE ValidWrite(p, d)
      <3>1. k' = [k EXCEPT ![p] = Back(<<d, i>>)] /\ <<d, i>> \in PutSeqs
        BY <2>1, <2>5, PutTypes DEF Return, Go, Back
      <3>2. /\ Back(<<d, i>>).pc = "idle" /\ Back(<<d, i>>).then = "none"
            /\ Back(<<d, i>>).at = None /\ Back(<<d, i>>).past = FALSE
        BY <3>1, ReturnIs
      <3>3. Others1(p) /\ k'[p] = Back(<<d, i>>)
        BY <1>1, <2>4, <3>1, OneMoves
      <3>4. More(p)
        BY <2>3, <3>2, <3>3 DEF More
      <3>5. Owes(k'[p]) = None
        BY <3>2, <3>3, OwesIs
      <3>6. Enters(p, d, n, i)
        BY <1>6, <2>1, <2>2, <2>4, <3>2, <3>3, <3>4, <3>5 DEF Enters, Panics
      <3> QED BY <2>2, <3>6
    <2>6. CASE ~ValidWrite(p, d)
      <3>1. LinkRefused(p, <<d>>) /\ "link" \in upset'
        BY <2>1, <2>6 DEF If
      <3>2. PICK c : Refused(p, c)
        BY <1>1, <1>3, <3>1, RefusedIs
      <3>3. /\ k' = [k EXCEPT ![p] = c] /\ c.past = FALSE /\ c.pc = "linkbad" /\ c.at = None
        BY <3>2 DEF Refused
      <3>4. Others1(p) /\ k'[p] = c
        BY <1>1, <2>4, <3>3, OneMoves
      <3>5. More(p)
        BY <2>3, <3>3, <3>4 DEF More
      <3>6. Enters(p, d, n, i)
        BY <1>6, <2>1, <2>2, <2>4, <3>1, <3>3, <3>4, <3>5 DEF Enters, Panics
      <3> QED BY <2>2, <3>6
    <2> QED BY <2>5, <2>6
  <1> QED BY <1>7, <1>8

LEMMA UnlinkChildEffect ==
  ASSUME BaseInv, NEW p \in Procs, UnlinkChild(p)
  PROVE  Quiet(p) \/ (\E d, i \in Inums, n \in Names : Removes(p, d, n, i))
  <1>1. /\ k[p].pc = "child" /\ k[p].put = <<>>
        /\ UNCHANGED <<ref, cwd, fd, forgot, late, upset>>
    BY DEF UnlinkChild, At, history
  <1>2. PICK d \in Inums, i \in Inums : d = k[p].at /\ i = k[p].ip
    BY <1>1, Mine, InHand
  <1>3. k[p].then = "unlink" /\ k[p].path[1] \in Names /\ k[p].past = FALSE
    BY <1>1, Mine, InHand
  <1>4. /\ lock[d] = p /\ i # d /\ ino[i].type # "free" /\ ino[d].type = "dir"
        /\ Owes(k[p]) = None
    <2>1. Locked(k[p]) = d
      BY <1>1, <1>2 DEF Locked
    <2>2. lock[d] = p
      BY <2>1, Alloc
    <2>3. lock[i] = None /\ ino[i].type # "free"
      BY <1>1, <1>2 DEF UnlinkChild, Ilock, Target
    <2>4. ino[d].type = "dir"
      BY <1>1, <1>2, Hand DEF InUse, InDir, IsDir
    <2> QED BY <1>1, <1>3, <2>1, <2>2, <2>3, <2>4, OwesIs, Constants
  <1>5. Panics(p)
    <2>1. Check("unlink", ino[i].nlink >= 1) /\ ino[i].nlink \in Int
      <3>1. ino[i] \in Inode
        BY Hand
      <3> QED BY <1>2, <3>1 DEF UnlinkChild, Inode
    <2> QED BY <1>1, <1>2, <2>1 DEF Panics, Check
  <1>6. \A j \in Inums : ref[j] <= ref'[j] /\ forgot[j] <= forgot'[j]
    BY <1>1, RefsGrow
  <1>7. CASE IsDir(i) /\ ino[i].entries # NoEntries
    <2>1. /\ Go(p, [k[p] EXCEPT !.pc = "full", !.ip = None, !.put = <<i>>])
          /\ UNCHANGED <<ino, lock>>
      BY <1>2, <1>7 DEF UnlinkChild
    <2>2. PICK c : c = [k[p] EXCEPT !.pc = "full", !.ip = None, !.put = <<i>>]
      OBVIOUS
    <2>3. /\ k' = [k EXCEPT ![p] = c] /\ c.pc = "full" /\ c.then = "unlink"
          /\ c.at = k[p].at /\ c.past = FALSE
      BY <1>2, <1>3, <2>1, <2>2, Mine DEF Call, Go
    <2>4. Owes(c) = Owes(k[p])
      BY <1>4, <2>3, OwesIs
    <2>5. QuietStep(p, c)
      BY <1>1, <1>5, <1>6, <2>1, <2>3, <2>4 DEF QuietStep, ChildIs, Reached
    <2> QED BY <2>5, StepsQuiet
  <1>8. CASE ~(IsDir(i) /\ ino[i].entries # NoEntries)
    <2>1. /\ ino' = [ino EXCEPT ![d].entries[k[p].path[1]] = None,
                               ![d].nlink = IF IsDir(i) THEN @ - 1 ELSE @]
          /\ Go(p, [k[p] EXCEPT !.pc = "unlinked", !.at = None, !.put = <<d>>])
      BY <1>2, <1>8 DEF UnlinkChild
    <2>2. PICK c : c = [k[p] EXCEPT !.pc = "unlinked", !.at = None, !.put = <<d>>]
      OBVIOUS
    <2>3. /\ k' = [k EXCEPT ![p] = c] /\ c.pc = "unlinked"
          /\ c.at = None /\ c.ip = i /\ c.put = <<d>> /\ c.past = FALSE
      BY <1>2, <1>3, <2>1, <2>2, Mine DEF Call, Go
    <2>4. Others1(p) /\ k'[p] = c
      BY <1>1, <2>3, OneMoves
    <2>5. More(p)
      BY <1>6, <2>3, <2>4 DEF More
    <2>6. Owes(k'[p]) = i
      BY <2>3, <2>4, OwesIs
    <2>7. Removes(p, d, k[p].path[1], i)
      BY <1>1, <1>2, <1>3, <1>4, <1>5, <1>8, <2>1, <2>3, <2>4, <2>5, <2>6 DEF Removes
    <2> QED BY <1>3, <2>7
  <1> QED BY <1>7, <1>8

LEMMA Effects == ASSUME BaseInv, NEW p \in Procs, Step(p), Unlinks PROVE Effect(p)
  <1>1. CASE Create(p)
    BY <1>1, CreateEffect DEF Effect
  <1>2. CASE Link(p)
    BY <1>2, LinkEffect DEF Effect
  <1>3. CASE LinkBad(p) \/ Unlinked(p)
    BY <1>3, LinkBadEffect, UnlinkedEffect DEF Effect
  <1>4. CASE LinkTo(p)
    BY <1>4, LinkToEffect DEF Effect
  <1>5. CASE UnlinkChild(p)
    BY <1>5, UnlinkChildEffect DEF Effect
  <1>6. CASE PutTest(p) \/ PutDone(p)
    BY <1>6 DEF Effect
  <1>7. CASE NoType(p) \/ Begin(p) \/ WalkNowhere(p) \/ Walk(p)
    BY <1>7, NoTypeQuiet, BeginQuiet, WalkNowhereQuiet, WalkQuiet DEF Effect
  <1>10. CASE Open(p) \/ Close(p) \/ Created(p)
    BY <1>10, OpenQuiet, CloseQuiet, CreatedQuiet DEF Effect
  <1>8. CASE CreateFound(p) \/ LinkTaken(p) \/ Unlink(p) \/ UnlinkFull(p)
    BY <1>8, CreateFoundQuiet, LinkTakenQuiet, UnlinkQuiet, UnlinkFullQuiet DEF Effect
  <1>9. CASE Chdir(p) \/ Chattr(p) \/ Exec(p) \/ Load(p)
    BY <1>9, ChdirQuiet, ChattrQuiet, ExecQuiet, LoadQuiet DEF Effect
  <1> QED BY <1>1, <1>2, <1>3, <1>4, <1>5, <1>6, <1>7, <1>8, <1>9, <1>10 DEF Step

-----------------------------------------------------------------------------
(* What each effect leaves of the inodes.                                  *)

Counted1(i, more) ==
  /\ \A j \in Inums : /\ ino'[j].type = ino[j].type /\ ino'[j].up = ino[j].up
                      /\ ino'[j].entries = ino[j].entries
                      /\ j # i => ino'[j].nlink = ino[j].nlink
  /\ ino'[i].nlink = IF more THEN ino[i].nlink + 1 ELSE ino[i].nlink - 1
\* The entry n of d becomes e, and the count of d shifts by b.
Entry1(d, n, e, b) ==
  /\ \A j \in Inums : /\ ino'[j].type = ino[j].type /\ ino'[j].up = ino[j].up
                      /\ j # d => ino'[j].nlink = ino[j].nlink /\ ino'[j].entries = ino[j].entries
  /\ ino'[d].nlink = ino[d].nlink + b
  /\ ino'[d].entries[n] = e
  /\ \A m \in Names \ {n} : ino'[d].entries[m] = ino[d].entries[m]

LEMMA CountsIno ==
  ASSUME BaseInv, NEW p \in Procs, NEW i \in Inums, NEW more \in BOOLEAN, Counts(p, i, more)
  PROVE  Counted1(i, more)
  <1>1. ino' = IF more THEN [ino EXCEPT ![i].nlink = @ + 1] ELSE [ino EXCEPT ![i].nlink = @ - 1]
    BY DEF Counts
  <1>2. ino \in [Inums -> Inode]
    BY Hand
  <1>3. CASE more
    BY <1>1, <1>2, <1>3 DEF Counted1, Inode
  <1>4. CASE ~more
    BY <1>1, <1>2, <1>4 DEF Counted1, Inode
  <1> QED BY <1>3, <1>4

LEMMA EntersIno ==
  ASSUME BaseInv, NEW p \in Procs, NEW d, NEW n, NEW i, Enters(p, d, n, i)
  PROVE  Entry1(d, n, i, 0)
  <1>1. ino' = [ino EXCEPT ![d].entries[n] = i] /\ d \in Inums /\ n \in Names
    BY DEF Enters
  <1>2. ino \in [Inums -> Inode]
    BY Hand
  <1> QED BY <1>1, <1>2 DEF Entry1, Inode

LEMMA RemovesIno ==
  ASSUME BaseInv, NEW p \in Procs, NEW d, NEW n, NEW i, Removes(p, d, n, i)
  PROVE  Entry1(d, n, None, IF IsDir(i) THEN -1 ELSE 0)
  <1>1. /\ d \in Inums /\ n \in Names
        /\ ino' = [ino EXCEPT ![d].entries[n] = None,
                              ![d].nlink = IF IsDir(i) THEN @ - 1 ELSE @]
    BY DEF Removes
  <1>2. ino \in [Inums -> Inode]
    BY Hand
  <1>3. CASE IsDir(i)
    <2>1. ino' = [ino EXCEPT ![d].entries[n] = None, ![d].nlink = @ - 1]
      BY <1>1, <1>3
    <2> QED BY <1>1, <1>2, <1>3, <2>1 DEF Entry1, Inode
  <1>4. CASE ~IsDir(i)
    <2>1. ino' = [ino EXCEPT ![d].entries[n] = None, ![d].nlink = @]
      BY <1>1, <1>4
    <2> QED BY <1>1, <1>2, <1>4, <2>1 DEF Entry1, Inode
  <1> QED BY <1>3, <1>4

\* The test of an iput: the inode is freed, or nothing changes.
Tested(p, i) ==
  /\ i \in Inums /\ i = Head(k[p].put) /\ k[p].put # <<>> /\ lock[i] = None
  /\ \A j \in Inums \ {i} : ino'[j] = ino[j]
  /\ IF ino[i].nlink = 0 /\ ref[i] = 1 THEN ino'[i] = NoInode ELSE ino' = ino
  /\ k' = [k EXCEPT ![p] = [k[p] EXCEPT !.past = TRUE]] /\ k[p].past = FALSE
  /\ UNCHANGED <<ref, lock, cwd, fd, panic, forgot>>
  /\ late' = late \cup {j \in {i} : /\ Putting(i) # {} /\ ino[i].nlink = 0
                                    /\ ref[i] - Cardinality(Putting(i)) = 1}
  /\ upset \subseteq upset'
  /\ ino[i].nlink = 0 /\ ref[i] = 1 /\ ino[i].entries # NoEntries => "removed" \in upset'

LEMMA TestedIs ==
  ASSUME BaseInv, NEW p \in Procs, PutTest(p)
  PROVE  \E i : Tested(p, i)
  <1>1. k[p].put # <<>> /\ k[p].past = FALSE
    BY Mine DEF PutTest, Call
  <1>2. PICK i \in Inums : i = Head(k[p].put)
    BY <1>1, FirstPlace
  <1>3. PICK others : others = {q \in Procs \ {p} : k[q].past /\ Head(k[q].put) = i}
    OBVIOUS
  <1>4. others = Putting(i)
    BY <1>1, <1>3 DEF Putting
  <1>5. /\ lock[i] = None
        /\ ino' = IF ino[i].nlink = 0 /\ ref[i] = 1 THEN [ino EXCEPT ![i] = NoInode] ELSE ino
        /\ late' = late \cup {j \in {i} : /\ others # {} /\ ino[i].nlink = 0
                                          /\ ref[i] - Cardinality(others) = 1}
        /\ upset' = upset \cup If(/\ ino[i].nlink = 0 /\ ref[i] = 1
                                  /\ ino[i].entries # NoEntries, "removed")
        /\ Go(p, [k[p] EXCEPT !.past = TRUE])
        /\ UNCHANGED <<ref, lock, cwd, fd, panic, forgot>>
    BY <1>2, <1>3 DEF PutTest
  <1>6. ino \in [Inums -> Inode]
    BY Hand
  <1>7. /\ \A j \in Inums \ {i} : ino'[j] = ino[j]
        /\ IF ino[i].nlink = 0 /\ ref[i] = 1 THEN ino'[i] = NoInode ELSE ino' = ino
    BY <1>2, <1>5, <1>6
  <1>8. /\ upset \subseteq upset'
        /\ ino[i].nlink = 0 /\ ref[i] = 1 /\ ino[i].entries # NoEntries => "removed" \in upset'
    BY <1>5 DEF If
  <1>9. Tested(p, i)
    BY <1>1, <1>2, <1>4, <1>5, <1>7, <1>8 DEF Tested, Go
  <1> QED BY <1>9

\* The end of an iput.
Done(p, i) ==
  /\ i \in Inums /\ i = Head(k[p].put) /\ k[p].put # <<>> /\ k[p].past = TRUE
  /\ UNCHANGED <<ino, lock, cwd, fd, panic, forgot, late, upset>>
  /\ ref' = [ref EXCEPT ![i] = @ - 1]
  /\ k' = [k EXCEPT ![p] = [k[p] EXCEPT !.past = FALSE, !.put = Tail(@)]]

LEMMA DoneIs ==
  ASSUME BaseInv, NEW p \in Procs, PutDone(p)
  PROVE  \E i : Done(p, i)
  <1>1. k[p].put # <<>> /\ k[p].past = TRUE
    BY Mine DEF PutDone, Call
  <1>2. PICK i \in Inums : i = Head(k[p].put)
    BY <1>1, FirstPlace
  <1>3. /\ UNCHANGED <<ino, lock, cwd, fd, panic, forgot, late, upset>>
        /\ ref' = [ref EXCEPT ![i] = @ - 1]
        /\ k' = [k EXCEPT ![p] = [k[p] EXCEPT !.past = FALSE, !.put = Tail(@)]]
    BY <1>2 DEF PutDone, Go, history
  <1> QED BY <1>1, <1>2, <1>3 DEF Done

\* p's call but for the iput.
PutMoves(p) ==
  /\ \A q \in Procs \ {p} : k'[q] = k[q]
  /\ k'[p].pc = k[p].pc /\ k'[p].at = k[p].at /\ k'[p].ip = k[p].ip /\ k'[p].then = k[p].then
  /\ k'[p].path = k[p].path /\ cwd' = cwd /\ fd' = fd

LEMMA TestMoves ==
  ASSUME BaseInv, NEW p \in Procs, NEW i, Tested(p, i)
  PROVE  PutMoves(p) /\ k'[p].past = TRUE /\ k'[p].put = k[p].put
  <1>1. k' = [k EXCEPT ![p] = [k[p] EXCEPT !.past = TRUE]] /\ UNCHANGED <<cwd, fd>>
    BY DEF Tested
  <1>2. k \in [Procs -> Call] /\ k[p] \in Call
    BY Hand
  <1>3. k'[p] = [k[p] EXCEPT !.past = TRUE] /\ \A q \in Procs \ {p} : k'[q] = k[q]
    BY <1>1, <1>2
  <1> QED BY <1>1, <1>2, <1>3 DEF PutMoves, Call

LEMMA DoneMoves ==
  ASSUME BaseInv, NEW p \in Procs, NEW i, Done(p, i)
  PROVE  PutMoves(p) /\ k'[p].past = FALSE
  <1>1. /\ k' = [k EXCEPT ![p] = [k[p] EXCEPT !.past = FALSE, !.put = Tail(@)]]
        /\ UNCHANGED <<cwd, fd>>
    BY DEF Done
  <1>2. k \in [Procs -> Call] /\ k[p] \in Call
    BY Hand
  <1>3. /\ k'[p] = [k[p] EXCEPT !.past = FALSE, !.put = Tail(@)]
        /\ \A q \in Procs \ {p} : k'[q] = k[q]
    BY <1>1, <1>2
  <1> QED BY <1>1, <1>2, <1>3 DEF PutMoves, Call

-----------------------------------------------------------------------------
(* The references of an inode that is only between the halves of iputs.    *)

LEMMA PuttingIn ==
  ASSUME BaseInv, NEW i \in Inums
  PROVE  /\ IsFiniteSet(Putting(i)) /\ Cardinality(Putting(i)) \in Nat
         /\ Cardinality(Putting(i)) <= ref[i]
         /\ ref[i] = Cardinality(Putting(i)) =>
              \A q \in Procs : \A w \in Wheres : Place(q, w) = i => w = "put" /\ k[q].past
  <1>1. PICK S : S = Putting(i) \X {"put"}
    OBVIOUS
  <1>2. IsFiniteSet(Putting(i)) /\ Cardinality(Putting(i)) \in Nat
    <2>1. Putting(i) \subseteq Procs
      BY DEF Putting
    <2> QED BY <2>1, Constants, FS_Subset, FS_CardinalityType
  <1>3. Cardinality(S) = Cardinality(Putting(i))
    <2>1. IsFiniteSet({"put"}) /\ Cardinality({"put"}) = 1
      BY FS_Singleton
    <2>2. Cardinality(S) = Cardinality(Putting(i)) * 1
      BY <1>1, <1>2, <2>1, FS_Product
    <2> QED BY <1>2, <2>2
  <1>4. IsFiniteSet(Places(i)) /\ Cardinality(Places(i)) \in Nat
    <2>1. IsFiniteSet(Wheres)
      BY WheresFinite
    <2>2. IsFiniteSet(Procs \X Wheres) /\ Places(i) \subseteq Procs \X Wheres
      BY <2>1, Constants, FS_Product DEF Places
    <2> QED BY <2>2, FS_Subset, FS_CardinalityType
  <1>5. S \subseteq Places(i)
    <2>1. ASSUME NEW q \in Putting(i) PROVE <<q, "put">> \in Places(i)
      <3>1. q \in Procs /\ k[q].past /\ Head(k[q].put) = i
        BY <2>1 DEF Putting
      <3>2. k[q].put # <<>>
        BY <3>1, Mine DEF Shape
      <3> QED BY <3>1, <3>2 DEF Places, Place, Wheres
    <2> QED BY <1>1, <2>1
  <1>6. Cardinality(S) <= Cardinality(Places(i)) /\ (Cardinality(S) = Cardinality(Places(i)) => S = Places(i))
    BY <1>4, <1>5, FS_Subset
  <1>7. ref[i] = Cardinality(Places(i)) + forgot[i] /\ forgot[i] \in Nat
    <2>1. forgot \in [Inums -> 0 .. MaxForgot] /\ MaxForgot \in Nat /\ RefsExact
      BY Constants DEF BaseInv, TypeOK
    <2> QED BY <2>1 DEF RefsExact
  <1>8. ref[i] = Cardinality(Putting(i)) => S = Places(i)
    BY <1>2, <1>3, <1>4, <1>6, <1>7
  <1>9. ASSUME S = Places(i), NEW q \in Procs, NEW w \in Wheres, Place(q, w) = i
        PROVE  w = "put" /\ k[q].past
    <2>1. <<q, w>> \in S
      BY <1>9 DEF Places
    <2> QED BY <1>1, <2>1 DEF Putting
  <1> QED BY <1>2, <1>3, <1>4, <1>6, <1>7, <1>8, <1>9

PuttingIs ==
  /\ \A i \in Inums : /\ IsFiniteSet(Putting(i)) /\ Cardinality(Putting(i)) \in Nat
                      /\ Cardinality(Putting(i)) <= ref[i]
  /\ \A i \in Inums : ref[i] = Cardinality(Putting(i)) =>
       \A q \in Procs : \A w \in Wheres : Place(q, w) = i => w = "put" /\ k[q].past

LEMMA BasePutting == BaseInv => PuttingIs
BY PuttingIn DEF PuttingIs

LEMMA BasePuttingNext == BaseInv' => PuttingIs'
BY BasePutting, PTL

\* A step by which no reference goes, and that leaves the counts of the inodes
\* p has no place of.
LEMMA MoreUnlinked0 ==
  ASSUME BaseInv, BaseInv', Unlinked0, NEW p \in Procs, More(p), NEW i \in Inums,
         \/ ino'[i].type = ino[i].type /\ ino'[i].nlink = ino[i].nlink
         \/ \E w \in Wheres : Place(p, w)' = i,
         ino'[i].type # "free", ino'[i].nlink = 0, ref'[i] = Cardinality(Putting(i)')
  PROVE  i \in late'
  <1>1. PuttingIs /\ PuttingIs'
    BY BasePutting, BasePuttingNext
  <1>2. k'[p].past = FALSE /\ \A q \in Procs \ {p} : k'[q] = k[q]
    BY DEF More, Others1
  <1>3. \A w \in Wheres : Place(p, w)' # i
    BY <1>1, <1>2 DEF PuttingIs
  <1>4. ino'[i].type = ino[i].type /\ ino'[i].nlink = ino[i].nlink
    BY <1>3
  <1>5. Putting(i)' \subseteq Putting(i)
    BY <1>2 DEF Putting
  <1>6. Cardinality(Putting(i)') <= Cardinality(Putting(i))
    BY <1>1, <1>5, FS_Subset DEF PuttingIs
  <1>7. ref[i] <= ref'[i] /\ late \subseteq late'
    BY DEF More, Others1
  <1>8. ref[i] \in Nat /\ ref'[i] \in Nat
    BY DEF BaseInv, TypeOK
  <1>9. ref[i] = Cardinality(Putting(i))
    <2>1. /\ Cardinality(Putting(i)) \in Nat /\ Cardinality(Putting(i)) <= ref[i]
          /\ Cardinality(Putting(i)') \in Nat
      BY <1>1 DEF PuttingIs
    <2> QED BY <1>6, <1>7, <1>8, <2>1
  <1> QED BY <1>4, <1>7, <1>9 DEF Unlinked0

LEMMA TestUnlinked0 ==
  ASSUME BaseInv, BaseInv', Unlinked0, NEW p \in Procs, NEW i, Tested(p, i)
  PROVE  Unlinked0'
  <1>1. PuttingIs
    BY BasePutting
  <1>2. k'[p].past = TRUE /\ k'[p].put = k[p].put /\ \A q \in Procs \ {p} : k'[q] = k[q]
    BY TestMoves DEF PutMoves
  <1>3. i \in Inums /\ i = Head(k[p].put) /\ k[p].past = FALSE /\ ref' = ref
    BY DEF Tested
  <1>4. ASSUME NEW j \in Inums, ino'[j].type # "free", ino'[j].nlink = 0,
               ref'[j] = Cardinality(Putting(j)')
        PROVE  j \in late'
    <2>1. CASE j # i
      <3>1. Putting(j)' = Putting(j)
        BY <1>2, <1>3, <2>1 DEF Putting
      <3>2. ino'[j] = ino[j] /\ late \subseteq late'
        BY <2>1 DEF Tested
      <3> QED BY <1>3, <1>4, <3>1, <3>2 DEF Unlinked0
    <2>2. CASE j = i
      <3>1. Putting(i)' = Putting(i) \cup {p} /\ p \notin Putting(i)
        BY <1>2, <1>3 DEF Putting
      <3>2. Cardinality(Putting(i)') = Cardinality(Putting(i)) + 1
        BY <1>1, <1>3, <3>1, FS_AddElement DEF PuttingIs
      <3>3. ino[i].nlink = 0 /\ ref[i] # 1
        <4>1. ino'[i] # NoInode
          BY <1>4, <2>2 DEF NoInode
        <4> QED BY <1>3, <1>4, <2>2, <4>1 DEF Tested
      <3>4. Cardinality(Putting(i)) \in Nat
        BY <1>1, <1>3 DEF PuttingIs
      <3>5. ref[i] - Cardinality(Putting(i)) = 1 /\ Cardinality(Putting(i)) # 0
        BY <1>3, <1>4, <2>2, <3>2, <3>3, <3>4
      <3>6. Putting(i) # {}
        BY <3>5, FS_EmptySet
      <3> QED BY <2>2, <3>3, <3>5, <3>6 DEF Tested
    <2> QED BY <2>1, <2>2
  <1> QED BY <1>4 DEF Unlinked0

LEMMA DoneUnlinked0 ==
  ASSUME BaseInv, BaseInv', Unlinked0, NEW p \in Procs, NEW i, Done(p, i)
  PROVE  Unlinked0'
  <1>1. PuttingIs
    BY BasePutting
  <1>2. k'[p].past = FALSE /\ \A q \in Procs \ {p} : k'[q] = k[q]
    BY DoneMoves DEF PutMoves
  <1>3. /\ i \in Inums /\ i = Head(k[p].put) /\ k[p].past = TRUE /\ ino' = ino /\ late' = late
        /\ ref' = [ref EXCEPT ![i] = @ - 1] /\ ref \in [Inums -> Nat]
    BY DEF Done, BaseInv, TypeOK
  <1>4. ASSUME NEW j \in Inums, ino'[j].type # "free", ino'[j].nlink = 0,
               ref'[j] = Cardinality(Putting(j)')
        PROVE  j \in late'
    <2>1. CASE j # i
      <3>1. Putting(j)' = Putting(j)
        BY <1>2, <1>3, <2>1 DEF Putting
      <3>2. ref'[j] = ref[j]
        BY <1>3, <2>1
      <3> QED BY <1>3, <1>4, <3>1, <3>2 DEF Unlinked0
    <2>2. CASE j = i
      <3>1. Putting(i)' = Putting(i) \ {p} /\ p \in Putting(i)
        BY <1>2, <1>3 DEF Putting
      <3>2. Cardinality(Putting(i)') = Cardinality(Putting(i)) - 1
        BY <1>1, <1>3, <3>1, FS_RemoveElement DEF PuttingIs
      <3>3. ref'[i] = ref[i] - 1 /\ ref[i] \in Nat /\ Cardinality(Putting(i)) \in Nat
        BY <1>1, <1>3 DEF PuttingIs
      <3>4. ref[i] = Cardinality(Putting(i))
        BY <1>4, <2>2, <3>2, <3>3
      <3> QED BY <1>3, <1>4, <2>2, <3>4 DEF Unlinked0
    <2> QED BY <2>1, <2>2
  <1> QED BY <1>4 DEF Unlinked0

-----------------------------------------------------------------------------
(* The tree and the entry that unlink is to remove.                        *)

LEMMA LessLoop ==
  ASSUME BaseInv, NoLoop,
         \A j \in Inums : \A m \in Names : ino'[j].entries[m] \in {None, ino[j].entries[m]}
  PROVE  NoLoop'
  <1>1. None \notin Inums
    BY Constants
  <1>2. ASSUME NEW d \in Inums, NEW e \in Inums, NEW n \in Names, NEW m \in Names,
               ino'[d].entries[n] = e, ino'[e].entries[m] = d
        PROVE  FALSE
    <2>1. ino[d].entries[n] = e /\ ino[e].entries[m] = d
      BY <1>1, <1>2
    <2> QED BY <2>1 DEF NoLoop
  <1> QED BY <1>2 DEF NoLoop

\* A new entry, of an inode that has none and that is not the directory.
LEMMA NewLoop ==
  ASSUME BaseInv, NoLoop, NEW d \in Inums, NEW i \in Inums, NEW n \in Names, i # d,
         \A m \in Names : ino'[i].entries[m] = None,
         \A m \in Names \ {n} : ino'[d].entries[m] = ino[d].entries[m],
         \A j \in Inums \ {d, i} : ino'[j].entries = ino[j].entries,
         ino'[d].entries[n] = i
  PROVE  NoLoop'
  <1>1. None \notin Inums
    BY Constants
  <1>2. ASSUME NEW a \in Inums, NEW b \in Inums, NEW l \in Names, NEW m \in Names,
               ino'[a].entries[l] = b, ino'[b].entries[m] = a
        PROVE  FALSE
    <2>1. a # i /\ b # i
      BY <1>1, <1>2
    <2>2. ino[a].entries[l] = b
      BY <1>2, <2>1
    <2>3. ino[b].entries[m] = a
      BY <1>2, <2>1
    <2> QED BY <2>2, <2>3 DEF NoLoop
  <1> QED BY <1>2 DEF NoLoop

\* What a call at "child" has locked, and what it is to remove.
LEMMA ChildHolds ==
  ASSUME BaseInv, NEW q \in Procs, k[q].pc = "child"
  PROVE  k[q].at \in Inums /\ lock[k[q].at] = q /\ k[q].path[1] \in Names /\ q # None
         /\ k[q].ip \in Inums
  <1>1. k[q].at \in Inums /\ k[q].path[1] \in Names /\ k[q].ip \in Inums
    BY Mine, InHand
  <1>2. Locked(k[q]) = k[q].at
    BY DEF Locked
  <1> QED BY <1>1, <1>2, Alloc, Constants

ChildrenHold ==
  \A q \in Procs : k[q].pc = "child" =>
    k[q].at \in Inums /\ lock[k[q].at] = q /\ k[q].path[1] \in Names /\ q # None
    /\ k[q].ip \in Inums
LEMMA ChildrenNow == BaseInv => ChildrenHold
BY ChildHolds DEF ChildrenHold
LEMMA ChildrenNext == BaseInv' => ChildrenHold'
BY ChildrenNow, PTL

LEMMA OthersUnlink ==
  ASSUME BaseInv, Unlinks, NEW p \in Procs, \A q \in Procs \ {p} : k'[q] = k[q],
         \A e \in Inums : lock[e] \notin {None, p} => ino'[e].entries = ino[e].entries,
         k'[p].pc = "child" => ino'[k'[p].at].entries[k'[p].path[1]] = k'[p].ip
  PROVE  Unlinks'
  <1>1. ASSUME NEW q \in Procs, k'[q].pc = "child"
        PROVE  ino'[k'[q].at].entries[k'[q].path[1]] = k'[q].ip
    <2>1. CASE q = p
      BY <1>1, <2>1
    <2>2. CASE q # p
      <3>1. k'[q] = k[q] /\ k[q].pc = "child"
        BY <1>1, <2>2
      <3>2. ino[k[q].at].entries[k[q].path[1]] = k[q].ip
        BY <3>1 DEF Unlinks
      <3>3. ino'[k[q].at].entries = ino[k[q].at].entries
        BY <2>2, <3>1, ChildHolds
      <3> QED BY <3>1, <3>2, <3>3
    <2> QED BY <2>1, <2>2
  <1> QED BY <1>1 DEF Unlinks

LEMMA QuietTree ==
  ASSUME BaseInv, BaseInv', TreeInv, NEW p \in Procs, Quiet(p)
  PROVE  TreeInv'
  <1>1. /\ \A i \in Inums : /\ ino'[i].type = ino[i].type /\ ino'[i].nlink = ino[i].nlink
                            /\ ino'[i].entries = ino[i].entries
        /\ More(p) /\ ChildIs(k'[p])
    BY DEF Quiet, SameTree
  <1>2. OnlyDirs'
    BY <1>1 DEF TreeInv, OnlyDirs, IsDir
  <1>3. NoLoop'
    BY <1>1, LessLoop DEF TreeInv
  <1>4. Unlinks'
    <2>1. k'[p].pc = "child" => ino'[k'[p].at].entries[k'[p].path[1]] = k'[p].ip
      BY <1>1, ChildrenNext DEF ChildIs, ChildrenHold
    <2>2. \A q \in Procs \ {p} : k'[q] = k[q]
      BY <1>1 DEF More, Others1
    <2> QED BY <1>1, <2>1, <2>2, OthersUnlink DEF TreeInv
  <1>5. Unlinked0'
    <2>1. ASSUME NEW i \in Inums, ino'[i].type # "free", ino'[i].nlink = 0,
                 ref'[i] = Cardinality(Putting(i)')
          PROVE  i \in late'
      BY <1>1, <2>1, MoreUnlinked0 DEF TreeInv
    <2> QED BY <2>1 DEF Unlinked0
  <1> QED BY <1>2, <1>3, <1>4, <1>5 DEF TreeInv

LEMMA CountsTree ==
  ASSUME BaseInv, BaseInv', TreeInv, NEW p \in Procs, NEW i \in Inums, NEW more \in BOOLEAN,
         Counts(p, i, more)
  PROVE  TreeInv'
  <1>1. /\ \A j \in Inums : /\ ino'[j].type = ino[j].type /\ ino'[j].entries = ino[j].entries
                            /\ j # i => ino'[j].nlink = ino[j].nlink
        /\ More(p) /\ k'[p].pc # "child" /\ (\E w \in Wheres : Place(p, w)' = i)
    <2>1. Counted1(i, more)
      BY CountsIno
    <2> QED BY <2>1 DEF Counted1, Counts
  <1>2. OnlyDirs'
    BY <1>1 DEF TreeInv, OnlyDirs, IsDir
  <1>3. NoLoop'
    BY <1>1, LessLoop DEF TreeInv
  <1>4. Unlinks'
    <2>1. \A q \in Procs \ {p} : k'[q] = k[q]
      BY <1>1 DEF More, Others1
    <2> QED BY <1>1, <2>1, OthersUnlink DEF TreeInv
  <1>5. Unlinked0'
    <2>1. ASSUME NEW j \in Inums, ino'[j].type # "free", ino'[j].nlink = 0,
                 ref'[j] = Cardinality(Putting(j)')
          PROVE  j \in late'
      <3>1. CASE j = i
        <4>1. \E w \in Wheres : Place(p, w)' = j
          BY <1>1, <3>1
        <4> QED BY <1>1, <2>1, <4>1, MoreUnlinked0 DEF TreeInv
      <3>2. CASE j # i
        <4>1. ino'[j].type = ino[j].type /\ ino'[j].nlink = ino[j].nlink
          BY <1>1, <3>2
        <4> QED BY <1>1, <2>1, <4>1, MoreUnlinked0 DEF TreeInv
      <3> QED BY <3>1, <3>2
    <2> QED BY <2>1 DEF Unlinked0
  <1> QED BY <1>2, <1>3, <1>4, <1>5 DEF TreeInv

LEMMA MakesTree ==
  ASSUME BaseInv, BaseInv', TreeInv, NEW p \in Procs, NEW d, NEW n, NEW i, NEW kind,
         Makes(p, d, n, i, kind)
  PROVE  TreeInv'
  <1>1. /\ d \in Inums /\ i \in Inums /\ n \in Names /\ ino[i].type = "free" /\ ino[d].type = "dir"
        /\ lock[d] = None /\ More(p) /\ k'[p].pc = "created" /\ k'[p].put = <<d>>
        /\ k'[p].ip = i
    BY DEF Makes, MakeStep
  <1>2. /\ i # d /\ ino'[i].entries = NoEntries /\ ino'[d].type = "dir"
        /\ ino'[d].entries = [ino[d].entries EXCEPT ![n] = i]
        /\ \A j \in Inums \ {d, i} : ino'[j] = ino[j]
    <2>1. Made(p, d, n, i, kind)
      BY MakeIs DEF Makes
    <2> QED BY <2>1 DEF Made
  <1>3. OnlyDirs'
    BY <1>1, <1>2 DEF TreeInv, OnlyDirs, IsDir
  <1>4. NoLoop'
    <2>1. \A m \in Names : ino'[i].entries[m] = None
      BY <1>2 DEF NoEntries
    <2>2. ino[d].entries \in [Names -> Inums \cup {None}]
      BY <1>1, Hand DEF Inode
    <2>3. ino'[d].entries[n] = i /\ \A m \in Names \ {n} : ino'[d].entries[m] = ino[d].entries[m]
      BY <1>1, <1>2, <2>2
    <2>4. \A j \in Inums \ {d, i} : ino'[j].entries = ino[j].entries
      BY <1>2
    <2>5. i # d /\ d \in Inums /\ i \in Inums /\ n \in Names /\ NoLoop
      BY <1>1, <1>2 DEF TreeInv
    <2> QED BY <2>1, <2>3, <2>4, <2>5, NewLoop
  <1>5. Unlinks'
    <2>1. \A q \in Procs \ {p} : k'[q] = k[q]
      BY <1>1 DEF More, Others1
    <2>2. lock[i] = None
      BY <1>1, Alloc
    <2>3. \A e \in Inums : lock[e] \notin {None, p} => ino'[e].entries = ino[e].entries
      BY <1>1, <1>2, <2>2
    <2>4. k'[p].pc # "child"
      BY <1>1
    <2> QED BY <2>1, <2>3, <2>4, OthersUnlink DEF TreeInv
  <1>6. Unlinked0'
    <2>1. Place(p, "ip")' = i /\ Place(p, "put")' = d /\ "ip" \in Wheres /\ "put" \in Wheres
      BY <1>1 DEF Place, Wheres
    <2>2. ASSUME NEW j \in Inums, ino'[j].type # "free", ino'[j].nlink = 0,
                 ref'[j] = Cardinality(Putting(j)')
          PROVE  j \in late'
      <3>1. CASE j \in {d, i}
        <4>1. \E w \in Wheres : Place(p, w)' = j
          BY <2>1, <3>1
        <4> QED BY <1>1, <2>2, <4>1, MoreUnlinked0 DEF TreeInv
      <3>2. CASE j \notin {d, i}
        <4>1. ino'[j].type = ino[j].type /\ ino'[j].nlink = ino[j].nlink
          BY <1>2, <3>2
        <4> QED BY <1>1, <2>2, <4>1, MoreUnlinked0 DEF TreeInv
      <3> QED BY <3>1, <3>2
    <2> QED BY <2>2 DEF Unlinked0
  <1> QED BY <1>3, <1>4, <1>5, <1>6 DEF TreeInv

LEMMA EntersTree ==
  ASSUME BaseInv, BaseInv', TreeInv, NEW p \in Procs, NEW d, NEW n, NEW i, Enters(p, d, n, i)
  PROVE  TreeInv'
  <1>1. /\ d \in Inums /\ i \in Inums /\ n \in Names /\ ino[d].type = "dir"
        /\ ino[i].type # "dir" /\ lock[d] = None /\ More(p) /\ k'[p].pc # "child"
    BY DEF Enters
  <1>2. /\ \A j \in Inums : /\ ino'[j].type = ino[j].type
                            /\ j # d => ino'[j].nlink = ino[j].nlink /\ ino'[j].entries = ino[j].entries
        /\ ino'[d].nlink = ino[d].nlink + 0 /\ ino'[d].entries[n] = i
        /\ \A m \in Names \ {n} : ino'[d].entries[m] = ino[d].entries[m]
    <2>1. Entry1(d, n, i, 0)
      BY EntersIno
    <2> QED BY <2>1 DEF Entry1
  <1>3. OnlyDirs'
    BY <1>1, <1>2 DEF TreeInv, OnlyDirs, IsDir
  <1>4. NoLoop'
    <2>1. i # d /\ \A m \in Names : ino'[i].entries[m] = None
      BY <1>1, <1>2 DEF TreeInv, OnlyDirs, IsDir, NoEntries
    <2> QED BY <1>1, <1>2, <2>1, NewLoop DEF TreeInv
  <1>5. Unlinks'
    <2>1. \A q \in Procs \ {p} : k'[q] = k[q]
      BY <1>1 DEF More, Others1
    <2> QED BY <1>1, <1>2, <2>1, OthersUnlink DEF TreeInv
  <1>6. Unlinked0'
    <2>1. ASSUME NEW j \in Inums, ino'[j].type # "free", ino'[j].nlink = 0,
                 ref'[j] = Cardinality(Putting(j)')
          PROVE  j \in late'
      <3>1. ino[d] \in Inode
        BY <1>1, Hand
      <3>2. ino'[j].type = ino[j].type /\ ino'[j].nlink = ino[j].nlink
        BY <1>2, <3>1 DEF Inode
      <3> QED BY <1>1, <2>1, <3>2, MoreUnlinked0 DEF TreeInv
    <2> QED BY <2>1 DEF Unlinked0
  <1> QED BY <1>3, <1>4, <1>5, <1>6 DEF TreeInv

LEMMA RemovesTree ==
  ASSUME BaseInv, BaseInv', TreeInv, NEW p \in Procs, NEW d, NEW n, NEW i, Removes(p, d, n, i)
  PROVE  TreeInv'
  <1>1. /\ d \in Inums /\ i \in Inums /\ n \in Names /\ ino[d].type = "dir"
        /\ lock[d] = p /\ More(p) /\ k'[p].pc = "unlinked" /\ k'[p].put = <<d>>
    BY DEF Removes
  <1>2. /\ \A j \in Inums : /\ ino'[j].type = ino[j].type
                            /\ j # d => ino'[j].nlink = ino[j].nlink /\ ino'[j].entries = ino[j].entries
        /\ ino'[d].entries[n] = None
        /\ \A m \in Names \ {n} : ino'[d].entries[m] = ino[d].entries[m]
    <2>1. Entry1(d, n, None, IF IsDir(i) THEN -1 ELSE 0)
      BY RemovesIno
    <2> QED BY <2>1 DEF Entry1
  <1>3. OnlyDirs'
    BY <1>1, <1>2 DEF TreeInv, OnlyDirs, IsDir
  <1>4. NoLoop'
    BY <1>1, <1>2, LessLoop DEF TreeInv
  <1>5. Unlinks'
    <2>1. \A q \in Procs \ {p} : k'[q] = k[q]
      BY <1>1 DEF More, Others1
    <2>2. k'[p].pc # "child"
      BY <1>1
    <2> QED BY <1>1, <1>2, <2>1, <2>2, OthersUnlink DEF TreeInv
  <1>6. Unlinked0'
    <2>1. Place(p, "put")' = d /\ "put" \in Wheres
      BY <1>1 DEF Place, Wheres
    <2>2. ASSUME NEW j \in Inums, ino'[j].type # "free", ino'[j].nlink = 0,
                 ref'[j] = Cardinality(Putting(j)')
          PROVE  j \in late'
      <3>1. CASE j = d
        <4>1. \E w \in Wheres : Place(p, w)' = j
          BY <2>1, <3>1
        <4> QED BY <1>1, <2>2, <4>1, MoreUnlinked0 DEF TreeInv
      <3>2. CASE j # d
        <4>1. ino'[j].type = ino[j].type /\ ino'[j].nlink = ino[j].nlink
          BY <1>2, <3>2
        <4> QED BY <1>1, <2>2, <4>1, MoreUnlinked0 DEF TreeInv
      <3> QED BY <3>1, <3>2
    <2> QED BY <2>2 DEF Unlinked0
  <1> QED BY <1>3, <1>4, <1>5, <1>6 DEF TreeInv

LEMMA TestedTree ==
  ASSUME BaseInv, BaseInv', TreeInv, NEW p \in Procs, NEW i, Tested(p, i)
  PROVE  TreeInv'
  <1>1. /\ i \in Inums /\ lock[i] = None /\ \A j \in Inums \ {i} : ino'[j] = ino[j]
        /\ ino'[i] = ino[i] \/ ino'[i] = NoInode
    BY DEF Tested
  <1>2. PutMoves(p)
    BY TestMoves
  <1>3. OnlyDirs'
    BY <1>1 DEF TreeInv, OnlyDirs, IsDir, NoInode
  <1>4. NoLoop'
    <2>1. \A j \in Inums : \A m \in Names : ino'[j].entries[m] \in {None, ino[j].entries[m]}
      BY <1>1 DEF NoInode, NoEntries
    <2> QED BY <2>1, LessLoop DEF TreeInv
  <1>5. Unlinks'
    <2>1. \A q \in Procs \ {p} : k'[q] = k[q]
      BY <1>2 DEF PutMoves
    <2>2. \A e \in Inums : lock[e] \notin {None, p} => ino'[e].entries = ino[e].entries
      BY <1>1
    <2>3. ASSUME k'[p].pc = "child" PROVE ino'[k'[p].at].entries[k'[p].path[1]] = k'[p].ip
      <3>1. k[p].pc = "child" /\ k'[p].at = k[p].at /\ k'[p].ip = k[p].ip /\ k'[p].path = k[p].path
        BY <1>2, <2>3 DEF PutMoves
      <3>2. k[p].at \in Inums \ {i}
        BY <1>1, <3>1, ChildHolds
      <3>3. ino'[k[p].at] = ino[k[p].at]
        BY <1>1, <3>2
      <3> QED BY <3>1, <3>3 DEF TreeInv, Unlinks
    <2> QED BY <2>1, <2>2, <2>3, OthersUnlink DEF TreeInv
  <1>6. Unlinked0'
    BY TestUnlinked0 DEF TreeInv
  <1> QED BY <1>3, <1>4, <1>5, <1>6 DEF TreeInv

LEMMA DoneTree ==
  ASSUME BaseInv, BaseInv', TreeInv, NEW p \in Procs, NEW i, Done(p, i)
  PROVE  TreeInv'
  <1>1. ino' = ino
    BY DEF Done
  <1>2. PutMoves(p)
    BY DoneMoves
  <1>3. OnlyDirs' /\ NoLoop'
    BY <1>1 DEF TreeInv, OnlyDirs, NoLoop, IsDir
  <1>4. Unlinks'
    <2>1. \A q \in Procs \ {p} : k'[q] = k[q]
      BY <1>2 DEF PutMoves
    <2>2. k'[p].pc = "child" => ino'[k'[p].at].entries[k'[p].path[1]] = k'[p].ip
      BY <1>1, <1>2 DEF TreeInv, Unlinks, PutMoves
    <2> QED BY <1>1, <2>1, <2>2, OthersUnlink DEF TreeInv
  <1>5. Unlinked0'
    BY DoneUnlinked0 DEF TreeInv
  <1> QED BY <1>3, <1>4, <1>5 DEF TreeInv

-----------------------------------------------------------------------------
(* Names and counts: how their sets move with a step.                      *)

\* One element comes or goes.
LEMMA Moved ==
  ASSUME NEW S, IsFiniteSet(S), NEW T, NEW z, \A x : x # z => (x \in T <=> x \in S)
  PROVE  /\ IsFiniteSet(T) /\ Cardinality(S) \in Nat /\ Cardinality(T) \in Nat
         /\ Cardinality(T) = Cardinality(S) + (IF z \in T THEN 1 ELSE 0) - (IF z \in S THEN 1 ELSE 0)
  <1>1. PICK R : R = S \ {z}
    OBVIOUS
  <1>2. IsFiniteSet(R) /\ Cardinality(R) \in Nat
    BY <1>1, FS_Subset, FS_CardinalityType
  <1>3. z \notin R /\ R \subseteq S /\ S \subseteq R \cup {z} /\ R \subseteq T /\ T \subseteq R \cup {z}
    BY <1>1
  <1>4. Cardinality(S) = Cardinality(R) + (IF z \in S THEN 1 ELSE 0)
    BY <1>2, <1>3, AddIf
  <1>5. IsFiniteSet(T) /\ Cardinality(T) = Cardinality(R) + (IF z \in T THEN 1 ELSE 0)
    BY <1>2, <1>3, AddIf
  <1>6. Cardinality(S) \in Nat /\ Cardinality(T) \in Nat
    BY <1>5, FS_CardinalityType
  <1> QED BY <1>2, <1>4, <1>5, <1>6

NamesIn(i) == {x \in Inums \X Names : ino[x[1]].entries[x[2]] = i}
OwedBy(i) == {p \in Procs : Owes(k[p]) = i}

LEMMA SetsAre ==
  ASSUME NEW i \in Inums
  PROVE  Named(i) = NamesIn(i) /\ Pending(i) = OwedBy(i)
  <1>1. i # None
    BY Constants
  <1>2. Named(i) = NamesIn(i)
    BY <1>1 DEF Named, Entries, NamesIn
  <1>3. Pending(i) = OwedBy(i)
    BY <1>1 DEF Pending, OwedBy, Owes
  <1> QED BY <1>2, <1>3

LEMMA SetsAreNext ==
  ASSUME NEW i \in Inums
  PROVE  Named(i)' = NamesIn(i)' /\ Pending(i)' = OwedBy(i)'
  <1>1. i # None
    BY Constants
  <1>2. Named(i)' = NamesIn(i)'
    BY <1>1 DEF Named, Entries, NamesIn
  <1>3. Pending(i)' = OwedBy(i)'
    BY <1>1 DEF Pending, OwedBy, Owes
  <1> QED BY <1>2, <1>3

Finite(i) ==
  /\ IsFiniteSet(Named(i)) /\ IsFiniteSet(Pending(i)) /\ IsFiniteSet(Subdirs(i))
  /\ Cardinality(Named(i)) \in Nat /\ Cardinality(Pending(i)) \in Nat
  /\ Cardinality(Subdirs(i)) \in Nat

LEMMA AllFinite == \A i : Finite(i)
  <1>1. ASSUME NEW i PROVE Finite(i)
    <2>1. Named(i) \subseteq Inums \X Names /\ Pending(i) \subseteq Procs /\ Subdirs(i) \subseteq Names
      BY DEF Named, Entries, Pending, Subdirs
    <2>2. IsFiniteSet(Inums \X Names)
      BY Constants, FS_Product
    <2>3. IsFiniteSet(Named(i)) /\ IsFiniteSet(Pending(i)) /\ IsFiniteSet(Subdirs(i))
      BY <2>1, <2>2, Constants, FS_Subset
    <2> QED BY <2>3, FS_CardinalityType DEF Finite
  <1> QED BY <1>1

\* The calls that a count waits for.
LEMMA PendingMoves ==
  ASSUME NEW p \in Procs, \A q \in Procs \ {p} : k'[q] = k[q], NEW j \in Inums
  PROVE  Cardinality(Pending(j)') =
           Cardinality(Pending(j)) + Is(Owes(k'[p]), j) - Is(Owes(k[p]), j)
  <1>1. PICK S : S = Pending(j)
    OBVIOUS
  <1>2. PICK T : T = Pending(j)'
    OBVIOUS
  <1>3. /\ \A q : q # p => (q \in T <=> q \in S)
        /\ p \in T <=> Owes(k'[p]) = j
        /\ p \in S <=> Owes(k[p]) = j
    BY <1>1, <1>2, SetsAre, SetsAreNext DEF OwedBy
  <1>4. IsFiniteSet(S)
    BY <1>1, AllFinite DEF Finite
  <1>5. Cardinality(T) = Cardinality(S) + (IF p \in T THEN 1 ELSE 0) - (IF p \in S THEN 1 ELSE 0)
    BY <1>3, <1>4, Moved
  <1> QED BY <1>1, <1>2, <1>3, <1>5 DEF Is

\* The entry n of d, which was old, becomes e.
EntrySet(d, n, old, e) ==
  /\ d \in Inums /\ n \in Names /\ ino[d].entries[n] = old /\ ino'[d].entries[n] = e
  /\ old \in Inums \cup {None} /\ e \in Inums \cup {None}
  /\ \A j \in Inums : \A m \in Names : j # d \/ m # n => ino'[j].entries[m] = ino[j].entries[m]

LEMMA NamedMoves ==
  ASSUME NEW d, NEW n, NEW old, NEW e, EntrySet(d, n, old, e), NEW j \in Inums
  PROVE  /\ Cardinality(Named(j)') = Cardinality(Named(j)) + Is(e, j) - Is(old, j)
         /\ \A x : x # <<d, n>> => (x \in Named(j)' <=> x \in Named(j))
         /\ <<d, n>> \in Named(j)' <=> e = j
         /\ <<d, n>> \in Named(j) <=> old = j
  <1>1. PICK S : S = Named(j)
    OBVIOUS
  <1>2. PICK T : T = Named(j)'
    OBVIOUS
  <1>3. PICK z : z = <<d, n>>
    OBVIOUS
  <1>4. S = NamesIn(j) /\ T = NamesIn(j)'
    BY <1>1, <1>2, SetsAre, SetsAreNext
  <1>5. /\ \A x : x # z => (x \in T <=> x \in S)
        /\ z \in T <=> e = j
        /\ z \in S <=> old = j
    BY <1>3, <1>4 DEF NamesIn, EntrySet
  <1>6. IsFiniteSet(S)
    BY <1>1, AllFinite DEF Finite
  <1>7. Cardinality(T) = Cardinality(S) + (IF z \in T THEN 1 ELSE 0) - (IF z \in S THEN 1 ELSE 0)
    BY <1>5, <1>6, Moved
  <1> QED BY <1>1, <1>2, <1>3, <1>5, <1>7 DEF Is

\* Whether what an entry names is a directory.
DirNum(t) == IF t # None /\ IsDir(t) THEN 1 ELSE 0
KindsOfNamed ==
  \A j \in Inums : Named(j) # {} => (ino'[j].type = "dir" <=> ino[j].type = "dir")

LEMMA EntryNamed ==
  ASSUME NEW j \in Inums, NEW m \in Names, ino[j].entries[m] \in Inums
  PROVE  Named(ino[j].entries[m]) # {}
  <1>1. <<j, m>> \in NamesIn(ino[j].entries[m])
    BY DEF NamesIn
  <1> QED BY <1>1, SetsAre

LEMMA SubdirsMove ==
  ASSUME BaseInv, KindsOfNamed, NEW d, NEW n, NEW old, NEW e, EntrySet(d, n, old, e),
         NEW j \in Inums
  PROVE  /\ j # d => Subdirs(j)' = Subdirs(j)
         /\ Cardinality(Subdirs(d)') = Cardinality(Subdirs(d)) + DirNum(e)' - DirNum(old)
  <1>1. \A i \in Inums : \A m \in Names : ino[i].entries[m] \in Inums \cup {None}
    BY DEF BaseInv, TypeOK, Inode
  <1>2. ASSUME NEW i \in Inums, NEW m \in Names, i # d \/ m # n
        PROVE  m \in Subdirs(i)' <=> m \in Subdirs(i)
    <2>1. ino'[i].entries[m] = ino[i].entries[m]
      BY <1>2 DEF EntrySet
    <2>2. CASE ino[i].entries[m] = None
      BY <2>1, <2>2 DEF Subdirs
    <2>3. CASE ino[i].entries[m] # None
      <3>1. PICK t \in Inums : t = ino[i].entries[m]
        BY <1>1, <2>3
      <3>2. ino'[t].type = "dir" <=> ino[t].type = "dir"
        BY <3>1, EntryNamed DEF KindsOfNamed
      <3> QED BY <2>1, <3>1, <3>2 DEF Subdirs, IsDir
    <2> QED BY <2>2, <2>3
  <1>3. j # d => Subdirs(j)' = Subdirs(j)
    <2>1. Subdirs(j) \subseteq Names /\ Subdirs(j)' \subseteq Names
      BY DEF Subdirs
    <2> QED BY <1>2, <2>1
  <1>4. PICK S : S = Subdirs(d)
    OBVIOUS
  <1>5. PICK T : T = Subdirs(d)'
    OBVIOUS
  <1>6. d \in Inums /\ n \in Names /\ ino[d].entries[n] = old /\ ino'[d].entries[n] = e
    BY DEF EntrySet
  <1>7. \A m : m # n => (m \in T <=> m \in S)
    <2>1. S \subseteq Names /\ T \subseteq Names
      BY <1>4, <1>5 DEF Subdirs
    <2> QED BY <1>2, <1>4, <1>5, <1>6, <2>1
  <1>8. (n \in T <=> e # None /\ IsDir(e)') /\ (n \in S <=> old # None /\ IsDir(old))
    BY <1>4, <1>5, <1>6 DEF Subdirs, IsDir
  <1>9. IsFiniteSet(S)
    BY <1>4, AllFinite DEF Finite
  <1>10. Cardinality(T) = Cardinality(S) + (IF n \in T THEN 1 ELSE 0) - (IF n \in S THEN 1 ELSE 0)
    BY <1>7, <1>9, Moved
  <1>11. (IF n \in T THEN 1 ELSE 0) = DirNum(e)' /\ (IF n \in S THEN 1 ELSE 0) = DirNum(old)
    BY <1>8 DEF DirNum
  <1> QED BY <1>3, <1>4, <1>5, <1>10, <1>11

\* Steps that leave the entries and the kinds of the inodes as they are.
LEMMA SameNames ==
  ASSUME BaseInv, \A j \in Inums : ino'[j].entries = ino[j].entries, KindsOfNamed
  PROVE  \A j \in Inums : Named(j)' = Named(j) /\ Subdirs(j)' = Subdirs(j)
  <1>1. ASSUME NEW j \in Inums PROVE Named(j)' = Named(j)
    <2>1. NamesIn(j)' = NamesIn(j)
      BY DEF NamesIn
    <2> QED BY <2>1, SetsAre, SetsAreNext
  <1>2. \A i \in Inums : \A m \in Names : ino[i].entries[m] \in Inums \cup {None}
    BY DEF BaseInv, TypeOK, Inode
  <1>3. ASSUME NEW i \in Inums, NEW m \in Names
        PROVE  m \in Subdirs(i)' <=> m \in Subdirs(i)
    <2>1. ino'[i].entries[m] = ino[i].entries[m]
      OBVIOUS
    <2>2. CASE ino[i].entries[m] = None
      BY <2>1, <2>2 DEF Subdirs
    <2>3. CASE ino[i].entries[m] # None
      <3>1. PICK t \in Inums : t = ino[i].entries[m]
        BY <1>2, <2>3
      <3>2. ino'[t].type = "dir" <=> ino[t].type = "dir"
        BY <3>1, EntryNamed DEF KindsOfNamed
      <3> QED BY <2>1, <3>1, <3>2 DEF Subdirs, IsDir
    <2> QED BY <2>2, <2>3
  <1>4. ASSUME NEW i \in Inums PROVE Subdirs(i)' = Subdirs(i)
    <2>1. Subdirs(i) \subseteq Names /\ Subdirs(i)' \subseteq Names
      BY DEF Subdirs
    <2> QED BY <1>3, <2>1
  <1> QED BY <1>1, <1>4

-----------------------------------------------------------------------------
(* Names and counts stay together.                                         *)

Even == upset \cap {"removed", "link"} = {}
RootOK == IsDir(ROOTINO) /\ ino[ROOTINO].up = ROOTINO
Names1(i) ==
  /\ Counted(i)
  /\ Named(i) # {} => ino[i].type # "free"
  /\ \A x \in Named(i) : IsDir(i) => ino[i].up = x[1]
  /\ IsDir(i) /\ i # ROOTINO /\ Named(i) = {} => ino[i].entries = NoEntries

LEMMA NameParts == NameInv <=> (Even => RootOK /\ \A i \in Inums : Names1(i))
BY DEF NameInv, Even, RootOK, Names1
LEMMA NamePartsNext == NameInv' <=> (Even' => RootOK' /\ \A i \in Inums : Names1(i)')
BY DEF NameInv, Even, RootOK, Names1

LEMMA StillEven ==
  ASSUME NameInv, upset \subseteq upset', Even'
  PROVE  RootOK /\ \A i \in Inums : Names1(i)
  <1>1. Even
    BY DEF Even
  <1> QED BY <1>1, NameParts

Root(i) == IF i = ROOTINO THEN 1 ELSE 0
\* The count of an inode moves with its names.
LEMMA CountedMoves ==
  ASSUME BaseInv, NEW i \in Inums, Counted(i), ino[i].type # "free",
         NEW a \in Int, NEW b \in Int, NEW c \in Int,
         Cardinality(Named(i)') = Cardinality(Named(i)) + a,
         Cardinality(Pending(i)') = Cardinality(Pending(i)) + b,
         Cardinality(Subdirs(i)') = Cardinality(Subdirs(i)) + c,
         ino'[i].nlink = ino[i].nlink + (a + b + c)
  PROVE  Counted(i)'
  <1>1. /\ Cardinality(Named(i)) \in Nat /\ Cardinality(Pending(i)) \in Nat
        /\ Cardinality(Subdirs(i)) \in Nat
    BY AllFinite DEF Finite
  <1>2. ino[i].nlink = Cardinality(Named(i)) + Cardinality(Pending(i))
                       + Cardinality(Subdirs(i)) + Root(i)
    BY DEF Counted, Root
  <1>3. Root(i) \in Int
    BY DEF Root
  <1>4. ino'[i].nlink = Cardinality(Named(i)') + Cardinality(Pending(i)')
                        + Cardinality(Subdirs(i)') + Root(i)
    BY <1>1, <1>2, <1>3
  <1> QED BY <1>4 DEF Counted, Root

\* Steps that leave entries, kinds and parents as they are.
SameTypes1 ==
  \A j \in Inums : /\ ino'[j].type = ino[j].type /\ ino'[j].up = ino[j].up
                   /\ ino'[j].entries = ino[j].entries

LEMMA CountNames ==
  ASSUME BaseInv, NameInv, NEW p \in Procs, SameTypes1, upset \subseteq upset',
         \A q \in Procs \ {p} : k'[q] = k[q],
         \A j \in Inums : ino[j].type # "free" =>
           ino'[j].nlink = ino[j].nlink + (Is(Owes(k'[p]), j) - Is(Owes(k[p]), j))
  PROVE  NameInv'
  <1>1. SUFFICES ASSUME Even' PROVE RootOK' /\ \A i \in Inums : Names1(i)'
    BY NamePartsNext
  <1>2. RootOK /\ \A i \in Inums : Names1(i)
    BY <1>1, StillEven
  <1>3. RootOK'
    BY <1>2, RootIn DEF RootOK, IsDir, SameTypes1
  <1>4. \A j \in Inums : Named(j)' = Named(j) /\ Subdirs(j)' = Subdirs(j)
    BY SameNames DEF SameTypes1, KindsOfNamed
  <1>5. ASSUME NEW i \in Inums PROVE Names1(i)'
    <2>1. Named(i)' = Named(i) /\ Subdirs(i)' = Subdirs(i) /\ Names1(i)
      BY <1>2, <1>4
    <2>2. /\ ino'[i].type = ino[i].type /\ ino'[i].up = ino[i].up
          /\ ino'[i].entries = ino[i].entries
      BY DEF SameTypes1
    <2>3. Counted(i)'
      <3>1. CASE ino[i].type = "free"
        BY <2>2, <3>1 DEF Counted
      <3>2. CASE ino[i].type # "free"
        <4>1. PICK b \in Int : b = Is(Owes(k'[p]), i) - Is(Owes(k[p]), i)
          BY DEF Is
        <4>2. Cardinality(Pending(i)') = Cardinality(Pending(i)) + b
          <5>1. Cardinality(Pending(i)) \in Nat
            BY AllFinite DEF Finite
          <5>2. Is(Owes(k'[p]), i) \in Int /\ Is(Owes(k[p]), i) \in Int
            BY DEF Is
          <5>3. Cardinality(Pending(i)') =
                  Cardinality(Pending(i)) + Is(Owes(k'[p]), i) - Is(Owes(k[p]), i)
            BY PendingMoves
          <5> QED BY <4>1, <5>1, <5>2, <5>3
        <4>3. /\ Cardinality(Named(i)') = Cardinality(Named(i)) + 0
              /\ Cardinality(Subdirs(i)') = Cardinality(Subdirs(i)) + 0
          BY <2>1, AllFinite DEF Finite
        <4>4. ino'[i].nlink = ino[i].nlink + (0 + b + 0)
          BY <3>2, <4>1
        <4>5. Counted(i)
          BY <2>1 DEF Names1
        <4> QED BY <3>2, <4>2, <4>3, <4>4, <4>5, CountedMoves
      <3> QED BY <3>1, <3>2
    <2>4. Named(i)' # {} => ino'[i].type # "free"
      BY <2>1, <2>2 DEF Names1
    <2>5. \A x \in Named(i)' : ino'[i].type = "dir" => ino'[i].up = x[1]
      BY <2>1, <2>2 DEF Names1, IsDir
    <2>6. ino'[i].type = "dir" /\ i # ROOTINO /\ Named(i)' = {} => ino'[i].entries = NoEntries
      BY <2>1, <2>2 DEF Names1, IsDir
    <2> QED BY <2>3, <2>4, <2>5, <2>6 DEF Names1, IsDir
  <1> QED BY <1>3, <1>5

LEMMA QuietNames ==
  ASSUME BaseInv, NameInv, NEW p \in Procs, Quiet(p)
  PROVE  NameInv'
  <1>1. SameTypes1 /\ (\A j \in Inums : ino'[j].nlink = ino[j].nlink) /\ Owes(k'[p]) = Owes(k[p])
    BY DEF Quiet, SameTree, SameTypes1
  <1>2. upset \subseteq upset' /\ \A q \in Procs \ {p} : k'[q] = k[q]
    BY DEF Quiet, More, Others1
  <1>3. ASSUME NEW j \in Inums
        PROVE  ino'[j].nlink = ino[j].nlink + (Is(Owes(k'[p]), j) - Is(Owes(k[p]), j))
    <2>1. ino[j].nlink \in Int /\ Is(Owes(k[p]), j) \in Int
      BY DEF BaseInv, TypeOK, Inode, Is
    <2> QED BY <1>1, <2>1
  <1> QED BY <1>1, <1>2, <1>3, CountNames

LEMMA DoneNames ==
  ASSUME BaseInv, NameInv, NEW p \in Procs, NEW i, Done(p, i)
  PROVE  NameInv'
  <1>1. SameTypes1 /\ (\A j \in Inums : ino'[j].nlink = ino[j].nlink) /\ upset \subseteq upset'
    BY DEF Done, SameTypes1
  <1>2. Owes(k'[p]) = Owes(k[p]) /\ \A q \in Procs \ {p} : k'[q] = k[q]
    BY DoneMoves DEF PutMoves, Owes
  <1>3. ASSUME NEW j \in Inums
        PROVE  ino'[j].nlink = ino[j].nlink + (Is(Owes(k'[p]), j) - Is(Owes(k[p]), j))
    <2>1. ino[j].nlink \in Int /\ Is(Owes(k[p]), j) \in Int
      BY DEF BaseInv, TypeOK, Inode, Is
    <2> QED BY <1>1, <1>2, <2>1
  <1> QED BY <1>1, <1>2, <1>3, CountNames

LEMMA CountsNames ==
  ASSUME BaseInv, NameInv, NEW p \in Procs, NEW i \in Inums, NEW more \in BOOLEAN,
         Counts(p, i, more)
  PROVE  NameInv'
  <1>1. Counted1(i, more)
    BY CountsIno
  <1>2. SameTypes1
    BY <1>1 DEF Counted1, SameTypes1
  <1>3. upset \subseteq upset' /\ \A q \in Procs \ {p} : k'[q] = k[q]
    BY DEF Counts, More, Others1
  <1>4. ASSUME NEW j \in Inums
        PROVE  ino'[j].nlink = ino[j].nlink + (Is(Owes(k'[p]), j) - Is(Owes(k[p]), j))
    <2>1. ino[j].nlink \in Int
      BY DEF BaseInv, TypeOK, Inode
    <2>2. Is(None, j) = 0 /\ (j # i => Is(i, j) = 0) /\ Is(j, j) = 1
      BY NoneIs, Iss
    <2>3. CASE more
      <3>1. Owes(k[p]) = None /\ Owes(k'[p]) = i
        BY <2>3 DEF Counts
      <3>2. /\ j # i => ino'[j].nlink = ino[j].nlink
            /\ j = i => ino'[j].nlink = ino[j].nlink + 1
        BY <1>1, <2>3 DEF Counted1
      <3> QED BY <2>1, <2>2, <3>1, <3>2
    <2>4. CASE ~more
      <3>1. Owes(k[p]) = i /\ Owes(k'[p]) = None
        BY <2>4 DEF Counts
      <3>2. /\ j # i => ino'[j].nlink = ino[j].nlink
            /\ j = i => ino'[j].nlink = ino[j].nlink - 1
        BY <1>1, <2>4 DEF Counted1
      <3> QED BY <2>1, <2>2, <3>1, <3>2
    <2> QED BY <2>3, <2>4
  <1> QED BY <1>2, <1>3, <1>4, CountNames

\* An inode without a count has no name.
LEMMA NoNames ==
  ASSUME BaseInv, NEW i \in Inums, Counted(i), ino[i].type # "free", ino[i].nlink = 0
  PROVE  Named(i) = {} /\ Pending(i) = {} /\ i # ROOTINO
  <1>1. /\ Cardinality(Named(i)) \in Nat /\ Cardinality(Pending(i)) \in Nat
        /\ Cardinality(Subdirs(i)) \in Nat /\ IsFiniteSet(Named(i)) /\ IsFiniteSet(Pending(i))
    BY AllFinite DEF Finite
  <1>2. 0 = Cardinality(Named(i)) + Cardinality(Pending(i)) + Cardinality(Subdirs(i)) + Root(i)
    BY DEF Counted, Root
  <1>3. Root(i) \in {0, 1}
    BY DEF Root
  <1>4. Cardinality(Named(i)) = 0 /\ Cardinality(Pending(i)) = 0 /\ Root(i) = 0
    BY <1>1, <1>2, <1>3
  <1> QED BY <1>1, <1>4, FS_EmptySet DEF Root

LEMMA TestedNames ==
  ASSUME BaseInv, NameInv, NEW p \in Procs, NEW i, Tested(p, i)
  PROVE  NameInv'
  <1>1. /\ i \in Inums /\ \A j \in Inums \ {i} : ino'[j] = ino[j]
        /\ upset \subseteq upset'
        /\ IF ino[i].nlink = 0 /\ ref[i] = 1 THEN ino'[i] = NoInode ELSE ino' = ino
        /\ ino[i].nlink = 0 /\ ref[i] = 1 /\ ino[i].entries # NoEntries => "removed" \in upset'
    BY DEF Tested
  <1>2. Owes(k'[p]) = Owes(k[p]) /\ \A q \in Procs \ {p} : k'[q] = k[q]
    BY TestMoves DEF PutMoves, Owes
  <1>3. \A j \in Inums : ino[j].nlink \in Int /\ Is(Owes(k[p]), j) \in Int
    BY DEF BaseInv, TypeOK, Inode, Is
  <1>4. CASE ino'[i] = ino[i]
    <2>1. SameTypes1 /\ \A j \in Inums : ino'[j].nlink = ino[j].nlink
      BY <1>1, <1>4 DEF SameTypes1
    <2>2. \A j \in Inums : ino'[j].nlink = ino[j].nlink + (Is(Owes(k'[p]), j) - Is(Owes(k[p]), j))
      BY <1>2, <1>3, <2>1
    <2> QED BY <1>1, <1>2, <2>1, <2>2, CountNames
  <1>5. CASE ino'[i] # ino[i]
    <2>1. ino'[i] = NoInode /\ ino[i].nlink = 0 /\ ref[i] = 1 /\ ino[i].type # "free"
      <3>1. ino[i].type = "free" => ino[i] = NoInode
        BY <1>1 DEF BaseInv, TypeOK
      <3> QED BY <1>1, <1>5, <3>1
    <2>2. SUFFICES ASSUME Even' PROVE RootOK' /\ \A j \in Inums : Names1(j)'
      BY NamePartsNext
    <2>3. RootOK /\ \A j \in Inums : Names1(j)
      BY <1>1, <2>2, StillEven
    <2>4. Named(i) = {} /\ Pending(i) = {} /\ i # ROOTINO
      <3>1. Counted(i)
        BY <1>1, <2>3 DEF Names1
      <3> QED BY <1>1, <2>1, <3>1, NoNames
    <2>5. ino[i].entries = NoEntries
      BY <1>1, <2>1, <2>2 DEF Even
    <2>6. /\ \A j \in Inums : ino'[j].entries = ino[j].entries
          /\ \A j \in Inums : Named(j) # {} => (ino'[j].type = "dir" <=> ino[j].type = "dir")
      BY <1>1, <2>1, <2>4, <2>5 DEF NoInode
    <2>7. \A j \in Inums : Named(j)' = Named(j) /\ Subdirs(j)' = Subdirs(j)
      BY <2>6, SameNames DEF KindsOfNamed
    <2>8. ASSUME NEW j \in Inums PROVE Pending(j)' = Pending(j)
      <3>1. \A q \in Procs : Owes(k'[q]) = Owes(k[q])
        BY <1>2
      <3>2. OwedBy(j)' = OwedBy(j)
        BY <3>1 DEF OwedBy
      <3> QED BY <3>2, SetsAre, SetsAreNext
    <2>9. RootOK'
      BY <1>1, <2>3, <2>4, RootIn DEF RootOK, IsDir
    <2>10. ASSUME NEW j \in Inums PROVE Names1(j)'
      <3>1. CASE j = i
        <4>1. ino'[j].type = "free" /\ Named(j)' = {}
          BY <2>1, <2>4, <2>7, <3>1 DEF NoInode
        <4> QED BY <4>1 DEF Names1, Counted, IsDir
      <3>2. CASE j # i
        <4>1. ino'[j] = ino[j] /\ Named(j)' = Named(j) /\ Subdirs(j)' = Subdirs(j)
              /\ Pending(j)' = Pending(j) /\ Names1(j)
          BY <1>1, <2>3, <2>7, <2>8, <3>2
        <4> QED BY <4>1 DEF Names1, Counted, IsDir
      <3> QED BY <3>1, <3>2
    <2> QED BY <2>9, <2>10
  <1> QED BY <1>4, <1>5

\* What a call owes a count is allocated, and if it is a directory, locked.
LEMMA OwesHeld ==
  ASSUME BaseInv, NEW q \in Procs, NEW i \in Inums, Owes(k[q]) = i
  PROVE  ino[i].type # "free" /\ (ino[i].type = "dir" => lock[i] # None)
  <1>1. i # None /\ q # None
    BY Constants
  <1>2. CASE k[q].then = "linkto"
    <2>1. k[q].ip = i
      BY <1>2, OwesIs
    <2> QED BY <1>2, <2>1, Hand DEF InUse
  <1>3. CASE k[q].then # "linkto"
    <2>1. k[q].pc = "unlinked" /\ k[q].ip = i
      BY <1>1, <1>3 DEF Owes
    <2>2. Locked(k[q]) = i
      BY <2>1 DEF Locked
    <2>3. lock[i] = q
      BY <2>2, Alloc
    <2> QED BY <1>1, <2>3, Alloc
  <1> QED BY <1>2, <1>3

LEMMA NonePending ==
  ASSUME BaseInv, NEW i \in Inums,
         ino[i].type = "free" \/ (ino[i].type = "dir" /\ lock[i] = None)
  PROVE  Pending(i) = {}
  <1>1. \A q \in Procs : Owes(k[q]) # i
    BY OwesHeld
  <1> QED BY <1>1, SetsAre DEF OwedBy

\* A directory that has a count has a name, or is the root.
LEMMA DirNamed ==
  ASSUME BaseInv, NEW d \in Inums, Names1(d), ino[d].type = "dir", lock[d] = None,
         ino[d].nlink # 0
  PROVE  d = ROOTINO \/ Named(d) # {}
  <1>1. SUFFICES ASSUME d # ROOTINO, Named(d) = {} PROVE FALSE
    OBVIOUS
  <1>2. Pending(d) = {}
    BY NonePending
  <1>3. Subdirs(d) = {}
    <2>1. ino[d].entries = NoEntries
      BY <1>1 DEF Names1, IsDir
    <2> QED BY <2>1 DEF Subdirs, NoEntries
  <1>4. Cardinality({}) = 0
    BY FS_EmptySet
  <1>5. ino[d].nlink = Cardinality(Named(d)) + Cardinality(Pending(d))
                       + Cardinality(Subdirs(d)) + 0
    BY <1>1 DEF Names1, Counted
  <1> QED BY <1>1, <1>2, <1>3, <1>4, <1>5

\* A step that changes one entry.
Shifts(p, d, n, old, e) ==
  \A j \in Inums : ino[j].type # "free" =>
    /\ ino'[j].type = ino[j].type /\ ino'[j].up = ino[j].up
    /\ j # d => ino'[j].entries = ino[j].entries
    /\ ino'[j].nlink = ino[j].nlink + ((Is(e, j) - Is(old, j))
                                       + (Is(Owes(k'[p]), j) - Is(Owes(k[p]), j))
                                       + (IF j = d THEN DirNum(e)' - DirNum(old) ELSE 0))
EntryStep(p, d, n, old, e) ==
  /\ EntrySet(d, n, old, e) /\ KindsOfNamed /\ Shifts(p, d, n, old, e)
  /\ \A q \in Procs \ {p} : k'[q] = k[q]
  /\ upset \subseteq upset'
  /\ ino[d].type = "dir" /\ old # d /\ e # d
  /\ old # None /\ ino[old].type = "dir" => ino[old].entries = NoEntries
  /\ e # None /\ ino'[e].type = "dir" => ino'[e].up = d
  /\ e # None => ino'[e].type # "free"
  /\ \A j \in Inums : ino[j].type = "free" /\ j # e => ino'[j].type = "free"

LEMMA EntryCounted ==
  ASSUME BaseInv, NEW p \in Procs, NEW d, NEW n, NEW old, NEW e, EntryStep(p, d, n, old, e),
         NEW j \in Inums, Counted(j), ino[j].type # "free"
  PROVE  Counted(j)'
  <1>1. EntrySet(d, n, old, e) /\ KindsOfNamed /\ \A q \in Procs \ {p} : k'[q] = k[q]
    BY DEF EntryStep
  <1>2. PICK a \in Int : a = Is(e, j) - Is(old, j)
    BY DEF Is
  <1>3. PICK b \in Int : b = Is(Owes(k'[p]), j) - Is(Owes(k[p]), j)
    BY DEF Is
  <1>4. PICK c \in Int : c = IF j = d THEN DirNum(e)' - DirNum(old) ELSE 0
    BY DEF DirNum
  <1>5. /\ Cardinality(Named(j)) \in Nat /\ Cardinality(Pending(j)) \in Nat
        /\ Cardinality(Subdirs(j)) \in Nat
    BY AllFinite DEF Finite
  <1>6. Cardinality(Named(j)') = Cardinality(Named(j)) + a
    <2>1. Cardinality(Named(j)') = Cardinality(Named(j)) + Is(e, j) - Is(old, j)
      BY <1>1, NamedMoves
    <2>2. Is(e, j) \in Int /\ Is(old, j) \in Int
      BY DEF Is
    <2> QED BY <1>2, <1>5, <2>1, <2>2
  <1>7. Cardinality(Pending(j)') = Cardinality(Pending(j)) + b
    <2>1. Cardinality(Pending(j)') =
            Cardinality(Pending(j)) + Is(Owes(k'[p]), j) - Is(Owes(k[p]), j)
      BY <1>1, PendingMoves
    <2>2. Is(Owes(k'[p]), j) \in Int /\ Is(Owes(k[p]), j) \in Int
      BY DEF Is
    <2> QED BY <1>3, <1>5, <2>1, <2>2
  <1>8. Cardinality(Subdirs(j)') = Cardinality(Subdirs(j)) + c
    <2>1. CASE j = d
      <3>1. Cardinality(Subdirs(d)') = Cardinality(Subdirs(d)) + DirNum(e)' - DirNum(old)
        BY <1>1, SubdirsMove
      <3>2. DirNum(e)' \in Int /\ DirNum(old) \in Int
        BY DEF DirNum
      <3> QED BY <1>4, <1>5, <2>1, <3>1, <3>2
    <2>2. CASE j # d
      <3>1. Subdirs(j)' = Subdirs(j)
        BY <1>1, <2>2, SubdirsMove
      <3> QED BY <1>4, <1>5, <2>2, <3>1
    <2> QED BY <2>1, <2>2
  <1>9. ino'[j].nlink = ino[j].nlink + (a + b + c)
    <2>1. Shifts(p, d, n, old, e)
      BY DEF EntryStep
    <2>2. ino'[j].nlink = ino[j].nlink + ((Is(e, j) - Is(old, j))
                                       + (Is(Owes(k'[p]), j) - Is(Owes(k[p]), j))
                                       + (IF j = d THEN DirNum(e)' - DirNum(old) ELSE 0))
      BY <2>1 DEF Shifts
    <2> QED BY <1>2, <1>3, <1>4, <2>2
  <1> QED BY <1>6, <1>7, <1>8, <1>9, CountedMoves

LEMMA EntryNames ==
  ASSUME BaseInv, NEW p \in Procs, NEW d, NEW n, NEW old, NEW e, EntryStep(p, d, n, old, e),
         NEW j \in Inums, Names1(j), d = ROOTINO \/ Named(d) # {},
         ino[j].type = "free" => j # e
  PROVE  Names1(j)'
  <1>1. EntrySet(d, n, old, e)
    BY DEF EntryStep
  <1>2. PICK z : z = <<d, n>>
    OBVIOUS
  <1>3. /\ \A x : x # z => (x \in Named(j)' <=> x \in Named(j))
        /\ z \in Named(j)' <=> e = j
        /\ z \in Named(j) <=> old = j
    BY <1>1, <1>2, NamedMoves
  <1>4. CASE ino[j].type = "free"
    <2>1. ino'[j].type = "free" /\ e # j /\ Named(j) = {}
      BY <1>4 DEF EntryStep, Names1
    <2>2. Named(j)' = {}
      BY <1>3, <2>1
    <2> QED BY <2>1, <2>2 DEF Names1, Counted, IsDir
  <1>5. CASE ino[j].type # "free"
    <2>1. /\ ino'[j].type = ino[j].type /\ ino'[j].up = ino[j].up
          /\ j # d => ino'[j].entries = ino[j].entries
      BY <1>5 DEF EntryStep, Shifts
    <2>2. Counted(j)'
      BY <1>5, EntryCounted DEF Names1
    <2>3. ASSUME NEW x \in Named(j)', ino'[j].type = "dir" PROVE ino'[j].up = x[1]
      <3>1. CASE x = z
        <4>1. e = j /\ e # None
          BY <1>3, <2>3, <3>1, Constants
        <4>2. ino'[j].up = d
          BY <2>3, <4>1 DEF EntryStep
        <4> QED BY <1>2, <3>1, <4>2
      <3>2. CASE x # z
        <4>1. x \in Named(j)
          BY <1>3, <2>3, <3>2
        <4> QED BY <2>1, <2>3, <4>1 DEF Names1, IsDir
      <3> QED BY <3>1, <3>2
    <2>4. ASSUME ino'[j].type = "dir", j # ROOTINO, Named(j)' = {}
          PROVE  ino'[j].entries = NoEntries
      <3>1. CASE old = j
        <4>1. j # d /\ ino[j].entries = NoEntries
          BY <2>1, <2>4, <3>1, Constants DEF EntryStep
        <4> QED BY <2>1, <4>1
      <3>2. CASE old # j
        <4>1. Named(j) = {}
          BY <1>3, <2>4, <3>2
        <4>2. ino[j].entries = NoEntries /\ j # d
          BY <2>1, <2>4, <4>1 DEF Names1, IsDir
        <4> QED BY <2>1, <4>2
      <3> QED BY <3>1, <3>2
    <2> QED BY <1>5, <2>1, <2>2, <2>3, <2>4 DEF Names1, IsDir
  <1> QED BY <1>4, <1>5

LEMMA MakesNames ==
  ASSUME BaseInv, NameInv, NEW p \in Procs, NEW d, NEW n, NEW i, NEW kind,
         Makes(p, d, n, i, kind)
  PROVE  NameInv'
  <1>1. /\ d \in Inums /\ i \in Inums /\ n \in Names /\ ino[i].type = "free" /\ ino[d].type = "dir"
        /\ lock[d] = None /\ ino[d].entries[n] = None /\ kind \in {"file", "dir", "dev"}
        /\ Owes(k'[p]) = None /\ Owes(k[p]) = None
    BY DEF Makes, MakeStep
  <1>2. upset \subseteq upset' /\ \A q \in Procs \ {p} : k'[q] = k[q]
    BY DEF Makes, More, Others1
  <1>3. ino[d].nlink = 0 => "removed" \in upset'
    BY DEF Makes, MakeStep, If
  <1>4. /\ i # d /\ ino'[i].type = kind /\ ino'[i].nlink = 1 /\ ino'[i].entries = NoEntries
        /\ ino'[i].up = (IF kind = "dir" THEN d ELSE None)
        /\ ino'[d].type = "dir" /\ ino'[d].up = ino[d].up
        /\ ino'[d].entries = [ino[d].entries EXCEPT ![n] = i]
        /\ ino'[d].nlink = (IF kind = "dir" THEN ino[d].nlink + 1 ELSE ino[d].nlink)
        /\ \A j \in Inums \ {d, i} : ino'[j] = ino[j]
    <2>1. Made(p, d, n, i, kind)
      BY MakeIs DEF Makes
    <2> QED BY <2>1 DEF Made
  <1>5. SUFFICES ASSUME Even' PROVE RootOK' /\ \A j \in Inums : Names1(j)'
    BY NamePartsNext
  <1>6. RootOK /\ \A j \in Inums : Names1(j)
    BY <1>2, <1>5, StillEven
  <1>7. d = ROOTINO \/ Named(d) # {}
    BY <1>1, <1>3, <1>5, <1>6, DirNamed DEF Even
  <1>8. Named(i) = {} /\ Pending(i) = {}
    <2>1. Pending(i) = {}
      BY <1>1, NonePending
    <2> QED BY <1>1, <1>6, <2>1 DEF Names1
  <1>9. EntrySet(d, n, None, i)
    <2>1. ino[d].entries \in [Names -> Inums \cup {None}] /\ ino[i] = NoInode
      BY <1>1 DEF BaseInv, TypeOK, Inode
    <2>2. ino'[d].entries[n] = i /\ \A m \in Names \ {n} : ino'[d].entries[m] = ino[d].entries[m]
      BY <1>1, <1>4, <2>1
    <2>3. ino'[i].entries = ino[i].entries
      BY <1>4, <2>1 DEF NoInode
    <2>4. \A j \in Inums : \A m \in Names : j # d \/ m # n => ino'[j].entries[m] = ino[j].entries[m]
      BY <1>4, <2>2, <2>3
    <2> QED BY <1>1, <2>2, <2>4 DEF EntrySet
  <1>10. KindsOfNamed
    <2>1. ASSUME NEW j \in Inums, Named(j) # {} PROVE ino'[j].type = "dir" <=> ino[j].type = "dir"
      <3>1. j # i
        BY <1>8, <2>1
      <3> QED BY <1>1, <1>4, <3>1
    <2> QED BY <2>1 DEF KindsOfNamed
  <1>11. Shifts(p, d, n, None, i)
    <2>1. ASSUME NEW j \in Inums, ino[j].type # "free"
          PROVE  /\ ino'[j].type = ino[j].type /\ ino'[j].up = ino[j].up
                 /\ j # d => ino'[j].entries = ino[j].entries
                 /\ ino'[j].nlink = ino[j].nlink
                      + ((Is(i, j) - Is(None, j)) + (Is(Owes(k'[p]), j) - Is(Owes(k[p]), j))
                         + (IF j = d THEN DirNum(i)' - DirNum(None) ELSE 0))
      <3>1. j # i
        BY <1>1, <2>1
      <3>2. Is(i, j) = 0 /\ Is(None, j) = 0 /\ Is(Owes(k'[p]), j) = 0 /\ Is(Owes(k[p]), j) = 0
        BY <1>1, <3>1, Iss, NoneIs
      <3>3. ino[j].nlink \in Int
        BY DEF BaseInv, TypeOK, Inode
      <3>4. DirNum(None) = 0 /\ DirNum(i)' = (IF kind = "dir" THEN 1 ELSE 0)
        BY <1>1, <1>4, Constants DEF DirNum, IsDir
      <3>5. CASE j = d
        BY <1>1, <1>4, <3>2, <3>3, <3>4, <3>5
      <3>6. CASE j # d
        <4>1. ino'[j] = ino[j]
          BY <1>4, <3>1, <3>6
        <4> QED BY <3>2, <3>3, <3>6, <4>1
      <3> QED BY <3>5, <3>6
    <2> QED BY <2>1 DEF Shifts
  <1>12. EntryStep(p, d, n, None, i)
    <2>1. \A j \in Inums : ino[j].type = "free" /\ j # i => ino'[j].type = "free"
      BY <1>1, <1>4
    <2>2. None # d /\ i # d /\ i # None
      BY <1>1, <1>4, Constants
    <2>3. (ino'[i].type = "dir" => ino'[i].up = d) /\ ino'[i].type # "free"
      BY <1>1, <1>4
    <2> QED BY <1>1, <1>2, <1>9, <1>10, <1>11, <2>1, <2>2, <2>3 DEF EntryStep
  <1>13. Names1(i)'
    <2>1. PICK z : z = <<d, n>>
      OBVIOUS
    <2>2. /\ Cardinality(Named(i)') = Cardinality(Named(i)) + Is(i, i) - Is(None, i)
          /\ \A x : x # z => (x \in Named(i)' <=> x \in Named(i))
          /\ z \in Named(i)'
      BY <1>1, <1>9, <2>1, NamedMoves
    <2>3. Cardinality({}) = 0
      BY FS_EmptySet
    <2>4. Cardinality(Named(i)') = 1
      BY <1>1, <1>8, <2>2, <2>3, Iss, NoneIs
    <2>5. Cardinality(Pending(i)') = 0
      <3>1. Cardinality(Pending(i)') =
              Cardinality(Pending(i)) + Is(Owes(k'[p]), i) - Is(Owes(k[p]), i)
        BY <1>1, <1>2, PendingMoves
      <3> QED BY <1>1, <1>8, <2>3, <3>1, NoneIs
    <2>6. Cardinality(Subdirs(i)') = 0
      <3>1. Subdirs(i)' = {}
        BY <1>4 DEF Subdirs, NoEntries
      <3> QED BY <2>3, <3>1
    <2>7. i # ROOTINO
      BY <1>1, <1>6 DEF RootOK, IsDir
    <2>8. Counted(i)'
      BY <1>4, <2>4, <2>5, <2>6, <2>7 DEF Counted
    <2>9. ASSUME NEW x \in Named(i)', ino'[i].type = "dir" PROVE ino'[i].up = x[1]
      <3>1. x = z
        BY <1>8, <2>2, <2>9
      <3> QED BY <1>4, <2>1, <2>9, <3>1
    <2> QED BY <1>1, <1>4, <2>8, <2>9 DEF Names1, IsDir
  <1>14. ASSUME NEW j \in Inums PROVE Names1(j)'
    <2>1. CASE j = i
      BY <1>13, <2>1
    <2>2. CASE j # i
      BY <1>6, <1>7, <1>12, <2>2, EntryNames
    <2> QED BY <2>1, <2>2
  <1>15. RootOK'
    BY <1>6, <1>11, RootIn DEF RootOK, IsDir, Shifts
  <1> QED BY <1>14, <1>15

LEMMA EntersNames ==
  ASSUME BaseInv, NameInv, NEW p \in Procs, NEW d, NEW n, NEW i, Enters(p, d, n, i)
  PROVE  NameInv'
  <1>1. /\ d \in Inums /\ i \in Inums /\ n \in Names /\ ino[i].type \notin {"free", "dir"}
        /\ ino[d].type = "dir" /\ lock[d] = None /\ ino[d].entries[n] = None
        /\ (Owes(k'[p]) = None \/ "link" \in upset') /\ Owes(k[p]) = i
        /\ (ino[d].nlink = 0 => "removed" \in upset')
    BY DEF Enters
  <1>2. upset \subseteq upset' /\ \A q \in Procs \ {p} : k'[q] = k[q]
    BY DEF Enters, More, Others1
  <1>3. /\ \A j \in Inums : /\ ino'[j].type = ino[j].type /\ ino'[j].up = ino[j].up
                            /\ j # d => ino'[j].nlink = ino[j].nlink /\ ino'[j].entries = ino[j].entries
        /\ ino'[d].nlink = ino[d].nlink + 0 /\ ino'[d].entries[n] = i
        /\ \A m \in Names \ {n} : ino'[d].entries[m] = ino[d].entries[m]
    <2>1. Entry1(d, n, i, 0)
      BY EntersIno
    <2> QED BY <2>1 DEF Entry1
  <1>4. SUFFICES ASSUME Even' PROVE RootOK' /\ \A j \in Inums : Names1(j)'
    BY NamePartsNext
  <1>5. RootOK /\ \A j \in Inums : Names1(j)
    BY <1>2, <1>4, StillEven
  <1>6. d = ROOTINO \/ Named(d) # {}
    BY <1>1, <1>4, <1>5, DirNamed DEF Even
  <1>7. EntrySet(d, n, None, i)
    BY <1>1, <1>3 DEF EntrySet
  <1>8. Shifts(p, d, n, None, i)
    <2>1. ASSUME NEW j \in Inums, ino[j].type # "free"
          PROVE  /\ ino'[j].type = ino[j].type /\ ino'[j].up = ino[j].up
                 /\ j # d => ino'[j].entries = ino[j].entries
                 /\ ino'[j].nlink = ino[j].nlink
                      + ((Is(i, j) - Is(None, j)) + (Is(Owes(k'[p]), j) - Is(Owes(k[p]), j))
                         + (IF j = d THEN DirNum(i)' - DirNum(None) ELSE 0))
      <3>1. Owes(k'[p]) = None
        BY <1>1, <1>4 DEF Even
      <3>2. Is(None, j) = 0 /\ Is(i, j) \in {0, 1}
        BY Iss, NoneIs
      <3>3. ino[j].nlink \in Int
        BY DEF BaseInv, TypeOK, Inode
      <3>4. DirNum(None) = 0 /\ DirNum(i)' = 0
        BY <1>1, <1>3, Constants DEF DirNum, IsDir
      <3>5. ino'[j].nlink = ino[j].nlink
        BY <1>3, <3>3
      <3>6. Is(Owes(k'[p]), j) = 0 /\ Is(Owes(k[p]), j) = Is(i, j)
        BY <1>1, <3>1, <3>2
      <3> QED BY <1>3, <3>2, <3>3, <3>4, <3>5, <3>6
    <2> QED BY <2>1 DEF Shifts
  <1>9. EntryStep(p, d, n, None, i)
    <2>1. KindsOfNamed
      BY <1>3 DEF KindsOfNamed
    <2>2. None # d /\ i # d /\ i # None /\ ino'[i].type \notin {"free", "dir"}
      BY <1>1, <1>3, Constants
    <2>3. \A j \in Inums : ino[j].type = "free" /\ j # i => ino'[j].type = "free"
      BY <1>3
    <2> QED BY <1>1, <1>2, <1>7, <1>8, <2>1, <2>2, <2>3 DEF EntryStep
  <1>10. ASSUME NEW j \in Inums PROVE Names1(j)'
    BY <1>1, <1>5, <1>6, <1>9, EntryNames
  <1>11. RootOK'
    BY <1>3, <1>5, RootIn DEF RootOK, IsDir
  <1> QED BY <1>10, <1>11

LEMMA RemovesNames ==
  ASSUME BaseInv, Unlinks, NameInv, NEW p \in Procs, NEW d, NEW n, NEW i, Removes(p, d, n, i)
  PROVE  NameInv'
  <1>1. /\ d \in Inums /\ i \in Inums /\ n \in Names /\ ino[i].type # "free" /\ i # d
        /\ ino[d].type = "dir" /\ Owes(k'[p]) = i /\ Owes(k[p]) = None
        /\ (ino[i].type = "dir" => ino[i].entries = NoEntries)
    BY DEF Removes, IsDir
  <1>2. upset \subseteq upset' /\ \A q \in Procs \ {p} : k'[q] = k[q]
    BY DEF Removes, More, Others1
  <1>3. /\ \A j \in Inums : /\ ino'[j].type = ino[j].type /\ ino'[j].up = ino[j].up
                            /\ j # d => ino'[j].nlink = ino[j].nlink /\ ino'[j].entries = ino[j].entries
        /\ ino'[d].nlink = ino[d].nlink + (IF IsDir(i) THEN -1 ELSE 0) /\ ino'[d].entries[n] = None
        /\ \A m \in Names \ {n} : ino'[d].entries[m] = ino[d].entries[m]
    <2>1. Entry1(d, n, None, IF IsDir(i) THEN -1 ELSE 0)
      BY RemovesIno
    <2> QED BY <2>1 DEF Entry1
  <1>4. ino[d].entries[n] = i
    BY DEF Removes, Unlinks
  <1>5. SUFFICES ASSUME Even' PROVE RootOK' /\ \A j \in Inums : Names1(j)'
    BY NamePartsNext
  <1>6. RootOK /\ \A j \in Inums : Names1(j)
    BY <1>2, <1>5, StillEven
  <1>7. d = ROOTINO \/ Named(d) # {}
    <2>1. ino[d].entries # NoEntries
      BY <1>1, <1>4, Constants DEF NoEntries
    <2> QED BY <1>1, <1>6, <2>1 DEF Names1, IsDir
  <1>8. EntrySet(d, n, i, None)
    BY <1>1, <1>3, <1>4 DEF EntrySet
  <1>9. Shifts(p, d, n, i, None)
    <2>1. ASSUME NEW j \in Inums, ino[j].type # "free"
          PROVE  /\ ino'[j].type = ino[j].type /\ ino'[j].up = ino[j].up
                 /\ j # d => ino'[j].entries = ino[j].entries
                 /\ ino'[j].nlink = ino[j].nlink
                      + ((Is(None, j) - Is(i, j)) + (Is(Owes(k'[p]), j) - Is(Owes(k[p]), j))
                         + (IF j = d THEN DirNum(None)' - DirNum(i) ELSE 0))
      <3>1. Is(None, j) = 0 /\ Is(i, j) \in {0, 1}
        BY Iss, NoneIs
      <3>2. ino[j].nlink \in Int
        BY DEF BaseInv, TypeOK, Inode
      <3>3. DirNum(None)' = 0 /\ DirNum(i) = (IF IsDir(i) THEN 1 ELSE 0)
        BY <1>1, Constants DEF DirNum
      <3>4. ino'[j].nlink = ino[j].nlink + (IF j = d THEN 0 - DirNum(i) ELSE 0)
        BY <1>3, <3>2, <3>3
      <3>5. Is(Owes(k'[p]), j) = Is(i, j) /\ Is(Owes(k[p]), j) = 0
        BY <1>1, <3>1
      <3>6. DirNum(i) \in {0, 1}
        BY <3>3
      <3> QED BY <1>3, <3>1, <3>2, <3>3, <3>4, <3>5, <3>6
    <2> QED BY <2>1 DEF Shifts
  <1>10. EntryStep(p, d, n, i, None)
    <2>1. KindsOfNamed
      BY <1>3 DEF KindsOfNamed
    <2>2. None # d
      BY <1>1, Constants
    <2>3. \A j \in Inums : ino[j].type = "free" => ino'[j].type = "free"
      BY <1>3
    <2> QED BY <1>1, <1>2, <1>8, <1>9, <2>1, <2>2, <2>3 DEF EntryStep
  <1>11. ASSUME NEW j \in Inums PROVE Names1(j)'
    <2>1. j # None
      BY Constants
    <2> QED BY <1>6, <1>7, <1>10, <2>1, EntryNames
  <1>12. RootOK'
    BY <1>3, <1>6, RootIn DEF RootOK, IsDir
  <1> QED BY <1>11, <1>12

-----------------------------------------------------------------------------
(* Without upset, what a call has in hand is allocated.                    *)

Calm == RootOK /\ \A i \in Inums : Names1(i)
Allocated(p) == k[p].at # None => ino[k[p].at].type # "free"
AllAllocated == \A p \in Procs : Allocated(p)

LEMMA CallParts ==
  /\ CallInv <=> (upset = {} => AllAllocated /\ panic \in {"no", "ialloc", "iget"})
  /\ CallInv' <=> (upset' = {} => AllAllocated' /\ panic' \in {"no", "ialloc", "iget"})
BY DEF CallInv, AllAllocated, Allocated

LEMMA NamedAlloc ==
  ASSUME BaseInv, Calm, NEW d \in Inums, NEW n \in Names, ino[d].entries[n] # None
  PROVE  ino[d].entries[n] \in Inums /\ ino[ino[d].entries[n]].type # "free"
         /\ ino[ino[d].entries[n]].nlink >= 1
  <1>1. PICK i \in Inums : i = ino[d].entries[n]
    BY DEF BaseInv, TypeOK, Inode
  <1>2. Named(i) # {} /\ Names1(i)
    BY <1>1, EntryNamed DEF Calm
  <1>3. ino[i].type # "free"
    BY <1>2 DEF Names1
  <1>4. ino[i].nlink >= 1
    <2>1. /\ Cardinality(Named(i)) \in Nat /\ Cardinality(Pending(i)) \in Nat
          /\ Cardinality(Subdirs(i)) \in Nat /\ IsFiniteSet(Named(i))
      BY AllFinite DEF Finite
    <2>2. Cardinality(Named(i)) # 0
      BY <1>2, <2>1, FS_EmptySet
    <2>3. ino[i].nlink = Cardinality(Named(i)) + Cardinality(Pending(i))
                         + Cardinality(Subdirs(i)) + Root(i)
      BY <1>2, <1>3 DEF Names1, Counted, Root
    <2>4. Root(i) \in {0, 1}
      BY DEF Root
    <2> QED BY <2>1, <2>2, <2>3, <2>4
  <1> QED BY <1>1, <1>3, <1>4

\* ".." of a directory that has not been removed.
LEMMA UpAlloc ==
  ASSUME BaseInv, OnlyDirs, Calm, NEW d \in Inums, ino[d].type = "dir", lock[d] = None,
         ino[d].nlink # 0
  PROVE  ino[d].up \in Inums /\ ino[ino[d].up].type # "free"
  <1>1. d = ROOTINO \/ Named(d) # {}
    BY DirNamed DEF Calm
  <1>2. CASE d = ROOTINO
    BY <1>2, RootIn DEF Calm, RootOK
  <1>3. CASE Named(d) # {}
    <2>1. PICK x \in Named(d) : TRUE
      BY <1>3
    <2>2. x \in NamesIn(d)
      BY <2>1, SetsAre
    <2>3. PICK e \in Inums, m \in Names : x = <<e, m>> /\ ino[e].entries[m] = d
      BY <2>2 DEF NamesIn
    <2>4. ino[d].up = e
      BY <2>1, <2>3 DEF Calm, Names1, IsDir
    <2>5. ino[e].entries # NoEntries
      BY <2>3, Constants DEF NoEntries
    <2>6. ino[e].type = "dir"
      BY <2>5 DEF OnlyDirs, IsDir
    <2> QED BY <2>4, <2>6
  <1> QED BY <1>1, <1>2, <1>3

LEMMA ReachedAlloc ==
  ASSUME BaseInv, OnlyDirs, Calm, NEW p \in Procs, Allocated(p), NEW x, Reached(p, x),
         upset' = {}, x # None
  PROVE  x \in Inums /\ ino[x].type # "free"
  <1>1. k[p].at \in Inums \cup {None}
    BY Mine DEF Call
  <1>2. CASE x = k[p].at
    BY <1>1, <1>2 DEF Allocated
  <1>3. CASE x \in From(p)
    <2>1. x = cwd[p] \/ x = ROOTINO
      BY <1>3 DEF From, If
    <2>2. cwd[p] \in Inums /\ ino[cwd[p]].type = "dir"
      BY Hand DEF InUse, IsDir
    <2> QED BY <2>1, <2>2, RootIn DEF Calm, RootOK, IsDir
  <1>4. ASSUME NEW n \in Names \cup {".", ".."}, k[p].at \in Inums, x = Lookup(k[p].at, n),
               IsDir(k[p].at), lock[k[p].at] = None, Gone(k[p].at, n) \subseteq upset'
        PROVE  x \in Inums /\ ino[x].type # "free"
    <2>1. PICK d \in Inums : d = k[p].at
      BY <1>4
    <2>2. CASE n = "."
      BY <1>4, <2>1, <2>2 DEF Lookup, IsDir
    <2>3. CASE n = ".."
      <3>1. x = ino[d].up
        BY <1>4, <2>1, <2>3 DEF Lookup
      <3>2. ino[d].nlink # 0
        BY <1>4, <2>1, <2>3 DEF Gone, If
      <3> QED BY <1>4, <2>1, <3>1, <3>2, UpAlloc DEF IsDir
    <2>4. CASE n \in Names
      <3>1. x = ino[d].entries[n]
        BY <1>4, <2>1, <2>4, LookupIn
      <3> QED BY <2>4, <3>1, NamedAlloc
    <2> QED BY <2>2, <2>3, <2>4
  <1> QED BY <1>2, <1>3, <1>4 DEF Reached

LEMMA PanicsFine ==
  ASSUME BaseInv, Unlinks, Calm, NEW p \in Procs, Allocated(p), Panics(p),
         panic \in {"no", "ialloc", "iget"}
  PROVE  panic' \in {"no", "ialloc", "iget"}
  <1>1. ASSUME k[p].pc = "child"
        PROVE  ino[k[p].ip].type # "free" /\ ino[k[p].ip].nlink >= 1
    <2>1. PICK d \in Inums, n \in Names, i \in Inums :
            d = k[p].at /\ n = k[p].path[1] /\ i = k[p].ip
      BY <1>1, ChildHolds
    <2>2. ino[d].entries[n] = i /\ i # None
      BY <1>1, <2>1, Constants DEF Unlinks
    <2> QED BY <2>1, <2>2, NamedAlloc
  <1>2. CASE panic' = "unlink" /\ k[p].pc = "child" /\ ino[k[p].ip].nlink < 1
    <2>1. ino[k[p].ip].nlink \in Int
      <3>1. k[p].ip \in Inums
        BY <1>2, ChildHolds
      <3> QED BY <3>1 DEF BaseInv, TypeOK, Inode
    <2> QED BY <1>1, <1>2, <2>1
  <1>3. CASE NoType(p)
    <2>1. k[p].put = <<>> /\ Target(p) # None /\ ino[Target(p)].type = "free"
      BY <1>3 DEF NoType
    <2>2. CASE k[p].pc = "child"
      <3>1. Target(p) = k[p].ip
        BY <2>1, <2>2 DEF Target
      <3> QED BY <1>1, <2>1, <2>2, <3>1
    <2>3. CASE k[p].pc = "linkbad"
      <3>1. Target(p) = k[p].ip
        BY <2>1, <2>3 DEF Target
      <3>2. k[p].then = "linkto"
        BY <2>3, Mine, InHand
      <3>3. ino[k[p].ip].type # "free"
        BY <3>2, Hand DEF InUse
      <3> QED BY <2>1, <3>1, <3>3
    <2>4. CASE k[p].pc \notin {"child", "linkbad"}
      <3>1. Target(p) = k[p].at
        BY <2>1, <2>4 DEF Target
      <3> QED BY <2>1, <3>1 DEF Allocated
    <2> QED BY <2>2, <2>3, <2>4
  <1> QED BY <1>2, <1>3 DEF Panics

\* A step by which no inode is freed.
LEMMA CallStep ==
  ASSUME BaseInv, TreeInv, NameInv, CallInv, NEW p \in Procs, Others1(p), Panics(p),
         Reached(p, k'[p].at),
         \A j \in Inums : ino[j].type # "free" => ino'[j].type # "free"
  PROVE  CallInv'
  <1>1. SUFFICES ASSUME upset' = {}
                 PROVE  AllAllocated' /\ panic' \in {"no", "ialloc", "iget"}
    BY CallParts
  <1>2. upset = {} /\ \A q \in Procs \ {p} : k'[q] = k[q]
    BY <1>1 DEF Others1
  <1>3. AllAllocated /\ panic \in {"no", "ialloc", "iget"}
    BY <1>2, CallParts
  <1>4. Calm
    BY <1>2, NameParts DEF Calm, Even
  <1>5. panic' \in {"no", "ialloc", "iget"}
    BY <1>3, <1>4, PanicsFine DEF TreeInv, AllAllocated
  <1>6. ASSUME NEW q \in Procs, k'[q].at # None PROVE ino'[k'[q].at].type # "free"
    <2>1. CASE q = p
      <3>1. k'[p].at \in Inums /\ ino[k'[p].at].type # "free"
        BY <1>1, <1>3, <1>4, <1>6, <2>1, ReachedAlloc DEF TreeInv, AllAllocated
      <3> QED BY <2>1, <3>1
    <2>2. CASE q # p
      <3>1. k'[q].at = k[q].at /\ k[q].at \in Inums /\ ino[k[q].at].type # "free"
        BY <1>2, <1>3, <1>6, <2>2, Mine DEF AllAllocated, Allocated, Call
      <3> QED BY <3>1
    <2> QED BY <2>1, <2>2
  <1> QED BY <1>5, <1>6 DEF AllAllocated, Allocated

LEMMA PutCallStep ==
  ASSUME BaseInv, CallInv, NEW p \in Procs, PutMoves(p), panic' = panic, upset \subseteq upset',
         \A q \in Procs : k[q].at # None /\ ino[k[q].at].type # "free" =>
           ino'[k[q].at].type # "free"
  PROVE  CallInv'
  <1>1. SUFFICES ASSUME upset' = {}
                 PROVE  AllAllocated' /\ panic' \in {"no", "ialloc", "iget"}
    BY CallParts
  <1>2. AllAllocated /\ panic \in {"no", "ialloc", "iget"}
    BY <1>1, CallParts
  <1>3. \A q \in Procs : k'[q].at = k[q].at
    BY DEF PutMoves
  <1> QED BY <1>2, <1>3 DEF AllAllocated, Allocated

LEMMA TestedCalls ==
  ASSUME BaseInv, CallInv, NEW p \in Procs, NEW i, Tested(p, i)
  PROVE  CallInv'
  <1>1. /\ i \in Inums /\ i = Head(k[p].put) /\ k[p].put # <<>> /\ panic' = panic
        /\ upset \subseteq upset' /\ \A j \in Inums \ {i} : ino'[j] = ino[j]
        /\ IF ino[i].nlink = 0 /\ ref[i] = 1 THEN ino'[i] = NoInode ELSE ino' = ino
    BY DEF Tested
  <1>2. ASSUME NEW q \in Procs, k[q].at # None, ino[k[q].at].type # "free"
        PROVE  ino'[k[q].at].type # "free"
    <2>1. k[q].at \in Inums
      BY <1>2, Mine DEF Call
    <2>2. CASE k[q].at # i
      BY <1>1, <1>2, <2>1, <2>2
    <2>3. CASE k[q].at = i
      <3>1. <<q, "at">> \in Places(i)
        BY <2>3 DEF Places, Place, Wheres
      <3>2. ref[i] # 1
        BY <1>1, <3>1, OnlyPlace
      <3> QED BY <1>1, <1>2, <3>2
    <2> QED BY <2>2, <2>3
  <1>3. PutMoves(p)
    BY TestMoves
  <1> QED BY <1>1, <1>2, <1>3, PutCallStep

LEMMA DoneCalls ==
  ASSUME BaseInv, CallInv, NEW p \in Procs, NEW i, Done(p, i)
  PROVE  CallInv'
  <1>1. ino' = ino /\ panic' = panic /\ upset \subseteq upset'
    BY DEF Done
  <1>2. PutMoves(p)
    BY DoneMoves
  <1> QED BY <1>1, <1>2, PutCallStep

LEMMA EffectCalls ==
  ASSUME BaseInv, TreeInv, NameInv, CallInv, NEW p \in Procs, Effect(p)
  PROVE  CallInv'
  <1>1. CASE Quiet(p)
    <2>1. Others1(p) /\ Panics(p) /\ Reached(p, k'[p].at)
      BY <1>1 DEF Quiet, More
    <2>2. \A j \in Inums : ino[j].type # "free" => ino'[j].type # "free"
      BY <1>1 DEF Quiet, SameTree
    <2> QED BY <2>1, <2>2, CallStep
  <1>2. CASE PutTest(p)
    BY <1>2, TestedIs, TestedCalls
  <1>3. CASE PutDone(p)
    BY <1>3, DoneIs, DoneCalls
  <1>4. ASSUME NEW i \in Inums, NEW more \in BOOLEAN, Counts(p, i, more) PROVE CallInv'
    <2>1. Others1(p) /\ Panics(p) /\ Reached(p, k'[p].at)
      BY <1>4 DEF Counts, More
    <2>2. \A j \in Inums : ino[j].type # "free" => ino'[j].type # "free"
      BY <1>4, CountsIno DEF Counted1
    <2> QED BY <2>1, <2>2, CallStep
  <1>5. ASSUME NEW d, NEW n, NEW i, NEW kind, Makes(p, d, n, i, kind) PROVE CallInv'
    <2>1. Others1(p) /\ Panics(p) /\ k'[p].at = None /\ MakeStep(p, d, n, i, kind)
      BY <1>5 DEF Makes, More
    <2>2. Reached(p, k'[p].at)
      BY <2>1 DEF Reached
    <2>3. \A j \in Inums : ino[j].type # "free" => ino'[j].type # "free"
      <3>1. Made(p, d, n, i, kind)
        BY <2>1, MakeIs
      <3>2. kind \in {"file", "dir", "dev"}
        BY <2>1 DEF MakeStep
      <3>3. /\ ino'[i].type = kind /\ ino'[d].type = "dir"
            /\ \A j \in Inums \ {d, i} : ino'[j] = ino[j]
        BY <3>1 DEF Made
      <3> QED BY <3>2, <3>3
    <2> QED BY <2>1, <2>2, <2>3, CallStep
  <1>6. ASSUME NEW d, NEW n, NEW i, Enters(p, d, n, i) PROVE CallInv'
    <2>1. Others1(p) /\ Panics(p) /\ k'[p].at = None
      BY <1>6 DEF Enters, More
    <2>2. Reached(p, k'[p].at)
      BY <2>1 DEF Reached
    <2>3. \A j \in Inums : ino[j].type # "free" => ino'[j].type # "free"
      BY <1>6, EntersIno DEF Entry1
    <2> QED BY <2>1, <2>2, <2>3, CallStep
  <1>7. ASSUME NEW d, NEW n, NEW i, Removes(p, d, n, i) PROVE CallInv'
    <2>1. Others1(p) /\ Panics(p) /\ k'[p].at = None
      BY <1>7 DEF Removes, More
    <2>2. Reached(p, k'[p].at)
      BY <2>1 DEF Reached
    <2>3. \A j \in Inums : ino[j].type # "free" => ino'[j].type # "free"
      BY <1>7, RemovesIno DEF Entry1
    <2> QED BY <2>1, <2>2, <2>3, CallStep
  <1> QED BY <1>1, <1>2, <1>3, <1>4, <1>5, <1>6, <1>7 DEF Effect

LEMMA EffectNames ==
  ASSUME BaseInv, TreeInv, NameInv, NEW p \in Procs, Effect(p)
  PROVE  NameInv'
  <1>1. CASE Quiet(p)
    BY <1>1, QuietNames
  <1>2. CASE PutTest(p)
    BY <1>2, TestedIs, TestedNames
  <1>3. CASE PutDone(p)
    BY <1>3, DoneIs, DoneNames
  <1>4. ASSUME NEW i \in Inums, NEW more \in BOOLEAN, Counts(p, i, more) PROVE NameInv'
    BY <1>4, CountsNames
  <1>5. ASSUME NEW d, NEW n, NEW i, NEW kind, Makes(p, d, n, i, kind) PROVE NameInv'
    BY <1>5, MakesNames
  <1>6. ASSUME NEW d, NEW n, NEW i, Enters(p, d, n, i) PROVE NameInv'
    BY <1>6, EntersNames
  <1>7. ASSUME NEW d, NEW n, NEW i, Removes(p, d, n, i) PROVE NameInv'
    BY <1>7, RemovesNames DEF TreeInv
  <1> QED BY <1>1, <1>2, <1>3, <1>4, <1>5, <1>6, <1>7 DEF Effect

LEMMA EffectTree ==
  ASSUME BaseInv, BaseInv', TreeInv, NEW p \in Procs, Effect(p)
  PROVE  TreeInv'
  <1>1. CASE Quiet(p)
    BY <1>1, QuietTree
  <1>2. CASE PutTest(p)
    BY <1>2, TestedIs, TestedTree
  <1>3. CASE PutDone(p)
    BY <1>3, DoneIs, DoneTree
  <1>4. ASSUME NEW i \in Inums, NEW more \in BOOLEAN, Counts(p, i, more) PROVE TreeInv'
    BY <1>4, CountsTree
  <1>5. ASSUME NEW d, NEW n, NEW i, NEW kind, Makes(p, d, n, i, kind) PROVE TreeInv'
    BY <1>5, MakesTree
  <1>6. ASSUME NEW d, NEW n, NEW i, Enters(p, d, n, i) PROVE TreeInv'
    BY <1>6, EntersTree
  <1>7. ASSUME NEW d, NEW n, NEW i, Removes(p, d, n, i) PROVE TreeInv'
    BY <1>7, RemovesTree
  <1> QED BY <1>1, <1>2, <1>3, <1>4, <1>5, <1>6, <1>7 DEF Effect

-----------------------------------------------------------------------------
LEMMA RestInit == Init => TreeInv /\ NameInv /\ CallInv
  <1>1. SUFFICES ASSUME Init PROVE TreeInv /\ NameInv /\ CallInv
    OBVIOUS
  <1>2. /\ k = [p \in Procs |-> Idle] /\ upset = {} /\ panic = "no"
        /\ ino = [i \in Inums |-> IF i = ROOTINO
                    THEN [NoInode EXCEPT !.type = "dir", !.nlink = 1, !.up = i, !.perms = {"r", "w"}]
                    ELSE NoInode]
    BY <1>1 DEF Init
  <1>3. /\ Idle.pc = "idle" /\ Idle.then = "none" /\ Idle.at = None /\ Idle.ip = None
    BY DEF Idle
  <1>4. ROOTINO \in Inums /\ None \notin Inums
    BY RootIn, Constants
  <1>5. /\ ino[ROOTINO].type = "dir" /\ ino[ROOTINO].nlink = 1 /\ ino[ROOTINO].up = ROOTINO
        /\ ino[ROOTINO].entries = NoEntries
    <2>1. ino[ROOTINO] = [NoInode EXCEPT !.type = "dir", !.nlink = 1, !.up = ROOTINO,
                                         !.perms = {"r", "w"}]
      BY <1>2, <1>4
    <2> QED BY <2>1 DEF NoInode
  <1>6. \A i \in Inums \ {ROOTINO} : ino[i].type = "free" /\ ino[i].entries = NoEntries
    BY <1>2 DEF NoInode
  <1>7. \A i \in Inums : \A n \in Names : ino[i].entries[n] = None
    BY <1>5, <1>6 DEF NoEntries
  <1>8. TreeInv
    <2>1. OnlyDirs
      BY <1>5, <1>6 DEF OnlyDirs
    <2>2. NoLoop
      BY <1>4, <1>7 DEF NoLoop
    <2>3. Unlinks
      BY <1>2, <1>3 DEF Unlinks
    <2>4. Unlinked0
      BY <1>5, <1>6 DEF Unlinked0
    <2> QED BY <2>1, <2>2, <2>3, <2>4 DEF TreeInv
  <1>9. NameInv
    <2>1. \A i \in Inums : Named(i) = {}
      BY <1>4, <1>7, SetsAre DEF NamesIn
    <2>2. \A i \in Inums : Pending(i) = {}
      BY <1>2, <1>3, <1>4 DEF Pending
    <2>3. \A i \in Inums : Subdirs(i) = {}
      BY <1>7 DEF Subdirs
    <2>4. Cardinality({}) = 0
      BY FS_EmptySet
    <2>5. ASSUME NEW i \in Inums PROVE Counted(i)
      <3>1. Cardinality(Named(i)) = 0 /\ Cardinality(Pending(i)) = 0 /\ Cardinality(Subdirs(i)) = 0
        BY <2>1, <2>2, <2>3, <2>4
      <3> QED BY <1>5, <1>6, <3>1 DEF Counted
    <2>6. \A i \in Inums : ino[i].entries = NoEntries
      BY <1>5, <1>6
    <2> QED BY <1>5, <2>1, <2>5, <2>6 DEF NameInv, IsDir
  <1>10. CallInv
    BY <1>2, <1>3 DEF CallInv
  <1> QED BY <1>8, <1>9, <1>10

LEMMA RestNext ==
  BaseInv /\ BaseInv' /\ TreeInv /\ NameInv /\ CallInv /\ [Next]_vars
    => TreeInv' /\ NameInv' /\ CallInv'
  <1>1. SUFFICES ASSUME BaseInv, BaseInv', TreeInv, NameInv, CallInv, [Next]_vars
                 PROVE  TreeInv' /\ NameInv' /\ CallInv'
    OBVIOUS
  <1>2. CASE UNCHANGED vars
    <2>0. UNCHANGED <<ino, ref, k, panic, late, upset>>
      BY <1>2 DEF vars, state, history
    <2>1. TreeInv'
      BY <1>1, <2>0 DEF TreeInv, OnlyDirs, NoLoop, Unlinks, Unlinked0, Putting, IsDir
    <2>2. \A i : Named(i)' = Named(i) /\ Pending(i)' = Pending(i) /\ Subdirs(i)' = Subdirs(i)
      BY <2>0 DEF Named, Entries, Pending, Subdirs, IsDir
    <2>3. NameInv'
      BY <1>1, <2>0, <2>2 DEF NameInv, Counted, IsDir
    <2>4. CallInv'
      BY <1>1, <2>0 DEF CallInv
    <2> QED BY <2>1, <2>3, <2>4
  <1>3. CASE Next
    <2>1. PICK p \in Procs : Step(p)
      BY <1>3 DEF Next
    <2>2. Effect(p)
      BY <1>1, <2>1, Effects DEF TreeInv
    <2> QED BY <1>1, <2>2, EffectTree, EffectNames, EffectCalls
  <1> QED BY <1>1, <1>2, <1>3

-----------------------------------------------------------------------------
(* The theorems.                                                           *)

\* The inductive invariant: the types, what each call has in hand and has
\* locked, references and names, holds of every reachable state.
THEOREM InodeInvariant == Spec => []InodeInv
  <1>1. Init => InodeInv
    BY BaseInit, RestInit DEF InodeInv
  <1>2. InodeInv /\ [Next]_vars => InodeInv'
    BY BaseNext, RestNext DEF InodeInv
  <1> QED BY <1>1, <1>2, PTL DEF Spec

\* Every variable of the inode layer has its type, free inodes are empty, and
\* the holder of a sleeplock is in a call that will release it.
THEOREM InodeTypes == Spec => []TypeOK
  <1>1. InodeInv => TypeOK
    BY DEF InodeInv, BaseInv
  <1> QED BY <1>1, InodeInvariant, PTL

\* ref is the number of working directories, descriptors and calls under way
\* that have the inode, and of the references that exec and chmod have lost.
THEOREM ReferencesExact == Spec => []RefsExact
  <1>1. InodeInv => RefsExact
    BY DEF InodeInv, BaseInv
  <1> QED BY <1>1, InodeInvariant, PTL

LEMMA LinksFollow == InodeInv => LinksExact
  <1>1. SUFFICES ASSUME InodeInv, Even PROVE \A i \in Inums :
          /\ Counted(i)
          /\ Named(i) # {} \/ (\E p \in Procs : i \in {cwd[p], fd[p]}) => ino[i].type # "free"
          /\ \A x \in Named(i) : IsDir(i) => ino[i].up = x[1]
          /\ ino[i].type # "free" /\ ino[i].nlink = 0 => ref[i] > 0 \/ i \in late
    BY DEF LinksExact, Counted, Even
  <1>2. BaseInv /\ TreeInv /\ \A i \in Inums : Names1(i)
    BY <1>1, NameParts DEF InodeInv
  <1>3. ASSUME NEW i \in Inums, Named(i) # {} \/ (\E p \in Procs : i \in {cwd[p], fd[p]})
        PROVE  ino[i].type # "free"
    <2>1. CASE Named(i) # {}
      BY <1>2, <2>1 DEF Names1
    <2>2. ASSUME NEW p \in Procs, i \in {cwd[p], fd[p]} PROVE ino[i].type # "free"
      <3>1. i # None
        BY Constants
      <3>2. IsDir(cwd[p]) /\ (fd[p] # None => ino[fd[p]].type # "free")
        BY <1>2 DEF BaseInv, InUse
      <3> QED BY <2>2, <3>1, <3>2 DEF IsDir
    <2> QED BY <1>3, <2>1, <2>2
  <1>4. ASSUME NEW i \in Inums, ino[i].type # "free", ino[i].nlink = 0
        PROVE  ref[i] > 0 \/ i \in late
    <2>1. /\ Cardinality(Putting(i)) \in Nat /\ Cardinality(Putting(i)) <= ref[i]
          /\ ref[i] \in Nat
      BY <1>2, PuttingIn DEF BaseInv, TypeOK
    <2>2. ASSUME ref[i] = 0 PROVE i \in late
      <3>1. ref[i] = Cardinality(Putting(i))
        BY <2>1, <2>2
      <3> QED BY <1>2, <1>4, <3>1 DEF TreeInv, Unlinked0
    <2> QED BY <2>1, <2>2
  <1> QED BY <1>2, <1>3, <1>4 DEF Names1

\* As long as no entry was made in a removed directory or by a link that was
\* then refused, link counts are exact: names, links and unlinks under way and
\* the ".." of subdirectories; what is in use is allocated, and what has no name
\* is in use or was put by two at once.
THEOREM LinkCountsExact == Spec => []LinksExact
BY LinksFollow, InodeInvariant, PTL

LEMMA StopsFollow == InodeInv => OnlyPutsStop
  <1>1. SUFFICES ASSUME InodeInv PROVE OnlyPutsStop
    OBVIOUS
  <1>2. BaseInv /\ TreeInv /\ CallInv
    BY <1>1 DEF InodeInv
  <1>3. ASSUME NEW p \in Procs, NEW q \in Procs, WaitsFor(p, q), WaitsFor(q, p),
               k[p].put = <<>>, k[q].put = <<>>
        PROVE  FALSE
    <2>1. ASSUME NEW a \in Procs, NEW b \in Procs, WaitsFor(a, b), WaitsFor(b, a),
                 k[a].put = <<>>
          PROVE  k[a].pc = "child" /\ Target(a) = k[a].ip
      <3>1. Target(a) # None /\ Target(b) # None /\ lock[Target(b)] = a
        BY <2>1 DEF WaitsFor
      <3>2. Target(b) \in Inums
        BY <1>2, <3>1, Mine, FirstPlace DEF Target, Call
      <3>3. Locked(k[a]) = Target(b)
        BY <1>2, <3>1, <3>2, Alloc
      <3>4. k[a].pc \in {"created", "unlinked", "taken", "child", "full"}
        BY <3>1, <3>3 DEF Locked
      <3>5. k[a].pc \notin {"created", "unlinked", "taken", "full"}
        BY <2>1, <3>1 DEF Target
      <3>6. k[a].pc = "child"
        BY <3>4, <3>5
      <3> QED BY <2>1, <3>6 DEF Target
    <2>2. k[p].pc = "child" /\ Target(p) = k[p].ip /\ k[q].pc = "child" /\ Target(q) = k[q].ip
      BY <1>3, <2>1
    <2>3. PICK d \in Inums, n \in Names, i \in Inums :
            d = k[p].at /\ n = k[p].path[1] /\ i = k[p].ip
      BY <1>2, <2>2, ChildHolds
    <2>4. PICK e \in Inums, m \in Names, j \in Inums :
            e = k[q].at /\ m = k[q].path[1] /\ j = k[q].ip
      BY <1>2, <2>2, ChildHolds
    <2>5. lock[i] = q /\ lock[j] = p
      BY <1>3, <2>2, <2>3, <2>4 DEF WaitsFor
    <2>6. i = e /\ j = d
      <3>1. Locked(k[q]) = e /\ Locked(k[p]) = d
        BY <2>2, <2>3, <2>4 DEF Locked
      <3> QED BY <1>2, <2>5, <3>1, Alloc
    <2>7. ino[d].entries[n] = i /\ ino[e].entries[m] = j
      BY <1>2, <2>2, <2>3, <2>4 DEF TreeInv, Unlinks
    <2> QED BY <1>2, <2>6, <2>7 DEF TreeInv, NoLoop
  <1> QED BY <1>2, <1>3 DEF OnlyPutsStop, CallInv

\* Until something upsets names and counts no call panics, but of a full disk
\* or cache, and two calls wait for each other only where one is in an iput.
THEOREM CallsComplete == Spec => []OnlyPutsStop
BY StopsFollow, InodeInvariant, PTL

-----------------------------------------------------------------------------
(* Permissions.                                                            *)

\* What was tested when the directory, or the new inode, was locked is so as
\* long as it is.
PermInv ==
  \A p \in Procs : /\ k[p].pc = "child" => ValidWrite(p, k[p].at)
                   /\ k[p].pc = "created" => ino[k[p].ip].owner = uid[p]

\* What a step of p may do to the inode i.
SameRights(i) == ino'[i].owner = ino[i].owner /\ ino'[i].perms = ino[i].perms
Change(p, i) ==
  \/ ino'[i] = ino[i]
  \/ ino[i].type = "free"
  \/ ino'[i].type = "free" /\ lock[i] = None
  \/ /\ SameRights(i)
     /\ ino'[i].entries # ino[i].entries =>
          ValidWrite(p, i) \/ (k[p].pc = "linkto" /\ k'[p].pc = "linkbad")
  \/ ino'[i].entries = ino[i].entries /\ ValidOwner(p, i) /\ lock[i] = None

\* One inode gets another count.
LEMMA CountChange ==
  ASSUME BaseInv, NEW p \in Procs, NEW i \in Inums, NEW j \in Inums, NEW n,
         ino' = [ino EXCEPT ![j].nlink = n]
  PROVE  Change(p, i)
  <1>1. ino \in [Inums -> Inode]
    BY Hand
  <1>2. PICK v : v = [ino[j] EXCEPT !.nlink = n]
    OBVIOUS
  <1>3. v.owner = ino[j].owner /\ v.perms = ino[j].perms /\ v.entries = ino[j].entries
    BY <1>1, <1>2 DEF Inode
  <1>4. ino' = [ino EXCEPT ![j] = v]
    BY <1>2
  <1>5. (i = j => ino'[i] = v) /\ (i # j => ino'[i] = ino[i])
    BY <1>1, <1>4
  <1> QED BY <1>3, <1>5 DEF Change, SameRights

LEMMA ChattrChange ==
  ASSUME BaseInv, NEW p \in Procs, NEW i \in Inums, Chattr(p)
  PROVE  Change(p, i)
  <1>1. k[p].pc = "chattr" /\ k[p].put = <<>> /\ ino \in [Inums -> Inode]
    BY Hand DEF Chattr, At
  <1>2. PICK j \in Inums : j = k[p].at
    BY <1>1, Mine, InHand
  <1>3. lock[j] = None
    BY <1>1, <1>2 DEF Chattr, Ilock, Target
  <1>4. CASE ~ValidOwner(p, j)
    BY <1>2, <1>4 DEF Chattr, Change
  <1>5. CASE ValidOwner(p, j)
    <2>1. \/ \E perms \in SUBSET {"r", "w"} : ino' = [ino EXCEPT ![j].perms = perms]
          \/ \E q \in Procs : ino' = [ino EXCEPT ![j].owner = uid[q]]
      BY <1>2, <1>5 DEF Chattr
    <2>2. PICK v : ino' = [ino EXCEPT ![j] = v] /\ v.entries = ino[j].entries
      <3>1. CASE \E perms \in SUBSET {"r", "w"} : ino' = [ino EXCEPT ![j].perms = perms]
        <4>1. PICK perms : ino' = [ino EXCEPT ![j].perms = perms]
          BY <3>1
        <4>2. PICK v : v = [ino[j] EXCEPT !.perms = perms]
          OBVIOUS
        <4>3. ino' = [ino EXCEPT ![j] = v] /\ v.entries = ino[j].entries
          BY <1>1, <4>1, <4>2 DEF Inode
        <4> QED BY <4>3
      <3>2. CASE \E q \in Procs : ino' = [ino EXCEPT ![j].owner = uid[q]]
        <4>1. PICK q \in Procs : ino' = [ino EXCEPT ![j].owner = uid[q]]
          BY <3>2
        <4>2. PICK v : v = [ino[j] EXCEPT !.owner = uid[q]]
          OBVIOUS
        <4>3. ino' = [ino EXCEPT ![j] = v] /\ v.entries = ino[j].entries
          BY <1>1, <4>1, <4>2 DEF Inode
        <4> QED BY <4>3
      <3> QED BY <2>1, <3>1, <3>2
    <2>3. (i = j => ino'[i] = v) /\ (i # j => ino'[i] = ino[i])
      BY <1>1, <2>2
    <2> QED BY <1>3, <1>5, <2>2, <2>3 DEF Change
  <1> QED BY <1>4, <1>5

LEMMA CreateChange ==
  ASSUME BaseInv, NEW p \in Procs, NEW i \in Inums, Create(p)
  PROVE  Change(p, i)
  <1>1. CASE ino' = ino
    BY <1>1 DEF Change
  <1>2. CASE ~ValidWrite(p, k[p].at)
    BY <1>1, <1>2 DEF Create
  <1>3. ASSUME ValidWrite(p, k[p].at), NEW n \in Names, NEW j \in Inums,
               NEW kind \in {"file", "dir", "dev"}, MakesNew(p, n, j, kind)
        PROVE  Change(p, i)
    <2>1. PICK d \in Inums : /\ d = k[p].at /\ ino[j].type = "free" /\ j # d
                            /\ ino \in [Inums -> Inode]
      BY <1>3, Hand DEF MakesNew, MakeStep
    <2>2. PICK v : v = [ino[d] EXCEPT !.entries[n] = j,
                                      !.nlink = IF kind = "dir" THEN @ + 1 ELSE @]
      OBVIOUS
    <2>3. PICK w : w = NewInode(p, kind, d)
      OBVIOUS
    <2>4. ino' = [ino EXCEPT ![d] = v, ![j] = w]
      <3>1. ino' = [ino EXCEPT ![d].entries[n] = j,
                               ![d].nlink = IF kind = "dir" THEN @ + 1 ELSE @, ![j] = w]
        BY <1>3, <2>1, <2>3 DEF MakesNew, MakeStep
      <3> QED BY <2>1, <2>2, <3>1
    <2>5. v.owner = ino[d].owner /\ v.perms = ino[d].perms
      BY <2>1, <2>2 DEF Inode
    <2>6. CASE i = d
      <3>1. ino'[i] = v
        BY <2>1, <2>4, <2>6
      <3> QED BY <1>3, <2>1, <2>5, <2>6, <3>1 DEF Change, SameRights
    <2>7. CASE i = j
      BY <2>1, <2>7 DEF Change
    <2>8. CASE i # d /\ i # j
      <3>1. ino'[i] = ino[i]
        BY <2>1, <2>4, <2>8
      <3> QED BY <3>1 DEF Change
    <2> QED BY <2>6, <2>7, <2>8
  <1> QED BY <1>1, <1>2, <1>3, CreateCases DEF Finds

LEMMA LinkToChange ==
  ASSUME BaseInv, NEW p \in Procs, NEW i \in Inums, LinkTo(p)
  PROVE  Change(p, i)
  <1>1. k[p].pc = "linkto" /\ k[p].put = <<>> /\ ino \in [Inums -> Inode] /\ k \in [Procs -> Call]
    BY Hand DEF LinkTo, At
  <1>2. PICK d \in Inums : d = k[p].at
    BY <1>1, Mine, InHand
  <1>3. CASE ino' = ino
    BY <1>3 DEF Change
  <1>4. CASE ino' # ino
    <2>1. /\ ino' = [ino EXCEPT ![d].entries[k[p].path[1]] = k[p].ip]
          /\ ~ValidWrite(p, d) => LinkRefused(p, <<d>>)
      BY <1>2, <1>4 DEF LinkTo
    <2>2. PICK v : v = [ino[d] EXCEPT !.entries[k[p].path[1]] = k[p].ip]
      OBVIOUS
    <2>3. ino' = [ino EXCEPT ![d] = v] /\ v.owner = ino[d].owner /\ v.perms = ino[d].perms
      BY <1>1, <2>1, <2>2 DEF Inode
    <2>4. (i = d => ino'[i] = v) /\ (i # d => ino'[i] = ino[i])
      BY <1>1, <2>3
    <2>5. ~ValidWrite(p, d) => k'[p].pc = "linkbad"
      <3>1. ASSUME LinkRefused(p, <<d>>) PROVE k'[p].pc = "linkbad"
        <4>1. PICK c : c = [k[p] EXCEPT !.pc = "linkbad", !.at = None, !.put = <<d>>]
          OBVIOUS
        <4>2. k' = [k EXCEPT ![p] = c]
          BY <3>1, <4>1 DEF LinkRefused, Go
        <4>3. c.pc = "linkbad"
          BY <1>1, <4>1 DEF Call
        <4> QED BY <1>1, <4>2, <4>3
      <3> QED BY <2>1, <3>1
    <2> QED BY <1>1, <2>3, <2>4, <2>5 DEF Change, SameRights
  <1> QED BY <1>3, <1>4

LEMMA UnlinkChildChange ==
  ASSUME BaseInv, PermInv, NEW p \in Procs, NEW i \in Inums, UnlinkChild(p)
  PROVE  Change(p, i)
  <1>1. k[p].pc = "child" /\ ino \in [Inums -> Inode]
    BY Hand DEF UnlinkChild, At
  <1>2. PICK d \in Inums : d = k[p].at /\ ValidWrite(p, d)
    BY <1>1, Mine, InHand DEF PermInv
  <1>3. CASE ino' = ino
    BY <1>3 DEF Change
  <1>4. CASE ino' # ino
    <2>1. PICK m : ino' = [ino EXCEPT ![d].entries[k[p].path[1]] = None, ![d].nlink = m]
      BY <1>2, <1>4 DEF UnlinkChild
    <2>2. PICK v : v = [ino[d] EXCEPT !.entries[k[p].path[1]] = None, !.nlink = m]
      OBVIOUS
    <2>3. ino' = [ino EXCEPT ![d] = v] /\ v.owner = ino[d].owner /\ v.perms = ino[d].perms
      BY <1>1, <2>1, <2>2 DEF Inode
    <2>4. (i = d => ino'[i] = v) /\ (i # d => ino'[i] = ino[i])
      BY <1>1, <2>3
    <2> QED BY <1>2, <2>3, <2>4 DEF Change, SameRights
  <1> QED BY <1>3, <1>4

LEMMA StepChange ==
  ASSUME BaseInv, PermInv, NEW p \in Procs, NEW i \in Inums, Step(p)
  PROVE  Change(p, i)
  <1>1. CASE ino' = ino
    BY <1>1 DEF Change
  <1>2. CASE PutTest(p)
    <2>1. k[p].put # <<>> /\ ino \in [Inums -> Inode]
      BY <1>2, Hand DEF PutTest
    <2>2. PICK j \in Inums : j = Head(k[p].put)
      BY <2>1, FirstPlace
    <2>3. lock[j] = None /\ ino' \in {ino, [ino EXCEPT ![j] = NoInode]}
      BY <1>2, <2>2 DEF PutTest
    <2>4. (i = j => ino'[i] \in {ino[i], NoInode}) /\ (i # j => ino'[i] = ino[i])
      BY <2>1, <2>3
    <2> QED BY <2>3, <2>4 DEF Change, NoInode
  <1>3. CASE Link(p)
    <2>1. PICK j \in Inums : j = k[p].at
      BY <1>3, Mine, InHand DEF Link, At
    <2>2. ino' = ino \/ (\E n : ino' = [ino EXCEPT ![j].nlink = n])
      BY <1>3, <2>1 DEF Link
    <2> QED BY <1>1, <2>2, CountChange
  <1>4. CASE LinkBad(p) \/ Unlinked(p)
    <2>1. PICK j \in Inums : j = k[p].ip
      BY <1>4, Mine, InHand DEF LinkBad, Unlinked, At
    <2>2. \E n : ino' = [ino EXCEPT ![j].nlink = n]
      BY <1>4, <2>1 DEF LinkBad, Unlinked
    <2> QED BY <2>2, CountChange
  <1>5. CASE Create(p) \/ LinkTo(p) \/ UnlinkChild(p) \/ Chattr(p)
    BY <1>5, CreateChange, LinkToChange, UnlinkChildChange, ChattrChange
  <1>6. CASE PutDone(p) \/ NoType(p) \/ Begin(p) \/ WalkNowhere(p) \/ Walk(p) \/ Open(p)
    BY <1>1, <1>6 DEF PutDone, NoType, Begin, WalkNowhere, Walk, Open, state
  <1>7. CASE Close(p) \/ Created(p) \/ CreateFound(p) \/ LinkTaken(p) \/ Unlink(p)
    BY <1>1, <1>7 DEF Close, Created, CreateFound, LinkTaken, Unlink
  <1>8. CASE UnlinkFull(p) \/ Chdir(p) \/ Exec(p) \/ Load(p)
    BY <1>1, <1>8 DEF UnlinkFull, Chdir, Exec, Load, state
  <1> QED BY <1>2, <1>3, <1>4, <1>5, <1>6, <1>7, <1>8 DEF Step

\* Where a step of p takes its call: unlink has the permission when it locks
\* the second inode, create has the new inode to itself.
Lands(p) ==
  \/ k'[p].pc \notin {"child", "created"}
  \/ k'[p].pc = k[p].pc /\ k'[p].at = k[p].at /\ k'[p].ip = k[p].ip
  \/ k'[p].pc = "child" /\ ino' = ino /\ ValidWrite(p, k'[p].at)
  \/ k'[p].pc = "created" /\ ino'[k'[p].ip].owner = uid[p]

LEMMA GoLands ==
  ASSUME BaseInv, NEW p \in Procs, NEW c, k' = [k EXCEPT ![p] = c],
         c.pc \notin {"child", "created"}
  PROVE  Lands(p)
  <1>1. k'[p] = c
    BY Hand
  <1> QED BY <1>1 DEF Lands

LEMMA ReturnLands ==
  ASSUME BaseInv, NEW p \in Procs, NEW s, Return(p, s)
  PROVE  Lands(p)
  <1>1. PICK c : c = [Idle EXCEPT !.put = s]
    OBVIOUS
  <1>2. k' = [k EXCEPT ![p] = c] /\ c.pc = "idle"
    BY <1>1 DEF Return, Go, Idle
  <1> QED BY <1>2, GoLands

LEMMA RefusedLands ==
  ASSUME BaseInv, NEW p \in Procs, NEW s, LinkRefused(p, s)
  PROVE  Lands(p)
  <1>1. PICK c : c = [k[p] EXCEPT !.pc = "linkbad", !.at = None, !.put = s]
    OBVIOUS
  <1>2. k' = [k EXCEPT ![p] = c]
    BY <1>1 DEF LinkRefused, Go
  <1>3. c.pc = "linkbad"
    BY <1>1, Mine DEF Call
  <1> QED BY <1>2, <1>3, GoLands

LEMMA StartLands ==
  ASSUME BaseInv, NEW p \in Procs, NEW from, NEW call, NEW path, NEW ip,
         Start(p, from, call, path, ip)
  PROVE  Lands(p)
  <1>1. PICK c : c = Walker(call, path, from, ip)
    OBVIOUS
  <1>2. k' = [k EXCEPT ![p] = c]
    BY <1>1, StartIs
  <1>3. c.pc = "walk"
    BY <1>1 DEF Walker, Idle
  <1> QED BY <1>2, <1>3, GoLands

\* The record p has is a record of its type, and so keeps what it is given.
LEMMA OnPc ==
  ASSUME BaseInv, NEW p \in Procs, NEW pc, NEW at, NEW ip, NEW path, NEW s
  PROVE  /\ [k[p] EXCEPT !.pc = pc].pc = pc
         /\ [k[p] EXCEPT !.pc = pc, !.at = at, !.put = s].pc = pc
         /\ [k[p] EXCEPT !.pc = pc, !.ip = ip, !.put = s].pc = pc
         /\ [k[p] EXCEPT !.pc = pc, !.at = at, !.path = path, !.put = s].pc = pc
         /\ [k[p] EXCEPT !.pc = pc, !.put = s].pc = pc
  <1>1. k[p] \in Call
    BY Mine
  <1>2. [k[p] EXCEPT !.pc = pc].pc = pc
    BY <1>1 DEF Call
  <1>3. [k[p] EXCEPT !.pc = pc, !.at = at, !.put = s].pc = pc
    BY <1>1 DEF Call
  <1>4. [k[p] EXCEPT !.pc = pc, !.ip = ip, !.put = s].pc = pc
    BY <1>1 DEF Call
  <1>5. [k[p] EXCEPT !.pc = pc, !.at = at, !.path = path, !.put = s].pc = pc
    BY <1>1 DEF Call
  <1>6. [k[p] EXCEPT !.pc = pc, !.put = s].pc = pc
    BY <1>1 DEF Call
  <1> QED BY <1>2, <1>3, <1>4, <1>5, <1>6

LEMMA FailsLands ==
  ASSUME BaseInv, NEW p \in Procs, NEW s, Fails(p, s)
  PROVE  Lands(p)
BY ReturnLands, RefusedLands DEF Fails

LEMMA KeepLands ==
  ASSUME BaseInv, NEW p \in Procs, NEW i, Keep(p, i)
  PROVE  Lands(p)
BY ReturnLands DEF Keep

LEMMA WalkLands ==
  ASSUME BaseInv, NEW p \in Procs, WalkNowhere(p) \/ Walk(p)
  PROVE  Lands(p)
  <1>1. k[p].then \notin {"child", "created"}
    BY Mine DEF Call, Calls, Creating
  <1>2. CASE \E s : Fails(p, s)
    BY <1>2, FailsLands
  <1>3. CASE Go(p, [k[p] EXCEPT !.pc = k[p].then])
    <2>1. PICK c : c = [k[p] EXCEPT !.pc = k[p].then]
      OBVIOUS
    <2>2. c.pc = k[p].then
      BY <2>1, OnPc
    <2>3. k' = [k EXCEPT ![p] = c]
      BY <1>3, <2>1 DEF Go
    <2> QED BY <1>1, <2>2, <2>3, GoLands
  <1>4. CASE Walk(p) /\ ~(\E s : Fails(p, s)) /\ ~Go(p, [k[p] EXCEPT !.pc = k[p].then])
    <2>1. PICK pc, at, s :
            /\ pc = IF Len(k[p].path) = 1 THEN k[p].then ELSE "walk"
            /\ Go(p, [k[p] EXCEPT !.pc = pc, !.at = at, !.path = Tail(@), !.put = s])
      BY <1>4 DEF Walk
    <2>2. pc \notin {"child", "created"}
      BY <1>1, <2>1
    <2>3. PICK path : path = Tail(k[p].path)
      OBVIOUS
    <2>4. PICK c : c = [k[p] EXCEPT !.pc = pc, !.at = at, !.path = path, !.put = s]
      OBVIOUS
    <2>5. c.pc = pc
      BY <2>4, OnPc
    <2>6. k' = [k EXCEPT ![p] = c]
      BY <2>1, <2>3, <2>4 DEF Go
    <2> QED BY <2>2, <2>5, <2>6, GoLands
  <1> QED BY <1>2, <1>3, <1>4 DEF WalkNowhere

LEMMA CreateLands ==
  ASSUME BaseInv, NEW p \in Procs, Create(p)
  PROVE  Lands(p)
  <1>1. CASE Return(p, <<k[p].at>>)
    BY <1>1, ReturnLands
  <1>2. ASSUME NEW old \in Inums, Finds(p, old) PROVE Lands(p)
    <2>1. PICK c : c = [k[p] EXCEPT !.pc = "found", !.at = old, !.put = <<k[p].at>>]
      OBVIOUS
    <2>2. c.pc = "found"
      BY <2>1, OnPc
    <2>3. k' = [k EXCEPT ![p] = c]
      BY <1>2, <2>1 DEF Finds, Go
    <2> QED BY <2>2, <2>3, GoLands
  <1>3. CASE k' = k
    BY <1>3 DEF Lands
  <1>4. ASSUME NEW n \in Names, NEW i \in Inums, NEW kind \in {"file", "dir", "dev"},
               MakesNew(p, n, i, kind)
        PROVE  Lands(p)
    <2>1. PICK d \in Inums : d = k[p].at /\ i # d /\ ino \in [Inums -> Inode]
      BY <1>4, Hand DEF MakesNew, MakeStep
    <2>2. PICK c : c = [k[p] EXCEPT !.pc = "created", !.at = None, !.ip = i, !.put = <<d>>]
      OBVIOUS
    <2>3. k' = [k EXCEPT ![p] = c] /\ c.ip = i /\ c.pc = "created" /\ k \in [Procs -> Call]
      BY <1>4, <2>1, <2>2, Hand DEF MakesNew, MakeStep, Go, Call
    <2>4. PICK v, w : w = NewInode(p, kind, d) /\ ino' = [ino EXCEPT ![d] = v, ![i] = w]
      <3>1. PICK v : v = [ino[d] EXCEPT !.entries[n] = i,
                                        !.nlink = IF kind = "dir" THEN @ + 1 ELSE @]
        OBVIOUS
      <3>2. PICK w : w = NewInode(p, kind, d)
        OBVIOUS
      <3>3. ino' = [ino EXCEPT ![d].entries[n] = i,
                               ![d].nlink = IF kind = "dir" THEN @ + 1 ELSE @, ![i] = w]
        BY <1>4, <2>1, <3>2 DEF MakesNew, MakeStep
      <3>4. ino' = [ino EXCEPT ![d] = v, ![i] = w]
        BY <2>1, <3>1, <3>3
      <3> QED BY <3>2, <3>4
    <2>5. ino'[i].owner = uid[p]
      BY <2>1, <2>4 DEF NewInode
    <2> QED BY <2>3, <2>5 DEF Lands
  <1> QED BY <1>1, <1>2, <1>3, <1>4, CreateCases

LEMMA LinkToLands ==
  ASSUME BaseInv, NEW p \in Procs, LinkTo(p)
  PROVE  Lands(p)
  <1>1. CASE \E s : Return(p, s)
    BY <1>1, ReturnLands
  <1>2. CASE \E s : LinkRefused(p, s)
    BY <1>2, RefusedLands
  <1>3. ASSUME NEW s, Go(p, [k[p] EXCEPT !.pc = "taken", !.put = s]) PROVE Lands(p)
    <2>1. PICK c : c = [k[p] EXCEPT !.pc = "taken", !.put = s]
      OBVIOUS
    <2>2. c.pc = "taken"
      BY <2>1, OnPc
    <2>3. k' = [k EXCEPT ![p] = c]
      BY <1>3, <2>1 DEF Go
    <2> QED BY <2>2, <2>3, GoLands
  <1> QED BY <1>1, <1>2, <1>3 DEF LinkTo

LEMMA UnlinkLands ==
  ASSUME BaseInv, NEW p \in Procs, Unlink(p)
  PROVE  Lands(p)
  <1>1. CASE \E s : Return(p, s)
    BY <1>1, ReturnLands
  <1>2. CASE ~(\E s : Return(p, s))
    <2>1. PICK i : /\ ValidWrite(p, k[p].at) /\ ino' = ino
                   /\ Go(p, [k[p] EXCEPT !.pc = "child", !.ip = i])
      BY <1>2 DEF Unlink
    <2>2. PICK c : c = [k[p] EXCEPT !.pc = "child", !.ip = i]
      OBVIOUS
    <2>3. c.pc = "child" /\ c.at = k[p].at
      BY <2>2, Mine DEF Call
    <2>4. k'[p] = c
      BY <2>1, <2>2, Hand DEF Go
    <2> QED BY <2>1, <2>3, <2>4 DEF Lands
  <1> QED BY <1>1, <1>2

LEMMA UnlinkChildLands ==
  ASSUME BaseInv, NEW p \in Procs, UnlinkChild(p)
  PROVE  Lands(p)
  <1>1. ASSUME NEW ip, NEW s, Go(p, [k[p] EXCEPT !.pc = "full", !.ip = ip, !.put = s])
        PROVE  Lands(p)
    <2>1. PICK c : c = [k[p] EXCEPT !.pc = "full", !.ip = ip, !.put = s]
      OBVIOUS
    <2>2. c.pc = "full"
      BY <2>1, OnPc
    <2>3. k' = [k EXCEPT ![p] = c]
      BY <1>1, <2>1 DEF Go
    <2> QED BY <2>2, <2>3, GoLands
  <1>2. ASSUME NEW at, NEW s, Go(p, [k[p] EXCEPT !.pc = "unlinked", !.at = at, !.put = s])
        PROVE  Lands(p)
    <2>1. PICK c : c = [k[p] EXCEPT !.pc = "unlinked", !.at = at, !.put = s]
      OBVIOUS
    <2>2. c.pc = "unlinked"
      BY <2>1, OnPc
    <2>3. k' = [k EXCEPT ![p] = c]
      BY <1>2, <2>1 DEF Go
    <2> QED BY <2>2, <2>3, GoLands
  <1> QED BY <1>1, <1>2 DEF UnlinkChild

LEMMA PutLands ==
  ASSUME BaseInv, NEW p \in Procs, PutTest(p) \/ PutDone(p)
  PROVE  Lands(p)
  <1>1. PICK c : k' = [k EXCEPT ![p] = c] /\ c.pc = k[p].pc /\ c.at = k[p].at /\ c.ip = k[p].ip
    <2>1. k[p] \in Call
      BY Mine
    <2>2. CASE PutTest(p)
      <3>1. PICK c : c = [k[p] EXCEPT !.past = TRUE]
        OBVIOUS
      <3>2. k' = [k EXCEPT ![p] = c]
        BY <2>2, <3>1 DEF PutTest, Go
      <3>3. c.pc = k[p].pc /\ c.at = k[p].at /\ c.ip = k[p].ip
        BY <2>1, <3>1 DEF Call
      <3> QED BY <3>2, <3>3
    <2>3. CASE PutDone(p)
      <3>1. PICK s : s = Tail(k[p].put)
        OBVIOUS
      <3>2. PICK c : c = [k[p] EXCEPT !.past = FALSE, !.put = s]
        OBVIOUS
      <3>3. k' = [k EXCEPT ![p] = c]
        BY <2>3, <3>1, <3>2 DEF PutDone, Go
      <3>4. c.pc = k[p].pc /\ c.at = k[p].at /\ c.ip = k[p].ip
        BY <2>1, <3>2 DEF Call
      <3> QED BY <3>3, <3>4
    <2> QED BY <2>2, <2>3
  <1>2. k'[p] = c
    BY <1>1, Hand
  <1> QED BY <1>1, <1>2 DEF Lands

LEMMA StepLands ==
  ASSUME BaseInv, NEW p \in Procs, Step(p)
  PROVE  Lands(p)
  <1>1. CASE PutTest(p) \/ PutDone(p)
    BY <1>1, PutLands
  <1>2. CASE NoType(p)
    BY <1>2 DEF NoType, Lands
  <1>3. CASE Begin(p)
    BY <1>3, StartLands DEF Begin
  <1>4. CASE WalkNowhere(p) \/ Walk(p)
    BY <1>4, WalkLands
  <1>5. CASE Open(p) \/ Close(p) \/ Chdir(p) \/ Chattr(p) \/ Load(p)
    BY <1>5, ReturnLands DEF Open, Close, Chdir, Chattr, Load
  <1>6. CASE LinkBad(p) \/ UnlinkFull(p) \/ Unlinked(p)
    BY <1>6, ReturnLands DEF LinkBad, UnlinkFull, Unlinked
  <1>7. CASE Created(p) \/ CreateFound(p)
    BY <1>7, ReturnLands, KeepLands DEF Created, CreateFound
  <1>8. CASE Link(p) \/ Exec(p)
    BY <1>8, ReturnLands, StartLands DEF Link, Exec
  <1>9. CASE LinkTaken(p)
    BY <1>9, RefusedLands DEF LinkTaken
  <1>10. CASE Create(p) \/ LinkTo(p) \/ Unlink(p) \/ UnlinkChild(p)
    BY <1>10, CreateLands, LinkToLands, UnlinkLands, UnlinkChildLands
  <1> QED BY <1>1, <1>2, <1>3, <1>4, <1>5, <1>6, <1>7, <1>8, <1>9, <1>10 DEF Step

\* The other processes keep what they have.
LEMMA StepAlone ==
  ASSUME BaseInv, TreeInv, NEW p \in Procs, Step(p)
  PROVE  \A q \in Procs \ {p} : k'[q] = k[q] /\ cwd'[q] = cwd[q] /\ fd'[q] = fd[q]
  <1>1. Effect(p)
    BY Effects DEF TreeInv
  <1>2. CASE PutTest(p) \/ PutDone(p)
    BY <1>2, Hand DEF PutTest, PutDone, Go
  <1>3. CASE Others1(p)
    BY <1>3 DEF Others1
  <1>4. CASE Quiet(p)
    BY <1>3, <1>4 DEF Quiet, More
  <1>5. ASSUME NEW i \in Inums, NEW more \in BOOLEAN, Counts(p, i, more) PROVE Others1(p)
    BY <1>5 DEF Counts, More
  <1>6. ASSUME NEW d \in Inums, NEW i \in Inums, NEW n \in Names, NEW kind \in {"file", "dir", "dev"},
               Makes(p, d, n, i, kind)
        PROVE  Others1(p)
    BY <1>6 DEF Makes, More
  <1>7. ASSUME NEW d \in Inums, NEW i \in Inums, NEW n \in Names,
               Enters(p, d, n, i) \/ Removes(p, d, n, i)
        PROVE  Others1(p)
    BY <1>7 DEF Enters, Removes, More
  <1> QED BY <1>1, <1>2, <1>3, <1>4, <1>5, <1>6, <1>7 DEF Effect

\* An inode that is locked keeps its owner and its permissions.
LEMMA LockedRights ==
  ASSUME BaseInv, BaseInv', PermInv, NEW p \in Procs, Step(p), NEW i \in Inums, lock[i] # None
  PROVE  SameRights(i)
  <1>1. ino[i].type # "free"
    BY Alloc
  <1>2. Change(p, i)
    BY StepChange
  <1> QED BY <1>1, <1>2 DEF Change, SameRights

LEMMA PermInit == Init => PermInv
  <1> SUFFICES ASSUME Init, NEW p \in Procs PROVE k[p].pc = "idle"
      BY DEF PermInv
  <1>1. k[p] = Idle
    BY DEF Init
  <1> QED BY <1>1 DEF Idle

LEMMA PermNext == BaseInv /\ BaseInv' /\ TreeInv /\ PermInv /\ [Next]_vars => PermInv'
  <1> SUFFICES ASSUME BaseInv, BaseInv', TreeInv, PermInv, [Next]_vars PROVE PermInv'
      OBVIOUS
  <1>1. CASE UNCHANGED vars
    BY <1>1 DEF PermInv, ValidWrite, ValidOwner, vars, state
  <1>2. CASE Next
    <2>1. PICK p \in Procs : Step(p)
      BY <1>2 DEF Next
    <2>2. ASSUME NEW x \in Procs, k'[x].pc = k[x].pc, k'[x].at = k[x].at, k'[x].ip = k[x].ip
          PROVE  /\ k'[x].pc = "child" => ValidWrite(x, k[x].at)'
                 /\ k'[x].pc = "created" => ino'[k'[x].ip].owner = uid[x]
      <3>1. CASE k[x].pc = "child"
        <4>1. PICK d \in Inums : d = k[x].at /\ lock[d] # None
          BY <3>1, ChildHolds
        <4>2. SameRights(d) /\ ValidWrite(x, d)
          BY <2>1, <3>1, <4>1, LockedRights DEF PermInv
        <4>3. k'[x].at = d
          BY <2>2, <4>1
        <4> QED BY <2>2, <3>1, <4>1, <4>2, <4>3 DEF ValidWrite, ValidOwner, SameRights
      <3>2. CASE k[x].pc = "created"
        <4>1. PICK i \in Inums : i = k[x].ip
          BY <3>2, Mine, InHand
        <4>2. Locked(k[x]) = i
          BY <3>2, <4>1 DEF Locked
        <4>3. lock[i] # None
          BY <4>2, Alloc, Constants
        <4>4. SameRights(i) /\ ino[i].owner = uid[x]
          BY <2>1, <3>2, <4>1, <4>3, LockedRights DEF PermInv
        <4> QED BY <2>2, <3>2, <4>1, <4>4 DEF SameRights
      <3>3. CASE k[x].pc \notin {"child", "created"}
        BY <2>2, <3>3
      <3> QED BY <3>1, <3>2, <3>3
    <2>3. ASSUME NEW x \in Procs
          PROVE  /\ k'[x].pc = "child" => ValidWrite(x, k[x].at)'
                 /\ k'[x].pc = "created" => ino'[k'[x].ip].owner = uid[x]
      <3>1. CASE x # p
        <4>1. k'[x] = k[x]
          BY <2>1, <3>1, StepAlone
        <4> QED BY <2>2, <4>1
      <3>2. CASE x = p
        <4>1. Lands(x)
          BY <2>1, <3>2, StepLands
        <4>2. CASE k'[x].pc = k[x].pc /\ k'[x].at = k[x].at /\ k'[x].ip = k[x].ip
          BY <2>2, <4>2
        <4>3. CASE k'[x].pc = "child" /\ ino' = ino /\ ValidWrite(x, k'[x].at)
          BY <4>3 DEF ValidWrite, ValidOwner
        <4> QED BY <4>1, <4>2, <4>3 DEF Lands
      <3> QED BY <3>1, <3>2
    <2> QED BY <2>3 DEF PermInv
  <1> QED BY <1>1, <1>2
\* What a step of p opens: what it may, what it made, or what create found.
LEMMA OpensAllowed ==
  ASSUME BaseInv, PermInv, NEW p \in Procs, Step(p), fd'[p] \notin {None, fd[p]}
  PROVE  ValidRead(p, fd'[p]) \/ ValidWrite(p, fd'[p]) \/ k[p].pc = "found"
  <1>1. fd \in [Procs -> Inums \cup {None}]
    BY DEF BaseInv, TypeOK
  <1>2. CASE Open(p)
    <2>1. PICK i : /\ fd' = [fd EXCEPT ![p] = i]
                   /\ ValidRead(p, i) \/ (ValidWrite(p, i) /\ ~IsDir(i))
      BY <1>2 DEF Open
    <2>2. fd'[p] = i
      BY <1>1, <2>1
    <2> QED BY <2>1, <2>2
  <1>3. CASE Close(p)
    BY <1>1, <1>3 DEF Close
  <1>4. CASE Created(p)
    <2>1. PICK i : i = k[p].ip
      OBVIOUS
    <2>2. fd' = [fd EXCEPT ![p] = i]
      BY <1>4, <2>1 DEF Created, Keep
    <2>3. fd'[p] = i /\ ino[i].owner = uid[p]
      BY <1>1, <1>4, <2>1, <2>2 DEF Created, At, PermInv
    <2> QED BY <2>3 DEF ValidRead, ValidOwner
  <1>5. CASE CreateFound(p)
    BY <1>5 DEF CreateFound, At
  <1>6. CASE \/ PutTest(p) \/ PutDone(p) \/ NoType(p) \/ Begin(p) \/ WalkNowhere(p) \/ Walk(p)
             \/ Create(p) \/ Link(p) \/ LinkTo(p) \/ LinkTaken(p) \/ LinkBad(p)
    BY <1>6 DEF PutTest, PutDone, NoType, Begin, WalkNowhere, Walk, Create, Link, LinkTo,
                LinkTaken, LinkBad, state
  <1>7. CASE \/ Unlink(p) \/ UnlinkChild(p) \/ UnlinkFull(p) \/ Unlinked(p)
             \/ Chdir(p) \/ Chattr(p) \/ Exec(p) \/ Load(p)
    BY <1>7 DEF Unlink, UnlinkChild, UnlinkFull, Unlinked, Chdir, Chattr, Exec, Load, state
  <1> QED BY <1>2, <1>3, <1>4, <1>5, <1>6, <1>7 DEF Step

LEMMA ChdirAllowed ==
  ASSUME BaseInv, NEW p \in Procs, Step(p), cwd'[p] # cwd[p]
  PROVE  ValidRead(p, cwd'[p])
  <1>1. cwd \in [Procs -> Inums]
    BY DEF BaseInv, TypeOK
  <1>2. CASE Chdir(p)
    <2>1. PICK i : i = k[p].at
      OBVIOUS
    <2>2. ValidRead(p, i) /\ cwd' = [cwd EXCEPT ![p] = i]
      BY <1>2, <2>1 DEF Chdir
    <2>3. cwd'[p] = i
      BY <1>1, <2>2
    <2> QED BY <2>2, <2>3
  <1>3. CASE \/ PutTest(p) \/ PutDone(p) \/ NoType(p) \/ Begin(p) \/ WalkNowhere(p) \/ Walk(p)
             \/ Open(p) \/ Close(p) \/ Create(p) \/ Created(p) \/ CreateFound(p)
    BY <1>3 DEF PutTest, PutDone, NoType, Begin, WalkNowhere, Walk, Open, Close, Create,
                Created, CreateFound, state
  <1>4. CASE \/ Link(p) \/ LinkTo(p) \/ LinkTaken(p) \/ LinkBad(p) \/ Unlink(p) \/ UnlinkChild(p)
             \/ UnlinkFull(p) \/ Unlinked(p) \/ Chattr(p) \/ Exec(p) \/ Load(p)
    BY <1>4 DEF Link, LinkTo, LinkTaken, LinkBad, Unlink, UnlinkChild, UnlinkFull, Unlinked,
                Chattr, Exec, Load, state
  <1> QED BY <1>2, <1>3, <1>4 DEF Step

\* A step is rightful for the process that takes it, and the others move not.
LEMMA StepRightful ==
  ASSUME BaseInv, TreeInv, PermInv, NEW p \in Procs, Step(p), NEW q \in Procs
  PROVE  Rightful(q)
  <1>1. CASE q # p
    <2>1. k'[q] = k[q]
      BY <1>1, StepAlone
    <2> QED BY <2>1 DEF Rightful
  <1>2. CASE q = p
    <2>1. ASSUME NEW i \in Inums, ino[i].type # "free", ino'[i].type # "free"
          PROVE  /\ ino'[i].entries # ino[i].entries =>
                      ValidWrite(q, i) \/ (k[q].pc = "linkto" /\ k'[q].pc = "linkbad")
                 /\ <<ino'[i].owner, ino'[i].perms>> # <<ino[i].owner, ino[i].perms>> =>
                      ValidOwner(q, i)
      <3>1. Change(q, i)
        BY <1>2, StepChange
      <3> QED BY <2>1, <3>1 DEF Change, SameRights
    <2>2. fd'[q] \notin {None, fd[q]} =>
            ValidRead(q, fd'[q]) \/ ValidWrite(q, fd'[q]) \/ k[q].pc = "found"
      BY <1>2, OpensAllowed
    <2>3. cwd'[q] # cwd[q] => ValidRead(q, cwd'[q])
      BY <1>2, ChdirAllowed
    <2> QED BY <2>1, <2>2, <2>3 DEF Rightful
  <1> QED BY <1>1, <1>2

\* What lab 4 asks permission for has it at the step that does it, whatever
\* chmod and chown others do between a call's locks, but for the entry of a
\* refused link and open with O_CREATE of a file that is there.
THEOREM PermissionsKept == Spec => Permitted
  <1>1. Init => PermInv
    BY PermInit
  <1>2. BaseInv /\ BaseInv' /\ TreeInv /\ PermInv /\ [Next]_vars => PermInv'
    BY PermNext
  <1>3. InodeInv /\ PermInv /\ [Next]_vars => [\A p \in Procs : Rightful(p)]_vars
    <2> SUFFICES ASSUME InodeInv, PermInv, Next PROVE \A p \in Procs : Rightful(p)
        OBVIOUS
    <2>1. PICK p \in Procs : Step(p)
      BY DEF Next
    <2> QED BY <2>1, StepRightful DEF InodeInv
  <1>4. InodeInv => BaseInv /\ TreeInv
    BY DEF InodeInv
  <1> QED BY <1>1, <1>2, <1>3, <1>4, InodeInvariant, PTL DEF Spec, Permitted
=============================================================================
