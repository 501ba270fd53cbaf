---------------------------- MODULE ThreadsProofs ----------------------------
(***************************************************************************)
(* What the members of a thread group share is counted right, and is there *)
(* for as long as they use it, for any number of slots, files, descriptors *)
(* and pages: TypeOK, RefsExact, DirsExact and Survives.                   *)
(*                                                                         *)
(* The invariants are conditional, as the code is: each names the kinds of *)
(* upset that would break it.  GroupInv says who owns a group, RefInv who  *)
(* holds which file while a call is under way, DirInv whose child a thread *)
(* is, so that wait frees a directory with its owner only.                 *)
(***************************************************************************)
EXTENDS Threads, FiniteSetTheorems, FunctionTheorems, TLAPS

\* What a call has found so far.
GoodCall(c) ==
  /\ c \in [op : Ops, fd : Nat, at : Nat]
  /\ c.op = "idle" => c = Idle
  /\ c.op \in Ops \ {"idle", "chdir", "chdired"} => c.at \in Files
  /\ c.op \in {"chdir", "chdired"} => c.at \in Folders
  /\ c.op \in {"close", "opento", "dupto"} => c.fd \in Fds

CallsOK ==
  \A p \in Procs : GoodCall(call[p]) /\ (call[p].op # "idle" => st[p] = "LIVE")

-----------------------------------------------------------------------------
(* The constants, and counting.                                            *)

LEMMA Constants ==
  /\ IsFiniteSet(Procs) /\ IsFiniteSet(Files) /\ IsFiniteSet(Fds)
  /\ Procs \subseteq Nat /\ Files \subseteq Nat /\ Fds \subseteq Nat
  /\ Folders \subseteq Nat
  /\ None \notin Procs /\ None \notin Files /\ None \notin Folders
  /\ initproc \in Procs /\ 2 \in Procs /\ 1 \in Files /\ 0 \in Fds
  <1>1. IsFiniteSet(Procs) /\ IsFiniteSet(Files) /\ IsFiniteSet(Fds)
    BY ThreadsAssumption, FS_Interval DEF Procs, Files, Fds
  <1> QED BY <1>1, ThreadsAssumption DEF Procs, Files, Fds, None, initproc

LEMMA LeastIn ==
  ASSUME NEW S \in SUBSET Nat, S # {}
  PROVE  Least(S) \in S /\ \A y \in S : Least(S) <= y
  <1>1. \E x \in S : \A y \in S : <<y, x>> \notin OpToRel(<, Nat)
    BY NatLessThanWellFounded, WFMin
  <1>2. PICK x \in S : \A y \in S : <<y, x>> \notin OpToRel(<, Nat)
    BY <1>1
  <1>3. \A y \in S : <<y, x>> \in Nat \X Nat /\ ~(<<y, x>>[1] < <<y, x>>[2])
    BY <1>2 DEF OpToRel
  <1>4. \A y \in S : x <= y
    <2> SUFFICES ASSUME NEW y \in S PROVE x <= y
        OBVIOUS
    <2>1. ~(y < x)
      BY <1>3
    <2> QED BY <2>1
  <1> QED BY <1>4 DEF Least

LEMMA OneMore ==
  ASSUME NEW S, IsFiniteSet(S), NEW x, x \notin S, NEW T, T = S \cup {x}
  PROVE  IsFiniteSet(T) /\ Cardinality(T) = Cardinality(S) + 1
  BY FS_AddElement

-----------------------------------------------------------------------------
(* Types.                                                                  *)

\* The variables but those of calls.
Ranges ==
  /\ st \in [Procs -> {"UNUSED", "LIVE", "ZOMBIE"}]
  /\ parent \in [Procs -> Procs \cup {None}]
  /\ tg \in [Procs -> Procs]
  /\ ofile \in [Procs -> [Fds -> Files \cup {None}]]
  /\ cwd \in [Procs -> Folders \cup {None}]
  /\ pgdir \in [Procs -> Procs \cup {None}]
  /\ sz \in [Procs -> 0 .. MaxPages]
  /\ mapped \in [Procs -> 0 .. MaxPages]
  /\ ref \in [Files -> Nat]
  /\ type \in [Files -> {"none", "inode"}]
  /\ uses \in [Folders -> Int]
  /\ upset \subseteq {"race", "stale", "leftover", "exec", "owner", "orphan"}

CallsHere == call \in [Procs -> [op : Ops, fd : Nat, at : Nat]] /\ CallsOK

TypeInv == Ranges /\ CallsHere

LEMMA TypeParts == TypeInv => TypeOK
  <1> SUFFICES ASSUME TypeInv PROVE TypeOK
      OBVIOUS
  <1>1. \A p \in Procs : call[p] # Idle => st[p] = "LIVE"
    BY DEF TypeInv, CallsHere, CallsOK, GoodCall
  <1> QED BY <1>1 DEF Ranges, TypeInv, TypeOK, CallsHere

LEMMA CallStep ==
  ASSUME CallsHere, NEW p \in Procs, NEW c, GoodCall(c),
         c.op # "idle" => st[p] = "LIVE",
         call' = [call EXCEPT ![p] = c], st' = st
  PROVE  CallsHere'
  BY DEF CallsHere, CallsOK, GoodCall

LEMMA CallSame ==
  ASSUME CallsHere, call' = call,
         \A q \in Procs : call[q].op # "idle" => st'[q] = "LIVE"
  PROVE  CallsHere'
  BY DEF CallsHere, CallsOK, GoodCall

LEMMA ReturnStep ==
  ASSUME CallsHere, NEW p \in Procs, Return(p), st' = st
  PROVE  CallsHere'
  <1>1. GoodCall(Idle)
    BY DEF GoodCall, Idle, Ops, None
  <1>2. Idle.op = "idle"
    BY DEF Idle
  <1> HIDE DEF Idle
  <1> QED BY <1>1, <1>2, CallStep DEF Return

LEMMA GotoStep ==
  ASSUME CallsHere, NEW p \in Procs, NEW op, NEW fd, NEW x, Goto(p, op, fd, x),
         st' = st, st[p] = "LIVE", op \in Ops \ {"idle"}, fd \in Nat, x \in Nat,
         op \notin {"chdir", "chdired"} => x \in Files,
         op \in {"chdir", "chdired"} => x \in Folders,
         op \in {"close", "opento", "dupto"} => fd \in Fds
  PROVE  CallsHere'
  <1> DEFINE c == [op |-> op, fd |-> fd, at |-> x]
  <1>1. c.op = op /\ c.fd = fd /\ c.at = x /\ c \in [op : Ops, fd : Nat, at : Nat]
    OBVIOUS
  <1>2. call' = [call EXCEPT ![p] = c]
    BY DEF Goto
  <1> HIDE DEF c
  <1>3. GoodCall(c)
    BY <1>1 DEF GoodCall
  <1> QED BY <1>1, <1>2, <1>3, CallStep

\* The steps on files leave the ranges of ref and type as they are.
LEMMA CloseRanges ==
  ASSUME Ranges, NEW f \in Files, FileClose(f)
  PROVE  ref' \in [Files -> Nat] /\ type' \in [Files -> {"none", "inode"}]
  BY DEF Ranges, FileClose

\* The steps of a call on descriptors.
OnFiles(p) ==
  \/ \E op \in {"close", "dup", "use"} : Argfd(p, op)
  \/ CloseFd(p) \/ CloseDone(p) \/ UseDone(p)
  \/ Open(p) \/ FdScan(p) \/ FdStore(p) \/ OpenDone(p) \/ DupDone(p)

LEMMA TypeFiles ==
  ASSUME TypeInv, NEW p \in Procs, OnFiles(p)
  PROVE  TypeInv'
  <1>1. Ranges /\ CallsHere
    BY DEF TypeInv
  <1>2. GoodCall(call[p]) /\ tg[p] \in Procs /\ call \in [Procs -> [op : Ops, fd : Nat, at : Nat]]
    BY <1>1 DEF CallsHere, CallsOK, Ranges
  <1>3. UNCHANGED <<slots, memory, cwd, uses>>
    BY DEF OnFiles, Argfd, CloseFd, CloseDone, UseDone, Open, FdScan, FdStore, OpenDone, DupDone
  <1>4. upset' \subseteq upset \cup {"race"}
    BY DEF OnFiles, Argfd, CloseFd, CloseDone, UseDone, Open, FdScan, FdStore, OpenDone, DupDone,
           Upset, If
  <1> DEFINE G == /\ ofile' \in [Procs -> [Fds -> Files \cup {None}]]
                  /\ ref' \in [Files -> Nat] /\ type' \in [Files -> {"none", "inode"}]
                  /\ CallsHere'
  <1> SUFFICES G
    <2>1. Ranges'
      BY <1>1, <1>3, <1>4 DEF Ranges, slots, memory
    <2> QED BY <2>1 DEF TypeInv
  <1>5. CASE \E op \in {"close", "dup", "use"} : Argfd(p, op)
    <2>1. PICK op \in {"close", "dup", "use"} : Argfd(p, op)
      BY <1>5
    <2>2. PICK fd \in Fds : ofile[tg[p]][fd] # None /\ Goto(p, op, fd, ofile[tg[p]][fd])
      BY <2>1 DEF Argfd
    <2>3. ofile[tg[p]][fd] \in Files
      BY <1>1, <1>2, <2>2 DEF Ranges
    <2>4. st' = st /\ st[p] = "LIVE" /\ UNCHANGED <<ofile, ref, type>>
      BY <2>1 DEF Argfd, Begin, At, Live, slots
    <2>5. fd \in Nat /\ ofile[tg[p]][fd] \in Nat
      BY <2>3, Constants
    <2>6. op \in Ops \ {"idle"} /\ op \notin {"chdir", "chdired"}
      BY <2>1 DEF Ops
    <2>7. CallsHere'
      BY <1>1, <2>2, <2>3, <2>4, <2>5, <2>6, GotoStep
    <2> QED BY <1>1, <2>4, <2>7 DEF Ranges
  <1>6. CASE CloseFd(p)
    <2>1. CallsHere'
      BY <1>1, <1>2, <1>6, GotoStep, Constants DEF CloseFd, At, Live, slots, GoodCall, Ops
    <2> QED BY <1>1, <1>2, <1>6, <2>1 DEF CloseFd, Ranges
  <1>7. CASE CloseDone(p)
    <2>1. CallsHere'
      BY <1>1, <1>7, ReturnStep DEF CloseDone, slots
    <2>2. call[p].at \in Files
      BY <1>2, <1>7 DEF CloseDone, At, GoodCall
    <2> QED BY <1>1, <1>7, <2>1, <2>2, CloseRanges DEF CloseDone, Ranges
  <1>8. CASE UseDone(p)
    <2>1. CallsHere'
      BY <1>1, <1>8, ReturnStep DEF UseDone, slots
    <2> QED BY <1>1, <1>8, <2>1 DEF UseDone, Ranges
  <1>9. CASE Open(p)
    <2>1. PICK f \in Files : ref' = [ref EXCEPT ![f] = 1] /\ Goto(p, "open", 0, f)
      BY <1>9 DEF Open
    <2>2. CallsHere'
      BY <1>1, <1>9, <2>1, GotoStep, Constants DEF Open, Begin, At, Live, slots, Ops
    <2> QED BY <1>1, <1>9, <2>1, <2>2 DEF Open, Ranges
  <1>10. CASE FdScan(p)
    <2>1. st[p] = "LIVE" /\ st' = st /\ call[p].at \in Files /\ call[p].at \in Nat
      BY <1>2, <1>10, Constants DEF FdScan, Live, slots, GoodCall, Ops
    <2>2. CASE FreeFds(p) # {}
      <3>1. FreeFds(p) \in SUBSET Nat /\ FreeFds(p) \subseteq Fds
        BY Constants DEF FreeFds
      <3>2. Least(FreeFds(p)) \in Fds /\ Least(FreeFds(p)) \in Nat
        BY <2>2, <3>1, LeastIn
      <3>3. PICK op \in {"opento", "dupto"} : Goto(p, op, Least(FreeFds(p)), call[p].at)
        BY <1>10, <2>2 DEF FdScan
      <3>4. CallsHere'
        BY <1>1, <2>1, <3>2, <3>3, GotoStep DEF Ops
      <3> QED BY <1>1, <1>10, <2>2, <3>4 DEF FdScan, Ranges
    <2>3. CASE FreeFds(p) = {}
      <3>1. CallsHere'
        BY <1>1, <1>10, <2>1, <2>3, ReturnStep DEF FdScan
      <3>2. FileClose(call[p].at) \/ UNCHANGED <<ref, type>>
        BY <1>10, <2>3 DEF FdScan
      <3> QED BY <1>1, <1>10, <2>1, <3>1, <3>2, CloseRanges DEF FdScan, Ranges
    <2> QED BY <2>2, <2>3
  <1>11. CASE FdStore(p)
    <2>1. st[p] = "LIVE" /\ st' = st /\ call[p].at \in Files /\ call[p].at \in Nat
      BY <1>2, <1>11, Constants DEF FdStore, Live, slots, GoodCall, Ops
    <2>2. PICK op \in {"opened", "duped"} : Goto(p, op, 0, call[p].at)
      BY <1>11 DEF FdStore
    <2>3. CallsHere'
      BY <1>1, <2>1, <2>2, GotoStep DEF Ops
    <2> QED BY <1>1, <1>2, <1>11, <2>1, <2>3 DEF FdStore, Ranges
  <1>12. CASE OpenDone(p)
    <2>1. CallsHere'
      BY <1>1, <1>12, ReturnStep DEF OpenDone, slots
    <2> QED BY <1>1, <1>12, <2>1 DEF OpenDone, Ranges
  <1>13. CASE DupDone(p)
    <2>1. CallsHere'
      BY <1>1, <1>13, ReturnStep DEF DupDone, slots
    <2>2. ref' = [ref EXCEPT ![call[p].at] = ref[call[p].at] + 1]
      BY <1>13 DEF DupDone
    <2>3. ref' \in [Files -> Nat]
      <3>1. call[p].at \in Files
        BY <1>2, <1>13 DEF DupDone, At, GoodCall, Ops
      <3>2. ref \in [Files -> Nat] /\ ref[call[p].at] + 1 \in Nat
        BY <1>1, <3>1 DEF Ranges
      <3> QED BY <2>2, <3>1, <3>2
    <2> QED BY <1>1, <1>13, <2>1, <2>3 DEF DupDone, Ranges
  <1> HIDE DEF G
  <1> QED BY <1>5, <1>6, <1>7, <1>8, <1>9, <1>10, <1>11, <1>12, <1>13 DEF OnFiles

\* The steps of chdir.
OnFolder(p) == Chdir(p) \/ ChdirPut(p) \/ ChdirDone(p)

LEMMA TypeFolders ==
  ASSUME TypeInv, NEW p \in Procs, OnFolder(p)
  PROVE  TypeInv'
  <1>1. Ranges /\ CallsHere
    BY DEF TypeInv
  <1>2. GoodCall(call[p]) /\ tg[p] \in Procs
    BY <1>1 DEF CallsHere, CallsOK, Ranges
  <1>3. UNCHANGED <<slots, memory, ofile, ref, type>>
    BY DEF OnFolder, Chdir, ChdirPut, ChdirDone
  <1>4. upset' \subseteq upset \cup {"race"}
    BY DEF OnFolder, Chdir, ChdirPut, ChdirDone, Upset, If
  <1> DEFINE G == /\ cwd' \in [Procs -> Folders \cup {None}]
                  /\ uses' \in [Folders -> Int]
                  /\ CallsHere'
  <1> SUFFICES G
    <2>1. Ranges'
      BY <1>1, <1>3, <1>4 DEF Ranges, slots, memory
    <2> QED BY <2>1 DEF TypeInv
  <1>5. CASE Chdir(p)
    <2>1. PICK i \in Folders : uses' = [uses EXCEPT ![i] = uses[i] + 1] /\ Goto(p, "chdir", 0, i)
      BY <1>5 DEF Chdir
    <2>2. CallsHere'
      BY <1>1, <1>5, <2>1, GotoStep, Constants DEF Chdir, Begin, At, Live, slots, Ops
    <2>3. uses' \in [Folders -> Int]
      BY <1>1, <2>1 DEF Ranges
    <2> QED BY <1>1, <1>5, <2>2, <2>3 DEF Chdir, Ranges
  <1>6. CASE ChdirPut(p)
    <2>1. call[p].at \in Folders /\ st[p] = "LIVE" /\ st' = st
      BY <1>2, <1>6 DEF ChdirPut, At, GoodCall, Live, slots
    <2>2. CallsHere'
      BY <1>1, <1>6, <2>1, GotoStep, Constants DEF ChdirPut, Ops
    <2>3. uses' \in [Folders -> Int]
      BY <1>1, <1>6 DEF Ranges, ChdirPut, Put
    <2> QED BY <1>1, <1>6, <2>2, <2>3 DEF ChdirPut, Ranges
  <1>7. CASE ChdirDone(p)
    <2>1. CallsHere'
      BY <1>1, <1>7, ReturnStep DEF ChdirDone, slots
    <2>2. call[p].at \in Folders
      BY <1>2, <1>7 DEF ChdirDone, At, GoodCall
    <2> QED BY <1>1, <1>2, <1>7, <2>1, <2>2 DEF ChdirDone, Ranges
  <1> HIDE DEF G
  <1> QED BY <1>5, <1>6, <1>7 DEF OnFolder

LEMMA TypeGrowproc == ASSUME TypeInv, NEW p \in Procs, Growproc(p) PROVE TypeInv'
  <1>1. PICK n \in {-1, 1} :
          LET new == sz[tg[p]] + n IN
            /\ new \in 1 .. MaxPages
            /\ mapped' = [d \in Procs |-> IF d = pgdir[p] THEN new ELSE mapped[d]]
            /\ sz' = [sz EXCEPT ![p] = new, ![tg[p]] = new]
    BY DEF Growproc
  <1>2. PICK new \in 1 .. MaxPages :
            /\ mapped' = [d \in Procs |-> IF d = pgdir[p] THEN new ELSE mapped[d]]
            /\ sz' = [sz EXCEPT ![p] = new, ![tg[p]] = new]
    BY <1>1
  <1>3. new \in 0 .. MaxPages
    BY <1>2, ThreadsAssumption
  <1>4. sz' \in [Procs -> 0 .. MaxPages] /\ mapped' \in [Procs -> 0 .. MaxPages]
    BY <1>2, <1>3 DEF TypeInv, Ranges
  <1>5. UNCHANGED <<slots, shared, pgdir, upset>>
    BY DEF Growproc
  <1>6. CallsHere'
    BY <1>5, CallSame DEF TypeInv, slots, shared, CallsHere, CallsOK
  <1> QED BY <1>4, <1>5, <1>6 DEF TypeInv, Ranges, slots, shared

LEMMA TypeExec == ASSUME TypeInv, NEW p \in Procs, Exec(p) PROVE TypeInv'
  <1>1. UNCHANGED <<st, parent, shared>> /\ upset' \subseteq upset \cup {"exec"}
    BY DEF Exec, Upset, If
  <1>2. 1 \in 0 .. MaxPages /\ 0 \in 0 .. MaxPages
    BY ThreadsAssumption
  <1>3. pgdir' \in [Procs -> Procs \cup {None}]
    BY DEF Exec, TypeInv, Ranges
  <1>4. mapped' \in [Procs -> 0 .. MaxPages]
    BY <1>2 DEF Exec, TypeInv, Ranges
  <1>5. sz' \in [Procs -> 0 .. MaxPages] /\ tg' \in [Procs -> Procs]
    BY <1>2 DEF Exec, TypeInv, Ranges
  <1>6. CallsHere'
    BY <1>1, CallSame DEF TypeInv, shared, CallsHere, CallsOK
  <1> QED BY <1>1, <1>3, <1>4, <1>5, <1>6 DEF TypeInv, Ranges, shared

-----------------------------------------------------------------------------
(* What fork, clone, exit and wait do to the slots.                        *)

\* The slot of a child, and what is the same in fork and clone.
Begotten(p, np) ==
  /\ np \in Unused
  /\ st' = [st EXCEPT ![np] = "LIVE"]
  /\ parent' = [parent EXCEPT ![np] = p]
  /\ sz' = [sz EXCEPT ![np] = sz[p]]
  /\ UNCHANGED <<type, call>>

Dups(p, f) == Cardinality({fd \in Fds : ofile[p][fd] = f})

Forked(p, np) ==
  /\ Begotten(p, np)
  /\ tg' = [tg EXCEPT ![np] = np]
  /\ pgdir' = [pgdir EXCEPT ![np] = np]
  /\ mapped' = [mapped EXCEPT ![np] = sz[p]]
  /\ ofile' = [ofile EXCEPT ![np] =
       [fd \in Fds |-> IF ofile[p][fd] # None THEN ofile[p][fd] ELSE ofile[np][fd]]]
  /\ ref' = [f \in Files |-> ref[f] + Dups(p, f)]
  /\ cwd' = [cwd EXCEPT ![np] = cwd[p]]
  /\ uses' = [uses EXCEPT ![cwd[p]] = uses[cwd[p]] + 1]
  /\ Upset(If(Raced(p), "race") \cup If(Stale(p), "stale")
                   \cup If(Leftover(p, np), "leftover"))
  /\ \/ panic' = panic
     \/ pgdir[p] = None \/ mapped[pgdir[p]] < sz[p]
     \/ \E f \in Files : Dups(p, f) > 0 /\ ~(ref[f] > 0)

Cloned(p, np) ==
  /\ Begotten(p, np)
  /\ tg' = [tg EXCEPT ![np] = tg[p]]
  /\ pgdir' = [pgdir EXCEPT ![np] = pgdir[p]]
  /\ ofile' = [ofile EXCEPT ![np] =
       [fd \in Fds |-> IF ofile[p][fd] # None THEN ofile[tg[p]][fd] ELSE ofile[np][fd]]]
  /\ cwd' = [cwd EXCEPT ![np] = cwd[tg[p]]]
  /\ UNCHANGED <<ref, uses, mapped, panic, upset>>

LEMMA NewSlot == Unused # {} => Least(Unused) \in Unused
  BY Constants, LeastIn DEF Unused

LEMMA ForkChild ==
  ASSUME NEW p \in Procs, Fork(p)
  PROVE  At(p, "idle") /\ \E np : Forked(p, np)
  <1> DEFINE np == Least(Unused)
  <1>1. np \in Unused
    BY NewSlot DEF Fork
  <1>2. Begotten(p, np)
    BY <1>1 DEF Fork, Begotten
  <1>3. Forked(p, np)
    BY <1>1, <1>2 DEF Fork, Forked, Dups, Check
  <1> QED BY <1>3 DEF Fork

LEMMA CloneChild ==
  ASSUME NEW p \in Procs, Clone(p)
  PROVE  At(p, "idle") /\ \E np : Cloned(p, np)
  <1> DEFINE np == Least(Unused)
  <1>1. np \in Unused
    BY NewSlot DEF Clone
  <1>2. Begotten(p, np)
    BY <1>1 DEF Clone, Begotten
  <1>3. Cloned(p, np)
    BY <1>1, <1>2 DEF Clone, Cloned
  <1> QED BY <1>3 DEF Clone

LEMMA DupsType == ASSUME NEW p, NEW f PROVE Dups(p, f) \in Nat
  <1>1. {fd \in Fds : ofile[p][fd] = f} \in SUBSET Fds
    OBVIOUS
  <1> QED BY <1>1, Constants, FS_Subset, FS_CardinalityType DEF Dups

LEMMA BegottenCalls ==
  ASSUME TypeInv, NEW p, NEW np, Begotten(p, np)
  PROVE  CallsHere' /\ st' \in [Procs -> {"UNUSED", "LIVE", "ZOMBIE"}]
  BY CallSame DEF TypeInv, Begotten, Unused, Ranges, CallsHere, CallsOK

LEMMA TypeFork == ASSUME TypeInv, NEW p \in Procs, Fork(p) PROVE TypeInv'
  <1>1. PICK np : Forked(p, np)
    BY ForkChild
  <1>2. np \in Procs /\ CallsHere' /\ st' \in [Procs -> {"UNUSED", "LIVE", "ZOMBIE"}]
    BY <1>1, BegottenCalls DEF Forked, Begotten, Unused
  <1>3. parent' \in [Procs -> Procs \cup {None}] /\ tg' \in [Procs -> Procs]
    BY <1>1, <1>2 DEF Forked, Begotten, TypeInv, Ranges
  <1>4. /\ pgdir' \in [Procs -> Procs \cup {None}]
        /\ sz' \in [Procs -> 0 .. MaxPages] /\ mapped' \in [Procs -> 0 .. MaxPages]
    BY <1>1, <1>2 DEF Forked, Begotten, TypeInv, Ranges
  <1>5. ofile' \in [Procs -> [Fds -> Files \cup {None}]]
    BY <1>1, <1>2 DEF Forked, TypeInv, Ranges
  <1>6. ref' \in [Files -> Nat] /\ type' \in [Files -> {"none", "inode"}]
    BY <1>1, DupsType DEF Forked, Begotten, TypeInv, Ranges
  <1>7. cwd' \in [Procs -> Folders \cup {None}]
    BY <1>1, <1>2 DEF Forked, TypeInv, Ranges
  <1>8. uses' \in [Folders -> Int]
    <2>1. CASE cwd[p] \in Folders
      BY <1>1, <2>1 DEF Forked, TypeInv, Ranges
    <2>2. CASE cwd[p] \notin Folders
      BY <1>1, <2>2 DEF Forked, TypeInv, Ranges
    <2> QED BY <2>1, <2>2
  <1>9. upset' \subseteq {"race", "stale", "leftover", "exec", "owner", "orphan"}
    BY <1>1 DEF Forked, TypeInv, Ranges, Upset, If
  <1> QED BY <1>2, <1>3, <1>4, <1>5, <1>6, <1>7, <1>8, <1>9 DEF TypeInv, Ranges

LEMMA TypeClone == ASSUME TypeInv, NEW p \in Procs, Clone(p) PROVE TypeInv'
  <1>1. PICK np : Cloned(p, np)
    BY CloneChild
  <1>2. np \in Procs /\ CallsHere' /\ st' \in [Procs -> {"UNUSED", "LIVE", "ZOMBIE"}]
    BY <1>1, BegottenCalls DEF Cloned, Begotten, Unused
  <1>3. parent' \in [Procs -> Procs \cup {None}] /\ tg' \in [Procs -> Procs]
    BY <1>1, <1>2 DEF Cloned, Begotten, TypeInv, Ranges
  <1>4. pgdir' \in [Procs -> Procs \cup {None}] /\ sz' \in [Procs -> 0 .. MaxPages]
    BY <1>1, <1>2 DEF Cloned, Begotten, TypeInv, Ranges
  <1>5. ofile' \in [Procs -> [Fds -> Files \cup {None}]]
    BY <1>1, <1>2 DEF Cloned, TypeInv, Ranges
  <1>6. cwd' \in [Procs -> Folders \cup {None}]
    BY <1>1, <1>2 DEF Cloned, TypeInv, Ranges
  <1> QED BY <1>1, <1>2, <1>3, <1>4, <1>5, <1>6
          DEF TypeInv, Ranges, Cloned, Begotten

LEMMA Paired ==
  ASSUME NEW t, NEW S, IsFiniteSet(S)
  PROVE  IsFiniteSet({t} \X S) /\ Cardinality({t} \X S) = Cardinality(S)
  <1>1. IsFiniteSet({t}) /\ Cardinality({t}) = 1
    BY FS_Singleton
  <1>2. IsFiniteSet({t} \X S) /\ Cardinality({t} \X S) = 1 * Cardinality(S)
    BY <1>1, FS_Product
  <1> QED BY <1>2, FS_CardinalityType

\* exit closes what the table of the owner has.
LEMMA Closes ==
  ASSUME NEW p \in Procs, CloseAll({<<p, fd>> : fd \in Fds})
  PROVE  /\ ref' = [f \in Files |-> IF ref[f] < Dups(p, f) THEN 0 ELSE ref[f] - Dups(p, f)]
         /\ type' = [f \in Files |-> IF Dups(p, f) > 0 /\ ref'[f] = 0 THEN "none" ELSE type[f]]
         /\ panic' = panic \/ \E f \in Files : ~(Dups(p, f) <= ref[f])
  <1> DEFINE s == {<<p, fd>> : fd \in Fds}
             n(f) == Cardinality({x \in s : ofile[x[1]][x[2]] = f})
  <1>1. ASSUME NEW f PROVE n(f) = Dups(p, f)
    <2>1. {x \in s : ofile[x[1]][x[2]] = f} = {p} \X {fd \in Fds : ofile[p][fd] = f}
      OBVIOUS
    <2>2. {fd \in Fds : ofile[p][fd] = f} \in SUBSET Fds
      OBVIOUS
    <2>3. IsFiniteSet({fd \in Fds : ofile[p][fd] = f})
      BY <2>2, Constants, FS_Subset
    <2> QED BY <2>1, <2>3, Paired DEF Dups
  <1>2. /\ ref' = [f \in Files |-> IF ref[f] < n(f) THEN 0 ELSE ref[f] - n(f)]
        /\ type' = [f \in Files |-> IF n(f) > 0 /\ ref'[f] = 0 THEN "none" ELSE type[f]]
        /\ panic' = IF \A f \in Files : n(f) <= ref[f] THEN panic ELSE "fileclose"
    BY DEF CloseAll, Check
  <1> HIDE DEF n
  <1> QED BY <1>1, <1>2

\* An exit that spares the group: the owner is alone in it.
Closed(p) ==
  /\ CloseAll({<<p, fd>> : fd \in Fds})
  /\ uses' = [uses EXCEPT ![cwd[p]] = uses[cwd[p]] - 1]
  /\ ofile' = [ofile EXCEPT ![p] = [fd \in Fds |-> None]]
  /\ cwd' = [cwd EXCEPT ![p] = None]

Left(p) ==
  /\ At(p, "idle") /\ p # initproc
  /\ st' = [st EXCEPT ![p] = "ZOMBIE"]
  /\ parent' = [q \in Procs |-> IF parent[q] = p THEN initproc ELSE parent[q]]
  /\ Upset(If(tg[p] = p /\ Members(p) # {p}, "owner")
           \cup If(\E q \in Members(tg[p]) : parent[q] = p /\ tg[q] # q, "orphan"))
  /\ UNCHANGED <<tg, call, memory>>

LEMMA ExitParts ==
  ASSUME NEW p \in Procs, Exit(p)
  PROVE  /\ Left(p)
         /\ tg[p] = p => Closed(p)
         /\ tg[p] # p => UNCHANGED <<ref, type, uses, ofile, cwd, panic>>
  BY DEF Exit, Left, Closed

LEMMA TypeExit == ASSUME TypeInv, NEW p \in Procs, Exit(p) PROVE TypeInv'
  <1>1. Left(p)
    BY ExitParts
  <1>2. /\ ofile' \in [Procs -> [Fds -> Files \cup {None}]]
        /\ cwd' \in [Procs -> Folders \cup {None}]
        /\ ref' \in [Files -> Nat] /\ type' \in [Files -> {"none", "inode"}]
        /\ uses' \in [Folders -> Int]
    <2>1. CASE tg[p] = p
      <3>1. Closed(p)
        BY <2>1, ExitParts
      <3>2. ofile' \in [Procs -> [Fds -> Files \cup {None}]] /\ cwd' \in [Procs -> Folders \cup {None}]
        BY <3>1 DEF Closed, TypeInv, Ranges
      <3>3. uses' \in [Folders -> Int]
        <4>1. CASE cwd[p] \in Folders
          BY <3>1, <4>1 DEF Closed, TypeInv, Ranges
        <4>2. CASE cwd[p] \notin Folders
          BY <3>1, <4>2 DEF Closed, TypeInv, Ranges
        <4> QED BY <4>1, <4>2
      <3>4. /\ ref' = [f \in Files |-> IF ref[f] < Dups(p, f) THEN 0 ELSE ref[f] - Dups(p, f)]
            /\ type' = [f \in Files |-> IF Dups(p, f) > 0 /\ ref'[f] = 0 THEN "none" ELSE type[f]]
        BY <3>1, Closes DEF Closed
      <3>5. \A f \in Files : Dups(p, f) \in Nat
        BY DupsType
      <3>6. ref' \in [Files -> Nat]
        BY <3>4, <3>5 DEF TypeInv, Ranges
      <3>7. type' \in [Files -> {"none", "inode"}]
        BY <3>4 DEF TypeInv, Ranges
      <3> QED BY <3>2, <3>3, <3>6, <3>7
    <2>2. CASE tg[p] # p
      BY <2>2, ExitParts DEF TypeInv, Ranges
    <2> QED BY <2>1, <2>2
  <1>3. CallsHere'
    BY <1>1, CallSame DEF Left, At, Live, TypeInv, Ranges, CallsHere, CallsOK
  <1>4. /\ st' \in [Procs -> {"UNUSED", "LIVE", "ZOMBIE"}]
        /\ parent' \in [Procs -> Procs \cup {None}]
    BY <1>1, Constants DEF Left, TypeInv, Ranges
  <1>5. upset' \subseteq {"race", "stale", "leftover", "exec", "owner", "orphan"}
    BY <1>1 DEF Left, TypeInv, Ranges, Upset, If
  <1> QED BY <1>1, <1>2, <1>3, <1>4, <1>5 DEF Left, TypeInv, Ranges, memory

\* wait, with the child it finds.
Waited(p, q) ==
  /\ At(p, "idle") /\ q \in Procs /\ parent[q] = p /\ st[q] = "ZOMBIE"
  /\ st' = [st EXCEPT ![q] = "UNUSED"]
  /\ parent' = [parent EXCEPT ![q] = None]
  /\ SamePid(tg[q], tg[p]) => UNCHANGED <<pgdir, mapped, panic>>
  /\ ~SamePid(tg[q], tg[p]) => Freevm(q)
  /\ tg' = [tg EXCEPT ![q] = q] /\ cwd' = [cwd EXCEPT ![q] = None]
  /\ UNCHANGED <<ofile, ref, type, uses, call, sz, upset>>

LEMMA WaitChild == ASSUME NEW p \in Procs, Wait(p) PROVE \E q : Waited(p, q)
  BY DEF Wait, Waited

LEMMA TypeWait == ASSUME TypeInv, NEW p \in Procs, Wait(p) PROVE TypeInv'
  <1>1. PICK q : Waited(p, q)
    BY WaitChild
  <1>2. pgdir' \in [Procs -> Procs \cup {None}] /\ mapped' \in [Procs -> 0 .. MaxPages]
    <2>1. 0 \in 0 .. MaxPages
      BY ThreadsAssumption
    <2>2. CASE SamePid(tg[q], tg[p])
      BY <1>1, <2>2 DEF Waited, TypeInv, Ranges
    <2>3. CASE ~SamePid(tg[q], tg[p])
      BY <1>1, <2>1, <2>3 DEF Waited, Freevm, TypeInv, Ranges
    <2> QED BY <2>2, <2>3
  <1>3. CallsHere'
    BY <1>1, CallSame DEF Waited, TypeInv, Ranges, CallsHere, CallsOK
  <1>4. /\ st' \in [Procs -> {"UNUSED", "LIVE", "ZOMBIE"}]
        /\ parent' \in [Procs -> Procs \cup {None}]
        /\ tg' \in [Procs -> Procs] /\ cwd' \in [Procs -> Folders \cup {None}]
    BY <1>1 DEF Waited, TypeInv, Ranges
  <1> QED BY <1>1, <1>2, <1>3, <1>4 DEF Waited, TypeInv, Ranges

LEMMA TypeInit == Init => TypeInv
  <1> SUFFICES ASSUME Init PROVE TypeInv
      OBVIOUS
  <1>1. Least(Folders) \in Folders
    BY Constants, ThreadsAssumption, LeastIn
  <1>2. GoodCall(Idle) /\ Idle.op = "idle"
    BY DEF GoodCall, Idle, Ops, None
  <1>3. CallsHere
    BY <1>2 DEF Init, CallsHere, CallsOK, GoodCall
  <1>4. sz \in [Procs -> 0 .. MaxPages] /\ mapped \in [Procs -> 0 .. MaxPages]
    BY ThreadsAssumption DEF Init
  <1>5. /\ ofile \in [Procs -> [Fds -> Files \cup {None}]]
        /\ cwd \in [Procs -> Folders \cup {None}]
    BY <1>1, Constants DEF Init
  <1> QED BY <1>3, <1>4, <1>5, Constants DEF Init, TypeInv, Ranges

\* The steps of a process, by what they are about.
LEMMA Steps ==
  ASSUME NEW p \in Procs, Step(p)
  PROVE  OnFiles(p) \/ OnFolder(p) \/ Growproc(p) \/ Exec(p) \/ Fork(p)
         \/ Clone(p) \/ Exit(p) \/ Wait(p)
  BY DEF Step, OnFiles, OnFolder

LEMMA TypeNext == TypeInv /\ [Next]_vars => TypeInv'
  <1>1. ASSUME TypeInv, NEW p \in Procs, Step(p) PROVE TypeInv'
    BY <1>1, Steps, TypeFiles, TypeFolders, TypeGrowproc, TypeExec, TypeFork,
       TypeClone, TypeExit, TypeWait
  <1>2. ASSUME TypeInv, UNCHANGED vars PROVE TypeInv'
    BY <1>2 DEF vars, slots, shared, memory, TypeInv, Ranges, CallsHere, CallsOK, GoodCall
  <1> QED BY <1>1, <1>2 DEF Next

-----------------------------------------------------------------------------
(* The owner of a group.                                                   *)

\* Whoever is in a group has a live owner, which is in the group itself.
Grouped ==
  \A p \in Procs :
    st[p] # "UNUSED" => tg[p] = p \/ (st[tg[p]] = "LIVE" /\ tg[tg[p]] = tg[p])

\* A live process has a folder; an owner that has exited has nothing.
Rooms ==
  /\ \A p \in Live : cwd[p] \in Folders
  /\ \A p \in Owners :
       st[p] = "ZOMBIE" => cwd[p] = None /\ \A fd \in Fds : ofile[p][fd] = None

GroupState == Grouped /\ Rooms
GroupInv == Spared({"exec", "owner"}) => GroupState

LEMMA UpsetGrows == ASSUME NEW p \in Procs, Step(p) PROVE upset \subseteq upset'
  <1>1. CASE OnFiles(p)
    BY <1>1 DEF OnFiles, Argfd, CloseFd, CloseDone, UseDone, Open, FdScan, FdStore,
       OpenDone, DupDone, Upset
  <1>2. CASE OnFolder(p)
    BY <1>2 DEF OnFolder, Chdir, ChdirPut, ChdirDone, Upset
  <1>3. CASE Growproc(p) \/ Exec(p) \/ Clone(p) \/ Exit(p) \/ Wait(p)
    BY <1>3 DEF Growproc, Exec, Clone, Exit, Wait, Upset
  <1>4. CASE Fork(p)
    BY <1>4, ForkChild DEF Forked, Upset
  <1> QED BY <1>1, <1>2, <1>3, <1>4, Steps

\* The home of a live process: the owner of its group.
LEMMA Home ==
  ASSUME TypeInv, Grouped, NEW p \in Live
  PROVE  /\ p \in Procs /\ st[p] = "LIVE" /\ tg[p] \in Procs /\ tg[p] \in Live
         /\ tg[p] \in Owners /\ tg[tg[p]] = tg[p] /\ st[tg[p]] = "LIVE"
  BY DEF TypeInv, Ranges, Grouped, Live, Owners

\* Nobody is in the group of a slot that is free or whose owner is gone, but
\* a zombie owner itself.
LEMMA Homeless ==
  ASSUME TypeInv, Grouped, NEW q \in Procs, st[q] # "LIVE", NEW r \in Procs,
         st[r] # "UNUSED", tg[r] = q
  PROVE  r = q
  BY DEF Grouped

LEMMA CallsGroup ==
  ASSUME TypeInv, GroupState, NEW p \in Procs, OnFiles(p) \/ OnFolder(p)
  PROVE  GroupState'
  <1>1. st' = st /\ tg' = tg
    BY DEF OnFiles, OnFolder, Argfd, CloseFd, CloseDone, UseDone, Open, FdScan, FdStore,
       OpenDone, DupDone, Chdir, ChdirPut, ChdirDone, slots
  <1>2. p \in Live
    BY DEF OnFiles, OnFolder, Argfd, CloseFd, CloseDone, UseDone, Open, FdScan, FdStore,
       OpenDone, DupDone, Chdir, ChdirPut, ChdirDone, Begin, At
  <1>3. st[tg[p]] = "LIVE" /\ tg[p] \in Procs
    BY <1>2, Home DEF GroupState
  <1>4. \A q \in Procs \ {tg[p]} : ofile'[q] = ofile[q] /\ cwd'[q] = cwd[q]
    BY <1>2, <1>3 DEF OnFiles, OnFolder, Argfd, CloseFd, CloseDone, UseDone, Open, FdScan, FdStore,
       OpenDone, DupDone, Chdir, ChdirPut, ChdirDone, TypeInv, Ranges
  <1>5. cwd'[tg[p]] \in Folders
    <2>1. CASE ChdirDone(p)
      <3>1. call[p].at \in Folders
        BY <2>1 DEF ChdirDone, At, TypeInv, CallsHere, CallsOK, GoodCall
      <3> QED BY <1>3, <2>1, <3>1 DEF ChdirDone, TypeInv, Ranges
    <2>2. CASE ~ChdirDone(p)
      <3>1. cwd' = cwd
        BY <2>2 DEF OnFiles, OnFolder, Argfd, CloseFd, CloseDone, UseDone, Open, FdScan,
           FdStore, OpenDone, DupDone, Chdir, ChdirPut
      <3> QED BY <1>3, <3>1 DEF GroupState, Rooms, Live
    <2> QED BY <2>1, <2>2
  <1>6. Grouped'
    BY <1>1 DEF GroupState, Grouped
  <1>7. Rooms'
    BY <1>1, <1>3, <1>4, <1>5 DEF GroupState, Rooms, Live, Owners
  <1> QED BY <1>6, <1>7 DEF GroupState

LEMMA GrowprocGroup ==
  ASSUME GroupState, NEW p \in Procs, Growproc(p)
  PROVE  GroupState'
  BY DEF GroupState, Grouped, Rooms, Growproc, slots, shared, Live, Owners

\* Who execs with nobody else in the group is its owner already.
LEMMA ExecAlone ==
  ASSUME TypeInv, Grouped, NEW p \in Procs, Exec(p), upset' \cap {"exec"} = {}
  PROVE  /\ tg[p] = p /\ tg' = tg /\ upset' = upset
         /\ \A q \in Live : tg[q] = p => q = p
  <1>1. p \in Live
    BY DEF Exec, At
  <1>2. ~\E q \in Members(tg[p]) \ {p} : q \in Live
    BY DEF Exec, Upset, If
  <1>3. tg[p] = p
    BY <1>1, <1>2, Home DEF Members
  <1>4. tg' = tg
    BY <1>3 DEF Exec, TypeInv, Ranges
  <1> QED BY <1>2, <1>3, <1>4 DEF Members, Exec, Upset, If, Live

LEMMA ExecGroup ==
  ASSUME TypeInv, GroupState, NEW p \in Procs, Exec(p), upset' \cap {"exec"} = {}
  PROVE  GroupState'
  <1>1. UNCHANGED <<st, tg, ofile, cwd>>
    BY ExecAlone DEF Exec, shared, GroupState
  <1> QED BY <1>1 DEF GroupState, Grouped, Rooms, Live, Owners

LEMMA ForkGroup ==
  ASSUME TypeInv, GroupState, NEW p \in Procs, Fork(p)
  PROVE  GroupState'
  <1>1. PICK np : Forked(p, np)
    BY ForkChild
  <1>2. p \in Live
    BY ForkChild DEF At
  <1>3. np \in Procs /\ st[np] = "UNUSED" /\ np # p
    BY <1>1, <1>2 DEF Forked, Begotten, Unused, Live
  <1>4. /\ st'[np] = "LIVE" /\ tg'[np] = np /\ cwd'[np] = cwd[p]
        /\ \A q \in Procs \ {np} : st'[q] = st[q] /\ tg'[q] = tg[q] /\ cwd'[q] = cwd[q]
                                   /\ ofile'[q] = ofile[q]
    BY <1>1, <1>3 DEF Forked, Begotten, TypeInv, Ranges
  <1>5. Grouped'
    <2>1. \A r \in Procs : st[r] # "UNUSED" => tg[r] \in Procs \ {np}
      BY <1>3, Homeless DEF GroupState, TypeInv, Ranges
    <2> QED BY <1>4, <2>1 DEF GroupState, Grouped
  <1>6. Rooms'
    BY <1>2, <1>3, <1>4 DEF GroupState, Rooms, Live, Owners
  <1> QED BY <1>5, <1>6 DEF GroupState

LEMMA CloneGroup ==
  ASSUME TypeInv, GroupState, NEW p \in Procs, Clone(p)
  PROVE  GroupState'
  <1>1. PICK np : Cloned(p, np)
    BY CloneChild
  <1>2. p \in Live
    BY CloneChild DEF At
  <1>3. np \in Procs /\ st[np] = "UNUSED" /\ np # p
    BY <1>1, <1>2 DEF Cloned, Begotten, Unused, Live
  <1>4. tg[p] \in Live /\ tg[tg[p]] = tg[p] /\ tg[p] # np /\ tg[p] \in Procs
    BY <1>2, <1>3, Home DEF GroupState
  <1>5. /\ st'[np] = "LIVE" /\ tg'[np] = tg[p] /\ cwd'[np] = cwd[tg[p]]
        /\ \A q \in Procs \ {np} : st'[q] = st[q] /\ tg'[q] = tg[q] /\ cwd'[q] = cwd[q]
                                   /\ ofile'[q] = ofile[q]
    BY <1>1, <1>3 DEF Cloned, Begotten, TypeInv, Ranges
  <1>6. Grouped'
    <2>1. \A r \in Procs : st[r] # "UNUSED" => tg[r] \in Procs \ {np}
      BY <1>3, Homeless DEF GroupState, TypeInv, Ranges
    <2>2. st[tg[p]] = "LIVE"
      BY <1>4 DEF Live
    <2> QED BY <1>3, <1>4, <1>5, <2>1, <2>2 DEF GroupState, Grouped
  <1>7. Rooms'
    BY <1>3, <1>4, <1>5 DEF GroupState, Rooms, Live, Owners
  <1> QED BY <1>6, <1>7 DEF GroupState

LEMMA ExitGroup ==
  ASSUME TypeInv, GroupState, NEW p \in Procs, Exit(p), upset' \cap {"owner"} = {}
  PROVE  /\ GroupState'
         /\ \A q \in Procs : st[q] # "UNUSED" /\ tg[q] = p => q = p
  <1>1. Left(p) /\ st[p] = "LIVE" /\ p \in Live
    BY ExitParts DEF Left, At, Live
  <1>2. \A q \in Procs : st[q] # "UNUSED" /\ tg[q] = p => q = p
    <2>1. CASE tg[p] = p
      BY <1>1, <2>1 DEF Left, Upset, If, Members
    <2>2. CASE tg[p] # p
      BY <1>1, <2>2 DEF GroupState, Grouped
    <2> QED BY <2>1, <2>2
  <1>3. st'[p] = "ZOMBIE" /\ tg' = tg /\ \A q \in Procs \ {p} : st'[q] = st[q]
    BY <1>1 DEF Left, TypeInv, Ranges
  <1>4. /\ tg[p] = p => cwd'[p] = None /\ \A fd \in Fds : ofile'[p][fd] = None
        /\ \A q \in Procs \ {p} : cwd'[q] = cwd[q] /\ ofile'[q] = ofile[q]
    <2>1. CASE tg[p] = p
      <3>1. Closed(p)
        BY <2>1, ExitParts
      <3>2. ofile'[p] = [fd \in Fds |-> None] /\ cwd'[p] = None
        BY <3>1 DEF Closed, TypeInv, Ranges
      <3>3. \A q \in Procs \ {p} : cwd'[q] = cwd[q] /\ ofile'[q] = ofile[q]
        BY <3>1 DEF Closed, TypeInv, Ranges
      <3> QED BY <3>2, <3>3
    <2>2. CASE tg[p] # p
      BY <2>2, ExitParts
    <2> QED BY <2>1, <2>2
  <1>5. Grouped'
    <2>1. \A r \in Procs \ {p} : st[r] # "UNUSED" => tg[r] \in Procs \ {p}
      BY <1>2 DEF TypeInv, Ranges
    <2>2. tg[p] = p \/ (tg[p] \in Procs \ {p} /\ st[tg[p]] = "LIVE" /\ tg[tg[p]] = tg[p])
      BY <1>1 DEF GroupState, Grouped, TypeInv, Ranges
    <2>3. ASSUME NEW r \in Procs, st'[r] # "UNUSED"
          PROVE  tg'[r] = r \/ (st'[tg'[r]] = "LIVE" /\ tg'[tg'[r]] = tg'[r])
      <3>1. CASE r = p
        BY <1>3, <2>2, <3>1
      <3>2. CASE r # p
        BY <1>3, <2>1, <2>3, <3>2 DEF GroupState, Grouped
      <3> QED BY <3>1, <3>2
    <2> QED BY <2>3 DEF Grouped
  <1>6. Rooms'
    BY <1>3, <1>4 DEF GroupState, Rooms, Live, Owners
  <1> QED BY <1>2, <1>5, <1>6 DEF GroupState

LEMMA WaitGroup ==
  ASSUME TypeInv, GroupState, NEW p \in Procs, NEW q, Waited(p, q)
  PROVE  GroupState'
  <1>1. q \in Procs /\ st[q] = "ZOMBIE" /\ ofile' = ofile
    BY DEF Waited
  <1>2. /\ st'[q] = "UNUSED" /\ tg'[q] = q
        /\ \A r \in Procs \ {q} : st'[r] = st[r] /\ tg'[r] = tg[r] /\ cwd'[r] = cwd[r]
    BY <1>1 DEF Waited, TypeInv, Ranges
  <1>3. Grouped'
    <2>1. \A r \in Procs : st[r] # "UNUSED" /\ tg[r] = q => r = q
      BY <1>1, Homeless DEF GroupState
    <2>2. \A r \in Procs \ {q} : st[r] # "UNUSED" => tg[r] \in Procs \ {q}
      BY <2>1 DEF TypeInv, Ranges
    <2> QED BY <1>2, <2>2 DEF GroupState, Grouped
  <1>4. Rooms'
    BY <1>1, <1>2 DEF GroupState, Rooms, Live, Owners
  <1> QED BY <1>3, <1>4 DEF GroupState

LEMMA GroupInit == Init => GroupInv
  <1>1. Least(Folders) \in Folders
    BY Constants, ThreadsAssumption, LeastIn
  <1> QED BY <1>1, Constants DEF Init, GroupInv, GroupState, Grouped, Rooms, Live, Owners

LEMMA GroupNext == TypeInv /\ GroupInv /\ [Next]_vars => GroupInv'
  <1>1. ASSUME TypeInv, GroupInv, NEW p \in Procs, Step(p), Spared({"exec", "owner"})'
        PROVE  GroupState'
    <2>1. GroupState /\ upset' \cap {"exec"} = {} /\ upset' \cap {"owner"} = {}
      BY <1>1, UpsetGrows DEF GroupInv, Spared
    <2> QED BY <1>1, <2>1, Steps, WaitChild, CallsGroup, GrowprocGroup, ExecGroup,
            ForkGroup, CloneGroup, ExitGroup, WaitGroup
  <1>2. ASSUME GroupInv, UNCHANGED vars PROVE GroupInv'
    BY <1>2 DEF vars, slots, shared, GroupInv, Spared, GroupState, Grouped, Rooms, Live, Owners
  <1> QED BY <1>1, <1>2 DEF Next, GroupInv

-----------------------------------------------------------------------------
(* The page directory of a group.                                          *)

\* A thread is the child of a live member of its group.
Raised ==
  \A q \in Procs :
    st[q] # "UNUSED" /\ tg[q] # q => parent[q] \in Live /\ tg[parent[q]] = tg[q]

\* Who is on which directory.
Placed ==
  /\ \A q \in Live : pgdir[q] = tg[q] /\ sz[q] > 0
  /\ \A q \in Owners : pgdir[q] = q

\* Which directories there are, and how large they are.
Mapped ==
  /\ \A d \in Procs : mapped[d] > 0 <=> d \in Owners
  /\ \A q \in Live : mapped[tg[q]] = sz[tg[q]]

DirState == Raised /\ Placed /\ Mapped
DirInv == Spared({"exec", "owner", "orphan"}) => DirState

LEMMA DirsExactHolds == TypeInv /\ GroupInv /\ DirInv => DirsExact
  <1> SUFFICES ASSUME TypeInv, GroupInv, DirInv, Spared({"exec", "owner", "orphan"})
               PROVE  /\ {d \in Procs : mapped[d] > 0} = {pgdir[p] : p \in Owners}
                      /\ \A p \in Live : /\ pgdir[p] = pgdir[tg[p]] /\ pgdir[p] # None
                                         /\ mapped[pgdir[p]] = sz[tg[p]]
      BY DEF DirsExact
  <1>1. Placed /\ Mapped /\ Grouped
    BY DEF DirInv, DirState, GroupInv, GroupState, Spared
  <1>2. {d \in Procs : mapped[d] > 0} = Owners
    BY <1>1 DEF Mapped, Owners
  <1>3. {pgdir[p] : p \in Owners} = Owners
    BY <1>1 DEF Placed
  <1>4. ASSUME NEW p \in Live
        PROVE  /\ pgdir[p] = pgdir[tg[p]] /\ pgdir[p] # None
               /\ mapped[pgdir[p]] = sz[tg[p]]
    <2>1. pgdir[p] = tg[p] /\ tg[p] \in Procs /\ tg[p] \in Owners
      BY <1>1, Home DEF Placed
    <2>2. pgdir[tg[p]] = tg[p] /\ mapped[tg[p]] = sz[tg[p]]
      BY <1>1, <2>1 DEF Placed, Mapped
    <2> QED BY <2>1, <2>2, Constants
  <1> QED BY <1>2, <1>3, <1>4

LEMMA CallsDirs ==
  ASSUME DirState, NEW p \in Procs, OnFiles(p) \/ OnFolder(p)
  PROVE  DirState'
  <1>1. UNCHANGED <<slots, memory>>
    BY DEF OnFiles, OnFolder, Argfd, CloseFd, CloseDone, UseDone, Open, FdScan, FdStore,
       OpenDone, DupDone, Chdir, ChdirPut, ChdirDone
  <1> QED BY <1>1 DEF slots, memory, DirState, Raised, Placed, Mapped, Live, Owners

LEMMA GrowprocDirs ==
  ASSUME TypeInv, Grouped, DirState, NEW p \in Procs, Growproc(p)
  PROVE  DirState'
  <1>1. PICK n \in {-1, 1} :
          LET new == sz[tg[p]] + n IN
            /\ new \in 1 .. MaxPages
            /\ mapped' = [d \in Procs |-> IF d = pgdir[p] THEN new ELSE mapped[d]]
            /\ sz' = [sz EXCEPT ![p] = new, ![tg[p]] = new]
    BY DEF Growproc
  <1>2. PICK new \in 1 .. MaxPages :
            /\ mapped' = [d \in Procs |-> IF d = pgdir[p] THEN new ELSE mapped[d]]
            /\ sz' = [sz EXCEPT ![p] = new, ![tg[p]] = new]
    BY <1>1
  <1>3. new > 0
    BY <1>2, ThreadsAssumption
  <1>4. p \in Live /\ UNCHANGED <<st, tg, parent, pgdir>>
    BY DEF Growproc, At, slots
  <1>5. tg[p] \in Procs /\ tg[p] \in Owners /\ tg[tg[p]] = tg[p]
    BY <1>4, Home
  <1>6. pgdir[p] = tg[p]
    BY <1>4 DEF DirState, Placed
  <1>7. sz'[p] = new /\ sz'[tg[p]] = new /\ \A q \in Procs \ {p, tg[p]} : sz'[q] = sz[q]
    BY <1>2, <1>5 DEF TypeInv, Ranges
  <1>8. Raised'
    BY <1>4 DEF DirState, Raised, Live
  <1>9. Placed'
    <2>1. \A q \in Live : sz'[q] > 0
      BY <1>3, <1>7 DEF DirState, Placed, Live
    <2> QED BY <1>4, <2>1 DEF DirState, Placed, Live, Owners
  <1>10. Mapped'
    <2>1. \A d \in Procs : mapped'[d] > 0 <=> d \in Owners
      BY <1>2, <1>3, <1>5, <1>6 DEF DirState, Mapped
    <2>2. ASSUME NEW q \in Live PROVE mapped'[tg[q]] = sz'[tg[q]]
      <3>1. tg[q] \in Procs /\ tg[tg[q]] = tg[q] /\ mapped[tg[q]] = sz[tg[q]]
        BY Home DEF DirState, Mapped
      <3>2. CASE tg[q] = tg[p]
        BY <1>2, <1>6, <1>7, <3>1, <3>2
      <3>3. CASE tg[q] # tg[p]
        <4>1. tg[q] # p
          BY <3>1, <3>3
        <4> QED BY <1>2, <1>6, <1>7, <3>1, <3>3, <4>1
      <3> QED BY <3>2, <3>3
    <2> QED BY <1>4, <2>1, <2>2 DEF Mapped, Live, Owners
  <1> QED BY <1>8, <1>9, <1>10 DEF DirState

LEMMA ExecDirs ==
  ASSUME TypeInv, Grouped, DirState, NEW p \in Procs, Exec(p), upset' \cap {"exec"} = {}
  PROVE  DirState' /\ panic' = panic
  <1>1. /\ tg[p] = p /\ tg' = tg /\ st' = st /\ parent' = parent
        /\ \A q \in Live : tg[q] = p => q = p
    BY ExecAlone DEF Exec
  <1>2. p \in Live /\ p \in Owners /\ pgdir[p] = p
    BY <1>1 DEF Exec, At, Live, Owners, DirState, Placed
  <1>3. pgdir'[p] = p /\ \A q \in Procs : pgdir[q] # p => pgdir'[q] = pgdir[q]
    BY <1>2 DEF Exec, Holders
  <1>4. mapped' = [mapped EXCEPT ![p] = 1]
    BY <1>2 DEF Exec, TypeInv, Ranges
  <1>5. sz' = [sz EXCEPT ![p] = 1]
    BY DEF Exec
  <1>6. Raised'
    BY <1>1 DEF DirState, Raised, Live
  <1>7. Placed'
    <2>1. \A q \in Live : pgdir'[q] = tg[q]
      BY <1>1, <1>3 DEF DirState, Placed, Live
    <2>2. \A q \in Owners : pgdir'[q] = q
      BY <1>3 DEF DirState, Placed, Owners
    <2>3. \A q \in Live : sz'[q] > 0
      BY <1>5 DEF DirState, Placed, Live, TypeInv, Ranges
    <2> QED BY <1>1, <2>1, <2>2, <2>3 DEF Placed, Live, Owners
  <1>8. Mapped'
    <2>1. \A d \in Procs : mapped'[d] > 0 <=> d \in Owners
      BY <1>2, <1>4 DEF DirState, Mapped, TypeInv, Ranges
    <2>2. \A q \in Live : mapped'[tg[q]] = sz'[tg[q]]
      BY <1>4, <1>5 DEF DirState, Mapped, TypeInv, Ranges, Live
    <2> QED BY <1>1, <2>1, <2>2 DEF Mapped, Live, Owners
  <1>9. panic' = panic
    BY <1>2, Constants DEF Exec, Check
  <1> QED BY <1>6, <1>7, <1>8, <1>9 DEF DirState

\* A child is in a slot nobody was in, nor had to do with.
LEMMA ForkDirs ==
  ASSUME TypeInv, Grouped, DirState, NEW p \in Procs, Fork(p)
  PROVE  DirState'
  <1>1. PICK np : Forked(p, np)
    BY ForkChild
  <1>2. p \in Live
    BY ForkChild DEF At
  <1>3. np \in Procs /\ st[np] = "UNUSED"
    BY <1>1 DEF Forked, Begotten, Unused
  <1>4. sz[p] > 0
    BY <1>2 DEF DirState, Placed
  <1>5. /\ st'[np] = "LIVE" /\ tg'[np] = np /\ pgdir'[np] = np
        /\ mapped'[np] = sz[p] /\ sz'[np] = sz[p]
        /\ \A q \in Procs \ {np} : /\ st'[q] = st[q] /\ tg'[q] = tg[q]
                                   /\ parent'[q] = parent[q] /\ pgdir'[q] = pgdir[q]
                                   /\ mapped'[q] = mapped[q] /\ sz'[q] = sz[q]
    BY <1>1, <1>3 DEF Forked, Begotten, TypeInv, Ranges
  <1>6. \A q \in Procs \ {np} : st[q] # "UNUSED" => tg[q] \in Procs \ {np}
    BY <1>3, Homeless DEF TypeInv, Ranges
  <1>7. Raised'
    <2>1. ASSUME NEW q \in Procs, st'[q] # "UNUSED", tg'[q] # q
          PROVE  parent'[q] \in Live' /\ tg'[parent'[q]] = tg'[q]
      <3>1. q # np /\ parent[q] \in Live /\ tg[parent[q]] = tg[q]
        BY <1>5, <2>1 DEF DirState, Raised
      <3>2. parent[q] \in Procs \ {np} /\ st[parent[q]] = "LIVE"
        BY <1>3, <3>1 DEF Live
      <3> QED BY <1>5, <2>1, <3>1, <3>2 DEF Live
    <2> QED BY <2>1 DEF Raised
  <1>8. Placed'
    BY <1>4, <1>5 DEF DirState, Placed, Live, Owners
  <1>9. Mapped'
    <2>1. \A d \in Procs : mapped'[d] > 0 <=> d \in Owners'
      BY <1>4, <1>5 DEF DirState, Mapped, Owners
    <2>2. \A q \in Procs : st'[q] = "LIVE" => mapped'[tg'[q]] = sz'[tg'[q]]
      BY <1>5, <1>6 DEF DirState, Mapped, Live
    <2> QED BY <2>1, <2>2 DEF Mapped, Live
  <1> QED BY <1>7, <1>8, <1>9 DEF DirState

LEMMA CloneDirs ==
  ASSUME TypeInv, Grouped, DirState, NEW p \in Procs, Clone(p)
  PROVE  DirState'
  <1>1. PICK np : Cloned(p, np)
    BY CloneChild
  <1>2. p \in Live /\ p \in Procs /\ st[p] = "LIVE"
    BY CloneChild DEF At, Live
  <1>3. np \in Procs /\ st[np] = "UNUSED" /\ p # np
    BY <1>1, <1>2 DEF Cloned, Begotten, Unused
  <1>4. sz[p] > 0 /\ pgdir[p] = tg[p] /\ tg[p] \in Procs \ {np}
    BY <1>2, <1>3, Home DEF DirState, Placed
  <1>5. /\ st'[np] = "LIVE" /\ tg'[np] = tg[p] /\ pgdir'[np] = tg[p] /\ sz'[np] = sz[p]
        /\ parent'[np] = p /\ mapped' = mapped
        /\ \A q \in Procs \ {np} : /\ st'[q] = st[q] /\ tg'[q] = tg[q]
                                   /\ parent'[q] = parent[q] /\ pgdir'[q] = pgdir[q]
                                   /\ sz'[q] = sz[q]
    BY <1>1, <1>3, <1>4 DEF Cloned, Begotten, TypeInv, Ranges
  <1>6. \A q \in Procs \ {np} : st[q] # "UNUSED" => tg[q] \in Procs \ {np}
    BY <1>3, Homeless DEF TypeInv, Ranges
  <1>7. Raised'
    <2>1. ASSUME NEW q \in Procs \ {np}, st'[q] # "UNUSED", tg'[q] # q
          PROVE  parent'[q] \in Live' /\ tg'[parent'[q]] = tg'[q]
      <3>1. parent[q] \in Live /\ tg[parent[q]] = tg[q]
        BY <1>5, <2>1 DEF DirState, Raised
      <3>2. parent[q] \in Procs \ {np} /\ st[parent[q]] = "LIVE"
        BY <1>3, <3>1 DEF Live
      <3> QED BY <1>5, <2>1, <3>1, <3>2 DEF Live
    <2>2. parent'[np] \in Live' /\ tg'[parent'[np]] = tg'[np]
      BY <1>2, <1>3, <1>5 DEF Live
    <2> QED BY <2>1, <2>2 DEF Raised
  <1>8. Placed'
    BY <1>4, <1>5 DEF DirState, Placed, Live, Owners
  <1>9. Mapped'
    <2>1. \A d \in Procs : mapped'[d] > 0 <=> d \in Owners'
      BY <1>3, <1>4, <1>5 DEF DirState, Mapped, Owners
    <2>2. \A q \in Procs : st'[q] = "LIVE" => mapped'[tg'[q]] = sz'[tg'[q]]
      BY <1>2, <1>4, <1>5, <1>6 DEF DirState, Mapped, Live
    <2> QED BY <2>1, <2>2 DEF Mapped, Live
  <1> QED BY <1>7, <1>8, <1>9 DEF DirState

LEMMA ExitDirs ==
  ASSUME TypeInv, GroupState, DirState, NEW p \in Procs, Exit(p),
         upset' \cap {"owner"} = {}, upset' \cap {"orphan"} = {}
  PROVE  DirState'
  <1>1. Left(p) /\ p \in Live
    BY ExitParts DEF Left, At
  <1>2. /\ st'[p] = "ZOMBIE" /\ UNCHANGED <<tg, memory>>
        /\ \A q \in Procs \ {p} : st'[q] = st[q]
        /\ \A q \in Procs : parent[q] # p => parent'[q] = parent[q]
    BY <1>1 DEF Left, TypeInv, Ranges
  <1>3. \A q \in Procs : st[q] # "UNUSED" /\ tg[q] = p => q = p
    BY ExitGroup
  <1>4. ~\E q \in Members(tg[p]) : parent[q] = p /\ tg[q] # q
    BY <1>1 DEF Left, Upset, If
  <1>5. Raised'
    <2>1. ASSUME NEW q \in Procs, st'[q] # "UNUSED", tg'[q] # q
          PROVE  parent'[q] \in Live' /\ tg'[parent'[q]] = tg'[q]
      <3>1. st[q] # "UNUSED" /\ tg[q] # q
        BY <1>1, <1>2, <2>1 DEF Live
      <3>2. parent[q] \in Live /\ tg[parent[q]] = tg[q]
        BY <3>1 DEF DirState, Raised
      <3>3. parent[q] # p
        BY <1>4, <3>1, <3>2 DEF Members
      <3> QED BY <1>2, <3>2, <3>3 DEF Live
    <2> QED BY <2>1 DEF Raised
  <1>6. Live' \subseteq Live /\ Owners' = Owners
    BY <1>1, <1>2 DEF Live, Owners
  <1>7. Placed'
    BY <1>2, <1>6 DEF DirState, Placed, memory
  <1>8. Mapped'
    BY <1>2, <1>6 DEF DirState, Mapped, memory
  <1> QED BY <1>5, <1>7, <1>8 DEF DirState

\* wait frees the directory of a child that owns it, and no other: a child of
\* another group is no thread.
LEMMA WaitDirs ==
  ASSUME TypeInv, Grouped, DirState, NEW p \in Procs, NEW q, Waited(p, q)
  PROVE  DirState' /\ panic' = panic
  <1>1. /\ q \in Procs /\ st[q] = "ZOMBIE" /\ parent[q] = p /\ p \in Live /\ st[p] = "LIVE"
        /\ UNCHANGED <<sz>>
    BY DEF Waited, At, Live
  <1>2. /\ st'[q] = "UNUSED" /\ tg'[q] = q
        /\ \A r \in Procs \ {q} : st'[r] = st[r] /\ tg'[r] = tg[r] /\ parent'[r] = parent[r]
    BY <1>1 DEF Waited, TypeInv, Ranges
  <1>3. SamePid(tg[q], tg[p]) <=> tg[q] = tg[p]
    BY <1>1, Home DEF SamePid, Unused
  <1>4. \A r \in Live : r # q /\ tg[r] \in Procs \ {q} /\ pgdir[r] = tg[r]
    BY <1>1, Home DEF DirState, Placed, Live
  <1>5. Raised'
    <2>1. ASSUME NEW r \in Procs, st'[r] # "UNUSED", tg'[r] # r
          PROVE  parent'[r] \in Live' /\ tg'[parent'[r]] = tg'[r]
      <3>1. r # q /\ parent[r] \in Live /\ tg[parent[r]] = tg[r]
        BY <1>2, <2>1 DEF DirState, Raised
      <3>2. parent[r] # q
        BY <1>1, <3>1 DEF Live
      <3> QED BY <1>2, <3>1, <3>2 DEF Live
    <2> QED BY <2>1 DEF Raised
  <1>6. Live' = Live /\ Owners' = Owners \ {q}
    BY <1>1, <1>2 DEF Live, Owners
  <1>7. /\ \A r \in Live : pgdir'[r] = pgdir[r]
        /\ \A r \in Owners \ {q} : pgdir'[r] = r
        /\ \A d \in Procs : mapped'[d] > 0 <=> d \in Owners \ {q}
        /\ \A r \in Live : mapped'[tg[r]] = mapped[tg[r]]
        /\ panic' = panic
    <2>1. CASE tg[q] = tg[p]
      <3>1. tg[q] # q
        BY <1>1, <1>4, <2>1
      <3>2. q \notin Owners
        BY <3>1 DEF Owners
      <3>3. UNCHANGED <<pgdir, mapped, panic>>
        BY <1>3, <2>1 DEF Waited
      <3> QED BY <3>2, <3>3 DEF DirState, Placed, Mapped
    <2>2. CASE tg[q] # tg[p]
      <3>1. tg[q] = q
        BY <1>1, <2>2 DEF DirState, Raised
      <3>2. q \in Owners /\ pgdir[q] = q
        BY <1>1, <3>1 DEF Owners, DirState, Placed
      <3>3. Freevm(q)
        BY <1>3, <2>2 DEF Waited
      <3>4. /\ \A r \in Procs : pgdir[r] # q => pgdir'[r] = pgdir[r]
            /\ mapped' = [d \in Procs |-> IF d = q THEN 0 ELSE mapped[d]]
        BY <3>2, <3>3 DEF Freevm, Holders
      <3>5. panic' = panic
        BY <1>1, <3>2, <3>3, Constants DEF Freevm, Check
      <3>6. \A r \in Live : pgdir'[r] = pgdir[r]
        BY <1>4, <3>4 DEF Live
      <3>7. \A r \in Owners \ {q} : pgdir'[r] = r
        BY <3>4 DEF DirState, Placed, Owners
      <3>8. \A d \in Procs : mapped'[d] > 0 <=> d \in Owners \ {q}
        BY <3>4 DEF DirState, Mapped
      <3>9. \A r \in Live : mapped'[tg[r]] = mapped[tg[r]]
        BY <1>4, <3>4
      <3> QED BY <3>5, <3>6, <3>7, <3>8, <3>9
    <2> QED BY <2>1, <2>2
  <1>8. \A r \in Live : tg'[r] = tg[r]
    BY <1>2, <1>4 DEF Live
  <1>9. Placed'
    <2>1. \A r \in Live : pgdir'[r] = tg'[r] /\ sz'[r] > 0
      BY <1>1, <1>7, <1>8 DEF DirState, Placed
    <2> QED BY <1>6, <1>7, <2>1 DEF Placed
  <1>10. Mapped'
    BY <1>1, <1>6, <1>7, <1>8 DEF DirState, Mapped
  <1> QED BY <1>5, <1>7, <1>9, <1>10 DEF DirState

LEMMA DirInit == Init => DirInv
  BY Constants DEF Init, DirInv, DirState, Raised, Placed, Mapped, Live, Owners

LEMMA DirNext == TypeInv /\ GroupInv /\ DirInv /\ [Next]_vars => DirInv'
  <1>1. ASSUME TypeInv, GroupInv, DirInv, NEW p \in Procs, Step(p),
               Spared({"exec", "owner", "orphan"})'
        PROVE  DirState'
    <2>1. /\ GroupState /\ Grouped /\ DirState /\ upset' \cap {"exec"} = {}
          /\ upset' \cap {"owner"} = {} /\ upset' \cap {"orphan"} = {}
      BY <1>1, UpsetGrows DEF GroupInv, GroupState, DirInv, Spared
    <2> QED BY <1>1, <2>1, Steps, WaitChild, CallsDirs, GrowprocDirs, ExecDirs,
            ForkDirs, CloneDirs, ExitDirs, WaitDirs
  <1>2. ASSUME DirInv, UNCHANGED vars PROVE DirInv'
    BY <1>2 DEF vars, slots, memory, DirInv, Spared, DirState, Raised, Placed, Mapped,
       Live, Owners
  <1> QED BY <1>1, <1>2 DEF Next, DirInv

-----------------------------------------------------------------------------
(* The references of files and folders.                                    *)

Starts == {"use", "close", "dup", "open", "chdir"}
Opening == {"open", "opento", "closed"}
Moving == {"chdir", "chdired"}

\* Of two members inside calls one only uses a file, the other has begun.
Alone ==
  \A p, q \in Procs :
    p # q /\ tg[p] = tg[q] /\ call[p].op # "idle" /\ call[q].op # "idle" =>
      \/ call[p].op = "use" /\ call[q].op \in Starts
      \/ call[q].op = "use" /\ call[p].op \in Starts

\* What the table s of the group has of the file of a call c.
HoldsIn(c, s) ==
  /\ c.op = "close" => s[c.fd] = c.at
  /\ c.op \in {"use", "dup", "dupto", "opened"} => \E fd \in Fds : s[fd] = c.at
  /\ c.op \in {"opento", "dupto"} => s[c.fd] = None
  /\ c.op = "duped" => \E a, b \in Fds : a # b /\ s[a] = c.at /\ s[b] = c.at

Held == \A p \in Procs : HoldsIn(call[p], ofile[tg[p]])

\* A file being opened is nobody else's until it is in the table, and then
\* only the group's.
Fresh ==
  \A p \in Procs :
    /\ call[p].op \in {"open", "opento"} =>
         /\ \A t \in Owners, fd \in Fds : ofile[t][fd] # call[p].at
         /\ \A q \in Procs : call[q].op \in Opening /\ call[q].at = call[p].at => q = p
    /\ call[p].op = "opened" =>
         \A t \in Owners, fd \in Fds : ofile[t][fd] = call[p].at => t = tg[p]

\* A file in a table is open, or about to be.
Typed ==
  \A t \in Owners, fd \in Fds :
    ofile[t][fd] # None =>
      \/ type[ofile[t][fd]] = "inode"
      \/ \E p \in Procs : call[p].op = "opened" /\ call[p].at = ofile[t][fd]

\* The counts of RefsExact.
InCall(ops, x) == {p \in Procs : call[p].op \in ops /\ call[p].at = x}
Entries(f) == {x \in Owners \X Fds : ofile[x[1]][x[2]] = f}
Putting(i) == {p \in Procs : call[p].op = "chdired" /\ cwd[tg[p]] = i}
Residents(i) == {p \in Owners : cwd[p] = i}
FilesExact ==
  \A f \in Files :
    ref[f] + Cardinality(InCall({"duped"}, f))
    = Cardinality(Entries(f)) + Cardinality(InCall(Opening, f))
FoldersExact ==
  \A i \in Folders :
    uses[i] + Cardinality(Putting(i))
    = Cardinality(Residents(i)) + Cardinality(InCall(Moving, i))

RefState == Alone /\ Held /\ Fresh /\ Typed /\ FilesExact /\ FoldersExact
RefInv == Spared({"race", "stale", "leftover", "exec", "owner"}) => RefState

LEMMA Idles == ASSUME TypeInv, NEW p \in Procs, st[p] # "LIVE" PROVE call[p].op = "idle"
  BY DEF TypeInv, CallsHere, CallsOK

LEMMA RefsExactHolds == TypeInv /\ RefInv => RefsExact
  <1> SUFFICES ASSUME TypeInv, RefState
               PROVE  /\ \A f \in Files :
                           ref[f] + Calling({"duped"}, f)
                           = Count({x \in Owners \X Fds : ofile[x[1]][x[2]] = f})
                             + Calling({"open", "opento", "closed"}, f)
                      /\ \A i \in Folders :
                           uses[i] + Count({p \in Live : call[p].op = "chdired" /\ cwd[tg[p]] = i})
                           = Count({p \in Owners : cwd[p] = i}) + Calling({"chdir", "chdired"}, i)
      BY DEF RefInv, RefsExact
  <1>1. \A p \in Procs : call[p].op # "idle" => p \in Live
    BY Idles DEF Live
  <1>2. Live \subseteq Procs
    BY DEF Live
  <1>3. ASSUME NEW x
        PROVE  /\ Calling({"duped"}, x) = Cardinality(InCall({"duped"}, x))
               /\ Calling({"open", "opento", "closed"}, x) = Cardinality(InCall(Opening, x))
               /\ Calling({"chdir", "chdired"}, x) = Cardinality(InCall(Moving, x))
               /\ {p \in Live : call[p].op = "chdired" /\ cwd[tg[p]] = x} = Putting(x)
    <2>1. {p \in Live : call[p].op \in {"duped"} /\ call[p].at = x} = InCall({"duped"}, x)
      BY <1>1, <1>2 DEF InCall
    <2>2. {p \in Live : call[p].op \in Opening /\ call[p].at = x} = InCall(Opening, x)
      BY <1>1, <1>2 DEF InCall, Opening
    <2>3. {p \in Live : call[p].op \in Moving /\ call[p].at = x} = InCall(Moving, x)
      BY <1>1, <1>2 DEF InCall, Moving
    <2>4. {p \in Live : call[p].op = "chdired" /\ cwd[tg[p]] = x} = Putting(x)
      BY <1>1, <1>2 DEF Putting
    <2> QED BY <2>1, <2>2, <2>3, <2>4 DEF Calling, Count, Opening, Moving
  <1> QED BY <1>3 DEF RefState, FilesExact, FoldersExact, Count, Entries, Residents

-----------------------------------------------------------------------------
(* Counting: more entries than duplicates, and what a step adds or takes.  *)

\* Each of D has two entries at home, and no two the same home.
LEMMA Surplus ==
  ASSUME NEW D, NEW E, IsFiniteSet(D), IsFiniteSet(E), NEW home,
         \A p \in D : \E a, b : a # b /\ <<home[p], a>> \in E /\ <<home[p], b>> \in E,
         \A p, q \in D : home[p] = home[q] => p = q
  PROVE  Cardinality(D) <= Cardinality(E) /\ (E # {} => Cardinality(D) < Cardinality(E))
  <1>1. Cardinality(D) \in Nat /\ Cardinality(E) \in Nat
    BY FS_CardinalityType
  <1>2. CASE E = {}
    <2>1. D = {}
      BY <1>2
    <2> QED BY <1>2, <2>1, FS_EmptySet
  <1>3. CASE E # {}
    <2>1. PICK x \in E : TRUE
      BY <1>3
    <2>2. IsFiniteSet(E \ {x}) /\ Cardinality(E \ {x}) = Cardinality(E) - 1
      BY <2>1, FS_RemoveElement
    <2> DEFINE h == [p \in D |-> <<home[p], CHOOSE a : <<home[p], a>> \in E \ {x}>>]
    <2>3. ASSUME NEW p \in D
          PROVE  h[p] \in E \ {x} /\ h[p][1] = home[p]
      <3>1. \E a : <<home[p], a>> \in E \ {x}
        <4>1. PICK a, b : a # b /\ <<home[p], a>> \in E /\ <<home[p], b>> \in E
          OBVIOUS
        <4>2. <<home[p], a>> # <<home[p], b>>
          BY <4>1
        <4> QED BY <4>1, <4>2
      <3> QED BY <3>1
    <2>4. h \in [D -> E \ {x}]
      BY <2>3
    <2>5. \A p, q \in D : h[p] = h[q] => p = q
      BY <2>3
    <2> HIDE DEF h
    <2>6. h \in Injection(D, E \ {x})
      BY <2>4, <2>5, Fun_IsInj
    <2>7. Cardinality(D) <= Cardinality(E \ {x})
      BY <2>2, <2>6, FS_Injection
    <2> QED BY <1>1, <2>2, <2>7
  <1> QED BY <1>2, <1>3

LEMMA Finite ==
  /\ \A ops, x : IsFiniteSet(InCall(ops, x)) /\ Cardinality(InCall(ops, x)) \in Nat
  /\ \A f : IsFiniteSet(Entries(f)) /\ Cardinality(Entries(f)) \in Nat
  /\ \A i : IsFiniteSet(Putting(i)) /\ Cardinality(Putting(i)) \in Nat
  /\ \A i : IsFiniteSet(Residents(i)) /\ Cardinality(Residents(i)) \in Nat
  <1>1. ASSUME NEW S, S \subseteq Procs PROVE IsFiniteSet(S) /\ Cardinality(S) \in Nat
    <2>1. IsFiniteSet(S)
      BY <1>1, Constants, FS_Subset
    <2> QED BY <2>1, FS_CardinalityType
  <1>2. ASSUME NEW f PROVE IsFiniteSet(Entries(f)) /\ Cardinality(Entries(f)) \in Nat
    <2>1. IsFiniteSet(Procs \X Fds)
      BY Constants, FS_Product
    <2>2. Entries(f) \in SUBSET (Procs \X Fds)
      BY DEF Entries, Owners
    <2>3. IsFiniteSet(Entries(f))
      BY <2>1, <2>2, FS_Subset
    <2> QED BY <2>3, FS_CardinalityType
  <1>3. \A ops, x : InCall(ops, x) \subseteq Procs
    BY DEF InCall
  <1>4. \A i : Putting(i) \subseteq Procs
    BY DEF Putting
  <1>5. \A i : Residents(i) \subseteq Procs
    BY DEF Residents, Owners
  <1> QED BY <1>1, <1>2, <1>3, <1>4, <1>5

LEMMA Swap ==
  ASSUME NEW S, IsFiniteSet(S), NEW x, NEW T, T = (S \ {x}) \/ T = S \cup {x}
  PROVE  /\ IsFiniteSet(T) /\ Cardinality(T) \in Nat /\ Cardinality(S) \in Nat
         /\ T = S \ {x} /\ x \in S => Cardinality(T) = Cardinality(S) - 1
         /\ T = S \cup {x} /\ x \notin S => Cardinality(T) = Cardinality(S) + 1
  BY FS_AddElement, FS_RemoveElement, FS_CardinalityType

\* Whether a call is counted: 1 or 0.
Hit(c, ops, x) == IF c.op \in ops /\ c.at = x THEN 1 ELSE 0
Is(a, b) == IF a = b THEN 1 ELSE 0

LEMMA MoveCount ==
  ASSUME NEW p \in Procs, NEW c, call'[p] = c, \A q \in Procs \ {p} : call'[q] = call[q],
         NEW ops, NEW x
  PROVE  /\ Cardinality(InCall(ops, x)) \in Nat
         /\ Cardinality(InCall(ops, x)')
            = Cardinality(InCall(ops, x)) - Hit(call[p], ops, x) + Hit(c, ops, x)
  <1>1. call'[p] = c /\ \A q \in Procs \ {p} : call'[q] = call[q]
    OBVIOUS
  <1>2. IsFiniteSet(InCall(ops, x)) /\ Cardinality(InCall(ops, x)) \in Nat
    BY Finite
  <1> DEFINE old == call[p].op \in ops /\ call[p].at = x
             new == c.op \in ops /\ c.at = x
  <1>3. CASE old /\ new
    <2>1. InCall(ops, x)' = InCall(ops, x)
      BY <1>1, <1>3 DEF InCall
    <2> QED BY <1>2, <1>3, <2>1 DEF Hit
  <1>4. CASE old /\ ~new
    <2>1. InCall(ops, x)' = InCall(ops, x) \ {p} /\ p \in InCall(ops, x)
      BY <1>1, <1>4 DEF InCall
    <2> QED BY <1>2, <1>4, <2>1, Swap DEF Hit
  <1>5. CASE ~old /\ new
    <2>1. InCall(ops, x)' = InCall(ops, x) \cup {p} /\ p \notin InCall(ops, x)
      BY <1>1, <1>5 DEF InCall
    <2> QED BY <1>2, <1>5, <2>1, Swap DEF Hit
  <1>6. CASE ~old /\ ~new
    <2>1. InCall(ops, x)' = InCall(ops, x)
      BY <1>1, <1>6 DEF InCall
    <2> QED BY <1>2, <1>6, <2>1 DEF Hit
  <1> QED BY <1>3, <1>4, <1>5, <1>6

\* A descriptor of a table, and no other, is now y.
Stored(t, fd, y) ==
  /\ ofile'[t][fd] = y
  /\ \A u \in Procs \ {t} : ofile'[u] = ofile[u]
  /\ \A a \in Fds \ {fd} : ofile'[t][a] = ofile[t][a]

LEMMA StoredIs ==
  ASSUME TypeInv, NEW t \in Procs, NEW fd \in Fds, NEW y,
         ofile' = [ofile EXCEPT ![t][fd] = y]
  PROVE  Stored(t, fd, y)
  BY DEF Stored, TypeInv, Ranges

LEMMA EntryCount ==
  ASSUME TypeInv, NEW t \in Owners, NEW fd \in Fds, NEW y, NEW f, st' = st, tg' = tg,
         Stored(t, fd, y)
  PROVE  /\ Cardinality(Entries(f)) \in Nat
         /\ Cardinality(Entries(f)') = Cardinality(Entries(f)) - Is(ofile[t][fd], f) + Is(y, f)
  <1>1. /\ ofile'[t][fd] = y
        /\ \A u \in Owners, a \in Fds : <<u, a>> # <<t, fd>> => ofile'[u][a] = ofile[u][a]
    BY DEF Stored, Owners
  <1>2. Owners' = Owners
    BY DEF Owners
  <1>3. IsFiniteSet(Entries(f)) /\ Cardinality(Entries(f)) \in Nat
    BY Finite
  <1> DEFINE x == <<t, fd>>
  <1>4. /\ x \in Owners \X Fds
        /\ (x \in Entries(f)) <=> ofile[t][fd] = f
        /\ (x \in Entries(f)') <=> y = f
        /\ \A z : z # x => (z \in Entries(f)' <=> z \in Entries(f))
    BY <1>1, <1>2 DEF Entries
  <1> HIDE DEF x
  <1>5. CASE ofile[t][fd] = f /\ y # f
    <2>1. Entries(f)' = Entries(f) \ {x}
      BY <1>4, <1>5
    <2> QED BY <1>3, <1>4, <1>5, <2>1, Swap DEF Is
  <1>6. CASE ofile[t][fd] # f /\ y = f
    <2>1. Entries(f)' = Entries(f) \cup {x}
      BY <1>4, <1>6
    <2> QED BY <1>3, <1>4, <1>6, <2>1, Swap DEF Is
  <1>7. CASE (ofile[t][fd] = f) <=> (y = f)
    <2>1. Entries(f)' = Entries(f)
      BY <1>4, <1>7
    <2> QED BY <1>3, <1>7, <2>1 DEF Is
  <1> QED BY <1>5, <1>6, <1>7

LEMMA Balance ==
  ASSUME TypeInv, FilesExact, NEW p \in Procs, NEW c, call' = [call EXCEPT ![p] = c],
         \A f \in Files :
           ref'[f] - ref[f] + Hit(c, {"duped"}, f) - Hit(call[p], {"duped"}, f)
           = Cardinality(Entries(f)') - Cardinality(Entries(f))
             + Hit(c, Opening, f) - Hit(call[p], Opening, f),
         \A f \in Files : ref'[f] \in Nat /\ Cardinality(Entries(f)') \in Nat
  PROVE  FilesExact'
  <1> SUFFICES ASSUME NEW f \in Files
               PROVE  ref'[f] + Cardinality(InCall({"duped"}, f)')
                      = Cardinality(Entries(f)') + Cardinality(InCall(Opening, f)')
      BY DEF FilesExact, Opening
  <1>1. call'[p] = c /\ \A q \in Procs \ {p} : call'[q] = call[q]
    BY DEF TypeInv, CallsHere
  <1>2. /\ Cardinality(InCall({"duped"}, f)) \in Nat
        /\ Cardinality(InCall({"duped"}, f)')
           = Cardinality(InCall({"duped"}, f)) - Hit(call[p], {"duped"}, f) + Hit(c, {"duped"}, f)
    BY <1>1, MoveCount
  <1>3. /\ Cardinality(InCall(Opening, f)) \in Nat
        /\ Cardinality(InCall(Opening, f)')
           = Cardinality(InCall(Opening, f)) - Hit(call[p], Opening, f) + Hit(c, Opening, f)
    BY <1>1, MoveCount DEF Opening
  <1>4. \A ops : Hit(c, ops, f) \in 0 .. 1 /\ Hit(call[p], ops, f) \in 0 .. 1
    BY DEF Hit
  <1>5. ref[f] \in Nat /\ Cardinality(Entries(f)) \in Nat
    BY Finite DEF TypeInv, Ranges
  <1> QED BY <1>2, <1>3, <1>4, <1>5 DEF FilesExact

\* A duplicate not counted yet has two entries, and is its group's only one.
LEMMA Spread ==
  ASSUME TypeInv, Grouped, Alone, Held, NEW f
  PROVE  /\ \A p \in InCall({"duped"}, f) :
              /\ tg[p] \in Owners
              /\ \E a, b \in Fds : a # b /\ ofile[tg[p]][a] = f /\ ofile[tg[p]][b] = f
         /\ \A p, q \in InCall({"duped"}, f) : tg[p] = tg[q] => p = q
  <1>1. ASSUME NEW p \in InCall({"duped"}, f)
        PROVE  /\ tg[p] \in Owners
               /\ \E a, b \in Fds : a # b /\ ofile[tg[p]][a] = f /\ ofile[tg[p]][b] = f
    <2>1. p \in Procs /\ call[p].op = "duped" /\ call[p].at = f
      BY DEF InCall
    <2>2. p \in Live
      BY <2>1, Idles DEF Live
    <2> QED BY <2>1, <2>2, Home DEF Held, HoldsIn
  <1>2. ASSUME NEW p \in InCall({"duped"}, f), NEW q \in InCall({"duped"}, f), tg[p] = tg[q]
        PROVE  p = q
    BY <1>2 DEF InCall, Alone
  <1> QED BY <1>1, <1>2

\* An entry, or an open or close under way, has a reference of its own.
LEMMA Referenced ==
  ASSUME TypeInv, Grouped, RefState, NEW f \in Files
  PROVE  /\ ref[f] \in Nat
         /\ \A t \in Owners, fd \in Fds : ofile[t][fd] = f => ref[f] > 0
         /\ \A q \in Procs : call[q].op \in Opening /\ call[q].at = f => ref[f] > 0
         /\ \A t \in Owners, fd \in Fds, q \in Procs :
              ofile[t][fd] = f /\ call[q].op \in Opening /\ call[q].at = f => ref[f] > 1
  <1> DEFINE D == InCall({"duped"}, f)
             E == Entries(f)
             C == InCall(Opening, f)
  <1>1. IsFiniteSet(D) /\ IsFiniteSet(E) /\ IsFiniteSet(C)
    BY Finite
  <1>2. /\ \A p \in D : tg[p] \in Owners
                        /\ \E a, b \in Fds : a # b /\ ofile[tg[p]][a] = f /\ ofile[tg[p]][b] = f
        /\ \A p, q \in D : tg[p] = tg[q] => p = q
    BY Spread DEF RefState
  <1>3. \A p \in D : \E a, b : a # b /\ <<tg[p], a>> \in E /\ <<tg[p], b>> \in E
    <2> TAKE p \in D
    <2>1. PICK a \in Fds, b \in Fds : a # b /\ ofile[tg[p]][a] = f /\ ofile[tg[p]][b] = f
      BY <1>2
    <2>2. <<tg[p], a>> \in E /\ <<tg[p], b>> \in E
      BY <1>2, <2>1 DEF Entries
    <2> QED BY <2>1, <2>2
  <1>4. ref[f] + Cardinality(D) = Cardinality(E) + Cardinality(C) /\ ref[f] \in Nat
    BY DEF RefState, FilesExact, TypeInv, Ranges
  <1>5. \A t \in Owners, fd \in Fds : ofile[t][fd] = f => <<t, fd>> \in E
    BY DEF Entries
  <1>6. \A q \in Procs : call[q].op \in Opening /\ call[q].at = f => q \in C
    BY DEF InCall
  <1> HIDE DEF D, E, C
  <1>7. Cardinality(D) <= Cardinality(E) /\ (E # {} => Cardinality(D) < Cardinality(E))
    BY <1>1, <1>2, <1>3, Surplus
  <1>8. /\ Cardinality(D) \in Nat /\ Cardinality(E) \in Nat /\ Cardinality(C) \in Nat
        /\ C # {} => Cardinality(C) > 0
    BY <1>1, FS_CardinalityType, FS_EmptySet
  <1>9. (E # {} => ref[f] > 0) /\ (C # {} => ref[f] > 0) /\ (E # {} /\ C # {} => ref[f] > 1)
    BY <1>4, <1>7, <1>8
  <1> QED BY <1>4, <1>5, <1>6, <1>9

\* A step inside a call is no race: the others of the group are outside of
\* theirs, or use files as the caller does.
LEMMA Quiet ==
  ASSUME TypeInv, NEW p \in Live, ~Raced(p), NEW q \in Procs, q # p, tg[q] = tg[p]
  PROVE  /\ call[q].op \in {"idle", "use"}
         /\ call[p].op \notin {"idle", "use"} => call[q].op = "idle"
  BY Idles DEF Raced, Members, Live

LEMMA Unraced ==
  ASSUME NEW p, upset' \cap {"race"} = {}, Upset(If(Raced(p), "race"))
  PROVE  ~Raced(p) /\ upset' = upset
  BY DEF Upset, If

LEMMA Gone ==
  ASSUME NEW p, NEW op, NEW fd, NEW x, Goto(p, op, fd, x)
  PROVE  \E c : call' = [call EXCEPT ![p] = c] /\ c.op = op /\ c.fd = fd /\ c.at = x
  <1> DEFINE c == [op |-> op, fd |-> fd, at |-> x]
  <1>1. c.op = op /\ c.fd = fd /\ c.at = x
    OBVIOUS
  <1>2. call' = [call EXCEPT ![p] = c]
    BY DEF Goto
  <1> HIDE DEF c
  <1> QED BY <1>1, <1>2

LEMMA Returned ==
  ASSUME NEW p, Return(p)
  PROVE  \E c : call' = [call EXCEPT ![p] = c] /\ c.op = "idle"
  <1>1. Idle.op = "idle"
    BY DEF Idle
  <1> HIDE DEF Idle
  <1> QED BY <1>1 DEF Return

LEMMA AloneStep ==
  ASSUME TypeInv, Alone, NEW p \in Live, ~Raced(p), tg' = tg,
         NEW c, call' = [call EXCEPT ![p] = c],
         \/ c.op = "idle"
         \/ call[p].op = "idle" /\ c.op \in Starts
         \/ call[p].op \notin {"idle", "use"}
  PROVE  Alone'
  <1>1. p \in Procs /\ call'[p] = c /\ \A q \in Procs \ {p} : call'[q] = call[q]
    BY DEF TypeInv, CallsHere, Live
  <1>2. ASSUME NEW q \in Procs \ {p}, tg[q] = tg[p], c.op # "idle", call[q].op # "idle"
        PROVE  call[q].op = "use" /\ c.op \in Starts
    BY <1>2, Quiet
  <1> QED BY <1>1, <1>2 DEF Alone

LEMMA HeldStep ==
  ASSUME TypeInv, Held, NEW p \in Procs, tg' = tg, NEW c, call' = [call EXCEPT ![p] = c],
         HoldsIn(c, ofile'[tg[p]]),
         \A q \in Procs \ {p} : call[q].op = "idle" \/ ofile'[tg[q]] = ofile[tg[q]]
  PROVE  Held'
  <1>1. call'[p] = c /\ \A q \in Procs \ {p} : call'[q] = call[q]
    BY DEF TypeInv, CallsHere
  <1>2. ASSUME NEW q \in Procs \ {p} PROVE HoldsIn(call[q], ofile'[tg[q]])
    <2>1. CASE call[q].op = "idle"
      BY <2>1 DEF HoldsIn
    <2>2. CASE ofile'[tg[q]] = ofile[tg[q]]
      BY <2>2 DEF Held
    <2> QED BY <2>1, <2>2
  <1> QED BY <1>1, <1>2 DEF Held

\* The steps on descriptors let the folders be.
LEMMA FoldersSame ==
  ASSUME TypeInv, FoldersExact, NEW p \in Procs, NEW c, call' = [call EXCEPT ![p] = c],
         UNCHANGED <<slots, cwd, uses>>,
         c.op \notin Moving, call[p].op \notin Moving
  PROVE  FoldersExact'
  <1> SUFFICES ASSUME NEW i \in Folders
               PROVE  uses'[i] + Cardinality(Putting(i)')
                      = Cardinality(Residents(i)') + Cardinality(InCall(Moving, i)')
      BY DEF FoldersExact, Moving
  <1>1. call'[p] = c /\ \A q \in Procs \ {p} : call'[q] = call[q]
    BY DEF TypeInv, CallsHere
  <1>2. Putting(i)' = Putting(i)
    BY <1>1 DEF Putting, slots, Moving
  <1>3. Residents(i)' = Residents(i)
    BY DEF Residents, Owners, slots
  <1>4. InCall(Moving, i)' = InCall(Moving, i)
    BY <1>1 DEF InCall, Moving
  <1> QED BY <1>2, <1>3, <1>4 DEF FoldersExact

\* A step that changes neither the tables nor the group of an open file.
LEMMA FreshStep ==
  ASSUME TypeInv, Fresh, NEW p \in Procs, NEW c, call' = [call EXCEPT ![p] = c],
         UNCHANGED <<slots, ofile>>,
         c.op \notin {"open", "opento"} \/ (call[p].op \in {"open", "opento"} /\ c.at = call[p].at),
         c.op # "opened",
         c.op \in Opening => \A q \in Procs : call[q].op \in {"open", "opento"}
                                              /\ call[q].at = c.at => q = p
  PROVE  Fresh'
  <1>1. call'[p] = c /\ \A q \in Procs \ {p} : call'[q] = call[q]
    BY DEF TypeInv, CallsHere
  <1>2. Owners' = Owners /\ tg' = tg
    BY DEF Owners, slots
  <1>3. ASSUME NEW q \in Procs, call'[q].op \in {"open", "opento"}
        PROVE  /\ \A t \in Owners, fd \in Fds : ofile[t][fd] # call'[q].at
               /\ \A r \in Procs : call'[r].op \in Opening /\ call'[r].at = call'[q].at => r = q
    <2>1. call[q].op \in {"open", "opento"} /\ call'[q].at = call[q].at
      BY <1>1, <1>3
    <2>2. \A r \in Procs \ {p} : call'[r].op \in Opening /\ call'[r].at = call[q].at => r = q
      BY <1>1, <2>1 DEF Fresh
    <2>3. c.op \in Opening /\ c.at = call[q].at => p = q
      BY <2>1
    <2> QED BY <1>1, <2>1, <2>2, <2>3 DEF Fresh
  <1>4. ASSUME NEW q \in Procs, call'[q].op = "opened"
        PROVE  \A t \in Owners, fd \in Fds : ofile[t][fd] = call'[q].at => t = tg[q]
    BY <1>1, <1>4 DEF Fresh
  <1> QED BY <1>2, <1>3, <1>4 DEF Fresh, Opening

LEMMA TypedStep ==
  ASSUME TypeInv, Typed, NEW p \in Procs, NEW c, call' = [call EXCEPT ![p] = c],
         UNCHANGED <<slots, ofile>>,
         \A t \in Owners, fd \in Fds : ofile[t][fd] # None =>
            \/ type'[ofile[t][fd]] = type[ofile[t][fd]]
            \/ type'[ofile[t][fd]] = "inode",
         call[p].op = "opened" => type'[call[p].at] = "inode"
  PROVE  Typed'
  <1>1. call'[p] = c /\ \A q \in Procs \ {p} : call'[q] = call[q]
    BY DEF TypeInv, CallsHere
  <1>2. Owners' = Owners
    BY DEF Owners, slots
  <1>3. ASSUME NEW t \in Owners, NEW fd \in Fds, ofile[t][fd] # None
        PROVE  \/ type'[ofile[t][fd]] = "inode"
               \/ \E q \in Procs : call'[q].op = "opened" /\ call'[q].at = ofile[t][fd]
    <2>1. CASE type[ofile[t][fd]] = "inode"
      BY <1>3, <2>1
    <2>2. CASE \E q \in Procs : call[q].op = "opened" /\ call[q].at = ofile[t][fd]
      BY <1>1, <2>2
    <2> QED BY <1>3, <2>1, <2>2 DEF Typed
  <1> QED BY <1>2, <1>3 DEF Typed

-----------------------------------------------------------------------------
(* The steps of the calls, which are no races.                             *)

LEMMA FilesStep ==
  ASSUME TypeInv, FilesExact, NEW p \in Procs, NEW c, call' = [call EXCEPT ![p] = c],
         UNCHANGED <<slots, ofile>>, ref' \in [Files -> Nat],
         \A f \in Files :
           ref'[f] - ref[f] + Hit(c, {"duped"}, f) - Hit(call[p], {"duped"}, f)
           = Hit(c, Opening, f) - Hit(call[p], Opening, f)
  PROVE  FilesExact'
  <1>1. \A f : Entries(f)' = Entries(f)
    BY DEF Entries, Owners, slots
  <1>2. \A f \in Files : Cardinality(Entries(f)') \in Nat
    BY <1>1, Finite
  <1>3. \A f \in Files :
           ref'[f] - ref[f] + Hit(c, {"duped"}, f) - Hit(call[p], {"duped"}, f)
           = Cardinality(Entries(f)') - Cardinality(Entries(f))
             + Hit(c, Opening, f) - Hit(call[p], Opening, f)
    <2> TAKE f \in Files
    <2>1. Cardinality(Entries(f)') = Cardinality(Entries(f)) /\ Cardinality(Entries(f)) \in Nat
      BY <1>1, Finite
    <2>2. Hit(c, Opening, f) \in Int /\ Hit(call[p], Opening, f) \in Int
      BY DEF Hit
    <2> QED BY <2>1, <2>2
  <1> QED BY <1>2, <1>3, Balance

LEMMA CallRef ==
  ASSUME TypeInv, RefState, NEW p \in Live, ~Raced(p),
         NEW c, call' = [call EXCEPT ![p] = c],
         UNCHANGED <<slots, ofile, cwd, uses>>, ref' \in [Files -> Nat],
         \/ c.op = "idle"
         \/ call[p].op = "idle" /\ c.op \in Starts
         \/ call[p].op \notin {"idle", "use"},
         HoldsIn(c, ofile[tg[p]]),
         c.op \notin Moving, call[p].op \notin Moving,
         \A t \in Owners, fd \in Fds : ofile[t][fd] # None =>
            \/ type'[ofile[t][fd]] = type[ofile[t][fd]]
            \/ type'[ofile[t][fd]] = "inode",
         call[p].op = "opened" => type'[call[p].at] = "inode",
         \A f \in Files :
           ref'[f] - ref[f] + Hit(c, {"duped"}, f) - Hit(call[p], {"duped"}, f)
           = Hit(c, Opening, f) - Hit(call[p], Opening, f),
         Fresh'
  PROVE  RefState'
  <1>1. p \in Procs /\ tg' = tg /\ ofile' = ofile
    BY DEF Live, slots
  <1>2. Alone'
    BY <1>1, AloneStep DEF RefState
  <1>3. Held'
    BY <1>1, HeldStep DEF RefState
  <1>4. Typed'
    BY <1>1, TypedStep DEF RefState
  <1>5. FilesExact'
    BY <1>1, FilesStep DEF RefState
  <1>6. FoldersExact'
    BY <1>1, FoldersSame DEF RefState
  <1> QED BY <1>2, <1>3, <1>4, <1>5, <1>6 DEF RefState

LEMMA ArgfdRef ==
  ASSUME TypeInv, GroupState, RefState, NEW p \in Procs,
         NEW op \in {"close", "dup", "use"}, Argfd(p, op), upset' \cap {"race"} = {}
  PROVE  RefState'
  <1>1. /\ p \in Live /\ call[p].op = "idle" /\ ~Raced(p)
        /\ UNCHANGED <<slots, ofile, cwd, ref, type, uses>>
    BY Unraced DEF Argfd, Begin, At
  <1>2. PICK fd \in Fds : Goto(p, op, fd, ofile[tg[p]][fd])
    BY DEF Argfd
  <1>3. PICK c : call' = [call EXCEPT ![p] = c] /\ c.op = op /\ c.fd = fd /\ c.at = ofile[tg[p]][fd]
    BY <1>2, Gone
  <1>4. HoldsIn(c, ofile[tg[p]])
    BY <1>3 DEF HoldsIn
  <1>5. Fresh'
    BY <1>1, <1>3, FreshStep DEF RefState, Opening
  <1>6. \A f \in Files : /\ Hit(c, {"duped"}, f) = 0 /\ Hit(call[p], {"duped"}, f) = 0
                         /\ Hit(c, Opening, f) = 0 /\ Hit(call[p], Opening, f) = 0
    BY <1>1, <1>3 DEF Hit, Opening
  <1>7. ref' \in [Files -> Nat] /\ \A f \in Files : ref'[f] - ref[f] = 0
    BY <1>1 DEF TypeInv, Ranges
  <1>8. c.op \in Starts /\ c.op \notin Moving /\ call[p].op \notin Moving
    BY <1>1, <1>3 DEF Starts, Moving
  <1>9. \A f \in Files :
           ref'[f] - ref[f] + Hit(c, {"duped"}, f) - Hit(call[p], {"duped"}, f)
           = Hit(c, Opening, f) - Hit(call[p], Opening, f)
    BY <1>6, <1>7
  <1> QED BY <1>1, <1>3, <1>4, <1>5, <1>7, <1>8, <1>9, CallRef

LEMMA UseDoneRef ==
  ASSUME TypeInv, GroupState, RefState, NEW p \in Procs, UseDone(p), upset' \cap {"race"} = {}
  PROVE  RefState' /\ panic' = panic
  <1>1. /\ p \in Live /\ call[p].op = "use" /\ ~Raced(p)
        /\ UNCHANGED <<slots, ofile, cwd, ref, type, uses>>
    BY Unraced DEF UseDone, At
  <1>2. PICK c : call' = [call EXCEPT ![p] = c] /\ c.op = "idle"
    BY Returned DEF UseDone
  <1>3. Fresh'
    BY <1>1, <1>2, FreshStep DEF RefState, Opening
  <1>4. HoldsIn(c, ofile[tg[p]])
    BY <1>2 DEF HoldsIn
  <1>5. \A f \in Files : /\ Hit(c, {"duped"}, f) = 0 /\ Hit(call[p], {"duped"}, f) = 0
                         /\ Hit(c, Opening, f) = 0 /\ Hit(call[p], Opening, f) = 0
    BY <1>1, <1>2 DEF Hit, Opening
  <1>6. ref' \in [Files -> Nat] /\ \A f \in Files : ref'[f] - ref[f] = 0
    BY <1>1 DEF TypeInv, Ranges
  <1>7. RefState'
    <2>1. c.op \notin Moving /\ call[p].op \notin Moving
      BY <1>1, <1>2 DEF Moving
    <2>2. \A f \in Files :
           ref'[f] - ref[f] + Hit(c, {"duped"}, f) - Hit(call[p], {"duped"}, f)
           = Hit(c, Opening, f) - Hit(call[p], Opening, f)
      BY <1>5, <1>6
    <2> QED BY <1>1, <1>2, <1>3, <1>4, <1>6, <2>1, <2>2, CallRef
  <1>8. type[call[p].at] # "none"
    <2>1. tg[p] \in Owners /\ call[p].at \in Files
      BY <1>1, Home DEF GroupState, TypeInv, CallsHere, CallsOK, GoodCall, Ops
    <2>2. PICK fd \in Fds : ofile[tg[p]][fd] = call[p].at
      BY <1>1 DEF RefState, Held, HoldsIn
    <2>3. ASSUME NEW q \in Procs, call[q].op = "opened", call[q].at = call[p].at
          PROVE  FALSE
      <3>1. tg[q] = tg[p] /\ p # q
        BY <1>1, <2>1, <2>2, <2>3 DEF RefState, Fresh
      <3> QED BY <1>1, <2>3, <3>1 DEF RefState, Alone, Starts
    <2> QED BY <2>1, <2>2, <2>3, Constants DEF RefState, Typed
  <1> QED BY <1>7, <1>8 DEF UseDone, Check

LEMMA OpenDoneRef ==
  ASSUME TypeInv, GroupState, RefState, NEW p \in Procs, OpenDone(p), upset' \cap {"race"} = {}
  PROVE  RefState'
  <1>1. /\ p \in Live /\ call[p].op = "opened" /\ ~Raced(p)
        /\ type' = [type EXCEPT ![call[p].at] = "inode"]
        /\ UNCHANGED <<slots, ofile, cwd, ref, uses>>
    BY Unraced DEF OpenDone, At
  <1>2. PICK c : call' = [call EXCEPT ![p] = c] /\ c.op = "idle"
    BY Returned DEF OpenDone
  <1>3. Fresh'
    BY <1>1, <1>2, FreshStep DEF RefState, Opening
  <1>4. HoldsIn(c, ofile[tg[p]])
    BY <1>2 DEF HoldsIn
  <1>5. \A f \in Files : /\ Hit(c, {"duped"}, f) = 0 /\ Hit(call[p], {"duped"}, f) = 0
                         /\ Hit(c, Opening, f) = 0 /\ Hit(call[p], Opening, f) = 0
    BY <1>1, <1>2 DEF Hit, Opening
  <1>6. ref' \in [Files -> Nat] /\ \A f \in Files : ref'[f] - ref[f] = 0
    BY <1>1 DEF TypeInv, Ranges
  <1>7. call[p].at \in Files
    BY <1>1 DEF TypeInv, CallsHere, CallsOK, GoodCall, Ops, Live
  <1>8. type'[call[p].at] = "inode" /\ \A f \in Files : type'[f] = type[f] \/ type'[f] = "inode"
    BY <1>1, <1>7 DEF TypeInv, Ranges
  <1>9. \A t \in Owners, fd \in Fds : ofile[t][fd] # None =>
            \/ type'[ofile[t][fd]] = type[ofile[t][fd]]
            \/ type'[ofile[t][fd]] = "inode"
    BY <1>8 DEF TypeInv, Ranges, Owners
  <1>10. c.op \notin Moving /\ call[p].op \notin Moving
    BY <1>1, <1>2 DEF Moving
  <1>11. \A f \in Files :
           ref'[f] - ref[f] + Hit(c, {"duped"}, f) - Hit(call[p], {"duped"}, f)
           = Hit(c, Opening, f) - Hit(call[p], Opening, f)
    BY <1>5, <1>6
  <1> QED BY <1>1, <1>2, <1>3, <1>4, <1>6, <1>8, <1>9, <1>10, <1>11, CallRef

LEMMA DupDoneRef ==
  ASSUME TypeInv, GroupState, RefState, NEW p \in Procs, DupDone(p), upset' \cap {"race"} = {}
  PROVE  RefState' /\ panic' = panic
  <1>1. /\ p \in Live /\ call[p].op = "duped" /\ ~Raced(p)
        /\ ref' = [ref EXCEPT ![call[p].at] = ref[call[p].at] + 1]
        /\ UNCHANGED <<slots, ofile, cwd, type, uses>>
    BY Unraced DEF DupDone, At
  <1>2. PICK c : call' = [call EXCEPT ![p] = c] /\ c.op = "idle"
    BY Returned DEF DupDone
  <1>3. Fresh'
    BY <1>1, <1>2, FreshStep DEF RefState, Opening
  <1>4. HoldsIn(c, ofile[tg[p]])
    BY <1>2 DEF HoldsIn
  <1>5. call[p].at \in Files
    BY <1>1 DEF TypeInv, CallsHere, CallsOK, GoodCall, Ops, Live
  <1>6. \A f \in Files : /\ Hit(c, {"duped"}, f) = 0 /\ Hit(call[p], {"duped"}, f) = Is(call[p].at, f)
                         /\ Hit(c, Opening, f) = 0 /\ Hit(call[p], Opening, f) = 0
    BY <1>1, <1>2 DEF Hit, Opening, Is
  <1>7. ref' \in [Files -> Nat] /\ \A f \in Files : ref'[f] - ref[f] = Is(call[p].at, f)
    BY <1>1, <1>5 DEF TypeInv, Ranges, Is
  <1>8. \A f : Is(call[p].at, f) \in Int
    BY DEF Is
  <1>9. \A f \in Files :
           ref'[f] - ref[f] + Hit(c, {"duped"}, f) - Hit(call[p], {"duped"}, f)
           = Hit(c, Opening, f) - Hit(call[p], Opening, f)
    BY <1>6, <1>7, <1>8
  <1>10. RefState'
    <2>1. c.op \notin Moving /\ call[p].op \notin Moving
      BY <1>1, <1>2 DEF Moving
    <2> QED BY <1>1, <1>2, <1>3, <1>4, <1>7, <1>9, <2>1, CallRef
  <1>11. ref[call[p].at] > 0
    <2>1. tg[p] \in Owners
      BY <1>1, Home DEF GroupState
    <2>2. \E fd \in Fds : ofile[tg[p]][fd] = call[p].at
      BY <1>1 DEF RefState, Held, HoldsIn
    <2> QED BY <1>5, <2>1, <2>2, Referenced DEF GroupState
  <1> QED BY <1>10, <1>11 DEF DupDone, Check

LEMMA OneCloses ==
  ASSUME TypeInv, NEW f \in Files, ref[f] > 0, FileClose(f)
  PROVE  /\ ref' \in [Files -> Nat] /\ panic' = panic
         /\ \A g \in Files : ref'[g] - ref[g] = 0 - Is(f, g)
         /\ \A g \in Files : type'[g] = type[g] \/ (g = f /\ ref[f] <= 1)
  <1>1. ref \in [Files -> Nat] /\ type \in [Files -> {"none", "inode"}]
    BY DEF TypeInv, Ranges
  <1>2. ref' = [ref EXCEPT ![f] = ref[f] - 1] /\ panic' = panic
    <2>1. ref[f] # 0
      BY <1>1
    <2>2. ref' = [ref EXCEPT ![f] = ref[f] - 1]
      BY <2>1 DEF FileClose
    <2> QED BY <2>2 DEF FileClose, Check
  <1>3. ref' \in [Files -> Nat]
    BY <1>1, <1>2
  <1>4. \A g \in Files : ref'[g] - ref[g] = 0 - Is(f, g)
    BY <1>1, <1>2 DEF Is
  <1>5. \A g \in Files : type'[g] = type[g] \/ (g = f /\ ref[f] <= 1)
    BY <1>1 DEF FileClose
  <1> QED BY <1>2, <1>3, <1>4, <1>5

LEMMA CloseDoneRef ==
  ASSUME TypeInv, GroupState, RefState, NEW p \in Procs, CloseDone(p), upset' \cap {"race"} = {}
  PROVE  RefState' /\ panic' = panic
  <1> DEFINE f == call[p].at
  <1>1. /\ p \in Live /\ call[p].op = "closed" /\ ~Raced(p) /\ FileClose(f)
        /\ UNCHANGED <<slots, ofile, cwd, uses>>
    BY Unraced DEF CloseDone, At
  <1>2. f \in Files
    BY <1>1 DEF TypeInv, CallsHere, CallsOK, GoodCall, Ops
  <1>3. /\ ref[f] > 0
        /\ \A t \in Owners, fd \in Fds : ofile[t][fd] = f => ref[f] > 1
    BY <1>1, <1>2, Referenced DEF GroupState, Opening
  <1>4. PICK c : call' = [call EXCEPT ![p] = c] /\ c.op = "idle"
    BY Returned DEF CloseDone
  <1>5. /\ ref' \in [Files -> Nat] /\ panic' = panic
        /\ \A g \in Files : ref'[g] - ref[g] = 0 - Is(f, g)
        /\ \A g \in Files : type'[g] = type[g] \/ (g = f /\ ref[f] <= 1)
    BY <1>1, <1>2, <1>3, OneCloses
  <1>6. Fresh'
    BY <1>1, <1>4, FreshStep DEF RefState, Opening
  <1>7. HoldsIn(c, ofile[tg[p]])
    BY <1>4 DEF HoldsIn
  <1>8. \A g \in Files : /\ Hit(c, {"duped"}, g) = 0 /\ Hit(call[p], {"duped"}, g) = 0
                         /\ Hit(c, Opening, g) = 0 /\ Hit(call[p], Opening, g) = Is(f, g)
    BY <1>1, <1>4 DEF Hit, Opening, Is
  <1>9. \A g : Is(f, g) \in Int
    BY DEF Is
  <1>10. \A g \in Files :
           ref'[g] - ref[g] + Hit(c, {"duped"}, g) - Hit(call[p], {"duped"}, g)
           = Hit(c, Opening, g) - Hit(call[p], Opening, g)
    BY <1>5, <1>8, <1>9
  <1>11. \A t \in Owners, fd \in Fds : ofile[t][fd] # None =>
            \/ type'[ofile[t][fd]] = type[ofile[t][fd]]
            \/ type'[ofile[t][fd]] = "inode"
    <2> TAKE t \in Owners, fd \in Fds
    <2>1. ofile[t][fd] \in Files \cup {None} /\ ref[f] \in Nat
      BY <1>2 DEF TypeInv, Ranges, Owners
    <2> HIDE DEF f
    <2> QED BY <1>3, <1>5, <2>1
  <1>12. c.op \notin Moving /\ call[p].op \notin Moving
    BY <1>1, <1>4 DEF Moving
  <1> HIDE DEF f
  <1> QED BY <1>1, <1>4, <1>5, <1>6, <1>7, <1>10, <1>11, <1>12, CallRef

LEMMA OpenRef ==
  ASSUME TypeInv, GroupState, RefState, NEW p \in Procs, Open(p), upset' \cap {"race"} = {}
  PROVE  RefState'
  <1>1. /\ p \in Live /\ call[p].op = "idle" /\ ~Raced(p)
        /\ UNCHANGED <<slots, ofile, cwd, type, uses>>
    BY Unraced DEF Open, Begin, At
  <1>2. PICK f \in Files : ref[f] = 0 /\ ref' = [ref EXCEPT ![f] = 1] /\ Goto(p, "open", 0, f)
    BY DEF Open
  <1>3. PICK c : call' = [call EXCEPT ![p] = c] /\ c.op = "open" /\ c.at = f
    BY <1>2, Gone
  <1>4. /\ \A t \in Owners, fd \in Fds : ofile[t][fd] # f
        /\ \A q \in Procs : call[q].op \in Opening => call[q].at # f
    BY <1>2, Referenced DEF GroupState
  <1>5. HoldsIn(c, ofile[tg[p]])
    BY <1>3 DEF HoldsIn
  <1>6. Fresh'
    <2>1. call'[p] = c /\ \A q \in Procs \ {p} : call'[q] = call[q]
      BY <1>3 DEF TypeInv, CallsHere
    <2>2. Owners' = Owners /\ tg' = tg /\ ofile' = ofile
      BY <1>1 DEF Owners, slots
    <2>3. ASSUME NEW q \in Procs \ {p}, call'[q].op \in {"open", "opento"}
          PROVE  /\ \A t \in Owners, fd \in Fds : ofile[t][fd] # call'[q].at
                 /\ \A r \in Procs : call'[r].op \in Opening /\ call'[r].at = call'[q].at => r = q
      <3>1. call[q].op \in Opening /\ call'[q] = call[q]
        BY <2>1, <2>3 DEF Opening
      <3>2. \A r \in Procs \ {p} : call'[r].op \in Opening /\ call'[r].at = call[q].at => r = q
        BY <2>1, <2>3, <3>1 DEF RefState, Fresh
      <3>3. call'[p].at # call[q].at
        BY <1>3, <1>4, <2>1, <3>1
      <3> QED BY <2>3, <3>1, <3>2, <3>3 DEF RefState, Fresh
    <2>4. \A r \in Procs : call'[r].op \in Opening /\ call'[r].at = f => r = p
      BY <1>4, <2>1
    <2>5. ASSUME NEW q \in Procs, call'[q].op = "opened"
          PROVE  \A t \in Owners, fd \in Fds : ofile[t][fd] = call'[q].at => t = tg[q]
      BY <1>3, <2>1, <2>5 DEF RefState, Fresh
    <2> QED BY <1>3, <1>4, <2>1, <2>2, <2>3, <2>4, <2>5 DEF Fresh, Opening
  <1>7. \A g \in Files : /\ Hit(c, {"duped"}, g) = 0 /\ Hit(call[p], {"duped"}, g) = 0
                         /\ Hit(c, Opening, g) = Is(f, g) /\ Hit(call[p], Opening, g) = 0
    BY <1>1, <1>3 DEF Hit, Opening, Is
  <1>8. ref' \in [Files -> Nat] /\ \A g \in Files : ref'[g] - ref[g] = Is(f, g)
    BY <1>2 DEF TypeInv, Ranges, Is
  <1>9. \A g : Is(f, g) \in Int
    BY DEF Is
  <1>10. \A g \in Files :
           ref'[g] - ref[g] + Hit(c, {"duped"}, g) - Hit(call[p], {"duped"}, g)
           = Hit(c, Opening, g) - Hit(call[p], Opening, g)
    BY <1>7, <1>8, <1>9
  <1>11. c.op \in Starts /\ c.op \notin Moving /\ call[p].op \notin Moving
    BY <1>1, <1>3 DEF Moving, Starts
  <1> QED BY <1>1, <1>3, <1>5, <1>6, <1>8, <1>10, <1>11, CallRef

LEMMA FdScanRef ==
  ASSUME TypeInv, GroupState, RefState, NEW p \in Procs, FdScan(p), upset' \cap {"race"} = {}
  PROVE  RefState' /\ panic' = panic
  <1> DEFINE f == call[p].at
  <1>1. /\ p \in Live /\ call[p].op \in {"open", "dup"} /\ ~Raced(p)
        /\ UNCHANGED <<slots, ofile, cwd, uses>>
    BY Unraced DEF FdScan
  <1>2. f \in Files
    BY <1>1 DEF TypeInv, CallsHere, CallsOK, GoodCall, Ops
  <1>3. call[p].op = "open" => \A t \in Owners, fd \in Fds : ofile[t][fd] # f
    BY DEF RefState, Fresh
  <1>4. call[p].op \in Opening => \A q \in Procs : call[q].op \in {"open", "opento"}
                                              /\ call[q].at = f => q = p
    BY DEF RefState, Fresh
  <1>5. \A g : Is(f, g) \in Int
    BY DEF Is
  <1>6. CASE FreeFds(p) # {}
    <2>1. FreeFds(p) \in SUBSET Nat /\ FreeFds(p) \subseteq Fds
      BY Constants DEF FreeFds
    <2>2. PICK fd \in FreeFds(p) :
            Goto(p, IF At(p, "open") THEN "opento" ELSE "dupto", fd, call[p].at)
      BY <1>6, <2>1, LeastIn DEF FdScan
    <2>3. PICK c : /\ call' = [call EXCEPT ![p] = c] /\ c.fd = fd /\ c.at = f
                   /\ c.op = IF At(p, "open") THEN "opento" ELSE "dupto"
      BY <2>2, Gone
    <2>4. \/ call[p].op = "open" /\ c.op = "opento"
          \/ call[p].op = "dup" /\ c.op = "dupto"
      BY <1>1, <2>3 DEF At
    <2>5. UNCHANGED <<ref, type, panic>>
      BY <1>6 DEF FdScan
    <2>6. HoldsIn(c, ofile[tg[p]])
      <3>1. ofile[tg[p]][c.fd] = None
        BY <2>2, <2>3 DEF FreeFds
      <3>2. call[p].op = "dup" => \E a \in Fds : ofile[tg[p]][a] = f
        BY DEF RefState, Held, HoldsIn
      <3> QED BY <2>3, <2>4, <3>1, <3>2 DEF HoldsIn
    <2>7. Fresh'
      BY <1>1, <1>4, <2>3, <2>4, FreshStep DEF RefState, Opening
    <2>8. \A g \in Files : /\ Hit(c, {"duped"}, g) = 0 /\ Hit(call[p], {"duped"}, g) = 0
                           /\ Hit(c, Opening, g) = Hit(call[p], Opening, g)
                           /\ Hit(c, Opening, g) \in Int
      BY <2>3, <2>4 DEF Hit, Opening
    <2>9. ref' \in [Files -> Nat] /\ \A g \in Files : ref'[g] - ref[g] = 0
      BY <2>5 DEF TypeInv, Ranges
    <2>10. \A g \in Files :
           ref'[g] - ref[g] + Hit(c, {"duped"}, g) - Hit(call[p], {"duped"}, g)
           = Hit(c, Opening, g) - Hit(call[p], Opening, g)
      BY <2>8, <2>9
    <2>11. /\ c.op \notin Moving /\ call[p].op \notin Moving
           /\ call[p].op \notin {"idle", "use"} /\ call[p].op # "opened"
      BY <2>4 DEF Moving
    <2> HIDE DEF f
    <2> QED BY <1>1, <2>3, <2>5, <2>6, <2>7, <2>9, <2>10, <2>11, CallRef
  <1>7. CASE FreeFds(p) = {} /\ call[p].op = "dup"
    <2>1. PICK c : call' = [call EXCEPT ![p] = c] /\ c.op = "idle"
      BY <1>7, Returned DEF FdScan
    <2>2. UNCHANGED <<ref, type, panic>>
      BY <1>7 DEF FdScan, At
    <2>3. HoldsIn(c, ofile[tg[p]])
      BY <2>1 DEF HoldsIn
    <2>4. Fresh'
      BY <1>1, <1>7, <2>1, FreshStep DEF RefState, Opening
    <2>5. \A g \in Files : /\ Hit(c, {"duped"}, g) = 0 /\ Hit(call[p], {"duped"}, g) = 0
                           /\ Hit(c, Opening, g) = 0 /\ Hit(call[p], Opening, g) = 0
      BY <1>7, <2>1 DEF Hit, Opening
    <2>6. ref' \in [Files -> Nat] /\ \A g \in Files : ref'[g] - ref[g] = 0
      BY <2>2 DEF TypeInv, Ranges
    <2>7. \A g \in Files :
           ref'[g] - ref[g] + Hit(c, {"duped"}, g) - Hit(call[p], {"duped"}, g)
           = Hit(c, Opening, g) - Hit(call[p], Opening, g)
      BY <2>5, <2>6
    <2>8. /\ c.op \notin Moving /\ call[p].op \notin Moving /\ call[p].op # "opened"
      BY <1>7, <2>1 DEF Moving
    <2> HIDE DEF f
    <2> QED BY <1>1, <2>1, <2>2, <2>3, <2>4, <2>6, <2>7, <2>8, CallRef
  <1>8. CASE FreeFds(p) = {} /\ call[p].op = "open"
    <2>1. PICK c : call' = [call EXCEPT ![p] = c] /\ c.op = "idle"
      BY <1>8, Returned DEF FdScan
    <2>2. FileClose(f)
      BY <1>1, <1>8 DEF FdScan, At
    <2>3. ref[f] > 0
      BY <1>2, <1>8, Referenced DEF GroupState, Opening
    <2>4. /\ ref' \in [Files -> Nat] /\ panic' = panic
          /\ \A g \in Files : ref'[g] - ref[g] = 0 - Is(f, g)
          /\ \A g \in Files : type'[g] = type[g] \/ (g = f /\ ref[f] <= 1)
      BY <1>2, <2>2, <2>3, OneCloses
    <2>5. HoldsIn(c, ofile[tg[p]])
      BY <2>1 DEF HoldsIn
    <2>6. Fresh'
      BY <1>1, <1>8, <2>1, FreshStep DEF RefState, Opening
    <2>7. \A g \in Files : /\ Hit(c, {"duped"}, g) = 0 /\ Hit(call[p], {"duped"}, g) = 0
                           /\ Hit(c, Opening, g) = 0 /\ Hit(call[p], Opening, g) = Is(f, g)
      BY <1>8, <2>1 DEF Hit, Opening, Is
    <2>8. \A g \in Files :
           ref'[g] - ref[g] + Hit(c, {"duped"}, g) - Hit(call[p], {"duped"}, g)
           = Hit(c, Opening, g) - Hit(call[p], Opening, g)
      BY <1>5, <2>4, <2>7
    <2>9. \A t \in Owners, fd \in Fds : ofile[t][fd] # None =>
            \/ type'[ofile[t][fd]] = type[ofile[t][fd]]
            \/ type'[ofile[t][fd]] = "inode"
      <3> TAKE t \in Owners, fd \in Fds
      <3>1. ofile[t][fd] \in Files \cup {None} /\ ofile[t][fd] # f
        BY <1>3, <1>8 DEF TypeInv, Ranges, Owners
      <3> HIDE DEF f
      <3> QED BY <2>4, <3>1
    <2>10. /\ c.op \notin Moving /\ call[p].op \notin Moving /\ call[p].op # "opened"
      BY <1>8, <2>1 DEF Moving
    <2> HIDE DEF f
    <2> QED BY <1>1, <2>1, <2>4, <2>5, <2>6, <2>8, <2>9, <2>10, CallRef
  <1> QED BY <1>1, <1>6, <1>7, <1>8

\* The calls d and c, before and after, make up for the entry y that takes
\* the place of z.
Offset(c, d, y, z) ==
  \A f \in Files : Hit(c, {"duped"}, f) - Hit(d, {"duped"}, f)
                   = Is(y, f) - Is(z, f) + Hit(c, Opening, f) - Hit(d, Opening, f)

\* The steps that write the table of the group.
LEMMA TableRef ==
  ASSUME TypeInv, GroupState, RefState, NEW p \in Live, ~Raced(p), NEW g, g = tg[p],
         call[p].op \notin {"idle", "use"} \cup Moving, call[p].op # "opened",
         NEW c, call' = [call EXCEPT ![p] = c], c.op \notin Moving,
         NEW fd \in Fds, NEW y, Stored(g, fd, y),
         UNCHANGED <<slots, ref, type, cwd, uses>>,
         HoldsIn(c, ofile'[g]),
         Offset(c, call[p], y, ofile[g][fd]),
         Fresh', Typed'
  PROVE  RefState'
  <1>1. p \in Procs /\ tg' = tg /\ st' = st /\ g \in Owners /\ g \in Procs
    BY Home DEF GroupState, slots
  <1>2. Alone'
    BY <1>1, AloneStep DEF RefState
  <1>3. \A q \in Procs \ {p} : call[q].op = "idle" \/ ofile'[tg[q]] = ofile[tg[q]]
    <2> TAKE q \in Procs \ {p}
    <2>1. tg[q] = g => call[q].op = "idle"
      BY Quiet
    <2>2. tg[q] # g => ofile'[tg[q]] = ofile[tg[q]]
      BY <1>1 DEF Stored, TypeInv, Ranges
    <2> QED BY <2>1, <2>2
  <1>4. Held'
    BY <1>1, <1>3, HeldStep DEF RefState
  <1>5. FoldersExact'
    BY <1>1, FoldersSame DEF RefState
  <1>6. FilesExact'
    <2>1. ASSUME NEW f \in Files
          PROVE  /\ Cardinality(Entries(f)) \in Nat
                 /\ Cardinality(Entries(f)')
                    = Cardinality(Entries(f)) - Is(ofile[g][fd], f) + Is(y, f)
      BY <1>1, EntryCount
    <2>2. \A a, b : Is(a, b) \in Int
      BY DEF Is
    <2>3. \A f \in Files : ref'[f] \in Nat /\ ref[f] \in Nat /\ ref'[f] = ref[f]
      BY DEF TypeInv, Ranges
    <2>4. \A f : IsFiniteSet(Entries(f))
      BY Finite
    <2>5. \A f \in Files : Cardinality(Entries(f)') \in Nat
      <3> TAKE f \in Files
      <3>1. Entries(f)' \in SUBSET (Procs \X Fds)
        BY DEF Entries, Owners
      <3>2. IsFiniteSet(Procs \X Fds)
        BY Constants, FS_Product
      <3> QED BY <3>1, <3>2, FS_Subset, FS_CardinalityType
    <2>6. ASSUME NEW f \in Files
          PROVE  ref'[f] - ref[f] + Hit(c, {"duped"}, f) - Hit(call[p], {"duped"}, f)
                 = Cardinality(Entries(f)') - Cardinality(Entries(f))
                   + Hit(c, Opening, f) - Hit(call[p], Opening, f)
      <3>1. /\ Hit(c, {"duped"}, f) \in Int /\ Hit(call[p], {"duped"}, f) \in Int
            /\ Hit(c, Opening, f) \in Int /\ Hit(call[p], Opening, f) \in Int
        BY DEF Hit
      <3> QED BY <2>1, <2>2, <2>3, <3>1 DEF Offset
    <2> QED BY <1>1, <2>3, <2>5, <2>6, Balance DEF RefState
  <1> QED BY <1>2, <1>4, <1>5, <1>6 DEF RefState

LEMMA CloseFdRef ==
  ASSUME TypeInv, GroupState, RefState, NEW p \in Procs, CloseFd(p), upset' \cap {"race"} = {}
  PROVE  RefState' /\ panic' = panic
  <1>1. /\ p \in Live /\ call[p].op = "close" /\ ~Raced(p)
        /\ ofile' = [ofile EXCEPT ![tg[p]][call[p].fd] = None]
        /\ UNCHANGED <<slots, ref, type, cwd, uses, panic>>
    BY Unraced DEF CloseFd, At
  <1>2. PICK f \in Files, fd \in Fds, g \in Procs :
          f = call[p].at /\ fd = call[p].fd /\ g = tg[p]
    BY <1>1 DEF TypeInv, Ranges, CallsHere, CallsOK, GoodCall, Ops
  <1>3. /\ p \in Live /\ call[p].op = "close" /\ ~Raced(p)
        /\ ofile' = [ofile EXCEPT ![g][fd] = None]
        /\ UNCHANGED <<slots, ref, type, cwd, uses, panic>>
    BY <1>1, <1>2
  <1>4. g \in Owners /\ g \in Procs /\ ofile[g][fd] = f
    BY <1>1, <1>2, Home DEF GroupState, RefState, Held, HoldsIn
  <1>5. PICK c : call' = [call EXCEPT ![p] = c] /\ c.op = "closed" /\ c.at = f
    BY <1>2, Gone DEF CloseFd
  <1>6. call'[p] = c /\ \A q \in Procs \ {p} : call'[q] = call[q]
    BY <1>5 DEF TypeInv, CallsHere
  <1>7. Owners' = Owners /\ tg' = tg
    BY <1>3 DEF Owners, slots
  <1>8. \A t \in Owners, a \in Fds : ofile'[t][a] = ofile[t][a] \/ ofile'[t][a] = None
    BY <1>2, <1>3, <1>4 DEF TypeInv, Ranges, Owners
  <1>9. Stored(g, fd, None)
    BY <1>2, <1>3, <1>4, StoredIs
  <1>10. \A q \in Procs : call[q].op \in Opening \cup {"opened"} => call[q].at # None
    BY Constants DEF TypeInv, CallsHere, CallsOK, GoodCall, Ops, Opening
  <1>11. Fresh'
    <2>1. ASSUME NEW q \in Procs, call'[q].op \in {"open", "opento"}
          PROVE  /\ \A t \in Owners, a \in Fds : ofile'[t][a] # call'[q].at
                 /\ \A r \in Procs : call'[r].op \in Opening /\ call'[r].at = call'[q].at => r = q
      <3>1. q # p /\ call'[q] = call[q] /\ call[q].op \in Opening
        BY <1>5, <1>6, <2>1 DEF Opening
      <3>2. \A t \in Owners, a \in Fds : ofile[t][a] # call[q].at
        BY <2>1, <3>1 DEF RefState, Fresh
      <3>3. call[q].at # f
        BY <1>2, <1>4, <3>2
      <3> QED BY <1>5, <1>6, <1>8, <1>10, <2>1, <3>1, <3>2, <3>3 DEF RefState, Fresh
    <2>2. ASSUME NEW q \in Procs, call'[q].op = "opened"
          PROVE  \A t \in Owners, a \in Fds : ofile'[t][a] = call'[q].at => t = tg[q]
      <3>1. q # p /\ call'[q] = call[q]
        BY <1>5, <1>6, <2>2
      <3> QED BY <1>8, <1>10, <2>2, <3>1 DEF RefState, Fresh
    <2> QED BY <1>7, <2>1, <2>2 DEF Fresh
  <1>12. Typed'
    <2>1. ASSUME NEW t \in Owners, NEW a \in Fds, ofile'[t][a] # None
          PROVE  \/ type[ofile'[t][a]] = "inode"
                 \/ \E q \in Procs : call'[q].op = "opened" /\ call'[q].at = ofile'[t][a]
      <3>1. ofile'[t][a] = ofile[t][a]
        BY <1>8, <2>1
      <3>2. \A q \in Procs : call[q].op = "opened" => call'[q] = call[q]
        BY <1>3, <1>6
      <3> QED BY <2>1, <3>1, <3>2 DEF RefState, Typed
    <2> QED BY <1>3, <1>7, <2>1 DEF Typed
  <1>13. HoldsIn(c, ofile'[g])
    BY <1>5 DEF HoldsIn
  <1>14. Offset(c, call[p], None, ofile[g][fd])
    <2> SUFFICES ASSUME NEW h \in Files
                 PROVE  Hit(c, {"duped"}, h) - Hit(call[p], {"duped"}, h)
                        = Is(None, h) - Is(ofile[g][fd], h)
                          + Hit(c, Opening, h) - Hit(call[p], Opening, h)
        BY DEF Offset
    <2>1. /\ Hit(c, {"duped"}, h) = 0 /\ Hit(call[p], {"duped"}, h) = 0
          /\ Hit(call[p], Opening, h) = 0 /\ Hit(c, Opening, h) = Is(f, h)
      BY <1>3, <1>5 DEF Hit, Opening, Is
    <2>2. Is(None, h) = 0 /\ Is(ofile[g][fd], h) = Is(f, h) /\ Is(f, h) \in Int
      BY <1>4, Constants DEF Is
    <2> QED BY <2>1, <2>2
  <1>15. /\ call[p].op \notin {"idle", "use"} \cup Moving /\ call[p].op # "opened"
         /\ c.op \notin Moving
    BY <1>3, <1>5 DEF Moving
  <1>16. RefState'
    <2>1. p \in Live /\ ~Raced(p) /\ g = tg[p]
      BY <1>2, <1>3
    <2>2. call' = [call EXCEPT ![p] = c] /\ c.op \notin Moving
      BY <1>5, <1>15
    <2>3. fd \in Fds /\ Stored(g, fd, None)
      BY <1>2, <1>9
    <2>4. UNCHANGED <<slots, ref, type, cwd, uses>>
      BY <1>3
    <2> QED BY <1>11, <1>12, <1>13, <1>14, <1>15, <2>1, <2>2, <2>3, <2>4, TableRef
  <1> QED BY <1>3, <1>16

LEMMA FdStoreRef ==
  ASSUME TypeInv, GroupState, RefState, NEW p \in Procs, FdStore(p), upset' \cap {"race"} = {}
  PROVE  RefState' /\ panic' = panic
  <1>1. /\ p \in Live /\ call[p].op \in {"opento", "dupto"} /\ ~Raced(p)
        /\ ofile' = [ofile EXCEPT ![tg[p]][call[p].fd] = call[p].at]
        /\ UNCHANGED <<slots, ref, type, cwd, uses, panic>>
    BY Unraced DEF FdStore, At
  <1>2. PICK f \in Files, fd \in Fds, g \in Procs :
          f = call[p].at /\ fd = call[p].fd /\ g = tg[p]
    BY <1>1 DEF TypeInv, Ranges, CallsHere, CallsOK, GoodCall, Ops
  <1>3. /\ p \in Live /\ call[p].op \in {"opento", "dupto"} /\ ~Raced(p)
        /\ ofile' = [ofile EXCEPT ![g][fd] = f]
        /\ UNCHANGED <<slots, ref, type, cwd, uses, panic>>
    BY <1>1, <1>2
  <1>4. g \in Owners /\ g \in Procs /\ ofile[g][fd] = None
    BY <1>1, <1>2, Home DEF GroupState, RefState, Held, HoldsIn
  <1>5. PICK c : /\ call' = [call EXCEPT ![p] = c] /\ c.at = f
                 /\ c.op = IF At(p, "opento") THEN "opened" ELSE "duped"
    BY <1>2, Gone DEF FdStore
  <1>6. call'[p] = c /\ \A q \in Procs \ {p} : call'[q] = call[q]
    BY <1>5 DEF TypeInv, CallsHere
  <1>7. Owners' = Owners /\ tg' = tg
    BY <1>3 DEF Owners, slots
  <1>8. /\ ofile'[g][fd] = f
        /\ \A t \in Owners, a \in Fds : ofile'[t][a] = ofile[t][a] \/ (t = g /\ a = fd)
        /\ \A a \in Fds \ {fd} : ofile'[g][a] = ofile[g][a]
    BY <1>2, <1>3, <1>4 DEF TypeInv, Ranges, Owners
  <1>9. \/ call[p].op = "opento" /\ c.op = "opened"
        \/ call[p].op = "dupto" /\ c.op = "duped"
    BY <1>3, <1>5 DEF At
  <1>10. /\ call[p].op = "opento" => \A t \in Owners, a \in Fds : ofile[t][a] # f
         /\ call[p].op = "dupto" => \E a \in Fds : ofile[g][a] = f
    BY <1>2 DEF RefState, Fresh, Held, HoldsIn
  <1>11. Stored(g, fd, f)
    BY <1>2, <1>3, <1>4, StoredIs
  <1>12. ASSUME NEW q \in Procs \ {p}, call[q].op \in {"open", "opento"}
         PROVE  call[q].at # f
    <2>1. CASE call[p].op = "opento"
      BY <1>2, <1>12, <2>1 DEF RefState, Fresh, Opening
    <2>2. CASE call[p].op = "dupto"
      BY <1>4, <1>10, <1>12, <2>2 DEF RefState, Fresh
    <2> QED BY <1>3, <2>1, <2>2
  <1>13. ASSUME NEW q \in Procs \ {p}, call[q].op = "opened", call[q].at = f
         PROVE  tg[q] = g
    <2>1. q \in Live
      BY <1>13, Idles DEF Live
    <2>2. tg[q] \in Owners /\ \E a \in Fds : ofile[tg[q]][a] = f
      BY <1>13, <2>1, Home DEF GroupState, RefState, Held, HoldsIn
    <2>3. PICK a \in Fds : ofile[g][a] = f
      BY <1>3, <1>10, <2>2
    <2> QED BY <1>4, <1>13, <2>3 DEF RefState, Fresh
  <1>14. Fresh'
    <2>1. ASSUME NEW q \in Procs, call'[q].op \in {"open", "opento"}
          PROVE  /\ \A t \in Owners, a \in Fds : ofile'[t][a] # call'[q].at
                 /\ \A r \in Procs : call'[r].op \in Opening /\ call'[r].at = call'[q].at => r = q
      <3>1. q # p /\ call'[q] = call[q]
        BY <1>6, <1>9, <2>1
      <3>2. call[q].at # f
        BY <1>12, <2>1, <3>1
      <3>3. \A t \in Owners, a \in Fds : ofile[t][a] # call[q].at
        BY <2>1, <3>1 DEF RefState, Fresh
      <3>4. \A t \in Owners, a \in Fds : ofile'[t][a] # call[q].at
        BY <1>8, <3>2, <3>3
      <3>5. \A r \in Procs : call'[r].op \in Opening => r # p
        BY <1>6, <1>9 DEF Opening
      <3> QED BY <1>6, <2>1, <3>1, <3>4, <3>5 DEF RefState, Fresh
    <2>2. ASSUME NEW q \in Procs \ {p}, call'[q].op = "opened"
          PROVE  \A t \in Owners, a \in Fds : ofile'[t][a] = call'[q].at => t = tg[q]
      <3>1. call'[q] = call[q] /\ \A t \in Owners, a \in Fds : ofile[t][a] = call[q].at => t = tg[q]
        BY <1>6, <2>2 DEF RefState, Fresh
      <3> QED BY <1>8, <1>13, <2>2, <3>1
    <2>3. call'[p].op = "opened" =>
            \A t \in Owners, a \in Fds : ofile'[t][a] = call'[p].at => t = tg[p]
      BY <1>2, <1>5, <1>6, <1>8, <1>9, <1>10
    <2>4. ASSUME NEW q \in Procs, call'[q].op = "opened"
          PROVE  \A t \in Owners, a \in Fds : ofile'[t][a] = call'[q].at => t = tg[q]
      BY <2>2, <2>3, <2>4
    <2> QED BY <1>7, <2>1, <2>4 DEF Fresh
  <1>15. Typed'
    <2>1. ASSUME NEW t \in Owners, NEW a \in Fds, ofile[t][a] # None
          PROVE  \/ type[ofile[t][a]] = "inode"
                 \/ \E q \in Procs : call'[q].op = "opened" /\ call'[q].at = ofile[t][a]
      <3>1. \A q \in Procs : call[q].op = "opened" => call'[q] = call[q]
        BY <1>3, <1>6
      <3> QED BY <2>1, <3>1 DEF RefState, Typed
    <2>2. \/ type[f] = "inode"
          \/ \E q \in Procs : call'[q].op = "opened" /\ call'[q].at = f
      <3>1. CASE c.op = "opened"
        BY <1>5, <1>6, <3>1
      <3>2. CASE c.op = "duped"
        <4>1. PICK a \in Fds : ofile[g][a] = f
          BY <1>9, <1>10, <3>2
        <4>2. f # None
          BY <1>2, Constants
        <4> QED BY <1>4, <2>1, <4>1, <4>2
      <3> QED BY <1>9, <3>1, <3>2
    <2>3. ASSUME NEW t \in Owners, NEW a \in Fds, ofile'[t][a] # None
          PROVE  \/ type[ofile'[t][a]] = "inode"
                 \/ \E q \in Procs : call'[q].op = "opened" /\ call'[q].at = ofile'[t][a]
      <3>1. CASE t = g /\ a = fd
        BY <1>8, <2>2, <3>1
      <3>2. CASE ofile'[t][a] = ofile[t][a]
        BY <2>1, <2>3, <3>2
      <3> QED BY <1>8, <3>1, <3>2
    <2> QED BY <1>3, <1>7, <2>3 DEF Typed
  <1>16. HoldsIn(c, ofile'[g])
    <2>1. CASE c.op = "opened"
      BY <1>2, <1>5, <1>8, <2>1 DEF HoldsIn
    <2>2. CASE c.op = "duped"
      <3>1. PICK a \in Fds : ofile[g][a] = f
        BY <1>9, <1>10, <2>2
      <3>2. a # fd
        BY <1>2, <1>4, <3>1, Constants
      <3>3. ofile'[g][a] = f /\ ofile'[g][fd] = f
        BY <1>8, <3>1, <3>2
      <3> QED BY <1>2, <1>5, <2>2, <3>2, <3>3 DEF HoldsIn
    <2> QED BY <1>9, <2>1, <2>2
  <1>17. Offset(c, call[p], f, ofile[g][fd])
    <2> SUFFICES ASSUME NEW h \in Files
                 PROVE  Hit(c, {"duped"}, h) - Hit(call[p], {"duped"}, h)
                        = Is(f, h) - Is(ofile[g][fd], h)
                          + Hit(c, Opening, h) - Hit(call[p], Opening, h)
        BY DEF Offset
    <2>1. CASE c.op = "opened"
      <3>1. /\ Hit(c, {"duped"}, h) = 0 /\ Hit(call[p], {"duped"}, h) = 0
            /\ Hit(call[p], Opening, h) = Is(f, h) /\ Hit(c, Opening, h) = 0
        BY <1>2, <1>5, <1>9, <2>1 DEF Hit, Opening, Is
      <3>2. Is(ofile[g][fd], h) = 0 /\ Is(f, h) \in Int
        BY <1>4, Constants DEF Is
      <3> QED BY <3>1, <3>2
    <2>2. CASE c.op = "duped"
      <3>1. /\ Hit(c, {"duped"}, h) = Is(f, h) /\ Hit(call[p], {"duped"}, h) = 0
            /\ Hit(call[p], Opening, h) = 0 /\ Hit(c, Opening, h) = 0
        BY <1>5, <1>9, <2>2 DEF Hit, Opening, Is
      <3>2. Is(ofile[g][fd], h) = 0 /\ Is(f, h) \in Int
        BY <1>4, Constants DEF Is
      <3> QED BY <3>1, <3>2
    <2> QED BY <1>9, <2>1, <2>2
  <1>18. /\ call[p].op \notin {"idle", "use"} \cup Moving /\ call[p].op # "opened"
         /\ c.op \notin Moving
    BY <1>9 DEF Moving
  <1>19. RefState'
    BY <1>2, <1>3, <1>5, <1>11, <1>14, <1>15, <1>16, <1>17, <1>18, TableRef
  <1> QED BY <1>3, <1>19

\* The steps on the folder let the files be.
LEMMA FolderRef ==
  ASSUME TypeInv, RefState, NEW p \in Live, ~Raced(p),
         NEW c, call' = [call EXCEPT ![p] = c],
         UNCHANGED <<slots, ofile, ref, type>>,
         c.op \in {"idle", "chdir", "chdired"}, call[p].op \in {"idle", "chdir", "chdired"},
         \/ c.op = "idle"
         \/ call[p].op = "idle" /\ c.op \in Starts
         \/ call[p].op \notin {"idle", "use"},
         FoldersExact'
  PROVE  RefState'
  <1>1. p \in Procs /\ tg' = tg /\ ofile' = ofile
    BY DEF Live, slots
  <1>2. Alone'
    BY <1>1, AloneStep DEF RefState
  <1>3. Held'
    <2>1. HoldsIn(c, ofile'[tg[p]])
      BY DEF HoldsIn
    <2> QED BY <1>1, <2>1, HeldStep DEF RefState
  <1>4. Fresh'
    BY <1>1, FreshStep DEF RefState, Opening
  <1>5. Typed'
    BY <1>1, TypedStep DEF RefState
  <1>6. FilesExact'
    <2>1. \A f \in Files : /\ Hit(c, {"duped"}, f) = 0 /\ Hit(call[p], {"duped"}, f) = 0
                           /\ Hit(c, Opening, f) = 0 /\ Hit(call[p], Opening, f) = 0
      BY DEF Hit, Opening
    <2>2. ref' \in [Files -> Nat] /\ \A f \in Files : ref'[f] - ref[f] = 0
      BY DEF TypeInv, Ranges
    <2>3. \A f \in Files :
           ref'[f] - ref[f] + Hit(c, {"duped"}, f) - Hit(call[p], {"duped"}, f)
           = Hit(c, Opening, f) - Hit(call[p], Opening, f)
      BY <2>1, <2>2
    <2> QED BY <1>1, <2>2, <2>3, FilesStep DEF RefState
  <1> QED BY <1>2, <1>3, <1>4, <1>5, <1>6 DEF RefState

LEMMA ChdirRef ==
  ASSUME TypeInv, GroupState, RefState, NEW p \in Procs, Chdir(p), upset' \cap {"race"} = {}
  PROVE  RefState' /\ panic' = panic
  <1>1. /\ p \in Live /\ call[p].op = "idle" /\ ~Raced(p)
        /\ UNCHANGED <<slots, ofile, cwd, ref, type, panic>>
    BY Unraced DEF Chdir, Begin, At
  <1>2. PICK i \in Folders : uses' = [uses EXCEPT ![i] = uses[i] + 1] /\ Goto(p, "chdir", 0, i)
    BY DEF Chdir
  <1>3. PICK c : call' = [call EXCEPT ![p] = c] /\ c.op = "chdir" /\ c.at = i
    BY <1>2, Gone
  <1>4. p \in Procs /\ call'[p] = c /\ \A q \in Procs \ {p} : call'[q] = call[q]
    BY <1>3 DEF TypeInv, CallsHere
  <1>5. ASSUME NEW j \in Folders
        PROVE  uses'[j] + Cardinality(Putting(j)')
               = Cardinality(Residents(j)') + Cardinality(InCall(Moving, j)')
    <2>1. Putting(j)' = Putting(j)
      BY <1>1, <1>3 DEF Putting, slots, TypeInv, CallsHere
    <2>2. Residents(j)' = Residents(j)
      BY <1>1 DEF Residents, Owners, slots
    <2>3. Cardinality(InCall(Moving, j)') = Cardinality(InCall(Moving, j)) + Is(i, j)
      <3>1. Hit(c, Moving, j) = Is(i, j) /\ Hit(call[p], Moving, j) = 0 /\ Is(i, j) \in Int
        BY <1>1, <1>3 DEF Hit, Is, Moving
      <3>2. /\ Cardinality(InCall(Moving, j)) \in Nat
            /\ Cardinality(InCall(Moving, j)')
               = Cardinality(InCall(Moving, j)) - Hit(call[p], Moving, j) + Hit(c, Moving, j)
        BY <1>4, MoveCount DEF Moving
      <3> QED BY <3>1, <3>2
    <2>4. uses'[j] = uses[j] + Is(i, j) /\ Is(i, j) \in Int /\ uses[j] \in Int
      BY <1>2 DEF TypeInv, Ranges, Is
    <2>5. Cardinality(Putting(j)) \in Nat /\ Cardinality(Residents(j)) \in Nat
          /\ Cardinality(InCall(Moving, j)) \in Nat
      BY Finite
    <2>6. uses[j] + Cardinality(Putting(j)) = Cardinality(Residents(j)) + Cardinality(InCall(Moving, j))
      BY DEF RefState, FoldersExact
    <2> QED BY <2>1, <2>2, <2>3, <2>4, <2>5, <2>6
  <1>6. FoldersExact'
    BY <1>5 DEF FoldersExact, Moving
  <1>7. c.op \in Starts
    BY <1>3 DEF Starts
  <1> QED BY <1>1, <1>3, <1>6, <1>7, FolderRef

LEMMA ChdirPutRef ==
  ASSUME TypeInv, GroupState, RefState, NEW p \in Procs, ChdirPut(p), upset' \cap {"race"} = {}
  PROVE  RefState' /\ panic' = panic
  <1>1. /\ p \in Live /\ call[p].op = "chdir" /\ ~Raced(p) /\ Put(cwd[tg[p]])
        /\ UNCHANGED <<slots, ofile, cwd, ref, type>>
    BY Unraced DEF ChdirPut, At
  <1>2. PICK k \in Folders : k = cwd[tg[p]]
    BY <1>1, Home DEF GroupState, Rooms
  <1>3. PICK c : call' = [call EXCEPT ![p] = c] /\ c.op = "chdired" /\ c.at = call[p].at
    BY Gone DEF ChdirPut
  <1>4. p \in Procs /\ call'[p] = c /\ \A q \in Procs \ {p} : call'[q] = call[q]
    BY <1>3 DEF TypeInv, CallsHere
  <1>5. ASSUME NEW j \in Folders
        PROVE  uses'[j] + Cardinality(Putting(j)')
               = Cardinality(Residents(j)') + Cardinality(InCall(Moving, j)')
    <2>1. InCall(Moving, j)' = InCall(Moving, j)
      BY <1>1, <1>3, <1>4 DEF InCall, Moving
    <2>2. Residents(j)' = Residents(j)
      BY <1>1 DEF Residents, Owners, slots
    <2>3. Cardinality(Putting(j)') = Cardinality(Putting(j)) + Is(k, j)
      <3>1. IsFiniteSet(Putting(j)) /\ Cardinality(Putting(j)) \in Nat /\ p \notin Putting(j)
        BY <1>1, Finite DEF Putting
      <3>2. CASE k = j
        <4>1. Putting(j)' = Putting(j) \cup {p}
          BY <1>1, <1>2, <1>3, <1>4, <3>2 DEF Putting, slots
        <4> QED BY <3>1, <3>2, <4>1, Swap DEF Is
      <3>3. CASE k # j
        <4>1. Putting(j)' = Putting(j)
          BY <1>1, <1>2, <1>4, <3>3 DEF Putting, slots
        <4> QED BY <3>1, <3>3, <4>1 DEF Is
      <3> QED BY <3>2, <3>3
    <2>4. uses'[j] = uses[j] - Is(k, j) /\ Is(k, j) \in Int /\ uses[j] \in Int
      BY <1>1, <1>2 DEF TypeInv, Ranges, Is, Put
    <2>5. Cardinality(Putting(j)) \in Nat /\ Cardinality(Residents(j)) \in Nat
          /\ Cardinality(InCall(Moving, j)) \in Nat
      BY Finite
    <2>6. uses[j] + Cardinality(Putting(j)) = Cardinality(Residents(j)) + Cardinality(InCall(Moving, j))
      BY DEF RefState, FoldersExact
    <2> QED BY <2>1, <2>2, <2>3, <2>4, <2>5, <2>6
  <1>6. FoldersExact'
    BY <1>5 DEF FoldersExact, Moving
  <1>7. panic' = panic
    BY <1>1, <1>2, Constants DEF Put, Check
  <1> QED BY <1>1, <1>3, <1>6, <1>7, FolderRef

LEMMA ChdirDoneRef ==
  ASSUME TypeInv, GroupState, RefState, NEW p \in Procs, ChdirDone(p), upset' \cap {"race"} = {}
  PROVE  RefState' /\ panic' = panic
  <1>1. /\ p \in Live /\ call[p].op = "chdired" /\ ~Raced(p)
        /\ cwd' = [cwd EXCEPT ![tg[p]] = call[p].at]
        /\ UNCHANGED <<slots, ofile, uses, ref, type, panic>>
    BY Unraced DEF ChdirDone, At
  <1>2. PICK g \in Procs, k \in Folders, i \in Folders :
          g = tg[p] /\ k = cwd[g] /\ i = call[p].at /\ g \in Owners
    BY <1>1, Home DEF GroupState, Rooms, TypeInv, CallsHere, CallsOK, GoodCall
  <1>3. PICK c : call' = [call EXCEPT ![p] = c] /\ c.op = "idle"
    BY Returned DEF ChdirDone
  <1>4. p \in Procs /\ call'[p] = c /\ \A q \in Procs \ {p} : call'[q] = call[q]
    BY <1>3 DEF TypeInv, CallsHere
  <1>5. cwd'[g] = i /\ \A q \in Procs \ {g} : cwd'[q] = cwd[q]
    BY <1>1, <1>2 DEF TypeInv, Ranges
  <1>6. \A q \in Procs \ {p} : call[q].op = "chdired" => tg[q] \in Procs \ {g}
    BY <1>1, <1>2, Quiet DEF TypeInv, Ranges
  <1>7. ASSUME NEW j \in Folders
        PROVE  uses'[j] + Cardinality(Putting(j)')
               = Cardinality(Residents(j)') + Cardinality(InCall(Moving, j)')
    <2>1. Cardinality(InCall(Moving, j)') = Cardinality(InCall(Moving, j)) - Is(i, j)
      <3>1. Hit(c, Moving, j) = 0 /\ Hit(call[p], Moving, j) = Is(i, j) /\ Is(i, j) \in Int
        BY <1>1, <1>2, <1>3 DEF Hit, Is, Moving
      <3>2. /\ Cardinality(InCall(Moving, j)) \in Nat
            /\ Cardinality(InCall(Moving, j)')
               = Cardinality(InCall(Moving, j)) - Hit(call[p], Moving, j) + Hit(c, Moving, j)
        BY <1>4, MoveCount DEF Moving
      <3> QED BY <3>1, <3>2
    <2>2. Cardinality(Putting(j)') = Cardinality(Putting(j)) - Is(k, j)
      <3>1. IsFiniteSet(Putting(j)) /\ Cardinality(Putting(j)) \in Nat
        BY Finite
      <3>2. /\ p \notin Putting(j)'
            /\ \A q \in Procs \ {p} : q \in Putting(j)' <=> q \in Putting(j)
        BY <1>1, <1>3, <1>4, <1>5, <1>6 DEF Putting, slots
      <3>3. p \in Putting(j) <=> k = j
        BY <1>1, <1>2 DEF Putting
      <3>4. Putting(j)' \subseteq Procs /\ Putting(j) \subseteq Procs
        BY DEF Putting
      <3>5. Putting(j)' = Putting(j) \ {p}
        BY <3>2, <3>4
      <3>6. CASE k = j
        BY <3>1, <3>3, <3>5, <3>6, Swap DEF Is
      <3>7. CASE k # j
        <4>1. Putting(j)' = Putting(j)
          BY <3>3, <3>5, <3>7
        <4> QED BY <3>1, <3>7, <4>1 DEF Is
      <3> QED BY <3>6, <3>7
    <2>3. Cardinality(Residents(j)') = Cardinality(Residents(j)) - Is(k, j) + Is(i, j)
      <3>1. IsFiniteSet(Residents(j)) /\ Cardinality(Residents(j)) \in Nat
        BY Finite
      <3>2. /\ g \in Residents(j) <=> k = j
            /\ g \in Residents(j)' <=> i = j
            /\ \A q : q # g => (q \in Residents(j)' <=> q \in Residents(j))
        BY <1>1, <1>2, <1>5 DEF Residents, Owners, slots
      <3>3. CASE k = j /\ i # j
        <4>1. Residents(j)' = Residents(j) \ {g}
          BY <3>2, <3>3
        <4> QED BY <3>1, <3>2, <3>3, <4>1, Swap DEF Is
      <3>4. CASE k # j /\ i = j
        <4>1. Residents(j)' = Residents(j) \cup {g}
          BY <3>2, <3>4
        <4> QED BY <3>1, <3>2, <3>4, <4>1, Swap DEF Is
      <3>5. CASE k = j <=> i = j
        <4>1. Residents(j)' = Residents(j)
          BY <3>2, <3>5
        <4> QED BY <3>1, <3>5, <4>1 DEF Is
      <3> QED BY <3>3, <3>4, <3>5
    <2>4. uses'[j] = uses[j] /\ uses[j] \in Int /\ Is(i, j) \in Int /\ Is(k, j) \in Int
      BY <1>1 DEF TypeInv, Ranges, Is
    <2>5. Cardinality(Putting(j)) \in Nat /\ Cardinality(Residents(j)) \in Nat
          /\ Cardinality(InCall(Moving, j)) \in Nat
      BY Finite
    <2>6. uses[j] + Cardinality(Putting(j)) = Cardinality(Residents(j)) + Cardinality(InCall(Moving, j))
      BY DEF RefState, FoldersExact
    <2> QED BY <2>1, <2>2, <2>3, <2>4, <2>5, <2>6
  <1>8. FoldersExact'
    BY <1>7 DEF FoldersExact, Moving
  <1> QED BY <1>1, <1>3, <1>8, FolderRef

-----------------------------------------------------------------------------
(* The other steps.                                                        *)

LEMMA Busy ==
  ASSUME TypeInv, Grouped, NEW q \in Procs, call[q].op # "idle"
  PROVE  q \in Live /\ tg[q] \in Procs /\ tg[q] \in Live /\ tg[q] \in Owners
  <1>1. q \in Live
    BY Idles DEF Live
  <1> QED BY <1>1, Home

\* Slots that come and go with nothing in them, of no busy process.
LEMMA SlotsRef ==
  ASSUME TypeInv, RefState, UNCHANGED <<call, ref, type, uses>>,
         \A q \in Procs : call[q].op # "idle" => tg'[q] = tg[q] /\ tg[q] \in Owners',
         Owners' \subseteq Owners,
         \A t \in Owners' : ofile'[t] = ofile[t] /\ cwd'[t] = cwd[t],
         \A t \in Owners \ Owners' : cwd[t] = None /\ \A fd \in Fds : ofile[t][fd] = None
  PROVE  RefState'
  <1>1. Alone'
    BY DEF RefState, Alone
  <1>2. Held'
    <2>1. ASSUME NEW q \in Procs PROVE HoldsIn(call[q], ofile'[tg'[q]])
      <3>1. CASE call[q].op = "idle"
        BY <3>1 DEF HoldsIn
      <3>2. CASE call[q].op # "idle"
        <4>1. ofile'[tg'[q]] = ofile[tg[q]]
          BY <3>2
        <4> QED BY <4>1 DEF RefState, Held
      <3> QED BY <3>1, <3>2
    <2> QED BY <2>1 DEF Held
  <1>3. Fresh'
    <2>1. ASSUME NEW q \in Procs, call[q].op \in {"open", "opento"}
          PROVE  /\ \A t \in Owners', fd \in Fds : ofile'[t][fd] # call[q].at
                 /\ \A r \in Procs : call[r].op \in Opening /\ call[r].at = call[q].at => r = q
      BY <2>1 DEF RefState, Fresh
    <2>2. ASSUME NEW q \in Procs, call[q].op = "opened"
          PROVE  \A t \in Owners', fd \in Fds : ofile'[t][fd] = call[q].at => t = tg'[q]
      BY <2>2 DEF RefState, Fresh
    <2> QED BY <2>1, <2>2 DEF Fresh
  <1>4. Typed'
    <2>1. ASSUME NEW t \in Owners', NEW fd \in Fds, ofile'[t][fd] # None
          PROVE  \/ type[ofile'[t][fd]] = "inode"
                 \/ \E q \in Procs : call[q].op = "opened" /\ call[q].at = ofile'[t][fd]
      BY <2>1 DEF RefState, Typed
    <2> QED BY <2>1 DEF Typed
  <1>5. FilesExact'
    <2>1. ASSUME NEW f \in Files PROVE Entries(f)' = Entries(f)
      <3>1. f # None
        BY Constants
      <3>2. \A x : x \in Entries(f)' <=> x \in Entries(f)
        BY <3>1 DEF Entries
      <3> QED BY <3>2
    <2>2. \A ops, f : InCall(ops, f)' = InCall(ops, f)
      BY DEF InCall
    <2> QED BY <2>1, <2>2 DEF RefState, FilesExact, Opening
  <1>6. FoldersExact'
    <2>1. ASSUME NEW i \in Folders PROVE Putting(i)' = Putting(i) /\ Residents(i)' = Residents(i)
      <3>1. i # None
        BY Constants
      <3>2. Putting(i)' = Putting(i)
        BY DEF Putting
      <3>3. \A t : t \in Residents(i)' <=> t \in Residents(i)
        BY <3>1 DEF Residents
      <3> QED BY <3>2, <3>3
    <2>2. \A ops, i : InCall(ops, i)' = InCall(ops, i)
      BY DEF InCall
    <2> QED BY <2>1, <2>2 DEF RefState, FoldersExact, Moving
  <1> QED BY <1>1, <1>2, <1>3, <1>4, <1>5, <1>6 DEF RefState

LEMMA MemoryRef ==
  ASSUME TypeInv, GroupState, RefState, NEW p \in Procs,
         Growproc(p) \/ (Exec(p) /\ upset' \cap {"exec"} = {})
  PROVE  RefState'
  <1>1. UNCHANGED <<st, tg, shared>>
    <2>1. CASE Growproc(p)
      BY <2>1 DEF Growproc, slots
    <2>2. CASE Exec(p) /\ upset' \cap {"exec"} = {}
      BY <2>2, ExecAlone DEF Exec, GroupState
    <2> QED BY <2>1, <2>2
  <1>2. UNCHANGED <<call, ref, type, uses, ofile, cwd>> /\ Owners' = Owners
    BY <1>1 DEF shared, Owners
  <1>3. \A q \in Procs : call[q].op # "idle" => tg'[q] = tg[q] /\ tg[q] \in Owners'
    BY <1>1, <1>2, Busy DEF GroupState
  <1> QED BY <1>2, <1>3, SlotsRef

LEMMA CloneRef ==
  ASSUME TypeInv, GroupState, RefState, NEW p \in Procs, Clone(p)
  PROVE  RefState'
  <1>1. PICK np : Cloned(p, np)
    BY CloneChild
  <1>2. p \in Live
    BY CloneChild DEF At
  <1>3. np \in Procs /\ st[np] = "UNUSED" /\ call[np].op = "idle"
    BY <1>1, Idles DEF Cloned, Begotten, Unused
  <1>4. tg[p] \in Live /\ tg[p] # np
    BY <1>2, <1>3, Home DEF GroupState, Live
  <1>5. /\ st'[np] = "LIVE" /\ tg'[np] = tg[p]
        /\ \A q \in Procs \ {np} : st'[q] = st[q] /\ tg'[q] = tg[q] /\ cwd'[q] = cwd[q]
                                   /\ ofile'[q] = ofile[q]
    BY <1>1, <1>3 DEF Cloned, Begotten, TypeInv, Ranges
  <1>6. Owners' = Owners /\ np \notin Owners
    BY <1>3, <1>4, <1>5 DEF Owners
  <1>7. \A q \in Procs : call[q].op # "idle" => tg'[q] = tg[q] /\ tg[q] \in Owners'
    BY <1>3, <1>5, <1>6, Busy DEF GroupState
  <1>8. \A t \in Owners' : ofile'[t] = ofile[t] /\ cwd'[t] = cwd[t]
    BY <1>5, <1>6 DEF Owners
  <1>9. UNCHANGED <<call, ref, type, uses>>
    BY <1>1 DEF Cloned, Begotten
  <1> QED BY <1>6, <1>7, <1>8, <1>9, SlotsRef

LEMMA WaitRef ==
  ASSUME TypeInv, GroupState, RefState, NEW p \in Procs, NEW q, Waited(p, q)
  PROVE  RefState'
  <1>1. q \in Procs /\ st[q] = "ZOMBIE" /\ UNCHANGED <<call, ref, type, uses, ofile>>
    BY DEF Waited
  <1>2. /\ st'[q] = "UNUSED" /\ tg'[q] = q
        /\ \A r \in Procs \ {q} : st'[r] = st[r] /\ tg'[r] = tg[r] /\ cwd'[r] = cwd[r]
    BY <1>1 DEF Waited, TypeInv, Ranges
  <1>3. Owners' = Owners \ {q}
    BY <1>1, <1>2 DEF Owners
  <1>4. \A r \in Procs : call[r].op # "idle" => tg'[r] = tg[r] /\ tg[r] \in Owners'
    <2> TAKE r \in Procs
    <2> HAVE call[r].op # "idle"
    <2>1. r \in Live /\ tg[r] \in Live /\ tg[r] \in Owners
      BY Busy DEF GroupState
    <2>2. r # q /\ tg[r] # q
      BY <1>1, <2>1 DEF Live
    <2> QED BY <1>2, <1>3, <2>1, <2>2
  <1>5. \A t \in Owners' : ofile'[t] = ofile[t] /\ cwd'[t] = cwd[t]
    BY <1>1, <1>2, <1>3 DEF Owners
  <1>6. \A t \in Owners \ Owners' : cwd[t] = None /\ \A fd \in Fds : ofile[t][fd] = None
    BY <1>1, <1>3 DEF GroupState, Rooms
  <1> QED BY <1>1, <1>3, <1>4, <1>5, <1>6, SlotsRef

LEMMA ExitThreadRef ==
  ASSUME TypeInv, GroupState, RefState, NEW p \in Procs, Exit(p), tg[p] # p
  PROVE  RefState' /\ panic' = panic
  <1>1. Left(p) /\ UNCHANGED <<ref, type, uses, ofile, cwd, panic>>
    BY ExitParts
  <1>2. UNCHANGED <<call, tg>> /\ Owners' = Owners
    BY <1>1 DEF Left, Owners, At, Live, TypeInv, Ranges
  <1>3. \A q \in Procs : call[q].op # "idle" => tg'[q] = tg[q] /\ tg[q] \in Owners'
    BY <1>2, Busy DEF GroupState
  <1> QED BY <1>1, <1>2, <1>3, SlotsRef

\* A child has what the group of its parent has.
LEMMA ForkRef ==
  ASSUME TypeInv, GroupState, RefState, NEW p \in Procs, Fork(p),
         upset' \cap {"race"} = {}, upset' \cap {"stale"} = {}, upset' \cap {"leftover"} = {}
  PROVE  /\ RefState'
         /\ DirState => panic' = panic
  <1>1. PICK np : Forked(p, np)
    BY ForkChild
  <1>2. p \in Live /\ call[p].op = "idle" /\ st[p] = "LIVE"
    BY ForkChild DEF At, Live
  <1>3. ~Raced(p) /\ ~Stale(p) /\ ~Leftover(p, np)
    BY <1>1 DEF Forked, Upset, If
  <1>4. np \in Procs /\ st[np] = "UNUSED" /\ call[np].op = "idle" /\ np # p
    BY <1>1, <1>2, Idles DEF Forked, Begotten, Unused
  <1>5. PICK g \in Procs, k \in Folders :
          /\ g = tg[p] /\ k = cwd[p] /\ g \in Owners /\ g # np
          /\ \A fd \in Fds : ofile[p][fd] = ofile[g][fd]
    BY <1>2, <1>3, <1>4, Home DEF GroupState, Rooms, Stale
  <1>6. /\ st'[np] = "LIVE" /\ tg'[np] = np /\ cwd'[np] = k
        /\ \A q \in Procs \ {np} : /\ st'[q] = st[q] /\ tg'[q] = tg[q] /\ cwd'[q] = cwd[q]
                                   /\ ofile'[q] = ofile[q]
        /\ uses' = [uses EXCEPT ![k] = uses[k] + 1]
        /\ call' = call /\ type' = type
    BY <1>1, <1>4, <1>5 DEF Forked, Begotten, TypeInv, Ranges
  <1>7. \A fd \in Fds : ofile'[np][fd] = ofile[g][fd]
    BY <1>1, <1>3, <1>4, <1>5 DEF Forked, Leftover, TypeInv, Ranges
  <1>8. Owners' = Owners \cup {np} /\ np \notin Owners
    BY <1>4, <1>6 DEF Owners
  <1>9. \A q \in Procs : call[q].op # "idle" =>
          /\ q # np /\ tg'[q] = tg[q] /\ tg[q] \in Owners /\ tg[q] # np
          /\ ofile'[tg[q]] = ofile[tg[q]] /\ cwd'[tg[q]] = cwd[tg[q]]
    BY <1>4, <1>6, <1>8, Busy DEF GroupState
  <1>10. Alone'
    BY <1>6, <1>9 DEF RefState, Alone
  <1>11. Held'
    <2>1. ASSUME NEW q \in Procs PROVE HoldsIn(call[q], ofile'[tg'[q]])
      <3>1. CASE call[q].op = "idle"
        BY <3>1 DEF HoldsIn
      <3>2. CASE call[q].op # "idle"
        <4>1. ofile'[tg'[q]] = ofile[tg[q]]
          BY <1>9, <3>2
        <4> QED BY <4>1 DEF RefState, Held
      <3> QED BY <3>1, <3>2
    <2> QED BY <1>6, <2>1 DEF Held
  <1>12. Fresh'
    <2>1. ASSUME NEW q \in Procs, call[q].op \in {"open", "opento"}
          PROVE  /\ \A t \in Owners', fd \in Fds : ofile'[t][fd] # call[q].at
                 /\ \A r \in Procs : call[r].op \in Opening /\ call[r].at = call[q].at => r = q
      BY <1>5, <1>6, <1>7, <1>8, <2>1 DEF RefState, Fresh, Owners
    <2>2. ASSUME NEW q \in Procs, call[q].op = "opened", NEW t \in Owners', NEW fd \in Fds,
                 ofile'[t][fd] = call[q].at
          PROVE  t = tg'[q]
      <3>1. CASE t = np
        <4>1. tg[q] = g
          BY <1>5, <1>7, <2>2, <3>1 DEF RefState, Fresh
        <4>2. q # p
          BY <1>2, <2>2
        <4> QED BY <1>2, <1>3, <1>5, <2>2, <4>1, <4>2, Quiet
      <3>2. CASE t # np
        <4>1. t \in Owners /\ ofile'[t] = ofile[t]
          BY <1>6, <1>8, <3>2 DEF Owners
        <4> QED BY <1>9, <2>2, <4>1 DEF RefState, Fresh
      <3> QED BY <3>1, <3>2
    <2> QED BY <1>6, <2>1, <2>2 DEF Fresh
  <1>13. Typed'
    <2>1. ASSUME NEW t \in Owners', NEW fd \in Fds, ofile'[t][fd] # None
          PROVE  \/ type[ofile'[t][fd]] = "inode"
                 \/ \E q \in Procs : call[q].op = "opened" /\ call[q].at = ofile'[t][fd]
      <3>1. PICK u \in Owners : ofile'[t][fd] = ofile[u][fd]
        BY <1>5, <1>6, <1>7, <1>8 DEF Owners
      <3> QED BY <2>1, <3>1 DEF RefState, Typed
    <2> QED BY <1>6, <2>1 DEF Typed
  <1>14. FilesExact'
    <2>1. ASSUME NEW f \in Files
          PROVE  ref'[f] + Cardinality(InCall({"duped"}, f)')
                 = Cardinality(Entries(f)') + Cardinality(InCall(Opening, f)')
      <3>1. PICK S : S = {fd \in Fds : ofile[p][fd] = f}
        OBVIOUS
      <3>2. S \in SUBSET Fds
        BY <3>1
      <3>3. IsFiniteSet(S)
        BY <3>2, Constants, FS_Subset
      <3>4. IsFiniteSet({np} \X S) /\ Cardinality({np} \X S) = Dups(p, f)
        BY <3>1, <3>3, Paired DEF Dups
      <3>5. Entries(f)' = Entries(f) \cup ({np} \X S)
        BY <1>5, <1>6, <1>7, <1>8, <3>1 DEF Entries, Owners
      <3>6. Entries(f) \cap ({np} \X S) = {}
        BY <1>8 DEF Entries
      <3>7. IsFiniteSet(Entries(f)) /\ Cardinality(Entries(f)) \in Nat /\ Dups(p, f) \in Nat
        BY Finite, DupsType
      <3>8. Cardinality(Entries(f)') = Cardinality(Entries(f)) + Dups(p, f)
        <4>1. /\ Cardinality(Entries(f) \cup ({np} \X S))
                 = Cardinality(Entries(f)) + Cardinality({np} \X S)
                   - Cardinality(Entries(f) \cap ({np} \X S))
          BY <3>4, <3>7, FS_Union
        <4>2. Cardinality(Entries(f) \cap ({np} \X S)) = 0
          BY <3>6, FS_EmptySet
        <4> QED BY <3>4, <3>5, <3>7, <4>1, <4>2
      <3>9. ref'[f] = ref[f] + Dups(p, f) /\ ref[f] \in Nat
        BY <1>1 DEF Forked, TypeInv, Ranges
      <3>10. /\ InCall({"duped"}, f)' = InCall({"duped"}, f)
             /\ InCall(Opening, f)' = InCall(Opening, f)
        BY <1>6 DEF InCall, Opening
      <3>11. /\ Cardinality(InCall({"duped"}, f)) \in Nat
             /\ Cardinality(InCall(Opening, f)) \in Nat
        BY Finite
      <3> QED BY <3>7, <3>8, <3>9, <3>10, <3>11 DEF RefState, FilesExact
    <2> QED BY <2>1 DEF FilesExact, Opening
  <1>15. FoldersExact'
    <2>1. ASSUME NEW i \in Folders
          PROVE  uses'[i] + Cardinality(Putting(i)')
                 = Cardinality(Residents(i)') + Cardinality(InCall(Moving, i)')
      <3>1. Putting(i)' = Putting(i)
        BY <1>6, <1>9 DEF Putting
      <3>2. InCall(Moving, i)' = InCall(Moving, i)
        BY <1>6 DEF InCall, Moving
      <3>3. IsFiniteSet(Residents(i)) /\ Cardinality(Residents(i)) \in Nat
        BY Finite
      <3>4. Cardinality(Residents(i)') = Cardinality(Residents(i)) + Is(k, i)
        <4>1. \A t \in Owners : t \in Residents(i)' <=> t \in Residents(i)
          BY <1>6, <1>8 DEF Residents, Owners
        <4>2. /\ np \in Residents(i)' <=> k = i
              /\ np \notin Residents(i)
              /\ Residents(i) \subseteq Owners /\ Residents(i)' \subseteq Owners \cup {np}
          BY <1>6, <1>8 DEF Residents
        <4>3. CASE k = i
          <5>1. Residents(i)' = Residents(i) \cup {np}
            BY <4>1, <4>2, <4>3
          <5> QED BY <3>3, <4>2, <4>3, <5>1, Swap DEF Is
        <4>4. CASE k # i
          <5>1. Residents(i)' = Residents(i)
            BY <4>1, <4>2, <4>4
          <5> QED BY <3>3, <4>4, <5>1 DEF Is
        <4> QED BY <4>3, <4>4
      <3>5. uses'[i] = uses[i] + Is(k, i) /\ Is(k, i) \in Int /\ uses[i] \in Int
        BY <1>6 DEF TypeInv, Ranges, Is
      <3>6. Cardinality(Putting(i)) \in Nat /\ Cardinality(InCall(Moving, i)) \in Nat
        BY Finite
      <3>7. uses[i] + Cardinality(Putting(i)) = Cardinality(Residents(i)) + Cardinality(InCall(Moving, i))
        BY DEF RefState, FoldersExact
      <3> QED BY <3>1, <3>2, <3>3, <3>4, <3>5, <3>6, <3>7
    <2> QED BY <2>1 DEF FoldersExact, Moving
  <1>16. ASSUME DirState PROVE panic' = panic
    <2>1. pgdir[p] = g /\ g # None /\ mapped[pgdir[p]] = sz[p] /\ sz[p] \in Int
      BY <1>2, <1>3, <1>5, <1>16, Constants DEF DirState, Placed, Mapped, Stale, TypeInv, Ranges
    <2>2. ~(pgdir[p] = None \/ mapped[pgdir[p]] < sz[p])
      BY <2>1
    <2>3. ASSUME NEW f \in Files, Dups(p, f) > 0 PROVE ref[f] > 0
      <3>1. {fd \in Fds : ofile[p][fd] = f} # {}
        BY <2>3, FS_EmptySet DEF Dups
      <3>2. PICK fd \in Fds : ofile[g][fd] = f
        BY <1>5, <3>1
      <3> QED BY <1>5, <3>2, Referenced DEF GroupState
    <2> QED BY <1>1, <2>2, <2>3 DEF Forked
  <1> QED BY <1>10, <1>11, <1>12, <1>13, <1>14, <1>15, <1>16 DEF RefState

\* What the table of an owner that exits alone has of a file has its own
\* references, and what is left in the other tables keeps the file open.
LEMMA ExitCount ==
  ASSUME TypeInv, GroupState, RefState, NEW p \in Procs, tg[p] = p, call[p].op = "idle",
         \A q \in Procs : st[q] # "UNUSED" /\ tg[q] = p => q = p,
         st[p] = "LIVE", Owners' = Owners,
         \A fd \in Fds : ofile'[p][fd] = None,
         \A q \in Procs \ {p} : ofile'[q] = ofile[q],
         NEW f \in Files
  PROVE  /\ Dups(p, f) \in Nat
         /\ Cardinality(Entries(f)) = Cardinality(Entries(f)') + Dups(p, f)
         /\ Cardinality(Entries(f)') \in Nat
         /\ Dups(p, f) <= ref[f]
         /\ \A t \in Owners, fd \in Fds : ofile'[t][fd] = f => Dups(p, f) < ref[f]
  <1>1. p \in Owners /\ f # None /\ Owners \subseteq Procs
    BY Constants DEF Owners
  <1>2. PICK S : S = {fd \in Fds : ofile[p][fd] = f}
    OBVIOUS
  <1>3. S \in SUBSET Fds
    BY <1>2
  <1>4. IsFiniteSet(S)
    BY <1>3, Constants, FS_Subset
  <1>5. PICK N : N = {p} \X S
    OBVIOUS
  <1>6. PICK E : E = Entries(f)'
    OBVIOUS
  <1>7. IsFiniteSet(N) /\ Cardinality(N) = Dups(p, f) /\ Dups(p, f) \in Nat
    <2>1. Cardinality(S) = Dups(p, f)
      BY <1>2 DEF Dups
    <2>2. IsFiniteSet({p} \X S) /\ Cardinality({p} \X S) = Cardinality(S)
      BY <1>4, Paired
    <2> QED BY <1>5, <2>1, <2>2, DupsType
  <1>8. /\ \A t \in Owners, fd \in Fds : <<t, fd>> \in E <=> t # p /\ ofile[t][fd] = f
        /\ E \subseteq Owners \X Fds
    BY <1>1, <1>6 DEF Entries
  <1>9. Entries(f) = E \cup N /\ E \cap N = {}
    BY <1>1, <1>2, <1>3, <1>5, <1>8 DEF Entries
  <1>10. IsFiniteSet(Entries(f)) /\ Cardinality(Entries(f)) \in Nat /\ E \subseteq Entries(f)
    BY <1>9, Finite
  <1>11. IsFiniteSet(E) /\ Cardinality(E) \in Nat
    BY <1>10, FS_Subset, FS_CardinalityType
  <1>12. Cardinality(Entries(f)) = Cardinality(E) + Dups(p, f)
    <2>1. Cardinality(E \cup N) = Cardinality(E) + Cardinality(N) - Cardinality(E \cap N)
      BY <1>7, <1>11, FS_Union
    <2>2. Cardinality(E \cap N) = 0
      BY <1>9, FS_EmptySet
    <2> QED BY <1>7, <1>9, <1>11, <2>1, <2>2
  <1>13. PICK D : D = InCall({"duped"}, f)
    OBVIOUS
  <1>14. /\ \A q \in D : tg[q] \in Owners
                        /\ \E a, b \in Fds : a # b /\ ofile[tg[q]][a] = f /\ ofile[tg[q]][b] = f
         /\ \A q, r \in D : tg[q] = tg[r] => q = r
    BY <1>13, Spread DEF GroupState, RefState
  <1>15. \A q \in D : tg[q] # p
    <2> TAKE q \in D
    <2>1. q \in Procs /\ call[q].op # "idle"
      BY <1>13 DEF InCall
    <2>2. st[q] # "UNUSED"
      BY <2>1, Idles
    <2> QED BY <2>1, <2>2
  <1>16. \A q \in D : \E a, b : a # b /\ <<tg[q], a>> \in E /\ <<tg[q], b>> \in E
    <2> TAKE q \in D
    <2>1. PICK a \in Fds, b \in Fds : a # b /\ ofile[tg[q]][a] = f /\ ofile[tg[q]][b] = f
      BY <1>14
    <2>2. <<tg[q], a>> \in E /\ <<tg[q], b>> \in E
      BY <1>8, <1>14, <1>15, <2>1
    <2> QED BY <2>1, <2>2
  <1>17. IsFiniteSet(D) /\ Cardinality(D) \in Nat
    BY <1>13, Finite
  <1>18. Cardinality(D) <= Cardinality(E) /\ (E # {} => Cardinality(D) < Cardinality(E))
    BY <1>11, <1>14, <1>16, <1>17, Surplus
  <1>19. /\ ref[f] + Cardinality(D) = Cardinality(Entries(f)) + Cardinality(InCall(Opening, f))
         /\ ref[f] \in Nat /\ Cardinality(InCall(Opening, f)) \in Nat
    BY <1>13, Finite DEF RefState, FilesExact, TypeInv, Ranges
  <1>20. Dups(p, f) <= ref[f] /\ (E # {} => Dups(p, f) < ref[f])
    BY <1>7, <1>11, <1>12, <1>17, <1>18, <1>19
  <1>21. \A t \in Owners, fd \in Fds : ofile'[t][fd] = f => E # {}
    BY <1>1, <1>8
  <1> QED BY <1>6, <1>7, <1>11, <1>12, <1>20, <1>21

LEMMA ExitOwnerRef ==
  ASSUME TypeInv, GroupState, RefState, NEW p \in Procs, Exit(p), tg[p] = p,
         upset' \cap {"owner"} = {}
  PROVE  RefState' /\ panic' = panic
  <1>1. Left(p) /\ Closed(p) /\ st[p] = "LIVE" /\ p \in Live /\ call[p].op = "idle"
    BY ExitParts DEF Left, At, Live
  <1>2. \A q \in Procs : st[q] # "UNUSED" /\ tg[q] = p => q = p
    BY ExitGroup
  <1>3. PICK k \in Folders : k = cwd[p]
    BY <1>1 DEF GroupState, Rooms
  <1>4. /\ st'[p] = "ZOMBIE" /\ call' = call /\ tg' = tg
        /\ cwd'[p] = None /\ \A fd \in Fds : ofile'[p][fd] = None
        /\ \A q \in Procs \ {p} : st'[q] = st[q] /\ ofile'[q] = ofile[q] /\ cwd'[q] = cwd[q]
        /\ uses' = [uses EXCEPT ![k] = uses[k] - 1]
    BY <1>1, <1>3 DEF Left, Closed, TypeInv, Ranges
  <1>5. Owners' = Owners /\ p \in Owners /\ Owners \subseteq Procs
    BY <1>1, <1>4 DEF Owners
  <1>6. /\ ref' = [f \in Files |-> IF ref[f] < Dups(p, f) THEN 0 ELSE ref[f] - Dups(p, f)]
        /\ type' = [f \in Files |-> IF Dups(p, f) > 0 /\ ref'[f] = 0 THEN "none" ELSE type[f]]
        /\ panic' = panic \/ \E f \in Files : ~(Dups(p, f) <= ref[f])
    BY <1>1, Closes DEF Closed
  <1>7. ASSUME NEW f \in Files
        PROVE  /\ Dups(p, f) \in Nat
               /\ Cardinality(Entries(f)) = Cardinality(Entries(f)') + Dups(p, f)
               /\ Cardinality(Entries(f)') \in Nat
               /\ Dups(p, f) <= ref[f]
               /\ \A t \in Owners, fd \in Fds : ofile'[t][fd] = f => Dups(p, f) < ref[f]
    BY <1>1, <1>2, <1>4, <1>5, ExitCount
  <1>8. \A q \in Procs : call[q].op # "idle" =>
          tg[q] # p /\ tg[q] \in Owners /\ ofile'[tg[q]] = ofile[tg[q]] /\ cwd'[tg[q]] = cwd[tg[q]]
    <2> TAKE q \in Procs
    <2> HAVE call[q].op # "idle"
    <2>1. st[q] # "UNUSED" /\ tg[q] \in Owners /\ q # p
      BY <1>1, Busy DEF GroupState, Live
    <2> QED BY <1>2, <1>4, <1>5, <2>1
  <1>9. Alone'
    BY <1>4 DEF RefState, Alone
  <1>10. Held'
    <2>1. ASSUME NEW q \in Procs PROVE HoldsIn(call[q], ofile'[tg[q]])
      <3>1. CASE call[q].op = "idle"
        BY <3>1 DEF HoldsIn
      <3>2. CASE call[q].op # "idle"
        BY <1>8, <3>2 DEF RefState, Held
      <3> QED BY <3>1, <3>2
    <2> QED BY <1>4, <2>1 DEF Held
  <1>11. \A t \in Owners, fd \in Fds :
           ofile'[t][fd] # None => t # p /\ ofile'[t][fd] = ofile[t][fd]
    BY <1>4, <1>5
  <1>12. Fresh'
    <2>1. ASSUME NEW q \in Procs, call[q].op \in {"open", "opento", "opened"}
          PROVE  call[q].at # None
      BY <2>1, Constants DEF TypeInv, CallsHere, CallsOK, GoodCall, Ops
    <2>2. ASSUME NEW q \in Procs, call[q].op \in {"open", "opento"}
          PROVE  /\ \A t \in Owners, fd \in Fds : ofile'[t][fd] # call[q].at
                 /\ \A r \in Procs : call[r].op \in Opening /\ call[r].at = call[q].at => r = q
      BY <1>11, <2>1, <2>2 DEF RefState, Fresh
    <2>3. ASSUME NEW q \in Procs, call[q].op = "opened"
          PROVE  \A t \in Owners, fd \in Fds : ofile'[t][fd] = call[q].at => t = tg[q]
      BY <1>11, <2>1, <2>3 DEF RefState, Fresh
    <2> QED BY <1>4, <1>5, <2>2, <2>3 DEF Fresh
  <1>13. Typed'
    <2>1. ASSUME NEW t \in Owners, NEW fd \in Fds, ofile'[t][fd] # None
          PROVE  \/ type'[ofile'[t][fd]] = "inode"
                 \/ \E q \in Procs : call[q].op = "opened" /\ call[q].at = ofile'[t][fd]
      <3>1. PICK f \in Files : f = ofile'[t][fd] /\ f = ofile[t][fd]
        BY <1>5, <1>11, <2>1 DEF TypeInv, Ranges
      <3>2. Dups(p, f) < ref[f] /\ Dups(p, f) \in Nat /\ ref[f] \in Nat
        BY <1>7, <3>1 DEF TypeInv, Ranges
      <3>3. ref'[f] # 0
        BY <1>6, <3>2
      <3>4. type'[f] = type[f]
        BY <1>6, <3>3
      <3>5. \/ type[f] = "inode"
            \/ \E q \in Procs : call[q].op = "opened" /\ call[q].at = f
        BY <2>1, <3>1 DEF RefState, Typed
      <3> QED BY <3>1, <3>4, <3>5
    <2> QED BY <1>4, <1>5, <2>1 DEF Typed
  <1>14. FilesExact'
    <2>1. ASSUME NEW f \in Files
          PROVE  ref'[f] + Cardinality(InCall({"duped"}, f)')
                 = Cardinality(Entries(f)') + Cardinality(InCall(Opening, f)')
      <3>1. /\ Dups(p, f) \in Nat /\ Cardinality(Entries(f)') \in Nat
            /\ Cardinality(Entries(f)) = Cardinality(Entries(f)') + Dups(p, f)
            /\ Dups(p, f) <= ref[f] /\ ref[f] \in Nat
        BY <1>7 DEF TypeInv, Ranges
      <3>2. ref'[f] = ref[f] - Dups(p, f)
        BY <1>6, <3>1
      <3>3. /\ InCall({"duped"}, f)' = InCall({"duped"}, f)
            /\ InCall(Opening, f)' = InCall(Opening, f)
        BY <1>4 DEF InCall, Opening
      <3>4. /\ Cardinality(InCall({"duped"}, f)) \in Nat
            /\ Cardinality(InCall(Opening, f)) \in Nat
        BY Finite
      <3> QED BY <3>1, <3>2, <3>3, <3>4 DEF RefState, FilesExact
    <2> QED BY <2>1 DEF FilesExact, Opening
  <1>15. FoldersExact'
    <2>1. ASSUME NEW i \in Folders
          PROVE  uses'[i] + Cardinality(Putting(i)')
                 = Cardinality(Residents(i)') + Cardinality(InCall(Moving, i)')
      <3>1. Putting(i)' = Putting(i)
        BY <1>4, <1>8 DEF Putting
      <3>2. InCall(Moving, i)' = InCall(Moving, i)
        BY <1>4 DEF InCall, Moving
      <3>3. IsFiniteSet(Residents(i)) /\ Cardinality(Residents(i)) \in Nat
        BY Finite
      <3>4. Cardinality(Residents(i)') = Cardinality(Residents(i)) - Is(k, i)
        <4>1. /\ \A t : t # p => (t \in Residents(i)' <=> t \in Residents(i))
              /\ p \notin Residents(i)' /\ (p \in Residents(i) <=> k = i)
          BY <1>3, <1>4, <1>5, Constants DEF Residents
        <4>2. CASE k = i
          <5>1. Residents(i)' = Residents(i) \ {p}
            BY <4>1, <4>2
          <5> QED BY <3>3, <4>1, <4>2, <5>1, Swap DEF Is
        <4>3. CASE k # i
          <5>1. Residents(i)' = Residents(i)
            BY <4>1, <4>3
          <5> QED BY <3>3, <4>3, <5>1 DEF Is
        <4> QED BY <4>2, <4>3
      <3>5. uses'[i] = uses[i] - Is(k, i) /\ Is(k, i) \in Int /\ uses[i] \in Int
        BY <1>4 DEF TypeInv, Ranges, Is
      <3>6. Cardinality(Putting(i)) \in Nat /\ Cardinality(InCall(Moving, i)) \in Nat
        BY Finite
      <3>7. uses[i] + Cardinality(Putting(i)) = Cardinality(Residents(i)) + Cardinality(InCall(Moving, i))
        BY DEF RefState, FoldersExact
      <3> QED BY <3>1, <3>2, <3>3, <3>4, <3>5, <3>6, <3>7
    <2> QED BY <2>1 DEF FoldersExact, Moving
  <1>16. panic' = panic
    BY <1>6, <1>7
  <1> QED BY <1>9, <1>10, <1>12, <1>13, <1>14, <1>15, <1>16 DEF RefState

-----------------------------------------------------------------------------
(* All the steps.                                                          *)

LEMMA FilesRef ==
  ASSUME TypeInv, GroupState, RefState, NEW p \in Procs, OnFiles(p), upset' \cap {"race"} = {}
  PROVE  RefState' /\ panic' = panic
  <1>1. CASE \E op \in {"close", "dup", "use"} : Argfd(p, op)
    BY <1>1, ArgfdRef DEF Argfd
  <1>2. CASE CloseFd(p) \/ CloseDone(p) \/ UseDone(p)
    BY <1>2, CloseFdRef, CloseDoneRef, UseDoneRef
  <1>3. CASE Open(p) \/ OpenDone(p)
    BY <1>3, OpenRef, OpenDoneRef DEF Open, OpenDone
  <1>4. CASE FdScan(p) \/ FdStore(p) \/ DupDone(p)
    BY <1>4, FdScanRef, FdStoreRef, DupDoneRef
  <1> QED BY <1>1, <1>2, <1>3, <1>4 DEF OnFiles

LEMMA StepRef ==
  ASSUME TypeInv, GroupState, RefState, NEW p \in Procs, Step(p),
         Spared({"race", "stale", "leftover", "exec", "owner"})'
  PROVE  /\ RefState'
         /\ DirState => panic' = panic
  <1>1. /\ upset' \cap {"race"} = {} /\ upset' \cap {"stale"} = {} /\ upset' \cap {"leftover"} = {}
        /\ upset' \cap {"exec"} = {} /\ upset' \cap {"owner"} = {}
    BY DEF Spared
  <1>2. Grouped
    BY DEF GroupState
  <1>3. CASE OnFiles(p)
    BY <1>1, <1>3, FilesRef
  <1>4. CASE OnFolder(p)
    BY <1>1, <1>4, ChdirRef, ChdirPutRef, ChdirDoneRef DEF OnFolder
  <1>5. CASE Growproc(p)
    <2>1. panic' = panic
      BY <1>5 DEF Growproc
    <2> QED BY <1>5, <2>1, MemoryRef
  <1>6. CASE Exec(p)
    BY <1>1, <1>2, <1>6, MemoryRef, ExecDirs
  <1>7. CASE Fork(p)
    BY <1>1, <1>7, ForkRef
  <1>8. CASE Clone(p)
    <2>1. panic' = panic
      BY <1>8 DEF Clone
    <2> QED BY <1>8, <2>1, CloneRef
  <1>9. CASE Exit(p)
    BY <1>1, <1>9, ExitThreadRef, ExitOwnerRef
  <1>10. CASE Wait(p)
    <2>1. PICK q : Waited(p, q)
      BY <1>10, WaitChild
    <2> QED BY <1>2, <2>1, WaitRef, WaitDirs
  <1> QED BY <1>3, <1>4, <1>5, <1>6, <1>7, <1>8, <1>9, <1>10, Steps

LEMMA RefInit == Init => RefInv
  <1> SUFFICES ASSUME Init PROVE RefState
      BY DEF RefInv
  <1>1. PICK l \in Folders : l = Least(Folders)
    BY Constants, ThreadsAssumption, LeastIn
  <1>2. \A p \in Procs : call[p].op = "idle"
    BY DEF Init, Idle
  <1>3. Owners = {1, 2}
    BY Constants DEF Init, Owners, Procs, initproc
  <1>4. \A t \in Owners, fd \in Fds : ofile[t][fd] = IF t = 2 /\ fd = 0 THEN 1 ELSE None
    BY Constants DEF Init, Owners
  <1>5. Alone /\ Held /\ Fresh
    BY <1>2 DEF Alone, Held, HoldsIn, Fresh
  <1>6. Typed
    BY <1>4, Constants DEF Init, Typed
  <1>7. ASSUME NEW ops, NEW x, "idle" \notin ops PROVE Cardinality(InCall(ops, x)) = 0
    <2>1. InCall(ops, x) = {}
      BY <1>2, <1>7 DEF InCall
    <2> QED BY <2>1, FS_EmptySet
  <1>8. FilesExact
    <2>1. ASSUME NEW f \in Files PROVE ref[f] = Cardinality(Entries(f))
      <3>1. CASE f = 1
        <4>1. Entries(f) = {<<2, 0>>}
          BY <1>3, <1>4, <3>1, Constants DEF Entries, None
        <4>2. Cardinality({<<2, 0>>}) = 1
          BY FS_Singleton
        <4> QED BY <3>1, <4>1, <4>2 DEF Init
      <3>2. CASE f # 1
        <4>1. Entries(f) = {}
          BY <1>4, <3>2, Constants DEF Entries
        <4> QED BY <3>2, <4>1, FS_EmptySet DEF Init
      <3> QED BY <3>1, <3>2
    <2>2. \A f : /\ Cardinality(InCall({"duped"}, f)) = 0
                 /\ Cardinality(InCall(Opening, f)) = 0
      BY <1>7 DEF Opening
    <2> QED BY <2>1, <2>2, Finite DEF FilesExact
  <1>9. FoldersExact
    <2>1. ASSUME NEW i \in Folders PROVE uses[i] = Cardinality(Residents(i))
      <3>1. \A t \in Owners : cwd[t] = l
        BY <1>1, <1>3, Constants DEF Init, initproc
      <3>2. uses[i] = IF i = l THEN 2 ELSE 0
        BY <1>1 DEF Init
      <3>3. CASE i = l
        <4>1. Residents(i) = {1} \cup {2} /\ 2 \notin {1}
          BY <1>3, <3>1, <3>3 DEF Residents
        <4>2. IsFiniteSet({1}) /\ Cardinality({1}) = 1
          BY FS_Singleton
        <4> QED BY <3>2, <3>3, <4>1, <4>2, FS_AddElement
      <3>4. CASE i # l
        <4>1. Residents(i) = {}
          BY <3>1, <3>4 DEF Residents
        <4> QED BY <3>2, <3>4, <4>1, FS_EmptySet
      <3> QED BY <3>3, <3>4
    <2>2. ASSUME NEW i PROVE Cardinality(Putting(i)) = 0
      <3>1. Putting(i) = {}
        BY <1>2 DEF Putting
      <3> QED BY <3>1, FS_EmptySet
    <2>3. \A i : Cardinality(InCall(Moving, i)) = 0
      BY <1>7 DEF Moving
    <2> QED BY <2>1, <2>2, <2>3, Finite DEF FoldersExact
  <1> QED BY <1>5, <1>6, <1>8, <1>9 DEF RefState

LEMMA RefNext == TypeInv /\ GroupInv /\ RefInv /\ [Next]_vars => RefInv'
  <1>1. ASSUME TypeInv, GroupInv, RefInv, NEW p \in Procs, Step(p),
               Spared({"race", "stale", "leftover", "exec", "owner"})'
        PROVE  RefState'
    <2>1. GroupState /\ RefState
      BY <1>1, UpsetGrows DEF GroupInv, RefInv, Spared
    <2> QED BY <1>1, <2>1, StepRef
  <1>2. ASSUME RefInv, UNCHANGED vars PROVE RefInv'
    <2>1. UNCHANGED <<call, ofile, cwd, ref, type, uses, st, tg, upset>>
      BY <1>2 DEF vars, slots, shared
    <2>2. Owners' = Owners
      BY <2>1 DEF Owners
    <2>3. Held => Held'
      BY <2>1 DEF Held, HoldsIn
    <2>4. (Alone => Alone') /\ (Fresh => Fresh') /\ (Typed => Typed')
      BY <2>1, <2>2 DEF Alone, Fresh, Opening, Typed
    <2>5. FilesExact => FilesExact'
      <3>1. \A f : Entries(f)' = Entries(f)
        BY <2>1, <2>2 DEF Entries
      <3>2. \A f : /\ InCall({"duped"}, f)' = InCall({"duped"}, f)
                   /\ InCall(Opening, f)' = InCall(Opening, f)
        BY <2>1 DEF InCall, Opening
      <3> QED BY <2>1, <3>1, <3>2 DEF FilesExact
    <2>6. FoldersExact => FoldersExact'
      <3>1. \A i : Putting(i)' = Putting(i) /\ Residents(i)' = Residents(i)
        BY <2>1, <2>2 DEF Putting, Residents
      <3>2. \A i : InCall(Moving, i)' = InCall(Moving, i)
        BY <2>1 DEF InCall, Moving
      <3> QED BY <2>1, <3>1, <3>2 DEF FoldersExact
    <2> QED BY <1>2, <2>1, <2>3, <2>4, <2>5, <2>6 DEF RefInv, Spared, RefState
  <1> QED BY <1>1, <1>2 DEF Next, RefInv

LEMMA SurvivesNext ==
  TypeInv /\ GroupInv /\ DirInv /\ RefInv /\ Survives /\ [Next]_vars => Survives'
  <1>1. ASSUME TypeInv, GroupInv, DirInv, RefInv, Survives, NEW p \in Procs, Step(p), upset' = {}
        PROVE  panic' = "no"
    <2>1. upset = {}
      BY <1>1, UpsetGrows
    <2>2. GroupState /\ DirState /\ RefState /\ panic = "no"
      BY <1>1, <2>1 DEF GroupInv, DirInv, RefInv, Spared, Survives
    <2>3. Spared({"race", "stale", "leftover", "exec", "owner"})'
      BY <1>1 DEF Spared
    <2> QED BY <1>1, <2>2, <2>3, StepRef
  <1>2. ASSUME Survives, UNCHANGED vars PROVE Survives'
    BY <1>2 DEF vars, Survives
  <1> QED BY <1>1, <1>2 DEF Next, Survives

-----------------------------------------------------------------------------
(* The theorems.                                                           *)

ThreadInv == TypeInv /\ GroupInv /\ DirInv /\ RefInv /\ Survives

\* In every reachable state of clone, fork, exec, exit, wait, sbrk and the
\* descriptor calls the slots have their types, a group has its owner, a
\* thread is its group's child, and the calls hold what they count on, each
\* but for the upsets it names.
THEOREM ThreadInvariant == Spec => []ThreadInv
  <1>1. Init => ThreadInv
    BY TypeInit, GroupInit, DirInit, RefInit DEF ThreadInv, Survives, Init
  <1>2. ThreadInv /\ [Next]_vars => ThreadInv'
    BY TypeNext, GroupNext, DirNext, RefNext, SurvivesNext DEF ThreadInv
  <1> QED BY <1>1, <1>2, PTL DEF Spec

\* Every variable has its type, and exit is never reached from the middle of
\* a call: whatever proc.c and sysfile.c do, upset or not.
THEOREM ThreadTypes == Spec => []TypeOK
  <1>1. ThreadInv => TypeOK
    BY TypeParts DEF ThreadInv
  <1> QED BY <1>1, ThreadInvariant, PTL

\* The reference counts of file.c and fs.c are those of the owners' tables
\* and of the calls under way; the copies clone leaves in a thread's slot
\* count for nothing, and are neither closed nor put by its exit.
THEOREM CountsExact == Spec => []RefsExact
  <1>1. ThreadInv => RefsExact
    BY RefsExactHolds DEF ThreadInv
  <1> QED BY <1>1, ThreadInvariant, PTL

\* Of the page directories there are just the owners', each as large as the
\* size growproc keeps: wait frees a directory with its owner, and with
\* nobody on it.
THEOREM DirectoriesExact == Spec => []DirsExact
  <1>1. ThreadInv => DirsExact
    BY DirsExactHolds DEF ThreadInv
  <1> QED BY <1>1, ThreadInvariant, PTL

\* While nothing upsets a group no call of its members runs into an assertion
\* of fileclose, filedup, iput, freevm or copyuvm, or uses a closed file.
THEOREM GroupSurvives == Spec => []Survives
  <1>1. ThreadInv => Survives
    BY DEF ThreadInv
  <1> QED BY <1>1, ThreadInvariant, PTL

=============================================================================
