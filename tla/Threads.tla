------------------------------ MODULE Threads ------------------------------
(***************************************************************************)
(* The thread groups of lab 3 (DesignOS-xv6-public-lab3/kernel/src: clone, *)
(* fork, growproc, exit and wait of proc.c, exec.c, the descriptor calls   *)
(* and chdir of sysfile.c, file.c): what the members of a group share (a   *)
(* page directory, the descriptors and directory of the owner tg) and the  *)
(* copies of it that each keeps in its own slot.                           *)
(*                                                                         *)
(* A slot is LIVE from fork or clone to exit; who runs and who sleeps is   *)
(* in Sched.  The descriptor calls and chdir take no lock on the group, so *)
(* they are several steps; the copies fork and clone make are one, with    *)
(* the members' calls in any state around it.                              *)
(***************************************************************************)
EXTENDS Integers, FiniteSets

CONSTANTS
  NPROC, NOFILE, NFILE,
  Folders,     \* directories to chdir to; the smallest is the first cwd
  MaxPages,    \* bound: pages of a program
  MaxCalls,    \* bound: processes inside a call at once
  MaxUpsets,   \* bound: a run ends with so many kinds of upset
  Kits         \* the sets of calls the programs of a behaviour may make

ASSUME ThreadsAssumption ==
  /\ NPROC \in Nat /\ NPROC >= 2 /\ NOFILE \in Nat \ {0} /\ NFILE \in Nat \ {0}
  /\ MaxPages \in Nat \ {0} /\ Folders \subseteq Nat \ {0} /\ Folders # {}

VARIABLES
  st,          \* p->state
  parent,      \* p->parent
  tg,          \* p->tg
  ofile, cwd,  \* p->ofile and p->cwd: the group's if p is its owner, else a copy
  pgdir, sz,   \* p->pgdir, by the process it was set up for, None when it is
               \* freed under p; p->sz in pages
  ref,         \* ftable.file[].ref
  type,        \* ftable.file[].type: "none" or "inode"
  uses,        \* ip->ref of the folders
  mapped,      \* the pages each page directory maps; 0 if there is none
  call,        \* how far each process is in a call on descriptors or cwd
  panic,       \* what the kernel panicked in, "no" while it runs
  kit,         \* the calls the programs make
  upset        \* history: what happened that the code gives no protection from

slots == <<st, parent, tg>>
shared == <<ofile, cwd, ref, type, uses, call>>
memory == <<pgdir, sz, mapped>>
vars == <<slots, shared, memory, panic, kit, upset>>

Procs == 1 .. NPROC
Files == 1 .. NFILE
Fds == 0 .. NOFILE - 1
None == 0
initproc == 1
Least(S) == CHOOSE x \in S : \A y \in S : x <= y

Live == {p \in Procs : st[p] = "LIVE"}
Owners == {p \in Procs : st[p] # "UNUSED" /\ tg[p] = p}
Members(t) == {p \in Procs : st[p] # "UNUSED" /\ tg[p] = t}
Unused == {p \in Procs : st[p] = "UNUSED"}

\* A slot's pid is its own while it is used and 0 after, so the test of
\* wait on the pids of two owners comes to this.
SamePid(s, t) == s = t \/ {s, t} \subseteq Unused

Idle == [op |-> "idle", fd |-> 0, at |-> None]
At(p, op) == p \in Live /\ call[p].op = op
Begin(p) == At(p, "idle") /\ Cardinality({q \in Procs : call[q] # Idle}) < MaxCalls
Goto(p, op, fd, x) == call' = [call EXCEPT ![p] = [op |-> op, fd |-> fd, at |-> x]]
Return(p) == call' = [call EXCEPT ![p] = Idle]

\* Another member is inside a call, and not both only use a file.
Raced(p) ==
  \E q \in Members(tg[p]) \ {p} :
    /\ q \in Live /\ call[q].op # "idle"
    /\ ~(call[q].op = "use" /\ call[p].op \in {"idle", "use"})
Upset(kinds) == upset' = upset \cup kinds
Check(where, b) == panic' = IF b THEN panic ELSE where
If(b, kind) == IF b THEN {kind} ELSE {}

-----------------------------------------------------------------------------
(* The file table.                                                         *)

\* fileclose of a file by each of a set of descriptors <<p, fd>>.
CloseAll(s) ==
  LET n(f) == Cardinality({x \in s : ofile[x[1]][x[2]] = f})
  IN  /\ ref' = [f \in Files |-> IF ref[f] < n(f) THEN 0 ELSE ref[f] - n(f)]
      /\ type' = [f \in Files |-> IF n(f) > 0 /\ ref'[f] = 0 THEN "none" ELSE type[f]]
      /\ Check("fileclose", \A f \in Files : n(f) <= ref[f])

FileClose(f) ==
  /\ ref' = [ref EXCEPT ![f] = IF @ = 0 THEN 0 ELSE @ - 1]
  /\ type' = [type EXCEPT ![f] = IF ref[f] <= 1 THEN "none" ELSE @]
  /\ Check("fileclose", ref[f] > 0)

\* iput of a folder.
Put(i) ==
  /\ uses' = [j \in Folders |-> IF j = i THEN uses[j] - 1 ELSE uses[j]]
  /\ Check("iput", i # None)

FreeFds(p) == {fd \in Fds : ofile[tg[p]][fd] = None}

-----------------------------------------------------------------------------
(* The calls on descriptors, which act on the table of the owner.          *)

\* argfd finds the file; the call goes on with the pointer.
Argfd(p, op) ==
  /\ Begin(p) /\ op \in kit
  /\ \E fd \in Fds :
       /\ ofile[tg[p]][fd] # None
       /\ Goto(p, op, fd, ofile[tg[p]][fd])
  /\ Upset(If(Raced(p), "race"))
  /\ UNCHANGED <<slots, memory, ofile, cwd, ref, type, uses, panic>>

\* A slip: only the caller's own copy is cleared, as in the line left
\* commented out in sys_close.
CloseFdOwn(p) ==
  /\ At(p, "close")
  /\ ofile' = [ofile EXCEPT ![p][call[p].fd] = None]
  /\ Goto(p, "closed", 0, call[p].at)
  /\ Upset(If(Raced(p), "race"))
  /\ UNCHANGED <<slots, memory, cwd, ref, type, uses, panic>>

CloseFd(p) ==
  /\ At(p, "close")
  /\ ofile' = [ofile EXCEPT ![tg[p]][call[p].fd] = None]
  /\ Goto(p, "closed", 0, call[p].at)
  /\ Upset(If(Raced(p), "race"))
  /\ UNCHANGED <<slots, memory, cwd, ref, type, uses, panic>>

CloseDone(p) ==
  /\ At(p, "closed")
  /\ FileClose(call[p].at) /\ Return(p)
  /\ Upset(If(Raced(p), "race"))
  /\ UNCHANGED <<slots, memory, ofile, cwd, uses>>

\* fileread or filewrite, which holds no reference of its own.
UseDone(p) ==
  /\ At(p, "use")
  /\ Return(p)
  /\ Check("fileread", type[call[p].at] # "none")
  /\ Upset(If(Raced(p), "race"))
  /\ UNCHANGED <<slots, memory, ofile, cwd, ref, type, uses>>

\* filealloc, for open.
Open(p) ==
  /\ Begin(p) /\ "open" \in kit
  /\ \E f \in Files :
       /\ ref[f] = 0 /\ \A g \in Files : g < f => ref[g] > 0
       /\ ref' = [ref EXCEPT ![f] = 1]
       /\ Goto(p, "open", 0, f)
  /\ Upset(If(Raced(p), "race"))
  /\ UNCHANGED <<slots, memory, ofile, cwd, type, uses, panic>>

\* The scan of fdalloc; without a free descriptor open closes its file.
FdScan(p) ==
  /\ p \in Live /\ call[p].op \in {"open", "dup"}
  /\ IF FreeFds(p) # {}
     THEN /\ Goto(p, IF At(p, "open") THEN "opento" ELSE "dupto",
                  Least(FreeFds(p)), call[p].at)
          /\ UNCHANGED <<ref, type, panic>>
     ELSE /\ Return(p)
          /\ IF At(p, "open") THEN FileClose(call[p].at)
                              ELSE UNCHANGED <<ref, type, panic>>
  /\ Upset(If(Raced(p), "race"))
  /\ UNCHANGED <<slots, memory, ofile, cwd, uses>>

\* The store of fdalloc.
FdStore(p) ==
  /\ p \in Live /\ call[p].op \in {"opento", "dupto"}
  /\ ofile' = [ofile EXCEPT ![tg[p]][call[p].fd] = call[p].at]
  /\ Goto(p, IF At(p, "opento") THEN "opened" ELSE "duped", 0, call[p].at)
  /\ Upset(If(Raced(p), "race"))
  /\ UNCHANGED <<slots, memory, cwd, ref, type, uses, panic>>

OpenDone(p) ==
  /\ At(p, "opened")
  /\ type' = [type EXCEPT ![call[p].at] = "inode"]
  /\ Return(p)
  /\ Upset(If(Raced(p), "race"))
  /\ UNCHANGED <<slots, memory, ofile, cwd, ref, uses, panic>>

\* filedup, after the descriptor is in the table.
DupDone(p) ==
  /\ At(p, "duped")
  /\ ref' = [ref EXCEPT ![call[p].at] = @ + 1]
  /\ Check("filedup", ref[call[p].at] > 0)
  /\ Return(p)
  /\ Upset(If(Raced(p), "race"))
  /\ UNCHANGED <<slots, memory, ofile, cwd, type, uses>>

\* namei finds the folder of chdir and holds it.
Chdir(p) ==
  /\ Begin(p) /\ "chdir" \in kit
  /\ \E i \in Folders :
       uses' = [uses EXCEPT ![i] = @ + 1] /\ Goto(p, "chdir", 0, i)
  /\ Upset(If(Raced(p), "race"))
  /\ UNCHANGED <<slots, memory, ofile, cwd, ref, type, panic>>

\* iput of the group's folder.
ChdirPut(p) ==
  /\ At(p, "chdir")
  /\ Put(cwd[tg[p]])
  /\ Goto(p, "chdired", 0, call[p].at)
  /\ Upset(If(Raced(p), "race"))
  /\ UNCHANGED <<slots, memory, ofile, cwd, ref, type>>

ChdirDone(p) ==
  /\ At(p, "chdired")
  /\ cwd' = [cwd EXCEPT ![tg[p]] = call[p].at]
  /\ Return(p)
  /\ Upset(If(Raced(p), "race"))
  /\ UNCHANGED <<slots, memory, ofile, ref, type, uses, panic>>

-----------------------------------------------------------------------------
(* Memory.                                                                 *)

\* growproc: under the group's lock the caller first takes over the size the
\* group has.
Growproc(p) ==
  /\ At(p, "idle") /\ "sbrk" \in kit
  /\ \E n \in {-1, 1} :
       LET new == sz[tg[p]] + n IN
       /\ new \in 1 .. MaxPages
       /\ mapped' = [d \in Procs |-> IF d = pgdir[p] THEN new ELSE mapped[d]]
       /\ sz' = [sz EXCEPT ![p] = new, ![tg[p]] = new]
  /\ UNCHANGED <<slots, shared, pgdir, panic, upset>>

\* freevm of the directory of p: who else is on it has it no more.
Holders(p) == {q \in Procs : pgdir[q] = pgdir[p]}
Freevm(p) ==
  /\ pgdir' = [q \in Procs |-> IF q \in Holders(p) THEN None ELSE pgdir[q]]
  /\ mapped' = [d \in Procs |-> IF d = pgdir[p] THEN 0 ELSE mapped[d]]
  /\ Check("freevm", pgdir[p] # None)

\* exec: the caller is the owner of a group of its own, and the directory it
\* had is freed.
Exec(p) ==
  /\ At(p, "idle") /\ "exec" \in kit
  /\ pgdir' = [q \in Procs |-> IF q = p THEN p
                               ELSE IF q \in Holders(p) THEN None ELSE pgdir[q]]
  /\ mapped' = [d \in Procs |-> IF d = p THEN 1 ELSE IF d = pgdir[p] THEN 0 ELSE mapped[d]]
  /\ Check("freevm", pgdir[p] # None)
  /\ sz' = [sz EXCEPT ![p] = 1]
  /\ tg' = [tg EXCEPT ![p] = p]
  /\ Upset(If(\E q \in Members(tg[p]) \ {p} : q \in Live, "exec"))
  /\ UNCHANGED <<st, parent, shared>>

-----------------------------------------------------------------------------
(* Processes.                                                              *)

\* A copy that the group has changed since, or that the slot of the child
\* had from a thread before it.
Stale(p) ==
  \/ ofile[p] # ofile[tg[p]] \/ cwd[p] # cwd[tg[p]] \/ sz[p] # sz[tg[p]]
Leftover(p, np) == \E fd \in Fds : ofile[np][fd] # None /\ ofile[p][fd] = None

\* fork: the copies are of the caller's own fields.  The directory gets what
\* copyuvm finds mapped; a hole below sz is a panic.
Fork(p) ==
  /\ At(p, "idle") /\ "fork" \in kit /\ Unused # {}
  /\ LET np == Least(Unused)
         dups(f) == Cardinality({fd \in Fds : ofile[p][fd] = f})
     IN /\ st' = [st EXCEPT ![np] = "LIVE"]
        /\ parent' = [parent EXCEPT ![np] = p]
        /\ tg' = [tg EXCEPT ![np] = np]
        /\ pgdir' = [pgdir EXCEPT ![np] = np]
        /\ mapped' = [mapped EXCEPT ![np] = sz[p]]
        /\ sz' = [sz EXCEPT ![np] = sz[p]]
        /\ ofile' = [ofile EXCEPT ![np] =
             [fd \in Fds |-> IF ofile[p][fd] # None THEN ofile[p][fd] ELSE @[fd]]]
        /\ ref' = [f \in Files |-> ref[f] + dups(f)]
        /\ cwd' = [cwd EXCEPT ![np] = cwd[p]]
        /\ uses' = [uses EXCEPT ![cwd[p]] = @ + 1]
        /\ IF pgdir[p] = None \/ mapped[pgdir[p]] < sz[p] THEN panic' = "copyuvm"
           ELSE Check("filedup", \A f \in Files : dups(f) > 0 => ref[f] > 0)
        /\ Upset(If(Raced(p), "race") \cup If(Stale(p), "stale")
                   \cup If(Leftover(p, np), "leftover"))
  /\ UNCHANGED <<type, call>>

\* clone: the thread gets the group's files where the caller's own copy has
\* one, and counts none of them.
Clone(p) ==
  /\ At(p, "idle") /\ "clone" \in kit /\ Unused # {}
  /\ LET np == Least(Unused) IN
       /\ st' = [st EXCEPT ![np] = "LIVE"]
       /\ parent' = [parent EXCEPT ![np] = p]
       /\ tg' = [tg EXCEPT ![np] = tg[p]]
       /\ pgdir' = [pgdir EXCEPT ![np] = pgdir[p]]
       /\ sz' = [sz EXCEPT ![np] = sz[p]]
       /\ ofile' = [ofile EXCEPT ![np] =
            [fd \in Fds |-> IF ofile[p][fd] # None THEN ofile[tg[p]][fd] ELSE @[fd]]]
       /\ cwd' = [cwd EXCEPT ![np] = cwd[tg[p]]]
  /\ UNCHANGED <<ref, type, uses, call, mapped, panic, upset>>

\* A slip: a thread closes the files it has copies of.
ExitThread(p) ==
  /\ At(p, "idle") /\ p # initproc
  /\ CloseAll({<<p, fd>> : fd \in Fds})
  /\ uses' = [uses EXCEPT ![cwd[p]] = @ - 1]
  /\ ofile' = [ofile EXCEPT ![p] = [fd \in Fds |-> None]]
  /\ cwd' = [cwd EXCEPT ![p] = None]
  /\ st' = [st EXCEPT ![p] = "ZOMBIE"]
  /\ parent' = [q \in Procs |-> IF parent[q] = p THEN initproc ELSE parent[q]]
  /\ Upset(If(tg[p] = p /\ Members(p) # {p}, "owner")
           \cup If(\E q \in Members(tg[p]) : parent[q] = p /\ tg[q] # q, "orphan"))
  /\ UNCHANGED <<tg, call, memory>>

\* A slip: a process killed inside a call exits there and then.
ExitKilled(p) ==
  /\ p \in Live /\ p # initproc /\ tg[p] # p
  /\ st' = [st EXCEPT ![p] = "ZOMBIE"]
  /\ parent' = [q \in Procs |-> IF parent[q] = p THEN initproc ELSE parent[q]]
  /\ Upset(If(\E q \in Members(tg[p]) : parent[q] = p /\ tg[q] # q, "orphan"))
  /\ UNCHANGED <<tg, shared, memory, panic>>

\* exit: the owner closes the files and puts the folder; everyone's children
\* go to init.
Exit(p) ==
  /\ At(p, "idle") /\ p # initproc
  /\ IF tg[p] = p
     THEN /\ CloseAll({<<p, fd>> : fd \in Fds})
          /\ uses' = [uses EXCEPT ![cwd[p]] = @ - 1]
          /\ ofile' = [ofile EXCEPT ![p] = [fd \in Fds |-> None]]
          /\ cwd' = [cwd EXCEPT ![p] = None]
     ELSE UNCHANGED <<ref, type, uses, ofile, cwd, panic>>
  /\ st' = [st EXCEPT ![p] = "ZOMBIE"]
  /\ parent' = [q \in Procs |-> IF parent[q] = p THEN initproc ELSE parent[q]]
  /\ Upset(If(tg[p] = p /\ Members(p) # {p}, "owner")
           \cup If(\E q \in Members(tg[p]) : parent[q] = p /\ tg[q] # q, "orphan"))
  /\ UNCHANGED <<tg, call, memory>>

\* A slip: the directory goes with every child.
WaitAlways(p) ==
  /\ At(p, "idle")
  /\ \E q \in Procs :
       /\ parent[q] = p /\ st[q] = "ZOMBIE"
       /\ st' = [st EXCEPT ![q] = "UNUSED"]
       /\ parent' = [parent EXCEPT ![q] = None]
       /\ Freevm(q)
       /\ tg' = [tg EXCEPT ![q] = q] /\ cwd' = [cwd EXCEPT ![q] = None]
  /\ UNCHANGED <<ofile, ref, type, uses, call, sz, upset>>

\* wait, for the child it finds: a directory goes with a child of another
\* group.  Of what stays in the slot only the descriptors are read again:
\* the rest of it is cleared here.
Wait(p) ==
  /\ At(p, "idle")
  /\ \E q \in Procs :
       /\ parent[q] = p /\ st[q] = "ZOMBIE"
       /\ st' = [st EXCEPT ![q] = "UNUSED"]
       /\ parent' = [parent EXCEPT ![q] = None]
       /\ IF SamePid(tg[q], tg[p]) THEN UNCHANGED <<pgdir, mapped, panic>>
                                   ELSE Freevm(q)
       /\ tg' = [tg EXCEPT ![q] = q] /\ cwd' = [cwd EXCEPT ![q] = None]
  /\ UNCHANGED <<ofile, ref, type, uses, call, sz, upset>>

-----------------------------------------------------------------------------
\* init, whose own descriptors are left out, and a program with a file open.
Init ==
  /\ st = [p \in Procs |-> IF p <= 2 THEN "LIVE" ELSE "UNUSED"]
  /\ parent = [p \in Procs |-> IF p = 2 THEN initproc ELSE None]
  /\ tg = [p \in Procs |-> p]
  /\ ofile = [p \in Procs |-> [fd \in Fds |-> IF p = 2 /\ fd = 0 THEN 1 ELSE None]]
  /\ cwd = [p \in Procs |-> IF p <= 2 THEN Least(Folders) ELSE None]
  /\ pgdir = [p \in Procs |-> IF p <= 2 THEN p ELSE None]
  /\ sz = [p \in Procs |-> IF p <= 2 THEN 1 ELSE 0]
  /\ ref = [f \in Files |-> IF f = 1 THEN 1 ELSE 0]
  /\ type = [f \in Files |-> IF f = 1 THEN "inode" ELSE "none"]
  /\ uses = [i \in Folders |-> IF i = Least(Folders) THEN 2 ELSE 0]
  /\ mapped = [d \in Procs |-> IF d <= 2 THEN 1 ELSE 0]
  /\ call = [p \in Procs |-> Idle]
  /\ panic = "no" /\ kit \in Kits /\ upset = {}

\* init waits, and forks a shell when it has no children.
Step(p) ==
  \/ Wait(p)
  \/ p = initproc /\ (\A q \in Procs : parent[q] # p) /\ Fork(p)
  \/ /\ p # initproc
     /\ \/ \E op \in {"close", "dup", "use"} : Argfd(p, op)
        \/ CloseFd(p) \/ CloseDone(p) \/ UseDone(p)
        \/ Open(p) \/ FdScan(p) \/ FdStore(p) \/ OpenDone(p) \/ DupDone(p)
        \/ Chdir(p) \/ ChdirPut(p) \/ ChdirDone(p)
        \/ Growproc(p) \/ Exec(p) \/ Fork(p) \/ Clone(p) \/ Exit(p)

Next ==
  /\ panic = "no" /\ Cardinality(upset) < MaxUpsets
  /\ \E p \in Procs : Step(p)
  /\ UNCHANGED kit
Spec == Init /\ [][Next]_vars

-----------------------------------------------------------------------------
\* How far a call can be.
Ops == {"idle", "close", "closed", "use", "open", "dup", "opento", "dupto",
        "opened", "duped", "chdir", "chdired"}

\* Every variable has its type, and only a live process is inside a call:
\* exit is not reached from the middle of one.
TypeOK ==
  /\ st \in [Procs -> {"UNUSED", "LIVE", "ZOMBIE"}]
  /\ parent \in [Procs -> Procs \cup {None}]
  /\ tg \in [Procs -> Procs]
  /\ ofile \in [Procs -> [Fds -> Files \cup {None}]]
  /\ cwd \in [Procs -> Folders \cup {None}]
  /\ pgdir \in [Procs -> Procs \cup {None}]
  /\ sz \in [Procs -> 0 .. MaxPages]
  /\ mapped \in [Procs -> 0 .. MaxPages]
  /\ ref \in [Files -> Nat]
  /\ type \in [Files -> {"none", "inode"}]
  /\ uses \in [Folders -> Int]
  /\ call \in [Procs -> [op : Ops, fd : Nat, at : Nat]]
  /\ \A p \in Procs : call[p] # Idle => st[p] = "LIVE"
  /\ upset \subseteq {"race", "stale", "leftover", "exec", "owner", "orphan"}

Spared(kinds) == upset \cap kinds = {}
Count(S) == Cardinality(S)
Calling(ops, x) == Count({p \in Live : call[p].op \in ops /\ call[p].at = x})

\* The references of a file and of a folder are those of the tables of the
\* owners, zombies included, and of the calls under way; what threads have
\* in their slots counts for nothing.  It takes a race of two members, a
\* fork from or into a stale copy, or a group that loses its owner or is
\* split by exec, to make it false.
RefsExact ==
  Spared({"race", "stale", "leftover", "exec", "owner"}) =>
    /\ \A f \in Files :
         ref[f] + Calling({"duped"}, f)
         = Count({x \in Owners \X Fds : ofile[x[1]][x[2]] = f})
           + Calling({"open", "opento", "closed"}, f)
    /\ \A i \in Folders :
         uses[i] + Count({p \in Live : call[p].op = "chdired" /\ cwd[tg[p]] = i})
         = Count({p \in Owners : cwd[p] = i}) + Calling({"chdir", "chdired"}, i)

\* Every group has one page directory, which lasts from fork or exec until
\* the owner is waited for, and which every live member is on; its pages are
\* the tg->sz that growproc keeps, whichever member called it.
DirsExact ==
  Spared({"exec", "owner", "orphan"}) =>
    /\ {d \in Procs : mapped[d] > 0} = {pgdir[p] : p \in Owners}
    /\ \A p \in Live : /\ pgdir[p] = pgdir[tg[p]] /\ pgdir[p] # None
                       /\ mapped[pgdir[p]] = sz[tg[p]]

\* Threads that share files, folder and memory, fork, and come and go in any
\* order but the six of upset, meet no assertion of file.c, vm.c or fs.c.
Survives == upset = {} => panic = "no"
=============================================================================
