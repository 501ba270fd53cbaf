------------------------------- MODULE Inodes -------------------------------
(***************************************************************************)
(* Inodes, directories and permissions of lab 4 (kernel/src/fs.c, and      *)
(* open, close, link, unlink, mkdir, chdir, exec, chmod and chown of       *)
(* sysfile.c): what several processes in system calls at once do to the    *)
(* references and link counts of the inodes, and to each other through the *)
(* inodes' sleeplocks.                                                     *)
(*                                                                         *)
(* A step goes from one acquisition of a sleeplock to before the next; an  *)
(* iput is two, the test under the inode's lock and the decrement of ref   *)
(* under icache.lock.  An inode stands for its cache slot: iget keeps one  *)
(* slot per inode in use.  Every change is followed by iupdate in the same *)
(* step, so the copy on the disk is the same; that changes reach the disk  *)
(* together is Log's matter.                                               *)
(***************************************************************************)
EXTENDS Integers, Sequences, FiniteSets

CONSTANTS
  Procs,
  uid,          \* the users of the processes; 0 is root
  Inums,        \* inode numbers; the smallest is ROOTINO
  Names,        \* names in directories, beside "." and ".."
  Kits,         \* what the programs do: calls and paths, whether these start
                \* at the root, the slots that others leave in the inode cache
  MaxForgot,    \* bound: references that are never put
  MaxUpsets,    \* bound: kinds of upsetting steps before the behaviour ends
  None

Creating == {"create", "mkdir", "mknod"}
Calls == Creating \cup {"open", "link", "unlink", "chdir", "chattr", "exec"}

ASSUME InodesAssumption ==
  /\ IsFiniteSet(Procs) /\ IsFiniteSet(Names) /\ {".", ".."} \cap Names = {}
  /\ uid \in [Procs -> Nat]
  /\ IsFiniteSet(Inums) /\ Inums \subseteq Nat \ {0} /\ Inums # {}
  /\ None \notin Inums /\ None \notin Procs
  /\ \A kt \in Kits, p \in Procs :
       /\ kt.calls[p] \subseteq Calls
       /\ kt.paths[p] \subseteq Seq(Names \cup {".", ".."})
  /\ MaxForgot \in Nat /\ MaxUpsets \in Nat

VARIABLES
  ino,      \* the inodes: type, nlink, entries, owner, perms
  ref,      \* ip->ref
  lock,     \* the process that holds ip->lock
  cwd, fd,  \* p->cwd, and the inode of the one file p may have open
  k,        \* the system call each process is in
  panic,    \* what the kernel panicked in, "no" while it runs
  kit,      \* what the programs of this behaviour do
  forgot,   \* history: references a call returned without putting
  late,     \* history: inodes whose last two iputs overlapped
  upset     \* history: the steps that leave names and counts apart

state == <<ino, ref, lock, cwd, fd>>
history == <<forgot, late, upset>>
vars == <<state, k, panic, kit, history>>

Least(S) == CHOOSE x \in S : \A y \in S : x <= y
ROOTINO == Least(Inums)
NoEntries == [n \in Names |-> None]
NoInode == [type |-> "free", nlink |-> 0, up |-> None, entries |-> NoEntries,
            owner |-> 0, perms |-> {}]

\* pc: where in the call; then: what the inode looked up is for; path and at:
\* what is left of the path and where namex is; ip: the other inode the call
\* holds; again: the path that exec will look up a second time; put: the iputs
\* still to do, past: the first has been tested.
Idle == [pc |-> "idle", then |-> "none", path |-> <<>>, at |-> None,
         ip |-> None, again |-> <<>>, put |-> <<>>, past |-> FALSE]

ValidOwner(p, i) == uid[p] \in {0, ino[i].owner}
ValidRead(p, i)  == ValidOwner(p, i) \/ "r" \in ino[i].perms
ValidWrite(p, i) == ValidOwner(p, i) \/ "w" \in ino[i].perms

IsDir(i) == ino[i].type = "dir"
\* dirlookup.
Lookup(d, n) ==
  CASE n = "." -> d [] n = ".." -> ino[d].up [] OTHER -> ino[d].entries[n]

If(b, kind) == IF b THEN {kind} ELSE {}
\* ".." of a directory that was removed: what it names may be gone too.
Gone(d, n) == If(n = ".." /\ ino[d].nlink = 0, "gone")
Check(where, b) == panic' = IF b THEN panic ELSE where

\* p goes on in its call as c; it returns, after the iputs in put.
Go(p, c) == k' = [k EXCEPT ![p] = c]
Return(p, put) == Go(p, [Idle EXCEPT !.put = put])

At(p, pc) == k[p].pc = pc /\ k[p].put = <<>>

\* The inode whose lock p goes for.
Target(p) ==
  IF k[p].put # <<>> THEN IF k[p].past THEN None ELSE Head(k[p].put)
  ELSE CASE k[p].pc \in {"idle", "created", "taken", "full", "unlinked"} -> None
         [] k[p].pc = "walk" /\ k[p].path = <<>> -> None
         [] k[p].pc \in {"linkbad", "child"} -> k[p].ip
         [] OTHER -> k[p].at

\* ilock, of an inode that no process has locked.
Ilock(p) == lock[Target(p)] = None /\ ino[Target(p)].type # "free"
NoType(p) ==
  /\ k[p].put = <<>> /\ Target(p) # None
  /\ lock[Target(p)] = None /\ ino[Target(p)].type = "free"
  /\ panic' = "ilock"
  /\ UNCHANGED <<state, k, history>>

\* iget, of an inode that may not be in the cache.
Iget(i) ==
  /\ ref' = [ref EXCEPT ![i] = @ + 1]
  /\ Check("iget", \/ ref[i] > 0
                   \/ Cardinality({j \in Inums : ref[j] > 0}) < kit.slots)

-----------------------------------------------------------------------------
(* iput.                                                                   *)

\* A slip: other references are not looked at.
PutTestAlone(p) ==
  /\ k[p].put # <<>> /\ ~k[p].past
  /\ LET i == Head(k[p].put) IN
       /\ lock[i] = None
       /\ ino' = IF ino[i].nlink = 0 THEN [ino EXCEPT ![i] = NoInode] ELSE ino
  /\ Go(p, [k[p] EXCEPT !.past = TRUE])
  /\ UNCHANGED <<ref, lock, cwd, fd, panic, history>>

\* The test: an inode without links and with no other reference is freed.
PutTest(p) ==
  /\ k[p].put # <<>> /\ ~k[p].past
  /\ LET i == Head(k[p].put)
         others == {q \in Procs \ {p} : k[q].past /\ Head(k[q].put) = i}
     IN /\ lock[i] = None
        /\ ino' = IF ino[i].nlink = 0 /\ ref[i] = 1
                  THEN [ino EXCEPT ![i] = NoInode] ELSE ino
        /\ late' = late \cup {j \in {i} : /\ others # {} /\ ino[i].nlink = 0
                                          /\ ref[i] - Cardinality(others) = 1}
        /\ upset' = upset \cup If(/\ ino[i].nlink = 0 /\ ref[i] = 1
                                  /\ ino[i].entries # NoEntries, "removed")
  /\ Go(p, [k[p] EXCEPT !.past = TRUE])
  /\ UNCHANGED <<ref, lock, cwd, fd, panic, forgot>>

PutDone(p) ==
  /\ k[p].put # <<>> /\ k[p].past
  /\ ref' = [ref EXCEPT ![Head(k[p].put)] = @ - 1]
  /\ Go(p, [k[p] EXCEPT !.past = FALSE, !.put = Tail(@)])
  /\ UNCHANGED <<ino, lock, cwd, fd, panic, history>>

-----------------------------------------------------------------------------
(* Paths.                                                                  *)

\* namex starts at the root or at the cwd.
Start(p, from, call, path, ip) ==
  /\ Go(p, [Idle EXCEPT !.pc = "walk", !.then = call, !.path = path, !.at = from,
                         !.ip = ip,
                         !.again = IF call = "exec" THEN <<from, path>> ELSE <<>>])
  /\ Iget(from)
From(p) == {cwd[p]} \cup If(kit.absolute, ROOTINO)

Begin(p) ==
  /\ At(p, "idle")
  /\ \E call \in kit.calls[p], path \in kit.paths[p], from \in From(p) :
       Start(p, from, call, path, None)
  /\ UNCHANGED <<ino, lock, cwd, fd, history>>

\* The calls that need the directory of the last name: nameiparent.
WantsParent(p) == k[p].then \in {"create", "mkdir", "mknod", "linkto", "unlink"}
\* link has to take the count back.
LinkRefused(p, put) ==
  Go(p, [k[p] EXCEPT !.pc = "linkbad", !.at = None, !.put = put])
\* namex returns 0.
Fails(p, put) ==
  IF k[p].then = "linkto" THEN LinkRefused(p, put) ELSE Return(p, put)

\* The next name is looked up in d, which p may read; the last name of a
\* call that wants its directory is not.
Looks(p, d) ==
  IsDir(d) /\ ValidRead(p, d) /\ ~(WantsParent(p) /\ Len(k[p].path) = 1)

\* A path without elements, "/" or "": where namex starts is what it returns,
\* and it has no parent.
WalkNowhere(p) ==
  /\ At(p, "walk") /\ k[p].path = <<>>
  /\ IF WantsParent(p) THEN Fails(p, <<k[p].at>>) ELSE Go(p, [k[p] EXCEPT !.pc = k[p].then])
  /\ UNCHANGED <<state, panic, history>>

\* One element of the path, with its directory locked.
Walk(p) ==
  /\ At(p, "walk") /\ k[p].path # <<>>
  /\ LET d == k[p].at
         name == Head(k[p].path)
         next == Lookup(d, name)
     IN /\ Ilock(p)
        /\ upset' = IF Looks(p, d) THEN upset \cup Gone(d, name) ELSE upset
        /\ IF ~IsDir(d) \/ ~ValidRead(p, d)
           THEN Fails(p, <<d>>) /\ UNCHANGED <<ref, panic>>
           ELSE IF ~Looks(p, d)
           THEN Go(p, [k[p] EXCEPT !.pc = k[p].then]) /\ UNCHANGED <<ref, panic>>
           ELSE IF next = None
           THEN Fails(p, <<d>>) /\ UNCHANGED <<ref, panic>>
           ELSE /\ Go(p, [k[p] EXCEPT
                        !.pc = IF Len(k[p].path) = 1 THEN k[p].then ELSE "walk",
                        !.at = next, !.path = Tail(@), !.put = <<d>>])
                /\ Iget(next)
  /\ UNCHANGED <<ino, lock, cwd, fd, forgot, late>>

-----------------------------------------------------------------------------
(* Files.                                                                  *)

\* open without O_CREATE, to read or to write.
Open(p) ==
  /\ At(p, "open")
  /\ LET i == k[p].at IN
       /\ Ilock(p)
       /\ \/ /\ fd[p] = None
             /\ ValidRead(p, i) \/ (ValidWrite(p, i) /\ ~IsDir(i))
             /\ fd' = [fd EXCEPT ![p] = i]
             /\ Return(p, <<>>)
          \/ Return(p, <<i>>) /\ UNCHANGED fd
  /\ UNCHANGED <<ino, ref, lock, cwd, panic, history>>

\* close of the last descriptor: fileclose puts the inode.
Close(p) ==
  /\ At(p, "idle") /\ fd[p] # None
  /\ fd' = [fd EXCEPT ![p] = None]
  /\ Return(p, <<fd[p]>>)
  /\ UNCHANGED <<ino, ref, lock, cwd, panic, history>>

\* create, for open, mkdir and mknod: the directory is locked until the new
\* inode, if there has to be one, is complete.
Kind(call) == CASE call = "create" -> "file" [] call = "mkdir" -> "dir" [] OTHER -> "dev"
NewInode(p, kind, d) ==
  [type |-> kind, nlink |-> 1, up |-> IF kind = "dir" THEN d ELSE None,
   entries |-> NoEntries, owner |-> uid[p], perms |-> {}]

Create(p) ==
  /\ k[p].pc \in Creating /\ k[p].put = <<>>
  /\ LET d == k[p].at
         n == k[p].path[1]
         old == Lookup(d, n)
         free == {j \in Inums : ino[j].type = "free"}
         i == Least(free)
         kind == Kind(k[p].pc)
     IN /\ Ilock(p)
        /\ CASE ~ValidWrite(p, d) ->
                  Return(p, <<d>>) /\ UNCHANGED <<ino, ref, lock, panic, upset>>
             [] ValidWrite(p, d) /\ old # None ->
                  /\ Iget(old)
                  /\ Go(p, [k[p] EXCEPT !.pc = "found", !.at = old, !.put = <<d>>])
                  /\ upset' = upset \cup Gone(d, n)
                  /\ UNCHANGED <<ino, lock>>
             [] ValidWrite(p, d) /\ old = None /\ free = {} ->
                  /\ Check("ialloc", FALSE)
                  /\ UNCHANGED <<ino, ref, lock, k, upset>>
             [] OTHER ->
                  /\ Iget(i)
                  /\ lock' = [lock EXCEPT ![i] = p]
                  /\ ino' = [ino EXCEPT
                       ![d].entries[n] = i,
                       ![d].nlink = IF kind = "dir" THEN @ + 1 ELSE @,
                       ![i] = NewInode(p, kind, d)]
                  /\ Go(p, [k[p] EXCEPT !.pc = "created", !.at = None, !.ip = i,
                                        !.put = <<d>>])
                  /\ upset' = upset \cup If(ino[d].nlink = 0, "removed")
  /\ UNCHANGED <<cwd, fd, forgot, late>>

\* open keeps the inode, if there is a file for it; the others put it.  A
\* process has one descriptor.
Keep(p, i) ==
  \/ /\ k[p].then = "create" /\ fd[p] = None
     /\ Return(p, <<>>)
     /\ fd' = [fd EXCEPT ![p] = i]
  \/ Return(p, <<i>>) /\ UNCHANGED fd

Created(p) ==
  /\ At(p, "created")
  /\ lock' = [lock EXCEPT ![k[p].ip] = None]
  /\ Keep(p, k[p].ip)
  /\ UNCHANGED <<ino, ref, cwd, panic, history>>

\* A slip: mkdir of a name that is there keeps the inode.
CreateFoundKept(p) ==
  /\ At(p, "found")
  /\ LET i == k[p].at IN
       /\ Ilock(p)
       /\ IF k[p].then = "create" /\ ino[i].type = "file"
          THEN Keep(p, i) ELSE Return(p, <<>>) /\ UNCHANGED fd
  /\ UNCHANGED <<ino, ref, lock, cwd, panic, history>>

\* The name was there: good for open of a file only.
CreateFound(p) ==
  /\ At(p, "found")
  /\ LET i == k[p].at IN
       /\ Ilock(p)
       /\ IF k[p].then = "create" /\ ino[i].type = "file"
          THEN Keep(p, i) ELSE Return(p, <<i>>) /\ UNCHANGED fd
  /\ UNCHANGED <<ino, ref, lock, cwd, panic, history>>

-----------------------------------------------------------------------------
(* Links.                                                                  *)

\* A slip: the link is counted once the name is there, and a process that
\* unlinks it meanwhile is not.
LinkUncounted(p) ==
  /\ At(p, "link")
  /\ LET i == k[p].at IN
       /\ Ilock(p)
       /\ IF IsDir(i) THEN Return(p, <<i>>) /\ UNCHANGED <<ino, ref, panic>>
          ELSE /\ UNCHANGED ino
               /\ \E path \in kit.paths[p], from \in From(p) :
                    Start(p, from, "linkto", path, i)
  /\ UNCHANGED <<lock, cwd, fd, history>>

\* link counts the new name first, and looks up where it goes.
Link(p) ==
  /\ At(p, "link")
  /\ LET i == k[p].at IN
       /\ Ilock(p)
       /\ IF IsDir(i) THEN Return(p, <<i>>) /\ UNCHANGED <<ino, ref, panic>>
          ELSE /\ ino' = [ino EXCEPT ![i].nlink = @ + 1]
               /\ \E path \in kit.paths[p], from \in From(p) :
                    Start(p, from, "linkto", path, i)
  /\ UNCHANGED <<lock, cwd, fd, history>>

\* The entry: if the name is taken its inode is put with the directory
\* locked; the permission is tested when the entry is written.
LinkTo(p) ==
  /\ At(p, "linkto")
  /\ LET d == k[p].at
         n == k[p].path[1]
         old == Lookup(d, n)
     IN /\ Ilock(p)
        /\ IF old # None
           THEN /\ Iget(old)
                /\ lock' = [lock EXCEPT ![d] = p]
                /\ Go(p, [k[p] EXCEPT !.pc = "taken", !.put = <<old>>])
                /\ upset' = upset \cup Gone(d, n)
                /\ UNCHANGED ino
           ELSE /\ ino' = [ino EXCEPT ![d].entries[n] = k[p].ip]
                /\ IF ValidWrite(p, d) THEN Return(p, <<d, k[p].ip>>)
                                       ELSE LinkRefused(p, <<d>>)
                /\ upset' = upset \cup If(~ValidWrite(p, d), "link")
                                  \cup If(ino[d].nlink = 0, "removed")
                /\ UNCHANGED <<ref, lock, panic>>
  /\ UNCHANGED <<cwd, fd, forgot, late>>

LinkTaken(p) ==
  /\ At(p, "taken")
  /\ lock' = [lock EXCEPT ![k[p].at] = None]
  /\ LinkRefused(p, <<k[p].at>>)
  /\ UNCHANGED <<ino, ref, cwd, fd, panic, history>>

LinkBad(p) ==
  /\ At(p, "linkbad")
  /\ LET i == k[p].ip IN
       /\ Ilock(p)
       /\ ino' = [ino EXCEPT ![i].nlink = @ - 1]
       /\ Return(p, <<i>>)
  /\ UNCHANGED <<ref, lock, cwd, fd, panic, history>>

\* A slip: unlink lets the directory go while it locks what the name is of.
UnlinkUnlocked(p) ==
  /\ At(p, "unlink")
  /\ LET d == k[p].at
         n == k[p].path[1]
         i == Lookup(d, n)
     IN /\ Ilock(p)
        /\ IF n \in {".", ".."} \/ ~ValidWrite(p, d) \/ i = None
           THEN Return(p, <<d>>) /\ UNCHANGED <<ref, panic>>
           ELSE /\ Iget(i)
                /\ Go(p, [k[p] EXCEPT !.pc = "child", !.ip = i])
  /\ UNCHANGED <<ino, lock, cwd, fd, history>>

\* unlink finds the name, with the directory locked.
Unlink(p) ==
  /\ At(p, "unlink")
  /\ LET d == k[p].at
         n == k[p].path[1]
         i == Lookup(d, n)
     IN /\ Ilock(p)
        /\ IF n \in {".", ".."} \/ ~ValidWrite(p, d) \/ i = None
           THEN Return(p, <<d>>) /\ UNCHANGED <<ref, lock, panic>>
           ELSE /\ Iget(i)
                /\ lock' = [lock EXCEPT ![d] = p]
                /\ Go(p, [k[p] EXCEPT !.pc = "child", !.ip = i])
  /\ UNCHANGED <<ino, cwd, fd, history>>

\* The inode too: a directory with names in it stays.
UnlinkChild(p) ==
  /\ At(p, "child")
  /\ LET d == k[p].at
         i == k[p].ip
     IN /\ Ilock(p)
        /\ Check("unlink", ino[i].nlink >= 1)
        /\ IF IsDir(i) /\ ino[i].entries # NoEntries
           THEN /\ Go(p, [k[p] EXCEPT !.pc = "full", !.ip = None, !.put = <<i>>])
                /\ UNCHANGED <<ino, lock>>
           ELSE /\ ino' = [ino EXCEPT ![d].entries[k[p].path[1]] = None,
                                       ![d].nlink = IF IsDir(i) THEN @ - 1 ELSE @]
                /\ lock' = [lock EXCEPT ![d] = None, ![i] = p]
                /\ Go(p, [k[p] EXCEPT !.pc = "unlinked", !.at = None, !.put = <<d>>])
  /\ UNCHANGED <<ref, cwd, fd, history>>

\* A slip: unlink of a directory with names in it leaves its parent locked.
UnlinkFullLocked(p) ==
  /\ At(p, "full")
  /\ Return(p, <<k[p].at>>)
  /\ UNCHANGED <<state, panic, history>>

UnlinkFull(p) ==
  /\ At(p, "full")
  /\ lock' = [lock EXCEPT ![k[p].at] = None]
  /\ Return(p, <<k[p].at>>)
  /\ UNCHANGED <<ino, ref, cwd, fd, panic, history>>

Unlinked(p) ==
  /\ At(p, "unlinked")
  /\ LET i == k[p].ip IN
       /\ ino' = [ino EXCEPT ![i].nlink = @ - 1]
       /\ lock' = [lock EXCEPT ![i] = None]
       /\ Return(p, <<i>>)
  /\ UNCHANGED <<ref, cwd, fd, panic, history>>

-----------------------------------------------------------------------------
(* The other calls on paths.                                               *)

Chdir(p) ==
  /\ At(p, "chdir")
  /\ LET i == k[p].at IN
       /\ Ilock(p)
       /\ IF IsDir(i) /\ ValidRead(p, i)
          THEN Return(p, <<cwd[p]>>) /\ cwd' = [cwd EXCEPT ![p] = i]
          ELSE Return(p, <<i>>) /\ UNCHANGED cwd
  /\ UNCHANGED <<ino, ref, lock, fd, panic, history>>

\* The call returns, or goes on, with a reference it will not put.
Forget(i) ==
  /\ forgot' = [forgot EXCEPT ![i] = @ + 1]
  /\ Cardinality({j \in Inums : forgot[j] > 0}) + forgot[i] < MaxForgot

\* chmod and chown; refused, they keep the reference.
Chattr(p) ==
  /\ At(p, "chattr")
  /\ LET i == k[p].at IN
       /\ Ilock(p)
       /\ IF ValidOwner(p, i)
          THEN /\ \/ \E perms \in SUBSET {"r", "w"} : ino' = [ino EXCEPT ![i].perms = perms]
                  \/ \E q \in Procs : ino' = [ino EXCEPT ![i].owner = uid[q]]
               /\ Return(p, <<i>>)
               /\ UNCHANGED forgot
          ELSE /\ Forget(i)
               /\ Return(p, <<>>)
               /\ UNCHANGED ino
  /\ UNCHANGED <<ref, lock, cwd, fd, panic, late, upset>>

\* sys_exec tests the permission, keeps the reference whatever it finds, and
\* has exec look the same path up again.
Exec(p) ==
  /\ At(p, "exec")
  /\ LET i == k[p].at IN
       /\ Ilock(p)
       /\ Forget(i)
       /\ IF ValidRead(p, i)
          THEN \E path \in kit.paths[p], from \in From(p) :
                  k[p].again = <<from, path>> /\ Start(p, from, "load", path, None)
          ELSE Return(p, <<>>) /\ UNCHANGED <<ref, panic>>
  /\ UNCHANGED <<ino, lock, cwd, fd, late, upset>>

\* exec reads the file, if it is one, and puts it.
Load(p) ==
  /\ At(p, "load")
  /\ Ilock(p)
  /\ Return(p, <<k[p].at>>)
  /\ UNCHANGED <<state, panic, history>>

-----------------------------------------------------------------------------
\* A file system with its root and the processes in it.
Init ==
  /\ ino = [i \in Inums |-> IF i = ROOTINO
              THEN [NoInode EXCEPT !.type = "dir", !.nlink = 1, !.up = i, !.perms = {"r", "w"}]
              ELSE NoInode]
  /\ ref = [i \in Inums |-> IF i = ROOTINO THEN Cardinality(Procs) ELSE 0]
  /\ lock = [i \in Inums |-> None]
  /\ cwd = [p \in Procs |-> ROOTINO]
  /\ fd = [p \in Procs |-> None]
  /\ k = [p \in Procs |-> Idle]
  /\ panic = "no"
  /\ kit \in Kits
  /\ forgot = [i \in Inums |-> 0] /\ late = {} /\ upset = {}

Step(p) ==
  \/ PutTest(p) \/ PutDone(p) \/ NoType(p)
  \/ Begin(p) \/ WalkNowhere(p) \/ Walk(p)
  \/ Open(p) \/ Close(p) \/ Create(p) \/ Created(p) \/ CreateFound(p)
  \/ Link(p) \/ LinkTo(p) \/ LinkTaken(p) \/ LinkBad(p)
  \/ Unlink(p) \/ UnlinkChild(p) \/ UnlinkFull(p) \/ Unlinked(p)
  \/ Chdir(p) \/ Chattr(p) \/ Exec(p) \/ Load(p)

Next ==
  /\ panic = "no" /\ Cardinality(upset) < MaxUpsets
  /\ \E p \in Procs : Step(p)
  /\ UNCHANGED kit
Spec == Init /\ [][Next]_vars
-----------------------------------------------------------------------------
Inode == [type : {"free", "file", "dir", "dev"}, nlink : Int, up : Inums \cup {None},
          entries : [Names -> Inums \cup {None}], owner : Nat, perms : SUBSET {"r", "w"}]
PutSeqs == {<<>>} \cup {<<i>> : i \in Inums} \cup {<<i, j>> : i, j \in Inums}
Call == [pc : Calls \cup {"idle", "walk", "created", "found", "linkto", "taken", "linkbad",
                          "child", "full", "unlinked", "load"},
         then : Calls \cup {"none", "linkto", "load"},
         path : Seq(Names \cup {".", ".."}),
         at : Inums \cup {None}, ip : Inums \cup {None},
         again : {<<>>} \cup (Inums \X Seq(Names \cup {".", ".."})),
         put : PutSeqs,
         past : BOOLEAN]

\* Every variable has its type, the inodes that are free are empty, and a
\* lock is held by a process that is in a call which will release it.
TypeOK ==
  /\ ino \in [Inums -> Inode]
  /\ \A i \in Inums : /\ ino[i].type = "free" => ino[i] = NoInode
                      /\ (ino[i].up # None) = IsDir(i)
  /\ ref \in [Inums -> Nat]
  /\ lock \in [Inums -> Procs \cup {None}]
  /\ \A i \in Inums : lock[i] # None =>
       k[lock[i]].pc \in {"created", "taken", "child", "full", "unlinked"}
  /\ cwd \in [Procs -> Inums] /\ fd \in [Procs -> Inums \cup {None}]
  /\ k \in [Procs -> Call] /\ kit \in Kits
  /\ forgot \in [Inums -> 0 .. MaxForgot] /\ late \subseteq Inums
  /\ upset \subseteq {"gone", "removed", "link"}

\* What refers to an inode: working directories, open files, and what calls
\* have in hand or have still to put.
Wheres == {"at", "ip", "cwd", "fd", "put", "next"}
Place(p, w) ==
  CASE w = "at" -> k[p].at [] w = "ip" -> k[p].ip [] w = "cwd" -> cwd[p] [] w = "fd" -> fd[p]
    [] w = "put" -> IF k[p].put = <<>> THEN None ELSE Head(k[p].put)
    [] OTHER     -> IF Len(k[p].put) < 2 THEN None ELSE k[p].put[2]
Places(i) == {x \in Procs \X Wheres : Place(x[1], x[2]) = i}

\* The references of an inode are the working directories, the open files
\* and the calls under way that have it, and those calls have lost.
RefsExact ==
  \A i \in Inums : ref[i] = Cardinality(Places(i)) + forgot[i]

Entries == {x \in Inums \X Names : ino[x[1]].entries[x[2]] # None}
Subdirs(i) == {n \in Names : ino[i].entries[n] # None /\ IsDir(ino[i].entries[n])}
Named(i) == {x \in Entries : ino[x[1]].entries[x[2]] = i}
\* Calls that have changed only the count, or only the name.
Pending(i) == {p \in Procs : k[p].ip = i /\ (k[p].pc = "unlinked" \/ k[p].then = "linkto")}

\* The link count of an inode is the number of its names, the ".." of the
\* directories in it among them, once link and unlink are done; what has a
\* name, is open or is a working directory is allocated, and what has no name
\* is in some call's use, or was put by two processes at once.  It takes an
\* entry made in a removed directory, or by a link that is then refused, to
\* make this false.
LinksExact ==
  upset \cap {"removed", "link"} = {} =>
    \A i \in Inums :
      /\ ino[i].type # "free" =>
           ino[i].nlink = Cardinality(Named(i)) + Cardinality(Pending(i))
                          + Cardinality(Subdirs(i)) + (IF i = ROOTINO THEN 1 ELSE 0)
      /\ Named(i) # {} \/ (\E p \in Procs : i \in {cwd[p], fd[p]}) => ino[i].type # "free"
      /\ \A x \in Named(i) : IsDir(i) => ino[i].up = x[1]
      /\ ino[i].type # "free" /\ ino[i].nlink = 0 => ref[i] > 0 \/ i \in late

\* What lab 4 asks permission for has it when it happens, not only when it
\* was tested: p changes the names in a directory it may write at that moment,
\* whatever chmod and chown others do between unlink's two locks; it changes
\* owner and permissions of its own inodes; what it opens it may read or write,
\* and its working directory read.  Two exceptions are the code's: a link that
\* is refused has made its entry, and stays made (sysfile.c:149), and open with
\* O_CREATE of a file that is there tests the directory only (sysfile.c:266).
\* What exec loads is left out: it is looked up anew after the test.
Rightful(p) ==
  k'[p] # k[p] =>
    /\ \A i \in Inums : ino[i].type # "free" /\ ino'[i].type # "free" =>
         /\ ino'[i].entries # ino[i].entries =>
              ValidWrite(p, i) \/ (k[p].pc = "linkto" /\ k'[p].pc = "linkbad")
         /\ <<ino'[i].owner, ino'[i].perms>> # <<ino[i].owner, ino[i].perms>> =>
              ValidOwner(p, i)
    /\ fd'[p] \notin {None, fd[p]} =>
         ValidRead(p, fd'[p]) \/ ValidWrite(p, fd'[p]) \/ k[p].pc = "found"
    /\ cwd'[p] # cwd[p] => ValidRead(p, cwd'[p])
Permitted == [][\A p \in Procs : Rightful(p)]_vars

WaitsFor(p, q) == Target(p) # None /\ lock[Target(p)] = q
\* The calls do not panic, except of a full disk or cache, nor wait for each
\* other, except where one puts an inode with another locked: create and
\* unlink put the directory so, and link the name that is taken.
OnlyPutsStop ==
  /\ upset = {} => panic \in {"no", "ialloc", "iget"}
  /\ \A p, q \in Procs : WaitsFor(p, q) /\ WaitsFor(q, p) =>
       k[p].put # <<>> \/ k[q].put # <<>>
=============================================================================
