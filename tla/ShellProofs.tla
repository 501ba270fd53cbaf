------------------------------ MODULE ShellProofs ------------------------------
(***************************************************************************)
(* Theorems about Shell and Streams, for any number of processes, files,   *)
(* pipes and sizes, and any command lines and keys: the types and bounds,  *)
(* the reference counts and the ends of pipes, and that no wakeup is lost. *)
(***************************************************************************)
EXTENDS Shell, FiniteSetTheorems, SequenceTheorems, WellFoundedInduction, TLAPS

Byte  == Chars \cup {None, "eof"}
Count == 0 .. Width - 1
Kinds == {"none", "console", "pipe"}
Names == {"stdin", "stdout", "p0", "p1"}

FileRec  == [ref : Int, type : Kinds, pipe : Pipes \cup {None}, writable : BOOLEAN]
PipeRec  == [used : BOOLEAN, nread : Count, nwrite : Count, readopen : BOOLEAN,
             writeopen : BOOLEAN, data : [0 .. PIPESIZE - 1 -> Byte]]
InputRec == [r : Count, w : Count, e : Count, buf : [0 .. INPUT_BUF - 1 -> Byte]]
IoRec    == [kind : Kinds, pipe : Pipes \cup {None}, bytes : Seq(Byte), writable : BOOLEAN]
EnvRec   == [stdin : Fds, stdout : Fds, p0 : Fds, p1 : Fds]

\* The calls of a child before it runs its command, and all calls.
Early == [do : {"close", "dup"}, fd : Names] \cup [do : {"run"}, cmd : Commands]
Calls == Early \cup [do : {"fork"}, child : Seq(Early)]
               \cup [do : {"pipe", "wait", "exit", "cat"}]
               \cup [do : {"echo"}, bytes : Seq(Byte)]

\* Where a call of pipe is with files in hand.
Making == {"pipealloc", "pipepage", "pipefds", "unpipe"}

Places == Blocked \cup {"unused", "user", "read", "write", "got", "wait",
                        "failed", "pipeclose", "zombie"} \cup Making

FilesOK ==
  /\ ofile \in [Procs -> [Fds -> Files \cup {None}]]
  /\ file \in [Files -> FileRec]
  /\ \A f \in Files : file[f].type = "pipe" => file[f].pipe \in Pipes

IoOK ==
  /\ io \in [Procs -> IoRec]
  /\ \A p \in Procs : io[p].kind = "pipe" \/ pc[p] = "pipeclose" => io[p].pipe \in Pipes

ProgsOK ==
  /\ parent \in [Procs -> Procs \cup {None}]
  /\ env \in [Procs -> EnvRec]
  /\ todo \in [Procs -> Seq(Calls)]
  /\ \A p \in Procs : pc[p] \in {"wait", "waitsleep"} => todo[p] # <<>>

TypeInv ==
  /\ FilesOK /\ IoOK /\ ProgsOK
  /\ pc \in [Procs -> Places]
  /\ pipe \in [Pipes -> PipeRec]
  /\ input \in InputRec
  /\ keys \in Seq(Chars)

\* What a call of pipe has in hand at each place.
TakenRec == [rf : Files \cup {None}, wf : Files \cup {None}]
HandOK(p) ==
  /\ pc[p] = "pipealloc" => taken[p].rf # None /\ taken[p].wf = None
  /\ pc[p] \in {"pipepage", "pipefds"} => taken[p].rf # None /\ taken[p].wf # None
  /\ pc[p] \in {"pipealloc", "pipepage", "pipefds"} => todo[p] # <<>>
  /\ pc[p] = "unpipe" => taken[p] # NoFiles
  /\ pc[p] \notin Making \cup {"pipeclose"} => taken[p] = NoFiles
HandsOK == taken \in [Procs -> TakenRec] /\ \A p \in Procs : HandOK(p)

\* TypeOK's bounds; and a reader of the console has room for another byte.
PipeBounds  == \A q \in Pipes : Bytes(q) <= PIPESIZE
InputBounds == /\ (input.w - input.r) % Width <= (input.e - input.r) % Width
               /\ (input.e - input.r) % Width <= INPUT_BUF
Reads       == {"read", "readsleep"}
Readers     == \A p \in Procs : pc[p] \in Reads /\ io[p].kind = "console"
                                  => Len(io[p].bytes) < CatBuf
Bounds == PipeBounds /\ InputBounds /\ Readers

Holders(f) == {x \in Procs \X Fds : ofile[x[1]][x[2]] = f}
InHand(f) == \E p \in Procs, e \in {"rf", "wf"} : taken[p][e] = f
RefInv ==
  /\ \A f \in Files : ~InHand(f) => file[f].ref = Cardinality(Holders(f))
  /\ \A f \in Files : file[f].ref = 0 => file[f].type # "pipe"
  /\ \A p \in Procs : pc[p] \in {"unused", "zombie"} => \A n \in Fds : ofile[p][n] = None

\* A file in the hands of a call of pipe is nobody else's.
HandInv ==
  /\ \A f \in Files : InHand(f) => file[f].ref = 1 /\ Holders(f) = {}
  /\ \A p, r \in Procs : \A d, e \in {"rf", "wf"} :
       taken[p][d] # None /\ taken[p][d] = taken[r][e] => p = r /\ d = e
  /\ \A p \in Procs : \A e \in {"rf", "wf"} :
       pc[p] \in {"pipealloc", "pipepage"} /\ taken[p][e] # None =>
         file[taken[p][e]].type # "pipe"

\* Who has the writing (w) or reading end of a pipe: a file or a pipeclose.
IsEnd(f, q, w) == file[f].type = "pipe" /\ file[f].pipe = q /\ file[f].writable = w
Closes(p, q, w) == pc[p] = "pipeclose" /\ io[p].pipe = q /\ io[p].writable = w

OneEnd ==
  \A q \in Pipes, w \in BOOLEAN :
    /\ \A f, g \in Files : IsEnd(f, q, w) /\ IsEnd(g, q, w) => f = g
    /\ \A p, r \in Procs : Closes(p, q, w) /\ Closes(r, q, w) => p = r
    /\ \A f \in Files, p \in Procs : ~(IsEnd(f, q, w) /\ Closes(p, q, w))

EndsOpen ==
  \A q \in Pipes : /\ pipe[q].writeopen = Ends(q, TRUE)
                   /\ pipe[q].readopen = Ends(q, FALSE)
                   /\ pipe[q].used = (pipe[q].writeopen \/ pipe[q].readopen)

Using(p, w) == pc[p] \in (IF w THEN {"write", "writesleep"} ELSE {"read", "readsleep"})
                 /\ io[p].kind = "pipe"
Users ==
  \A p \in Procs, w \in BOOLEAN :
    Using(p, w) => \E n \in Fds : /\ ofile[p][n] # None
                                  /\ IsEnd(ofile[p][n], io[p].pipe, w)

\* WakeupsComing, one process at a time.
DataOK(p) ==
  /\ pc[p] = "readsleep" /\ io[p].kind = "console" => input.r = input.w
  /\ pc[p] = "readsleep" /\ io[p].kind = "pipe" =>
       /\ pipe[io[p].pipe].writeopen
       /\ Bytes(io[p].pipe) = 0 \/ io[p].pipe \in unwoken
  /\ pc[p] = "writesleep" =>
       /\ io[p].kind = "pipe"
       /\ pipe[io[p].pipe].readopen /\ Room(io[p].pipe) = 0
WaitOK(p) ==
  /\ pc[p] = "waitsleep" =>
       /\ \E q \in Procs : parent[q] = p
       /\ \A q \in Procs : parent[q] = p => pc[q] # "zombie"
  /\ pc[p] = "unused" => parent[p] = None
SleepInv == \A p \in Procs : DataOK(p) /\ WaitOK(p)

ShellInv ==
  /\ TypeInv /\ HandsOK /\ Bounds
  /\ RefInv /\ HandInv /\ OneEnd /\ EndsOpen /\ Users /\ SleepInv

-----------------------------------------------------------------------------
(* The constants, least elements and arithmetic modulo Width.              *)

LEMMA Constants ==
  /\ IsFiniteSet(Procs) /\ IsFiniteSet(Fds)
  /\ None \notin Procs /\ None \notin Pipes /\ None \notin Files
  /\ NOFILE \in Nat /\ NFILE \in Nat /\ Width \in Nat /\ NOFILE >= 3 /\ NFILE >= 1
  /\ PIPESIZE \in Nat /\ PIPESIZE > 0 /\ Width > PIPESIZE
  /\ INPUT_BUF \in Nat /\ INPUT_BUF > 0 /\ Width > INPUT_BUF
  /\ CatBuf \in Nat /\ CatBuf > 0
  /\ Fds \subseteq Nat /\ Files \subseteq Nat
  /\ {0, 1} \subseteq Fds /\ 1 \in Files /\ Sh \in Procs
  <1>1. IsFiniteSet(Fds)
    BY StreamsAssumption, FS_Interval DEF Fds
  <1> QED BY <1>1, StreamsAssumption, ShellAssumption DEF Fds, Files

LEMMA LeastIn ==
  ASSUME NEW S \in SUBSET Nat, S # {}
  PROVE  Least(S) \in S /\ \A y \in S : Least(S) <= y
  <1>1. \E x \in S : \A y \in S : <<y, x>> \notin OpToRel(<, Nat)
    BY NatLessThanWellFounded, WFMin
  <1>2. PICK x \in S : \A y \in S : <<y, x>> \notin OpToRel(<, Nat)
    BY <1>1
  <1>3. \A y \in S : <<y, x>> \in Nat \X Nat /\ ~(<<y, x>>[1] < <<y, x>>[2])
    BY <1>2 DEF OpToRel
  <1>4. \A y \in S : x <= y
    <2> SUFFICES ASSUME NEW y \in S PROVE x <= y
        OBVIOUS
    <2>1. ~(y < x)
      BY <1>3
    <2> QED BY <2>1
  <1> QED BY <1>4 DEF Least

LEMMA InCount == \A a \in Int : a % Width \in Count
  BY Constants DEF Count

LEMMA NoWrap == \A a \in Count : a % Width = a
  BY Constants DEF Count

LEMMA WrapBelow == \A a \in Int : a < 0 /\ 0 <= a + Width => a % Width = a + Width
  BY Constants DEF Count

LEMMA WrapAbove == \A a \in Int : Width <= a /\ a < Width + Width => a % Width = a - Width
  BY Constants DEF Count

\* What the three operations on counts return.
LEMMA Distance ==
  ASSUME NEW a \in Count, NEW b \in Count
  PROVE  (a - b) % Width = IF b <= a THEN a - b ELSE a - b + Width
  <1>1. a \in Int /\ b \in Int /\ Width \in Int /\ 0 <= a /\ a < Width /\ 0 <= b /\ b < Width
    BY Constants DEF Count
  <1>2. CASE b <= a
    <2>1. a - b \in Count
      BY <1>1, <1>2 DEF Count
    <2> QED BY <2>1, <1>2, NoWrap
  <1>3. CASE ~(b <= a)
    <2>1. a - b \in Int /\ a - b < 0 /\ 0 <= a - b + Width
      BY <1>1, <1>3
    <2> QED BY <2>1, <1>3, WrapBelow
  <1> QED BY <1>2, <1>3

LEMMA Forward ==
  ASSUME NEW a \in Count, NEW k \in 0 .. Width
  PROVE  (a + k) % Width = IF a + k < Width THEN a + k ELSE a + k - Width
  <1>1. a \in Int /\ k \in Int /\ Width \in Int /\ 0 <= a /\ a < Width /\ 0 <= k /\ k <= Width
    BY Constants DEF Count
  <1>2. CASE a + k < Width
    <2>1. a + k \in Count
      BY <1>1, <1>2 DEF Count
    <2> QED BY <1>1, <2>1, <1>2, NoWrap
  <1>3. CASE ~(a + k < Width)
    <2>1. a + k \in Int /\ Width <= a + k /\ a + k < Width + Width
      BY <1>1, <1>3
    <2> QED BY <1>1, <2>1, <1>3, WrapAbove
  <1> QED BY <1>2, <1>3

LEMMA Backward ==
  ASSUME NEW a \in Count, NEW k \in 0 .. Width
  PROVE  (a - k) % Width = IF k <= a THEN a - k ELSE a - k + Width
  <1>1. a \in Int /\ k \in Int /\ Width \in Int /\ 0 <= a /\ a < Width /\ 0 <= k /\ k <= Width
    BY Constants DEF Count
  <1>2. CASE k <= a
    <2>1. a - k \in Count
      BY <1>1, <1>2 DEF Count
    <2> QED BY <1>1, <2>1, <1>2, NoWrap
  <1>3. CASE ~(k <= a)
    <2>1. a - k \in Int /\ a - k < 0 /\ 0 <= a - k + Width
      BY <1>1, <1>3
    <2> QED BY <1>1, <2>1, <1>3, WrapBelow
  <1> QED BY <1>2, <1>3

\* The later index of two, moved on, leaves the distance longer; the earlier
\* one, moved on by no more than the distance, leaves it shorter.
LEMMA Extend ==
  ASSUME NEW a \in Count, NEW b \in Count, NEW k \in 0 .. Width,
         ((a - b) % Width) + k < Width
  PROVE  (((a + k) % Width) - b) % Width = ((a - b) % Width) + k
  <1>0. a \in Int /\ b \in Int /\ k \in Int /\ Width \in Int /\ 0 <= a /\ a < Width
        /\ 0 <= b /\ b < Width /\ 0 <= k /\ k <= Width
    BY Constants DEF Count
  <1>a. (a + k) % Width \in Count
    BY <1>0, InCount
  <1>1. PICK c \in Count : c = (a + k) % Width
    BY <1>a
  <1>2. c = IF a + k < Width THEN a + k ELSE a + k - Width
    BY <1>1, Forward
  <1>3. (c - b) % Width = IF b <= c THEN c - b ELSE c - b + Width
    BY Distance
  <1>4. (a - b) % Width = IF b <= a THEN a - b ELSE a - b + Width
    BY Distance
  <1>5. c \in Int /\ 0 <= c /\ c < Width
    BY <1>0 DEF Count
  <1> QED BY <1>0, <1>1, <1>2, <1>3, <1>4, <1>5

LEMMA Shorten ==
  ASSUME NEW a \in Count, NEW b \in Count, NEW k \in 0 .. Width,
         k <= (a - b) % Width
  PROVE  (a - ((b + k) % Width)) % Width = ((a - b) % Width) - k
  <1>0. a \in Int /\ b \in Int /\ k \in Int /\ Width \in Int /\ 0 <= a /\ a < Width
        /\ 0 <= b /\ b < Width /\ 0 <= k /\ k <= Width
    BY Constants DEF Count
  <1>a. (b + k) % Width \in Count
    BY <1>0, InCount
  <1>1. PICK c \in Count : c = (b + k) % Width
    BY <1>a
  <1>2. c = IF b + k < Width THEN b + k ELSE b + k - Width
    BY <1>1, Forward
  <1>3. (a - c) % Width = IF c <= a THEN a - c ELSE a - c + Width
    BY Distance
  <1>4. (a - b) % Width = IF b <= a THEN a - b ELSE a - b + Width
    BY Distance
  <1>5. c \in Int /\ 0 <= c /\ c < Width
    BY <1>0 DEF Count
  <1> QED BY <1>0, <1>1, <1>2, <1>3, <1>4, <1>5

LEMMA Retract ==
  ASSUME NEW a \in Count, NEW b \in Count, NEW k \in 0 .. Width,
         k <= (a - b) % Width
  PROVE  (((a - k) % Width) - b) % Width = ((a - b) % Width) - k
  <1>0. a \in Int /\ b \in Int /\ k \in Int /\ Width \in Int /\ 0 <= a /\ a < Width
        /\ 0 <= b /\ b < Width /\ 0 <= k /\ k <= Width
    BY Constants DEF Count
  <1>a. (a - k) % Width \in Count
    BY <1>0, InCount
  <1>1. PICK c \in Count : c = (a - k) % Width
    BY <1>a
  <1>2. c = IF k <= a THEN a - k ELSE a - k + Width
    BY <1>1, Backward
  <1>3. (c - b) % Width = IF b <= c THEN c - b ELSE c - b + Width
    BY Distance
  <1>4. (a - b) % Width = IF b <= a THEN a - b ELSE a - b + Width
    BY Distance
  <1>5. c \in Int /\ 0 <= c /\ c < Width
    BY <1>0 DEF Count
  <1> QED BY <1>0, <1>1, <1>2, <1>3, <1>4, <1>5

LEMMA SmallerIs ==
  ASSUME NEW m \in Nat, NEW n \in Nat
  PROVE  /\ Smaller(m, n) \in Nat /\ Smaller(m, n) <= m /\ Smaller(m, n) <= n
         /\ Smaller(m, n) = m \/ Smaller(m, n) = n
  BY DEF Smaller

-----------------------------------------------------------------------------
(* Calls and types.                                                        *)

LEMMA EarlyCalls == Seq(Early) \subseteq Seq(Calls)
  <1>1. Early \subseteq Calls
    BY DEF Calls
  <1> QED BY <1>1

LEMMA ExpandCalls == ASSUME NEW c \in Commands PROVE Expand(c) \in Seq(Calls)
  <1> DEFINE E == <<CloseFd("stdout"), [do |-> "dup", fd |-> "p1"],
                    CloseFd("p0"), CloseFd("p1"), Run(c.left)>>
             F == <<CloseFd("stdin"), [do |-> "dup", fd |-> "p0"],
                    CloseFd("p0"), CloseFd("p1"), Run(c.right)>>
  <1>1. \A x \in Names : CloseFd(x) \in Early /\ [do |-> "dup", fd |-> x] \in Early
    BY DEF CloseFd, Early
  <1>2. \A d \in Commands : Run(d) \in Early
    BY DEF Run, Early
  <1>3. \A s \in Seq(Early) : Fork(s) \in Calls
    BY DEF Fork, Calls
  <1>4. \A w \in {"pipe", "wait", "exit", "cat"} : Call(w) \in Calls
    BY DEF Call, Calls
  <1>5. \A x \in Names : CloseFd(x) \in Calls
    BY <1>1 DEF Calls
  <1>6. CASE c.type = "pipe"
    <2>1. c.left \in Commands /\ c.right \in Commands
      BY <1>6, ShellAssumption
    <2>2. E \in Seq(Early) /\ F \in Seq(Early)
      BY <1>1, <1>2, <2>1 DEF Names
    <2>3. Fork(E) \in Calls /\ Fork(F) \in Calls
      BY <1>3, <2>2
    <2>4. Expand(c) = <<Call("pipe"), Fork(E), Fork(F), CloseFd("p0"), CloseFd("p1"),
                        Call("wait"), Call("wait"), Call("exit")>>
      BY <1>6 DEF Expand
    <2> HIDE DEF E, F
    <2> QED BY <1>4, <1>5, <2>3, <2>4 DEF Names
  <1>7. CASE c.type = "list"
    <2>1. c.left \in Commands /\ c.right \in Commands
      BY <1>7, ShellAssumption
    <2>2. <<Run(c.left)>> \in Seq(Early) /\ Run(c.right) \in Calls
      BY <1>2, <2>1 DEF Calls
    <2>3. Fork(<<Run(c.left)>>) \in Calls
      BY <1>3, <2>2
    <2>4. Expand(c) = <<Fork(<<Run(c.left)>>), Call("wait"), Run(c.right)>>
      BY <1>7 DEF Expand
    <2> QED BY <1>4, <2>2, <2>3, <2>4
  <1>8. CASE c.type = "back"
    <2>1. c.cmd \in Commands
      BY <1>8, ShellAssumption
    <2>2. <<Run(c.cmd)>> \in Seq(Early)
      BY <1>2, <2>1
    <2>3. Fork(<<Run(c.cmd)>>) \in Calls
      BY <1>3, <2>2
    <2>4. Expand(c) = <<Fork(<<Run(c.cmd)>>), Call("exit")>>
      BY <1>8 DEF Expand
    <2> QED BY <1>4, <2>3, <2>4
  <1>9. CASE c.type = "echo"
    <2>1. c.bytes \in Seq(Chars)
      BY <1>9, ShellAssumption
    <2>2. c.bytes \in Seq(Byte)
      BY <2>1 DEF Byte
    <2>3. [do |-> "echo", bytes |-> c.bytes] \in Calls
      BY <2>2 DEF Calls
    <2>4. Expand(c) = <<[do |-> "echo", bytes |-> c.bytes], Call("exit")>>
      BY <1>9 DEF Expand
    <2> QED BY <1>4, <2>3, <2>4
  <1>10. CASE c.type \notin {"pipe", "list", "back", "echo"}
    <2>1. c.type \in {"cat", "exit"}
      BY <1>10, ShellAssumption
    <2>2. Expand(c) = <<Call(c.type)>>
      BY <1>10 DEF Expand
    <2> QED BY <1>4, <2>1, <2>2
  <1> QED BY <1>6, <1>7, <1>8, <1>9, <1>10

\* What a call carries.
LEMMA CallParts ==
  ASSUME NEW c \in Calls
  PROVE  /\ c.do = "run" => c.cmd \in Commands
         /\ c.do \in {"close", "dup"} => c.fd \in Names
         /\ c.do = "fork" => c.child \in Seq(Early)
         /\ c.do = "echo" => c.bytes \in Seq(Byte)
  BY DEF Calls, Early

LEMMA ReadyCalls == ASSUME NEW s \in Seq(Calls) PROVE Ready(s) \in Seq(Calls)
  <1>1. CASE s # <<>> /\ Head(s).do = "run"
    <2>1. Head(s) \in Calls
      BY <1>1
    <2>2. Head(s).cmd \in Commands
      BY <1>1, <2>1, CallParts
    <2> QED BY <1>1, <2>2, ExpandCalls DEF Ready
  <1>2. CASE ~(s # <<>> /\ Head(s).do = "run")
    BY <1>2 DEF Ready
  <1> QED BY <1>1, <1>2

LEMMA ExitsCalls == Exits \in Seq(Calls) /\ <<>> \in Seq(Calls) /\ Ready(Exits) # <<>>
  <1>1. Call("exit") \in Calls /\ Call("exit").do = "exit"
    BY DEF Call, Calls
  <1>2. Head(<<Call("exit")>>) = Call("exit") /\ <<Call("exit")>> # <<>>
    OBVIOUS
  <1> QED BY <1>1, <1>2 DEF Exits, Ready

LEMMA TodoParts ==
  ASSUME TypeInv, NEW p \in Procs, todo[p] # <<>>
  PROVE  Head(todo[p]) \in Calls /\ Rest(p) \in Seq(Calls)
  <1>1. todo[p] \in Seq(Calls)
    BY DEF TypeInv, ProgsOK
  <1> QED BY <1>1 DEF Rest

LEMMA AboutCall ==
  ASSUME NEW p, NEW w, About(p, w), w # "exit"
  PROVE  Head(todo[p]).do = w /\ todo[p] # <<>> /\ pc[p] = "user"
  BY DEF About

LEMMA AboutDescriptor ==
  ASSUME TypeInv, NEW p \in Procs, NEW w \in {"close", "dup"}, About(p, w)
  PROVE  env[p][Head(todo[p]).fd] \in Fds
  <1>1. Head(todo[p]) \in Calls /\ Head(todo[p]).do = w
    BY AboutCall, TodoParts
  <1>2. Head(todo[p]).fd \in Names
    BY <1>1, CallParts
  <1>3. env[p] \in EnvRec
    BY DEF TypeInv, ProgsOK
  <1> QED BY <1>2, <1>3 DEF Names, EnvRec

LEMMA ThenCalls ==
  ASSUME TypeInv, NEW p \in Procs, NEW s \in Seq(Calls), Then(p, s)
  PROVE  /\ todo' \in [Procs -> Seq(Calls)]
         /\ \A q \in Procs : q # p => todo'[q] = todo[q]
  <1>1. Ready(s) \in Seq(Calls)
    BY ReadyCalls
  <1> QED BY <1>1 DEF Then, TypeInv, ProgsOK

LEMMA RestCalls ==
  ASSUME TypeInv, NEW p \in Procs, todo[p] # <<>>, Then(p, Rest(p))
  PROVE  /\ todo' \in [Procs -> Seq(Calls)]
         /\ \A q \in Procs : q # p => todo'[q] = todo[q]
  BY TodoParts, ThenCalls

\* A process goes elsewhere, or sleepers on a pipe are woken.
LEMMA GotoPlaces ==
  ASSUME TypeInv, NEW p \in Procs, NEW w \in Places, Goto(p, w)
  PROVE  /\ pc' \in [Procs -> Places] /\ pc'[p] = w
         /\ \A r \in Procs : r # p => pc'[r] = pc[r]
  BY DEF Goto, TypeInv

LEMMA WakePlaces ==
  ASSUME NEW at \in {"read", "write"}, NEW q, NEW f \in [Procs -> Places]
  PROVE  /\ WakePipe(at, q, f) \in [Procs -> Places]
         /\ \A r \in Procs :
              WakePipe(at, q, f)[r] =
                IF f[r] = Asleep[at] /\ io[r].kind = "pipe" /\ io[r].pipe = q
                THEN at ELSE f[r]
  <1>1. at \in Places
    BY DEF Places
  <1> QED BY <1>1 DEF WakePipe

LEMMA EmptyBytes == <<>> \in Seq(Byte)
  OBVIOUS

\* What FileClose and Close do.
LEMMA FileCloseTypes ==
  ASSUME TypeInv, NEW p \in Procs, NEW f \in Files, NEW next \in {"user", "unpipe"},
         FileClose(p, f, next)
  PROVE  /\ file' \in [Files -> FileRec]
         /\ \A g \in Files : file'[g].type = "pipe" => file'[g].pipe \in Pipes
         /\ IoOK' /\ pc' \in [Procs -> Places]
         /\ pc'[p] \in {next, "pipeclose"}
         /\ \A r \in Procs : r # p => pc'[r] = pc[r] /\ io'[r] = io[r]
  <1>1. f \in Files /\ file[f] \in FileRec
    BY DEF TypeInv, FilesOK
  <1>2. file[f].ref - 1 \in Int /\ Closed \in FileRec /\ Closed.type = "none"
    BY <1>1 DEF FileRec, Closed, Kinds
  <1>3. [file[f] EXCEPT !.ref = @ - 1] \in FileRec
    BY <1>1, <1>2 DEF FileRec
  <1>4. [file[f] EXCEPT !.ref = @ - 1].type = file[f].type /\ [file[f] EXCEPT !.ref = @ - 1].pipe = file[f].pipe
    BY <1>1 DEF FileRec
  <1>5. PICK h \in {Closed, [file[f] EXCEPT !.ref = @ - 1]} : file' = [file EXCEPT ![f] = h]
    <2>1. CASE file[f].ref = 1
      <3>1. file' = [file EXCEPT ![f] = Closed]
        BY <2>1 DEF FileClose
      <3> QED BY <3>1
    <2>2. CASE file[f].ref # 1
      <3>1. file' = [file EXCEPT ![f].ref = @ - 1]
        BY <2>2 DEF FileClose
      <3>2. file' = [file EXCEPT ![f] = [file[f] EXCEPT !.ref = @ - 1]]
        BY <3>1
      <3> QED BY <3>2
    <2> QED BY <2>1, <2>2
  <1>6. h \in FileRec /\ (h.type = "pipe" => h.pipe \in Pipes)
    BY <1>1, <1>2, <1>3, <1>4, <1>5 DEF TypeInv, FilesOK
  <1>7. file' \in [Files -> FileRec] /\ \A g \in Files : file'[g].type = "pipe" => file'[g].pipe \in Pipes
    BY <1>1, <1>5, <1>6 DEF TypeInv, FilesOK
  <1>8. CASE file[f].ref = 1 /\ file[f].type = "pipe"
    <2>1. Goto(p, "pipeclose") /\ "pipeclose" \in Places
      BY <1>8 DEF FileClose, Places, Making
    <2>2. io' = [io EXCEPT ![p] = [Idle EXCEPT !.pipe = file[f].pipe, !.writable = file[f].writable]]
      BY <1>8 DEF FileClose
    <2>3. file[f].pipe \in Pipes /\ file[f].writable \in BOOLEAN
      BY <1>1, <1>8 DEF TypeInv, FilesOK, FileRec
    <2>4. PICK g : g = [Idle EXCEPT !.pipe = file[f].pipe, !.writable = file[f].writable]
      OBVIOUS
    <2>5. g \in IoRec /\ g.pipe \in Pipes
      BY <2>3, <2>4, EmptyBytes DEF Idle, IoRec, Kinds
    <2>6. io' = [io EXCEPT ![p] = g]
      BY <2>2, <2>4
    <2>7. /\ pc' \in [Procs -> Places] /\ pc'[p] = "pipeclose"
          /\ \A r \in Procs : r # p => pc'[r] = pc[r]
      BY <2>1, GotoPlaces
    <2>8. io \in [Procs -> IoRec] /\ \A r \in Procs : io[r].kind = "pipe" \/ pc[r] = "pipeclose" => io[r].pipe \in Pipes
      BY DEF TypeInv, IoOK
    <2>9. io' \in [Procs -> IoRec] /\ io'[p] = g /\ \A r \in Procs : r # p => io'[r] = io[r]
      BY <2>5, <2>6, <2>8
    <2>10. IoOK'
      BY <2>5, <2>7, <2>8, <2>9 DEF IoOK
    <2> QED BY <1>7, <2>7, <2>9, <2>10
  <1>9. CASE ~(file[f].ref = 1 /\ file[f].type = "pipe")
    <2>1. Goto(p, next) /\ io' = io /\ next \in Places
      BY <1>9 DEF FileClose, Places, Making
    <2>2. /\ pc' \in [Procs -> Places] /\ pc'[p] = next
          /\ \A r \in Procs : r # p => pc'[r] = pc[r]
      BY <2>1, GotoPlaces
    <2>3. IoOK'
      BY <2>1, <2>2 DEF TypeInv, IoOK
    <2> QED BY <1>7, <2>1, <2>2, <2>3
  <1> QED BY <1>8, <1>9

LEMMA CloseTypes ==
  ASSUME TypeInv, NEW p \in Procs, NEW n \in Fds, ofile[p][n] # None,
         Close(p, n, "user")
  PROVE  /\ FilesOK' /\ IoOK' /\ pc' \in [Procs -> Places]
         /\ pc'[p] \in {"user", "pipeclose"}
         /\ \A r \in Procs : r # p => pc'[r] = pc[r] /\ io'[r] = io[r]
  <1>1. ofile[p][n] \in Files
    BY DEF TypeInv, FilesOK
  <1>2. ofile' = [ofile EXCEPT ![p][n] = None] /\ FileClose(p, ofile[p][n], "user")
    BY DEF Close
  <1>3. ofile' \in [Procs -> [Fds -> Files \cup {None}]]
    BY <1>2 DEF TypeInv, FilesOK
  <1> QED BY <1>1, <1>2, <1>3, FileCloseTypes DEF FilesOK

LEMMA DupTypes ==
  ASSUME TypeInv, NEW p \in Procs, NEW n \in Fds, Dup(p, n)
  PROVE  FilesOK'
  <1>1. CASE ofile[p][n] # None /\ FreeFds(p) # {}
    <2>1. FreeFds(p) \in SUBSET Nat
      BY Constants DEF FreeFds
    <2>2. Least(FreeFds(p)) \in Fds
      BY <1>1, <2>1, LeastIn DEF FreeFds
    <2>3. ofile[p][n] \in Files /\ file[ofile[p][n]] \in FileRec
      BY <1>1 DEF TypeInv, FilesOK
    <2> DEFINE g == [file[ofile[p][n]] EXCEPT !.ref = @ + 1]
    <2>4. g \in FileRec /\ g.type = file[ofile[p][n]].type /\ g.pipe = file[ofile[p][n]].pipe
      BY <2>3 DEF FileRec
    <2>5. file' = [file EXCEPT ![ofile[p][n]] = g]
      BY <1>1 DEF Dup
    <2>6. ofile' = [ofile EXCEPT ![p][Least(FreeFds(p))] = ofile[p][n]]
      BY <1>1 DEF Dup
    <2> HIDE DEF g
    <2>7. file' \in [Files -> FileRec] /\ \A h \in Files : file'[h].type = "pipe" => file'[h].pipe \in Pipes
      BY <2>3, <2>4, <2>5 DEF TypeInv, FilesOK
    <2>8. ofile' \in [Procs -> [Fds -> Files \cup {None}]]
      BY <2>2, <2>3, <2>6 DEF TypeInv, FilesOK
    <2> QED BY <2>7, <2>8 DEF FilesOK
  <1>2. CASE ~(ofile[p][n] # None /\ FreeFds(p) # {})
    BY <1>2 DEF Dup, TypeInv, FilesOK
  <1> QED BY <1>1, <1>2

LEMMA LeastTwo ==
  ASSUME NEW S \in SUBSET Nat, \E a, b \in S : a # b
  PROVE  Least(S) \in S /\ Least(S \ {Least(S)}) \in S \ {Least(S)}
  <1>1. Least(S) \in S
    BY LeastIn
  <1>2. PICK a \in S : \E b \in S : a # b
    OBVIOUS
  <1>3. PICK b \in S : a # b
    BY <1>2
  <1>4. PICK x : x = Least(S)
    OBVIOUS
  <1>5. S \ {x} # {}
    BY <1>2, <1>3
  <1>6. S \ {x} \in SUBSET Nat
    OBVIOUS
  <1> QED BY <1>1, <1>4, <1>5, <1>6, LeastIn

\* What filealloc does, and the part of pipealloc that finds a page.
Allocs(p, end, f) ==
  /\ f \in FreeFiles
  /\ file' = [file EXCEPT ![f].ref = 1]
  /\ taken' = [taken EXCEPT ![p][end] = f]

LEMMA FileAllocIs ==
  ASSUME NEW p \in Procs, NEW end, FileAlloc(p, end)
  PROVE  \E f \in Files : Allocs(p, end, f)
  <1>1. FreeFiles \in SUBSET Nat /\ FreeFiles # {}
    BY Constants DEF FreeFiles, FileAlloc
  <1>2. Least(FreeFiles) \in FreeFiles
    BY <1>1, LeastIn
  <1> QED BY <1>2 DEF Allocs, FileAlloc, FreeFiles

Made(p, q) ==
  /\ ~pipe[q].used
  /\ file' = [file EXCEPT ![taken[p].rf] = End(q, FALSE), ![taken[p].wf] = End(q, TRUE)]
  /\ pipe' = [pipe EXCEPT ![q] = [@ EXCEPT !.used = TRUE, !.nread = 0, !.nwrite = 0,
                                           !.readopen = TRUE, !.writeopen = TRUE]]
  /\ Goto(p, "pipefds")

LEMMA PageParts ==
  ASSUME NEW p \in Procs, PipePage(p)
  PROVE  /\ pc[p] = "pipepage" /\ UNCHANGED <<ofile, taken>>
         /\ \/ \E q \in Pipes : Made(p, q)
            \/ Goto(p, "unpipe") /\ UNCHANGED <<file, pipe>>
  <1> DEFINE q == CHOOSE r \in Pipes : ~pipe[r].used
  <1>1. CASE Goto(p, "unpipe") /\ UNCHANGED <<file, pipe>>
    BY <1>1 DEF PipePage
  <1>2. CASE ~(Goto(p, "unpipe") /\ UNCHANGED <<file, pipe>>)
    <2>1. \E r \in Pipes : ~pipe[r].used
      BY <1>2 DEF PipePage
    <2>2. q \in Pipes /\ ~pipe[q].used
      BY <2>1
    <2>3. Made(p, q)
      BY <1>2, <2>2 DEF PipePage, Made
    <2> QED BY <2>2, <2>3 DEF PipePage
  <1> QED BY <1>1, <1>2

\* What fdalloc gives.
LEMMA FdsFree ==
  ASSUME NEW p \in Procs, NEW r, NEW w, PipeFds(p, r, w)
  PROVE  {r, w} \subseteq FreeFds(p) /\ r # w /\ r \in Fds /\ w \in Fds
  <1>1. FreeFds(p) \in SUBSET Nat /\ \E m, n \in FreeFds(p) : m # n
    BY Constants DEF FreeFds, PipeFds, TwoFree
  <1>2. r = Least(FreeFds(p)) /\ w = Least(FreeFds(p) \ {r})
    BY DEF PipeFds
  <1>3. r \in FreeFds(p) /\ w \in FreeFds(p) \ {r}
    BY <1>1, <1>2, LeastTwo
  <1> QED BY <1>3 DEF FreeFds

\* The file a failing call of pipe closes.
GivenUp(p) == taken[p][IF taken[p].rf # None THEN "rf" ELSE "wf"]
Left(p) == [taken[p] EXCEPT ![IF taken[p].rf # None THEN "rf" ELSE "wf"] = None]

LEMMA GiveBackIs ==
  ASSUME HandsOK, NEW p \in Procs, GiveBack(p)
  PROVE  /\ pc[p] = "unpipe" /\ GivenUp(p) \in Files
         /\ GivenUp(p) = taken[p].rf \/ GivenUp(p) = taken[p].wf
         /\ taken' = [taken EXCEPT ![p] = Left(p)]
         /\ FileClose(p, GivenUp(p), AfterClose(Left(p)))
         /\ AfterClose(Left(p)) \in {"user", "unpipe"}
         /\ UNCHANGED <<ofile, pipe>>
  <1>1. /\ pc[p] = "unpipe" /\ taken' = [taken EXCEPT ![p] = Left(p)]
        /\ FileClose(p, GivenUp(p), AfterClose(Left(p))) /\ UNCHANGED <<ofile, pipe>>
    BY DEF GiveBack, GivenUp, Left
  <1>2. taken[p] \in TakenRec /\ taken[p] # NoFiles
    BY <1>1 DEF HandsOK, HandOK
  <1>3. taken[p] = [rf |-> taken[p].rf, wf |-> taken[p].wf]
    BY <1>2 DEF TakenRec
  <1>4. taken[p].rf # None \/ taken[p].wf # None
    BY <1>2, <1>3 DEF NoFiles
  <1>5. /\ GivenUp(p) \in Files
        /\ GivenUp(p) = taken[p].rf \/ GivenUp(p) = taken[p].wf
    BY <1>2, <1>4 DEF GivenUp, TakenRec
  <1>6. AfterClose(Left(p)) \in {"user", "unpipe"}
    BY DEF AfterClose
  <1> QED BY <1>1, <1>5, <1>6

-----------------------------------------------------------------------------
(* Each action keeps the types.                                            *)

\* Nobody but p starts to wait, and nobody else's calls change.
LEMMA WaitersKeep ==
  ASSUME TypeInv, NEW p \in Procs, pc' \in [Procs -> Places],
         pc'[p] \notin {"wait", "waitsleep"},
         \A r \in Procs : r # p /\ pc'[r] \in {"wait", "waitsleep"}
                            => pc[r] \in {"wait", "waitsleep"} /\ todo'[r] = todo[r]
  PROVE  \A r \in Procs : pc'[r] \in {"wait", "waitsleep"} => todo'[r] # <<>>
  <1> SUFFICES ASSUME NEW r \in Procs, pc'[r] \in {"wait", "waitsleep"}
               PROVE  todo'[r] # <<>>
      OBVIOUS
  <1>1. r # p
    OBVIOUS
  <1>2. pc[r] \in {"wait", "waitsleep"} /\ todo'[r] = todo[r]
    BY <1>1
  <1> QED BY <1>2 DEF TypeInv, ProgsOK

LEMMA EndIs ==
  ASSUME NEW q \in Pipes, NEW w \in BOOLEAN
  PROVE  /\ End(q, w) \in FileRec /\ End(q, w).pipe = q /\ End(q, w).type = "pipe"
         /\ End(q, w).writable = w /\ End(q, w).ref = 1
  BY DEF End, FileRec, Kinds

LEMMA MadeTypes ==
  ASSUME TypeInv, NEW p \in Procs, NEW q \in Pipes, Made(p, q)
  PROVE  /\ file' \in [Files -> FileRec]
         /\ \A h \in Files : file'[h].type = "pipe" => file'[h].pipe \in Pipes
         /\ pipe' \in [Pipes -> PipeRec]
  <1>1. PICK a : a = End(q, FALSE)
    OBVIOUS
  <1>2. PICK b : b = End(q, TRUE)
    OBVIOUS
  <1>3. {a, b} \subseteq FileRec /\ a.pipe = q /\ b.pipe = q
    BY <1>1, <1>2, EndIs
  <1>4. file' = [file EXCEPT ![taken[p].rf] = a, ![taken[p].wf] = b]
    BY <1>1, <1>2 DEF Made
  <1>5. file' \in [Files -> FileRec] /\ \A h \in Files : file'[h].type = "pipe" => file'[h].pipe \in Pipes
    BY <1>3, <1>4 DEF TypeInv, FilesOK
  <1>8. pipe \in [Pipes -> PipeRec]
    BY DEF TypeInv
  <1>9. 0 \in Count
    BY Constants DEF Count
  <1>10. [pipe[q] EXCEPT !.used = TRUE, !.nread = 0, !.nwrite = 0,
                         !.readopen = TRUE, !.writeopen = TRUE] \in PipeRec
    BY <1>8, <1>9 DEF PipeRec
  <1>11. PICK c : c = [pipe[q] EXCEPT !.used = TRUE, !.nread = 0, !.nwrite = 0,
                                      !.readopen = TRUE, !.writeopen = TRUE]
    OBVIOUS
  <1>12. pipe' = [pipe EXCEPT ![q] = c]
    BY <1>11 DEF Made
  <1>13. pipe' \in [Pipes -> PipeRec]
    BY <1>8, <1>10, <1>11, <1>12
  <1> QED BY <1>5, <1>13

\* filealloc, and the place p goes to with the file.
LEMMA AllocTypes ==
  ASSUME TypeInv, NEW p \in Procs, NEW end, NEW f \in Files, Allocs(p, end, f)
  PROVE  /\ file' \in [Files -> FileRec] /\ file'[f].type = file[f].type /\ file'[f].ref = 1
         /\ \A h \in Files : h # f => file'[h] = file[h]
         /\ \A h \in Files : file'[h].type = "pipe" => file'[h].pipe \in Pipes
  <1>1. PICK g : g = [file[f] EXCEPT !.ref = 1]
    OBVIOUS
  <1>2. file[f] \in FileRec
    BY DEF TypeInv, FilesOK
  <1>3. g \in FileRec /\ g.type = file[f].type /\ g.pipe = file[f].pipe /\ g.ref = 1
    BY <1>1, <1>2 DEF FileRec
  <1>4. file' = [file EXCEPT ![f] = g]
    BY <1>1 DEF Allocs
  <1> QED BY <1>3, <1>4 DEF TypeInv, FilesOK

\* A step of a call of pipe that goes on.
LEMMA TypeMaking ==
  ASSUME TypeInv, NEW p \in Procs, NEW w \in {"user"} \cup Making, Goto(p, w), FilesOK',
         pipe' \in [Pipes -> PipeRec], todo' \in [Procs -> Seq(Calls)],
         \A x \in Procs : x # p => todo'[x] = todo[x], env' \in [Procs -> EnvRec],
         UNCHANGED <<input, io, keys, parent>>
  PROVE  TypeInv'
  <1>1. w \in Places /\ w \notin {"wait", "waitsleep", "pipeclose"}
    BY DEF Places, Making
  <1>2. /\ pc' \in [Procs -> Places] /\ pc'[p] = w
        /\ \A x \in Procs : x # p => pc'[x] = pc[x]
    BY <1>1, GotoPlaces
  <1>3. ProgsOK'
    BY <1>1, <1>2, WaitersKeep DEF ProgsOK, TypeInv
  <1>4. IoOK'
    BY <1>1, <1>2 DEF IoOK, TypeInv
  <1> QED BY <1>2, <1>3, <1>4 DEF TypeInv

LEMMA TypePipeCall == ASSUME TypeInv, NEW p \in Procs, PipeCall(p) PROVE TypeInv'
  <1>1. /\ pc[p] = "user" /\ todo[p] # <<>>
        /\ UNCHANGED <<ofile, pipe, input, io, keys, parent, env>>
    BY AboutCall DEF PipeCall, Still
  <1>2. CASE FileAlloc(p, "rf") /\ Goto(p, "pipealloc") /\ UNCHANGED todo
    <2>1. PICK f \in Files : Allocs(p, "rf", f)
      BY <1>2, FileAllocIs
    <2>2. FilesOK'
      BY <1>1, <2>1, AllocTypes DEF TypeInv, FilesOK
    <2>3. "pipealloc" \in Making
      BY DEF Making
    <2> QED BY <1>1, <1>2, <2>2, <2>3, TypeMaking DEF TypeInv, ProgsOK
  <1>3. CASE Then(p, Exits) /\ UNCHANGED <<file, pc>>
    <2>1. todo' \in [Procs -> Seq(Calls)] /\ \A x \in Procs : x # p => todo'[x] = todo[x]
      BY <1>3, ThenCalls, ExitsCalls
    <2>2. pc' \in [Procs -> Places] /\ IoOK'
      BY <1>1, <1>3 DEF TypeInv, IoOK
    <2>3. ProgsOK'
      BY <1>1, <1>3, <2>1, <2>2, WaitersKeep DEF ProgsOK, TypeInv
    <2> QED BY <1>1, <1>3, <2>2, <2>3 DEF TypeInv, FilesOK
  <1> QED BY <1>2, <1>3 DEF PipeCall

LEMMA TypePipeMake == ASSUME TypeInv, NEW p \in Procs, PipeMake(p) PROVE TypeInv'
  <1>1. UNCHANGED <<ofile, input, io, keys, todo, env, parent>>
    BY DEF PipeMake, Still, progs, PipeAlloc, PipePage, NoFds
  <1>2. {"pipepage", "unpipe", "pipefds"} \subseteq Making
    BY DEF Making
  <1>3. todo \in [Procs -> Seq(Calls)] /\ env \in [Procs -> EnvRec] /\ FilesOK
        /\ pipe \in [Pipes -> PipeRec]
    BY DEF TypeInv, ProgsOK
  <1>4. CASE PipeAlloc(p)
    <2>1. pipe' = pipe
      BY <1>4 DEF PipeAlloc
    <2>2. CASE FileAlloc(p, "wf") /\ Goto(p, "pipepage")
      <3>1. PICK f \in Files : Allocs(p, "wf", f)
        BY <2>2, FileAllocIs
      <3>2. FilesOK'
        BY <1>1, <1>3, <3>1, AllocTypes DEF FilesOK
      <3> QED BY <1>1, <1>2, <1>3, <2>1, <2>2, <3>2, TypeMaking
    <2>3. CASE Goto(p, "unpipe") /\ UNCHANGED file
      BY <1>1, <1>2, <1>3, <2>1, <2>3, TypeMaking DEF FilesOK
    <2> QED BY <1>4, <2>2, <2>3 DEF PipeAlloc
  <1>5. CASE PipePage(p)
    <2>1. CASE \E q \in Pipes : Made(p, q)
      <3>1. PICK q \in Pipes : Made(p, q)
        BY <2>1
      <3>2. FilesOK' /\ pipe' \in [Pipes -> PipeRec]
        BY <1>1, <1>3, <3>1, MadeTypes DEF FilesOK
      <3>3. Goto(p, "pipefds")
        BY <3>1 DEF Made
      <3> QED BY <1>1, <1>2, <1>3, <3>2, <3>3, TypeMaking
    <2>2. CASE Goto(p, "unpipe") /\ UNCHANGED <<file, pipe>>
      BY <1>1, <1>2, <1>3, <2>2, TypeMaking DEF FilesOK
    <2> QED BY <1>5, <2>1, <2>2, PageParts
  <1>6. CASE NoFds(p)
    <2>1. Goto(p, "unpipe") /\ UNCHANGED <<file, pipe>>
      BY <1>6 DEF NoFds
    <2> QED BY <1>1, <1>2, <1>3, <2>1, TypeMaking DEF FilesOK
  <1> QED BY <1>4, <1>5, <1>6 DEF PipeMake

LEMMA TypePipeDone == ASSUME TypeInv, HandsOK, NEW p \in Procs, PipeDone(p) PROVE TypeInv'
  <1>1. PICK r \in Fds : \E w \in Fds : /\ PipeFds(p, r, w)
                                        /\ env' = [env EXCEPT ![p].p0 = r, ![p].p1 = w]
    BY DEF PipeDone
  <1>2. PICK w \in Fds : /\ PipeFds(p, r, w)
                         /\ env' = [env EXCEPT ![p].p0 = r, ![p].p1 = w]
    BY <1>1
  <1>3. /\ Goto(p, "user") /\ UNCHANGED <<file, pipe, input, io, keys, parent>>
        /\ Then(p, Rest(p))
        /\ ofile' = [ofile EXCEPT ![p][r] = taken[p].rf, ![p][w] = taken[p].wf]
    BY <1>2 DEF PipeDone, PipeFds, Still
  <1>4. taken[p].rf \in Files \cup {None} /\ taken[p].wf \in Files \cup {None}
    BY DEF HandsOK, TakenRec
  <1>5. FilesOK'
    BY <1>3, <1>4 DEF TypeInv, FilesOK
  <1>6. env' \in [Procs -> EnvRec]
    BY <1>2 DEF TypeInv, ProgsOK, EnvRec
  <1>9. todo[p] # <<>>
    BY <1>2 DEF PipeFds, HandsOK, HandOK
  <1>7. todo' \in [Procs -> Seq(Calls)] /\ \A x \in Procs : x # p => todo'[x] = todo[x]
    BY <1>3, <1>9, RestCalls
  <1>8. pipe' \in [Pipes -> PipeRec]
    BY <1>3 DEF TypeInv
  <1> QED BY <1>3, <1>5, <1>6, <1>7, <1>8, TypeMaking

LEMMA TypePipeFails ==
  ASSUME TypeInv, HandsOK, NEW p \in Procs, PipeFails(p)
  PROVE  TypeInv'
  <1>1. /\ GiveBack(p) /\ Then(p, Exits)
        /\ UNCHANGED <<ofile, keys, pipe, input, env, parent>>
    BY DEF PipeFails, Still, GiveBack
  <1>2. PICK next \in {"user", "unpipe"}, f \in Files : FileClose(p, f, next)
    BY <1>1, GiveBackIs
  <1>3. /\ file' \in [Files -> FileRec]
        /\ \A g \in Files : file'[g].type = "pipe" => file'[g].pipe \in Pipes
        /\ IoOK' /\ pc' \in [Procs -> Places]
        /\ pc'[p] \in {next, "pipeclose"}
        /\ \A r \in Procs : r # p => pc'[r] = pc[r] /\ io'[r] = io[r]
    BY <1>2, FileCloseTypes
  <1>4. todo' \in [Procs -> Seq(Calls)] /\ \A x \in Procs : x # p => todo'[x] = todo[x]
    BY <1>1, ThenCalls, ExitsCalls
  <1>5. ProgsOK'
    BY <1>1, <1>3, <1>4, WaitersKeep DEF ProgsOK, TypeInv
  <1> QED BY <1>1, <1>3, <1>5 DEF TypeInv, FilesOK

LEMMA TypeDupCall == ASSUME TypeInv, NEW p \in Procs, DupCall(p) PROVE TypeInv'
  <1>1. /\ About(p, "dup") /\ Dup(p, env[p][Head(todo[p]).fd]) /\ Then(p, Rest(p))
        /\ UNCHANGED <<keys, pipe, input, pc, io, env, parent>>
    BY DEF DupCall, Still
  <1>2. pc[p] = "user" /\ todo[p] # <<>>
    BY <1>1, AboutCall
  <1>3. FilesOK'
    BY <1>1, AboutDescriptor, DupTypes
  <1>4. todo' \in [Procs -> Seq(Calls)] /\ \A x \in Procs : x # p => todo'[x] = todo[x]
    BY <1>1, <1>2, RestCalls
  <1>5. ProgsOK'
    BY <1>1, <1>2, <1>4, WaitersKeep DEF ProgsOK, TypeInv
  <1> QED BY <1>1, <1>3, <1>5 DEF TypeInv, IoOK

\* The two calls that close a descriptor.
LEMMA TypeCloses ==
  ASSUME TypeInv, NEW p \in Procs, NEW n \in Fds, ofile[p][n] # None,
         pc[p] = "user", Close(p, n, "user"),
         NEW s \in Seq(Calls), Then(p, s), UNCHANGED <<keys, pipe, input, env, parent>>
  PROVE  TypeInv'
  <1>1. /\ FilesOK' /\ IoOK' /\ pc' \in [Procs -> Places]
        /\ pc'[p] \in {"user", "pipeclose"}
        /\ \A r \in Procs : r # p => pc'[r] = pc[r] /\ io'[r] = io[r]
    BY CloseTypes
  <1>2. todo' \in [Procs -> Seq(Calls)] /\ \A x \in Procs : x # p => todo'[x] = todo[x]
    BY ThenCalls
  <1>3. ProgsOK'
    BY <1>1, <1>2, WaitersKeep DEF ProgsOK, TypeInv
  <1> QED BY <1>1, <1>3 DEF TypeInv

LEMMA TypeCloseCall == ASSUME TypeInv, NEW p \in Procs, CloseCall(p) PROVE TypeInv'
  <1> DEFINE n == env[p][Head(todo[p]).fd]
  <1>1. /\ About(p, "close") /\ Then(p, Rest(p))
        /\ UNCHANGED <<keys, pipe, input, env, parent>>
    BY DEF CloseCall, Still
  <1>2. pc[p] = "user" /\ todo[p] # <<>> /\ n \in Fds /\ Rest(p) \in Seq(Calls)
    BY <1>1, AboutCall, AboutDescriptor, TodoParts
  <1>3. IF ofile[p][n] # None THEN Close(p, n, "user") ELSE UNCHANGED <<ofile, file, pc, io>>
    BY DEF CloseCall
  <1> HIDE DEF n
  <1>4. CASE ofile[p][n] # None
    BY <1>1, <1>2, <1>3, <1>4, TypeCloses
  <1>5. CASE ofile[p][n] = None
    <2>1. UNCHANGED <<ofile, file, pc, io>>
      BY <1>3, <1>5
    <2>2. todo' \in [Procs -> Seq(Calls)] /\ \A x \in Procs : x # p => todo'[x] = todo[x]
      BY <1>1, <1>2, RestCalls
    <2>3. ProgsOK'
      BY <1>1, <1>2, <2>1, <2>2, WaitersKeep DEF ProgsOK, TypeInv
    <2> QED BY <1>1, <2>1, <2>3 DEF TypeInv, FilesOK, IoOK
  <1> QED BY <1>4, <1>5

\* The descriptor exit closes next.
LEMMA NextOpen ==
  ASSUME NEW p \in Procs, \E n \in Fds : ofile[p][n] # None
  PROVE  /\ Least({n \in Fds : ofile[p][n] # None}) \in Fds
         /\ ofile[p][Least({n \in Fds : ofile[p][n] # None})] # None
  <1> DEFINE S == {n \in Fds : ofile[p][n] # None}
  <1>1. S \in SUBSET Nat /\ S # {}
    BY Constants
  <1>2. Least(S) \in S
    BY <1>1, LeastIn
  <1> QED BY <1>2

LEMMA TypeExitClose == ASSUME TypeInv, NEW p \in Procs, ExitClose(p) PROVE TypeInv'
  <1>1. PICK n : n = Least({m \in Fds : ofile[p][m] # None})
    OBVIOUS
  <1>2. n \in Fds /\ ofile[p][n] # None
    BY <1>1, NextOpen DEF ExitClose
  <1>3. /\ pc[p] = "user" /\ Close(p, n, "user") /\ Then(p, Exits)
        /\ UNCHANGED <<keys, pipe, input, env, parent>>
    BY <1>1 DEF ExitClose, Still, About
  <1> QED BY <1>2, <1>3, ExitsCalls, TypeCloses

LEMMA TypeExit == ASSUME TypeInv, NEW p \in Procs, Exit(p) PROVE TypeInv'
  <1>1. /\ pc[p] = "user" /\ Then(p, <<>>)
        /\ UNCHANGED <<ofile, file, pipe, input, io, env, keys>>
    BY DEF Exit, About, Still
  <1>2. pc' = [q \in Procs |->
                 IF q = p THEN "zombie"
                 ELSE IF q = parent[p] /\ pc[q] = "waitsleep" THEN "wait" ELSE pc[q]]
    BY DEF Exit
  <1>3. parent' = [q \in Procs |-> IF parent[q] = p THEN None ELSE parent[q]]
    BY DEF Exit
  <1>4. pc' \in [Procs -> Places] /\ pc'[p] = "zombie"
    BY <1>2 DEF TypeInv, Places
  <1>5. todo' \in [Procs -> Seq(Calls)] /\ \A x \in Procs : x # p => todo'[x] = todo[x]
    BY <1>1, ExitsCalls, ThenCalls
  <1>6. parent' \in [Procs -> Procs \cup {None}]
    BY <1>3 DEF TypeInv, ProgsOK
  <1>7. \A r \in Procs : r # p /\ pc'[r] \in {"wait", "waitsleep"}
                            => pc[r] \in {"wait", "waitsleep"} /\ todo'[r] = todo[r]
    BY <1>2, <1>5
  <1>8. ProgsOK'
    BY <1>1, <1>4, <1>5, <1>6, <1>7, WaitersKeep DEF ProgsOK, TypeInv
  <1>9. IoOK'
    BY <1>1, <1>2 DEF IoOK, TypeInv
  <1> QED BY <1>1, <1>4, <1>8, <1>9 DEF TypeInv, FilesOK

\* Only sleepers on a pipe move, and p.
Moved(p, f) == f \in [Procs -> Places] /\ \A r \in Procs : r # p => f[r] = pc[r]

LEMMA MovedTo ==
  ASSUME TypeInv, NEW p \in Procs, NEW w \in Places
  PROVE  \E f \in [Procs -> Places] : f = [pc EXCEPT ![p] = w] /\ f[p] = w /\ Moved(p, f)
  <1>1. PICK f : f = [pc EXCEPT ![p] = w]
    OBVIOUS
  <1>2. f \in [Procs -> Places] /\ f[p] = w /\ \A r \in Procs : r # p => f[r] = pc[r]
    BY <1>1 DEF TypeInv
  <1> QED BY <1>1, <1>2 DEF Moved

LEMMA TypeWakes ==
  ASSUME TypeInv, NEW p \in Procs, NEW at \in {"read", "write"}, NEW q,
         NEW f, Moved(p, f), pc' = WakePipe(at, q, f)
  PROVE  /\ pc' \in [Procs -> Places] /\ pc'[p] \in {f[p], at}
         /\ \A r \in Procs : r # p =>
              pc'[r] = IF pc[r] = Asleep[at] /\ io[r].kind = "pipe" /\ io[r].pipe = q
                       THEN at ELSE pc[r]
         /\ f[p] # Asleep[at] => pc'[p] = f[p]
  BY WakePlaces DEF Moved

LEMMA ShutPipe ==
  ASSUME TypeInv, NEW p \in Procs, pc[p] = "pipeclose", Shut(p)
  PROVE  pipe' \in [Pipes -> PipeRec]
  <1>1. io[p].pipe \in Pipes /\ io[p].writable \in BOOLEAN
    BY DEF TypeInv, IoOK, IoRec
  <1>2. pipe \in [Pipes -> PipeRec]
    BY DEF TypeInv
  <1>3. pipe[io[p].pipe].readopen \in BOOLEAN /\ pipe[io[p].pipe].writeopen \in BOOLEAN
    BY <1>1, <1>2 DEF PipeRec
  <1>4. PICK r \in BOOLEAN : r = (pipe[io[p].pipe].readopen /\ io[p].writable)
    OBVIOUS
  <1>5. PICK w \in BOOLEAN : w = (pipe[io[p].pipe].writeopen /\ ~io[p].writable)
    OBVIOUS
  <1>6. PICK u \in BOOLEAN : u = (r \/ w)
    OBVIOUS
  <1>7. pipe' = [pipe EXCEPT ![io[p].pipe].readopen = r, ![io[p].pipe].writeopen = w,
                             ![io[p].pipe].used = u]
    BY <1>4, <1>5, <1>6 DEF Shut
  <1>8. [[[pipe[io[p].pipe] EXCEPT !.readopen = r] EXCEPT !.writeopen = w] EXCEPT !.used = u]
          \in PipeRec
    BY <1>1, <1>2 DEF PipeRec
  <1> QED BY <1>1, <1>2, <1>7, <1>8

LEMMA AfterIs == \A t : AfterClose(t) \in {"user", "unpipe"} /\ AfterClose(t) \in Places
  BY DEF AfterClose, Places, Making

LEMMA TypeFinish == ASSUME TypeInv, NEW p \in Procs, Finish(p) PROVE TypeInv'
  <1>1. /\ pc[p] = "pipeclose" /\ Shut(p)
        /\ UNCHANGED <<ofile, file, input, io, env, keys, parent, todo>>
    BY DEF Finish, PipeClose, Still, progs
  <1>0. PICK next \in {"user", "unpipe"} : next = AfterClose(taken[p]) /\ next \in Places
    BY AfterIs
  <1>2. PICK at \in {"read", "write"} :
          pc' = WakePipe(at, io[p].pipe, [pc EXCEPT ![p] = next])
    BY <1>0 DEF Finish, PipeClose
  <1>3. PICK f \in [Procs -> Places] : f = [pc EXCEPT ![p] = next] /\ f[p] = next /\ Moved(p, f)
    BY <1>0, MovedTo
  <1>4. /\ pc' \in [Procs -> Places] /\ pc'[p] \in {next, at}
        /\ \A r \in Procs : r # p =>
              pc'[r] = IF pc[r] = Asleep[at] /\ io[r].kind = "pipe" /\ io[r].pipe = io[p].pipe
                       THEN at ELSE pc[r]
    <2>1. pc' = WakePipe(at, io[p].pipe, f)
      BY <1>2, <1>3
    <2>2. Moved(p, f) /\ f[p] = next
      BY <1>3
    <2>3. /\ pc' \in [Procs -> Places] /\ pc'[p] \in {f[p], at}
          /\ \A r \in Procs : r # p =>
                pc'[r] = IF pc[r] = Asleep[at] /\ io[r].kind = "pipe" /\ io[r].pipe = io[p].pipe
                         THEN at ELSE pc[r]
      BY <2>1, <2>2, TypeWakes
    <2> QED BY <2>2, <2>3
  <1>5. ProgsOK'
    BY <1>1, <1>4, WaitersKeep DEF ProgsOK, TypeInv
  <1>6. IoOK'
    BY <1>1, <1>4 DEF IoOK, TypeInv
  <1>7. pipe' \in [Pipes -> PipeRec]
    BY <1>1, ShutPipe
  <1> QED BY <1>1, <1>4, <1>5, <1>6, <1>7 DEF TypeInv, FilesOK

\* The three outcomes of wait: a zombie is reaped, it fails, or it sleeps.
Reaps(p, q) ==
  /\ parent[q] = p /\ pc[q] = "zombie"
  /\ pc' = [[pc EXCEPT ![q] = "unused"] EXCEPT ![p] = "user"]
  /\ parent' = [parent EXCEPT ![q] = None]
  /\ Then(p, Rest(p))
WaitFails(p) == Goto(p, "user") /\ Then(p, Rest(p)) /\ UNCHANGED parent
WaitSleeps(p) ==
  /\ \E q \in Procs : parent[q] = p /\ pc[q] # "unused"
  /\ \A q \in Procs : parent[q] = p => pc[q] # "zombie"
  /\ Goto(p, "waitsleep") /\ UNCHANGED <<todo, parent>>

LEMMA WaitOutcomes ==
  ASSUME NEW p \in Procs, Wait(p)
  PROVE  (\E q \in Procs : Reaps(p, q)) \/ WaitFails(p) \/ WaitSleeps(p)
  <1> DEFINE mine == {q \in Procs : parent[q] = p /\ pc[q] # "unused"}
             dead == {q \in mine : pc[q] = "zombie"}
  <1>1. CASE dead # {}
    <2>1. PICK q \in dead : pc' = [Reap(q) EXCEPT ![p] = "user"] /\ parent' = [parent EXCEPT ![q] = None]
      BY <1>1 DEF Wait
    <2>2. Then(p, Rest(p))
      BY <1>1 DEF Wait
    <2>3. q \in Procs /\ Reaps(p, q)
      BY <2>1, <2>2 DEF Reaps, Reap
    <2> QED BY <2>3
  <1>2. CASE dead = {} /\ (mine = {} \/ killed[p])
    BY <1>2 DEF Wait, WaitFails
  <1>3. CASE dead = {} /\ ~(mine = {} \/ killed[p])
    <2>1. Goto(p, "waitsleep") /\ UNCHANGED <<todo, parent>>
      BY <1>3 DEF Wait
    <2>2. \E q \in Procs : parent[q] = p /\ pc[q] # "unused"
      BY <1>3
    <2>3. \A q \in Procs : parent[q] = p => pc[q] # "zombie"
      BY <1>3
    <2> QED BY <2>1, <2>2, <2>3 DEF WaitSleeps
  <1> QED BY <1>1, <1>2, <1>3

LEMMA WaitStarts ==
  ASSUME TypeInv, NEW p \in Procs, Wait(p)
  PROVE  /\ pc[p] \in {"user", "wait"} /\ todo[p] # <<>>
         /\ UNCHANGED <<ofile, file, pipe, input, io, env, keys, killed, unwoken>>
  BY DEF Wait, About, Still, TypeInv, ProgsOK

LEMMA TypeWait == ASSUME TypeInv, NEW p \in Procs, Wait(p) PROVE TypeInv'
  <1>1. /\ pc[p] \in {"user", "wait"} /\ todo[p] # <<>>
        /\ UNCHANGED <<ofile, file, pipe, input, io, env, keys>>
    BY WaitStarts
  <1>2. CASE \E q \in Procs : Reaps(p, q)
    <2>1. PICK q \in Procs : Reaps(p, q)
      BY <1>2
    <2>2. "user" \in Places /\ "unused" \in Places
      BY DEF Places
    <2>3. /\ pc' \in [Procs -> Places] /\ pc'[p] = "user"
          /\ \A r \in Procs : r # p => pc'[r] = pc[r] \/ pc'[r] = "unused"
      BY <2>1, <2>2 DEF Reaps, TypeInv
    <2>4. todo' \in [Procs -> Seq(Calls)] /\ \A x \in Procs : x # p => todo'[x] = todo[x]
      BY <1>1, <2>1, RestCalls DEF Reaps
    <2>5. parent' \in [Procs -> Procs \cup {None}]
      BY <2>1 DEF Reaps, TypeInv, ProgsOK
    <2>6. \A r \in Procs : r # p /\ pc'[r] \in {"wait", "waitsleep"}
                            => pc[r] \in {"wait", "waitsleep"} /\ todo'[r] = todo[r]
      BY <2>3, <2>4
    <2>7. ProgsOK'
      BY <1>1, <2>3, <2>4, <2>5, <2>6, WaitersKeep DEF ProgsOK, TypeInv
    <2>8. IoOK'
      BY <1>1, <2>3 DEF IoOK, TypeInv
    <2> QED BY <1>1, <2>3, <2>7, <2>8 DEF TypeInv, FilesOK
  <1>3. CASE WaitFails(p)
    <2>1. "user" \in Places
      BY DEF Places
    <2>2. /\ pc' \in [Procs -> Places] /\ pc'[p] = "user"
          /\ \A r \in Procs : r # p => pc'[r] = pc[r]
      BY <1>3, <2>1, GotoPlaces DEF WaitFails
    <2>4. todo' \in [Procs -> Seq(Calls)] /\ \A x \in Procs : x # p => todo'[x] = todo[x]
      BY <1>1, <1>3, RestCalls DEF WaitFails
    <2>7. ProgsOK'
      BY <1>1, <1>3, <2>2, <2>4, WaitersKeep DEF ProgsOK, TypeInv, WaitFails
    <2>8. IoOK'
      BY <1>1, <2>2 DEF IoOK, TypeInv
    <2> QED BY <1>1, <2>2, <2>7, <2>8 DEF TypeInv, FilesOK
  <1>4. CASE WaitSleeps(p)
    <2>1. "waitsleep" \in Places
      BY DEF Places, Blocked
    <2>2. /\ pc' \in [Procs -> Places] /\ pc'[p] = "waitsleep"
          /\ \A r \in Procs : r # p => pc'[r] = pc[r]
      BY <1>4, <2>1, GotoPlaces DEF WaitSleeps
    <2>7. ProgsOK'
      BY <1>1, <1>4, <2>2 DEF ProgsOK, TypeInv, WaitSleeps
    <2>8. IoOK'
      BY <1>1, <2>2 DEF IoOK, TypeInv
    <2> QED BY <1>1, <2>2, <2>7, <2>8 DEF TypeInv, FilesOK
  <1> QED BY <1>2, <1>3, <1>4, WaitOutcomes

LEMMA TypeInitReaps == ASSUME TypeInv, NEW p \in Procs, InitReaps(p) PROVE TypeInv'
  <1>1. /\ pc[p] = "zombie" /\ pc' = [pc EXCEPT ![p] = "unused"]
        /\ UNCHANGED <<ofile, file, pipe, input, io, env, keys, parent, todo>>
    BY DEF InitReaps, Reap, Still, progs
  <1>2. "unused" \in Places
    BY DEF Places
  <1>3. pc' \in [Procs -> Places] /\ \A r \in Procs : pc'[r] = pc[r] \/ pc'[r] = "unused"
    BY <1>1, <1>2 DEF TypeInv
  <1> QED BY <1>1, <1>3 DEF TypeInv, FilesOK, IoOK, ProgsOK

LEMMA TypeForkCall == ASSUME TypeInv, NEW p \in Procs, ForkCall(p) PROVE TypeInv'
  <1> DEFINE free == {r \in Procs : pc[r] = "unused"}
             q == CHOOSE r \in free : TRUE
  <1>1. /\ pc[p] = "user" /\ todo[p] # <<>> /\ Head(todo[p]).do = "fork"
        /\ UNCHANGED <<pipe, input, io, keys>>
    BY AboutCall DEF ForkCall, Still
  <1>2. CASE free = {}
    <2>1. Then(p, Exits) /\ UNCHANGED <<ofile, file, pc, env, parent>>
      BY <1>2 DEF ForkCall
    <2>2. todo' \in [Procs -> Seq(Calls)] /\ \A x \in Procs : x # p => todo'[x] = todo[x]
      BY <2>1, ThenCalls, ExitsCalls
    <2>3. ProgsOK'
      BY <1>1, <2>1, <2>2, WaitersKeep DEF ProgsOK, TypeInv
    <2> QED BY <1>1, <2>1, <2>3 DEF TypeInv, FilesOK, IoOK
  <1>3. CASE free # {}
    <2>1. /\ Inherit(p, q)
          /\ pc' = [pc EXCEPT ![q] = "user"]
          /\ env' = [env EXCEPT ![q] = env[p]]
          /\ parent' = [parent EXCEPT ![q] = p]
          /\ todo' = [todo EXCEPT ![p] = Ready(Rest(p)), ![q] = Ready(Head(todo[p]).child)]
      BY <1>3 DEF ForkCall
    <2>2. q \in Procs /\ pc[q] = "unused"
      BY <1>3
    <2> HIDE DEF free, q
    <2>3. Ready(Rest(p)) \in Seq(Calls) /\ Ready(Head(todo[p]).child) \in Seq(Calls)
      <3>1. Head(todo[p]) \in Calls /\ Rest(p) \in Seq(Calls)
        BY <1>1, TodoParts
      <3>2. Head(todo[p]).child \in Seq(Calls)
        BY <1>1, <3>1, CallParts, EarlyCalls
      <3> QED BY <3>1, <3>2, ReadyCalls
    <2>4. todo' \in [Procs -> Seq(Calls)] /\ \A x \in Procs : x # p /\ x # q => todo'[x] = todo[x]
      BY <2>1, <2>2, <2>3 DEF TypeInv, ProgsOK
    <2>5. env' \in [Procs -> EnvRec] /\ parent' \in [Procs -> Procs \cup {None}]
      BY <2>1, <2>2 DEF TypeInv, ProgsOK
    <2>6. "user" \in Places
      BY DEF Places
    <2>7. /\ pc' \in [Procs -> Places] /\ pc'[q] = "user" /\ pc'[p] = "user"
          /\ \A x \in Procs : x # q => pc'[x] = pc[x]
      BY <1>1, <2>1, <2>2, <2>6 DEF TypeInv
    <2>8. \A r \in Procs : r # p /\ pc'[r] \in {"wait", "waitsleep"}
                            => pc[r] \in {"wait", "waitsleep"} /\ todo'[r] = todo[r]
      BY <2>4, <2>7
    <2>9. ProgsOK'
      BY <2>4, <2>5, <2>7, <2>8, WaitersKeep DEF ProgsOK
    <2>10. IoOK'
      BY <1>1, <2>7 DEF IoOK, TypeInv
    <2>11. FilesOK'
      <3>1. file \in [Files -> FileRec] /\ ofile \in [Procs -> [Fds -> Files \cup {None}]]
        BY DEF TypeInv, FilesOK
      <3>2. ofile' \in [Procs -> [Fds -> Files \cup {None}]]
        BY <2>1, <3>1 DEF Inherit
      <3>3. ASSUME NEW f \in Files
            PROVE  file'[f] \in FileRec /\ (file'[f].type = "pipe" => file'[f].pipe \in Pipes)
        <4> DEFINE c == Cardinality({n \in Fds : ofile[p][n] = f})
        <4>1. c \in Nat
          <5>1. IsFiniteSet({n \in Fds : ofile[p][n] = f})
            BY Constants, FS_Subset
          <5> QED BY <5>1, FS_CardinalityType
        <4>2. file'[f] = [file[f] EXCEPT !.ref = @ + c]
          BY <2>1 DEF Inherit
        <4> HIDE DEF c
        <4>3. file'[f] \in FileRec /\ file'[f].type = file[f].type /\ file'[f].pipe = file[f].pipe
          BY <3>1, <4>1, <4>2 DEF FileRec
        <4> QED BY <4>3 DEF TypeInv, FilesOK
      <3>4. file' \in [Files -> FileRec]
        <4>1. file' = [f \in Files |-> file'[f]]
          BY <2>1 DEF Inherit
        <4> QED BY <3>3, <4>1
      <3> QED BY <3>2, <3>3, <3>4 DEF FilesOK
    <2> QED BY <1>1, <2>7, <2>9, <2>10, <2>11 DEF TypeInv
  <1> QED BY <1>2, <1>3

\* What fileread and filewrite start.
Begun(p, n, s, what) ==
  \/ pc'[p] = "failed" /\ io' = io
  \/ /\ pc'[p] = what /\ ofile[p][n] \in Files
     /\ io'[p].kind = file[ofile[p][n]].type
     /\ io'[p].pipe = file[ofile[p][n]].pipe
     /\ io'[p].bytes = s

LEMMA BeginTypes ==
  ASSUME TypeInv, NEW p \in Procs, NEW n \in Fds, NEW s \in Seq(Byte),
         NEW what \in {"read", "write"}, NEW usable, pc[p] # "pipeclose",
         Begin(p, n, s, what, usable)
  PROVE  /\ IoOK' /\ pc' \in [Procs -> Places] /\ Begun(p, n, s, what)
         /\ pc'[p] \in {what, "failed"} /\ (pc'[p] = what => usable)
         /\ \A r \in Procs : r # p => pc'[r] = pc[r] /\ io'[r] = io[r]
         /\ UNCHANGED <<ofile, file, pipe, input, out, killed, unwoken>>
  <1>1. UNCHANGED <<ofile, file, pipe, input, out, killed, unwoken>>
    BY DEF Begin
  <1>2. {"read", "write", "failed"} \subseteq Places
    BY DEF Places
  <1>3. CASE ofile[p][n] # None /\ usable
    <2> DEFINE f == ofile[p][n]
    <2>1. f \in Files /\ file[f] \in FileRec /\ (file[f].type = "pipe" => file[f].pipe \in Pipes)
      BY <1>3 DEF TypeInv, FilesOK
    <2>2. PICK g : g = [Idle EXCEPT !.kind = file[f].type, !.pipe = file[f].pipe, !.bytes = s]
      OBVIOUS
    <2>3. io' = [io EXCEPT ![p] = g] /\ Goto(p, what)
      BY <1>3, <2>2 DEF Begin
    <2>4. g \in IoRec
      BY <2>1, <2>2 DEF Idle, IoRec, FileRec, Kinds
    <2>5. g.kind = file[f].type /\ g.pipe = file[f].pipe /\ g.bytes = s
      BY <2>2 DEF Idle
    <2> HIDE DEF f
    <2>6. /\ pc' \in [Procs -> Places] /\ pc'[p] = what
          /\ \A r \in Procs : r # p => pc'[r] = pc[r]
      BY <1>2, <2>3, GotoPlaces
    <2>7. io \in [Procs -> IoRec] /\ \A r \in Procs : io[r].kind = "pipe" \/ pc[r] = "pipeclose" => io[r].pipe \in Pipes
      BY DEF TypeInv, IoOK
    <2>8. io' \in [Procs -> IoRec] /\ io'[p] = g /\ \A r \in Procs : r # p => io'[r] = io[r]
      BY <2>3, <2>4, <2>7
    <2>9. IoOK'
      BY <2>1, <2>5, <2>6, <2>7, <2>8 DEF IoOK
    <2> QED BY <1>1, <1>3, <2>1, <2>5, <2>6, <2>8, <2>9 DEF Begun, f
  <1>4. CASE ~(ofile[p][n] # None /\ usable)
    <2>1. Goto(p, "failed") /\ io' = io
      BY <1>4 DEF Begin
    <2>2. /\ pc' \in [Procs -> Places] /\ pc'[p] = "failed"
          /\ \A r \in Procs : r # p => pc'[r] = pc[r]
      BY <1>2, <2>1, GotoPlaces
    <2>3. IoOK'
      BY <2>1, <2>2 DEF IoOK, TypeInv
    <2> QED BY <1>1, <2>1, <2>2, <2>3 DEF Begun
  <1> QED BY <1>3, <1>4

LEMMA TypeEcho == ASSUME TypeInv, NEW p \in Procs, Echo(p) PROVE TypeInv'
  <1>1. /\ pc[p] = "user" /\ todo[p] # <<>> /\ Head(todo[p]).do = "echo"
        /\ FileWrite(p, 1, Head(todo[p]).bytes) /\ Then(p, Rest(p))
        /\ UNCHANGED <<env, parent, keys>>
    BY AboutCall DEF Echo
  <1>2. Head(todo[p]).bytes \in Seq(Byte)
    BY <1>1, TodoParts, CallParts
  <1>3. /\ IoOK' /\ pc' \in [Procs -> Places] /\ pc'[p] \in {"write", "failed"}
        /\ \A r \in Procs : r # p => pc'[r] = pc[r] /\ io'[r] = io[r]
        /\ UNCHANGED <<ofile, file, pipe, input>>
    BY <1>1, <1>2, Constants, BeginTypes DEF FileWrite
  <1>4. todo' \in [Procs -> Seq(Calls)] /\ \A x \in Procs : x # p => todo'[x] = todo[x]
    BY <1>1, RestCalls
  <1>5. ProgsOK'
    BY <1>1, <1>3, <1>4, WaitersKeep DEF ProgsOK, TypeInv
  <1> QED BY <1>1, <1>3, <1>5 DEF TypeInv, FilesOK

LEMMA TypeCatRead == ASSUME TypeInv, NEW p \in Procs, CatRead(p) PROVE TypeInv'
  <1>1. /\ pc[p] = "user" /\ FileRead(p, 0) /\ UNCHANGED <<env, parent, keys, todo>>
    BY AboutCall DEF CatRead, Still, progs
  <1>2. /\ IoOK' /\ pc' \in [Procs -> Places] /\ pc'[p] \in {"read", "failed"}
        /\ \A r \in Procs : r # p => pc'[r] = pc[r] /\ io'[r] = io[r]
        /\ UNCHANGED <<ofile, file, pipe, input>>
    BY <1>1, Constants, EmptyBytes, BeginTypes DEF FileRead
  <1>3. ProgsOK'
    BY <1>1, <1>2, WaitersKeep DEF ProgsOK, TypeInv
  <1> QED BY <1>1, <1>2, <1>3 DEF TypeInv, FilesOK

LEMMA TypeCatGot == ASSUME TypeInv, NEW p \in Procs, CatGot(p) PROVE TypeInv'
  <1>1. pc[p] = "got" /\ UNCHANGED <<env, parent, keys>>
    BY DEF CatGot, Still
  <1>2. CASE killed[p] \/ io[p].bytes = <<>>
    <2>1. /\ Goto(p, "user") /\ Then(p, Exits)
          /\ UNCHANGED <<ofile, file, pipe, input, io>>
      BY <1>2 DEF CatGot
    <2>2. "user" \in Places
      BY DEF Places
    <2>3. /\ pc' \in [Procs -> Places] /\ pc'[p] = "user"
          /\ \A r \in Procs : r # p => pc'[r] = pc[r]
      BY <2>1, <2>2, GotoPlaces
    <2>4. todo' \in [Procs -> Seq(Calls)] /\ \A x \in Procs : x # p => todo'[x] = todo[x]
      BY <2>1, ThenCalls, ExitsCalls
    <2>5. ProgsOK'
      BY <1>1, <2>3, <2>4, WaitersKeep DEF ProgsOK, TypeInv
    <2>6. IoOK'
      BY <2>1, <2>3 DEF IoOK, TypeInv
    <2> QED BY <1>1, <2>1, <2>3, <2>5, <2>6 DEF TypeInv, FilesOK
  <1>3. CASE ~(killed[p] \/ io[p].bytes = <<>>)
    <2>1. FileWrite(p, 1, io[p].bytes) /\ UNCHANGED todo
      BY <1>3 DEF CatGot
    <2>2. io[p].bytes \in Seq(Byte)
      BY DEF TypeInv, IoOK, IoRec
    <2>3. /\ IoOK' /\ pc' \in [Procs -> Places] /\ pc'[p] \in {"write", "failed"}
          /\ \A r \in Procs : r # p => pc'[r] = pc[r] /\ io'[r] = io[r]
          /\ UNCHANGED <<ofile, file, pipe, input>>
      BY <1>1, <2>1, <2>2, Constants, BeginTypes DEF FileWrite
    <2>4. ProgsOK'
      BY <1>1, <2>1, <2>3, WaitersKeep DEF ProgsOK, TypeInv
    <2> QED BY <1>1, <2>3, <2>4 DEF TypeInv, FilesOK
  <1> QED BY <1>2, <1>3

LEMMA TypeReturn == ASSUME TypeInv, NEW p \in Procs, Return(p) PROVE TypeInv'
  <1>1. /\ Goto(p, "user") /\ Then(p, Exits)
        /\ UNCHANGED <<ofile, file, pipe, input, io, env, parent, keys>>
    BY DEF Return, Still
  <1>2. "user" \in Places
    BY DEF Places
  <1>3. /\ pc' \in [Procs -> Places] /\ pc'[p] = "user"
        /\ \A r \in Procs : r # p => pc'[r] = pc[r]
    BY <1>1, <1>2, GotoPlaces
  <1>4. todo' \in [Procs -> Seq(Calls)] /\ \A x \in Procs : x # p => todo'[x] = todo[x]
    BY <1>1, ThenCalls, ExitsCalls
  <1>5. ProgsOK'
    BY <1>1, <1>3, <1>4, WaitersKeep DEF ProgsOK, TypeInv
  <1>6. IoOK'
    BY <1>1, <1>3 DEF IoOK, TypeInv
  <1> QED BY <1>1, <1>3, <1>5, <1>6 DEF TypeInv, FilesOK

\* kill makes a sleeper runnable.
LEMMA Rouses ==
  ASSUME TypeInv, NEW p \in Procs, KillOne(p)
  PROVE  /\ UNCHANGED <<ofile, file, pipe, input, io, env, parent, keys, todo, unwoken>>
         /\ pc' \in [Procs -> Places]
         /\ \A r \in Procs : r # p => pc'[r] = pc[r]
         /\ \/ pc'[p] = pc[p] /\ pc[p] \notin Blocked
            \/ pc[p] = "readsleep" /\ pc'[p] = "read"
            \/ pc[p] = "writesleep" /\ pc'[p] = "write"
            \/ pc[p] = "waitsleep" /\ pc'[p] = "wait"
  <1>1. UNCHANGED <<ofile, file, pipe, input, io, env, parent, keys, todo, unwoken>>
    BY DEF KillOne, Kill, progs
  <1>2. pc' = [pc EXCEPT ![p] = CASE @ = "readsleep" -> "read"
                                  [] @ = "writesleep" -> "write"
                                  [] @ = "waitsleep" -> "wait"
                                  [] OTHER -> @]
    BY DEF KillOne, Kill
  <1>3. {"read", "write", "wait"} \subseteq Places /\ pc[p] \in Places
    BY DEF Places, TypeInv
  <1>4. \A r \in Procs : r # p => pc'[r] = pc[r]
    BY <1>2 DEF TypeInv
  <1>5. /\ pc' \in [Procs -> Places]
        /\ \/ pc'[p] = pc[p] /\ pc[p] \notin Blocked
           \/ pc[p] = "readsleep" /\ pc'[p] = "read"
           \/ pc[p] = "writesleep" /\ pc'[p] = "write"
           \/ pc[p] = "waitsleep" /\ pc'[p] = "wait"
    BY <1>2, <1>3 DEF TypeInv, Blocked
  <1> QED BY <1>1, <1>4, <1>5

LEMMA TypeKillOne == ASSUME TypeInv, NEW p \in Procs, KillOne(p) PROVE TypeInv'
  <1>1. ProgsOK'
    BY Rouses DEF ProgsOK, TypeInv
  <1>2. IoOK'
    BY Rouses DEF IoOK, TypeInv
  <1> QED BY <1>1, <1>2, Rouses DEF TypeInv, FilesOK

\* The bytes a pipe holds and its room.
LEMMA BytesIn ==
  ASSUME TypeInv, NEW q \in Pipes
  PROVE  /\ Bytes(q) \in Count /\ Bytes(q) \in Nat
         /\ pipe[q] \in PipeRec /\ pipe[q].nread \in Count /\ pipe[q].nwrite \in Count
  <1>1. pipe[q] \in PipeRec /\ pipe[q].nread \in Count /\ pipe[q].nwrite \in Count
    BY DEF TypeInv, PipeRec
  <1>2. pipe[q].nwrite - pipe[q].nread \in Int
    BY <1>1 DEF Count
  <1>3. Bytes(q) \in Count
    BY <1>2, InCount DEF Bytes
  <1> QED BY <1>1, <1>3 DEF Count

LEMMA OldestBytes ==
  ASSUME TypeInv, NEW q \in Pipes, NEW k \in Nat
  PROVE  Oldest(q, k) \in Seq(Byte) /\ Len(Oldest(q, k)) = k
  <1>1. pipe[q].data \in [0 .. PIPESIZE - 1 -> Byte] /\ pipe[q].nread \in Int
    BY BytesIn DEF PipeRec, Count
  <1>2. \A i \in 1 .. k : (pipe[q].nread + i - 1) % PIPESIZE \in 0 .. PIPESIZE - 1
    BY <1>1, Constants
  <1>3. \A i \in 1 .. k : pipe[q].data[(pipe[q].nread + i - 1) % PIPESIZE] \in Byte
    BY <1>1, <1>2
  <1> QED BY <1>3 DEF Oldest

\* Nothing of the programs changes in a transfer, and p does not wait.
LEMMA TransferTypes ==
  ASSUME TypeInv, NEW p \in Procs, UNCHANGED <<progs, keys, ofile, file>>,
         pc' \in [Procs -> Places], pc'[p] \notin {"wait", "waitsleep", "pipeclose"},
         \A r \in Procs : r # p /\ pc'[r] \in {"wait", "waitsleep", "pipeclose"} => pc'[r] = pc[r]
  PROVE  FilesOK' /\ ProgsOK' /\ keys' \in Seq(Chars)
  <1>1. todo' = todo /\ env' = env /\ parent' = parent /\ keys' = keys
    BY DEF progs
  <1>2. ProgsOK'
    BY <1>1, WaitersKeep DEF ProgsOK, TypeInv
  <1> QED BY <1>1, <1>2 DEF TypeInv, FilesOK

LEMMA TypePipeReadSleep ==
  ASSUME TypeInv, NEW p \in Procs, PipeReadSleep(p), UNCHANGED <<progs, keys>>
  PROVE  TypeInv'
  <1>1. PICK w \in {"failed", "readsleep"} : Goto(p, w)
    BY DEF PipeReadSleep
  <1>2. w \in Places
    BY DEF Places, Blocked
  <1>3. /\ pc' \in [Procs -> Places] /\ pc'[p] = w
        /\ \A r \in Procs : r # p => pc'[r] = pc[r]
    BY <1>1, <1>2, GotoPlaces
  <1>4. UNCHANGED <<ofile, file, pipe, input, io>>
    BY DEF PipeReadSleep
  <1>5. IoOK'
    BY <1>3, <1>4 DEF IoOK, TypeInv
  <1> QED BY <1>3, <1>4, <1>5, TransferTypes DEF TypeInv

\* What PipeReadSome does to the bytes, the counts and the processes.
LEMMA PipeReadParts ==
  ASSUME TypeInv, NEW p \in Procs, NEW n \in Nat, PipeReadSome(p, n)
  PROVE  LET q == io[p].pipe
             k == Takes(q, n)
         IN /\ q \in Pipes /\ k \in Nat /\ k <= Bytes(q) /\ k <= n /\ k \in 0 .. Width
            /\ io' \in [Procs -> IoRec] /\ io'[p].kind = "pipe" /\ io'[p].pipe = q
            /\ io'[p].bytes = Oldest(q, k)
            /\ \A r \in Procs : r # p => io'[r] = io[r]
            /\ pc' \in [Procs -> Places] /\ pc'[p] = "got"
            /\ \A r \in Procs : r # p =>
                 pc'[r] = IF pc[r] = "writesleep" /\ io[r].kind = "pipe" /\ io[r].pipe = q
                          THEN "write" ELSE pc[r]
            /\ pipe' \in [Pipes -> PipeRec]
            /\ pipe'[q].nread = (pipe[q].nread + k) % Width
            /\ pipe'[q].nwrite = pipe[q].nwrite /\ pipe'[q].data = pipe[q].data
            /\ pipe'[q].used = pipe[q].used
            /\ pipe'[q].readopen = pipe[q].readopen /\ pipe'[q].writeopen = pipe[q].writeopen
            /\ \A r \in Pipes : r # q => pipe'[r] = pipe[r]
            /\ UNCHANGED <<ofile, file, input>>
  <1> DEFINE q == io[p].pipe
             k == Takes(q, n)
  <1>1. /\ pc[p] = "read" /\ io[p].kind = "pipe"
        /\ pipe' = [pipe EXCEPT ![q].nread = (@ + k) % Width]
        /\ io' = [io EXCEPT ![p].bytes = Oldest(q, k)]
        /\ pc' = WakePipe("write", q, [pc EXCEPT ![p] = "got"])
        /\ UNCHANGED <<ofile, file, input>>
    BY DEF PipeReadSome
  <1>2. q \in Pipes
    BY <1>1 DEF TypeInv, IoOK
  <1>3. k \in Nat /\ k <= Bytes(q) /\ k <= n /\ k \in 0 .. Width
    BY <1>2, BytesIn, SmallerIs, Constants DEF Takes, Count
  <1> HIDE DEF k, q
  <1>4. /\ io' \in [Procs -> IoRec] /\ io'[p].kind = "pipe" /\ io'[p].pipe = io[p].pipe
        /\ io'[p].bytes = Oldest(q, k)
        /\ \A r \in Procs : r # p => io'[r] = io[r]
    <2>1. io \in [Procs -> IoRec]
      BY DEF TypeInv, IoOK
    <2>2. PICK s \in Seq(Byte) : s = Oldest(q, k)
      BY <1>2, <1>3, OldestBytes
    <2>3. io' = [io EXCEPT ![p].bytes = s]
      BY <1>1, <2>2
    <2> QED BY <1>1, <2>1, <2>2, <2>3 DEF IoRec
  <1>5. /\ pc' \in [Procs -> Places] /\ pc'[p] = "got"
        /\ \A r \in Procs : r # p =>
             pc'[r] = IF pc[r] = "writesleep" /\ io[r].kind = "pipe" /\ io[r].pipe = q
                      THEN "write" ELSE pc[r]
    <2>1. "got" \in Places
      BY DEF Places
    <2>2. PICK f \in [Procs -> Places] : f = [pc EXCEPT ![p] = "got"] /\ f[p] = "got" /\ Moved(p, f)
      BY <2>1, MovedTo
    <2>3. pc' = WakePipe("write", q, f)
      BY <1>1, <2>2
    <2>4. Moved(p, f) /\ f[p] = "got"
      BY <2>2
    <2>5. Asleep["write"] = "writesleep"
      BY DEF Asleep
    <2> QED BY <2>3, <2>4, <2>5, TypeWakes
  <1>6. /\ pipe' \in [Pipes -> PipeRec]
        /\ pipe'[q].nread = (pipe[q].nread + k) % Width
        /\ pipe'[q].nwrite = pipe[q].nwrite /\ pipe'[q].data = pipe[q].data
        /\ pipe'[q].used = pipe[q].used
        /\ pipe'[q].readopen = pipe[q].readopen /\ pipe'[q].writeopen = pipe[q].writeopen
        /\ \A r \in Pipes : r # q => pipe'[r] = pipe[r]
    <2>1. pipe \in [Pipes -> PipeRec] /\ pipe[q].nread + k \in Int
      BY <1>2, <1>3, BytesIn DEF TypeInv, Count
    <2>2. PICK m \in Count : m = (pipe[q].nread + k) % Width
      <3>1. (pipe[q].nread + k) % Width \in Count
        BY <2>1, InCount
      <3> QED BY <3>1
    <2>3. pipe' = [pipe EXCEPT ![q].nread = m]
      BY <1>1, <2>2
    <2> QED BY <1>2, <2>1, <2>2, <2>3 DEF PipeRec
  <1>7. /\ q \in Pipes /\ k \in Nat /\ k <= Bytes(q) /\ k <= n /\ k \in 0 .. Width
        /\ io' \in [Procs -> IoRec] /\ io'[p].kind = "pipe" /\ io'[p].pipe = q
        /\ io'[p].bytes = Oldest(q, k)
        /\ \A r \in Procs : r # p => io'[r] = io[r]
        /\ pc' \in [Procs -> Places] /\ pc'[p] = "got"
        /\ \A r \in Procs : r # p =>
             pc'[r] = IF pc[r] = "writesleep" /\ io[r].kind = "pipe" /\ io[r].pipe = q
                      THEN "write" ELSE pc[r]
        /\ pipe' \in [Pipes -> PipeRec]
        /\ pipe'[q].nread = (pipe[q].nread + k) % Width
        /\ pipe'[q].nwrite = pipe[q].nwrite /\ pipe'[q].data = pipe[q].data
        /\ pipe'[q].used = pipe[q].used
        /\ pipe'[q].readopen = pipe[q].readopen /\ pipe'[q].writeopen = pipe[q].writeopen
        /\ \A r \in Pipes : r # q => pipe'[r] = pipe[r]
        /\ UNCHANGED <<ofile, file, input>>
    <2>1. q = io[p].pipe
      BY DEF q
    <2> QED BY <1>1, <1>2, <1>3, <1>4, <1>5, <1>6, <2>1
  <1> QED BY <1>7 DEF q, k

LEMMA TypePipeReadSome ==
  ASSUME TypeInv, NEW p \in Procs, PipeReadSome(p, CatBuf), UNCHANGED <<progs, keys>>
  PROVE  TypeInv'
  <1>1. PICK q : q = io[p].pipe
    OBVIOUS
  <1>2. CatBuf \in Nat
    BY Constants
  <1>3. /\ q \in Pipes /\ io' \in [Procs -> IoRec] /\ io'[p].pipe = q
        /\ \A r \in Procs : r # p => io'[r] = io[r]
        /\ pc' \in [Procs -> Places] /\ pc'[p] = "got"
        /\ \A r \in Procs : r # p => pc'[r] = pc[r] \/ pc'[r] = "write"
        /\ pipe' \in [Pipes -> PipeRec]
        /\ UNCHANGED <<ofile, file, input>>
    BY <1>1, <1>2, PipeReadParts
  <1>4. IoOK'
    BY <1>3 DEF IoOK, TypeInv
  <1> QED BY <1>3, <1>4, TransferTypes DEF TypeInv

\* What PipeWriteSome does.
LEMMA RoomIn ==
  ASSUME TypeInv, Bounds, NEW q \in Pipes
  PROVE  Room(q) \in Nat /\ Room(q) <= PIPESIZE /\ Room(q) + Bytes(q) = PIPESIZE
  BY BytesIn, Constants DEF Bounds, PipeBounds, Room

LEMMA PutPipe ==
  ASSUME TypeInv, NEW q \in Pipes, NEW s \in Seq(Byte), Put(q, s)
  PROVE  /\ pipe' \in [Pipes -> PipeRec]
         /\ pipe'[q].nwrite = (pipe[q].nwrite + Len(s)) % Width
         /\ pipe'[q].data = [i \in 0 .. PIPESIZE - 1 |->
                               LET at == ((i - pipe[q].nwrite) % PIPESIZE) + 1
                               IN IF at <= Len(s) THEN s[at] ELSE pipe[q].data[i]]
         /\ pipe'[q].nread = pipe[q].nread /\ pipe'[q].used = pipe[q].used
         /\ pipe'[q].readopen = pipe[q].readopen /\ pipe'[q].writeopen = pipe[q].writeopen
         /\ \A r \in Pipes : r # q => pipe'[r] = pipe[r]
  <1> DEFINE d == [i \in 0 .. PIPESIZE - 1 |->
                     LET at == ((i - pipe[q].nwrite) % PIPESIZE) + 1
                     IN IF at <= Len(s) THEN s[at] ELSE pipe[q].data[i]]
  <1>1. pipe[q].data \in [0 .. PIPESIZE - 1 -> Byte] /\ pipe[q].nwrite \in Int
    BY BytesIn DEF PipeRec, Count
  <1>2. \A i \in 0 .. PIPESIZE - 1 : ((i - pipe[q].nwrite) % PIPESIZE) + 1 \in Nat \ {0}
    BY <1>1, Constants
  <1>3. d \in [0 .. PIPESIZE - 1 -> Byte]
    <2> SUFFICES ASSUME NEW i \in 0 .. PIPESIZE - 1 PROVE d[i] \in Byte
        OBVIOUS
    <2>1. PICK at \in Nat \ {0} : at = ((i - pipe[q].nwrite) % PIPESIZE) + 1
      BY <1>2
    <2>2. d[i] = IF at <= Len(s) THEN s[at] ELSE pipe[q].data[i]
      BY <2>1
    <2>3. at <= Len(s) => s[at] \in Byte
      OBVIOUS
    <2> QED BY <1>1, <2>2, <2>3
  <1>4. pipe \in [Pipes -> PipeRec] /\ pipe[q].nwrite + Len(s) \in Int
    BY <1>1 DEF TypeInv
  <1>5. PICK m \in Count : m = (pipe[q].nwrite + Len(s)) % Width
    <2>1. (pipe[q].nwrite + Len(s)) % Width \in Count
      BY <1>4, InCount
    <2> QED BY <2>1
  <1>6. pipe' = [pipe EXCEPT ![q].nwrite = m, ![q].data = d]
    BY <1>5 DEF Put
  <1> HIDE DEF d
  <1>7. /\ pipe' \in [Pipes -> PipeRec]
        /\ pipe'[q].nwrite = m /\ pipe'[q].data = d
        /\ pipe'[q].nread = pipe[q].nread /\ pipe'[q].used = pipe[q].used
        /\ pipe'[q].readopen = pipe[q].readopen /\ pipe'[q].writeopen = pipe[q].writeopen
        /\ \A r \in Pipes : r # q => pipe'[r] = pipe[r]
    BY <1>3, <1>4, <1>6 DEF PipeRec
  <1> QED BY <1>5, <1>7 DEF d

LEMMA Halves ==
  ASSUME NEW s \in Seq(Byte), NEW k \in Nat, k <= Len(s)
  PROVE  /\ SubSeq(s, 1, k) \in Seq(Byte) /\ Len(SubSeq(s, 1, k)) = k
         /\ SubSeq(s, k + 1, Len(s)) \in Seq(Byte)
         /\ Len(SubSeq(s, k + 1, Len(s))) = Len(s) - k
         /\ SubSeq(s, k + 1, Len(s)) = <<>> <=> k = Len(s)
  <1>1. SubSeq(s, 1, k) \in Seq(Byte) /\ Len(SubSeq(s, 1, k)) = k
    OBVIOUS
  <1>2. SubSeq(s, k + 1, Len(s)) \in Seq(Byte) /\ Len(SubSeq(s, k + 1, Len(s))) = Len(s) - k
    OBVIOUS
  <1>3. \A t \in Seq(Byte) : t = <<>> <=> Len(t) = 0
    OBVIOUS
  <1>4. SubSeq(s, k + 1, Len(s)) = <<>> <=> Len(s) - k = 0
    BY <1>2, <1>3
  <1> QED BY <1>1, <1>2, <1>4

LEMMA PipeWriteParts ==
  ASSUME TypeInv, Bounds, NEW p \in Procs, PipeWriteSome(p)
  PROVE  LET q == io[p].pipe
             k == Smaller(Room(q), Len(io[p].bytes))
             rest == SubSeq(io[p].bytes, k + 1, Len(io[p].bytes))
             stop == rest # <<>> /\ (~pipe[q].readopen \/ killed[p])
         IN /\ q \in Pipes /\ k \in 0 .. Width /\ k <= Room(q) /\ k <= Len(io[p].bytes)
            /\ rest # <<>> => k = Room(q)
            /\ SubSeq(io[p].bytes, 1, k) \in Seq(Byte) /\ Len(SubSeq(io[p].bytes, 1, k)) = k
            /\ Put(q, SubSeq(io[p].bytes, 1, k))
            /\ io' \in [Procs -> IoRec] /\ io'[p].kind = "pipe" /\ io'[p].pipe = q
            /\ io'[p].bytes = rest
            /\ \A r \in Procs : r # p => io'[r] = io[r]
            /\ pc' \in [Procs -> Places]
            /\ IF stop
               THEN /\ pc'[p] = "failed" /\ \A r \in Procs : r # p => pc'[r] = pc[r]
                    /\ unwoken' = IF k = 0 THEN unwoken ELSE unwoken \cup {q}
               ELSE /\ pc'[p] = IF rest = <<>> THEN "user" ELSE "writesleep"
                    /\ \A r \in Procs : r # p =>
                         pc'[r] = IF pc[r] = "readsleep" /\ io[r].kind = "pipe" /\ io[r].pipe = q
                                  THEN "read" ELSE pc[r]
                    /\ unwoken' = unwoken \ {q}
            /\ UNCHANGED <<ofile, file, input>>
  <1> DEFINE q == io[p].pipe
             b == io[p].bytes
             k == Smaller(Room(q), Len(b))
             rest == SubSeq(b, k + 1, Len(b))
             stop == rest # <<>> /\ (~pipe[q].readopen \/ killed[p])
  <1>1. /\ pc[p] = "write" /\ io[p].kind = "pipe"
        /\ Put(q, SubSeq(b, 1, k))
        /\ io' = [io EXCEPT ![p].bytes = rest]
        /\ stop => Goto(p, "failed") /\ unwoken' = IF k = 0 THEN unwoken ELSE unwoken \cup {q}
        /\ ~stop => /\ pc' = WakePipe("read", q, [pc EXCEPT ![p] =
                                 IF rest = <<>> THEN "user" ELSE "writesleep"])
                    /\ unwoken' = unwoken \ {q}
        /\ UNCHANGED <<ofile, file, input>>
    BY DEF PipeWriteSome
  <1>2. q \in Pipes
    BY <1>1 DEF TypeInv, IoOK
  <1>3. b \in Seq(Byte) /\ Len(b) \in Nat
    BY DEF TypeInv, IoOK, IoRec
  <1>4. Room(q) \in Nat /\ Room(q) <= PIPESIZE
    BY <1>2, RoomIn
  <1>5. k \in Nat /\ k <= Room(q) /\ k <= Len(b) /\ (k = Room(q) \/ k = Len(b))
    BY <1>3, <1>4, SmallerIs
  <1>6. k \in 0 .. Width
    BY <1>4, <1>5, Constants
  <1> HIDE DEF k
  <1>7. /\ SubSeq(b, 1, k) \in Seq(Byte) /\ Len(SubSeq(b, 1, k)) = k
        /\ rest \in Seq(Byte) /\ (rest = <<>> <=> k = Len(b))
    BY <1>3, <1>5, Halves
  <1>8. rest # <<>> => k = Room(q)
    BY <1>5, <1>7
  <1> HIDE DEF rest, b
  <1>9. /\ io' \in [Procs -> IoRec] /\ io'[p].kind = "pipe" /\ io'[p].pipe = io[p].pipe
        /\ io'[p].bytes = rest
        /\ \A r \in Procs : r # p => io'[r] = io[r]
    <2>1. io \in [Procs -> IoRec]
      BY DEF TypeInv, IoOK
    <2> QED BY <1>1, <1>7, <2>1 DEF IoRec
  <1> HIDE DEF q, stop
  <1>10. CASE stop
    <2>1. "failed" \in Places
      BY DEF Places
    <2>2. /\ pc' \in [Procs -> Places] /\ pc'[p] = "failed"
          /\ \A r \in Procs : r # p => pc'[r] = pc[r]
      BY <1>1, <1>10, <2>1, GotoPlaces
    <2>3. unwoken' = IF k = 0 THEN unwoken ELSE unwoken \cup {q}
      BY <1>1, <1>10
    <2> QED BY <1>1, <1>2, <1>5, <1>6, <1>7, <1>8, <1>9, <1>10, <2>2, <2>3 DEF q, b, k, rest, stop
  <1>11. CASE ~stop
    <2>1. PICK w \in {"user", "writesleep"} : w = IF rest = <<>> THEN "user" ELSE "writesleep"
      OBVIOUS
    <2>2. w \in Places /\ w # "readsleep"
      BY DEF Places, Blocked
    <2>3. PICK f \in [Procs -> Places] : f = [pc EXCEPT ![p] = w] /\ f[p] = w /\ Moved(p, f)
      BY <2>2, MovedTo
    <2>4. pc' = WakePipe("read", q, f)
      BY <1>1, <1>11, <2>1, <2>3
    <2>5. Moved(p, f) /\ f[p] = w
      BY <2>3
    <2>6. Asleep["read"] = "readsleep"
      BY DEF Asleep
    <2>7. /\ pc' \in [Procs -> Places] /\ pc'[p] = w
          /\ \A r \in Procs : r # p =>
               pc'[r] = IF pc[r] = "readsleep" /\ io[r].kind = "pipe" /\ io[r].pipe = q
                        THEN "read" ELSE pc[r]
      BY <2>2, <2>4, <2>5, <2>6, TypeWakes
    <2>8. unwoken' = unwoken \ {q}
      BY <1>1, <1>11
    <2> QED BY <1>1, <1>2, <1>5, <1>6, <1>7, <1>8, <1>9, <1>11, <2>1, <2>7, <2>8 DEF q, b, k, rest, stop
  <1> QED BY <1>10, <1>11

LEMMA TypePipeWriteSome ==
  ASSUME TypeInv, Bounds, NEW p \in Procs, PipeWriteSome(p), UNCHANGED <<progs, keys>>
  PROVE  TypeInv'
  <1>1. PICK q : q = io[p].pipe
    OBVIOUS
  <1>2. PICK s : s = SubSeq(io[p].bytes, 1, Smaller(Room(q), Len(io[p].bytes)))
    OBVIOUS
  <1>3. /\ q \in Pipes /\ io' \in [Procs -> IoRec] /\ io'[p].pipe = q
        /\ s \in Seq(Byte) /\ Put(q, s)
        /\ \A r \in Procs : r # p => io'[r] = io[r]
        /\ pc' \in [Procs -> Places] /\ pc'[p] \in {"failed", "user", "writesleep"}
        /\ \A r \in Procs : r # p => pc'[r] = pc[r] \/ pc'[r] = "read"
        /\ UNCHANGED <<ofile, file, input>>
    BY <1>1, <1>2, PipeWriteParts
  <1>4. IoOK'
    BY <1>3 DEF IoOK, TypeInv
  <1>5. pipe' \in [Pipes -> PipeRec]
    BY <1>3, PutPipe
  <1> QED BY <1>3, <1>4, <1>5, TransferTypes DEF TypeInv

\* The console.
LEMMA InputIn ==
  ASSUME TypeInv
  PROVE  /\ input.r \in Count /\ input.w \in Count /\ input.e \in Count
         /\ input.buf \in [0 .. INPUT_BUF - 1 -> Byte]
  BY DEF TypeInv, InputRec

LEMMA DistanceIn ==
  ASSUME NEW a \in Count, NEW b \in Count
  PROVE  (a - b) % Width \in Count /\ (a - b) % Width \in Nat /\ (a - b) % Width < Width
  <1>1. a - b \in Int
    BY DEF Count
  <1>2. (a - b) % Width \in Count
    BY <1>1, InCount
  <1> QED BY <1>2, Constants DEF Count

LEMMA TypedBytes ==
  ASSUME TypeInv, NEW from \in Count, NEW to \in Count
  PROVE  Typed(from, to) \in Seq(Byte) /\ Len(Typed(from, to)) = (to - from) % Width
  <1>1. (to - from) % Width \in Nat
    BY DistanceIn
  <1>2. \A j \in 1 .. (to - from) % Width : At(from + j - 1) \in 0 .. INPUT_BUF - 1
    BY <1>1, Constants DEF At, Count
  <1>3. \A j \in 1 .. (to - from) % Width : input.buf[At(from + j - 1)] \in Byte
    BY <1>2, InputIn
  <1> QED BY <1>1, <1>3 DEF Typed

\* The three indices are in order.
LEMMA Between ==
  ASSUME NEW r \in Count, NEW w \in Count, NEW e \in Count,
         (w - r) % Width <= (e - r) % Width
  PROVE  (e - w) % Width = ((e - r) % Width) - ((w - r) % Width)
  <1>1. r \in Int /\ w \in Int /\ e \in Int /\ Width \in Int
        /\ 0 <= r /\ r < Width /\ 0 <= w /\ w < Width /\ 0 <= e /\ e < Width
    BY Constants DEF Count
  <1>2. (e - w) % Width = IF w <= e THEN e - w ELSE e - w + Width
    BY Distance
  <1>3. (e - r) % Width = IF r <= e THEN e - r ELSE e - r + Width
    BY Distance
  <1>4. (w - r) % Width = IF r <= w THEN w - r ELSE w - r + Width
    BY Distance
  <1> QED BY <1>1, <1>2, <1>3, <1>4

LEMMA LineStart ==
  ASSUME NEW line \in Seq(Byte)
  PROVE  \E k \in 0 .. Len(line) :
           /\ "nl" \notin ToSet(SubSeq(line, Len(line) - k + 1, Len(line)))
           /\ k < Len(line) => line[Len(line) - k] = "nl"
  <1> DEFINE n == Len(line)
             S == {k \in 0 .. n : k = n \/ line[n - k] = "nl"}
  <1>1. n \in Nat
    OBVIOUS
  <1>2. S \in SUBSET Nat /\ n \in S
    BY <1>1
  <1>3. PICK m \in S : \A y \in S : m <= y
    BY <1>2, LeastIn
  <1>4. m \in 0 .. n /\ (m < n => line[n - m] = "nl")
    BY <1>1, <1>3
  <1>5. \A j \in 0 .. m - 1 : line[n - j] # "nl"
    <2> SUFFICES ASSUME NEW j \in 0 .. m - 1, line[n - j] = "nl" PROVE FALSE
        OBVIOUS
    <2>1. j \in S /\ j < m
      BY <1>1, <1>4
    <2> QED BY <1>3, <2>1, <1>4
  <1> HIDE DEF S, n
  <1>6. PICK t : t = SubSeq(line, n - m + 1, n)
    OBVIOUS
  <1>7. /\ t \in Seq(Byte) /\ Len(t) = m
        /\ \A i \in 1 .. m : t[i] = line[n - m + i]
    BY <1>1, <1>4, <1>6 DEF n
  <1>8. \A i \in DOMAIN t : t[i] # "nl"
    <2> SUFFICES ASSUME NEW i \in DOMAIN t PROVE t[i] # "nl"
        OBVIOUS
    <2>1. i \in 1 .. m
      BY <1>7
    <2>2. m - i \in 0 .. m - 1 /\ n - (m - i) = n - m + i
      BY <1>1, <1>4, <2>1
    <2>3. line[n - (m - i)] # "nl"
      BY <1>5, <2>2
    <2> QED BY <1>7, <2>1, <2>2, <2>3
  <1>9. "nl" \notin ToSet(t)
    BY <1>8 DEF ToSet
  <1> QED BY <1>4, <1>6, <1>9 DEF n

\* What a key does: it erases, it is lost, or it is stored.
Erases(k) == input' = [input EXCEPT !.e = (@ - k) % Width] /\ pc' = pc
Stored ==
  /\ (input.e - input.r) % Width < INPUT_BUF
  /\ input' \in InputRec /\ input'.r = input.r /\ input'.e = (input.e + 1) % Width
  /\ \/ input'.w = input.w /\ pc' = pc
     \/ input'.w = input'.e /\ pc' = WakeReaders(pc)

LEMMA KeyDoes ==
  ASSUME TypeInv, Bounds, NEW c \in Byte, ConsoleIntr(c)
  PROVE  /\ \/ \E k \in 0 .. (input.e - input.w) % Width : Erases(k)
            \/ UNCHANGED <<input, pc>>
            \/ Stored
         /\ UNCHANGED <<ofile, file, pipe, out, io, killed, unwoken>>
  <1>1. UNCHANGED <<ofile, file, pipe, out, io, killed, unwoken>>
    BY DEF ConsoleIntr
  <1>2. input.e \in Count /\ input.w \in Count /\ input.r \in Count
    BY InputIn
  <1>3. (input.e - input.w) % Width \in Nat
    BY <1>2, DistanceIn
  <1>4. CASE c = "kill"
    <2> DEFINE line == Typed(input.w, input.e)
               n == Len(line)
               k == CHOOSE k \in 0 .. n : /\ "nl" \notin ToSet(SubSeq(line, n - k + 1, n))
                                          /\ k < n => line[n - k] = "nl"
    <2>1. line \in Seq(Byte) /\ n = (input.e - input.w) % Width
      BY <1>2, TypedBytes
    <2>2. k \in 0 .. n
      BY <2>1, LineStart
    <2>3. KillLine /\ pc' = pc
      BY <1>4 DEF ConsoleIntr
    <2>4. Erase(k)
      BY <2>3 DEF KillLine
    <2> HIDE DEF k, n, line
    <2>5. Erases(k) /\ k \in 0 .. (input.e - input.w) % Width
      BY <2>1, <2>2, <2>3, <2>4 DEF Erases, Erase
    <2> QED BY <1>1, <2>5
  <1>5. CASE c = "bs"
    <2>1. BackSpace /\ pc' = pc
      BY <1>5 DEF ConsoleIntr
    <2>2. CASE input.e = input.w
      <3>1. Erases(0) /\ 0 \in 0 .. (input.e - input.w) % Width
        BY <1>3, <2>1, <2>2 DEF BackSpace, Erase, Erases
      <3> QED BY <1>1, <3>1
    <2>3. CASE input.e # input.w
      <3>1. (input.e - input.w) % Width # 0
        BY <1>2, <2>3, Distance, Constants DEF Count
      <3>2. Erases(1) /\ 1 \in 0 .. (input.e - input.w) % Width
        BY <1>3, <2>1, <2>3, <3>1 DEF BackSpace, Erase, Erases
      <3> QED BY <1>1, <3>2
    <2> QED BY <2>2, <2>3
  <1>6. CASE c \notin {"kill", "bs"}
    <2>1. Store(c)
      BY <1>6 DEF ConsoleIntr
    <2>2. CASE ~((input.e - input.r) % Width < INPUT_BUF)
      <3>1. UNCHANGED <<input, pc>>
        BY <2>1, <2>2 DEF Store
      <3> QED BY <1>1, <3>1
    <2>3. CASE (input.e - input.r) % Width < INPUT_BUF
      <3>1. (input.e + 1) % Width \in Count
        <4>1. input.e + 1 \in Int
          BY <1>2 DEF Count
        <4> QED BY <4>1, InCount
      <3>2. PICK e \in Count : e = (input.e + 1) % Width
        BY <3>1
      <3> DEFINE eol == c \in {"nl", "eof"} \/ e = (input.r + INPUT_BUF) % Width
      <3>3. /\ input' = [input EXCEPT !.buf[At(input.e)] = c, !.e = e,
                                      !.w = IF eol THEN e ELSE @]
            /\ pc' = IF eol THEN WakeReaders(pc) ELSE pc
        BY <2>1, <2>3, <3>2 DEF Store
      <3> HIDE DEF eol
      <3>4. PICK w \in {e, input.w} : w = IF eol THEN e ELSE input.w
        OBVIOUS
      <3>5. input' = [input EXCEPT !.buf[At(input.e)] = c, !.e = e, !.w = w]
        BY <3>3, <3>4
      <3>6. input \in InputRec
        BY DEF TypeInv
      <3>7. input' \in InputRec /\ input'.r = input.r /\ input'.e = e /\ input'.w = w
        BY <1>2, <3>2, <3>4, <3>5, <3>6 DEF InputRec
      <3>8. Stored
        BY <2>3, <3>2, <3>3, <3>4, <3>7 DEF Stored
      <3> QED BY <1>1, <3>8
    <2> QED BY <2>2, <2>3
  <1> QED BY <1>4, <1>5, <1>6

LEMMA TypeKeys ==
  ASSUME TypeInv, Bounds, Type
  PROVE  /\ \E c \in Byte : ConsoleIntr(c)
         /\ keys' \in Seq(Chars) /\ UNCHANGED progs
  <1>1. keys \in Seq(Chars)
    BY DEF TypeInv
  <1>2. UNCHANGED progs
    BY DEF Type
  <1>3. CASE keys = <<>>
    <2>1. ConsoleIntr("eof") /\ keys' = keys
      BY <1>3 DEF Type
    <2>2. "eof" \in Byte
      BY DEF Byte
    <2> QED BY <1>1, <1>2, <2>1, <2>2
  <1>4. CASE keys # <<>>
    <2>1. ConsoleIntr(Head(keys)) /\ keys' = Tail(keys)
      BY <1>4 DEF Type
    <2>2. Head(keys) \in Byte /\ Tail(keys) \in Seq(Chars)
      BY <1>1, <1>4 DEF Byte
    <2> QED BY <1>2, <2>1, <2>2
  <1> QED BY <1>3, <1>4

LEMMA ErasesInput ==
  ASSUME TypeInv, NEW k \in Nat, Erases(k)
  PROVE  /\ input' \in InputRec /\ input'.r = input.r /\ input'.w = input.w
         /\ input'.e = (input.e - k) % Width
  <1>1. input.e - k \in Int
    BY InputIn DEF Count
  <1>2. (input.e - k) % Width \in Count
    BY <1>1, InCount
  <1>3. PICK e \in Count : e = (input.e - k) % Width
    BY <1>2
  <1>4. input' = [input EXCEPT !.e = e]
    BY <1>3 DEF Erases
  <1> QED BY <1>3, <1>4 DEF TypeInv, InputRec

LEMMA WakeReadersIs ==
  ASSUME TypeInv, pc' = WakeReaders(pc)
  PROVE  /\ pc' \in [Procs -> Places]
         /\ \A r \in Procs : pc'[r] = IF pc[r] = "readsleep" /\ io[r].kind = "console"
                                      THEN "read" ELSE pc[r]
  <1>1. "read" \in Places
    BY DEF Places
  <1> QED BY <1>1 DEF TypeInv, WakeReaders

LEMMA TypeType == ASSUME TypeInv, Bounds, Type PROVE TypeInv'
  <1>1. PICK c \in Byte : ConsoleIntr(c)
    BY TypeKeys
  <1>2. /\ UNCHANGED <<ofile, file, pipe, io>>
        /\ keys' \in Seq(Chars) /\ UNCHANGED <<todo, env, parent>>
    BY <1>1, KeyDoes, TypeKeys DEF progs
  <1>3. (input.e - input.w) % Width \in Nat
    BY InputIn, DistanceIn
  <1>4. input' \in InputRec /\ pc' \in [Procs -> Places]
        /\ \A r \in Procs : pc'[r] = pc[r] \/ pc'[r] = "read"
    <2>1. CASE \E k \in 0 .. (input.e - input.w) % Width : Erases(k)
      <3>1. PICK k \in Nat : Erases(k)
        BY <1>3, <2>1
      <3> QED BY <3>1, ErasesInput DEF Erases, TypeInv
    <2>2. CASE UNCHANGED <<input, pc>>
      BY <2>2 DEF TypeInv
    <2>3. CASE Stored
      BY <2>3, WakeReadersIs DEF Stored, TypeInv
    <2> QED BY <1>1, <2>1, <2>2, <2>3, KeyDoes
  <1>5. IoOK' /\ ProgsOK'
    BY <1>2, <1>4 DEF IoOK, ProgsOK, TypeInv
  <1> QED BY <1>2, <1>4, <1>5 DEF TypeInv, FilesOK

\* What ConsoleRead does.
LEMMA ConsoleReadParts ==
  ASSUME TypeInv, Bounds, NEW p \in Procs, NEW n \in Nat, ConsoleRead(p, n),
         Len(io[p].bytes) < n
  PROVE  \E used \in 0 .. (input.w - input.r) % Width :
           /\ input' \in InputRec /\ input'.r = (input.r + used) % Width
           /\ input'.w = input.w /\ input'.e = input.e
           /\ io' \in [Procs -> IoRec] /\ io'[p].kind = "console" /\ io'[p].pipe = io[p].pipe
           /\ \A x \in Procs : x # p => io'[x] = io[x]
           /\ pc' \in [Procs -> Places] /\ pc'[p] \in {"got", "failed", "readsleep"}
           /\ \A x \in Procs : x # p => pc'[x] = pc[x]
           /\ pc'[p] = "readsleep" => /\ used = (input.w - input.r) % Width
                                      /\ Len(io'[p].bytes) < n
           /\ UNCHANGED <<ofile, file, pipe>>
  <1> DEFINE avail == Typed(input.r, input.w)
             b == io[p].bytes
             most == Smaller(n - Len(b), Len(avail))
             ends == {i \in 1 .. most : avail[i] \in {"nl", "eof"}}
             eof == ends # {} /\ avail[Least(ends)] = "eof"
             k == IF ends = {} THEN most
                  ELSE IF eof THEN Least(ends) - 1 ELSE Least(ends)
             got == b \o SubSeq(avail, 1, k)
             used == IF eof /\ got = <<>> THEN k + 1 ELSE k
             full == Len(got) = n \/ ends # {}
  <1>1. /\ pc[p] = "read" /\ io[p].kind = "console"
        /\ input' = [input EXCEPT !.r = (@ + used) % Width]
        /\ io' = [io EXCEPT ![p].bytes = got]
        /\ Goto(p, IF full THEN "got" ELSE IF killed[p] THEN "failed" ELSE "readsleep")
        /\ UNCHANGED <<ofile, file, pipe>>
    BY DEF ConsoleRead
  <1>2. b \in Seq(Byte) /\ Len(b) \in Nat /\ n - Len(b) \in Nat
    <2>1. b \in Seq(Byte)
      BY DEF TypeInv, IoOK, IoRec
    <2> QED BY <2>1
  <1>3. avail \in Seq(Byte) /\ Len(avail) = (input.w - input.r) % Width /\ Len(avail) \in Nat
    BY InputIn, TypedBytes, DistanceIn
  <1> HIDE DEF avail, b
  <1>4. most \in Nat /\ most <= Len(avail) /\ (most = n - Len(b) \/ most = Len(avail))
        /\ most <= n - Len(b)
    BY <1>2, <1>3, SmallerIs
  <1> HIDE DEF most
  <1>5. ends # {} => Least(ends) \in 1 .. most
    <2>1. ends \in SUBSET Nat
      OBVIOUS
    <2>2. ends # {} => Least(ends) \in ends
      BY <2>1, LeastIn
    <2> QED BY <2>2
  <1>6. eof => ends # {}
    OBVIOUS
  <1> HIDE DEF ends, eof
  <1>7. k \in Nat /\ k <= most /\ (ends = {} => k = most) /\ (eof => k + 1 <= most)
    BY <1>4, <1>5, <1>6
  <1> HIDE DEF k
  <1>8. got \in Seq(Byte) /\ Len(got) = Len(b) + k
    <2>1. SubSeq(avail, 1, k) \in Seq(Byte) /\ Len(SubSeq(avail, 1, k)) = k
      BY <1>3, <1>4, <1>7, Halves
    <2> QED BY <1>2, <2>1
  <1> HIDE DEF got
  <1>9. used \in 0 .. (input.w - input.r) % Width /\ (ends = {} => used = most)
    BY <1>3, <1>4, <1>6, <1>7
  <1> HIDE DEF used
  <1>10. input' \in InputRec /\ input'.r = (input.r + used) % Width
         /\ input'.w = input.w /\ input'.e = input.e
    <2>1. input.r \in Count /\ input.r + used \in Int
      BY <1>3, <1>9, InputIn DEF Count
    <2>2. (input.r + used) % Width \in Count
      BY <2>1, InCount
    <2>3. PICK m \in Count : m = (input.r + used) % Width
      BY <2>2
    <2>4. input' = [input EXCEPT !.r = m]
      BY <1>1, <2>3
    <2> QED BY <2>3, <2>4 DEF TypeInv, InputRec
  <1>11. /\ io' \in [Procs -> IoRec] /\ io'[p].kind = "console" /\ io'[p].pipe = io[p].pipe
         /\ io'[p].bytes = got
         /\ \A x \in Procs : x # p => io'[x] = io[x]
    <2>1. io \in [Procs -> IoRec]
      BY DEF TypeInv, IoOK
    <2> QED BY <1>1, <1>8, <2>1 DEF IoRec
  <1>12. PICK w \in {"got", "failed", "readsleep"} :
           w = IF full THEN "got" ELSE IF killed[p] THEN "failed" ELSE "readsleep"
    OBVIOUS
  <1>13. w \in Places
    BY DEF Places, Blocked
  <1>14. /\ pc' \in [Procs -> Places] /\ pc'[p] = w
         /\ \A x \in Procs : x # p => pc'[x] = pc[x]
    BY <1>1, <1>12, <1>13, GotoPlaces
  <1>15. pc'[p] = "readsleep" => /\ used = (input.w - input.r) % Width
                                 /\ Len(io'[p].bytes) < n
    <2> SUFFICES ASSUME pc'[p] = "readsleep" PROVE used = Len(avail) /\ Len(got) < n
        BY <1>3, <1>11
    <2>1. Len(got) # n /\ ends = {}
      BY <1>12, <1>14
    <2>2. k = most /\ used = most
      BY <1>7, <1>9, <2>1
    <2> QED BY <1>2, <1>3, <1>4, <1>8, <2>1, <2>2
  <1> QED BY <1>1, <1>9, <1>10, <1>11, <1>12, <1>14, <1>15

LEMMA Reading ==
  ASSUME TypeInv, Bounds, NEW p \in Procs, ConsoleRead(p, CatBuf)
  PROVE  Len(io[p].bytes) < CatBuf /\ CatBuf \in Nat
  BY Constants DEF Bounds, Readers, Reads, ConsoleRead

LEMMA TypeConsoleRead ==
  ASSUME TypeInv, Bounds, NEW p \in Procs, ConsoleRead(p, CatBuf), UNCHANGED <<progs, keys>>
  PROVE  TypeInv'
  <1>1. /\ input' \in InputRec
        /\ io' \in [Procs -> IoRec] /\ io'[p].kind = "console" /\ io'[p].pipe = io[p].pipe
        /\ \A x \in Procs : x # p => io'[x] = io[x]
        /\ pc' \in [Procs -> Places] /\ pc'[p] \in {"got", "failed", "readsleep"}
        /\ \A x \in Procs : x # p => pc'[x] = pc[x]
        /\ UNCHANGED <<ofile, file, pipe>>
    BY Reading, ConsoleReadParts
  <1>2. IoOK'
    BY <1>1 DEF IoOK, TypeInv
  <1> QED BY <1>1, <1>2, TransferTypes DEF TypeInv

LEMMA ConsoleWriteParts ==
  ASSUME TypeInv, NEW p \in Procs, ConsoleWrite(p)
  PROVE  /\ io' \in [Procs -> IoRec] /\ io'[p].kind = "console" /\ io'[p].pipe = io[p].pipe
         /\ \A x \in Procs : x # p => io'[x] = io[x]
         /\ pc' \in [Procs -> Places] /\ pc'[p] = "user"
         /\ \A x \in Procs : x # p => pc'[x] = pc[x]
         /\ UNCHANGED <<ofile, file, pipe, input, unwoken>>
  <1>1. "user" \in Places
    BY DEF Places
  <1>2. /\ pc' \in [Procs -> Places] /\ pc'[p] = "user"
        /\ \A x \in Procs : x # p => pc'[x] = pc[x]
    BY <1>1, GotoPlaces DEF ConsoleWrite
  <1>3. io[p].kind = "console" /\ io' = [io EXCEPT ![p].bytes = <<>>]
        /\ UNCHANGED <<ofile, file, pipe, input, unwoken>>
    BY DEF ConsoleWrite
  <1>4. io \in [Procs -> IoRec]
    BY DEF TypeInv, IoOK
  <1> QED BY <1>2, <1>3, <1>4, EmptyBytes DEF IoRec

LEMMA TypeConsoleWrite ==
  ASSUME TypeInv, NEW p \in Procs, ConsoleWrite(p), UNCHANGED <<progs, keys>>
  PROVE  TypeInv'
  <1>1. IoOK'
    BY ConsoleWriteParts DEF IoOK, TypeInv
  <1> QED BY <1>1, ConsoleWriteParts, TransferTypes DEF TypeInv

LEMMA TypeTransfer == ASSUME TypeInv, Bounds, NEW p \in Procs, Transfer(p) PROVE TypeInv'
  <1>1. UNCHANGED <<progs, keys>>
    BY DEF Transfer, Still
  <1> QED BY <1>1, TypePipeReadSleep, TypePipeReadSome, TypeConsoleRead, TypePipeWriteSome,
             TypeConsoleWrite DEF Transfer

LEMMA TypeInit == Init => TypeInv
  <1> SUFFICES ASSUME Init PROVE TypeInv
      OBVIOUS
  <1>0. session.open \in Nat /\ session.open \in Int
    BY ShellAssumption DEF Init
  <1>1. FilesOK
    <2>1. ofile \in [Procs -> [Fds -> Files \cup {None}]]
      BY Constants DEF Init
    <2>2. Closed \in FileRec
      BY DEF Closed, FileRec, Kinds
    <2>3. PICK c : c = [Closed EXCEPT !.ref = session.open, !.type = "console"]
      OBVIOUS
    <2>6. c \in FileRec
      <3>1. PICK b : b = [Closed EXCEPT !.ref = session.open]
        OBVIOUS
      <3>2. b \in FileRec
        BY <1>0, <2>2, <3>1 DEF FileRec
      <3>3. c = [b EXCEPT !.type = "console"]
        BY <2>3, <3>1
      <3>4. "console" \in Kinds
        BY DEF Kinds
      <3> QED BY <3>2, <3>3, <3>4 DEF FileRec
    <2>7. Closed.type # "pipe" /\ c.type # "pipe"
      BY <2>3 DEF Closed
    <2>4. file = [f \in Files |-> IF f = 1 THEN c ELSE Closed]
      BY <2>3 DEF Init
    <2>5. file \in [Files -> FileRec] /\ \A f \in Files : file[f].type # "pipe"
      BY <2>2, <2>4, <2>6, <2>7
    <2> QED BY <2>1, <2>5 DEF FilesOK
  <1>2. pc \in [Procs -> Places] /\ \A p \in Procs : pc[p] \in {"user", "unused"}
    BY DEF Init, Places
  <1>3. IoOK
    <2>1. Idle \in IoRec /\ Idle.kind = "none"
      BY EmptyBytes DEF Idle, IoRec, Kinds
    <2>2. io = [p \in Procs |-> Idle]
      BY DEF Init
    <2> QED BY <1>2, <2>1, <2>2 DEF IoOK
  <1>4. ProgsOK
    <2>1. Std \in EnvRec
      BY Constants DEF Std, EnvRec
    <2>2. env \in [Procs -> EnvRec] /\ parent \in [Procs -> Procs \cup {None}]
      BY <2>1 DEF Init
    <2>3. session.job \in Commands
      BY ShellAssumption DEF Init
    <2>4. <<Run(session.job)>> \in Seq(Early)
      BY <2>3 DEF Run, Early
    <2>5. Fork(<<Run(session.job)>>) \in Calls /\ Call("wait") \in Calls
      BY <2>4 DEF Fork, Calls, Call
    <2>6. <<Fork(<<Run(session.job)>>), Call("wait")>> \in Seq(Calls)
      BY <2>5
    <2>7. todo = [p \in Procs |-> IF p = Sh THEN <<Fork(<<Run(session.job)>>), Call("wait")>> ELSE <<>>]
      BY DEF Init
    <2>8. todo \in [Procs -> Seq(Calls)]
      BY <2>6, <2>7, ExitsCalls
    <2> QED BY <1>2, <2>2, <2>8 DEF ProgsOK
  <1>5. pipe \in [Pipes -> PipeRec]
    <2>1. 0 \in Count /\ None \in Byte
      BY Constants DEF Count, Byte
    <2> QED BY <2>1 DEF Init, PipeRec
  <1>6. input \in InputRec
    <2>1. 0 \in Count /\ None \in Byte
      BY Constants DEF Count, Byte
    <2> QED BY <2>1 DEF Init, InputRec
  <1>7. keys \in Seq(Chars)
    BY ShellAssumption DEF Init
  <1> QED BY <1>1, <1>2, <1>3, <1>4, <1>5, <1>6, <1>7 DEF TypeInv

LEMMA TypeNext == TypeInv /\ HandsOK /\ Bounds /\ [Next]_vars => TypeInv'
  <1> SUFFICES ASSUME TypeInv, HandsOK, Bounds, [Next]_vars PROVE TypeInv'
      OBVIOUS
  <1>1. CASE Type
    BY <1>1, TypeType
  <1>2. ASSUME NEW p \in Procs, Step(p) PROVE TypeInv'
    BY <1>2, TypePipeCall, TypePipeMake, TypePipeDone, TypePipeFails,
       TypeForkCall, TypeDupCall, TypeCloseCall, TypeExitClose, TypeExit,
       TypeFinish, TypeWait, TypeInitReaps, TypeEcho, TypeCatRead, TypeCatGot, TypeTransfer,
       TypeReturn DEF Step
  <1>3. ASSUME NEW p \in Procs, KillOne(p) PROVE TypeInv'
    BY <1>3, TypeKillOne
  <1>4. CASE UNCHANGED vars
    BY <1>4 DEF TypeInv, FilesOK, IoOK, ProgsOK, vars, kernel, progs
  <1> QED BY <1>1, <1>2, <1>3, <1>4 DEF Next

-----------------------------------------------------------------------------
(* No pipe overflows, nor the console's buffer.                            *)

LEMMA ReadersKeep ==
  ASSUME Bounds, NEW p \in Procs,
         pc'[p] \in Reads /\ io'[p].kind = "console" => Len(io'[p].bytes) < CatBuf,
         \A r \in Procs : r # p /\ pc'[r] \in Reads => pc[r] \in Reads /\ io'[r] = io[r]
  PROVE  Readers'
  BY DEF Bounds, Readers

\* The steps that touch neither pipes nor the console's buffer.
LEMMA BoundsKeep ==
  ASSUME Bounds, UNCHANGED <<pipe, input>>, NEW p \in Procs,
         pc'[p] \in Reads /\ io'[p].kind = "console" => Len(io'[p].bytes) < CatBuf,
         \A r \in Procs : r # p /\ pc'[r] \in Reads => pc[r] \in Reads /\ io'[r] = io[r]
  PROVE  Bounds'
  <1>1. Readers'
    BY ReadersKeep
  <1> QED BY <1>1 DEF Bounds, PipeBounds, InputBounds, Bytes

\* A step of a call of pipe that leaves the pipes alone.
LEMMA BoundsMaking ==
  ASSUME TypeInv, Bounds, UNCHANGED <<pipe, input, io>>, NEW p \in Procs,
         NEW w \in {"user"} \cup Making, Goto(p, w)
  PROVE  Bounds'
  <1>1. w \in Places /\ w \notin Reads
    BY DEF Places, Making, Reads
  <1>2. pc'[p] = w /\ \A x \in Procs : x # p => pc'[x] = pc[x]
    BY <1>1, GotoPlaces
  <1> QED BY <1>1, <1>2, BoundsKeep

LEMMA BoundsPipeCall == ASSUME TypeInv, Bounds, NEW p \in Procs, PipeCall(p) PROVE Bounds'
  <1>1. UNCHANGED <<pipe, input, io>>
    BY DEF PipeCall
  <1>2. CASE Goto(p, "pipealloc")
    BY <1>1, <1>2, BoundsMaking DEF Making
  <1>3. CASE pc' = pc
    BY <1>1, <1>3 DEF Bounds, Readers, InputBounds, PipeBounds, Bytes
  <1> QED BY <1>2, <1>3 DEF PipeCall

LEMMA BoundsMade ==
  ASSUME TypeInv, Bounds, NEW p \in Procs, NEW q \in Pipes, Made(p, q), UNCHANGED <<input, io>>
  PROVE  Bounds'
  <1>1. pc'[p] = "pipefds" /\ \A x \in Procs : x # p => pc'[x] = pc[x]
    <2>1. "pipefds" \in Places
      BY DEF Places, Making
    <2> QED BY <2>1, GotoPlaces DEF Made
  <1>2. Readers' /\ InputBounds'
    <2>1. InputBounds'
      BY DEF Bounds, InputBounds
    <2> QED BY <1>1, <2>1, ReadersKeep DEF Reads
  <1>4. PICK c : c = [pipe[q] EXCEPT !.used = TRUE, !.nread = 0, !.nwrite = 0,
                                     !.readopen = TRUE, !.writeopen = TRUE]
    OBVIOUS
  <1>5. pipe' = [pipe EXCEPT ![q] = c]
    BY <1>4 DEF Made
  <1>6. c.nread = 0 /\ c.nwrite = 0
    BY <1>4, BytesIn DEF PipeRec
  <1>7. 0 % Width = 0
    BY Constants
  <1>8. pipe'[q] = c /\ \A x \in Pipes : x # q => pipe'[x] = pipe[x]
    BY <1>5 DEF TypeInv
  <1>9. PipeBounds'
    <2> SUFFICES ASSUME NEW x \in Pipes PROVE Bytes(x)' <= PIPESIZE
        BY DEF PipeBounds
    <2>1. CASE x = q
      <3>1. Bytes(x)' = (0 - 0) % Width
        BY <1>6, <1>8, <2>1 DEF Bytes
      <3> QED BY <1>7, <3>1, Constants
    <2>2. CASE x # q
      BY <1>8, <2>2 DEF Bounds, PipeBounds, Bytes
    <2> QED BY <2>1, <2>2
  <1> QED BY <1>2, <1>9 DEF Bounds

LEMMA BoundsPipeMake == ASSUME TypeInv, Bounds, NEW p \in Procs, PipeMake(p) PROVE Bounds'
  <1>1. UNCHANGED <<input, io>>
    BY DEF PipeMake
  <1>2. {"pipepage", "unpipe"} \subseteq Making
    BY DEF Making
  <1>3. CASE PipeAlloc(p)
    <2>1. pipe' = pipe /\ (Goto(p, "pipepage") \/ Goto(p, "unpipe"))
      BY <1>3 DEF PipeAlloc
    <2> QED BY <1>1, <1>2, <2>1, BoundsMaking
  <1>4. CASE PipePage(p)
    <2>1. CASE \E q \in Pipes : Made(p, q)
      BY <1>1, <2>1, BoundsMade
    <2>2. CASE Goto(p, "unpipe") /\ UNCHANGED <<file, pipe>>
      BY <1>1, <1>2, <2>2, BoundsMaking
    <2> QED BY <1>4, <2>1, <2>2, PageParts
  <1>5. CASE NoFds(p)
    <2>1. pipe' = pipe /\ Goto(p, "unpipe")
      BY <1>5 DEF NoFds
    <2> QED BY <1>1, <1>2, <2>1, BoundsMaking
  <1> QED BY <1>3, <1>4, <1>5 DEF PipeMake

LEMMA BoundsPipeDone == ASSUME TypeInv, Bounds, NEW p \in Procs, PipeDone(p) PROVE Bounds'
  <1>1. UNCHANGED <<pipe, input, io>> /\ Goto(p, "user")
    BY DEF PipeDone, PipeFds
  <1> QED BY <1>1, BoundsMaking

LEMMA BoundsPipeFails ==
  ASSUME TypeInv, HandsOK, Bounds, NEW p \in Procs, PipeFails(p) PROVE Bounds'
  <1>1. GiveBack(p) /\ UNCHANGED <<pipe, input>>
    BY DEF PipeFails, GiveBack
  <1>2. PICK next \in {"user", "unpipe"}, f \in Files : FileClose(p, f, next)
    BY <1>1, GiveBackIs
  <1>3. /\ pc'[p] \in {next, "pipeclose"}
        /\ \A r \in Procs : r # p => pc'[r] = pc[r] /\ io'[r] = io[r]
    BY <1>2, FileCloseTypes
  <1> QED BY <1>1, <1>3, BoundsKeep DEF Reads

LEMMA BoundsForkCall == ASSUME TypeInv, Bounds, NEW p \in Procs, ForkCall(p) PROVE Bounds'
  <1> DEFINE free == {r \in Procs : pc[r] = "unused"}
             q == CHOOSE r \in free : TRUE
  <1>1. UNCHANGED <<pipe, input, io>>
    BY DEF ForkCall
  <1>2. CASE free = {}
    <2>1. pc' = pc
      BY <1>2 DEF ForkCall
    <2> QED BY <1>1, <2>1 DEF Bounds, Readers, InputBounds, PipeBounds, Bytes
  <1>3. CASE free # {}
    <2>1. q \in Procs /\ pc' = [pc EXCEPT ![q] = "user"]
      BY <1>3 DEF ForkCall
    <2> HIDE DEF free, q
    <2>2. pc'[q] = "user" /\ \A r \in Procs : r # q => pc'[r] = pc[r]
      BY <2>1 DEF TypeInv
    <2> QED BY <1>1, <2>1, <2>2, BoundsKeep DEF Reads
  <1> QED BY <1>2, <1>3

LEMMA BoundsClose ==
  ASSUME TypeInv, Bounds, NEW p \in Procs, NEW n \in Fds, ofile[p][n] # None,
         pc[p] = "user", Close(p, n, "user"), UNCHANGED <<pipe, input>>
  PROVE  Bounds'
  BY CloseTypes, BoundsKeep DEF Reads

LEMMA BoundsCloseCall == ASSUME TypeInv, Bounds, NEW p \in Procs, CloseCall(p) PROVE Bounds'
  <1> DEFINE n == env[p][Head(todo[p]).fd]
  <1>1. About(p, "close") /\ UNCHANGED <<pipe, input>>
    BY DEF CloseCall
  <1>2. pc[p] = "user" /\ n \in Fds
    BY <1>1, AboutCall, AboutDescriptor
  <1>3. IF ofile[p][n] # None THEN Close(p, n, "user") ELSE UNCHANGED <<ofile, file, pc, io>>
    BY DEF CloseCall
  <1> HIDE DEF n
  <1>4. CASE ofile[p][n] # None
    BY <1>1, <1>2, <1>3, <1>4, BoundsClose
  <1>5. CASE ofile[p][n] = None
    BY <1>1, <1>3, <1>5 DEF Bounds, Readers, InputBounds, PipeBounds, Bytes
  <1> QED BY <1>4, <1>5

LEMMA BoundsExitClose == ASSUME TypeInv, Bounds, NEW p \in Procs, ExitClose(p) PROVE Bounds'
  <1>1. PICK n : n = Least({m \in Fds : ofile[p][m] # None})
    OBVIOUS
  <1>2. n \in Fds /\ ofile[p][n] # None
    BY <1>1, NextOpen DEF ExitClose
  <1>3. pc[p] = "user" /\ Close(p, n, "user") /\ UNCHANGED <<pipe, input>>
    BY <1>1 DEF ExitClose, About
  <1> QED BY <1>2, <1>3, BoundsClose

\* Where exit leaves the processes.
LEMMA ExitMoves ==
  ASSUME TypeInv, NEW p \in Procs, Exit(p)
  PROVE  /\ pc[p] = "user" /\ pc'[p] = "zombie"
         /\ \A r \in Procs : r # p =>
              pc'[r] = IF r = parent[p] /\ pc[r] = "waitsleep" THEN "wait" ELSE pc[r]
         /\ \A r \in Procs : parent'[r] = IF parent[r] = p THEN None ELSE parent[r]
         /\ \A n \in Fds : ofile[p][n] = None
         /\ UNCHANGED <<ofile, file, pipe, input, io, unwoken>>
  BY DEF Exit, About

LEMMA BoundsExit == ASSUME TypeInv, Bounds, NEW p \in Procs, Exit(p) PROVE Bounds'
  <1>1. /\ pc'[p] \notin Reads /\ UNCHANGED <<pipe, input, io>>
        /\ \A r \in Procs : r # p /\ pc'[r] \in Reads => pc[r] \in Reads
    BY ExitMoves DEF Reads
  <1> QED BY <1>1, BoundsKeep

\* What pipeclose does.
LEMMA FinishParts ==
  ASSUME TypeInv, NEW p \in Procs, Finish(p)
  PROVE  LET q == io[p].pipe
             at == IF io[p].writable THEN "read" ELSE "write"
         IN /\ q \in Pipes /\ io[p].writable \in BOOLEAN /\ pc[p] = "pipeclose"
            /\ pc'[p] = AfterClose(taken[p]) /\ taken' = taken /\ todo' = todo
            /\ \A r \in Procs : r # p =>
                 pc'[r] = IF pc[r] = Asleep[at] /\ io[r].kind = "pipe" /\ io[r].pipe = q
                          THEN at ELSE pc[r]
            /\ pipe'[q].nread = pipe[q].nread /\ pipe'[q].nwrite = pipe[q].nwrite
            /\ pipe'[q].data = pipe[q].data
            /\ pipe'[q].readopen = (pipe[q].readopen /\ io[p].writable)
            /\ pipe'[q].writeopen = (pipe[q].writeopen /\ ~io[p].writable)
            /\ pipe'[q].used = (pipe'[q].readopen \/ pipe'[q].writeopen)
            /\ \A r \in Pipes : r # q => pipe'[r] = pipe[r]
            /\ unwoken' = IF io[p].writable THEN unwoken \ {q} ELSE unwoken
            /\ UNCHANGED <<ofile, file, input, io, parent>>
  <1>1. /\ pc[p] = "pipeclose" /\ Shut(p)
        /\ UNCHANGED <<ofile, file, taken, todo, input, io, parent>>
        /\ unwoken' = IF io[p].writable THEN unwoken \ {io[p].pipe} ELSE unwoken
    BY DEF Finish, PipeClose, progs
  <1>2. PICK at \in {"read", "write"} : at = IF io[p].writable THEN "read" ELSE "write"
    OBVIOUS
  <1>3. PICK q : q = io[p].pipe
    OBVIOUS
  <1>a. PICK next \in {"user", "unpipe"} : next = AfterClose(taken[p]) /\ next \in Places
    BY AfterIs
  <1>4. pc' = WakePipe(at, q, [pc EXCEPT ![p] = next])
    BY <1>2, <1>3, <1>a DEF Finish, PipeClose
  <1>5. next \in Places /\ next # Asleep[at]
    BY <1>2, <1>a DEF Asleep
  <1>6. PICK f \in [Procs -> Places] : f = [pc EXCEPT ![p] = next] /\ f[p] = next /\ Moved(p, f)
    BY <1>5, MovedTo
  <1>7. pc' = WakePipe(at, q, f)
    BY <1>4, <1>6
  <1>8. Moved(p, f) /\ f[p] = next
    BY <1>6
  <1>9. /\ pc'[p] = next
        /\ \A r \in Procs : r # p =>
              pc'[r] = IF pc[r] = Asleep[at] /\ io[r].kind = "pipe" /\ io[r].pipe = q
                       THEN at ELSE pc[r]
    BY <1>5, <1>7, <1>8, TypeWakes
  <1>10. q \in Pipes /\ io[p].writable \in BOOLEAN
    BY <1>1, <1>3 DEF TypeInv, IoOK, IoRec
  <1>11. PICK r \in BOOLEAN : r = (pipe[q].readopen /\ io[p].writable)
    OBVIOUS
  <1>12. PICK w \in BOOLEAN : w = (pipe[q].writeopen /\ ~io[p].writable)
    OBVIOUS
  <1>13. PICK u \in BOOLEAN : u = (r \/ w)
    OBVIOUS
  <1>14. pipe' = [pipe EXCEPT ![q].readopen = r, ![q].writeopen = w, ![q].used = u]
    BY <1>1, <1>3, <1>11, <1>12, <1>13 DEF Shut
  <1>15. /\ pipe'[q].nread = pipe[q].nread /\ pipe'[q].nwrite = pipe[q].nwrite
         /\ pipe'[q].data = pipe[q].data
         /\ pipe'[q].readopen = r /\ pipe'[q].writeopen = w /\ pipe'[q].used = u
         /\ \A x \in Pipes : x # q => pipe'[x] = pipe[x]
    BY <1>10, <1>14 DEF TypeInv, PipeRec
  <1> QED BY <1>1, <1>2, <1>3, <1>a, <1>9, <1>10, <1>11, <1>12, <1>13, <1>15

LEMMA BoundsFinish == ASSUME TypeInv, Bounds, NEW p \in Procs, Finish(p) PROVE Bounds'
  <1>1. PICK q : q = io[p].pipe
    OBVIOUS
  <1>2. PICK at \in {"read", "write"} : at = IF io[p].writable THEN "read" ELSE "write"
    OBVIOUS
  <1>3. /\ q \in Pipes /\ pc'[p] = AfterClose(taken[p]) /\ UNCHANGED <<input, io>>
        /\ \A r \in Procs : r # p =>
              pc'[r] = IF pc[r] = Asleep[at] /\ io[r].kind = "pipe" /\ io[r].pipe = q
                       THEN at ELSE pc[r]
        /\ pipe'[q].nread = pipe[q].nread /\ pipe'[q].nwrite = pipe[q].nwrite
        /\ \A r \in Pipes : r # q => pipe'[r] = pipe[r]
    BY <1>1, <1>2, FinishParts
  <1>4. \A r \in Procs : r # p /\ pc'[r] \in Reads => pc[r] \in Reads
    BY <1>2, <1>3 DEF Reads, Asleep
  <1>5. Readers'
    BY <1>3, <1>4, AfterIs, ReadersKeep DEF Reads
  <1>6. \A r \in Pipes : pipe'[r].nread = pipe[r].nread /\ pipe'[r].nwrite = pipe[r].nwrite
    BY <1>3
  <1>7. PipeBounds' /\ InputBounds'
    BY <1>3, <1>6 DEF Bounds, PipeBounds, InputBounds, Bytes
  <1> QED BY <1>5, <1>7 DEF Bounds

\* Where wait leaves the processes.
LEMMA WaitMoves ==
  ASSUME TypeInv, NEW p \in Procs, Wait(p)
  PROVE  /\ pc[p] \in {"user", "wait"} /\ pc'[p] \in {"user", "waitsleep"}
         /\ \A r \in Procs : r # p => pc'[r] = pc[r] \/ (pc[r] = "zombie" /\ pc'[r] = "unused")
         /\ UNCHANGED <<ofile, file, pipe, input, io, unwoken>>
  <1>1. pc[p] \in {"user", "wait"} /\ UNCHANGED <<ofile, file, pipe, input, io, unwoken>>
    BY WaitStarts
  <1>2. CASE \E q \in Procs : Reaps(p, q)
    BY <1>1, <1>2 DEF Reaps, TypeInv
  <1>3. CASE WaitFails(p)
    BY <1>1, <1>3 DEF WaitFails, Goto, TypeInv
  <1>4. CASE WaitSleeps(p)
    BY <1>1, <1>4 DEF WaitSleeps, Goto, TypeInv
  <1> QED BY <1>2, <1>3, <1>4, WaitOutcomes

LEMMA BoundsWait == ASSUME TypeInv, Bounds, NEW p \in Procs, Wait(p) PROVE Bounds'
  BY WaitMoves, BoundsKeep DEF Reads

LEMMA InitReapsMoves ==
  ASSUME TypeInv, NEW p \in Procs, InitReaps(p)
  PROVE  /\ pc[p] = "zombie" /\ pc'[p] = "unused" /\ parent[p] = None
         /\ \A r \in Procs : r # p => pc'[r] = pc[r]
         /\ UNCHANGED <<ofile, file, pipe, input, io, unwoken, parent>>
  BY DEF InitReaps, Reap, progs, TypeInv

LEMMA BoundsInitReaps == ASSUME TypeInv, Bounds, NEW p \in Procs, InitReaps(p) PROVE Bounds'
  BY InitReapsMoves, BoundsKeep DEF Reads

\* What the calls of read and write start, and where.
LEMMA EchoParts ==
  ASSUME TypeInv, NEW p \in Procs, Echo(p)
  PROVE  /\ pc[p] = "user" /\ pc'[p] \in {"write", "failed"}
         /\ \E s \in Seq(Byte) : Begun(p, 1, s, "write")
         /\ pc'[p] = "write" => Writable(p, 1)
         /\ \A r \in Procs : r # p => pc'[r] = pc[r] /\ io'[r] = io[r]
         /\ UNCHANGED <<ofile, file, pipe, input, unwoken, parent>>
  <1>1. /\ pc[p] = "user" /\ todo[p] # <<>> /\ Head(todo[p]).do = "echo"
        /\ FileWrite(p, 1, Head(todo[p]).bytes) /\ parent' = parent
    BY AboutCall DEF Echo
  <1>2. Head(todo[p]).bytes \in Seq(Byte)
    BY <1>1, TodoParts, CallParts
  <1>3. PICK s \in Seq(Byte) : s = Head(todo[p]).bytes
    BY <1>2
  <1>4. Begin(p, 1, s, "write", Writable(p, 1)) /\ 1 \in Fds
    BY <1>1, <1>3, Constants DEF FileWrite
  <1> QED BY <1>1, <1>4, BeginTypes

LEMMA CatReadParts ==
  ASSUME TypeInv, NEW p \in Procs, CatRead(p)
  PROVE  /\ pc[p] = "user" /\ pc'[p] \in {"read", "failed"}
         /\ Begun(p, 0, <<>>, "read")
         /\ pc'[p] = "read" => Readable(p, 0)
         /\ \A r \in Procs : r # p => pc'[r] = pc[r] /\ io'[r] = io[r]
         /\ UNCHANGED <<ofile, file, pipe, input, unwoken, parent>>
  <1>1. /\ pc[p] = "user" /\ FileRead(p, 0) /\ parent' = parent
    BY AboutCall DEF CatRead, progs
  <1>2. PICK s \in Seq(Byte) : s = <<>>
    BY EmptyBytes
  <1>3. Begin(p, 0, s, "read", Readable(p, 0)) /\ 0 \in Fds
    BY <1>1, <1>2, Constants DEF FileRead
  <1>4. /\ Begun(p, 0, s, "read") /\ pc'[p] \in {"read", "failed"}
        /\ pc'[p] = "read" => Readable(p, 0)
        /\ \A r \in Procs : r # p => pc'[r] = pc[r] /\ io'[r] = io[r]
        /\ UNCHANGED <<ofile, file, pipe, input, unwoken>>
    BY <1>1, <1>3, BeginTypes
  <1> QED BY <1>1, <1>2, <1>4

LEMMA CatGotParts ==
  ASSUME TypeInv, NEW p \in Procs, CatGot(p)
  PROVE  /\ pc[p] = "got" /\ pc'[p] \in {"user", "write", "failed"}
         /\ pc'[p] = "write" => Writable(p, 1) /\ \E s \in Seq(Byte) : Begun(p, 1, s, "write")
         /\ \A r \in Procs : r # p => pc'[r] = pc[r] /\ io'[r] = io[r]
         /\ UNCHANGED <<ofile, file, pipe, input, unwoken, parent>>
  <1>1. pc[p] = "got" /\ parent' = parent
    BY DEF CatGot
  <1>2. CASE killed[p] \/ io[p].bytes = <<>>
    <2>1. Goto(p, "user") /\ UNCHANGED <<ofile, file, pipe, input, io, unwoken>>
      BY <1>2 DEF CatGot
    <2>2. "user" \in Places
      BY DEF Places
    <2> QED BY <1>1, <2>1, <2>2, GotoPlaces
  <1>3. CASE ~(killed[p] \/ io[p].bytes = <<>>)
    <2>1. PICK s \in Seq(Byte) : s = io[p].bytes
      BY DEF TypeInv, IoOK, IoRec
    <2>2. Begin(p, 1, s, "write", Writable(p, 1)) /\ 1 \in Fds
      BY <1>3, <2>1, Constants DEF CatGot, FileWrite
    <2> QED BY <1>1, <2>2, BeginTypes
  <1> QED BY <1>2, <1>3

LEMMA ReturnParts ==
  ASSUME TypeInv, NEW p \in Procs, Return(p)
  PROVE  /\ pc[p] = "failed" /\ pc'[p] = "user"
         /\ \A r \in Procs : r # p => pc'[r] = pc[r]
         /\ UNCHANGED <<ofile, file, pipe, input, io, unwoken, parent>>
  BY DEF Return, Goto, TypeInv

LEMMA BoundsEcho == ASSUME TypeInv, Bounds, NEW p \in Procs, Echo(p) PROVE Bounds'
  BY EchoParts, BoundsKeep DEF Reads

LEMMA BoundsCatRead == ASSUME TypeInv, Bounds, NEW p \in Procs, CatRead(p) PROVE Bounds'
  <1>1. pc'[p] = "read" => io'[p].bytes = <<>>
    BY CatReadParts DEF Begun
  <1>2. Len(<<>>) < CatBuf
    BY Constants
  <1> QED BY <1>1, <1>2, CatReadParts, BoundsKeep DEF Reads

LEMMA BoundsCatGot == ASSUME TypeInv, Bounds, NEW p \in Procs, CatGot(p) PROVE Bounds'
  BY CatGotParts, BoundsKeep DEF Reads

LEMMA BoundsReturn == ASSUME TypeInv, Bounds, NEW p \in Procs, Return(p) PROVE Bounds'
  BY ReturnParts, BoundsKeep DEF Reads

LEMMA BoundsKillOne == ASSUME TypeInv, Bounds, NEW p \in Procs, KillOne(p) PROVE Bounds'
  <1>1. \A r \in Procs : pc'[r] \in Reads => pc[r] \in Reads
    BY Rouses DEF Reads
  <1> QED BY <1>1, Rouses DEF Bounds, Readers, InputBounds, PipeBounds, Bytes

LEMMA BoundsDupCall == ASSUME TypeInv, Bounds, NEW p \in Procs, DupCall(p) PROVE Bounds'
  BY DEF DupCall, Bounds, Readers, InputBounds, PipeBounds, Bytes

LEMMA BoundsPipeReadSleep ==
  ASSUME TypeInv, Bounds, NEW p \in Procs, PipeReadSleep(p) PROVE Bounds'
  <1>1. PICK w \in {"failed", "readsleep"} : Goto(p, w)
    BY DEF PipeReadSleep
  <1>2. w \in Places
    BY DEF Places, Blocked
  <1>3. pc'[p] = w /\ \A r \in Procs : r # p => pc'[r] = pc[r]
    BY <1>1, <1>2, GotoPlaces
  <1>4. io' = io /\ UNCHANGED <<pipe, input>> /\ io[p].kind = "pipe"
    BY DEF PipeReadSleep
  <1> QED BY <1>3, <1>4, BoundsKeep

LEMMA BoundsPipeReadSome ==
  ASSUME TypeInv, Bounds, NEW p \in Procs, PipeReadSome(p, CatBuf) PROVE Bounds'
  <1>1. PICK q : q = io[p].pipe
    OBVIOUS
  <1>2. PICK k : k = Takes(q, CatBuf)
    OBVIOUS
  <1>3. CatBuf \in Nat
    BY Constants
  <1>4. /\ q \in Pipes /\ k \in Nat /\ k <= Bytes(q) /\ k \in 0 .. Width
        /\ \A r \in Procs : r # p => io'[r] = io[r]
        /\ pc'[p] = "got"
        /\ \A r \in Procs : r # p => pc'[r] = pc[r] \/ pc'[r] = "write"
        /\ pipe'[q].nread = (pipe[q].nread + k) % Width
        /\ pipe'[q].nwrite = pipe[q].nwrite
        /\ \A r \in Pipes : r # q => pipe'[r] = pipe[r]
        /\ input' = input
    BY <1>1, <1>2, <1>3, PipeReadParts
  <1>5. Readers'
    BY <1>4, ReadersKeep DEF Reads
  <1>6. Bytes(q)' = Bytes(q) - k
    BY <1>4, BytesIn, Shorten DEF Bytes
  <1>7. PipeBounds'
    <2> SUFFICES ASSUME NEW x \in Pipes PROVE Bytes(x)' <= PIPESIZE
        BY DEF PipeBounds
    <2>1. Bytes(x) <= PIPESIZE /\ Bytes(x) \in Nat
      BY BytesIn DEF Bounds, PipeBounds
    <2>2. CASE x = q
      BY <1>4, <1>6, <2>1, <2>2, Constants
    <2>3. CASE x # q
      BY <1>4, <2>1, <2>3 DEF Bytes
    <2> QED BY <2>2, <2>3
  <1> QED BY <1>4, <1>5, <1>7 DEF Bounds, InputBounds

\* What a write puts in the pipe, in terms of how many bytes it holds.
LEMMA PutBytes ==
  ASSUME TypeInv, Bounds, NEW q \in Pipes, NEW s \in Seq(Byte), Put(q, s), Len(s) <= Room(q)
  PROVE  /\ Bytes(q)' = Bytes(q) + Len(s) /\ Bytes(q)' <= PIPESIZE
         /\ \A x \in Pipes : x # q => Bytes(x)' = Bytes(x)
  <1>1. PICK k \in Nat : k = Len(s)
    OBVIOUS
  <1>2. Room(q) \in Nat /\ Room(q) + Bytes(q) = PIPESIZE /\ Bytes(q) \in Nat
    BY RoomIn, BytesIn
  <1>3. k \in 0 .. Width /\ Bytes(q) + k < Width
    BY <1>1, <1>2, Constants
  <1>4. pipe'[q].nwrite = (pipe[q].nwrite + k) % Width /\ pipe'[q].nread = pipe[q].nread
        /\ \A x \in Pipes : x # q => pipe'[x] = pipe[x]
    BY <1>1, PutPipe
  <1>5. Bytes(q)' = Bytes(q) + k
    BY <1>3, <1>4, BytesIn, Extend DEF Bytes
  <1> QED BY <1>1, <1>2, <1>4, <1>5, Constants DEF Bytes

LEMMA BoundsPipeWriteSome ==
  ASSUME TypeInv, Bounds, NEW p \in Procs, PipeWriteSome(p) PROVE Bounds'
  <1>1. PICK q : q = io[p].pipe
    OBVIOUS
  <1>2. PICK s : s = SubSeq(io[p].bytes, 1, Smaller(Room(q), Len(io[p].bytes)))
    OBVIOUS
  <1>3. /\ q \in Pipes /\ s \in Seq(Byte) /\ Put(q, s)
        /\ io'[p].kind = "pipe" /\ input' = input
        /\ \A r \in Procs : r # p => io'[r] = io[r]
    BY <1>1, <1>2, PipeWriteParts
  <1>6. Len(s) <= Room(q)
    BY <1>1, <1>2, PipeWriteParts
  <1>7. \A r \in Procs : r # p =>
          pc'[r] = pc[r] \/ (pc[r] = "readsleep" /\ pc'[r] = "read")
    BY <1>1, PipeWriteParts
  <1>4. Readers'
    BY <1>3, <1>7, ReadersKeep DEF Reads
  <1>5. \A x \in Pipes : Bytes(x)' <= PIPESIZE
    BY <1>3, <1>6, PutBytes DEF Bounds, PipeBounds
  <1> QED BY <1>3, <1>4, <1>5 DEF Bounds, InputBounds, PipeBounds

LEMMA BoundsConsoleRead ==
  ASSUME TypeInv, Bounds, NEW p \in Procs, ConsoleRead(p, CatBuf) PROVE Bounds'
  <1>1. PICK used \in 0 .. (input.w - input.r) % Width :
           /\ input'.r = (input.r + used) % Width
           /\ input'.w = input.w /\ input'.e = input.e
           /\ \A x \in Procs : x # p => io'[x] = io[x]
           /\ pc'[p] \in {"got", "failed", "readsleep"}
           /\ \A x \in Procs : x # p => pc'[x] = pc[x]
           /\ pc'[p] = "readsleep" => Len(io'[p].bytes) < CatBuf
           /\ pipe' = pipe
    BY Reading, ConsoleReadParts
  <1>2. Readers'
    BY <1>1, ReadersKeep DEF Reads
  <1>3. PICK m : m = (input.w - input.r) % Width
    OBVIOUS
  <1>4. PICK n : n = (input.e - input.r) % Width
    OBVIOUS
  <1>5. m \in Nat /\ n \in Nat /\ m < Width /\ m <= n /\ n <= INPUT_BUF
    BY <1>3, <1>4, InputIn, DistanceIn DEF Bounds, InputBounds
  <1>6. used \in 0 .. Width /\ used <= m /\ used <= n /\ used \in Nat
    BY <1>1, <1>3, <1>5, Constants
  <1>7. (input.w - ((input.r + used) % Width)) % Width = m - used
    BY <1>3, <1>6, InputIn, Shorten
  <1>8. (input.e - ((input.r + used) % Width)) % Width = n - used
    BY <1>4, <1>6, InputIn, Shorten
  <1>9. (input'.w - input'.r) % Width = m - used /\ (input'.e - input'.r) % Width = n - used
    BY <1>1, <1>7, <1>8
  <1>10. InputBounds'
    BY <1>5, <1>6, <1>9, Constants DEF InputBounds
  <1> QED BY <1>1, <1>2, <1>10 DEF Bounds, PipeBounds, Bytes

LEMMA BoundsConsoleWrite ==
  ASSUME TypeInv, Bounds, NEW p \in Procs, ConsoleWrite(p) PROVE Bounds'
  BY ConsoleWriteParts, BoundsKeep DEF Reads

LEMMA BoundsType == ASSUME TypeInv, Bounds, Type PROVE Bounds'
  <1>1. PICK c \in Byte : ConsoleIntr(c)
    BY TypeKeys
  <1>2. UNCHANGED <<pipe, io>>
    BY <1>1, KeyDoes
  <1>3. PICK m : m = (input.w - input.r) % Width
    OBVIOUS
  <1>4. PICK n : n = (input.e - input.r) % Width
    OBVIOUS
  <1>5. m \in Nat /\ n \in Nat /\ m <= n /\ n <= INPUT_BUF /\ n < Width
    BY <1>3, <1>4, InputIn, DistanceIn DEF Bounds, InputBounds
  <1>6. InputBounds' /\ \A r \in Procs : pc'[r] \in Reads => pc[r] \in Reads
    <2>1. CASE \E k \in 0 .. (input.e - input.w) % Width : Erases(k)
      <3>1. (input.e - input.w) % Width = n - m
        BY <1>3, <1>4, <1>5, InputIn, Between
      <3>2. PICK k \in 0 .. n - m : Erases(k)
        BY <2>1, <3>1
      <3>3. k \in Nat /\ k \in 0 .. Width /\ k <= n
        BY <1>5, <3>2, Constants
      <3>4. input'.r = input.r /\ input'.w = input.w /\ input'.e = (input.e - k) % Width /\ pc' = pc
        BY <3>2, <3>3, ErasesInput DEF Erases
      <3>5. (((input.e - k) % Width) - input.r) % Width = n - k
        BY <1>4, <3>3, InputIn, Retract
      <3>6. (input'.w - input'.r) % Width = m /\ (input'.e - input'.r) % Width = n - k
        BY <1>3, <3>4, <3>5
      <3>7. m <= n - k /\ n - k <= INPUT_BUF
        BY <1>5, <3>2, Constants
      <3> QED BY <3>4, <3>6, <3>7 DEF InputBounds
    <2>2. CASE UNCHANGED <<input, pc>>
      BY <2>2 DEF Bounds, InputBounds
    <2>3. CASE Stored
      <3>1. n < INPUT_BUF /\ input'.r = input.r /\ input'.e = (input.e + 1) % Width
            /\ input'.w \in {input.w, input'.e}
        BY <1>4, <2>3 DEF Stored
      <3>2. 1 \in 0 .. Width /\ n + 1 < Width
        BY <1>5, <3>1, Constants
      <3>3. (((input.e + 1) % Width) - input.r) % Width = n + 1
        BY <1>4, <3>2, InputIn, Extend
      <3>4. (input'.e - input'.r) % Width = n + 1
            /\ (input'.w - input'.r) % Width \in {m, n + 1}
        BY <1>3, <3>1, <3>3
      <3>5. InputBounds'
        BY <1>5, <3>1, <3>4, Constants DEF InputBounds
      <3>6. \A r \in Procs : pc'[r] \in Reads => pc[r] \in Reads
        BY <2>3, WakeReadersIs DEF Stored, Reads
      <3> QED BY <3>5, <3>6
    <2> QED BY <1>1, <2>1, <2>2, <2>3, KeyDoes
  <1> QED BY <1>2, <1>6 DEF Bounds, PipeBounds, Bytes, Readers

LEMMA BoundsInit == Init => Bounds
  <1> SUFFICES ASSUME Init PROVE Bounds
      OBVIOUS
  <1>1. (0 - 0) % Width = 0
    BY Constants
  <1>2. \A q \in Pipes : pipe[q].nread = 0 /\ pipe[q].nwrite = 0
    BY DEF Init
  <1>3. input.r = 0 /\ input.w = 0 /\ input.e = 0
    BY DEF Init
  <1>4. \A p \in Procs : pc[p] \notin Reads
    BY DEF Init, Reads
  <1> QED BY <1>1, <1>2, <1>3, <1>4, Constants
          DEF Bounds, PipeBounds, InputBounds, Readers, Bytes

LEMMA BoundsNext == TypeInv /\ HandsOK /\ Bounds /\ [Next]_vars => Bounds'
  <1> SUFFICES ASSUME TypeInv, HandsOK, Bounds, [Next]_vars PROVE Bounds'
      OBVIOUS
  <1>1. CASE Type
    BY <1>1, BoundsType
  <1>2. ASSUME NEW p \in Procs, Transfer(p) PROVE Bounds'
    BY <1>2, BoundsPipeReadSleep, BoundsPipeReadSome, BoundsConsoleRead, BoundsPipeWriteSome,
       BoundsConsoleWrite DEF Transfer
  <1>3. ASSUME NEW p \in Procs, Step(p) PROVE Bounds'
    BY <1>2, <1>3, BoundsPipeCall, BoundsPipeMake, BoundsPipeDone,
       BoundsPipeFails, BoundsForkCall, BoundsDupCall, BoundsCloseCall,
       BoundsExitClose, BoundsExit, BoundsFinish, BoundsWait, BoundsInitReaps, BoundsEcho,
       BoundsCatRead, BoundsCatGot, BoundsReturn DEF Step
  <1>4. ASSUME NEW p \in Procs, KillOne(p) PROVE Bounds'
    BY <1>4, BoundsKillOne
  <1>5. CASE UNCHANGED vars
    BY <1>5 DEF Bounds, PipeBounds, InputBounds, Readers, Bytes, vars, kernel
  <1> QED BY <1>1, <1>3, <1>4, <1>5 DEF Next

LEMMA TypesAndBounds == TypeInv /\ HandsOK /\ Bounds => TypeOK
  BY DEF TypeInv, Bounds, FilesOK, ProgsOK, PipeBounds, InputBounds, TypeOK, Places, Making,
         HandsOK, TakenRec

-----------------------------------------------------------------------------
(* What the calls of pipe have in hand.                                    *)

\* No call of pipe makes a step, and none starts.
Calm ==
  /\ taken' = taken
  /\ \A r \in Procs : \/ pc'[r] = pc[r] /\ todo'[r] = todo[r]
                      \/ pc[r] \notin Making \cup {"pipeclose"} /\ pc'[r] \notin Making

LEMMA HandsKeep == ASSUME HandsOK, Calm PROVE HandsOK'
  <1> SUFFICES ASSUME NEW r \in Procs PROVE HandOK(r)'
      BY DEF HandsOK, Calm
  <1>1. taken'[r] = taken[r] /\ HandOK(r)
    BY DEF HandsOK, Calm
  <1>2. CASE pc'[r] = pc[r] /\ todo'[r] = todo[r]
    BY <1>1, <1>2 DEF HandOK, NoFiles
  <1>3. CASE pc[r] \notin Making \cup {"pipeclose"} /\ pc'[r] \notin Making
    BY <1>1, <1>3 DEF HandOK, Making, NoFiles
  <1> QED BY <1>2, <1>3 DEF Calm

\* Only p moves, and sleepers that wake.
LEMMA CalmMove ==
  ASSUME NEW p \in Procs, taken' = taken,
         pc[p] \notin Making \cup {"pipeclose"}, pc'[p] \notin Making,
         \A r \in Procs : r # p => todo'[r] = todo[r],
         \A r \in Procs : r # p =>
           \/ pc'[r] = pc[r]
           \/ pc[r] \notin Making \cup {"pipeclose"} /\ pc'[r] \notin Making
  PROVE  Calm
  BY DEF Calm

LEMMA OthersCalls ==
  ASSUME TypeInv, NEW p \in Procs, NEW s, Then(p, s)
  PROVE  \A r \in Procs : r # p => todo'[r] = todo[r]
  BY DEF Then, TypeInv, ProgsOK

LEMMA CalmForkCall == ASSUME TypeInv, NEW p \in Procs, ForkCall(p) PROVE Calm
  <1> DEFINE free == {r \in Procs : pc[r] = "unused"}
             q == CHOOSE r \in free : TRUE
  <1>1. pc[p] = "user" /\ taken' = taken
    BY AboutCall DEF ForkCall
  <1>2. CASE free = {}
    <2>1. pc' = pc /\ Then(p, Exits)
      BY <1>2 DEF ForkCall
    <2> QED BY <1>1, <2>1, OthersCalls, CalmMove DEF Making
  <1>3. CASE free # {}
    <2>1. q \in Procs /\ pc[q] = "unused"
      BY <1>3
    <2>2. /\ pc' = [pc EXCEPT ![q] = "user"]
          /\ todo' = [todo EXCEPT ![p] = Ready(Rest(p)), ![q] = Ready(Head(todo[p]).child)]
      BY <1>3 DEF ForkCall
    <2> HIDE DEF free, q
    <2>3. /\ pc'[q] = "user" /\ \A r \in Procs : r # q => pc'[r] = pc[r]
          /\ \A r \in Procs : r # q /\ r # p => todo'[r] = todo[r]
      BY <2>1, <2>2 DEF TypeInv, ProgsOK
    <2> QED BY <1>1, <2>1, <2>3 DEF Calm, Making
  <1> QED BY <1>2, <1>3

LEMMA CalmCloses ==
  ASSUME TypeInv, NEW p \in Procs, NEW n \in Fds, ofile[p][n] # None, pc[p] = "user",
         Close(p, n, "user"), NEW s, Then(p, s), taken' = taken
  PROVE  Calm
  <1>1. pc'[p] \in {"user", "pipeclose"} /\ \A r \in Procs : r # p => pc'[r] = pc[r]
    BY CloseTypes
  <1> QED BY <1>1, OthersCalls, CalmMove DEF Making

LEMMA CalmCloseCall == ASSUME TypeInv, NEW p \in Procs, CloseCall(p) PROVE Calm
  <1> DEFINE n == env[p][Head(todo[p]).fd]
  <1>1. About(p, "close") /\ Then(p, Rest(p)) /\ taken' = taken
    BY DEF CloseCall
  <1>2. pc[p] = "user" /\ n \in Fds
    BY <1>1, AboutCall, AboutDescriptor
  <1>3. IF ofile[p][n] # None THEN Close(p, n, "user") ELSE UNCHANGED <<ofile, file, pc, io>>
    BY DEF CloseCall
  <1> HIDE DEF n
  <1>4. CASE ofile[p][n] # None
    BY <1>1, <1>2, <1>3, <1>4, CalmCloses
  <1>5. CASE ofile[p][n] = None
    BY <1>1, <1>2, <1>3, <1>5, OthersCalls, CalmMove DEF Making
  <1> QED BY <1>4, <1>5

LEMMA CalmExitClose == ASSUME TypeInv, NEW p \in Procs, ExitClose(p) PROVE Calm
  <1>1. PICK n : n = Least({m \in Fds : ofile[p][m] # None})
    OBVIOUS
  <1>2. n \in Fds /\ ofile[p][n] # None
    BY <1>1, NextOpen DEF ExitClose
  <1>3. pc[p] = "user" /\ Close(p, n, "user") /\ Then(p, Exits) /\ taken' = taken
    BY <1>1 DEF ExitClose, About
  <1> QED BY <1>2, <1>3, CalmCloses

LEMMA CalmWait == ASSUME TypeInv, NEW p \in Procs, Wait(p) PROVE Calm
  <1>1. taken' = taken
    BY DEF Wait
  <1>2. \A r \in Procs : r # p => todo'[r] = todo[r]
    BY WaitOutcomes, OthersCalls DEF Reaps, WaitFails, WaitSleeps
  <1> QED BY <1>1, <1>2, WaitMoves, CalmMove DEF Making

\* The calls that leave descriptors alone.
LEMMA CalmCalls ==
  ASSUME TypeInv, NEW p \in Procs,
         \/ DupCall(p) \/ Exit(p) \/ InitReaps(p) \/ Echo(p) \/ CatRead(p) \/ CatGot(p)
         \/ Return(p)
  PROVE  Calm
  <1>1. CASE DupCall(p)
    <2>1. pc[p] = "user" /\ pc' = pc /\ taken' = taken /\ Then(p, Rest(p))
      BY <1>1, AboutCall DEF DupCall
    <2> QED BY <2>1, OthersCalls, CalmMove DEF Making
  <1>2. CASE Exit(p)
    <2>1. taken' = taken /\ Then(p, <<>>)
      BY <1>2 DEF Exit
    <2> QED BY <1>2, <2>1, ExitMoves, OthersCalls, CalmMove DEF Making
  <1>3. CASE InitReaps(p)
    <2>1. taken' = taken /\ todo' = todo
      BY <1>3 DEF InitReaps, progs
    <2> QED BY <1>3, <2>1, InitReapsMoves, CalmMove DEF Making
  <1>4. CASE Echo(p)
    <2>1. taken' = taken /\ Then(p, Rest(p))
      BY <1>4 DEF Echo, FileWrite, Begin
    <2> QED BY <1>4, <2>1, EchoParts, OthersCalls, CalmMove DEF Making
  <1>5. CASE CatRead(p)
    <2>1. taken' = taken /\ todo' = todo
      BY <1>5 DEF CatRead, FileRead, Begin, progs
    <2> QED BY <1>5, <2>1, CatReadParts, CalmMove DEF Making
  <1>6. CASE CatGot(p)
    <2>1. taken' = taken
      BY <1>6 DEF CatGot, FileWrite, Begin
    <2>2. Then(p, Exits) \/ todo' = todo
      BY <1>6 DEF CatGot
    <2>3. \A r \in Procs : r # p => todo'[r] = todo[r]
      BY <2>2, OthersCalls
    <2> QED BY <1>6, <2>1, <2>3, CatGotParts, CalmMove DEF Making
  <1>7. CASE Return(p)
    <2>1. taken' = taken /\ Then(p, Exits)
      BY <1>7 DEF Return
    <2> QED BY <1>7, <2>1, ReturnParts, OthersCalls, CalmMove DEF Making
  <1> QED BY <1>1, <1>2, <1>3, <1>4, <1>5, <1>6, <1>7

LEMMA CalmTransfer == ASSUME TypeInv, Bounds, NEW p \in Procs, Transfer(p) PROVE Calm
  <1>1. todo' = todo
    BY DEF Transfer, progs
  <1>2. CASE PipeReadSleep(p)
    <2>1. PICK w \in {"failed", "readsleep"} : Goto(p, w)
      BY <1>2 DEF PipeReadSleep
    <2>2. w \in Places
      BY DEF Places, Blocked
    <2>3. pc'[p] = w /\ \A r \in Procs : r # p => pc'[r] = pc[r]
      BY <2>1, <2>2, GotoPlaces
    <2>4. taken' = taken /\ pc[p] = "read"
      BY <1>2 DEF PipeReadSleep
    <2> QED BY <1>1, <2>3, <2>4, CalmMove DEF Making
  <1>3. CASE PipeReadSome(p, CatBuf)
    <2>1. taken' = taken /\ pc[p] = "read" /\ CatBuf \in Nat
      BY <1>3, Constants DEF PipeReadSome
    <2>2. /\ pc'[p] = "got"
          /\ \A r \in Procs : r # p =>
               pc'[r] = pc[r] \/ (pc[r] = "writesleep" /\ pc'[r] = "write")
      BY <1>3, <2>1, PipeReadParts
    <2> QED BY <1>1, <2>1, <2>2, CalmMove DEF Making
  <1>4. CASE ConsoleRead(p, CatBuf)
    <2>1. taken' = taken /\ pc[p] = "read"
      BY <1>4 DEF ConsoleRead
    <2>2. /\ pc'[p] \in {"got", "failed", "readsleep"}
          /\ \A r \in Procs : r # p => pc'[r] = pc[r]
      BY <1>4, Reading, ConsoleReadParts
    <2> QED BY <1>1, <2>1, <2>2, CalmMove DEF Making
  <1>5. CASE PipeWriteSome(p)
    <2>1. taken' = taken /\ pc[p] = "write"
      BY <1>5 DEF PipeWriteSome
    <2>2. /\ pc'[p] \in {"failed", "user", "writesleep"}
          /\ \A r \in Procs : r # p =>
               pc'[r] = pc[r] \/ (pc[r] = "readsleep" /\ pc'[r] = "read")
      BY <1>5, PipeWriteParts
    <2> QED BY <1>1, <2>1, <2>2, CalmMove DEF Making
  <1>6. CASE ConsoleWrite(p)
    <2>1. taken' = taken /\ pc[p] = "write"
      BY <1>6 DEF ConsoleWrite
    <2> QED BY <1>1, <1>6, <2>1, ConsoleWriteParts, CalmMove DEF Making
  <1> QED BY <1>2, <1>3, <1>4, <1>5, <1>6 DEF Transfer

LEMMA CalmKillOne == ASSUME TypeInv, NEW p \in Procs, KillOne(p) PROVE Calm
  <1>1. taken' = taken /\ todo' = todo
    BY DEF KillOne, Kill, progs
  <1> QED BY <1>1, Rouses DEF Calm, Making

LEMMA CalmType == ASSUME TypeInv, Bounds, Type PROVE Calm
  <1>1. PICK c \in Byte : ConsoleIntr(c)
    BY TypeKeys
  <1>2. taken' = taken /\ todo' = todo
    BY <1>1, TypeKeys DEF ConsoleIntr, progs
  <1>3. \A r \in Procs : pc'[r] = pc[r] \/ (pc[r] = "readsleep" /\ pc'[r] = "read")
    <2>1. CASE Stored
      BY <2>1, WakeReadersIs DEF Stored
    <2>2. CASE pc' = pc
      BY <2>2
    <2> QED BY <1>1, <2>1, <2>2, KeyDoes DEF Erases
  <1> QED BY <1>2, <1>3 DEF Calm, Making

\* A call of pipe makes a step.
LEMMA HandsMove ==
  ASSUME TypeInv, HandsOK, NEW p \in Procs, NEW t \in TakenRec, taken' = [taken EXCEPT ![p] = t],
         HandOK(p)',
         \A r \in Procs : r # p => todo'[r] = todo[r],
         \A r \in Procs : r # p =>
           \/ pc'[r] = pc[r]
           \/ pc[r] \notin Making \cup {"pipeclose"} /\ pc'[r] \notin Making
  PROVE  HandsOK'
  <1>1. taken' \in [Procs -> TakenRec] /\ \A r \in Procs : r # p => taken'[r] = taken[r]
    BY DEF HandsOK
  <1>2. ASSUME NEW r \in Procs, r # p PROVE HandOK(r)'
    <2>1. taken'[r] = taken[r] /\ HandOK(r) /\ todo'[r] = todo[r]
      BY <1>1, <1>2 DEF HandsOK
    <2>2. CASE pc'[r] = pc[r]
      BY <2>1, <2>2 DEF HandOK, NoFiles
    <2>3. CASE pc[r] \notin Making \cup {"pipeclose"} /\ pc'[r] \notin Making
      BY <2>1, <2>3 DEF HandOK, Making, NoFiles
    <2> QED BY <1>2, <2>2, <2>3
  <1> QED BY <1>1, <1>2 DEF HandsOK

LEMMA Hand ==
  ASSUME HandsOK, NEW p \in Procs
  PROVE  /\ taken[p] \in TakenRec /\ HandOK(p) /\ NoFiles \in TakenRec
         /\ taken[p].rf \in Files \cup {None} /\ taken[p].wf \in Files \cup {None}
         /\ taken[p]["rf"] = taken[p].rf /\ taken[p]["wf"] = taken[p].wf
  BY DEF HandsOK, TakenRec, NoFiles

\* Where a call of pipe goes.
LEMMA MakingMoves ==
  ASSUME TypeInv, NEW p \in Procs, NEW w \in {"user"} \cup Making, Goto(p, w)
  PROVE  pc'[p] = w /\ \A r \in Procs : r # p => pc'[r] = pc[r]
  <1>1. w \in Places
    BY DEF Places, Making
  <1> QED BY <1>1, GotoPlaces

LEMMA HandsPipeCall == ASSUME TypeInv, HandsOK, NEW p \in Procs, PipeCall(p) PROVE HandsOK'
  <1>1. pc[p] = "user" /\ todo[p] # <<>>
    BY AboutCall DEF PipeCall
  <1>2. CASE FileAlloc(p, "rf") /\ Goto(p, "pipealloc") /\ UNCHANGED todo
    <2>1. PICK f \in Files : Allocs(p, "rf", f)
      BY <1>2, FileAllocIs
    <2>2. taken[p] = NoFiles
      BY <1>1, Hand DEF HandOK, Making
    <2>3. PICK t : t = [taken[p] EXCEPT !["rf"] = f]
      OBVIOUS
    <2>4. t.rf = f /\ t.wf = None /\ t \in TakenRec
      BY <2>2, <2>3 DEF NoFiles, TakenRec
    <2>5. taken' = [taken EXCEPT ![p] = t]
      BY <2>1, <2>3 DEF Allocs
    <2>6. taken'[p] = t
      BY <2>5 DEF HandsOK
    <2>7. pc'[p] = "pipealloc" /\ \A r \in Procs : r # p => pc'[r] = pc[r]
      BY <1>2, MakingMoves DEF Making
    <2>8. HandOK(p)'
      BY <1>1, <1>2, <2>4, <2>6, <2>7, Constants DEF HandOK, Making
    <2> QED BY <1>2, <2>4, <2>5, <2>7, <2>8, HandsMove
  <1>3. CASE Then(p, Exits) /\ UNCHANGED <<taken, pc>>
    BY <1>1, <1>3, OthersCalls, CalmMove, HandsKeep DEF Making
  <1> QED BY <1>2, <1>3 DEF PipeCall

LEMMA HandsPipeMake == ASSUME TypeInv, HandsOK, NEW p \in Procs, PipeMake(p) PROVE HandsOK'
  <1>1. todo' = todo
    BY DEF PipeMake, progs
  <1>2. taken = [taken EXCEPT ![p] = taken[p]]
    BY DEF HandsOK
  <1>3. CASE FileAlloc(p, "wf") /\ Goto(p, "pipepage") /\ pc[p] = "pipealloc"
    <2>1. PICK f \in Files : Allocs(p, "wf", f)
      BY <1>3, FileAllocIs
    <2>2. taken[p].rf # None /\ todo[p] # <<>>
      BY <1>3, Hand DEF HandOK, Making
    <2>3. PICK t : t = [taken[p] EXCEPT !["wf"] = f]
      OBVIOUS
    <2>4. t.wf = f /\ t.rf = taken[p].rf /\ t \in TakenRec
      BY <2>2, <2>3, Hand DEF TakenRec
    <2>5. taken' = [taken EXCEPT ![p] = t]
      BY <2>1, <2>3 DEF Allocs
    <2>6. taken'[p] = t
      BY <2>5 DEF HandsOK
    <2>7. pc'[p] = "pipepage" /\ \A r \in Procs : r # p => pc'[r] = pc[r]
      BY <1>3, MakingMoves DEF Making
    <2>8. HandOK(p)'
      BY <1>1, <2>2, <2>4, <2>6, <2>7, Constants DEF HandOK, Making
    <2> QED BY <1>1, <2>4, <2>5, <2>7, <2>8, HandsMove
  <1>4. ASSUME NEW w \in {"pipefds", "unpipe"}, Goto(p, w), taken' = taken,
               pc[p] = "pipepage" \/ (pc[p] \in {"pipealloc", "pipefds"} /\ w = "unpipe")
        PROVE  HandsOK'
    <2>1. pc'[p] = w /\ \A r \in Procs : r # p => pc'[r] = pc[r]
      BY <1>4, MakingMoves DEF Making
    <2>2. taken[p].rf # None
      BY <1>4, Hand DEF HandOK, Making
    <2>3. pc[p] = "pipepage" => taken[p].wf # None /\ todo[p] # <<>>
      BY Hand DEF HandOK
    <2>4. taken[p] # NoFiles
      BY <2>2 DEF NoFiles
    <2>5. HandOK(p)'
      BY <1>1, <1>4, <2>1, <2>2, <2>3, <2>4 DEF HandOK, Making, NoFiles
    <2> QED BY <1>1, <1>2, <1>4, <2>1, <2>5, Hand, HandsMove
  <1>5. CASE PipeAlloc(p)
    BY <1>3, <1>4, <1>5 DEF PipeAlloc
  <1>6. CASE PipePage(p)
    <2>1. pc[p] = "pipepage" /\ taken' = taken /\ (Goto(p, "pipefds") \/ Goto(p, "unpipe"))
      BY <1>6, PageParts DEF Made
    <2>2. CASE Goto(p, "pipefds")
      BY <1>4, <2>1, <2>2
    <2>3. CASE Goto(p, "unpipe")
      BY <1>4, <2>1, <2>3
    <2> QED BY <2>1, <2>2, <2>3
  <1>7. CASE NoFds(p)
    BY <1>4, <1>7 DEF NoFds
  <1> QED BY <1>5, <1>6, <1>7 DEF PipeMake

LEMMA HandsPipeDone == ASSUME TypeInv, HandsOK, NEW p \in Procs, PipeDone(p) PROVE HandsOK'
  <1>1. /\ Goto(p, "user") /\ Then(p, Rest(p)) /\ taken' = [taken EXCEPT ![p] = NoFiles]
    BY DEF PipeDone, PipeFds
  <1>2. pc'[p] = "user" /\ \A r \in Procs : r # p => pc'[r] = pc[r]
    BY <1>1, MakingMoves
  <1>3. taken'[p] = NoFiles
    BY <1>1 DEF HandsOK
  <1>4. HandOK(p)'
    BY <1>2, <1>3 DEF HandOK, NoFiles
  <1> QED BY <1>1, <1>2, <1>4, Hand, OthersCalls, HandsMove

LEMMA HandsPipeFails == ASSUME TypeInv, HandsOK, NEW p \in Procs, PipeFails(p) PROVE HandsOK'
  <1>1. GiveBack(p) /\ Then(p, Exits)
    BY DEF PipeFails
  <1>2. /\ taken' = [taken EXCEPT ![p] = Left(p)]
        /\ FileClose(p, GivenUp(p), AfterClose(Left(p)))
        /\ GivenUp(p) \in Files /\ AfterClose(Left(p)) \in {"user", "unpipe"}
    BY <1>1, GiveBackIs
  <1>3. pc'[p] \in {AfterClose(Left(p)), "pipeclose"} /\ \A r \in Procs : r # p => pc'[r] = pc[r]
    BY <1>2, FileCloseTypes
  <1>4. Left(p) \in TakenRec
    BY Hand DEF Left, TakenRec
  <1>5. taken'[p] = Left(p)
    BY <1>2 DEF HandsOK
  <1>6. HandOK(p)'
    BY <1>3, <1>5 DEF HandOK, Making, AfterClose, NoFiles
  <1> QED BY <1>1, <1>2, <1>3, <1>4, <1>6, OthersCalls, HandsMove

LEMMA HandsFinish == ASSUME TypeInv, HandsOK, NEW p \in Procs, Finish(p) PROVE HandsOK'
  <1>1. PICK q : q = io[p].pipe
    OBVIOUS
  <1>2. PICK at \in {"read", "write"} : at = IF io[p].writable THEN "read" ELSE "write"
    OBVIOUS
  <1>3. /\ pc'[p] = AfterClose(taken[p]) /\ taken' = taken /\ todo' = todo
        /\ \A r \in Procs : r # p =>
              pc'[r] = IF pc[r] = Asleep[at] /\ io[r].kind = "pipe" /\ io[r].pipe = q
                       THEN at ELSE pc[r]
    BY <1>1, <1>2, FinishParts
  <1>4. \A r \in Procs : r # p =>
           \/ pc'[r] = pc[r]
           \/ pc[r] \notin Making \cup {"pipeclose"} /\ pc'[r] \notin Making
    BY <1>2, <1>3 DEF Asleep, Making
  <1>5. HandOK(p)'
    BY <1>3 DEF HandOK, Making, AfterClose, NoFiles
  <1>6. taken' = [taken EXCEPT ![p] = taken[p]]
    BY <1>3 DEF HandsOK
  <1> QED BY <1>3, <1>4, <1>5, <1>6, Hand, HandsMove

LEMMA CalmStep ==
  ASSUME TypeInv, Bounds, NEW p \in Procs, Step(p),
         ~(PipeCall(p) \/ PipeMake(p) \/ PipeDone(p) \/ PipeFails(p) \/ Finish(p))
  PROVE  Calm
  BY CalmForkCall, CalmCalls, CalmCloseCall, CalmExitClose, CalmWait, CalmTransfer DEF Step

LEMMA HandsInit == Init => HandsOK
  <1> SUFFICES ASSUME Init, NEW p \in Procs PROVE taken[p] = NoFiles /\ HandOK(p)
      BY DEF Init, HandsOK, TakenRec, NoFiles
  <1> QED BY DEF Init, HandOK, NoFiles

LEMMA HandsNext == TypeInv /\ HandsOK /\ Bounds /\ [Next]_vars => HandsOK'
  <1> SUFFICES ASSUME TypeInv, HandsOK, Bounds, [Next]_vars PROVE HandsOK'
      OBVIOUS
  <1>1. CASE Type
    BY <1>1, CalmType, HandsKeep
  <1>2. ASSUME NEW p \in Procs, Step(p) PROVE HandsOK'
    BY <1>2, CalmStep, HandsKeep, HandsPipeCall, HandsPipeMake, HandsPipeDone, HandsPipeFails,
       HandsFinish
  <1>3. ASSUME NEW p \in Procs, KillOne(p) PROVE HandsOK'
    BY <1>3, CalmKillOne, HandsKeep
  <1>4. CASE UNCHANGED vars
    <2>1. Calm
      BY <1>4 DEF vars, kernel, progs, Calm
    <2> QED BY <2>1, HandsKeep
  <1> QED BY <1>1, <1>2, <1>3, <1>4 DEF Next

-----------------------------------------------------------------------------
(* The reference counts.                                                   *)

LEMMA HoldersFinite ==
  ASSUME NEW f
  PROVE  /\ IsFiniteSet(Holders(f)) /\ IsFiniteSet(Holders(f)')
         /\ Cardinality(Holders(f)) \in Nat
  <1>1. IsFiniteSet(Procs \X Fds)
    BY Constants, FS_Product
  <1>2. IsFiniteSet(Holders(f))
    BY <1>1, FS_Subset DEF Holders
  <1>3. IsFiniteSet(Holders(f)')
    BY <1>1, FS_Subset DEF Holders
  <1> QED BY <1>2, <1>3, FS_CardinalityType

\* A descriptor is opened, or closed.
LEMMA OpenOne ==
  ASSUME TypeInv, NEW p \in Procs, NEW n \in Fds, NEW f \in Files, ofile[p][n] = None,
         ofile' = [ofile EXCEPT ![p][n] = f]
  PROVE  /\ Cardinality(Holders(f)') = Cardinality(Holders(f)) + 1
         /\ \A g \in Files : g # f => Holders(g)' = Holders(g)
  <1>1. f # None /\ ofile \in [Procs -> [Fds -> Files \cup {None}]]
    BY Constants DEF TypeInv, FilesOK
  <1>2. \A r \in Procs, m \in Fds :
          ofile'[r][m] = IF r = p /\ m = n THEN f ELSE ofile[r][m]
    BY <1>1
  <1>3. Holders(f)' = Holders(f) \cup {<<p, n>>} /\ <<p, n>> \notin Holders(f)
    BY <1>1, <1>2 DEF Holders
  <1>4. \A g \in Files : g # f => Holders(g)' = Holders(g)
    BY <1>1, <1>2, Constants DEF Holders
  <1> QED BY <1>3, <1>4, HoldersFinite, FS_AddElement

LEMMA CloseOne ==
  ASSUME TypeInv, NEW p \in Procs, NEW n \in Fds, NEW f \in Files, ofile[p][n] = f,
         ofile' = [ofile EXCEPT ![p][n] = None]
  PROVE  /\ Cardinality(Holders(f)') = Cardinality(Holders(f)) - 1
         /\ \A g \in Files : g # f => Holders(g)' = Holders(g)
         /\ Cardinality(Holders(f)) = 1 => Holders(f) = {<<p, n>>}
  <1>2. f # None /\ ofile \in [Procs -> [Fds -> Files \cup {None}]]
    BY Constants DEF TypeInv, FilesOK
  <1>3. \A r \in Procs, m \in Fds :
          ofile'[r][m] = IF r = p /\ m = n THEN None ELSE ofile[r][m]
    BY <1>2
  <1>4. Holders(f)' = Holders(f) \ {<<p, n>>} /\ <<p, n>> \in Holders(f)
    BY <1>2, <1>3 DEF Holders
  <1>5. \A g \in Files : g # f => Holders(g)' = Holders(g)
    BY <1>2, <1>3, Constants DEF Holders
  <1>6. Cardinality(Holders(f)) = 1 => Holders(f) = {<<p, n>>}
    BY <1>4, HoldersFinite, FS_Singleton
  <1>7. Cardinality(Holders(f)') = Cardinality(Holders(f)) - 1
    BY <1>4, HoldersFinite, FS_RemoveElement
  <1> QED BY <1>5, <1>6, <1>7

\* A child gets its parent's descriptors.
LEMMA InheritAll ==
  ASSUME TypeInv, NEW p \in Procs, NEW q \in Procs, NEW f \in Files,
         \A n \in Fds : ofile[q][n] = None, ofile' = [ofile EXCEPT ![q] = ofile[p]]
  PROVE  Cardinality(Holders(f)') =
           Cardinality(Holders(f)) + Cardinality({n \in Fds : ofile[p][n] = f})
  <1> DEFINE S == {n \in Fds : ofile[p][n] = f}
             T == {q} \X S
             g == [n \in S |-> <<q, n>>]
  <1>1. f # None /\ ofile \in [Procs -> [Fds -> Files \cup {None}]]
    BY Constants DEF TypeInv, FilesOK
  <1>2. \A r \in Procs, m \in Fds :
          ofile'[r][m] = IF r = q THEN ofile[p][m] ELSE ofile[r][m]
    BY <1>1
  <1>3. Holders(f)' = Holders(f) \cup T
    BY <1>1, <1>2 DEF Holders
  <1>4. Holders(f) \cap T = {}
    BY <1>1 DEF Holders
  <1>5. IsFiniteSet(S)
    BY Constants, FS_Subset
  <1>6. g \in Bijection(S, T)
    BY DEF Bijection, Injection, Surjection, IsInjective
  <1>7. IsFiniteSet(T) /\ Cardinality(T) = Cardinality(S)
    BY <1>5, <1>6, FS_Bijection DEF ExistsBijection
  <1>8. Cardinality(S) \in Nat
    BY <1>5, FS_CardinalityType
  <1> HIDE DEF S, T, g
  <1>9. Cardinality(Holders(f)') = Cardinality(Holders(f)) + Cardinality(T) - Cardinality({})
    BY <1>3, <1>4, <1>7, HoldersFinite, FS_Union
  <1>10. Cardinality({}) = 0
    BY FS_EmptySet
  <1>11. Cardinality(Holders(f)') = Cardinality(Holders(f)) + Cardinality(S)
    BY <1>7, <1>8, <1>9, <1>10, HoldersFinite
  <1> QED BY <1>11 DEF S

\* A file that no descriptor holds.
LEMMA Unheld ==
  ASSUME RefInv, HandInv, NEW f \in FreeFiles
  PROVE  f \in Files /\ Holders(f) = {} /\ file[f].type # "pipe" /\ ~InHand(f)
         /\ Cardinality(Holders(f)) = 0
  <1>1. f \in Files /\ file[f].ref = 0 /\ ~InHand(f)
    BY DEF FreeFiles, HandInv
  <1>2. Cardinality(Holders(f)) = 0 /\ file[f].type # "pipe"
    BY <1>1 DEF RefInv
  <1> QED BY <1>1, <1>2, HoldersFinite, FS_EmptySet

LEMMA HeldIs ==
  ASSUME HandInv, NEW p \in Procs, NEW n \in Fds, NEW f \in Files, ofile[p][n] = f
  PROVE  ~InHand(f)
  <1>1. <<p, n>> \in Holders(f)
    BY DEF Holders
  <1> QED BY <1>1 DEF HandInv

\* The steps that leave descriptors, files and the ends of pipes alone.
Refs == RefInv /\ OneEnd /\ EndsOpen /\ Users
Quiet == taken' = taken
Gone == {"unused", "zombie"}

LEMMA UsersKeep ==
  ASSUME Users, UNCHANGED <<ofile, file>>,
         \A r \in Procs, w \in BOOLEAN : Using(r, w)' =>
           \/ Using(r, w) /\ io'[r].pipe = io[r].pipe
           \/ \E n \in Fds : ofile[r][n] # None /\ IsEnd(ofile[r][n], io'[r].pipe, w)
  PROVE  Users'
  <1> SUFFICES ASSUME NEW r \in Procs, NEW w \in BOOLEAN, Using(r, w)'
               PROVE  \E n \in Fds : /\ ofile[r][n] # None
                                     /\ IsEnd(ofile[r][n], io'[r].pipe, w)
      BY DEF Users, IsEnd
  <1> QED BY DEF Users

LEMMA EndsIs ==
  \A x \in Pipes, w \in BOOLEAN :
    /\ Ends(x, w) <=> (\E f \in Files : IsEnd(f, x, w)) \/ (\E r \in Procs : Closes(r, x, w))
    /\ Ends(x, w)' <=>
         (\E f \in Files : IsEnd(f, x, w)') \/ (\E r \in Procs : Closes(r, x, w)')
  BY DEF Ends, IsEnd, Closes

LEMMA FlagsKeep ==
  ASSUME EndsOpen,
         \A x \in Pipes : /\ pipe'[x].used = pipe[x].used
                          /\ pipe'[x].readopen = pipe[x].readopen
                          /\ pipe'[x].writeopen = pipe[x].writeopen,
         \A x \in Pipes, w \in BOOLEAN : Ends(x, w)' <=> Ends(x, w)
  PROVE  EndsOpen'
  <1> SUFFICES ASSUME NEW x \in Pipes
               PROVE  /\ pipe'[x].writeopen = Ends(x, TRUE)'
                      /\ pipe'[x].readopen = Ends(x, FALSE)'
                      /\ pipe'[x].used = (pipe'[x].writeopen \/ pipe'[x].readopen)
      BY DEF EndsOpen
  <1>1. (Ends(x, TRUE)' <=> Ends(x, TRUE)) /\ (Ends(x, FALSE)' <=> Ends(x, FALSE))
    OBVIOUS
  <1>2. Ends(x, TRUE)' = Ends(x, TRUE) /\ Ends(x, FALSE)' = Ends(x, FALSE)
    BY <1>1 DEF Ends
  <1>3. /\ pipe[x].writeopen = Ends(x, TRUE) /\ pipe[x].readopen = Ends(x, FALSE)
        /\ pipe[x].used = (pipe[x].writeopen \/ pipe[x].readopen)
    BY DEF EndsOpen
  <1>4. /\ pipe'[x].used = pipe[x].used
        /\ pipe'[x].readopen = pipe[x].readopen
        /\ pipe'[x].writeopen = pipe[x].writeopen
    OBVIOUS
  <1> QED BY <1>2, <1>3, <1>4

LEMMA EndsKeep ==
  ASSUME OneEnd, EndsOpen,
         \A x \in Pipes : /\ pipe'[x].used = pipe[x].used
                          /\ pipe'[x].readopen = pipe[x].readopen
                          /\ pipe'[x].writeopen = pipe[x].writeopen,
         \A f \in Files : \A x \in Pipes, w \in BOOLEAN : IsEnd(f, x, w)' <=> IsEnd(f, x, w),
         \A r \in Procs : \A x \in Pipes, w \in BOOLEAN : Closes(r, x, w)' <=> Closes(r, x, w)
  PROVE  OneEnd' /\ EndsOpen'
  <1>1. OneEnd'
    BY DEF OneEnd
  <1>2. \A x \in Pipes, w \in BOOLEAN : Ends(x, w)' <=> Ends(x, w)
    BY EndsIs
  <1> QED BY <1>1, <1>2, FlagsKeep

LEMMA RefsKeep ==
  ASSUME TypeInv, Refs, Quiet, UNCHANGED <<ofile, file>>,
         \A x \in Pipes : /\ pipe'[x].used = pipe[x].used
                          /\ pipe'[x].readopen = pipe[x].readopen
                          /\ pipe'[x].writeopen = pipe[x].writeopen,
         \A r \in Procs : pc'[r] \in Gone =>
           pc[r] \in Gone \/ \A n \in Fds : ofile[r][n] = None,
         \A r \in Procs : pc'[r] = "pipeclose" <=> pc[r] = "pipeclose",
         \A r \in Procs : pc[r] = "pipeclose" => io'[r] = io[r],
         \A r \in Procs, w \in BOOLEAN : Using(r, w)' =>
           \/ Using(r, w) /\ io'[r].pipe = io[r].pipe
           \/ \E n \in Fds : ofile[r][n] # None /\ IsEnd(ofile[r][n], io'[r].pipe, w)
  PROVE  Refs'
  <1>1. Users'
    BY UsersKeep DEF Refs
  <1>2. RefInv'
    BY DEF Refs, RefInv, Holders, Gone, Quiet, InHand
  <1>3. \A r \in Procs : \A x \in Pipes, w \in BOOLEAN : Closes(r, x, w)' <=> Closes(r, x, w)
    BY DEF Closes
  <1>4. \A f \in Files : \A x \in Pipes, w \in BOOLEAN : IsEnd(f, x, w)' <=> IsEnd(f, x, w)
    BY DEF IsEnd
  <1>5. OneEnd' /\ EndsOpen'
    BY <1>3, <1>4, EndsKeep DEF Refs
  <1> QED BY <1>1, <1>2, <1>5 DEF Refs

\* What a process reads or writes is the end of a pipe that it holds.
LEMMA BegunEnd ==
  ASSUME TypeInv, NEW p \in Procs, NEW n \in Fds, NEW s, NEW what \in {"read", "write"},
         Begun(p, n, s, what), pc'[p] = what, io'[p].kind = "pipe",
         what = "read" => Readable(p, n), what = "write" => Writable(p, n)
  PROVE  ofile[p][n] # None /\ IsEnd(ofile[p][n], io'[p].pipe, what = "write")
  <1>1. /\ ofile[p][n] \in Files /\ io'[p].kind = file[ofile[p][n]].type
        /\ io'[p].pipe = file[ofile[p][n]].pipe
    BY DEF Begun
  <1>2. file[ofile[p][n]] \in FileRec
    BY <1>1 DEF TypeInv, FilesOK
  <1>3. file[ofile[p][n]].writable \in BOOLEAN /\ ofile[p][n] # None
    BY <1>1, <1>2, Constants DEF FileRec
  <1>4. CASE what = "read"
    BY <1>1, <1>3, <1>4 DEF Readable, IsEnd
  <1>5. CASE what = "write"
    BY <1>1, <1>3, <1>5 DEF Writable, IsEnd
  <1> QED BY <1>4, <1>5

\* Only p moves, to a read or write it may make, or to neither.
LEMMA RefsMove ==
  ASSUME TypeInv, Refs, Quiet, NEW p \in Procs, UNCHANGED <<ofile, file, pipe>>,
         pc[p] # "pipeclose", pc'[p] \notin Gone \cup {"pipeclose"},
         \A r \in Procs : r # p => pc'[r] = pc[r] /\ io'[r] = io[r],
         \A w \in BOOLEAN : Using(p, w)' =>
           \/ Using(p, w) /\ io'[p].pipe = io[p].pipe
           \/ \E n \in Fds : ofile[p][n] # None /\ IsEnd(ofile[p][n], io'[p].pipe, w)
  PROVE  Refs'
  <1>1. \A r \in Procs, w \in BOOLEAN : Using(r, w)' =>
           \/ Using(r, w) /\ io'[r].pipe = io[r].pipe
           \/ \E n \in Fds : ofile[r][n] # None /\ IsEnd(ofile[r][n], io'[r].pipe, w)
    <2> SUFFICES ASSUME NEW r \in Procs, NEW w \in BOOLEAN, Using(r, w)', r # p
                 PROVE  Using(r, w) /\ io'[r].pipe = io[r].pipe
        OBVIOUS
    <2> QED BY DEF Using
  <1> QED BY <1>1, RefsKeep

LEMMA RefsEcho == ASSUME TypeInv, Refs, Quiet, NEW p \in Procs, Echo(p) PROVE Refs'
  <1>1. /\ pc[p] = "user" /\ pc'[p] \in {"write", "failed"}
        /\ \A r \in Procs : r # p => pc'[r] = pc[r] /\ io'[r] = io[r]
        /\ UNCHANGED <<ofile, file, pipe>>
    BY EchoParts
  <1>2. ASSUME NEW w \in BOOLEAN, Using(p, w)'
        PROVE  \E n \in Fds : ofile[p][n] # None /\ IsEnd(ofile[p][n], io'[p].pipe, w)
    <2>1. pc'[p] = "write" /\ w = TRUE /\ io'[p].kind = "pipe"
      BY <1>1, <1>2 DEF Using
    <2>2. PICK s \in Seq(Byte) : Begun(p, 1, s, "write")
      BY EchoParts
    <2> QED BY <2>1, <2>2, EchoParts, BegunEnd, Constants
  <1> QED BY <1>1, <1>2, RefsMove DEF Gone

LEMMA RefsCatRead == ASSUME TypeInv, Refs, Quiet, NEW p \in Procs, CatRead(p) PROVE Refs'
  <1>1. /\ pc[p] = "user" /\ pc'[p] \in {"read", "failed"} /\ Begun(p, 0, <<>>, "read")
        /\ \A r \in Procs : r # p => pc'[r] = pc[r] /\ io'[r] = io[r]
        /\ UNCHANGED <<ofile, file, pipe>>
    BY CatReadParts
  <1>2. ASSUME NEW w \in BOOLEAN, Using(p, w)'
        PROVE  \E n \in Fds : ofile[p][n] # None /\ IsEnd(ofile[p][n], io'[p].pipe, w)
    <2>1. pc'[p] = "read" /\ w = FALSE /\ io'[p].kind = "pipe"
      BY <1>1, <1>2 DEF Using
    <2> QED BY <1>1, <2>1, CatReadParts, BegunEnd, Constants
  <1> QED BY <1>1, <1>2, RefsMove DEF Gone

LEMMA RefsCatGot == ASSUME TypeInv, Refs, Quiet, NEW p \in Procs, CatGot(p) PROVE Refs'
  <1>1. /\ pc[p] = "got" /\ pc'[p] \in {"user", "write", "failed"}
        /\ \A r \in Procs : r # p => pc'[r] = pc[r] /\ io'[r] = io[r]
        /\ UNCHANGED <<ofile, file, pipe>>
    BY CatGotParts
  <1>2. ASSUME NEW w \in BOOLEAN, Using(p, w)'
        PROVE  \E n \in Fds : ofile[p][n] # None /\ IsEnd(ofile[p][n], io'[p].pipe, w)
    <2>1. pc'[p] = "write" /\ w = TRUE /\ io'[p].kind = "pipe"
      BY <1>1, <1>2 DEF Using
    <2>2. PICK s \in Seq(Byte) : Begun(p, 1, s, "write")
      BY <2>1, CatGotParts
    <2> QED BY <2>1, <2>2, CatGotParts, BegunEnd, Constants
  <1> QED BY <1>1, <1>2, RefsMove DEF Gone

LEMMA RefsReturn == ASSUME TypeInv, Refs, Quiet, NEW p \in Procs, Return(p) PROVE Refs'
  BY ReturnParts, RefsMove DEF Gone, Using

LEMMA RefsConsoleWrite == ASSUME TypeInv, Refs, Quiet, NEW p \in Procs, ConsoleWrite(p) PROVE Refs'
  <1>1. pc[p] = "write"
    BY DEF ConsoleWrite
  <1> QED BY <1>1, ConsoleWriteParts, RefsMove DEF Gone, Using

LEMMA RefsConsoleRead ==
  ASSUME TypeInv, Bounds, Refs, Quiet, NEW p \in Procs, ConsoleRead(p, CatBuf) PROVE Refs'
  <1>1. /\ pc'[p] \in {"got", "failed", "readsleep"} /\ io'[p].kind = "console"
        /\ \A x \in Procs : x # p => pc'[x] = pc[x] /\ io'[x] = io[x]
        /\ UNCHANGED <<ofile, file, pipe>>
    BY Reading, ConsoleReadParts
  <1>2. pc[p] = "read"
    BY DEF ConsoleRead
  <1> QED BY <1>1, <1>2, RefsMove DEF Gone, Using

LEMMA RefsPipeReadSleep == ASSUME TypeInv, Refs, Quiet, NEW p \in Procs, PipeReadSleep(p) PROVE Refs'
  <1>1. PICK w \in {"failed", "readsleep"} : Goto(p, w)
    BY DEF PipeReadSleep
  <1>2. w \in Places
    BY DEF Places, Blocked
  <1>3. pc'[p] = w /\ \A r \in Procs : r # p => pc'[r] = pc[r]
    BY <1>1, <1>2, GotoPlaces
  <1>4. io' = io /\ UNCHANGED <<ofile, file, pipe>> /\ pc[p] = "read"
    BY DEF PipeReadSleep
  <1> QED BY <1>3, <1>4, RefsMove DEF Gone, Using

LEMMA RefsPipeReadSome ==
  ASSUME TypeInv, Refs, Quiet, NEW p \in Procs, PipeReadSome(p, CatBuf) PROVE Refs'
  <1>1. CatBuf \in Nat /\ pc[p] = "read"
    BY Constants DEF PipeReadSome
  <1>2. /\ UNCHANGED <<ofile, file>> /\ pc'[p] = "got"
        /\ \A r \in Procs : r # p => io'[r] = io[r]
        /\ \A r \in Procs : r # p =>
             pc'[r] = pc[r] \/ (pc[r] = "writesleep" /\ pc'[r] = "write")
    BY <1>1, PipeReadParts
  <1>3. \A x \in Pipes : /\ pipe'[x].used = pipe[x].used
                         /\ pipe'[x].readopen = pipe[x].readopen
                         /\ pipe'[x].writeopen = pipe[x].writeopen
    BY <1>1, PipeReadParts
  <1>4. \A r \in Procs, w \in BOOLEAN : Using(r, w)' => Using(r, w) /\ io'[r].pipe = io[r].pipe
    BY <1>1, <1>2 DEF Using
  <1> QED BY <1>1, <1>2, <1>3, <1>4, RefsKeep DEF Gone

LEMMA RefsPipeWriteSome ==
  ASSUME TypeInv, Bounds, Refs, Quiet, NEW p \in Procs, PipeWriteSome(p) PROVE Refs'
  <1>1. PICK q : q = io[p].pipe
    OBVIOUS
  <1>2. PICK s : s = SubSeq(io[p].bytes, 1, Smaller(Room(q), Len(io[p].bytes)))
    OBVIOUS
  <1>3. /\ q \in Pipes /\ s \in Seq(Byte) /\ Put(q, s)
        /\ io'[p].pipe = io[p].pipe /\ UNCHANGED <<ofile, file>>
        /\ \A r \in Procs : r # p => io'[r] = io[r]
    BY <1>1, <1>2, PipeWriteParts
  <1>4. /\ pc'[p] \in {"failed", "user", "writesleep"}
        /\ \A r \in Procs : r # p =>
             pc'[r] = pc[r] \/ (pc[r] = "readsleep" /\ pc'[r] = "read")
    BY PipeWriteParts
  <1>5. pc[p] = "write" /\ io[p].kind = "pipe"
    BY DEF PipeWriteSome
  <1>6. \A x \in Pipes : /\ pipe'[x].used = pipe[x].used
                         /\ pipe'[x].readopen = pipe[x].readopen
                         /\ pipe'[x].writeopen = pipe[x].writeopen
    BY <1>3, PutPipe
  <1>7. \A r \in Procs, w \in BOOLEAN : Using(r, w)' => Using(r, w) /\ io'[r].pipe = io[r].pipe
    BY <1>3, <1>4, <1>5 DEF Using
  <1> QED BY <1>3, <1>4, <1>5, <1>6, <1>7, RefsKeep DEF Gone

LEMMA RefsTransfer == ASSUME TypeInv, Bounds, Refs, Quiet, NEW p \in Procs, Transfer(p) PROVE Refs'
  BY RefsPipeReadSleep, RefsPipeReadSome, RefsConsoleRead, RefsPipeWriteSome,
     RefsConsoleWrite DEF Transfer

LEMMA RefsExit == ASSUME TypeInv, Refs, Quiet, NEW p \in Procs, Exit(p) PROVE Refs'
  <1>1. /\ pc[p] = "user" /\ pc'[p] = "zombie" /\ \A n \in Fds : ofile[p][n] = None
        /\ \A r \in Procs : r # p =>
             pc'[r] = pc[r] \/ (pc[r] = "waitsleep" /\ pc'[r] = "wait")
        /\ UNCHANGED <<ofile, file, pipe, io>>
    BY ExitMoves
  <1>2. \A r \in Procs, w \in BOOLEAN : Using(r, w)' => Using(r, w) /\ io'[r].pipe = io[r].pipe
    BY <1>1 DEF Using
  <1> QED BY <1>1, <1>2, RefsKeep DEF Gone

LEMMA RefsWait == ASSUME TypeInv, Refs, Quiet, NEW p \in Procs, Wait(p) PROVE Refs'
  <1>1. \A r \in Procs, w \in BOOLEAN : Using(r, w)' => Using(r, w) /\ io'[r].pipe = io[r].pipe
    BY WaitMoves DEF Using
  <1> QED BY <1>1, WaitMoves, RefsKeep DEF Gone

LEMMA RefsInitReaps == ASSUME TypeInv, Refs, Quiet, NEW p \in Procs, InitReaps(p) PROVE Refs'
  <1>1. \A r \in Procs, w \in BOOLEAN : Using(r, w)' => Using(r, w) /\ io'[r].pipe = io[r].pipe
    BY InitReapsMoves DEF Using
  <1> QED BY <1>1, InitReapsMoves, RefsKeep DEF Gone

LEMMA RefsKillOne == ASSUME TypeInv, Refs, Quiet, NEW p \in Procs, KillOne(p) PROVE Refs'
  <1>1. \A r \in Procs, w \in BOOLEAN : Using(r, w)' => Using(r, w) /\ io'[r].pipe = io[r].pipe
    BY Rouses DEF Using
  <1>2. \A r \in Procs : /\ pc'[r] \in Gone => pc[r] \in Gone
                         /\ pc'[r] = "pipeclose" <=> pc[r] = "pipeclose"
    BY Rouses DEF Gone
  <1> QED BY <1>1, <1>2, Rouses, RefsKeep

LEMMA RefsType == ASSUME TypeInv, Bounds, Refs, Quiet, Type PROVE Refs'
  <1>1. PICK c \in Byte : ConsoleIntr(c)
    BY TypeKeys
  <1>2. UNCHANGED <<ofile, file, pipe, io>>
    BY <1>1, KeyDoes
  <1>3. \A r \in Procs : pc'[r] = pc[r] \/ (pc[r] = "readsleep" /\ pc'[r] = "read")
    <2>1. CASE Stored
      BY <2>1, WakeReadersIs DEF Stored
    <2>2. CASE pc' = pc
      BY <2>2
    <2> QED BY <1>1, <2>1, <2>2, KeyDoes DEF Erases
  <1>4. \A r \in Procs, w \in BOOLEAN : Using(r, w)' => Using(r, w) /\ io'[r].pipe = io[r].pipe
    BY <1>2, <1>3 DEF Using
  <1> QED BY <1>2, <1>3, <1>4, RefsKeep DEF Gone

\* What fileclose does to the file and to the process.
LEMMA FileCloseParts ==
  ASSUME TypeInv, NEW p \in Procs, NEW f \in Files, NEW next \in {"user", "unpipe"},
         FileClose(p, f, next)
  PROVE  /\ \A g \in Files : g # f => file'[g] = file[g]
         /\ file'[f].ref = file[f].ref - 1
         /\ file[f].ref = 1 => file'[f].type # "pipe"
         /\ file[f].ref # 1 => /\ file'[f].type = file[f].type
                               /\ file'[f].pipe = file[f].pipe
                               /\ file'[f].writable = file[f].writable
         /\ IF file[f].ref = 1 /\ file[f].type = "pipe"
            THEN /\ pc'[p] = "pipeclose" /\ io'[p].pipe = file[f].pipe
                 /\ io'[p].writable = file[f].writable
            ELSE pc'[p] = next /\ io' = io
         /\ \A r \in Procs : r # p => pc'[r] = pc[r] /\ io'[r] = io[r]
  <1>1. file \in [Files -> FileRec] /\ file[f].ref \in Int
    BY DEF TypeInv, FilesOK, FileRec
  <1>3. /\ \A g \in Files : g # f => file'[g] = file[g]
        /\ file'[f].ref = file[f].ref - 1
        /\ file[f].ref = 1 => file'[f].type # "pipe"
        /\ file[f].ref # 1 => /\ file'[f].type = file[f].type
                              /\ file'[f].pipe = file[f].pipe
                              /\ file'[f].writable = file[f].writable
    <2>1. CASE file[f].ref = 1
      <3>1. file' = [file EXCEPT ![f] = Closed]
        BY <2>1 DEF FileClose
      <3> QED BY <1>1, <2>1, <3>1 DEF Closed
    <2>2. CASE file[f].ref # 1
      <3>1. file' = [file EXCEPT ![f].ref = @ - 1]
        BY <2>2 DEF FileClose
      <3> QED BY <1>1, <2>2, <3>1 DEF FileRec
    <2> QED BY <2>1, <2>2
  <1>4. CASE file[f].ref = 1 /\ file[f].type = "pipe"
    <2>1. Goto(p, "pipeclose") /\ "pipeclose" \in Places
      BY <1>4 DEF FileClose, Places
    <2>2. io' = [io EXCEPT ![p] = [Idle EXCEPT !.pipe = file[f].pipe, !.writable = file[f].writable]]
      BY <1>4 DEF FileClose
    <2>3. PICK g : g = [Idle EXCEPT !.pipe = file[f].pipe, !.writable = file[f].writable]
      OBVIOUS
    <2>4. g.pipe = file[f].pipe /\ g.writable = file[f].writable
      BY <2>3 DEF Idle
    <2>5. io' = [io EXCEPT ![p] = g]
      BY <2>2, <2>3
    <2>6. io'[p] = g /\ \A r \in Procs : r # p => io'[r] = io[r]
      BY <2>5 DEF TypeInv, IoOK
    <2>7. pc'[p] = "pipeclose" /\ \A r \in Procs : r # p => pc'[r] = pc[r]
      BY <2>1, GotoPlaces
    <2> QED BY <1>3, <1>4, <2>4, <2>6, <2>7
  <1>5. CASE ~(file[f].ref = 1 /\ file[f].type = "pipe")
    <2>1. Goto(p, next) /\ io' = io /\ next \in Places
      BY <1>5 DEF FileClose, Places, Making
    <2> QED BY <1>3, <1>5, <2>1, GotoPlaces
  <1> QED BY <1>4, <1>5

LEMMA CloseEnds ==
  ASSUME TypeInv, Refs, NEW p \in Procs, NEW f \in Files, NEW next \in {"user", "unpipe"},
         pc[p] # "pipeclose", FileClose(p, f, next), UNCHANGED pipe
  PROVE  OneEnd' /\ EndsOpen'
  <1>2. /\ \A g \in Files : g # f => file'[g] = file[g]
        /\ file[f].ref = 1 => file'[f].type # "pipe"
        /\ file[f].ref # 1 => /\ file'[f].type = file[f].type
                              /\ file'[f].pipe = file[f].pipe
                              /\ file'[f].writable = file[f].writable
        /\ \A r \in Procs : r # p => pc'[r] = pc[r] /\ io'[r] = io[r]
    BY FileCloseParts
  <1>3. IF file[f].ref = 1 /\ file[f].type = "pipe"
        THEN /\ pc'[p] = "pipeclose" /\ io'[p].pipe = file[f].pipe
             /\ io'[p].writable = file[f].writable
        ELSE pc'[p] \in {"user", "unpipe"} /\ io' = io
    BY FileCloseParts
  <1>9. CASE file[f].ref = 1 /\ file[f].type = "pipe"
    <2>1. PICK q \in Pipes : q = file[f].pipe
      BY <1>9 DEF TypeInv, FilesOK
    <2>2. PICK v \in BOOLEAN : v = file[f].writable
      BY DEF TypeInv, FilesOK, FileRec
    <2>3. \A g \in Files : \A x \in Pipes, w \in BOOLEAN :
            IsEnd(g, x, w)' <=> g # f /\ IsEnd(g, x, w)
      BY <1>2, <1>9 DEF IsEnd
    <2>4. \A r \in Procs : \A x \in Pipes, w \in BOOLEAN :
            Closes(r, x, w)' <=> Closes(r, x, w) \/ (r = p /\ x = q /\ w = v)
      BY <1>2, <1>3, <1>9, <2>1, <2>2 DEF Closes
    <2>5. \A x \in Pipes, w \in BOOLEAN : IsEnd(f, x, w) <=> x = q /\ w = v
      BY <1>9, <2>1, <2>2 DEF IsEnd
    <2>6. OneEnd
      BY DEF Refs
    <2>7. /\ \A g \in Files : IsEnd(g, q, v) => g = f
          /\ \A r \in Procs : ~Closes(r, q, v)
      BY <2>5, <2>6 DEF OneEnd
    <2>8. OneEnd'
      BY <2>3, <2>4, <2>6, <2>7 DEF OneEnd
    <2>9. \A x \in Pipes, w \in BOOLEAN : Ends(x, w)' <=> Ends(x, w)
      <3> SUFFICES ASSUME NEW x \in Pipes, NEW w \in BOOLEAN PROVE Ends(x, w)' <=> Ends(x, w)
          OBVIOUS
      <3>1. CASE x = q /\ w = v
        <4>1. Closes(p, x, w)' /\ IsEnd(f, x, w)
          BY <2>4, <2>5, <3>1
        <4> QED BY <4>1, EndsIs
      <3>2. CASE ~(x = q /\ w = v)
        <4>1. \A g \in Files : IsEnd(g, x, w)' <=> IsEnd(g, x, w)
          BY <2>3, <2>5, <3>2
        <4>2. \A r \in Procs : Closes(r, x, w)' <=> Closes(r, x, w)
          BY <2>4, <3>2
        <4> QED BY <4>1, <4>2, EndsIs
      <3> QED BY <3>1, <3>2
    <2>10. EndsOpen'
      BY <2>9, FlagsKeep DEF Refs
    <2> QED BY <2>8, <2>10
  <1>10. CASE ~(file[f].ref = 1 /\ file[f].type = "pipe")
    <2>1. \A g \in Files : \A x \in Pipes, w \in BOOLEAN : IsEnd(g, x, w)' <=> IsEnd(g, x, w)
      BY <1>2, <1>10 DEF IsEnd
    <2>2. \A r \in Procs : \A x \in Pipes, w \in BOOLEAN : Closes(r, x, w)' <=> Closes(r, x, w)
      BY <1>2, <1>3, <1>10 DEF Closes
    <2>3. OneEnd' /\ EndsOpen'
      BY <2>1, <2>2, EndsKeep DEF Refs
    <2> QED BY <2>3
  <1> QED BY <1>9, <1>10

LEMMA RefsClose ==
  ASSUME TypeInv, Refs, HandInv, Quiet, NEW p \in Procs, NEW n \in Fds, ofile[p][n] # None,
         pc[p] = "user", Close(p, n, "user"), UNCHANGED pipe
  PROVE  Refs'
  <1>1. PICK f \in Files : f = ofile[p][n]
    BY DEF TypeInv, FilesOK
  <1>11. FileClose(p, f, "user") /\ ofile' = [ofile EXCEPT ![p][n] = None]
    BY <1>1 DEF Close
  <1>12. ~InHand(f)
    BY <1>1, HeldIs
  <1>2. /\ ofile' = [ofile EXCEPT ![p][n] = None]
        /\ \A g \in Files : g # f => file'[g] = file[g]
        /\ file'[f].ref = file[f].ref - 1
        /\ file[f].ref = 1 => file'[f].type # "pipe"
        /\ file[f].ref # 1 => /\ file'[f].type = file[f].type
                              /\ file'[f].pipe = file[f].pipe
                              /\ file'[f].writable = file[f].writable
        /\ \A r \in Procs : r # p => pc'[r] = pc[r] /\ io'[r] = io[r]
    BY <1>11, FileCloseParts
  <1>3. IF file[f].ref = 1 /\ file[f].type = "pipe"
        THEN /\ pc'[p] = "pipeclose" /\ io'[p].pipe = file[f].pipe
             /\ io'[p].writable = file[f].writable
        ELSE pc'[p] = "user" /\ io' = io
    BY <1>11, FileCloseParts
  <1>4. /\ Cardinality(Holders(f)') = Cardinality(Holders(f)) - 1
        /\ \A g \in Files : g # f => Holders(g)' = Holders(g)
        /\ Cardinality(Holders(f)) = 1 => Holders(f) = {<<p, n>>}
    BY <1>1, <1>2, CloseOne
  <1>5. \A r \in Procs, m \in Fds : ofile'[r][m] = IF r = p /\ m = n THEN None ELSE ofile[r][m]
    BY <1>2 DEF TypeInv, FilesOK
  <1>6. \A g \in Files : /\ ~InHand(g) => file[g].ref = Cardinality(Holders(g))
                         /\ file[g].ref \in Int
    BY DEF Refs, RefInv, TypeInv, FilesOK, FileRec
  <1>7. RefInv'
    <2>1. \A g \in Files : ~InHand(g)' => file'[g].ref = Cardinality(Holders(g)')
      <3>1. \A g \in Files : InHand(g)' <=> InHand(g)
        BY DEF Quiet, InHand
      <3> QED BY <1>2, <1>4, <1>6, <1>12, <3>1
    <2>2. \A g \in Files : file'[g].ref = 0 => file'[g].type # "pipe"
      BY <1>2, <1>6 DEF Refs, RefInv
    <2>3. ASSUME NEW r \in Procs, pc'[r] \in {"unused", "zombie"}, NEW m \in Fds
          PROVE  ofile'[r][m] = None
      <3>1. r # p
        BY <1>3, <2>3
      <3> QED BY <1>2, <1>5, <2>3, <3>1 DEF Refs, RefInv
    <2> QED BY <2>1, <2>2, <2>3 DEF RefInv
  <1>8. Users'
    <2> SUFFICES ASSUME NEW r \in Procs, NEW w \in BOOLEAN, Using(r, w)'
                 PROVE  \E m \in Fds : (/\ ofile[r][m] # None
                                       /\ IsEnd(ofile[r][m], io[r].pipe, w))'
        BY DEF Users
    <2>1. r # p
      BY <1>3 DEF Using
    <2>2. Using(r, w) /\ io'[r] = io[r]
      BY <1>2, <2>1 DEF Using
    <2>3. PICK m \in Fds : ofile[r][m] # None /\ IsEnd(ofile[r][m], io[r].pipe, w)
      BY <2>2 DEF Refs, Users
    <2>4. PICK g \in Files : g = ofile[r][m]
      BY <2>3 DEF TypeInv, FilesOK
    <2>5. ofile'[r][m] = g
      BY <1>5, <2>1, <2>4
    <2>6. g = f => file[f].ref # 1
      <3> SUFFICES ASSUME g = f, file[f].ref = 1 PROVE FALSE
          OBVIOUS
      <3>1. <<r, m>> \in Holders(f)
        BY <2>4 DEF Holders
      <3>2. Holders(f) = {<<p, n>>}
        BY <1>4, <1>6, <1>12
      <3> QED BY <2>1, <3>1, <3>2
    <2>7. /\ file'[g].type = file[g].type /\ file'[g].pipe = file[g].pipe
          /\ file'[g].writable = file[g].writable
      BY <1>2, <2>6
    <2>8. IsEnd(g, io[r].pipe, w)
      BY <2>3, <2>4
    <2>9. g # None /\ io'[r].pipe = io[r].pipe
      BY <2>2, <2>3, <2>4
    <2>10. (ofile[r][m] # None /\ IsEnd(ofile[r][m], io[r].pipe, w))'
      BY <2>5, <2>7, <2>8, <2>9 DEF IsEnd
    <2> QED BY <2>10
  <1>9. OneEnd' /\ EndsOpen'
    BY <1>1, <1>11, CloseEnds
  <1> QED BY <1>7, <1>8, <1>9 DEF Refs

LEMMA RefsCloseCall == ASSUME TypeInv, Refs, HandInv, Quiet, NEW p \in Procs, CloseCall(p) PROVE Refs'
  <1> DEFINE n == env[p][Head(todo[p]).fd]
  <1>1. About(p, "close") /\ UNCHANGED pipe
    BY DEF CloseCall
  <1>2. pc[p] = "user" /\ n \in Fds
    BY <1>1, AboutCall, AboutDescriptor
  <1>3. IF ofile[p][n] # None THEN Close(p, n, "user") ELSE UNCHANGED <<ofile, file, pc, io>>
    BY DEF CloseCall
  <1> HIDE DEF n
  <1>4. CASE ofile[p][n] # None
    BY <1>1, <1>2, <1>3, <1>4, RefsClose
  <1>5. CASE ofile[p][n] = None
    <2>1. UNCHANGED <<ofile, file, pc, io, pipe>>
      BY <1>1, <1>3, <1>5
    <2> QED BY <2>1, RefsKeep DEF Using
  <1> QED BY <1>4, <1>5

LEMMA RefsExitClose == ASSUME TypeInv, Refs, HandInv, Quiet, NEW p \in Procs, ExitClose(p) PROVE Refs'
  <1>1. PICK n : n = Least({m \in Fds : ofile[p][m] # None})
    OBVIOUS
  <1>2. n \in Fds /\ ofile[p][n] # None
    BY <1>1, NextOpen DEF ExitClose
  <1>3. pc[p] = "user" /\ Close(p, n, "user") /\ UNCHANGED pipe
    BY <1>1 DEF ExitClose, About
  <1> QED BY <1>2, <1>3, RefsClose

\* More descriptors for the files there are: dup and fork.
LEMMA RefsMore ==
  ASSUME TypeInv, Refs, HandInv, Quiet, UNCHANGED <<pipe, io>>,
         \A f \in Files : /\ file'[f].type = file[f].type /\ file'[f].pipe = file[f].pipe
                          /\ file'[f].writable = file[f].writable
                          /\ ~InHand(f) => file'[f].ref = Cardinality(Holders(f)')
                          /\ file'[f].ref >= file[f].ref,
         \A r \in Procs : /\ pc'[r] \in Gone => pc[r] \in Gone /\ ofile'[r] = ofile[r]
                          /\ pc'[r] = "pipeclose" <=> pc[r] = "pipeclose"
                          /\ \A w \in BOOLEAN : Using(r, w)' => Using(r, w)
                          /\ \A n \in Fds : ofile[r][n] # None => ofile'[r][n] = ofile[r][n]
  PROVE  Refs'
  <1>1. RefInv'
    <2>1. \A f \in Files : file'[f].ref = 0 => file'[f].type # "pipe"
      <3> SUFFICES ASSUME NEW f \in Files, file'[f].ref = 0 PROVE file'[f].type # "pipe"
          OBVIOUS
      <3>1. /\ file[f].ref = 1 \/ file[f].ref = Cardinality(Holders(f))
            /\ file'[f].ref >= file[f].ref
        BY DEF Refs, RefInv, HandInv
      <3>2. file[f].ref = 0
        BY <3>1, HoldersFinite
      <3> QED BY <3>2 DEF Refs, RefInv
    <2>2. \A f \in Files : InHand(f)' <=> InHand(f)
      BY DEF Quiet, InHand
    <2> QED BY <2>1, <2>2 DEF Refs, RefInv, Gone
  <1>2. \A f \in Files : \A x \in Pipes, w \in BOOLEAN : IsEnd(f, x, w)' <=> IsEnd(f, x, w)
    BY DEF IsEnd
  <1>3. \A r \in Procs : \A x \in Pipes, w \in BOOLEAN : Closes(r, x, w)' <=> Closes(r, x, w)
    BY DEF Closes
  <1>4. OneEnd' /\ EndsOpen'
    BY <1>2, <1>3, EndsKeep DEF Refs
  <1>5. Users'
    <2> SUFFICES ASSUME NEW r \in Procs, NEW w \in BOOLEAN, Using(r, w)'
                 PROVE  \E n \in Fds : (/\ ofile[r][n] # None
                                       /\ IsEnd(ofile[r][n], io[r].pipe, w))'
        BY DEF Users
    <2>1. PICK n \in Fds : ofile[r][n] # None /\ IsEnd(ofile[r][n], io[r].pipe, w)
      BY DEF Refs, Users
    <2>2. ofile'[r][n] = ofile[r][n] /\ ofile[r][n] \in Files
      BY <2>1 DEF TypeInv, FilesOK
    <2>3. (ofile[r][n] # None /\ IsEnd(ofile[r][n], io[r].pipe, w))'
      BY <2>1, <2>2 DEF IsEnd
    <2> QED BY <2>3
  <1> QED BY <1>1, <1>4, <1>5 DEF Refs

LEMMA RefsDupCall == ASSUME TypeInv, Refs, HandInv, Quiet, NEW p \in Procs, DupCall(p) PROVE Refs'
  <1> DEFINE n == env[p][Head(todo[p]).fd]
  <1>1. About(p, "dup") /\ Dup(p, n) /\ UNCHANGED <<pipe, pc, io>>
    BY DEF DupCall
  <1>2. pc[p] = "user" /\ n \in Fds
    BY <1>1, AboutCall, AboutDescriptor
  <1> HIDE DEF n
  <1>3. CASE ofile[p][n] # None /\ FreeFds(p) # {}
    <2>1. PICK f \in Files : f = ofile[p][n]
      BY <1>2, <1>3 DEF TypeInv, FilesOK
    <2>2. FreeFds(p) \in SUBSET Nat
      BY Constants DEF FreeFds
    <2>3. PICK m \in Fds : m = Least(FreeFds(p)) /\ ofile[p][m] = None
      BY <1>3, <2>2, LeastIn DEF FreeFds
    <2>4. ofile' = [ofile EXCEPT ![p][m] = f] /\ file' = [file EXCEPT ![f].ref = @ + 1]
      BY <1>1, <1>3, <2>1, <2>3 DEF Dup
    <2>5. /\ Cardinality(Holders(f)') = Cardinality(Holders(f)) + 1
          /\ \A g \in Files : g # f => Holders(g)' = Holders(g)
      BY <2>3, <2>4, OpenOne
    <2>6. file \in [Files -> FileRec] /\ file[f].ref \in Int
      BY DEF TypeInv, FilesOK, FileRec
    <2>7. /\ \A g \in Files : g # f => file'[g] = file[g]
          /\ file'[f].type = file[f].type /\ file'[f].pipe = file[f].pipe
          /\ file'[f].writable = file[f].writable /\ file'[f].ref = file[f].ref + 1
      BY <2>4, <2>6 DEF FileRec
    <2>8. \A g \in Files : /\ ~InHand(g) => file[g].ref = Cardinality(Holders(g))
                           /\ file[g].ref \in Int
      BY <2>6 DEF Refs, RefInv, FileRec
    <2>15. ~InHand(f)
      BY <1>2, <2>1, HeldIs
    <2>9. \A g \in Files : /\ file'[g].type = file[g].type /\ file'[g].pipe = file[g].pipe
                           /\ file'[g].writable = file[g].writable
                           /\ ~InHand(g) => file'[g].ref = Cardinality(Holders(g)')
                           /\ file'[g].ref >= file[g].ref
      BY <2>5, <2>7, <2>8, <2>15
    <2>10. \A r \in Procs, k \in Fds :
             ofile'[r][k] = IF r = p /\ k = m THEN f ELSE ofile[r][k]
      BY <2>4 DEF TypeInv, FilesOK
    <2>11. \A r \in Procs : r # p => ofile'[r] = ofile[r]
      BY <2>4 DEF TypeInv, FilesOK
    <2>12. \A r \in Procs : pc'[r] \in Gone => pc[r] \in Gone /\ ofile'[r] = ofile[r]
      BY <1>1, <1>2, <2>11 DEF Gone
    <2>13. \A r \in Procs, w \in BOOLEAN : Using(r, w)' => Using(r, w)
      BY <1>1 DEF Using
    <2>14. \A r \in Procs, k \in Fds : ofile[r][k] # None => ofile'[r][k] = ofile[r][k]
      BY <2>3, <2>10
    <2> QED BY <1>1, <2>9, <2>12, <2>13, <2>14, RefsMore
  <1>4. CASE ~(ofile[p][n] # None /\ FreeFds(p) # {})
    <2>1. UNCHANGED <<ofile, file, pc, io, pipe>>
      BY <1>1, <1>4 DEF Dup
    <2> QED BY <2>1, RefsKeep DEF Using
  <1> QED BY <1>3, <1>4

\* What fork does to descriptors, files and processes.
LEMMA ForkParts ==
  ASSUME TypeInv, NEW p \in Procs, ForkCall(p)
  PROVE  /\ pc[p] = "user" /\ UNCHANGED <<pipe, input, io, unwoken>>
         /\ \/ UNCHANGED <<ofile, file, pc, parent>>
            \/ \E q \in Procs : /\ pc[q] = "unused" /\ Inherit(p, q)
                                /\ pc' = [pc EXCEPT ![q] = "user"]
                                /\ parent' = [parent EXCEPT ![q] = p]
  <1> DEFINE free == {r \in Procs : pc[r] = "unused"}
             q == CHOOSE r \in free : TRUE
  <1>1. pc[p] = "user" /\ UNCHANGED <<pipe, input, io, unwoken>>
    BY AboutCall DEF ForkCall
  <1>2. CASE free = {}
    BY <1>1, <1>2 DEF ForkCall
  <1>3. CASE free # {}
    <2>1. q \in Procs /\ pc[q] = "unused"
      BY <1>3
    <2>2. Inherit(p, q) /\ pc' = [pc EXCEPT ![q] = "user"] /\ parent' = [parent EXCEPT ![q] = p]
      BY <1>3 DEF ForkCall
    <2> QED BY <1>1, <2>1, <2>2
  <1> QED BY <1>2, <1>3

LEMMA RefsForkCall == ASSUME TypeInv, Refs, HandInv, Quiet, NEW p \in Procs, ForkCall(p) PROVE Refs'
  <1>1. pc[p] = "user" /\ UNCHANGED <<pipe, io>>
    BY ForkParts
  <1>2. CASE UNCHANGED <<ofile, file, pc, parent>>
    BY <1>1, <1>2, RefsKeep DEF Using
  <1>3. ASSUME NEW q \in Procs, pc[q] = "unused", Inherit(p, q), pc' = [pc EXCEPT ![q] = "user"]
        PROVE  Refs'
    <2>1. ofile' = [ofile EXCEPT ![q] = ofile[p]]
      BY <1>3 DEF Inherit
    <2>2. \A n \in Fds : ofile[q][n] = None
      BY <1>3 DEF Refs, RefInv
    <2>3. ASSUME NEW f \in Files
          PROVE  /\ file'[f].type = file[f].type /\ file'[f].pipe = file[f].pipe
                 /\ file'[f].writable = file[f].writable
                 /\ ~InHand(f) => file'[f].ref = Cardinality(Holders(f)')
                 /\ file'[f].ref >= file[f].ref
      <3> DEFINE c == Cardinality({n \in Fds : ofile[p][n] = f})
      <3>1. c \in Nat
        <4>1. IsFiniteSet({n \in Fds : ofile[p][n] = f})
          BY Constants, FS_Subset
        <4> QED BY <4>1, FS_CardinalityType
      <3>2. file'[f] = [file[f] EXCEPT !.ref = @ + c]
        BY <1>3 DEF Inherit
      <3>3. Cardinality(Holders(f)') = Cardinality(Holders(f)) + c
        BY <2>1, <2>2, InheritAll
      <3> HIDE DEF c
      <3>4. file[f] \in FileRec
        BY DEF TypeInv, FilesOK
      <3>5. /\ file'[f].type = file[f].type /\ file'[f].pipe = file[f].pipe
            /\ file'[f].writable = file[f].writable /\ file'[f].ref = file[f].ref + c
            /\ file[f].ref \in Int
        BY <3>2, <3>4 DEF FileRec
      <3>6. ~InHand(f) => file[f].ref = Cardinality(Holders(f))
        BY DEF Refs, RefInv
      <3> QED BY <3>1, <3>3, <3>5, <3>6
    <2>4. \A r \in Procs : r # q => ofile'[r] = ofile[r] /\ pc'[r] = pc[r]
      BY <1>3, <2>1 DEF TypeInv, FilesOK
    <2>5. pc'[q] = "user"
      BY <1>3 DEF TypeInv
    <2>6. \A r \in Procs : /\ pc'[r] \in Gone => pc[r] \in Gone /\ ofile'[r] = ofile[r]
                           /\ pc'[r] = "pipeclose" <=> pc[r] = "pipeclose"
      BY <1>3, <2>4, <2>5 DEF Gone
    <2>7. \A r \in Procs, w \in BOOLEAN : Using(r, w)' => Using(r, w)
      BY <1>1, <2>4, <2>5 DEF Using
    <2>8. \A r \in Procs, n \in Fds : ofile[r][n] # None => ofile'[r][n] = ofile[r][n]
      BY <2>2, <2>4
    <2> QED BY <1>1, <2>3, <2>6, <2>7, <2>8, RefsMore
  <1> QED BY <1>2, <1>3, ForkParts

\* What a call of pipe has in hand.
LEMMA InHands ==
  ASSUME HandsOK, HandInv, NEW p \in Procs, NEW e \in {"rf", "wf"}, taken[p][e] # None
  PROVE  /\ taken[p][e] \in Files /\ InHand(taken[p][e])
         /\ file[taken[p][e]].ref = 1 /\ Holders(taken[p][e]) = {}
  <1>1. taken[p] \in TakenRec
    BY DEF HandsOK
  <1>2. taken[p][e] \in Files /\ InHand(taken[p][e])
    BY <1>1 DEF TakenRec, InHand
  <1> QED BY <1>2 DEF HandInv

LEMMA TakeOne ==
  ASSUME HandsOK, NEW p \in Procs, NEW e \in {"rf", "wf"}, NEW f \in Files,
         taken' = [taken EXCEPT ![p][e] = f]
  PROVE  \A r \in Procs, d \in {"rf", "wf"} :
           taken'[r][d] = IF r = p /\ d = e THEN f ELSE taken[r][d]
  <1> SUFFICES ASSUME NEW r \in Procs, NEW d \in {"rf", "wf"}
               PROVE  taken'[r][d] = IF r = p /\ d = e THEN f ELSE taken[r][d]
      OBVIOUS
  <1>1. taken[p] \in TakenRec /\ taken \in [Procs -> TakenRec]
    BY DEF HandsOK
  <1>2. PICK t : t = [taken[p] EXCEPT ![e] = f]
    OBVIOUS
  <1>3. t[d] = IF d = e THEN f ELSE taken[p][d]
    BY <1>1, <1>2 DEF TakenRec
  <1>4. taken' = [taken EXCEPT ![p] = t]
    BY <1>2
  <1> QED BY <1>1, <1>3, <1>4

LEMMA AllocIs ==
  ASSUME TypeInv, HandsOK, Refs, HandInv, NEW p \in Procs, NEW e \in {"rf", "wf"},
         NEW f \in Files, Allocs(p, e, f), taken[p][e] = None
  PROVE  /\ file'[f].ref = 1 /\ Holders(f) = {} /\ file[f].type # "pipe" /\ ~InHand(f)
         /\ file'[f].type = file[f].type /\ file'[f].pipe = file[f].pipe
         /\ file'[f].writable = file[f].writable
         /\ \A g \in Files : g # f => file'[g] = file[g]
         /\ \A r \in Procs, d \in {"rf", "wf"} :
              taken'[r][d] = IF r = p /\ d = e THEN f ELSE taken[r][d]
         /\ \A g \in Files : InHand(g)' <=> InHand(g) \/ g = f
  <1>1. f \in FreeFiles /\ file' = [file EXCEPT ![f].ref = 1]
        /\ taken' = [taken EXCEPT ![p][e] = f]
    BY DEF Allocs
  <1>2. file[f] \in FileRec /\ file \in [Files -> FileRec]
    BY DEF TypeInv, FilesOK
  <1>3. PICK c : c = [file[f] EXCEPT !.ref = 1]
    OBVIOUS
  <1>4. /\ c.ref = 1 /\ c.type = file[f].type /\ c.pipe = file[f].pipe
        /\ c.writable = file[f].writable
    BY <1>2, <1>3 DEF FileRec
  <1>5. file' = [file EXCEPT ![f] = c]
    BY <1>1, <1>3
  <1>6. file'[f] = c /\ \A g \in Files : g # f => file'[g] = file[g]
    BY <1>2, <1>5
  <1>7. Holders(f) = {} /\ file[f].type # "pipe" /\ ~InHand(f)
    BY <1>1, Unheld DEF Refs
  <1>8. \A r \in Procs, d \in {"rf", "wf"} :
          taken'[r][d] = IF r = p /\ d = e THEN f ELSE taken[r][d]
    BY <1>1, TakeOne
  <1>9. \A g \in Files : InHand(g)' <=> InHand(g) \/ g = f
    BY <1>8, Constants DEF InHand
  <1> QED BY <1>4, <1>6, <1>7, <1>8, <1>9

LEMMA RefsAlloc ==
  ASSUME TypeInv, HandsOK, Refs, HandInv, NEW p \in Procs, NEW e \in {"rf", "wf"},
         NEW f \in Files, Allocs(p, e, f), taken[p][e] = None,
         UNCHANGED <<ofile, pipe, io>>, pc[p] # "pipeclose", pc'[p] \in Making,
         \A r \in Procs : r # p => pc'[r] = pc[r]
  PROVE  Refs'
  <1>1. /\ file'[f].ref = 1 /\ Holders(f) = {} /\ file[f].type # "pipe"
        /\ file'[f].type = file[f].type /\ file'[f].pipe = file[f].pipe
        /\ file'[f].writable = file[f].writable
        /\ \A g \in Files : g # f => file'[g] = file[g]
        /\ \A g \in Files : InHand(g)' <=> InHand(g) \/ g = f
    BY AllocIs
  <1>2. \A r \in Procs : /\ pc'[r] \in Gone => pc[r] \in Gone
                         /\ pc'[r] = "pipeclose" <=> pc[r] = "pipeclose"
                         /\ \A w \in BOOLEAN : Using(r, w)' => Using(r, w)
    BY DEF Gone, Making, Using
  <1>3. RefInv'
    <2>1. \A g \in Files : Holders(g)' = Holders(g)
      BY DEF Holders
    <2>2. \A g \in Files : ~InHand(g)' => file'[g].ref = Cardinality(Holders(g)')
      BY <1>1, <2>1 DEF Refs, RefInv
    <2>3. \A g \in Files : file'[g].ref = 0 => file'[g].type # "pipe"
      BY <1>1 DEF Refs, RefInv
    <2> QED BY <1>2, <2>2, <2>3 DEF Refs, RefInv, Gone
  <1>4. \A g \in Files : \A x \in Pipes, w \in BOOLEAN : IsEnd(g, x, w)' <=> IsEnd(g, x, w)
    BY <1>1 DEF IsEnd
  <1>5. \A r \in Procs : \A x \in Pipes, w \in BOOLEAN : Closes(r, x, w)' <=> Closes(r, x, w)
    BY <1>2 DEF Closes
  <1>6. OneEnd' /\ EndsOpen'
    BY <1>4, <1>5, EndsKeep DEF Refs
  <1>7. Users'
    <2> SUFFICES ASSUME NEW r \in Procs, NEW w \in BOOLEAN, Using(r, w)'
                 PROVE  \E n \in Fds : (/\ ofile[r][n] # None
                                       /\ IsEnd(ofile[r][n], io[r].pipe, w))'
        BY DEF Users
    <2>1. PICK n \in Fds : ofile[r][n] # None /\ IsEnd(ofile[r][n], io[r].pipe, w)
      BY <1>2 DEF Refs, Users
    <2>2. ofile[r][n] \in Files
      BY <2>1 DEF TypeInv, FilesOK
    <2>3. (ofile[r][n] # None /\ IsEnd(ofile[r][n], io[r].pipe, w))'
      BY <1>1, <2>1, <2>2 DEF IsEnd
    <2> QED BY <2>3
  <1> QED BY <1>3, <1>6, <1>7 DEF Refs

\* A process in a call of pipe reads and writes nothing, and neither does one
\* that is about to make the call.
LEMMA RefsStill ==
  ASSUME TypeInv, Refs, Quiet, NEW p \in Procs, UNCHANGED <<ofile, file, pipe, io>>,
         pc[p] # "pipeclose", pc'[p] \in {"user"} \cup Making,
         \A r \in Procs : r # p => pc'[r] = pc[r]
  PROVE  Refs'
  <1>1. pc'[p] \notin Gone \cup {"pipeclose"} /\ \A w \in BOOLEAN : ~Using(p, w)'
    BY DEF Gone, Making, Using
  <1> QED BY <1>1, RefsMove

LEMMA RefsPipeCall ==
  ASSUME TypeInv, HandsOK, Refs, HandInv, NEW p \in Procs, PipeCall(p) PROVE Refs'
  <1>1. pc[p] = "user" /\ UNCHANGED <<ofile, pipe, io>>
    BY AboutCall DEF PipeCall
  <1>2. CASE FileAlloc(p, "rf") /\ Goto(p, "pipealloc")
    <2>1. PICK f \in Files : Allocs(p, "rf", f)
      BY <1>2, FileAllocIs
    <2>2. taken[p]["rf"] = None
      BY <1>1, Hand DEF HandOK, Making, NoFiles
    <2>3. pc'[p] = "pipealloc" /\ \A r \in Procs : r # p => pc'[r] = pc[r]
      BY <1>2, MakingMoves DEF Making
    <2> QED BY <1>1, <2>1, <2>2, <2>3, RefsAlloc DEF Making
  <1>3. CASE UNCHANGED <<file, taken, pc>>
    <2>1. Quiet /\ UNCHANGED <<ofile, file, pc, io, pipe>>
      BY <1>1, <1>3 DEF Quiet
    <2> QED BY <2>1, RefsKeep DEF Using
  <1> QED BY <1>2, <1>3 DEF PipeCall

\* The ends of a pipe that is made.
LEMMA MadeIs ==
  ASSUME TypeInv, HandsOK, HandInv, NEW p \in Procs, NEW q \in Pipes,
         Made(p, q), pc[p] = "pipepage"
  PROVE  /\ taken[p].rf \in Files /\ taken[p].wf \in Files /\ taken[p].rf # taken[p].wf
         /\ file[taken[p].rf].type # "pipe" /\ file[taken[p].wf].type # "pipe"
         /\ file'[taken[p].rf] = End(q, FALSE) /\ file'[taken[p].wf] = End(q, TRUE)
         /\ \A f \in Files : f # taken[p].rf /\ f # taken[p].wf => file'[f] = file[f]
         /\ pc'[p] = "pipefds" /\ \A r \in Procs : r # p => pc'[r] = pc[r]
  <1>1. taken[p].rf # None /\ taken[p].wf # None
    BY Hand DEF HandOK
  <1>2. taken[p].rf \in Files /\ taken[p].wf \in Files
    BY <1>1, Hand
  <1>3. taken[p].rf # taken[p].wf
    BY <1>1 DEF HandInv
  <1>4. file[taken[p].rf].type # "pipe" /\ file[taken[p].wf].type # "pipe"
    BY <1>1 DEF HandInv
  <1>5. /\ file'[taken[p].rf] = End(q, FALSE) /\ file'[taken[p].wf] = End(q, TRUE)
        /\ \A f \in Files : f # taken[p].rf /\ f # taken[p].wf => file'[f] = file[f]
    BY <1>2, <1>3 DEF Made, TypeInv, FilesOK
  <1>6. pc'[p] = "pipefds" /\ \A r \in Procs : r # p => pc'[r] = pc[r]
    BY MakingMoves DEF Made, Making
  <1> QED BY <1>2, <1>3, <1>4, <1>5, <1>6

LEMMA RefsMade ==
  ASSUME TypeInv, HandsOK, Refs, HandInv, NEW p \in Procs, NEW q \in Pipes,
         Made(p, q), pc[p] = "pipepage", UNCHANGED <<ofile, taken, io>>
  PROVE  Refs'
  <1>16. taken[p].rf \in Files /\ taken[p].wf \in Files
    BY MadeIs
  <1>17. PICK rf \in Files : rf = taken[p].rf
    BY <1>16
  <1>18. PICK wf \in Files : wf = taken[p].wf
    BY <1>16
  <1>1. /\ rf \in Files /\ wf \in Files /\ rf # wf /\ ~pipe[q].used
        /\ file[rf].type # "pipe" /\ file[wf].type # "pipe"
        /\ file'[rf] = End(q, FALSE) /\ file'[wf] = End(q, TRUE)
        /\ \A f \in Files : f # rf /\ f # wf => file'[f] = file[f]
        /\ pc'[p] = "pipefds" /\ \A r \in Procs : r # p => pc'[r] = pc[r]
    BY <1>17, <1>18, MadeIs DEF Made
  <1>6. InHand(rf) /\ InHand(wf)
    BY <1>17, <1>18 DEF InHand
  <1>2. PICK a : a = End(q, FALSE)
    OBVIOUS
  <1>3. PICK b : b = End(q, TRUE)
    OBVIOUS
  <1>4. /\ a.pipe = q /\ a.type = "pipe" /\ a.writable = FALSE /\ a.ref = 1
        /\ b.pipe = q /\ b.type = "pipe" /\ b.writable = TRUE /\ b.ref = 1
    BY <1>2, <1>3, EndIs
  <1>5. /\ file'[rf] = a /\ file'[wf] = b
        /\ \A f \in Files : f # rf /\ f # wf => file'[f] = file[f]
    BY <1>1, <1>2, <1>3
  <1>7. \A r \in Procs : /\ pc'[r] \in Gone => pc[r] \in Gone
                         /\ pc'[r] = "pipeclose" <=> pc[r] = "pipeclose"
                         /\ \A w \in BOOLEAN : Using(r, w)' => Using(r, w) /\ r # p
    BY <1>1 DEF Gone, Using
  <1>8. RefInv'
    <2>1. \A f \in Files : Holders(f)' = Holders(f) /\ (InHand(f)' <=> InHand(f))
      BY DEF Holders, InHand
    <2>3. \A f \in Files : ~InHand(f)' => file'[f].ref = Cardinality(Holders(f)')
      BY <1>5, <1>6, <2>1 DEF Refs, RefInv
    <2>4. \A f \in Files : file'[f].ref = 0 => file'[f].type # "pipe"
      BY <1>4, <1>5 DEF Refs, RefInv
    <2> QED BY <1>7, <2>3, <2>4 DEF Refs, RefInv, Gone
  <1>9. \A v \in BOOLEAN : ~Ends(q, v)
    <2>1. pipe[q] \in PipeRec
      BY BytesIn
    <2>2. /\ pipe[q].used \in BOOLEAN /\ pipe[q].writeopen \in BOOLEAN
          /\ pipe[q].readopen \in BOOLEAN
      BY <2>1 DEF PipeRec
    <2>3. /\ pipe[q].writeopen = Ends(q, TRUE) /\ pipe[q].readopen = Ends(q, FALSE)
          /\ pipe[q].used = (pipe[q].writeopen \/ pipe[q].readopen)
      BY DEF Refs, EndsOpen
    <2> QED BY <1>1, <2>2, <2>3
  <1>10. \A v \in BOOLEAN : /\ \A f \in Files : ~IsEnd(f, q, v)
                            /\ \A r \in Procs : ~Closes(r, q, v)
    BY <1>9, EndsIs
  <1>11. \A f \in Files : \A x \in Pipes, v \in BOOLEAN :
           IsEnd(f, x, v)' <=> \/ IsEnd(f, x, v)
                               \/ x = q /\ f = IF v THEN wf ELSE rf
    <2> SUFFICES ASSUME NEW f \in Files, NEW x \in Pipes, NEW v \in BOOLEAN
                 PROVE  IsEnd(f, x, v)' <=> \/ IsEnd(f, x, v)
                                            \/ x = q /\ f = IF v THEN wf ELSE rf
        OBVIOUS
    <2>1. CASE f = rf
      BY <1>1, <1>4, <1>5, <2>1 DEF IsEnd
    <2>2. CASE f = wf
      BY <1>1, <1>4, <1>5, <2>2 DEF IsEnd
    <2>3. CASE f # rf /\ f # wf
      BY <1>5, <2>3 DEF IsEnd
    <2> QED BY <2>1, <2>2, <2>3
  <1>12. \A r \in Procs : \A x \in Pipes, v \in BOOLEAN : Closes(r, x, v)' <=> Closes(r, x, v)
    BY <1>7 DEF Closes
  <1>13. OneEnd'
    <2> SUFFICES ASSUME NEW x \in Pipes, NEW v \in BOOLEAN
                 PROVE  /\ \A f, g \in Files : IsEnd(f, x, v)' /\ IsEnd(g, x, v)' => f = g
                        /\ \A s, r \in Procs : Closes(s, x, v)' /\ Closes(r, x, v)' => s = r
                        /\ \A f \in Files, s \in Procs : ~(IsEnd(f, x, v)' /\ Closes(s, x, v)')
        BY DEF OneEnd
    <2>1. CASE x = q
      BY <1>10, <1>11, <1>12, <2>1
    <2>2. CASE x # q
      BY <1>11, <1>12, <2>2 DEF Refs, OneEnd
    <2> QED BY <2>1, <2>2
  <1>14. EndsOpen'
    <2>1. PICK c : c = [pipe[q] EXCEPT !.used = TRUE, !.nread = 0, !.nwrite = 0,
                                       !.readopen = TRUE, !.writeopen = TRUE]
      OBVIOUS
    <2>2. pipe' = [pipe EXCEPT ![q] = c]
      BY <2>1 DEF Made
    <2>3. c.used = TRUE /\ c.readopen = TRUE /\ c.writeopen = TRUE
      BY <2>1, BytesIn DEF PipeRec
    <2>4. pipe'[q] = c /\ \A x \in Pipes : x # q => pipe'[x] = pipe[x]
      BY <2>2 DEF TypeInv
    <2> SUFFICES ASSUME NEW x \in Pipes
                 PROVE  /\ pipe'[x].writeopen = Ends(x, TRUE)'
                        /\ pipe'[x].readopen = Ends(x, FALSE)'
                        /\ pipe'[x].used = (pipe'[x].writeopen \/ pipe'[x].readopen)
        BY DEF EndsOpen
    <2>5. CASE x = q
      <3>1. IsEnd(wf, q, TRUE)' /\ IsEnd(rf, q, FALSE)'
        BY <1>1, <1>11
      <3>2. Ends(q, TRUE)' /\ Ends(q, FALSE)'
        BY <1>1, <3>1, EndsIs
      <3>3. Ends(q, TRUE)' = TRUE /\ Ends(q, FALSE)' = TRUE
        BY <3>2 DEF Ends
      <3> QED BY <2>3, <2>4, <2>5, <3>3
    <2>6. CASE x # q
      <3>1. \A f \in Files : \A v \in BOOLEAN : IsEnd(f, x, v)' <=> IsEnd(f, x, v)
        BY <1>11, <2>6
      <3>2. \A v \in BOOLEAN : Ends(x, v)' <=> Ends(x, v)
        BY <1>12, <3>1, EndsIs
      <3>3. (Ends(x, TRUE)' <=> Ends(x, TRUE)) /\ (Ends(x, FALSE)' <=> Ends(x, FALSE))
        BY <3>2
      <3>4. Ends(x, TRUE)' = Ends(x, TRUE) /\ Ends(x, FALSE)' = Ends(x, FALSE)
        BY <3>3 DEF Ends
      <3>5. pipe'[x] = pipe[x]
        BY <2>4, <2>6
      <3>6. /\ pipe[x].writeopen = Ends(x, TRUE) /\ pipe[x].readopen = Ends(x, FALSE)
            /\ pipe[x].used = (pipe[x].writeopen \/ pipe[x].readopen)
        BY DEF Refs, EndsOpen
      <3> QED BY <3>4, <3>5, <3>6
    <2> QED BY <2>5, <2>6
  <1>15. Users'
    <2> SUFFICES ASSUME NEW r \in Procs, NEW v \in BOOLEAN, Using(r, v)'
                 PROVE  \E n \in Fds : (/\ ofile[r][n] # None
                                       /\ IsEnd(ofile[r][n], io[r].pipe, v))'
        BY DEF Users
    <2>1. Using(r, v) /\ r # p /\ io'[r] = io[r]
      BY <1>7
    <2>2. PICK n \in Fds : ofile[r][n] # None /\ IsEnd(ofile[r][n], io[r].pipe, v)
      BY <2>1 DEF Refs, Users
    <2>3. PICK f \in Files : f = ofile[r][n]
      BY <2>2 DEF TypeInv, FilesOK
    <2>4. io[r].pipe \in Pipes
      BY <2>1 DEF Using, TypeInv, IoOK
    <2>5. IsEnd(f, io[r].pipe, v)'
      BY <1>11, <2>1, <2>2, <2>3, <2>4 DEF IsEnd
    <2>7. (ofile[r][n] # None /\ IsEnd(ofile[r][n], io[r].pipe, v))'
      BY <2>2, <2>3, <2>5 DEF IsEnd
    <2> QED BY <2>7
  <1> QED BY <1>8, <1>13, <1>14, <1>15 DEF Refs

LEMMA RefsPipeMake ==
  ASSUME TypeInv, HandsOK, Refs, HandInv, NEW p \in Procs, PipeMake(p) PROVE Refs'
  <1>1. io' = io
    BY DEF PipeMake
  <1>2. ASSUME Goto(p, "unpipe"), UNCHANGED <<ofile, file, pipe, taken>>,
               pc[p] # "pipeclose"
        PROVE  Refs'
    <2>1. pc'[p] = "unpipe" /\ \A r \in Procs : r # p => pc'[r] = pc[r]
      BY <1>2, MakingMoves DEF Making
    <2> QED BY <1>1, <1>2, <2>1, RefsStill DEF Making, Quiet
  <1>3. CASE FileAlloc(p, "wf") /\ Goto(p, "pipepage") /\ PipeAlloc(p)
    <2>1. PICK f \in Files : Allocs(p, "wf", f)
      BY <1>3, FileAllocIs
    <2>2. pc[p] = "pipealloc" /\ UNCHANGED <<ofile, pipe>>
      BY <1>3 DEF PipeAlloc
    <2>3. taken[p]["wf"] = None
      BY <2>2, Hand DEF HandOK
    <2>4. pc'[p] = "pipepage" /\ \A r \in Procs : r # p => pc'[r] = pc[r]
      BY <1>3, MakingMoves DEF Making
    <2> QED BY <1>1, <2>1, <2>2, <2>3, <2>4, RefsAlloc DEF Making
  <1>4. CASE PipeAlloc(p)
    <2>1. pc[p] = "pipealloc" /\ UNCHANGED <<ofile, pipe>>
      BY <1>4 DEF PipeAlloc
    <2>2. CASE Goto(p, "unpipe") /\ UNCHANGED <<file, taken>>
      BY <1>2, <2>1, <2>2
    <2> QED BY <1>3, <1>4, <2>2 DEF PipeAlloc
  <1>5. CASE PipePage(p)
    <2>1. pc[p] = "pipepage" /\ UNCHANGED <<ofile, taken>>
      BY <1>5, PageParts
    <2>2. CASE Goto(p, "unpipe") /\ UNCHANGED <<file, pipe>>
      BY <1>2, <2>1, <2>2
    <2>3. ASSUME NEW q \in Pipes, Made(p, q) PROVE Refs'
      BY <1>1, <2>1, <2>3, RefsMade
    <2> QED BY <1>5, <2>2, <2>3, PageParts
  <1>6. CASE NoFds(p)
    BY <1>2, <1>6 DEF NoFds
  <1> QED BY <1>4, <1>5, <1>6 DEF PipeMake

\* The two files become descriptors.
LEMMA FdsIs ==
  ASSUME TypeInv, HandsOK, Refs, HandInv, NEW p \in Procs, NEW r \in Fds, NEW w \in Fds,
         PipeFds(p, r, w)
  PROVE  /\ taken[p].rf \in Files /\ taken[p].wf \in Files /\ taken[p].rf # taken[p].wf
         /\ ofile[p][r] = None /\ ofile[p][w] = None /\ r # w
         /\ \A x \in Procs, n \in Fds :
              ofile'[x][n] = IF x = p /\ n = r THEN taken[p].rf
                             ELSE IF x = p /\ n = w THEN taken[p].wf ELSE ofile[x][n]
         /\ \A x \in Procs, e \in {"rf", "wf"} :
              taken'[x][e] = IF x = p THEN None ELSE taken[x][e]
         /\ \A f \in Files : f # taken[p].rf /\ f # taken[p].wf => Holders(f)' = Holders(f)
         /\ \A f \in Files : f # taken[p].rf /\ f # taken[p].wf => (InHand(f)' <=> InHand(f))
         /\ pc[p] = "pipefds" /\ pc'[p] = "user" /\ UNCHANGED <<file, pipe>>
         /\ \A x \in Procs : x # p => pc'[x] = pc[x]
  <1>1. /\ pc[p] = "pipefds" /\ UNCHANGED <<file, pipe>> /\ Goto(p, "user")
        /\ ofile' = [ofile EXCEPT ![p][r] = taken[p].rf, ![p][w] = taken[p].wf]
        /\ taken' = [taken EXCEPT ![p] = NoFiles]
    BY DEF PipeFds
  <1>2. taken[p].rf # None /\ taken[p].wf # None
    BY <1>1, Hand DEF HandOK
  <1>3. taken[p].rf \in Files /\ taken[p].wf \in Files /\ taken[p].rf # taken[p].wf
    BY <1>2, Hand DEF HandInv
  <1>4. ofile[p][r] = None /\ ofile[p][w] = None /\ r # w
    BY FdsFree DEF FreeFds
  <1>5. \A x \in Procs, n \in Fds :
          ofile'[x][n] = IF x = p /\ n = r THEN taken[p].rf
                         ELSE IF x = p /\ n = w THEN taken[p].wf ELSE ofile[x][n]
    BY <1>1, <1>4 DEF TypeInv, FilesOK
  <1>6. \A x \in Procs, e \in {"rf", "wf"} :
          taken'[x][e] = IF x = p THEN None ELSE taken[x][e]
    BY <1>1 DEF HandsOK, NoFiles
  <1>7. ASSUME NEW f \in Files, f # taken[p].rf, f # taken[p].wf
        PROVE  Holders(f)' = Holders(f) /\ (InHand(f)' <=> InHand(f))
    <2>1. \A x \in Procs, n \in Fds : ofile'[x][n] = f <=> ofile[x][n] = f
      BY <1>4, <1>5, <1>7, Constants
    <2>2. \A x \in Procs, e \in {"rf", "wf"} : taken'[x][e] = f <=> taken[x][e] = f
      BY <1>6, <1>7, Constants
    <2> QED BY <2>1, <2>2 DEF Holders, InHand
  <1>8. pc'[p] = "user" /\ \A x \in Procs : x # p => pc'[x] = pc[x]
    BY <1>1, MakingMoves
  <1> QED BY <1>1, <1>3, <1>4, <1>5, <1>6, <1>7, <1>8

LEMMA RefsFds ==
  ASSUME TypeInv, HandsOK, Refs, HandInv, NEW p \in Procs, NEW r \in Fds, NEW w \in Fds,
         PipeFds(p, r, w), io' = io
  PROVE  Refs'
  <1>9. taken[p].rf \in Files /\ taken[p].wf \in Files
    BY FdsIs
  <1>10. PICK rf \in Files : rf = taken[p].rf
    BY <1>9
  <1>11. PICK wf \in Files : wf = taken[p].wf
    BY <1>9
  <1>1. /\ rf \in Files /\ wf \in Files /\ rf # wf
        /\ ofile[p][r] = None /\ ofile[p][w] = None /\ r # w
        /\ \A x \in Procs, n \in Fds :
             ofile'[x][n] = IF x = p /\ n = r THEN rf
                            ELSE IF x = p /\ n = w THEN wf ELSE ofile[x][n]
        /\ \A f \in Files : f # rf /\ f # wf => Holders(f)' = Holders(f)
        /\ \A f \in Files : f # rf /\ f # wf => (InHand(f)' <=> InHand(f))
        /\ pc[p] = "pipefds" /\ pc'[p] = "user" /\ UNCHANGED <<file, pipe>>
        /\ \A x \in Procs : x # p => pc'[x] = pc[x]
    BY <1>10, <1>11, FdsIs
  <1>2. /\ file[rf].ref = 1 /\ Holders(rf) = {} /\ file[wf].ref = 1 /\ Holders(wf) = {}
    BY <1>10, <1>11, InHands, Constants
  <1>3. \A x \in Procs : /\ pc'[x] \in Gone => pc[x] \in Gone /\ x # p
                         /\ pc'[x] = "pipeclose" <=> pc[x] = "pipeclose"
                         /\ \A v \in BOOLEAN : Using(x, v)' => Using(x, v) /\ x # p
    BY <1>1 DEF Gone, Using
  <1>4. RefInv'
    <2>5. \A x \in Procs, n \in Fds : ofile[x][n] # rf /\ ofile[x][n] # wf
      <3> SUFFICES ASSUME NEW x \in Procs, NEW n \in Fds PROVE ofile[x][n] # rf /\ ofile[x][n] # wf
          OBVIOUS
      <3>1. <<x, n>> \notin Holders(rf) /\ <<x, n>> \notin Holders(wf)
        BY <1>2
      <3> QED BY <3>1 DEF Holders
    <2>6. \A x \in Procs, n \in Fds : /\ ofile'[x][n] = rf <=> x = p /\ n = r
                                      /\ ofile'[x][n] = wf <=> x = p /\ n = w
      BY <1>1, <2>5
    <2>1. Holders(rf)' = {<<p, r>>} /\ Holders(wf)' = {<<p, w>>}
      BY <2>6 DEF Holders
    <2>2. Cardinality(Holders(rf)') = 1 /\ Cardinality(Holders(wf)') = 1
      BY <2>1, FS_Singleton
    <2>7. \A f \in Files : f # rf /\ f # wf /\ ~InHand(f)' =>
            file'[f].ref = Cardinality(Holders(f)')
      BY <1>1 DEF Refs, RefInv
    <2>8. file'[rf].ref = Cardinality(Holders(rf)') /\ file'[wf].ref = Cardinality(Holders(wf)')
      BY <1>1, <1>2, <2>2
    <2>3. \A f \in Files : ~InHand(f)' => file'[f].ref = Cardinality(Holders(f)')
      BY <2>7, <2>8
    <2>4. \A f \in Files : file'[f].ref = 0 => file'[f].type # "pipe"
      BY <1>1 DEF Refs, RefInv
    <2> QED BY <1>1, <1>3, <2>3, <2>4 DEF Refs, RefInv, Gone
  <1>5. \A f \in Files : \A x \in Pipes, v \in BOOLEAN : IsEnd(f, x, v)' <=> IsEnd(f, x, v)
    BY <1>1 DEF IsEnd
  <1>6. \A x \in Procs : \A y \in Pipes, v \in BOOLEAN : Closes(x, y, v)' <=> Closes(x, y, v)
    BY <1>3 DEF Closes
  <1>7. OneEnd' /\ EndsOpen'
    BY <1>1, <1>5, <1>6, EndsKeep DEF Refs
  <1>8. Users'
    <2> SUFFICES ASSUME NEW x \in Procs, NEW v \in BOOLEAN, Using(x, v)'
                 PROVE  \E n \in Fds : (/\ ofile[x][n] # None
                                       /\ IsEnd(ofile[x][n], io[x].pipe, v))'
        BY DEF Users
    <2>1. Using(x, v) /\ x # p
      BY <1>3
    <2>2. PICK n \in Fds : ofile[x][n] # None /\ IsEnd(ofile[x][n], io[x].pipe, v)
      BY <2>1 DEF Refs, Users
    <2>3. ofile'[x][n] = ofile[x][n] /\ io'[x] = io[x]
      BY <1>1, <2>1
    <2>4. (ofile[x][n] # None /\ IsEnd(ofile[x][n], io[x].pipe, v))'
      BY <1>1, <2>2, <2>3 DEF IsEnd
    <2> QED BY <2>4
  <1> QED BY <1>4, <1>7, <1>8 DEF Refs

LEMMA RefsPipeDone ==
  ASSUME TypeInv, HandsOK, Refs, HandInv, NEW p \in Procs, PipeDone(p) PROVE Refs'
  <1>1. PICK r \in Fds, w \in Fds : PipeFds(p, r, w)
    BY DEF PipeDone
  <1> QED BY <1>1, RefsFds DEF PipeDone

\* A failing call gives a file back.
LEMMA GiveIs ==
  ASSUME TypeInv, HandsOK, Refs, HandInv, NEW p \in Procs, NEW f \in Files,
         f = GivenUp(p), GiveBack(p)
  PROVE  /\ file'[f].ref = 0 /\ file'[f].type # "pipe" /\ file[f].ref = 1 /\ Holders(f) = {}
         /\ \A g \in Files : g # f => file'[g] = file[g]
         /\ pc[p] = "unpipe" /\ pc'[p] \in {"user", "unpipe", "pipeclose"}
         /\ UNCHANGED <<ofile, pipe>>
         /\ \A r \in Procs : r # p => pc'[r] = pc[r] /\ io'[r] = io[r]
         /\ \A r \in Procs, e \in {"rf", "wf"} :
              taken'[r][e] = IF taken[r][e] = f THEN None ELSE taken[r][e]
  <1>1. /\ pc[p] = "unpipe"
        /\ taken' = [taken EXCEPT ![p] = Left(p)]
        /\ FileClose(p, f, AfterClose(Left(p))) /\ AfterClose(Left(p)) \in {"user", "unpipe"}
        /\ UNCHANGED <<ofile, pipe>>
    BY GiveBackIs
  <1>2. PICK e \in {"rf", "wf"} : e = IF taken[p].rf # None THEN "rf" ELSE "wf"
    OBVIOUS
  <1>3. f = taken[p][e] /\ Left(p) = [taken[p] EXCEPT ![e] = None] /\ f # None
    BY <1>2, Constants DEF GivenUp, Left
  <1>4. file[f].ref = 1 /\ Holders(f) = {}
    BY <1>3, InHands
  <1>5. /\ \A g \in Files : g # f => file'[g] = file[g]
        /\ file'[f].ref = file[f].ref - 1
        /\ file[f].ref = 1 => file'[f].type # "pipe"
        /\ \A r \in Procs : r # p => pc'[r] = pc[r] /\ io'[r] = io[r]
    BY <1>1, FileCloseParts
  <1>6. pc'[p] \in {"user", "unpipe", "pipeclose"}
    BY <1>1, FileCloseTypes
  <1>7. \A d \in {"rf", "wf"} : Left(p)[d] = IF d = e THEN None ELSE taken[p][d]
    BY <1>3, Hand DEF TakenRec
  <1>8. \A r \in Procs : taken'[r] = IF r = p THEN Left(p) ELSE taken[r]
    BY <1>1 DEF HandsOK
  <1>9. \A r \in Procs, d \in {"rf", "wf"} : taken[r][d] = f <=> r = p /\ d = e
    BY <1>3 DEF HandInv
  <1>10. \A r \in Procs, d \in {"rf", "wf"} :
           taken'[r][d] = IF taken[r][d] = f THEN None ELSE taken[r][d]
    BY <1>7, <1>8, <1>9
  <1>11. file'[f].ref = 0 /\ file'[f].type # "pipe"
    BY <1>4, <1>5
  <1> QED BY <1>1, <1>4, <1>5, <1>6, <1>10, <1>11

LEMMA RefsPipeFails ==
  ASSUME TypeInv, HandsOK, Refs, HandInv, NEW p \in Procs, PipeFails(p) PROVE Refs'
  <1>1. GiveBack(p)
    BY DEF PipeFails
  <1>2. PICK f \in Files : f = GivenUp(p)
    BY <1>1, GiveBackIs
  <1>3. /\ file'[f].ref = 0 /\ file'[f].type # "pipe" /\ Holders(f) = {}
        /\ \A g \in Files : g # f => file'[g] = file[g]
        /\ pc[p] = "unpipe" /\ pc'[p] \in {"user", "unpipe", "pipeclose"}
        /\ UNCHANGED <<ofile, pipe>>
        /\ \A r \in Procs : r # p => pc'[r] = pc[r] /\ io'[r] = io[r]
        /\ \A r \in Procs, e \in {"rf", "wf"} :
             taken'[r][e] = IF taken[r][e] = f THEN None ELSE taken[r][e]
    BY <1>1, <1>2, GiveIs
  <1>4. RefInv'
    <2>1. \A g \in Files : Holders(g)' = Holders(g)
      BY <1>3 DEF Holders
    <2>2. \A g \in Files : g # f => (InHand(g)' <=> InHand(g))
      <3> SUFFICES ASSUME NEW g \in Files, g # f PROVE InHand(g)' <=> InHand(g)
          OBVIOUS
      <3>1. \A r \in Procs, e \in {"rf", "wf"} : taken'[r][e] = g <=> taken[r][e] = g
        BY <1>3, Constants
      <3> QED BY <3>1 DEF InHand
    <2>3. Cardinality(Holders(f)') = 0
      BY <1>3, <2>1, FS_EmptySet
    <2>4. \A g \in Files : ~InHand(g)' => file'[g].ref = Cardinality(Holders(g)')
      BY <1>3, <2>1, <2>2, <2>3 DEF Refs, RefInv
    <2>5. \A g \in Files : file'[g].ref = 0 => file'[g].type # "pipe"
      BY <1>3 DEF Refs, RefInv
    <2>6. \A r \in Procs : pc'[r] \in {"unused", "zombie"} => pc[r] \in {"unused", "zombie"}
      BY <1>3
    <2> QED BY <1>3, <2>4, <2>5, <2>6 DEF Refs, RefInv
  <1>5. OneEnd' /\ EndsOpen'
    <2>1. FileClose(p, f, AfterClose(Left(p))) /\ AfterClose(Left(p)) \in {"user", "unpipe"}
      BY <1>1, <1>2, GiveBackIs
    <2> QED BY <1>3, <2>1, CloseEnds
  <1>6. Users'
    <2> SUFFICES ASSUME NEW r \in Procs, NEW w \in BOOLEAN, Using(r, w)'
                 PROVE  \E n \in Fds : (/\ ofile[r][n] # None
                                       /\ IsEnd(ofile[r][n], io[r].pipe, w))'
        BY DEF Users
    <2>1. Using(r, w) /\ io'[r] = io[r]
      BY <1>3 DEF Using
    <2>2. PICK n \in Fds : ofile[r][n] # None /\ IsEnd(ofile[r][n], io[r].pipe, w)
      BY <2>1 DEF Refs, Users
    <2>5. <<r, n>> \notin Holders(f)
      BY <1>3
    <2>3. ofile[r][n] \in Files /\ ofile[r][n] # f
      BY <2>2, <2>5 DEF TypeInv, FilesOK, Holders
    <2>4. (ofile[r][n] # None /\ IsEnd(ofile[r][n], io[r].pipe, w))'
      BY <1>3, <2>1, <2>2, <2>3 DEF IsEnd
    <2> QED BY <2>4
  <1> QED BY <1>4, <1>5, <1>6 DEF Refs

LEMMA RefsFinish == ASSUME TypeInv, Refs, Quiet, NEW p \in Procs, Finish(p) PROVE Refs'
  <1>1. PICK q : q = io[p].pipe
    OBVIOUS
  <1>2. PICK v : v = io[p].writable
    OBVIOUS
  <1>3. PICK at \in {"read", "write"} : at = IF v THEN "read" ELSE "write"
    OBVIOUS
  <1>4. /\ q \in Pipes /\ v \in BOOLEAN /\ pc[p] = "pipeclose" /\ pc'[p] \in {"user", "unpipe"}
        /\ UNCHANGED <<ofile, file, io>>
        /\ \A r \in Procs : r # p =>
             pc'[r] = IF pc[r] = Asleep[at] /\ io[r].kind = "pipe" /\ io[r].pipe = q
                      THEN at ELSE pc[r]
    BY <1>1, <1>2, <1>3, FinishParts DEF AfterClose
  <1>5. /\ pipe'[q].readopen = (pipe[q].readopen /\ v)
        /\ pipe'[q].writeopen = (pipe[q].writeopen /\ ~v)
        /\ pipe'[q].used = (pipe'[q].readopen \/ pipe'[q].writeopen)
        /\ \A r \in Pipes : r # q => pipe'[r] = pipe[r]
    BY <1>1, <1>2, FinishParts
  <1>6. \A r \in Procs : r # p =>
          \/ pc'[r] = pc[r]
          \/ pc[r] = "readsleep" /\ pc'[r] = "read"
          \/ pc[r] = "writesleep" /\ pc'[r] = "write"
    BY <1>3, <1>4 DEF Asleep
  <1>7. \A r \in Procs, w \in BOOLEAN : Using(r, w)' => Using(r, w) /\ io'[r].pipe = io[r].pipe
    BY <1>4, <1>6 DEF Using
  <1>8. Users'
    BY <1>4, <1>7, UsersKeep DEF Refs
  <1>9. RefInv'
    BY <1>4, <1>6 DEF Refs, RefInv, Holders, Quiet, InHand
  <1>10. \A f \in Files : \A x \in Pipes, w \in BOOLEAN : IsEnd(f, x, w)' <=> IsEnd(f, x, w)
    BY <1>4 DEF IsEnd
  <1>11. \A r \in Procs : \A x \in Pipes, w \in BOOLEAN :
           Closes(r, x, w)' <=> r # p /\ Closes(r, x, w)
    BY <1>4, <1>6 DEF Closes
  <1>12. \A x \in Pipes, w \in BOOLEAN : Closes(p, x, w) <=> x = q /\ w = v
    BY <1>1, <1>2, <1>4 DEF Closes
  <1>13. OneEnd
    BY DEF Refs
  <1>14. OneEnd'
    BY <1>10, <1>11, <1>13 DEF OneEnd
  <1>15. Ends(q, v) /\ ~Ends(q, v)'
    <2>1. Closes(p, q, v)
      BY <1>4, <1>12
    <2>2. \A f \in Files : ~IsEnd(f, q, v)
      BY <1>4, <1>13, <2>1 DEF OneEnd
    <2>3. \A r \in Procs : r # p => ~Closes(r, q, v)
      BY <1>4, <1>13, <2>1 DEF OneEnd
    <2> QED BY <1>4, <1>10, <1>11, <2>1, <2>2, <2>3, EndsIs
  <1>16. \A x \in Pipes, w \in BOOLEAN : ~(x = q /\ w = v) => (Ends(x, w)' <=> Ends(x, w))
    <2> SUFFICES ASSUME NEW x \in Pipes, NEW w \in BOOLEAN, ~(x = q /\ w = v)
                 PROVE  Ends(x, w)' <=> Ends(x, w)
        OBVIOUS
    <2>1. \A r \in Procs : Closes(r, x, w)' <=> Closes(r, x, w)
      BY <1>11, <1>12
    <2> QED BY <1>10, <2>1, EndsIs
  <1>17. EndsOpen'
    <2> SUFFICES ASSUME NEW x \in Pipes
                 PROVE  /\ pipe'[x].writeopen = Ends(x, TRUE)'
                        /\ pipe'[x].readopen = Ends(x, FALSE)'
                        /\ pipe'[x].used = (pipe'[x].writeopen \/ pipe'[x].readopen)
        BY DEF EndsOpen
    <2>1. /\ pipe[x].writeopen = Ends(x, TRUE) /\ pipe[x].readopen = Ends(x, FALSE)
          /\ pipe[x].used = (pipe[x].writeopen \/ pipe[x].readopen)
      BY DEF Refs, EndsOpen
    <2>2. \A w \in BOOLEAN : ~(x = q /\ w = v) => Ends(x, w)' = Ends(x, w)
      <3>1. \A w \in BOOLEAN : ~(x = q /\ w = v) => (Ends(x, w)' <=> Ends(x, w))
        BY <1>16
      <3> QED BY <3>1 DEF Ends
    <2>3. CASE x = q
      <3>1. Ends(x, v)' = FALSE
        BY <1>15, <2>3 DEF Ends
      <3>2. CASE v = TRUE
        <4>1. Ends(x, FALSE)' = Ends(x, FALSE) /\ Ends(x, TRUE)' = FALSE
          BY <2>2, <3>1, <3>2
        <4>2. pipe[x].readopen \in BOOLEAN /\ pipe[x].writeopen \in BOOLEAN
          BY BytesIn DEF PipeRec
        <4>3. pipe'[x].readopen = pipe[x].readopen /\ pipe'[x].writeopen = FALSE
              /\ pipe'[x].used = (pipe'[x].readopen \/ pipe'[x].writeopen)
          BY <1>5, <2>3, <3>2, <4>2
        <4> QED BY <2>1, <4>1, <4>3
      <3>3. CASE v = FALSE
        <4>1. Ends(x, TRUE)' = Ends(x, TRUE) /\ Ends(x, FALSE)' = FALSE
          BY <2>2, <3>1, <3>3
        <4>2. pipe[x].readopen \in BOOLEAN /\ pipe[x].writeopen \in BOOLEAN
          BY BytesIn DEF PipeRec
        <4>3. pipe'[x].writeopen = pipe[x].writeopen /\ pipe'[x].readopen = FALSE
              /\ pipe'[x].used = (pipe'[x].readopen \/ pipe'[x].writeopen)
          BY <1>5, <2>3, <3>3, <4>2
        <4> QED BY <2>1, <4>1, <4>3
      <3> QED BY <1>4, <3>2, <3>3
    <2>4. CASE x # q
      <3>1. Ends(x, TRUE)' = Ends(x, TRUE) /\ Ends(x, FALSE)' = Ends(x, FALSE)
        BY <2>2, <2>4
      <3>2. pipe'[x] = pipe[x]
        BY <1>5, <2>4
      <3> QED BY <2>1, <3>1, <3>2
    <2> QED BY <2>3, <2>4
  <1> QED BY <1>8, <1>9, <1>14, <1>17 DEF Refs

\* What a call of pipe has in hand stays its own.
LEMMA HandKeep ==
  ASSUME HandInv, taken' = taken,
         \A r \in Procs : pc'[r] \in {"pipealloc", "pipepage"} => pc'[r] = pc[r],
         \A f \in Files : InHand(f) => file'[f] = file[f] /\ Holders(f)' = Holders(f),
         HandsOK
  PROVE  HandInv'
  <1>1. \A f \in Files : InHand(f)' <=> InHand(f)
    BY DEF InHand
  <1>2. \A f \in Files : InHand(f)' => file'[f].ref = 1 /\ Holders(f)' = {}
    BY <1>1 DEF HandInv
  <1>3. ASSUME NEW r \in Procs, NEW e \in {"rf", "wf"},
               pc'[r] \in {"pipealloc", "pipepage"}, taken'[r][e] # None
        PROVE  file'[taken'[r][e]].type # "pipe"
    <2>1. taken[r][e] \in Files /\ InHand(taken[r][e])
      BY <1>3, InHands
    <2>2. file[taken[r][e]].type # "pipe"
      BY <1>3 DEF HandInv
    <2> QED BY <2>1, <2>2
  <1> QED BY <1>2, <1>3 DEF HandInv

LEMMA HandStill ==
  ASSUME HandInv, HandsOK, UNCHANGED <<ofile, file, taken>>,
         \A r \in Procs : pc'[r] \in {"pipealloc", "pipepage"} => pc'[r] = pc[r]
  PROVE  HandInv'
  <1>1. \A f : Holders(f)' = Holders(f)
    BY DEF Holders
  <1> QED BY <1>1, HandKeep

LEMMA CalmCall ==
  ASSUME Calm
  PROVE  /\ taken' = taken
         /\ \A r \in Procs : pc'[r] \in {"pipealloc", "pipepage"} => pc'[r] = pc[r]
  BY DEF Calm, Making

LEMMA HandClose ==
  ASSUME TypeInv, HandsOK, HandInv, Calm, NEW p \in Procs, NEW n \in Fds,
         ofile[p][n] # None, Close(p, n, "user")
  PROVE  HandInv'
  <1>1. PICK f \in Files : f = ofile[p][n]
    BY DEF TypeInv, FilesOK
  <1>2. FileClose(p, f, "user") /\ ofile' = [ofile EXCEPT ![p][n] = None] /\ ~InHand(f)
    BY <1>1, HeldIs DEF Close
  <1>3. \A g \in Files : g # f => file'[g] = file[g]
    BY <1>2, FileCloseParts
  <1>4. \A g \in Files : g # f => Holders(g)' = Holders(g)
    BY <1>1, <1>2, CloseOne
  <1>5. \A g \in Files : InHand(g) => file'[g] = file[g] /\ Holders(g)' = Holders(g)
    BY <1>2, <1>3, <1>4
  <1> QED BY <1>5, CalmCall, HandKeep

LEMMA HandCloseCall ==
  ASSUME TypeInv, HandsOK, HandInv, Calm, NEW p \in Procs, CloseCall(p) PROVE HandInv'
  <1> DEFINE n == env[p][Head(todo[p]).fd]
  <1>1. About(p, "close")
    BY DEF CloseCall
  <1>2. n \in Fds
    BY <1>1, AboutDescriptor
  <1>3. IF ofile[p][n] # None THEN Close(p, n, "user") ELSE UNCHANGED <<ofile, file, pc, io>>
    BY DEF CloseCall
  <1> HIDE DEF n
  <1>4. CASE ofile[p][n] # None
    BY <1>2, <1>3, <1>4, HandClose
  <1>5. CASE ofile[p][n] = None
    BY <1>3, <1>5, CalmCall, HandStill
  <1> QED BY <1>4, <1>5

LEMMA HandExitClose ==
  ASSUME TypeInv, HandsOK, HandInv, Calm, NEW p \in Procs, ExitClose(p) PROVE HandInv'
  <1>1. PICK n : n = Least({m \in Fds : ofile[p][m] # None})
    OBVIOUS
  <1>2. n \in Fds /\ ofile[p][n] # None
    BY <1>1, NextOpen DEF ExitClose
  <1>3. Close(p, n, "user")
    BY <1>1 DEF ExitClose
  <1> QED BY <1>2, <1>3, HandClose

LEMMA HandDupCall ==
  ASSUME TypeInv, HandsOK, HandInv, Calm, NEW p \in Procs, DupCall(p) PROVE HandInv'
  <1> DEFINE n == env[p][Head(todo[p]).fd]
  <1>1. About(p, "dup") /\ Dup(p, n)
    BY DEF DupCall
  <1>2. n \in Fds
    BY <1>1, AboutDescriptor
  <1> HIDE DEF n
  <1>3. CASE ofile[p][n] # None /\ FreeFds(p) # {}
    <2>1. PICK f \in Files : f = ofile[p][n]
      BY <1>2, <1>3 DEF TypeInv, FilesOK
    <2>2. FreeFds(p) \in SUBSET Nat
      BY Constants DEF FreeFds
    <2>3. PICK m \in Fds : m = Least(FreeFds(p)) /\ ofile[p][m] = None
      BY <1>3, <2>2, LeastIn DEF FreeFds
    <2>4. ofile' = [ofile EXCEPT ![p][m] = f] /\ file' = [file EXCEPT ![f].ref = @ + 1]
      BY <1>1, <1>3, <2>1, <2>3 DEF Dup
    <2>5. \A g \in Files : g # f => Holders(g)' = Holders(g)
      BY <2>3, <2>4, OpenOne
    <2>6. \A g \in Files : g # f => file'[g] = file[g]
      BY <2>4 DEF TypeInv, FilesOK
    <2>7. ~InHand(f)
      BY <1>2, <2>1, HeldIs
    <2>8. \A g \in Files : InHand(g) => file'[g] = file[g] /\ Holders(g)' = Holders(g)
      BY <2>5, <2>6, <2>7
    <2> QED BY <2>8, CalmCall, HandKeep
  <1>4. CASE ~(ofile[p][n] # None /\ FreeFds(p) # {})
    BY <1>1, <1>4, CalmCall, HandStill DEF Dup
  <1> QED BY <1>3, <1>4

LEMMA HandForkCall ==
  ASSUME TypeInv, HandsOK, Refs, HandInv, Calm, NEW p \in Procs, ForkCall(p) PROVE HandInv'
  <1>1. CASE UNCHANGED <<ofile, file, pc, parent>>
    BY <1>1, CalmCall, HandStill
  <1>2. ASSUME NEW q \in Procs, Inherit(p, q) PROVE HandInv'
    <2>1. ofile' = [ofile EXCEPT ![q] = ofile[p]]
      BY <1>2 DEF Inherit
    <2>2. \A r \in Procs, n \in Fds : ofile'[r][n] = IF r = q THEN ofile[p][n] ELSE ofile[r][n]
      BY <2>1 DEF TypeInv, FilesOK
    <2>3. ASSUME NEW f \in Files, InHand(f)
          PROVE  file'[f].ref = 1 /\ file'[f].type = file[f].type /\ Holders(f)' = {}
      <3>1. file[f].ref = 1 /\ Holders(f) = {}
        BY <2>3 DEF HandInv
      <3>2. \A r \in Procs, n \in Fds : ofile[r][n] # f
        <4> SUFFICES ASSUME NEW r \in Procs, NEW n \in Fds PROVE ofile[r][n] # f
            OBVIOUS
        <4>1. <<r, n>> \notin Holders(f)
          BY <3>1
        <4> QED BY <4>1 DEF Holders
      <3>3. {n \in Fds : ofile[p][n] = f} = {}
        BY <3>2
      <3>4. Cardinality({n \in Fds : ofile[p][n] = f}) = 0
        BY <3>3, FS_EmptySet
      <3>5. file'[f] = [file[f] EXCEPT !.ref = @ + Cardinality({n \in Fds : ofile[p][n] = f})]
        BY <1>2 DEF Inherit
      <3>6. file[f] \in FileRec
        BY DEF TypeInv, FilesOK
      <3>7. file'[f].ref = 1 /\ file'[f].type = file[f].type
        BY <3>1, <3>4, <3>5, <3>6 DEF FileRec
      <3>8. \A r \in Procs, n \in Fds : ofile'[r][n] # f
        BY <2>2, <3>2
      <3>9. Holders(f)' = {}
        BY <3>8 DEF Holders
      <3> QED BY <3>7, <3>9
    <2>4. \A f \in Files : InHand(f)' <=> InHand(f)
      BY CalmCall DEF InHand
    <2>5. ASSUME NEW r \in Procs, NEW e \in {"rf", "wf"},
                 pc'[r] \in {"pipealloc", "pipepage"}, taken'[r][e] # None
          PROVE  file'[taken'[r][e]].type # "pipe"
      <3>1. taken'[r][e] = taken[r][e] /\ pc'[r] = pc[r]
        BY <2>5, CalmCall
      <3>2. taken[r][e] \in Files /\ InHand(taken[r][e])
        BY <2>5, <3>1, InHands
      <3>3. file[taken[r][e]].type # "pipe"
        BY <2>5, <3>1 DEF HandInv
      <3> QED BY <2>3, <3>1, <3>2, <3>3
    <2>6. \A x, r \in Procs : \A d, e \in {"rf", "wf"} :
            taken'[x][d] # None /\ taken'[x][d] = taken'[r][e] => x = r /\ d = e
      BY CalmCall DEF HandInv
    <2>7. \A f \in Files : InHand(f)' => file'[f].ref = 1 /\ Holders(f)' = {}
      BY <2>3, <2>4
    <2> QED BY <2>5, <2>6, <2>7 DEF HandInv
  <1> QED BY <1>1, <1>2, ForkParts

LEMMA HandAlloc ==
  ASSUME TypeInv, HandsOK, Refs, HandInv, NEW p \in Procs, NEW e \in {"rf", "wf"},
         NEW f \in Files, Allocs(p, e, f), taken[p][e] = None, ofile' = ofile,
         pc'[p] = "pipealloc" \/ (pc[p] = "pipealloc" /\ pc'[p] = "pipepage"),
         \A d \in {"rf", "wf"} : pc[p] # "pipealloc" => taken[p][d] = None,
         \A r \in Procs : r # p => pc'[r] = pc[r]
  PROVE  HandInv'
  <1>1. /\ file'[f].ref = 1 /\ Holders(f) = {} /\ file'[f].type # "pipe" /\ ~InHand(f)
        /\ \A g \in Files : g # f => file'[g] = file[g]
        /\ \A r \in Procs, d \in {"rf", "wf"} :
             taken'[r][d] = IF r = p /\ d = e THEN f ELSE taken[r][d]
        /\ \A g \in Files : InHand(g)' <=> InHand(g) \/ g = f
    BY AllocIs
  <1>2. \A g \in Files : InHand(g)' => file'[g].ref = 1 /\ Holders(g)' = {}
    <2>1. \A g \in Files : Holders(g)' = Holders(g)
      BY DEF Holders
    <2> QED BY <1>1, <2>1 DEF HandInv
  <1>3. \A r \in Procs, d \in {"rf", "wf"} : taken[r][d] # f
    BY <1>1 DEF InHand
  <1>4. \A x, r \in Procs : \A d, c \in {"rf", "wf"} :
          taken'[x][d] # None /\ taken'[x][d] = taken'[r][c] => x = r /\ d = c
    <2> SUFFICES ASSUME NEW x \in Procs, NEW r \in Procs, NEW d \in {"rf", "wf"},
                        NEW c \in {"rf", "wf"}, taken'[x][d] # None, taken'[x][d] = taken'[r][c]
                 PROVE  x = r /\ d = c
        OBVIOUS
    <2>1. CASE x = p /\ d = e
      BY <1>1, <1>3, <2>1
    <2>2. CASE r = p /\ c = e
      BY <1>1, <1>3, <2>2
    <2>3. CASE ~(x = p /\ d = e) /\ ~(r = p /\ c = e)
      BY <1>1, <2>3 DEF HandInv
    <2> QED BY <2>1, <2>2, <2>3
  <1>5. ASSUME NEW r \in Procs, NEW d \in {"rf", "wf"},
               pc'[r] \in {"pipealloc", "pipepage"}, taken'[r][d] # None
        PROVE  file'[taken'[r][d]].type # "pipe"
    <2>1. CASE r = p /\ d = e
      BY <1>1, <2>1
    <2>2. CASE ~(r = p /\ d = e)
      <3>1. taken'[r][d] = taken[r][d] /\ taken[r][d] # f
        BY <1>1, <1>3, <2>2
      <3>2. pc[r] \in {"pipealloc", "pipepage"}
        BY <1>5, <3>1
      <3>3. file[taken[r][d]].type # "pipe" /\ taken[r][d] \in Files
        BY <1>5, <3>1, <3>2, InHands DEF HandInv
      <3> QED BY <1>1, <3>1, <3>3
    <2> QED BY <2>1, <2>2
  <1> QED BY <1>2, <1>4, <1>5 DEF HandInv

LEMMA HandPipeCall ==
  ASSUME TypeInv, HandsOK, Refs, HandInv, NEW p \in Procs, PipeCall(p) PROVE HandInv'
  <1>1. pc[p] = "user" /\ ofile' = ofile
    BY AboutCall DEF PipeCall
  <1>2. CASE FileAlloc(p, "rf") /\ Goto(p, "pipealloc")
    <2>1. PICK f \in Files : Allocs(p, "rf", f)
      BY <1>2, FileAllocIs
    <2>2. \A d \in {"rf", "wf"} : taken[p][d] = None
      BY <1>1, Hand DEF HandOK, Making, NoFiles
    <2>3. pc'[p] = "pipealloc" /\ \A r \in Procs : r # p => pc'[r] = pc[r]
      BY <1>2, MakingMoves DEF Making
    <2> QED BY <1>1, <2>1, <2>2, <2>3, HandAlloc
  <1>3. CASE UNCHANGED <<file, taken, pc>>
    BY <1>1, <1>3, HandStill
  <1> QED BY <1>2, <1>3 DEF PipeCall

LEMMA HandMade ==
  ASSUME TypeInv, HandsOK, Refs, HandInv, NEW p \in Procs, NEW q \in Pipes,
         Made(p, q), pc[p] = "pipepage", UNCHANGED <<ofile, taken>>
  PROVE  HandInv'
  <1>1. /\ file'[taken[p].rf] = End(q, FALSE) /\ file'[taken[p].wf] = End(q, TRUE)
        /\ \A f \in Files : f # taken[p].rf /\ f # taken[p].wf => file'[f] = file[f]
        /\ pc'[p] = "pipefds" /\ \A r \in Procs : r # p => pc'[r] = pc[r]
    BY MadeIs
  <1>2. End(q, FALSE).ref = 1 /\ End(q, TRUE).ref = 1
    BY DEF End
  <1>3. \A f \in Files : Holders(f)' = Holders(f) /\ (InHand(f)' <=> InHand(f))
    BY DEF Holders, InHand
  <1>4. ASSUME NEW f \in Files, InHand(f)' PROVE file'[f].ref = 1 /\ Holders(f)' = {}
    <2>1. file[f].ref = 1 /\ Holders(f)' = {}
      BY <1>3, <1>4 DEF HandInv
    <2> QED BY <1>1, <1>2, <2>1
  <1>5. ASSUME NEW r \in Procs, NEW e \in {"rf", "wf"},
               pc'[r] \in {"pipealloc", "pipepage"}, taken'[r][e] # None
        PROVE  file'[taken'[r][e]].type # "pipe"
    <2>1. r # p /\ pc'[r] = pc[r] /\ taken'[r][e] = taken[r][e]
      BY <1>1, <1>5
    <2>2. taken[r][e] # taken[p].rf /\ taken[r][e] # taken[p].wf
      BY <1>5, <2>1 DEF HandInv
    <2>3. taken[r][e] \in Files /\ file[taken[r][e]].type # "pipe"
      BY <1>5, <2>1, InHands DEF HandInv
    <2> QED BY <1>1, <2>1, <2>2, <2>3
  <1>6. \A x, r \in Procs : \A d, e \in {"rf", "wf"} :
          taken'[x][d] # None /\ taken'[x][d] = taken'[r][e] => x = r /\ d = e
    BY DEF HandInv
  <1> QED BY <1>4, <1>5, <1>6 DEF HandInv

LEMMA HandPipeMake ==
  ASSUME TypeInv, HandsOK, Refs, HandInv, NEW p \in Procs, PipeMake(p) PROVE HandInv'
  <1>2. ASSUME Goto(p, "unpipe"), UNCHANGED <<ofile, file, taken>> PROVE HandInv'
    <2>1. pc'[p] = "unpipe" /\ \A r \in Procs : r # p => pc'[r] = pc[r]
      BY <1>2, MakingMoves DEF Making
    <2> QED BY <1>2, <2>1, HandStill
  <1>3. CASE FileAlloc(p, "wf") /\ Goto(p, "pipepage") /\ PipeAlloc(p)
    <2>1. PICK f \in Files : Allocs(p, "wf", f)
      BY <1>3, FileAllocIs
    <2>2. pc[p] = "pipealloc" /\ ofile' = ofile
      BY <1>3 DEF PipeAlloc
    <2>3. taken[p]["wf"] = None
      BY <2>2, Hand DEF HandOK
    <2>4. pc'[p] = "pipepage" /\ \A r \in Procs : r # p => pc'[r] = pc[r]
      BY <1>3, MakingMoves DEF Making
    <2> QED BY <2>1, <2>2, <2>3, <2>4, HandAlloc
  <1>4. CASE PipeAlloc(p)
    <2>1. ofile' = ofile
      BY <1>4 DEF PipeAlloc
    <2>2. CASE Goto(p, "unpipe") /\ UNCHANGED <<file, taken>>
      BY <1>2, <2>1, <2>2
    <2> QED BY <1>3, <1>4, <2>2 DEF PipeAlloc
  <1>5. CASE PipePage(p)
    <2>1. pc[p] = "pipepage" /\ UNCHANGED <<ofile, taken>>
      BY <1>5, PageParts
    <2>2. CASE Goto(p, "unpipe") /\ UNCHANGED <<file, pipe>>
      BY <1>2, <2>1, <2>2
    <2>3. ASSUME NEW q \in Pipes, Made(p, q) PROVE HandInv'
      BY <2>1, <2>3, HandMade
    <2> QED BY <1>5, <2>2, <2>3, PageParts
  <1>6. CASE NoFds(p)
    BY <1>2, <1>6 DEF NoFds
  <1> QED BY <1>4, <1>5, <1>6 DEF PipeMake

LEMMA HandPipeDone ==
  ASSUME TypeInv, HandsOK, Refs, HandInv, NEW p \in Procs, PipeDone(p) PROVE HandInv'
  <1>1. PICK r \in Fds, w \in Fds : PipeFds(p, r, w)
    BY DEF PipeDone
  <1>2. /\ \A x \in Procs, e \in {"rf", "wf"} :
             taken'[x][e] = IF x = p THEN None ELSE taken[x][e]
        /\ \A f \in Files : f # taken[p].rf /\ f # taken[p].wf => Holders(f)' = Holders(f)
        /\ pc'[p] = "user" /\ file' = file /\ \A x \in Procs : x # p => pc'[x] = pc[x]
    BY <1>1, FdsIs
  <1>3. ASSUME NEW f \in Files, InHand(f)' PROVE file'[f].ref = 1 /\ Holders(f)' = {}
    <2>1. PICK x \in Procs, e \in {"rf", "wf"} : taken'[x][e] = f
      BY <1>3 DEF InHand
    <2>2. x # p /\ taken[x][e] = f /\ f # None
      BY <1>2, <2>1, Constants
    <2>3. f # taken[p].rf /\ f # taken[p].wf
      BY <2>2 DEF HandInv
    <2>4. file[f].ref = 1 /\ Holders(f) = {}
      BY <2>2, InHands
    <2> QED BY <1>2, <2>3, <2>4
  <1>4. \A x, y \in Procs : \A d, e \in {"rf", "wf"} :
          taken'[x][d] # None /\ taken'[x][d] = taken'[y][e] => x = y /\ d = e
    BY <1>2 DEF HandInv
  <1>5. \A x \in Procs, e \in {"rf", "wf"} :
          pc'[x] \in {"pipealloc", "pipepage"} /\ taken'[x][e] # None =>
            file'[taken'[x][e]].type # "pipe"
    BY <1>2 DEF HandInv
  <1> QED BY <1>3, <1>4, <1>5 DEF HandInv

LEMMA HandPipeFails ==
  ASSUME TypeInv, HandsOK, Refs, HandInv, NEW p \in Procs, PipeFails(p) PROVE HandInv'
  <1>1. GiveBack(p)
    BY DEF PipeFails
  <1>2. PICK f \in Files : f = GivenUp(p)
    BY <1>1, GiveBackIs
  <1>3. /\ \A g \in Files : g # f => file'[g] = file[g]
        /\ pc'[p] \in {"user", "unpipe", "pipeclose"} /\ ofile' = ofile
        /\ \A r \in Procs : r # p => pc'[r] = pc[r]
        /\ \A r \in Procs, e \in {"rf", "wf"} :
             taken'[r][e] = IF taken[r][e] = f THEN None ELSE taken[r][e]
    BY <1>1, <1>2, GiveIs
  <1>4. ASSUME NEW g \in Files, InHand(g)' PROVE file'[g].ref = 1 /\ Holders(g)' = {}
    <2>1. PICK x \in Procs, e \in {"rf", "wf"} : taken'[x][e] = g
      BY <1>4 DEF InHand
    <2>2. g # f /\ taken[x][e] = g /\ g # None
      BY <1>3, <2>1, Constants
    <2>3. file[g].ref = 1 /\ Holders(g) = {}
      BY <2>2, InHands
    <2>4. Holders(g)' = Holders(g)
      BY <1>3 DEF Holders
    <2> QED BY <1>3, <2>2, <2>3, <2>4
  <1>5. \A x, y \in Procs : \A d, e \in {"rf", "wf"} :
          taken'[x][d] # None /\ taken'[x][d] = taken'[y][e] => x = y /\ d = e
    BY <1>3 DEF HandInv
  <1>6. ASSUME NEW x \in Procs, NEW e \in {"rf", "wf"},
               pc'[x] \in {"pipealloc", "pipepage"}, taken'[x][e] # None
        PROVE  file'[taken'[x][e]].type # "pipe"
    <2>1. taken'[x][e] = taken[x][e] /\ taken[x][e] # f /\ pc[x] = pc'[x]
      BY <1>3, <1>6
    <2>2. taken[x][e] \in Files /\ file[taken[x][e]].type # "pipe"
      BY <1>6, <2>1, InHands DEF HandInv
    <2> QED BY <1>3, <2>1, <2>2
  <1> QED BY <1>4, <1>5, <1>6 DEF HandInv

LEMMA HandFinish ==
  ASSUME TypeInv, HandsOK, HandInv, NEW p \in Procs, Finish(p) PROVE HandInv'
  <1>1. PICK q : q = io[p].pipe
    OBVIOUS
  <1>2. PICK at \in {"read", "write"} : at = IF io[p].writable THEN "read" ELSE "write"
    OBVIOUS
  <1>3. /\ pc'[p] = AfterClose(taken[p]) /\ taken' = taken /\ UNCHANGED <<ofile, file>>
        /\ \A r \in Procs : r # p =>
              pc'[r] = IF pc[r] = Asleep[at] /\ io[r].kind = "pipe" /\ io[r].pipe = q
                       THEN at ELSE pc[r]
    BY <1>1, <1>2, FinishParts
  <1>4. \A r \in Procs : pc'[r] \in {"pipealloc", "pipepage"} => pc'[r] = pc[r]
    BY <1>2, <1>3 DEF AfterClose
  <1> QED BY <1>3, <1>4, HandStill

\* The other steps of a process leave descriptors and files alone.
LEMMA FilesStay ==
  ASSUME NEW p \in Procs,
         \/ Exit(p) \/ Wait(p) \/ InitReaps(p) \/ Echo(p) \/ CatRead(p) \/ CatGot(p)
         \/ Transfer(p) \/ Return(p)
  PROVE  UNCHANGED <<ofile, file>>
  <1>1. CASE Exit(p) \/ Wait(p) \/ InitReaps(p) \/ Return(p)
    BY <1>1 DEF Exit, Wait, InitReaps, Return
  <1>2. CASE Echo(p) \/ CatRead(p)
    BY <1>2 DEF Echo, CatRead, FileRead, FileWrite, Begin
  <1>3. CASE CatGot(p)
    BY <1>3 DEF CatGot, FileWrite, Begin
  <1>4. CASE Transfer(p)
    BY <1>4 DEF Transfer, PipeReadSleep, PipeReadSome, ConsoleRead, PipeWriteSome, ConsoleWrite
  <1> QED BY <1>1, <1>2, <1>3, <1>4

LEMMA HandNext ==
  TypeInv /\ HandsOK /\ Bounds /\ Refs /\ HandInv /\ [Next]_vars => HandInv'
  <1> SUFFICES ASSUME TypeInv, HandsOK, Bounds, Refs, HandInv, [Next]_vars PROVE HandInv'
      OBVIOUS
  <1>1. CASE Type
    <2>1. UNCHANGED <<ofile, file>>
      BY <1>1 DEF Type, ConsoleIntr
    <2> QED BY <1>1, <2>1, CalmType, CalmCall, HandStill
  <1>2. ASSUME NEW p \in Procs, Step(p) PROVE HandInv'
    <2>1. CASE PipeCall(p) \/ PipeMake(p) \/ PipeDone(p) \/ PipeFails(p) \/ Finish(p)
      BY <2>1, HandPipeCall, HandPipeMake, HandPipeDone, HandPipeFails, HandFinish
    <2>2. CASE ~(PipeCall(p) \/ PipeMake(p) \/ PipeDone(p) \/ PipeFails(p) \/ Finish(p))
      <3>1. Calm
        BY <1>2, <2>2, CalmStep
      <3>2. CASE ForkCall(p) \/ DupCall(p) \/ CloseCall(p) \/ ExitClose(p)
        BY <3>1, <3>2, HandForkCall, HandDupCall, HandCloseCall, HandExitClose
      <3>3. CASE ~(ForkCall(p) \/ DupCall(p) \/ CloseCall(p) \/ ExitClose(p))
        <4>1. UNCHANGED <<ofile, file>>
          BY <1>2, <2>2, <3>3, FilesStay DEF Step
        <4> QED BY <3>1, <4>1, CalmCall, HandStill
      <3> QED BY <3>2, <3>3
    <2> QED BY <2>1, <2>2
  <1>3. ASSUME NEW p \in Procs, KillOne(p) PROVE HandInv'
    <2>1. UNCHANGED <<ofile, file>>
      BY <1>3 DEF KillOne, Kill
    <2> QED BY <1>3, <2>1, CalmKillOne, CalmCall, HandStill
  <1>4. CASE UNCHANGED vars
    BY <1>4, HandStill DEF vars, kernel
  <1> QED BY <1>1, <1>2, <1>3, <1>4 DEF Next

LEMMA RefsInit == Init => Refs /\ HandInv
  <1> SUFFICES ASSUME Init PROVE Refs /\ HandInv
      OBVIOUS
  <1>12. session.open \in 3 .. NOFILE
    BY ShellAssumption DEF Init
  <1>13. PICK k \in Nat : k = session.open /\ k <= NOFILE
    BY <1>12, Constants
  <1>14. \A r \in Procs, e \in {"rf", "wf"} : taken[r][e] = None
    BY DEF Init, NoFiles
  <1>15. HandInv
    BY <1>14, Constants DEF HandInv, InHand
  <1>1. PICK c : c = [Closed EXCEPT !.ref = k, !.type = "console"]
    OBVIOUS
  <1>2. c.ref = k /\ c.type = "console" /\ Closed.ref = 0 /\ Closed.type = "none"
    BY <1>1 DEF Closed
  <1>3. file = [f \in Files |-> IF f = 1 THEN c ELSE Closed]
    BY <1>1, <1>13 DEF Init
  <1>4. \A f \in Files : /\ file[f].type # "pipe"
                         /\ file[f].ref = IF f = 1 THEN k ELSE 0
    BY <1>2, <1>3
  <1>5. \A p \in Procs : pc[p] = IF p = Sh THEN "user" ELSE "unused"
    BY DEF Init
  <1>6. \A p \in Procs, n \in Fds : ofile[p][n] = IF p = Sh /\ n < k THEN 1 ELSE None
    BY <1>13 DEF Init
  <1>7. Users
    BY <1>5 DEF Users, Using
  <1>8. \A x \in Pipes, w \in BOOLEAN : /\ \A f \in Files : ~IsEnd(f, x, w)
                                        /\ \A r \in Procs : ~Closes(r, x, w)
    BY <1>4, <1>5 DEF IsEnd, Closes
  <1>9. OneEnd
    BY <1>8 DEF OneEnd
  <1>10. EndsOpen
    <2> SUFFICES ASSUME NEW x \in Pipes
                 PROVE  /\ pipe[x].writeopen = Ends(x, TRUE)
                        /\ pipe[x].readopen = Ends(x, FALSE)
                        /\ pipe[x].used = (pipe[x].writeopen \/ pipe[x].readopen)
        BY DEF EndsOpen
    <2>1. ~Ends(x, TRUE) /\ ~Ends(x, FALSE)
      BY <1>8, EndsIs
    <2>2. Ends(x, TRUE) = FALSE /\ Ends(x, FALSE) = FALSE
      BY <2>1 DEF Ends
    <2>3. pipe[x].used = FALSE /\ pipe[x].readopen = FALSE /\ pipe[x].writeopen = FALSE
      BY DEF Init
    <2> QED BY <2>2, <2>3
  <1>11. RefInv
    <2>1. ASSUME NEW f \in Files PROVE file[f].ref = Cardinality(Holders(f))
      <3>1. CASE f = 1
        <4> DEFINE S == 0 .. k - 1
                   T == {Sh} \X S
                   g == [n \in S |-> <<Sh, n>>]
        <4>1. S \subseteq Fds /\ \A n \in Fds : n < k <=> n \in S
          BY <1>13, Constants DEF Fds
        <4>2. Holders(f) = T
          <5>1. \A x \in Procs, n \in Fds : ofile[x][n] = f <=> x = Sh /\ n \in S
            <6> SUFFICES ASSUME NEW x \in Procs, NEW n \in Fds
                         PROVE  ofile[x][n] = f <=> x = Sh /\ n \in S
                OBVIOUS
            <6>1. ofile[x][n] = IF x = Sh /\ n < k THEN 1 ELSE None
              BY <1>6
            <6>2. n < k <=> n \in S
              BY <4>1
            <6>3. None # 1
              BY Constants
            <6> QED BY <3>1, <6>1, <6>2, <6>3
          <5>2. Sh \in Procs
            BY Constants
          <5> QED BY <4>1, <5>1, <5>2 DEF Holders
        <4>3. g \in Bijection(S, T)
          BY DEF Bijection, Injection, Surjection, IsInjective
        <4>4. IsFiniteSet(S) /\ Cardinality(S) = k
          <5>1. 0 \in Int /\ k - 1 \in Int /\ k \in Nat
            BY <1>13
          <5>2. IsFiniteSet(0 .. k - 1)
            BY <5>1, FS_Interval
          <5>3. Cardinality(0 .. k - 1) = IF 0 > k - 1 THEN 0 ELSE (k - 1) - 0 + 1
            BY <5>1, FS_Interval
          <5> QED BY <5>1, <5>2, <5>3
        <4> HIDE DEF S, T, g
        <4>5. Cardinality(T) = Cardinality(S)
          BY <4>3, <4>4, FS_Bijection DEF ExistsBijection
        <4> QED BY <1>4, <3>1, <4>2, <4>4, <4>5
      <3>2. CASE f # 1
        <4>1. Holders(f) = {}
          BY <1>6, <3>2, Constants DEF Holders
        <4> QED BY <1>4, <3>2, <4>1, FS_EmptySet
      <3> QED BY <3>1, <3>2
    <2>2. \A p \in Procs : pc[p] \in {"unused", "zombie"} => \A n \in Fds : ofile[p][n] = None
      BY <1>5, <1>6
    <2> QED BY <1>4, <2>1, <2>2 DEF RefInv
  <1> QED BY <1>7, <1>9, <1>10, <1>11, <1>15 DEF Refs

LEMMA RefsNext ==
  TypeInv /\ HandsOK /\ Bounds /\ Refs /\ HandInv /\ [Next]_vars => Refs'
  <1> SUFFICES ASSUME TypeInv, HandsOK, Bounds, Refs, HandInv, [Next]_vars PROVE Refs'
      OBVIOUS
  <1>1. CASE Type
    <2>1. Quiet
      BY <1>1, CalmType, CalmCall DEF Quiet
    <2> QED BY <1>1, <2>1, RefsType
  <1>2. ASSUME NEW p \in Procs, Step(p) PROVE Refs'
    <2>1. CASE PipeCall(p) \/ PipeMake(p) \/ PipeDone(p) \/ PipeFails(p)
      BY <2>1, RefsPipeCall, RefsPipeMake, RefsPipeDone, RefsPipeFails
    <2>2. CASE Finish(p)
      <3>1. Quiet
        BY <2>2, FinishParts DEF Quiet
      <3> QED BY <2>2, <3>1, RefsFinish
    <2>3. CASE ~(PipeCall(p) \/ PipeMake(p) \/ PipeDone(p) \/ PipeFails(p) \/ Finish(p))
      <3>1. Quiet
        BY <1>2, <2>3, CalmStep, CalmCall DEF Quiet
      <3> QED BY <1>2, <2>3, <3>1, RefsForkCall, RefsDupCall, RefsCloseCall, RefsExitClose,
                 RefsExit, RefsWait, RefsInitReaps, RefsEcho, RefsCatRead, RefsCatGot,
                 RefsTransfer, RefsReturn DEF Step
    <2> QED BY <2>1, <2>2, <2>3
  <1>3. ASSUME NEW p \in Procs, KillOne(p) PROVE Refs'
    <2>1. Quiet
      BY <1>3, CalmKillOne, CalmCall DEF Quiet
    <2> QED BY <1>3, <2>1, RefsKillOne
  <1>4. CASE UNCHANGED vars
    <2>1. Quiet /\ UNCHANGED <<ofile, file, pipe, pc, io>>
      BY <1>4 DEF vars, kernel, Quiet
    <2> QED BY <2>1, RefsKeep DEF Using
  <1> QED BY <1>1, <1>2, <1>3, <1>4 DEF Next

\* A pipe that is read or written has a page.
LEMMA RefsUsed ==
  ASSUME TypeInv, Refs, NEW p \in Procs, io[p].kind = "pipe",
         pc[p] \in {"read", "readsleep", "write", "writesleep"}
  PROVE  pipe[io[p].pipe].used
  <1>1. PICK w \in BOOLEAN : Using(p, w)
    BY DEF Using
  <1>2. PICK q \in Pipes : q = io[p].pipe
    BY DEF TypeInv, IoOK
  <1>3. PICK n \in Fds : ofile[p][n] # None /\ IsEnd(ofile[p][n], q, w)
    BY <1>1, <1>2 DEF Refs, Users
  <1>4. ofile[p][n] \in Files
    BY <1>3 DEF TypeInv, FilesOK
  <1>5. Ends(q, w)
    BY <1>3, <1>4, EndsIs
  <1>6. /\ pipe[q].writeopen = Ends(q, TRUE) /\ pipe[q].readopen = Ends(q, FALSE)
        /\ pipe[q].used = (pipe[q].writeopen \/ pipe[q].readopen)
    BY DEF Refs, EndsOpen
  <1> QED BY <1>2, <1>5, <1>6

LEMMA RefsLive == TypeInv /\ Refs /\ HandInv => PipesLive
  <1> SUFFICES ASSUME TypeInv, Refs, HandInv PROVE PipesLive
      OBVIOUS
  <1>1. ASSUME NEW f \in Files
        PROVE  file[f].ref =
                 Cardinality({x \in Procs \X Fds : ofile[x[1]][x[2]] = f})
                 + Cardinality({x \in Procs \X {"rf", "wf"} : taken[x[1]][x[2]] = f})
    <2> DEFINE H == {x \in Procs \X {"rf", "wf"} : taken[x[1]][x[2]] = f}
    <2>1. CASE InHand(f)
      <3>1. PICK r \in Procs, e \in {"rf", "wf"} : taken[r][e] = f
        BY <2>1 DEF InHand
      <3>2. \A x \in Procs, d \in {"rf", "wf"} : taken[x][d] = f <=> x = r /\ d = e
        BY <3>1, Constants DEF HandInv
      <3>3. H = {<<r, e>>}
        BY <3>2
      <3>4. Cardinality(H) = 1
        BY <3>3, FS_Singleton
      <3>5. file[f].ref = 1 /\ Holders(f) = {}
        BY <2>1 DEF HandInv
      <3>6. Cardinality(Holders(f)) = 0
        BY <3>5, FS_EmptySet
      <3> HIDE DEF H
      <3>7. file[f].ref = Cardinality(Holders(f)) + Cardinality(H)
        BY <3>4, <3>5, <3>6
      <3> QED BY <3>7 DEF H, Holders
    <2>2. CASE ~InHand(f)
      <3>1. H = {}
        BY <2>2 DEF InHand
      <3>2. Cardinality(H) = 0
        BY <3>1, FS_EmptySet
      <3> HIDE DEF H
      <3>3. file[f].ref = Cardinality(Holders(f)) + Cardinality(H)
        BY <2>2, <3>2, HoldersFinite DEF Refs, RefInv
      <3> QED BY <3>3 DEF H, Holders
    <2> QED BY <2>1, <2>2
  <1> QED BY <1>1, RefsUsed DEF PipesLive, Refs, EndsOpen

-----------------------------------------------------------------------------
(* No wakeup is lost.                                                      *)

DataWakes == \A r \in Procs : DataOK(r)
WaitWakes == \A r \in Procs : WaitOK(r)
Sleeps    == {"readsleep", "writesleep"}

\* The steps that leave pipes and the console alone.
LEMMA DataKeep ==
  ASSUME DataWakes, UNCHANGED <<pipe, input, unwoken>>,
         \A r \in Procs : pc'[r] \in Sleeps => pc'[r] = pc[r] /\ io'[r] = io[r]
  PROVE  DataWakes'
  <1> SUFFICES ASSUME NEW r \in Procs PROVE DataOK(r)'
      BY DEF DataWakes
  <1>1. CASE pc'[r] \in Sleeps
    <2>1. pc'[r] = pc[r] /\ io'[r] = io[r] /\ DataOK(r)
      BY <1>1 DEF DataWakes
    <2> QED BY <2>1 DEF DataOK, Bytes, Room
  <1>2. CASE pc'[r] \notin Sleeps
    BY <1>2 DEF DataOK, Sleeps
  <1> QED BY <1>1, <1>2

\* The steps of one process that does not go to sleep.
LEMMA DataMove ==
  ASSUME DataWakes, UNCHANGED <<pipe, input, unwoken>>, NEW p \in Procs, pc'[p] \notin Sleeps,
         \A r \in Procs : r # p => pc'[r] = pc[r] /\ io'[r] = io[r]
  PROVE  DataWakes'
  BY DataKeep

\* What the steps of a call of pipe do to the processes and to the pipes.
LEMMA CallMoves ==
  ASSUME TypeInv, HandsOK, NEW p \in Procs,
         PipeCall(p) \/ PipeMake(p) \/ PipeDone(p) \/ PipeFails(p)
  PROVE  /\ pc[p] \in {"user"} \cup Making /\ pc'[p] \in {"user", "pipeclose"} \cup Making
         /\ \A r \in Procs : r # p => pc'[r] = pc[r] /\ io'[r] = io[r]
         /\ UNCHANGED <<input, unwoken, parent>>
         /\ pipe' = pipe \/ \E q \in Pipes : Made(p, q)
  <1>1. UNCHANGED <<input, unwoken, parent>>
    BY DEF PipeCall, PipeMake, PipeDone, PipeFails, progs
  <1>2. ASSUME NEW w \in {"user"} \cup Making, Goto(p, w)
        PROVE  pc'[p] = w /\ \A r \in Procs : r # p => pc'[r] = pc[r]
    BY <1>2, MakingMoves
  <1>3. CASE PipeCall(p)
    <2>1. pc[p] = "user" /\ UNCHANGED <<pipe, io>>
      BY <1>3, AboutCall DEF PipeCall
    <2>2. CASE Goto(p, "pipealloc")
      BY <1>1, <1>2, <2>1, <2>2 DEF Making
    <2>3. CASE pc' = pc
      BY <1>1, <2>1, <2>3
    <2> QED BY <1>3, <2>2, <2>3 DEF PipeCall
  <1>4. CASE PipeMake(p)
    <2>1. io' = io /\ pc[p] \in Making
      BY <1>4 DEF PipeMake, PipeAlloc, PipePage, NoFds, Making
    <2>2. \/ Goto(p, "pipepage") /\ pipe' = pipe
          \/ Goto(p, "unpipe") /\ pipe' = pipe
          \/ Goto(p, "pipefds") /\ \E q \in Pipes : Made(p, q)
      <3>1. CASE PipeAlloc(p)
        BY <3>1 DEF PipeAlloc
      <3>2. CASE PipePage(p)
        BY <3>2, PageParts DEF Made
      <3>3. CASE NoFds(p)
        BY <3>3 DEF NoFds
      <3> QED BY <1>4, <3>1, <3>2, <3>3 DEF PipeMake
    <2>3. ASSUME NEW w \in {"pipepage", "unpipe", "pipefds"}, Goto(p, w)
          PROVE  pc'[p] \in Making /\ \A r \in Procs : r # p => pc'[r] = pc[r]
      BY <1>2, <2>3 DEF Making
    <2> QED BY <1>1, <2>1, <2>2, <2>3
  <1>5. CASE PipeDone(p)
    <2>1. pc[p] = "pipefds" /\ Goto(p, "user") /\ UNCHANGED <<pipe, io>>
      BY <1>5 DEF PipeDone, PipeFds
    <2> QED BY <1>1, <1>2, <2>1 DEF Making
  <1>6. CASE PipeFails(p)
    <2>1. /\ pc[p] = "unpipe" /\ GivenUp(p) \in Files /\ pipe' = pipe
          /\ FileClose(p, GivenUp(p), AfterClose(Left(p)))
          /\ AfterClose(Left(p)) \in {"user", "unpipe"}
      BY <1>6, GiveBackIs DEF PipeFails
    <2>2. /\ pc'[p] \in {"user", "unpipe", "pipeclose"}
          /\ \A r \in Procs : r # p => pc'[r] = pc[r] /\ io'[r] = io[r]
      BY <2>1, FileCloseTypes
    <2> QED BY <1>1, <2>1, <2>2 DEF Making
  <1> QED BY <1>3, <1>4, <1>5, <1>6

LEMMA DataCalls ==
  ASSUME TypeInv, HandsOK, Refs, DataWakes, NEW p \in Procs,
         PipeCall(p) \/ PipeMake(p) \/ PipeDone(p) \/ PipeFails(p)
  PROVE  DataWakes'
  <1>1. /\ pc'[p] \notin Sleeps /\ \A r \in Procs : r # p => pc'[r] = pc[r] /\ io'[r] = io[r]
        /\ UNCHANGED <<input, unwoken>>
    BY CallMoves DEF Sleeps, Making
  <1>2. ASSUME NEW q \in Pipes, Made(p, q) PROVE DataWakes'
    <2>1. PICK c : c = [pipe[q] EXCEPT !.used = TRUE, !.nread = 0, !.nwrite = 0,
                                       !.readopen = TRUE, !.writeopen = TRUE]
      OBVIOUS
    <2>2. pipe' = [pipe EXCEPT ![q] = c]
      BY <1>2, <2>1 DEF Made
    <2>3. ~pipe[q].used /\ \A x \in Pipes : x # q => pipe'[x] = pipe[x]
      BY <1>2, <2>2 DEF TypeInv, Made
    <2> SUFFICES ASSUME NEW r \in Procs PROVE DataOK(r)'
        BY DEF DataWakes
    <2>4. DataOK(r)
      BY DEF DataWakes
    <2>5. CASE r = p
      BY <1>1, <2>5 DEF DataOK, Sleeps
    <2>6. CASE r # p /\ pc[r] \in Sleeps /\ io[r].kind = "pipe"
      <3>1. pipe[io[r].pipe].used /\ io[r].pipe \in Pipes
        BY <2>6, RefsUsed DEF Sleeps, TypeInv, IoOK
      <3>2. pipe'[io[r].pipe] = pipe[io[r].pipe]
        BY <2>3, <3>1
      <3> QED BY <1>1, <2>4, <2>6, <3>2 DEF DataOK, Bytes, Room
    <2>7. CASE r # p /\ ~(pc[r] \in Sleeps /\ io[r].kind = "pipe")
      BY <1>1, <2>4, <2>7 DEF DataOK, Sleeps
    <2> QED BY <2>5, <2>6, <2>7
  <1> QED BY <1>1, <1>2, CallMoves, DataMove

LEMMA DataForkCall ==
  ASSUME TypeInv, DataWakes, NEW p \in Procs, ForkCall(p) PROVE DataWakes'
  <1>1. UNCHANGED <<pipe, input, io, unwoken>>
    BY ForkParts
  <1>2. \A r \in Procs : pc'[r] \in Sleeps => pc'[r] = pc[r]
    BY ForkParts DEF TypeInv, Sleeps
  <1> QED BY <1>1, <1>2, DataKeep

LEMMA DataDupCall == ASSUME DataWakes, NEW p \in Procs, DupCall(p) PROVE DataWakes'
  <1>1. UNCHANGED <<pipe, input, unwoken, pc, io>>
    BY DEF DupCall
  <1> QED BY <1>1, DataKeep

LEMMA DataCloseCall ==
  ASSUME TypeInv, DataWakes, NEW p \in Procs, CloseCall(p) PROVE DataWakes'
  <1> DEFINE n == env[p][Head(todo[p]).fd]
  <1>1. About(p, "close") /\ UNCHANGED <<pipe, input, unwoken>>
    BY DEF CloseCall
  <1>2. pc[p] = "user" /\ n \in Fds
    BY <1>1, AboutCall, AboutDescriptor
  <1>3. IF ofile[p][n] # None THEN Close(p, n, "user") ELSE UNCHANGED <<ofile, file, pc, io>>
    BY DEF CloseCall
  <1> HIDE DEF n
  <1>4. CASE ofile[p][n] # None
    <2>1. /\ pc'[p] \in {"user", "pipeclose"}
          /\ \A r \in Procs : r # p => pc'[r] = pc[r] /\ io'[r] = io[r]
      BY <1>2, <1>3, <1>4, CloseTypes
    <2> QED BY <1>1, <2>1, DataMove DEF Sleeps
  <1>5. CASE ofile[p][n] = None
    BY <1>1, <1>3, <1>5, DataKeep
  <1> QED BY <1>4, <1>5

LEMMA DataExitClose ==
  ASSUME TypeInv, DataWakes, NEW p \in Procs, ExitClose(p) PROVE DataWakes'
  <1>1. PICK n : n = Least({m \in Fds : ofile[p][m] # None})
    OBVIOUS
  <1>2. n \in Fds /\ ofile[p][n] # None
    BY <1>1, NextOpen DEF ExitClose
  <1>3. pc[p] = "user" /\ Close(p, n, "user") /\ UNCHANGED <<pipe, input, unwoken>>
    BY <1>1 DEF ExitClose, About
  <1>4. /\ pc'[p] \in {"user", "pipeclose"}
        /\ \A r \in Procs : r # p => pc'[r] = pc[r] /\ io'[r] = io[r]
    BY <1>2, <1>3, CloseTypes
  <1> QED BY <1>3, <1>4, DataMove DEF Sleeps

LEMMA DataExit == ASSUME TypeInv, DataWakes, NEW p \in Procs, Exit(p) PROVE DataWakes'
  <1>1. /\ UNCHANGED <<pipe, input, unwoken, io>>
        /\ \A r \in Procs : pc'[r] \in Sleeps => pc'[r] = pc[r]
    BY ExitMoves DEF Sleeps
  <1> QED BY <1>1, DataKeep

LEMMA DataWait == ASSUME TypeInv, DataWakes, NEW p \in Procs, Wait(p) PROVE DataWakes'
  <1>1. /\ UNCHANGED <<pipe, input, unwoken, io>>
        /\ \A r \in Procs : pc'[r] \in Sleeps => pc'[r] = pc[r]
    BY WaitMoves DEF Sleeps
  <1> QED BY <1>1, DataKeep

LEMMA DataInitReaps == ASSUME TypeInv, DataWakes, NEW p \in Procs, InitReaps(p) PROVE DataWakes'
  BY InitReapsMoves, DataMove DEF Sleeps

LEMMA DataEcho == ASSUME TypeInv, DataWakes, NEW p \in Procs, Echo(p) PROVE DataWakes'
  BY EchoParts, DataMove DEF Sleeps

LEMMA DataCatRead == ASSUME TypeInv, DataWakes, NEW p \in Procs, CatRead(p) PROVE DataWakes'
  BY CatReadParts, DataMove DEF Sleeps

LEMMA DataCatGot == ASSUME TypeInv, DataWakes, NEW p \in Procs, CatGot(p) PROVE DataWakes'
  BY CatGotParts, DataMove DEF Sleeps

LEMMA DataReturn == ASSUME TypeInv, DataWakes, NEW p \in Procs, Return(p) PROVE DataWakes'
  BY ReturnParts, DataMove DEF Sleeps

LEMMA DataKillOne == ASSUME TypeInv, DataWakes, NEW p \in Procs, KillOne(p) PROVE DataWakes'
  <1>1. \A r \in Procs : pc'[r] \in Sleeps => pc'[r] = pc[r]
    BY Rouses DEF Sleeps
  <1> QED BY <1>1, Rouses, DataKeep

LEMMA DataConsoleWrite ==
  ASSUME TypeInv, DataWakes, NEW p \in Procs, ConsoleWrite(p) PROVE DataWakes'
  BY ConsoleWriteParts, DataMove DEF Sleeps

\* A reader goes to sleep on an empty pipe, or on the console.
LEMMA DataPipeReadSleep ==
  ASSUME TypeInv, DataWakes, NEW p \in Procs, PipeReadSleep(p) PROVE DataWakes'
  <1>1. PICK w \in {"failed", "readsleep"} : Goto(p, w)
    BY DEF PipeReadSleep
  <1>2. w \in Places
    BY DEF Places, Blocked
  <1>3. pc'[p] = w /\ \A r \in Procs : r # p => pc'[r] = pc[r]
    BY <1>1, <1>2, GotoPlaces
  <1>4. /\ UNCHANGED <<io, pipe, input, unwoken>> /\ io[p].kind = "pipe"
        /\ Bytes(io[p].pipe) = 0 /\ pipe[io[p].pipe].writeopen
    BY DEF PipeReadSleep
  <1> SUFFICES ASSUME NEW r \in Procs PROVE DataOK(r)'
      BY DEF DataWakes
  <1>5. CASE r = p
    BY <1>3, <1>4, <1>5 DEF DataOK, Bytes
  <1>6. CASE r # p
    <2>1. DataOK(r)
      BY DEF DataWakes
    <2> QED BY <1>3, <1>4, <1>6, <2>1 DEF DataOK, Bytes, Room
  <1> QED BY <1>5, <1>6

LEMMA DistanceZero ==
  ASSUME NEW a \in Count, NEW b \in Count, (a - b) % Width = 0
  PROVE  a = b
  <1>1. (a - b) % Width = IF b <= a THEN a - b ELSE a - b + Width
    BY Distance
  <1>2. a \in Int /\ b \in Int /\ Width \in Int /\ 0 <= a /\ a < Width /\ 0 <= b /\ b < Width
    BY Constants DEF Count
  <1> QED BY <1>1, <1>2

LEMMA DataConsoleRead ==
  ASSUME TypeInv, Bounds, DataWakes, NEW p \in Procs, ConsoleRead(p, CatBuf) PROVE DataWakes'
  <1>1. PICK used \in 0 .. (input.w - input.r) % Width :
           /\ input' \in InputRec /\ input'.r = (input.r + used) % Width
           /\ input'.w = input.w
           /\ io'[p].kind = "console"
           /\ \A x \in Procs : x # p => io'[x] = io[x]
           /\ pc'[p] \in {"got", "failed", "readsleep"}
           /\ \A x \in Procs : x # p => pc'[x] = pc[x]
           /\ pc'[p] = "readsleep" => used = (input.w - input.r) % Width
           /\ pipe' = pipe
    BY Reading, ConsoleReadParts
  <1>2. unwoken' = unwoken
    BY DEF ConsoleRead
  <1>3. PICK m : m = (input.w - input.r) % Width
    OBVIOUS
  <1>4. m \in Nat /\ m < Width /\ used \in Nat /\ used <= m /\ used \in 0 .. Width
    BY <1>1, <1>3, InputIn, DistanceIn, Constants
  <1>5. (input.w - input'.r) % Width = m - used
    BY <1>1, <1>3, <1>4, InputIn, Shorten
  <1>6. input'.r \in Count /\ input.w \in Count
    BY <1>1, InputIn DEF InputRec
  <1>7. used = m => input'.r = input'.w
    BY <1>1, <1>4, <1>5, <1>6, DistanceZero
  <1>8. input.r = input.w => input'.r = input'.w
    <2> SUFFICES ASSUME input.r = input.w PROVE used = m
        BY <1>7
    <2>1. m = 0
      BY <1>3, <1>6, Distance, Constants DEF Count
    <2> QED BY <1>4, <2>1
  <1> SUFFICES ASSUME NEW r \in Procs PROVE DataOK(r)'
      BY DEF DataWakes
  <1>9. CASE r = p
    BY <1>1, <1>3, <1>7, <1>9 DEF DataOK
  <1>10. CASE r # p
    <2>1. DataOK(r)
      BY DEF DataWakes
    <2> QED BY <1>1, <1>2, <1>8, <1>10, <2>1 DEF DataOK, Bytes, Room
  <1> QED BY <1>9, <1>10

LEMMA DataType == ASSUME TypeInv, Bounds, DataWakes, Type PROVE DataWakes'
  <1>1. PICK c \in Byte : ConsoleIntr(c)
    BY TypeKeys
  <1>2. UNCHANGED <<pipe, io, unwoken>>
    BY <1>1, KeyDoes
  <1>3. \/ input'.r = input.r /\ input'.w = input.w /\ pc' = pc
        \/ /\ input'.r = input.r
           /\ \A r \in Procs : pc'[r] = IF pc[r] = "readsleep" /\ io[r].kind = "console"
                                        THEN "read" ELSE pc[r]
    <2>1. CASE \E k \in 0 .. (input.e - input.w) % Width : Erases(k)
      <3>1. (input.e - input.w) % Width \in Nat
        BY InputIn, DistanceIn
      <3>2. PICK k \in Nat : Erases(k)
        BY <2>1, <3>1
      <3> QED BY <3>2, ErasesInput DEF Erases
    <2>2. CASE UNCHANGED <<input, pc>>
      BY <2>2
    <2>3. CASE Stored
      BY <2>3, WakeReadersIs DEF Stored
    <2> QED BY <1>1, <2>1, <2>2, <2>3, KeyDoes
  <1> SUFFICES ASSUME NEW r \in Procs PROVE DataOK(r)'
      BY DEF DataWakes
  <1>4. DataOK(r)
    BY DEF DataWakes
  <1> QED BY <1>2, <1>3, <1>4 DEF DataOK, Bytes, Room

LEMMA DataPipeReadSome ==
  ASSUME TypeInv, DataWakes, NEW p \in Procs, PipeReadSome(p, CatBuf) PROVE DataWakes'
  <1>1. PICK q : q = io[p].pipe
    OBVIOUS
  <1>2. PICK k : k = Takes(q, CatBuf)
    OBVIOUS
  <1>3. CatBuf \in Nat
    BY Constants
  <1>4. /\ q \in Pipes /\ k \in Nat /\ k <= Bytes(q) /\ k \in 0 .. Width
        /\ \A r \in Procs : r # p => io'[r] = io[r]
        /\ pc'[p] = "got"
        /\ \A r \in Procs : r # p =>
             pc'[r] = IF pc[r] = "writesleep" /\ io[r].kind = "pipe" /\ io[r].pipe = q
                      THEN "write" ELSE pc[r]
        /\ pipe'[q].nread = (pipe[q].nread + k) % Width
        /\ pipe'[q].nwrite = pipe[q].nwrite
        /\ pipe'[q].readopen = pipe[q].readopen /\ pipe'[q].writeopen = pipe[q].writeopen
        /\ \A r \in Pipes : r # q => pipe'[r] = pipe[r]
        /\ input' = input
    BY <1>1, <1>2, <1>3, PipeReadParts
  <1>5. Bytes(q)' = Bytes(q) - k
    BY <1>4, BytesIn, Shorten DEF Bytes
  <1>6. unwoken' = IF k = Bytes(q) THEN unwoken \ {q} ELSE unwoken
    BY <1>1, <1>2 DEF PipeReadSome
  <1>7. Bytes(q) \in Nat
    BY <1>4, BytesIn
  <1>8. Bytes(q)' = (pipe'[q].nwrite - pipe'[q].nread) % Width
    BY DEF Bytes
  <1> SUFFICES ASSUME NEW r \in Procs PROVE DataOK(r)'
      BY DEF DataWakes
  <1>9. CASE r = p
    BY <1>4, <1>9 DEF DataOK
  <1>10. CASE r # p
    <2>1. DataOK(r) /\ io'[r] = io[r]
      BY <1>4, <1>10 DEF DataWakes
    <2>2. CASE pc'[r] \notin Sleeps
      BY <2>2 DEF DataOK, Sleeps
    <2>3. CASE pc'[r] \in Sleeps /\ io[r].kind # "pipe"
      BY <1>4, <1>10, <2>1, <2>3 DEF DataOK, Sleeps
    <2>4. CASE pc'[r] \in Sleeps /\ io[r].kind = "pipe" /\ io[r].pipe # q
      <3>1. io[r].pipe \in Pipes
        BY <2>4 DEF TypeInv, IoOK
      <3>2. pipe'[io[r].pipe] = pipe[io[r].pipe] /\ pc'[r] = pc[r]
        BY <1>4, <1>10, <2>4, <3>1 DEF Sleeps
      <3>3. io[r].pipe \in unwoken => io[r].pipe \in unwoken'
        BY <1>6, <2>4
      <3> QED BY <2>1, <2>4, <3>2, <3>3 DEF DataOK, Bytes, Room
    <2>5. CASE pc'[r] \in Sleeps /\ io[r].kind = "pipe" /\ io[r].pipe = q
      <3>1. pc'[r] = "readsleep" /\ pc[r] = "readsleep"
        BY <1>4, <1>10, <2>5 DEF Sleeps
      <3>2. pipe[q].writeopen /\ (Bytes(q) = 0 \/ q \in unwoken)
        BY <2>1, <2>5, <3>1 DEF DataOK
      <3>3. Bytes(q)' = 0 \/ q \in unwoken'
        <4>1. CASE k = Bytes(q)
          BY <1>5, <1>7, <4>1
        <4>2. CASE k # Bytes(q)
          BY <1>4, <1>6, <1>7, <3>2, <4>2
        <4> QED BY <4>1, <4>2
      <3>4. (pipe[io[r].pipe].writeopen /\ (Bytes(io[r].pipe) = 0 \/ io[r].pipe \in unwoken))'
        BY <1>4, <1>8, <2>1, <2>5, <3>2, <3>3 DEF Bytes
      <3> QED BY <2>1, <2>5, <3>1, <3>4 DEF DataOK
    <2> QED BY <2>2, <2>3, <2>4, <2>5
  <1> QED BY <1>9, <1>10

LEMMA DataPipeWriteSome ==
  ASSUME TypeInv, Bounds, DataWakes, NEW p \in Procs, PipeWriteSome(p) PROVE DataWakes'
  <1>1. PICK q : q = io[p].pipe
    OBVIOUS
  <1>2. PICK k : k = Smaller(Room(q), Len(io[p].bytes))
    OBVIOUS
  <1>3. PICK rest : rest = SubSeq(io[p].bytes, k + 1, Len(io[p].bytes))
    OBVIOUS
  <1>4. PICK stop \in BOOLEAN : stop <=> (rest # <<>> /\ (~pipe[q].readopen \/ killed[p]))
    <2>1. CASE rest # <<>> /\ (~pipe[q].readopen \/ killed[p])
      BY <2>1
    <2>2. CASE ~(rest # <<>> /\ (~pipe[q].readopen \/ killed[p]))
      BY <2>2
    <2> QED BY <2>1, <2>2
  <1>5. PICK s : s = SubSeq(io[p].bytes, 1, k)
    OBVIOUS
  <1>6. /\ q \in Pipes /\ k \in 0 .. Width /\ k <= Room(q)
        /\ rest # <<>> => k = Room(q)
        /\ s \in Seq(Byte) /\ Len(s) = k /\ Put(q, s)
        /\ io'[p].kind = "pipe" /\ io'[p].pipe = q
        /\ \A r \in Procs : r # p => io'[r] = io[r]
        /\ input' = input
    BY <1>1, <1>2, <1>3, <1>5, PipeWriteParts
  <1>7. IF stop
        THEN /\ pc'[p] = "failed" /\ \A r \in Procs : r # p => pc'[r] = pc[r]
             /\ unwoken' = IF k = 0 THEN unwoken ELSE unwoken \cup {q}
        ELSE /\ pc'[p] = IF rest = <<>> THEN "user" ELSE "writesleep"
             /\ \A r \in Procs : r # p =>
                  pc'[r] = IF pc[r] = "readsleep" /\ io[r].kind = "pipe" /\ io[r].pipe = q
                           THEN "read" ELSE pc[r]
             /\ unwoken' = unwoken \ {q}
    <2>1. CASE stop
      <3>1. rest # <<>> /\ (~pipe[q].readopen \/ killed[p])
        BY <1>4, <2>1
      <3>2. pc'[p] = "failed" /\ \A r \in Procs : r # p => pc'[r] = pc[r]
        BY <1>1, <1>2, <1>3, <3>1, PipeWriteParts
      <3>3. unwoken' = IF k = 0 THEN unwoken ELSE unwoken \cup {q}
        BY <1>1, <1>2, <1>3, <3>1, PipeWriteParts
      <3> QED BY <2>1, <3>2, <3>3
    <2>2. CASE ~stop
      <3>1. ~(rest # <<>> /\ (~pipe[q].readopen \/ killed[p]))
        BY <1>4, <2>2
      <3>2. pc'[p] = IF rest = <<>> THEN "user" ELSE "writesleep"
        BY <1>1, <1>2, <1>3, <3>1, PipeWriteParts
      <3>3. \A r \in Procs : r # p =>
              pc'[r] = IF pc[r] = "readsleep" /\ io[r].kind = "pipe" /\ io[r].pipe = q
                       THEN "read" ELSE pc[r]
        BY <1>1, <1>2, <1>3, <3>1, PipeWriteParts
      <3>4. unwoken' = unwoken \ {q}
        BY <1>1, <1>2, <1>3, <3>1, PipeWriteParts
      <3> QED BY <2>2, <3>2, <3>3, <3>4
    <2> QED BY <2>1, <2>2
  <1>8. /\ Bytes(q)' = Bytes(q) + k
        /\ \A x \in Pipes : x # q => Bytes(x)' = Bytes(x)
    BY <1>6, PutBytes
  <1>9. /\ pipe'[q].readopen = pipe[q].readopen /\ pipe'[q].writeopen = pipe[q].writeopen
        /\ \A x \in Pipes : x # q => pipe'[x] = pipe[x]
    BY <1>6, PutPipe
  <1>10. Room(q) \in Nat /\ Room(q) + Bytes(q) = PIPESIZE /\ Bytes(q) \in Nat
         /\ PIPESIZE \in Nat /\ k \in Nat
    BY <1>6, RoomIn, BytesIn, Constants
  <1>11. Room(q)' = PIPESIZE - Bytes(q)'
    BY DEF Room
  <1> SUFFICES ASSUME NEW r \in Procs PROVE DataOK(r)'
      BY DEF DataWakes
  <1>12. CASE r = p
    <2>1. CASE pc'[p] = "writesleep"
      <3>1. ~stop /\ rest # <<>>
        BY <1>7, <2>1
      <3>2. pipe[q].readopen
        BY <1>4, <3>1
      <3>3. Room(q)' = 0
        BY <1>6, <1>8, <1>10, <1>11, <3>1
      <3>4. (pipe[io[p].pipe].readopen /\ Room(io[p].pipe) = 0)'
        BY <1>6, <1>9, <3>2, <3>3 DEF Room, Bytes
      <3> QED BY <1>6, <1>12, <2>1, <3>4 DEF DataOK
    <2>2. CASE pc'[p] # "writesleep"
      BY <1>7, <1>12, <2>2 DEF DataOK
    <2> QED BY <2>1, <2>2
  <1>13. CASE r # p
    <2>1. DataOK(r) /\ io'[r] = io[r]
      BY <1>6, <1>13 DEF DataWakes
    <2>2. CASE pc'[r] \notin Sleeps
      BY <2>2 DEF DataOK, Sleeps
    <2>a. pc'[r] \in Sleeps => pc'[r] = pc[r]
      BY <1>7, <1>13 DEF Sleeps
    <2>3. CASE pc'[r] \in Sleeps /\ io[r].kind # "pipe"
      BY <1>6, <2>1, <2>3, <2>a DEF DataOK, Sleeps
    <2>4. CASE pc'[r] \in Sleeps /\ io[r].kind = "pipe" /\ io[r].pipe # q
      <3>1. io[r].pipe \in Pipes
        BY <2>4 DEF TypeInv, IoOK
      <3>2. pipe'[io[r].pipe] = pipe[io[r].pipe]
        BY <1>9, <2>4, <3>1
      <3>3. io[r].pipe \in unwoken => io[r].pipe \in unwoken'
        BY <1>7, <2>4
      <3> QED BY <2>1, <2>4, <2>a, <3>2, <3>3 DEF DataOK, Bytes, Room
    <2>5. CASE pc'[r] = "writesleep" /\ io[r].kind = "pipe" /\ io[r].pipe = q
      <3>1. pipe[q].readopen /\ Room(q) = 0
        BY <2>1, <2>5, <2>a DEF DataOK, Sleeps
      <3>2. Room(q)' = 0
        BY <1>6, <1>8, <1>10, <1>11, <3>1
      <3>3. (pipe[io[r].pipe].readopen /\ Room(io[r].pipe) = 0)'
        BY <1>9, <2>1, <2>5, <3>1, <3>2 DEF Room, Bytes
      <3> QED BY <2>1, <2>5, <3>3 DEF DataOK
    <2>6. CASE pc'[r] = "readsleep" /\ io[r].kind = "pipe" /\ io[r].pipe = q
      <3>1. stop
        BY <1>7, <1>13, <2>6, <2>a DEF Sleeps
      <3>2. pipe[q].writeopen /\ (Bytes(q) = 0 \/ q \in unwoken)
        BY <2>1, <2>6, <2>a DEF DataOK, Sleeps
      <3>3. Bytes(q)' = 0 \/ q \in unwoken'
        BY <1>7, <1>8, <1>10, <3>1, <3>2
      <3>4. (pipe[io[r].pipe].writeopen /\ (Bytes(io[r].pipe) = 0 \/ io[r].pipe \in unwoken))'
        BY <1>9, <2>1, <2>6, <3>2, <3>3 DEF Bytes
      <3> QED BY <2>1, <2>6, <3>4 DEF DataOK
    <2> QED BY <2>2, <2>3, <2>4, <2>5, <2>6 DEF Sleeps
  <1> QED BY <1>12, <1>13

LEMMA DataFinish == ASSUME TypeInv, DataWakes, NEW p \in Procs, Finish(p) PROVE DataWakes'
  <1>1. PICK q : q = io[p].pipe
    OBVIOUS
  <1>2. PICK v : v = io[p].writable
    OBVIOUS
  <1>3. PICK at \in {"read", "write"} : at = IF v THEN "read" ELSE "write"
    OBVIOUS
  <1>4. /\ q \in Pipes /\ v \in BOOLEAN /\ pc'[p] \in {"user", "unpipe"}
        /\ UNCHANGED <<input, io>>
        /\ \A r \in Procs : r # p =>
             pc'[r] = IF pc[r] = Asleep[at] /\ io[r].kind = "pipe" /\ io[r].pipe = q
                      THEN at ELSE pc[r]
    BY <1>1, <1>2, <1>3, FinishParts DEF AfterClose
  <1>5. /\ pipe'[q].nread = pipe[q].nread /\ pipe'[q].nwrite = pipe[q].nwrite
        /\ pipe'[q].readopen = (pipe[q].readopen /\ v)
        /\ pipe'[q].writeopen = (pipe[q].writeopen /\ ~v)
        /\ \A r \in Pipes : r # q => pipe'[r] = pipe[r]
        /\ unwoken' = IF v THEN unwoken \ {q} ELSE unwoken
    BY <1>1, <1>2, FinishParts
  <1> SUFFICES ASSUME NEW r \in Procs PROVE DataOK(r)'
      BY DEF DataWakes
  <1>6. CASE r = p
    BY <1>4, <1>6 DEF DataOK
  <1>7. CASE r # p
    <2>1. DataOK(r)
      BY DEF DataWakes
    <2>2. CASE pc'[r] \notin Sleeps
      BY <2>2 DEF DataOK, Sleeps
    <2>3. pc'[r] \in Sleeps => pc'[r] = pc[r]
      BY <1>3, <1>4, <1>7 DEF Sleeps
    <2>4. CASE pc'[r] \in Sleeps /\ io[r].kind # "pipe"
      BY <1>4, <2>1, <2>3, <2>4 DEF DataOK, Sleeps
    <2>5. CASE pc'[r] \in Sleeps /\ io[r].kind = "pipe" /\ io[r].pipe # q
      <3>1. io[r].pipe \in Pipes
        BY <2>5 DEF TypeInv, IoOK
      <3>2. pipe'[io[r].pipe] = pipe[io[r].pipe]
        BY <1>5, <2>5, <3>1
      <3>3. io[r].pipe \in unwoken => io[r].pipe \in unwoken'
        BY <1>5, <2>5
      <3> QED BY <1>4, <2>1, <2>3, <2>5, <3>2, <3>3 DEF DataOK, Bytes, Room
    <2>6. CASE pc'[r] = "readsleep" /\ io[r].kind = "pipe" /\ io[r].pipe = q
      <3>1. v = FALSE
        BY <1>3, <1>4, <1>7, <2>3, <2>6 DEF Sleeps, Asleep
      <3>2. pipe[q].writeopen /\ (Bytes(q) = 0 \/ q \in unwoken)
        BY <2>1, <2>3, <2>6 DEF DataOK, Sleeps
      <3>3. (pipe[io[r].pipe].writeopen /\ (Bytes(io[r].pipe) = 0 \/ io[r].pipe \in unwoken))'
        BY <1>4, <1>5, <2>6, <3>1, <3>2 DEF Bytes
      <3> QED BY <1>4, <2>6, <3>3 DEF DataOK
    <2>7. CASE pc'[r] = "writesleep" /\ io[r].kind = "pipe" /\ io[r].pipe = q
      <3>1. v = TRUE
        BY <1>3, <1>4, <1>7, <2>3, <2>7 DEF Sleeps, Asleep
      <3>2. pipe[q].readopen /\ Room(q) = 0
        BY <2>1, <2>3, <2>7 DEF DataOK, Sleeps
      <3>3. (pipe[io[r].pipe].readopen /\ Room(io[r].pipe) = 0)'
        BY <1>4, <1>5, <2>7, <3>1, <3>2 DEF Room, Bytes
      <3> QED BY <1>4, <2>7, <3>3 DEF DataOK
    <2> QED BY <2>2, <2>4, <2>5, <2>6, <2>7 DEF Sleeps
  <1> QED BY <1>6, <1>7

LEMMA DataNext ==
  TypeInv /\ HandsOK /\ Bounds /\ Refs /\ DataWakes /\ [Next]_vars => DataWakes'
  <1> SUFFICES ASSUME TypeInv, HandsOK, Bounds, Refs, DataWakes, [Next]_vars PROVE DataWakes'
      OBVIOUS
  <1>1. CASE Type
    BY <1>1, DataType
  <1>2. ASSUME NEW p \in Procs, Transfer(p) PROVE DataWakes'
    BY <1>2, DataPipeReadSleep, DataPipeReadSome, DataConsoleRead, DataPipeWriteSome,
       DataConsoleWrite DEF Transfer
  <1>3. ASSUME NEW p \in Procs, Step(p) PROVE DataWakes'
    BY <1>2, <1>3, DataCalls, DataForkCall, DataDupCall, DataCloseCall, DataExitClose,
       DataExit, DataFinish, DataWait, DataInitReaps, DataEcho, DataCatRead, DataCatGot,
       DataReturn DEF Step
  <1>4. ASSUME NEW p \in Procs, KillOne(p) PROVE DataWakes'
    BY <1>4, DataKillOne
  <1>5. CASE UNCHANGED vars
    <2>1. UNCHANGED <<pipe, input, unwoken, pc, io>>
      BY <1>5 DEF vars, kernel
    <2> QED BY <2>1, DataKeep
  <1> QED BY <1>1, <1>3, <1>4, <1>5 DEF Next

\* Parents and children.
LEMMA WaitKeep ==
  ASSUME WaitWakes, UNCHANGED parent,
         \A r \in Procs : /\ pc'[r] \in {"waitsleep", "zombie"} => pc'[r] = pc[r]
                          /\ pc'[r] = "unused" => pc[r] = "unused" \/ parent[r] = None
  PROVE  WaitWakes'
  BY DEF WaitWakes, WaitOK

LEMMA WaitForkCall ==
  ASSUME TypeInv, WaitWakes, NEW p \in Procs, ForkCall(p) PROVE WaitWakes'
  <1>1. pc[p] = "user"
    BY ForkParts
  <1>2. CASE UNCHANGED <<ofile, file, pc, parent>>
    BY <1>2, WaitKeep
  <1>3. ASSUME NEW q \in Procs, pc[q] = "unused", pc' = [pc EXCEPT ![q] = "user"],
               parent' = [parent EXCEPT ![q] = p]
        PROVE  WaitWakes'
    <2>1. pc'[q] = "user" /\ \A r \in Procs : r # q => pc'[r] = pc[r]
      BY <1>3 DEF TypeInv
    <2>2. parent'[q] = p /\ \A r \in Procs : r # q => parent'[r] = parent[r]
      BY <1>3 DEF TypeInv, ProgsOK
    <2>3. parent[q] = None /\ p # q
      BY <1>1, <1>3 DEF WaitWakes, WaitOK
    <2> SUFFICES ASSUME NEW r \in Procs PROVE WaitOK(r)'
        BY DEF WaitWakes
    <2>4. WaitOK(r)
      BY DEF WaitWakes
    <2>5. CASE pc'[r] = "waitsleep"
      <3>1. pc[r] = "waitsleep" /\ r # q /\ r # p
        BY <1>1, <2>1, <2>3, <2>5
      <3>2. PICK x \in Procs : parent[x] = r
        BY <2>4, <3>1 DEF WaitOK
      <3>3. parent'[x] = r
        BY <2>2, <2>3, <3>2, Constants
      <3>4. \A y \in Procs : parent'[y] = r => pc'[y] # "zombie"
        BY <2>1, <2>2, <2>4, <3>1 DEF WaitOK
      <3> QED BY <2>5, <3>3, <3>4 DEF WaitOK
    <2>6. CASE pc'[r] # "waitsleep"
      BY <2>1, <2>2, <2>4, <2>6 DEF WaitOK
    <2> QED BY <2>5, <2>6
  <1> QED BY <1>2, <1>3, ForkParts

LEMMA WaitExit == ASSUME TypeInv, WaitWakes, NEW p \in Procs, Exit(p) PROVE WaitWakes'
  <1>1. /\ pc'[p] = "zombie"
        /\ \A r \in Procs : r # p =>
             pc'[r] = IF r = parent[p] /\ pc[r] = "waitsleep" THEN "wait" ELSE pc[r]
        /\ \A r \in Procs : parent'[r] = IF parent[r] = p THEN None ELSE parent[r]
    BY ExitMoves
  <1> SUFFICES ASSUME NEW r \in Procs PROVE WaitOK(r)'
      BY DEF WaitWakes
  <1>2. WaitOK(r)
    BY DEF WaitWakes
  <1>3. CASE pc'[r] = "waitsleep"
    <2>1. pc[r] = "waitsleep" /\ r # p /\ r # parent[p]
      BY <1>1, <1>3
    <2>2. PICK x \in Procs : parent[x] = r
      BY <1>2, <2>1 DEF WaitOK
    <2>3. parent'[x] = r
      BY <1>1, <2>1, <2>2
    <2>4. ASSUME NEW y \in Procs, parent'[y] = r PROVE pc'[y] # "zombie"
      <3>1. parent[y] = r /\ y # p
        BY <1>1, <2>1, <2>4, Constants
      <3>2. pc[y] # "zombie"
        BY <1>2, <2>1, <3>1 DEF WaitOK
      <3> QED BY <1>1, <3>1, <3>2
    <2> QED BY <1>3, <2>3, <2>4 DEF WaitOK
  <1>4. CASE pc'[r] # "waitsleep"
    BY <1>1, <1>2, <1>4 DEF WaitOK
  <1> QED BY <1>3, <1>4

LEMMA WaitWait == ASSUME TypeInv, WaitWakes, NEW p \in Procs, Wait(p) PROVE WaitWakes'
  <1>1. pc[p] \in {"user", "wait"}
    BY WaitStarts
  <1>2. ASSUME NEW q \in Procs, Reaps(p, q) PROVE WaitWakes'
    <2>1. parent[q] = p /\ pc[q] = "zombie" /\ q # p
      BY <1>1, <1>2 DEF Reaps
    <2>2. /\ pc'[p] = "user" /\ pc'[q] = "unused"
          /\ \A r \in Procs : r # p /\ r # q => pc'[r] = pc[r]
      BY <1>2, <2>1 DEF Reaps, TypeInv
    <2>3. parent'[q] = None /\ \A r \in Procs : r # q => parent'[r] = parent[r]
      BY <1>2 DEF Reaps, TypeInv, ProgsOK
    <2> SUFFICES ASSUME NEW r \in Procs PROVE WaitOK(r)'
        BY DEF WaitWakes
    <2>4. WaitOK(r)
      BY DEF WaitWakes
    <2>5. CASE pc'[r] = "waitsleep"
      <3>1. pc[r] = "waitsleep" /\ r # p /\ r # q
        BY <2>2, <2>5
      <3>2. PICK x \in Procs : parent[x] = r
        BY <2>4, <3>1 DEF WaitOK
      <3>3. parent'[x] = r
        BY <2>1, <2>3, <3>1, <3>2
      <3>4. ASSUME NEW y \in Procs, parent'[y] = r PROVE pc'[y] # "zombie"
        <4>1. parent[y] = r /\ y # q
          BY <2>3, <3>4, Constants
        <4>2. pc[y] # "zombie"
          BY <2>4, <3>1, <4>1 DEF WaitOK
        <4> QED BY <2>2, <4>1, <4>2
      <3> QED BY <2>5, <3>3, <3>4 DEF WaitOK
    <2>6. CASE pc'[r] # "waitsleep"
      BY <2>2, <2>3, <2>4, <2>6 DEF WaitOK
    <2> QED BY <2>5, <2>6
  <1>3. CASE WaitFails(p)
    <2>1. /\ pc'[p] = "user" /\ \A r \in Procs : r # p => pc'[r] = pc[r]
          /\ UNCHANGED parent
      BY <1>3 DEF WaitFails, Goto, TypeInv
    <2> QED BY <2>1, WaitKeep
  <1>4. CASE WaitSleeps(p)
    <2>1. /\ pc'[p] = "waitsleep" /\ \A r \in Procs : r # p => pc'[r] = pc[r]
          /\ UNCHANGED parent
      BY <1>4 DEF WaitSleeps, Goto, TypeInv
    <2>2. /\ \E q \in Procs : parent[q] = p
          /\ \A q \in Procs : parent[q] = p => pc[q] # "zombie"
      BY <1>4 DEF WaitSleeps
    <2> SUFFICES ASSUME NEW r \in Procs PROVE WaitOK(r)'
        BY DEF WaitWakes
    <2>3. WaitOK(r)
      BY DEF WaitWakes
    <2>4. \A y \in Procs : pc'[y] = "zombie" => pc[y] = "zombie"
      BY <2>1
    <2>5. CASE r = p
      BY <2>1, <2>2, <2>4, <2>5 DEF WaitOK
    <2>6. CASE r # p
      BY <2>1, <2>3, <2>4, <2>6 DEF WaitOK
    <2> QED BY <2>5, <2>6
  <1> QED BY <1>2, <1>3, <1>4, WaitOutcomes

\* Steps of one process that neither waits, exits nor is reaped.
LEMMA WaitMove ==
  ASSUME WaitWakes, UNCHANGED parent, NEW p \in Procs,
         pc'[p] \notin {"waitsleep", "zombie", "unused"},
         \A r \in Procs : r # p => pc'[r] = pc[r] \/ pc'[r] \in {"read", "write"}
  PROVE  WaitWakes'
  BY WaitKeep

LEMMA WaitClose ==
  ASSUME TypeInv, WaitWakes, NEW p \in Procs, CloseCall(p) \/ ExitClose(p) PROVE WaitWakes'
  <1>1. UNCHANGED parent
    BY DEF CloseCall, ExitClose
  <1>2. CASE UNCHANGED pc
    BY <1>1, <1>2, WaitKeep
  <1>3. ASSUME NEW n \in Fds, ofile[p][n] # None, pc[p] = "user", Close(p, n, "user")
        PROVE  WaitWakes'
    BY <1>1, <1>3, CloseTypes, WaitMove
  <1>4. CASE CloseCall(p)
    <2>1. PICK n : n = env[p][Head(todo[p]).fd]
      OBVIOUS
    <2>2. About(p, "close")
      BY <1>4 DEF CloseCall
    <2>3. pc[p] = "user" /\ n \in Fds
      BY <2>1, <2>2, AboutCall, AboutDescriptor
    <2>4. IF ofile[p][n] # None THEN Close(p, n, "user") ELSE UNCHANGED <<ofile, file, pc, io>>
      BY <1>4, <2>1 DEF CloseCall
    <2> QED BY <1>2, <1>3, <2>3, <2>4
  <1>5. CASE ExitClose(p)
    <2>1. PICK n : n = Least({m \in Fds : ofile[p][m] # None})
      OBVIOUS
    <2>2. n \in Fds /\ ofile[p][n] # None
      BY <1>5, <2>1, NextOpen DEF ExitClose
    <2>3. pc[p] = "user" /\ Close(p, n, "user")
      BY <1>5, <2>1 DEF ExitClose, About
    <2> QED BY <1>3, <2>2, <2>3
  <1> QED BY <1>4, <1>5

LEMMA WaitTransfer ==
  ASSUME TypeInv, Bounds, WaitWakes, NEW p \in Procs, Transfer(p) PROVE WaitWakes'
  <1>1. UNCHANGED parent
    BY DEF Transfer, progs
  <1>2. CASE PipeReadSleep(p)
    <2>1. PICK w \in {"failed", "readsleep"} : Goto(p, w)
      BY <1>2 DEF PipeReadSleep
    <2>2. w \in Places
      BY DEF Places, Blocked
    <2> QED BY <1>1, <2>1, <2>2, GotoPlaces, WaitMove
  <1>3. CASE PipeReadSome(p, CatBuf)
    <2>1. CatBuf \in Nat
      BY Constants
    <2>2. pc'[p] = "got" /\ \A r \in Procs : r # p => pc'[r] = pc[r] \/ pc'[r] = "write"
      BY <1>3, <2>1, PipeReadParts
    <2> QED BY <1>1, <2>2, WaitMove
  <1>4. CASE ConsoleRead(p, CatBuf)
    <2>1. /\ pc'[p] \in {"got", "failed", "readsleep"}
          /\ \A r \in Procs : r # p => pc'[r] = pc[r]
      BY <1>4, Reading, ConsoleReadParts
    <2> QED BY <1>1, <2>1, WaitMove
  <1>5. CASE PipeWriteSome(p)
    <2>1. /\ pc'[p] \in {"failed", "user", "writesleep"}
          /\ \A r \in Procs : r # p => pc'[r] = pc[r] \/ pc'[r] = "read"
      BY <1>5, PipeWriteParts
    <2> QED BY <1>1, <2>1, WaitMove
  <1>6. CASE ConsoleWrite(p)
    BY <1>1, <1>6, ConsoleWriteParts, WaitMove
  <1> QED BY <1>2, <1>3, <1>4, <1>5, <1>6 DEF Transfer

LEMMA WaitFinish == ASSUME TypeInv, WaitWakes, NEW p \in Procs, Finish(p) PROVE WaitWakes'
  <1>1. PICK at \in {"read", "write"} : at = IF io[p].writable THEN "read" ELSE "write"
    OBVIOUS
  <1>2. /\ pc'[p] \in {"user", "unpipe"} /\ UNCHANGED parent
        /\ \A r \in Procs : r # p => pc'[r] = pc[r] \/ pc'[r] = at
    BY <1>1, FinishParts DEF AfterClose
  <1> QED BY <1>1, <1>2, WaitMove

LEMMA WaitType == ASSUME TypeInv, Bounds, WaitWakes, Type PROVE WaitWakes'
  <1>1. PICK c \in Byte : ConsoleIntr(c)
    BY TypeKeys
  <1>2. UNCHANGED parent
    BY DEF Type, progs
  <1>3. \A r \in Procs : pc'[r] = pc[r] \/ pc'[r] = "read"
    <2>1. CASE Stored
      BY <2>1, WakeReadersIs DEF Stored
    <2>2. CASE pc' = pc
      BY <2>2
    <2> QED BY <1>1, <2>1, <2>2, KeyDoes DEF Erases
  <1> QED BY <1>2, <1>3, WaitKeep

LEMMA WaitNext == TypeInv /\ HandsOK /\ Bounds /\ WaitWakes /\ [Next]_vars => WaitWakes'
  <1> SUFFICES ASSUME TypeInv, HandsOK, Bounds, WaitWakes, [Next]_vars PROVE WaitWakes'
      OBVIOUS
  <1>1. CASE Type
    BY <1>1, WaitType
  <1>2. ASSUME NEW p \in Procs, Step(p) PROVE WaitWakes'
    <2>1. CASE DupCall(p)
      <3>1. UNCHANGED <<pc, parent>>
        BY <2>1 DEF DupCall
      <3> QED BY <3>1, WaitKeep
    <2>7. CASE PipeCall(p) \/ PipeMake(p) \/ PipeDone(p) \/ PipeFails(p)
      <3>1. pc'[p] \notin {"waitsleep", "zombie", "unused"}
        BY <2>7, CallMoves DEF Making
      <3> QED BY <2>7, <3>1, CallMoves, WaitMove
    <2>2. CASE Echo(p)
      BY <2>2, EchoParts, WaitMove
    <2>3. CASE CatRead(p)
      BY <2>3, CatReadParts, WaitMove
    <2>4. CASE CatGot(p)
      BY <2>4, CatGotParts, WaitMove
    <2>5. CASE Return(p)
      BY <2>5, ReturnParts, WaitMove
    <2>6. CASE InitReaps(p)
      BY <2>6, InitReapsMoves, WaitKeep
    <2> QED BY <1>2, <2>1, <2>2, <2>3, <2>4, <2>5, <2>6, <2>7, WaitForkCall, WaitClose, WaitExit,
               WaitFinish, WaitWait, WaitTransfer DEF Step
  <1>3. ASSUME NEW p \in Procs, KillOne(p) PROVE WaitWakes'
    <2>1. \A r \in Procs : pc'[r] \in {"waitsleep", "zombie", "unused"} => pc'[r] = pc[r]
      BY <1>3, Rouses
    <2> QED BY <1>3, <2>1, Rouses, WaitKeep
  <1>4. CASE UNCHANGED vars
    <2>1. UNCHANGED <<pc, parent>>
      BY <1>4 DEF vars, kernel, progs
    <2> QED BY <2>1, WaitKeep
  <1> QED BY <1>1, <1>2, <1>3, <1>4 DEF Next

LEMMA WakesInit == Init => SleepInv
  <1> SUFFICES ASSUME Init, NEW r \in Procs PROVE DataOK(r) /\ WaitOK(r)
      BY DEF SleepInv
  <1>1. pc[r] \in {"user", "unused"} /\ parent[r] = None
    BY DEF Init
  <1> QED BY <1>1 DEF DataOK, WaitOK

LEMMA WakesComing == SleepInv => WakeupsComing
  BY DEF SleepInv, DataOK, WaitOK, WakeupsComing

-----------------------------------------------------------------------------
(* Arithmetic modulo PIPESIZE, which divides Width.                        *)

LEMMA Divide ==
  \A a \in Int : /\ a \div PIPESIZE \in Int /\ a % PIPESIZE \in 0 .. PIPESIZE - 1
                 /\ a = PIPESIZE * (a \div PIPESIZE) + (a % PIPESIZE)
  BY Constants

LEMMA OnceMore == ASSUME NEW x \in Int, x >= 1 PROVE PIPESIZE * x >= PIPESIZE
  BY Constants

\* There is one remainder.
LEMMA Remainder ==
  ASSUME NEW a \in Int, NEW q \in Int, NEW r \in 0 .. PIPESIZE - 1, a = PIPESIZE * q + r
  PROVE  a % PIPESIZE = r
  <1> DEFINE d == a \div PIPESIZE
             m == a % PIPESIZE
  <1>1. d \in Int /\ m \in 0 .. PIPESIZE - 1 /\ a = PIPESIZE * d + m
    BY Divide
  <1>2. PIPESIZE \in Int /\ r \in Int
    BY Constants
  <1> HIDE DEF d, m
  <1>3. m \in Int
    BY <1>1
  <1>4. PIPESIZE * (d - q) = r - m /\ PIPESIZE * (q - d) = m - r
    BY <1>1, <1>2, <1>3
  <1>5. ~(d - q >= 1)
    BY <1>1, <1>2, <1>3, <1>4, OnceMore
  <1>6. ~(q - d >= 1)
    BY <1>1, <1>2, <1>3, <1>4, OnceMore
  <1>7. d = q
    BY <1>1, <1>5, <1>6
  <1>8. m = r
    BY <1>1, <1>2, <1>3, <1>7
  <1> QED BY <1>8 DEF m

LEMMA FullTurns ==
  ASSUME NEW a \in Int, NEW c \in Int PROVE (a + PIPESIZE * c) % PIPESIZE = a % PIPESIZE
  <1> DEFINE d == a \div PIPESIZE
             m == a % PIPESIZE
  <1>1. d \in Int /\ m \in 0 .. PIPESIZE - 1 /\ a = PIPESIZE * d + m
    BY Divide
  <1>2. PIPESIZE \in Int /\ PIPESIZE * c \in Int
    BY Constants
  <1> HIDE DEF d, m
  <1>3. a + PIPESIZE * c = PIPESIZE * (d + c) + m /\ d + c \in Int /\ a + PIPESIZE * c \in Int
    BY <1>1, <1>2
  <1>4. (a + PIPESIZE * c) % PIPESIZE = m
    BY <1>1, <1>3, Remainder
  <1> QED BY <1>4 DEF m

LEMMA Turned ==
  ASSUME NEW a \in Int
  PROVE  /\ \E c \in Int : a % Width = a + PIPESIZE * c
         /\ \E c \in Int : a % PIPESIZE = a + PIPESIZE * c
  <1> DEFINE e == a \div Width
             v == Width \div PIPESIZE
             d == a \div PIPESIZE
  <1>1. e \in Int /\ a % Width \in Int /\ a = Width * e + (a % Width) /\ Width \in Int
    BY Constants
  <1>2. v \in Int /\ Width = PIPESIZE * v /\ PIPESIZE \in Int
    BY Divide, StreamsAssumption
  <1>3. d \in Int /\ a % PIPESIZE \in Int /\ a = PIPESIZE * d + (a % PIPESIZE)
    BY Divide
  <1> HIDE DEF e, v, d
  <1>4. Width * e = PIPESIZE * (v * e) /\ v * e \in Int
    BY <1>1, <1>2
  <1>5. 0 - v * e \in Int /\ a % Width = a + PIPESIZE * (0 - v * e)
    BY <1>1, <1>2, <1>4
  <1>6. 0 - d \in Int /\ a % PIPESIZE = a + PIPESIZE * (0 - d)
    BY <1>2, <1>3
  <1> QED BY <1>5, <1>6

\* An index past Width stands for the same slot.
LEMMA SlotKept ==
  ASSUME NEW a \in Int, NEW b \in Int
  PROVE  ((a % Width) + b) % PIPESIZE = (a + b) % PIPESIZE
  <1>1. PICK c \in Int : a % Width = a + PIPESIZE * c
    BY Turned
  <1>2. (a % Width) + b = (a + b) + PIPESIZE * c /\ a + b \in Int
    BY <1>1, Constants
  <1> QED BY <1>2, FullTurns

\* How far the slot of the j-th byte after nread is from that of nwrite.
LEMMA SlotPlace ==
  ASSUME NEW r \in Int, NEW w \in Int, NEW j \in Int
  PROVE  (((r + j) % PIPESIZE) - w) % PIPESIZE = (j - ((w - r) % Width)) % PIPESIZE
  <1>a. r + j \in Int /\ w - r \in Int /\ PIPESIZE \in Int
    BY Constants
  <1>1. PICK c \in Int : (r + j) % PIPESIZE = (r + j) + PIPESIZE * c
    BY <1>a, Turned
  <1>2. PICK e \in Int : (w - r) % Width = (w - r) + PIPESIZE * e
    BY <1>a, Turned
  <1>b. PIPESIZE * c \in Int /\ PIPESIZE * e \in Int
    BY <1>a
  <1>3. ((r + j) % PIPESIZE) - w = (r + j - w) + PIPESIZE * c /\ r + j - w \in Int
    BY <1>1, <1>b
  <1>4. j - ((w - r) % Width) = (r + j - w) + PIPESIZE * (0 - e) /\ 0 - e \in Int
    <2>1. PIPESIZE * (0 - e) = 0 - PIPESIZE * e
      BY <1>a
    <2> QED BY <1>2, <1>b, <2>1
  <1>5. (((r + j) % PIPESIZE) - w) % PIPESIZE = (r + j - w) % PIPESIZE
    BY <1>3, FullTurns
  <1>6. (j - ((w - r) % Width)) % PIPESIZE = (r + j - w) % PIPESIZE
    BY <1>4, FullTurns
  <1> QED BY <1>5, <1>6

-----------------------------------------------------------------------------
(* The bytes in a pipe are a queue.                                        *)

\* `b` bytes of a buffer from index `r` on.
Stretch(d, r, b) == [i \in 1 .. b |-> d[(r + i - 1) % PIPESIZE]]

LEMMA StretchBytes ==
  ASSUME NEW d \in [0 .. PIPESIZE - 1 -> Byte], NEW r \in Int, NEW b \in Nat
  PROVE  /\ Stretch(d, r, b) \in Seq(Byte) /\ Len(Stretch(d, r, b)) = b
         /\ \A i \in 1 .. b : Stretch(d, r, b)[i] = d[(r + i - 1) % PIPESIZE]
  <1>1. \A i \in 1 .. b : (r + i - 1) % PIPESIZE \in 0 .. PIPESIZE - 1
    BY Constants
  <1>2. \A i \in 1 .. b : d[(r + i - 1) % PIPESIZE] \in Byte
    BY <1>1
  <1> QED BY <1>2 DEF Stretch

LEMMA Joined ==
  ASSUME NEW s \in Seq(Byte), NEW t \in Seq(Byte), NEW u \in Seq(Byte),
         Len(u) = Len(s) + Len(t),
         \A i \in 1 .. Len(s) : u[i] = s[i],
         \A i \in 1 .. Len(t) : u[Len(s) + i] = t[i]
  PROVE  u = s \o t
  <1>1. Len(s) \in Nat /\ Len(t) \in Nat
    OBVIOUS
  <1>2. s \o t \in Seq(Byte) /\ Len(s \o t) = Len(s) + Len(t)
        /\ \A i \in 1 .. Len(s) + Len(t) :
             (s \o t)[i] = IF i <= Len(s) THEN s[i] ELSE t[i - Len(s)]
    BY <1>1
  <1>3. ASSUME NEW i \in 1 .. Len(u) PROVE u[i] = (s \o t)[i]
    <2>1. CASE i <= Len(s)
      BY <1>1, <1>2, <2>1
    <2>2. CASE ~(i <= Len(s))
      <3>1. i - Len(s) \in 1 .. Len(t) /\ Len(s) + (i - Len(s)) = i
        BY <1>1, <2>2
      <3>2. u[Len(s) + (i - Len(s))] = t[i - Len(s)]
        BY <3>1
      <3> QED BY <1>1, <1>2, <2>2, <3>1, <3>2
    <2> QED BY <2>1, <2>2
  <1> QED BY <1>2, <1>3, SeqEqual

LEMMA TakenOut ==
  ASSUME NEW d \in [0 .. PIPESIZE - 1 -> Byte], NEW r \in Count, NEW b \in Nat, NEW k \in 0 .. b
  PROVE  Stretch(d, r, b) = Stretch(d, r, k) \o Stretch(d, (r + k) % Width, b - k)
  <1>1. r \in Int /\ k \in Nat /\ b - k \in Nat /\ (r + k) % Width \in Int
    BY Constants DEF Count
  <1>2. ASSUME NEW i \in 1 .. b - k
        PROVE  Stretch(d, r, b)[k + i] = Stretch(d, (r + k) % Width, b - k)[i]
    <2>1. k + i \in 1 .. b /\ i - 1 \in Int /\ r + k \in Int
      BY <1>1
    <2>2. ((r + k) % Width) + i - 1 = ((r + k) % Width) + (i - 1)
          /\ r + (k + i) - 1 = (r + k) + (i - 1)
      BY <1>1, <2>1
    <2>3. (((r + k) % Width) + (i - 1)) % PIPESIZE = ((r + k) + (i - 1)) % PIPESIZE
      BY <2>1, SlotKept
    <2>4. Stretch(d, r, b)[k + i] = d[(r + (k + i) - 1) % PIPESIZE]
      BY <1>1, <2>1, StretchBytes
    <2>5. Stretch(d, (r + k) % Width, b - k)[i] = d[(((r + k) % Width) + i - 1) % PIPESIZE]
      BY <1>1, StretchBytes
    <2> QED BY <2>2, <2>3, <2>4, <2>5
  <1>3. \A i \in 1 .. k : Stretch(d, r, b)[i] = Stretch(d, r, k)[i]
    BY <1>1, StretchBytes
  <1>4. /\ Stretch(d, r, b) \in Seq(Byte) /\ Len(Stretch(d, r, b)) = b
        /\ Stretch(d, r, k) \in Seq(Byte) /\ Len(Stretch(d, r, k)) = k
        /\ Stretch(d, (r + k) % Width, b - k) \in Seq(Byte)
        /\ Len(Stretch(d, (r + k) % Width, b - k)) = b - k
    BY <1>1, StretchBytes
  <1>5. b = k + (b - k)
    BY <1>1
  <1> QED
    <2>1. PICK s \in Seq(Byte) : s = Stretch(d, r, k)
      BY <1>4
    <2>2. PICK t \in Seq(Byte) : t = Stretch(d, (r + k) % Width, b - k)
      BY <1>4
    <2>3. PICK u \in Seq(Byte) : u = Stretch(d, r, b)
      BY <1>4
    <2>4. Len(u) = Len(s) + Len(t) /\ Len(s) = k /\ Len(t) = b - k
      BY <1>4, <1>5, <2>1, <2>2, <2>3
    <2>5. \A i \in 1 .. Len(s) : u[i] = s[i]
      BY <1>3, <2>1, <2>3, <2>4
    <2>6. \A i \in 1 .. Len(t) : u[Len(s) + i] = t[i]
      BY <1>2, <2>2, <2>3, <2>4
    <2>7. u = s \o t
      BY <2>4, <2>5, <2>6, Joined
    <2> QED BY <2>1, <2>2, <2>3, <2>7

\* The buffer `d` after the bytes `s` were stored from index `w` on.
Filled(d, w, s) ==
  [i \in 0 .. PIPESIZE - 1 |-> LET at == ((i - w) % PIPESIZE) + 1
                               IN IF at <= Len(s) THEN s[at] ELSE d[i]]
Apart(r, w) == (w - r) % Width

LEMMA PutIn ==
  ASSUME NEW d \in [0 .. PIPESIZE - 1 -> Byte], NEW r \in Count, NEW w \in Count,
         NEW s \in Seq(Byte), Filled(d, w, s) \in [0 .. PIPESIZE - 1 -> Byte],
         Apart(r, w) \in Nat, Apart(r, w) + Len(s) <= PIPESIZE
  PROVE  Stretch(Filled(d, w, s), r, Apart(r, w) + Len(s)) = Stretch(d, r, Apart(r, w)) \o s
  <1>a. PICK e \in [0 .. PIPESIZE - 1 -> Byte] : e = Filled(d, w, s)
    OBVIOUS
  <1>b. PICK b \in Nat : b = Apart(r, w)
    OBVIOUS
  <1>c. b + Len(s) <= PIPESIZE
    BY <1>b
  <1>1. r \in Int /\ w \in Int /\ Len(s) \in Nat /\ b + Len(s) \in Nat /\ PIPESIZE \in Int
    BY Constants DEF Count
  <1>2. ASSUME NEW i \in 1 .. b + Len(s)
        PROVE  Stretch(e, r, b + Len(s))[i]
                 = IF i <= b THEN d[(r + i - 1) % PIPESIZE] ELSE s[i - b]
    <2>a. i \in Int /\ 1 <= i /\ i <= b + Len(s)
      BY <1>1
    <2>1. PICK x \in 0 .. PIPESIZE - 1 : x = (r + i - 1) % PIPESIZE
      <3>1. (r + i - 1) % PIPESIZE \in 0 .. PIPESIZE - 1
        BY <1>1, Constants
      <3> QED BY <3>1
    <2>2. (x - w) % PIPESIZE = ((i - 1) - b) % PIPESIZE
      <3>1. i - 1 \in Int /\ r + (i - 1) = r + i - 1
        BY <1>1
      <3> QED BY <1>1, <1>b, <2>1, <3>1, SlotPlace DEF Apart
    <2>3. (x - w) % PIPESIZE = IF i <= b THEN PIPESIZE + i - 1 - b ELSE i - 1 - b
      <3>1. CASE i <= b
        <4>a. PIPESIZE * (0 - 1) = 0 - PIPESIZE
          BY <1>1
        <4>1. PIPESIZE + i - 1 - b \in 0 .. PIPESIZE - 1 /\ (i - 1) - b \in Int
              /\ (i - 1) - b = PIPESIZE * (0 - 1) + (PIPESIZE + i - 1 - b)
          BY <1>1, <1>c, <3>1, <4>a
        <4> QED BY <2>2, <3>1, <4>1, Remainder
      <3>2. CASE ~(i <= b)
        <4>1. i - 1 - b \in 0 .. PIPESIZE - 1 /\ (i - 1) - b \in Int
              /\ (i - 1) - b = PIPESIZE * 0 + (i - 1 - b)
          BY <1>1, <1>c, <3>2
        <4> QED BY <2>2, <3>2, <4>1, Remainder
      <3> QED BY <3>1, <3>2
    <2>4. Stretch(e, r, b + Len(s))[i] = e[x]
      BY <1>1, <2>1, StretchBytes
    <2>5. PICK at \in Int : at = ((x - w) % PIPESIZE) + 1
      <3>1. ((x - w) % PIPESIZE) + 1 \in Int
        BY <1>1, <2>3
      <3> QED BY <3>1
    <2>6. e[x] = IF at <= Len(s) THEN s[at] ELSE d[x]
      BY <1>a, <2>5 DEF Filled
    <2>7. CASE i <= b
      <3>a. (x - w) % PIPESIZE = PIPESIZE + i - 1 - b
        BY <2>3, <2>7
      <3>b. at = PIPESIZE + i - b
        BY <1>1, <2>a, <2>5, <3>a
      <3>1. ~(at <= Len(s))
        BY <1>1, <1>c, <2>a, <3>b
      <3> QED BY <2>1, <2>4, <2>6, <2>7, <3>1
    <2>8. CASE ~(i <= b)
      <3>1. i \in Int /\ i <= b + Len(s)
        BY <2>a
      <3>2. (x - w) % PIPESIZE = i - 1 - b
        BY <2>3, <2>8
      <3>3. at = i - b
        BY <1>1, <2>5, <3>1, <3>2
      <3>4. at <= Len(s)
        BY <1>1, <3>1, <3>3
      <3> QED BY <2>4, <2>6, <2>8, <3>3, <3>4
    <2> QED BY <2>7, <2>8
  <1>3. /\ Stretch(d, r, b) \in Seq(Byte) /\ Len(Stretch(d, r, b)) = b
        /\ \A i \in 1 .. b : Stretch(d, r, b)[i] = d[(r + i - 1) % PIPESIZE]
    BY <1>1, StretchBytes
  <1>4. /\ Stretch(e, r, b + Len(s)) \in Seq(Byte)
        /\ Len(Stretch(e, r, b + Len(s))) = b + Len(s)
    BY <1>1, StretchBytes
  <1>5. ASSUME NEW i \in 1 .. b PROVE Stretch(e, r, b + Len(s))[i] = Stretch(d, r, b)[i]
    <2>1. i \in 1 .. b + Len(s) /\ i <= b
      BY <1>1
    <2>2. Stretch(e, r, b + Len(s))[i] = d[(r + i - 1) % PIPESIZE]
      BY <1>2, <2>1
    <2> QED BY <1>3, <2>2
  <1>6. ASSUME NEW i \in 1 .. Len(s) PROVE Stretch(e, r, b + Len(s))[b + i] = s[i]
    <2>1. b + i \in 1 .. b + Len(s) /\ ~(b + i <= b) /\ (b + i) - b = i
      BY <1>1
    <2> QED BY <1>2, <2>1
  <1> QED
    <2>1. PICK t \in Seq(Byte) : t = Stretch(d, r, b)
      BY <1>3
    <2>2. PICK u \in Seq(Byte) : u = Stretch(e, r, b + Len(s))
      BY <1>4
    <2>3. Len(t) = b /\ Len(u) = Len(t) + Len(s)
      BY <1>3, <1>4, <2>1, <2>2
    <2>4. \A i \in 1 .. Len(t) : u[i] = t[i]
      BY <1>5, <2>1, <2>2, <2>3
    <2>5. \A i \in 1 .. Len(s) : u[Len(t) + i] = s[i]
      BY <1>6, <2>2, <2>3
    <2>6. u = t \o s
      BY <2>3, <2>4, <2>5, Joined
    <2> QED BY <1>a, <1>b, <2>1, <2>2, <2>6

\* The bytes in a pipe, oldest first.
Contents(q) == Oldest(q, Bytes(q))

\* p is inside pipewrite or piperead of pipe q, and not asleep.
AtPipe(p, what, q) == pc[p] = what /\ io[p].kind = "pipe" /\ io[p].pipe = q

\* p gives the first k of its bytes to the pipe; all, if its write succeeds.
Gives(p, q) ==
  /\ AtPipe(p, "write", q)
  /\ \E k \in 0 .. Len(io[p].bytes) :
       /\ Contents(q)' = Contents(q) \o SubSeq(io[p].bytes, 1, k)
       /\ io'[p].bytes = SubSeq(io[p].bytes, k + 1, Len(io[p].bytes))
       /\ pc'[p] = "user" => k = Len(io[p].bytes)

\* p gets the oldest bytes of the pipe, as many as there are and it has asked
\* for; none only at the end of file.
Gets(p, q) ==
  /\ AtPipe(p, "read", q) /\ pc'[p] = "got"
  /\ Contents(q) = io'[p].bytes \o Contents(q)'
  /\ Contents(q)' # <<>> => Len(io'[p].bytes) = CatBuf
  /\ io'[p].bytes = <<>> => ~pipe[q].writeopen

\* A pipe is a queue of bytes: its contents change when a writer appends, a
\* reader takes or the pipe is made; and what a writer parts with and what a
\* reader returns with is what the pipe got and gave.
Queue(q) ==
  /\ \/ Contents(q)' = Contents(q)
     \/ ~pipe[q].used /\ pipe'[q].used /\ Contents(q)' = <<>>
     \/ \E p \in Procs : Gives(p, q) \/ Gets(p, q)
  /\ \A p \in Procs :
       /\ AtPipe(p, "write", q) /\ (io'[p] # io[p] \/ pc'[p] # pc[p]) => Gives(p, q)
       /\ AtPipe(p, "read", q) /\ pc'[p] = "got" => Gets(p, q)
Queues == \A q \in Pipes : Queue(q)

\* The steps that leave the pipes alone.
LEMMA QueuesKeep ==
  ASSUME UNCHANGED pipe,
         \A r \in Procs : pc[r] = "write" /\ io[r].kind = "pipe"
                            => pc'[r] = pc[r] /\ io'[r] = io[r],
         \A r \in Procs : pc[r] = "read" /\ io[r].kind = "pipe" => pc'[r] # "got"
  PROVE  Queues
  <1> SUFFICES ASSUME NEW q \in Pipes PROVE Queue(q)
      BY DEF Queues
  <1>1. Contents(q)' = Contents(q)
    BY DEF Contents, Oldest, Bytes
  <1> QED BY <1>1 DEF Queue, AtPipe

\* Those of one process that is in no transfer.
LEMMA QueuesMove ==
  ASSUME UNCHANGED pipe, NEW p \in Procs, pc[p] \notin {"write", "read"},
         \A r \in Procs : r # p /\ pc[r] \in {"write", "read"} => pc'[r] = pc[r] /\ io'[r] = io[r]
  PROVE  Queues
  BY QueuesKeep

LEMMA QueuesForkCall == ASSUME TypeInv, NEW p \in Procs, ForkCall(p) PROVE Queues
  <1>1. pc[p] = "user" /\ UNCHANGED <<pipe, io>>
    BY ForkParts
  <1>2. \A r \in Procs : pc[r] \in {"write", "read"} => pc'[r] = pc[r]
    BY ForkParts DEF TypeInv
  <1> QED BY <1>1, <1>2, QueuesMove

LEMMA QueuesDupCall == ASSUME NEW p \in Procs, DupCall(p) PROVE Queues
  <1>1. UNCHANGED <<pipe, pc, io>>
    BY DEF DupCall
  <1> QED BY <1>1, QueuesKeep

LEMMA QueuesCloseCall == ASSUME TypeInv, NEW p \in Procs, CloseCall(p) PROVE Queues
  <1> DEFINE n == env[p][Head(todo[p]).fd]
  <1>1. About(p, "close") /\ UNCHANGED pipe
    BY DEF CloseCall
  <1>2. pc[p] = "user" /\ n \in Fds
    BY <1>1, AboutCall, AboutDescriptor
  <1>3. IF ofile[p][n] # None THEN Close(p, n, "user") ELSE UNCHANGED <<ofile, file, pc, io>>
    BY DEF CloseCall
  <1> HIDE DEF n
  <1>4. CASE ofile[p][n] # None
    <2>1. \A r \in Procs : r # p => pc'[r] = pc[r] /\ io'[r] = io[r]
      BY <1>2, <1>3, <1>4, CloseTypes
    <2> QED BY <1>1, <1>2, <2>1, QueuesMove
  <1>5. CASE ofile[p][n] = None
    BY <1>1, <1>3, <1>5, QueuesKeep
  <1> QED BY <1>4, <1>5

LEMMA QueuesExitClose == ASSUME TypeInv, NEW p \in Procs, ExitClose(p) PROVE Queues
  <1>1. PICK n : n = Least({m \in Fds : ofile[p][m] # None})
    OBVIOUS
  <1>2. n \in Fds /\ ofile[p][n] # None
    BY <1>1, NextOpen DEF ExitClose
  <1>3. pc[p] = "user" /\ Close(p, n, "user") /\ UNCHANGED pipe
    BY <1>1 DEF ExitClose, About
  <1>4. \A r \in Procs : r # p => pc'[r] = pc[r] /\ io'[r] = io[r]
    BY <1>2, <1>3, CloseTypes
  <1> QED BY <1>3, <1>4, QueuesMove

LEMMA QueuesExit == ASSUME TypeInv, NEW p \in Procs, Exit(p) PROVE Queues
  <1>1. pc[p] = "user" /\ UNCHANGED <<pipe, io>>
        /\ \A r \in Procs : r # p /\ pc[r] \in {"write", "read"} => pc'[r] = pc[r]
    BY ExitMoves
  <1> QED BY <1>1, QueuesMove

LEMMA QueuesWait == ASSUME TypeInv, NEW p \in Procs, Wait(p) PROVE Queues
  <1>1. pc[p] \in {"user", "wait"} /\ UNCHANGED <<pipe, io>>
        /\ \A r \in Procs : r # p /\ pc[r] \in {"write", "read"} => pc'[r] = pc[r]
    BY WaitMoves
  <1> QED BY <1>1, QueuesMove

LEMMA QueuesInitReaps == ASSUME TypeInv, NEW p \in Procs, InitReaps(p) PROVE Queues
  <1>1. pc[p] = "zombie" /\ UNCHANGED <<pipe, io>> /\ \A r \in Procs : r # p => pc'[r] = pc[r]
    BY InitReapsMoves
  <1> QED BY <1>1, QueuesMove

LEMMA QueuesCalls ==
  ASSUME TypeInv, NEW p \in Procs, Echo(p) \/ CatRead(p) \/ CatGot(p) \/ Return(p) PROVE Queues
  <1>1. pc[p] \in {"user", "got", "failed"} /\ UNCHANGED pipe
        /\ \A r \in Procs : r # p => pc'[r] = pc[r] /\ io'[r] = io[r]
    BY EchoParts, CatReadParts, CatGotParts, ReturnParts
  <1> QED BY <1>1, QueuesMove

LEMMA QueuesKillOne == ASSUME TypeInv, NEW p \in Procs, KillOne(p) PROVE Queues
  <1>1. UNCHANGED <<pipe, io>> /\ \A r \in Procs : pc[r] \in {"write", "read"} => pc'[r] = pc[r]
    BY Rouses
  <1> QED BY <1>1, QueuesKeep

LEMMA QueuesType == ASSUME TypeInv, Bounds, Type PROVE Queues
  <1>1. PICK c \in Byte : ConsoleIntr(c)
    BY TypeKeys
  <1>2. UNCHANGED <<pipe, io>>
    BY <1>1, KeyDoes
  <1>3. pc' = pc \/ pc' = WakeReaders(pc)
    BY <1>1, KeyDoes DEF Erases, Stored
  <1>4. \A r \in Procs : pc[r] \in {"write", "read"} => pc'[r] = pc[r]
    BY <1>3, WakeReadersIs
  <1> QED BY <1>2, <1>4, QueuesKeep

LEMMA QueuesConsoleRead ==
  ASSUME TypeInv, Bounds, NEW p \in Procs, ConsoleRead(p, CatBuf) PROVE Queues
  <1>1. io[p].kind = "console"
    BY DEF ConsoleRead
  <1>2. UNCHANGED pipe /\ \A r \in Procs : r # p => pc'[r] = pc[r] /\ io'[r] = io[r]
    BY Reading, ConsoleReadParts
  <1> QED BY <1>1, <1>2, QueuesKeep

LEMMA QueuesConsoleWrite == ASSUME TypeInv, NEW p \in Procs, ConsoleWrite(p) PROVE Queues
  <1>1. io[p].kind = "console"
    BY DEF ConsoleWrite
  <1>2. UNCHANGED pipe /\ \A r \in Procs : r # p => pc'[r] = pc[r] /\ io'[r] = io[r]
    BY ConsoleWriteParts
  <1> QED BY <1>1, <1>2, QueuesKeep

LEMMA QueuesPipeReadSleep == ASSUME TypeInv, NEW p \in Procs, PipeReadSleep(p) PROVE Queues
  <1>1. PICK w \in {"failed", "readsleep"} : Goto(p, w)
    BY DEF PipeReadSleep
  <1>2. w \in Places
    BY DEF Places, Blocked
  <1>3. pc'[p] = w /\ \A r \in Procs : r # p => pc'[r] = pc[r]
    BY <1>1, <1>2, GotoPlaces
  <1>4. UNCHANGED <<pipe, io>> /\ pc[p] = "read"
    BY DEF PipeReadSleep
  <1> QED BY <1>3, <1>4, QueuesKeep

\* Those that change a pipe.
LEMMA QueuesPipeCalls ==
  ASSUME TypeInv, HandsOK, NEW p \in Procs,
         PipeCall(p) \/ PipeMake(p) \/ PipeDone(p) \/ PipeFails(p)
  PROVE  Queues
  <1>1. /\ pc[p] \notin {"write", "read"}
        /\ \A r \in Procs : r # p => pc'[r] = pc[r] /\ io'[r] = io[r]
    BY CallMoves DEF Making
  <1>2. ASSUME NEW q \in Pipes, Made(p, q) PROVE Queues
    <2>1. PICK c : c = [pipe[q] EXCEPT !.used = TRUE, !.nread = 0, !.nwrite = 0,
                                       !.readopen = TRUE, !.writeopen = TRUE]
      OBVIOUS
    <2>2. pipe' = [pipe EXCEPT ![q] = c] /\ ~pipe[q].used
      BY <1>2, <2>1 DEF Made
    <2>3. c.used = TRUE /\ c.nread = 0 /\ c.nwrite = 0
      BY <2>1, BytesIn DEF PipeRec
    <2>4. pipe'[q] = c /\ \A x \in Pipes : x # q => pipe'[x] = pipe[x]
      BY <2>2 DEF TypeInv
    <2>5. Bytes(q)' = 0
      <3>1. (0 - 0) % Width = 0
        BY Constants
      <3> QED BY <2>3, <2>4, <3>1 DEF Bytes
    <2>6. Contents(q)' = <<>>
      BY <2>5 DEF Contents, Oldest
    <2>7. \A x \in Pipes : x # q => Contents(x)' = Contents(x)
      BY <2>4 DEF Contents, Oldest, Bytes
    <2> QED BY <1>1, <2>2, <2>3, <2>4, <2>6, <2>7 DEF Queues, Queue, AtPipe
  <1> QED BY <1>1, <1>2, CallMoves, QueuesMove

LEMMA QueuesFinish == ASSUME TypeInv, NEW p \in Procs, Finish(p) PROVE Queues
  <1>1. PICK q : q = io[p].pipe
    OBVIOUS
  <1>2. PICK at \in {"read", "write"} : at = IF io[p].writable THEN "read" ELSE "write"
    OBVIOUS
  <1>3. /\ q \in Pipes /\ pc[p] = "pipeclose" /\ io' = io
        /\ \A r \in Procs : r # p =>
              pc'[r] = IF pc[r] = Asleep[at] /\ io[r].kind = "pipe" /\ io[r].pipe = q
                       THEN at ELSE pc[r]
        /\ pipe'[q].nread = pipe[q].nread /\ pipe'[q].nwrite = pipe[q].nwrite
        /\ pipe'[q].data = pipe[q].data
        /\ \A r \in Pipes : r # q => pipe'[r] = pipe[r]
    BY <1>1, <1>2, FinishParts
  <1>4. Asleep[at] \in {"readsleep", "writesleep"}
    BY <1>2 DEF Asleep
  <1>5. \A r \in Procs : pc[r] \in {"write", "read"} => pc'[r] = pc[r]
    BY <1>3, <1>4
  <1>6. \A x \in Pipes : Contents(x)' = Contents(x)
    BY <1>3 DEF Contents, Oldest, Bytes
  <1> QED BY <1>3, <1>5, <1>6 DEF Queues, Queue, AtPipe

LEMMA ContentsIs == \A q : Contents(q) = Stretch(pipe[q].data, pipe[q].nread, Bytes(q))
  BY DEF Contents, Oldest, Stretch

LEMMA QueuesPipeReadSome ==
  ASSUME TypeInv, Bounds, NEW p \in Procs, PipeReadSome(p, CatBuf) PROVE Queues
  <1>1. PICK q : q = io[p].pipe
    OBVIOUS
  <1>2. PICK k : k = Takes(q, CatBuf)
    OBVIOUS
  <1>3. /\ q \in Pipes /\ k \in Nat /\ k <= Bytes(q) /\ k \in 0 .. Width
        /\ io'[p].bytes = Oldest(q, k)
        /\ \A r \in Procs : r # p => io'[r] = io[r]
        /\ pc'[p] = "got"
        /\ \A r \in Procs : r # p =>
             pc'[r] = IF pc[r] = "writesleep" /\ io[r].kind = "pipe" /\ io[r].pipe = q
                      THEN "write" ELSE pc[r]
        /\ pipe'[q].nread = (pipe[q].nread + k) % Width
        /\ pipe'[q].nwrite = pipe[q].nwrite /\ pipe'[q].data = pipe[q].data
        /\ \A r \in Pipes : r # q => pipe'[r] = pipe[r]
    BY <1>1, <1>2, Constants, PipeReadParts
  <1>4. /\ Bytes(q) \in Nat /\ pipe[q].nread \in Count /\ pipe[q].nwrite \in Count
        /\ pipe[q].data \in [0 .. PIPESIZE - 1 -> Byte]
    BY <1>3, BytesIn DEF PipeRec
  <1>5. Bytes(q)' = Bytes(q) - k
    BY <1>3, <1>4, Shorten DEF Bytes
  <1>6. Contents(q)' = Stretch(pipe[q].data, (pipe[q].nread + k) % Width, Bytes(q) - k)
    BY <1>3, <1>5 DEF Contents, Oldest, Stretch
  <1>7. io'[p].bytes = Stretch(pipe[q].data, pipe[q].nread, k)
    BY <1>3 DEF Oldest, Stretch
  <1>8. k \in 0 .. Bytes(q) /\ Bytes(q) - k \in Nat /\ pipe[q].nread \in Int
    BY <1>3, <1>4 DEF Count
  <1>9. Contents(q) = io'[p].bytes \o Contents(q)'
    BY <1>4, <1>6, <1>7, <1>8, TakenOut, ContentsIs
  <1>10. Len(io'[p].bytes) = k /\ io'[p].bytes \in Seq(Byte)
    BY <1>3, <1>4, <1>7, <1>8, StretchBytes
  <1>11. Contents(q)' # <<>> => k # Bytes(q)
    <2> SUFFICES ASSUME k = Bytes(q) PROVE Contents(q)' = <<>>
        OBVIOUS
    <2>1. Bytes(q) - k = 0
      BY <1>4
    <2> QED BY <1>6, <2>1 DEF Stretch
  <1>12. AtPipe(p, "read", q) /\ (Bytes(q) > 0 \/ ~pipe[q].writeopen)
    BY <1>1 DEF AtPipe, PipeReadSome
  <1>13. k = Bytes(q) \/ k = CatBuf
    BY <1>2 DEF Takes, Smaller
  <1>14. io'[p].bytes = <<>> => ~pipe[q].writeopen
    <2>1. io'[p].bytes = <<>> => k = 0
      BY <1>10
    <2> QED BY <1>4, <1>12, <1>13, <2>1, Constants
  <1>15. Gets(p, q)
    BY <1>3, <1>9, <1>10, <1>11, <1>12, <1>13, <1>14 DEF Gets
  <1>16. \A x \in Pipes : x # q => Contents(x)' = Contents(x)
    BY <1>3 DEF Contents, Oldest, Bytes
  <1>17. \A r \in Procs : r # p /\ pc[r] \in {"write", "read"} => pc'[r] = pc[r] /\ io'[r] = io[r]
    BY <1>3
  <1> SUFFICES ASSUME NEW x \in Pipes PROVE Queue(x)
      BY DEF Queues
  <1>18. \A r \in Procs : AtPipe(r, "write", x) => pc'[r] = pc[r] /\ io'[r] = io[r]
    BY <1>12, <1>17 DEF AtPipe
  <1>19. \A r \in Procs : AtPipe(r, "read", x) /\ pc'[r] = "got" => r = p /\ x = q
    BY <1>12, <1>17 DEF AtPipe
  <1> QED BY <1>15, <1>16, <1>18, <1>19 DEF Queue

LEMMA QueuesPipeWriteSome ==
  ASSUME TypeInv, Bounds, NEW p \in Procs, PipeWriteSome(p) PROVE Queues
  <1>1. PICK q : q = io[p].pipe
    OBVIOUS
  <1>2. PICK b \in Seq(Byte) : b = io[p].bytes
    BY DEF TypeInv, IoOK, IoRec
  <1>3. PICK k : k = Smaller(Room(q), Len(b))
    OBVIOUS
  <1>4. PICK rest : rest = SubSeq(b, k + 1, Len(b))
    OBVIOUS
  <1>5. PICK s : s = SubSeq(b, 1, k)
    OBVIOUS
  <1>6. /\ q \in Pipes /\ k \in 0 .. Width /\ k <= Room(q) /\ k <= Len(b)
        /\ s \in Seq(Byte) /\ Len(s) = k /\ Put(q, s)
        /\ io'[p].bytes = rest
        /\ \A r \in Procs : r # p => io'[r] = io[r]
    BY <1>1, <1>2, <1>3, <1>4, <1>5, PipeWriteParts
  <1>a. /\ pc'[p] = "user" => rest = <<>>
        /\ \A r \in Procs : r # p =>
             pc'[r] = pc[r] \/ (pc[r] = "readsleep" /\ pc'[r] = "read")
    <2>1. ASSUME rest # <<>> /\ (~pipe[q].readopen \/ killed[p])
          PROVE  pc'[p] = "failed" /\ \A r \in Procs : r # p => pc'[r] = pc[r]
      BY <1>1, <1>2, <1>3, <1>4, <2>1, PipeWriteParts
    <2>2. ASSUME ~(rest # <<>> /\ (~pipe[q].readopen \/ killed[p]))
          PROVE  /\ pc'[p] = IF rest = <<>> THEN "user" ELSE "writesleep"
                 /\ \A r \in Procs : r # p =>
                      pc'[r] = IF pc[r] = "readsleep" /\ io[r].kind = "pipe" /\ io[r].pipe = q
                               THEN "read" ELSE pc[r]
      BY <1>1, <1>2, <1>3, <1>4, <2>2, PipeWriteParts
    <2> QED BY <2>1, <2>2
  <1>7. k \in Nat /\ Len(b) \in Nat /\ k \in 0 .. Len(b)
    BY <1>6, Constants
  <1>8. /\ Bytes(q) \in Nat /\ pipe[q].nread \in Count /\ pipe[q].nwrite \in Count
        /\ pipe[q].data \in [0 .. PIPESIZE - 1 -> Byte]
        /\ Bytes(q) = Apart(pipe[q].nread, pipe[q].nwrite)
    BY <1>6, BytesIn DEF PipeRec, Bytes, Apart
  <1>9. /\ pipe'[q].data = Filled(pipe[q].data, pipe[q].nwrite, s)
        /\ pipe'[q].nread = pipe[q].nread
        /\ \A x \in Pipes : x # q => pipe'[x] = pipe[x]
    BY <1>6, PutPipe DEF Filled
  <1>10. pipe'[q].data \in [0 .. PIPESIZE - 1 -> Byte]
    BY <1>6, PutPipe DEF PipeRec
  <1>11. Bytes(q)' = Bytes(q) + Len(s) /\ Bytes(q) + Len(s) <= PIPESIZE
    BY <1>6, PutBytes
  <1>12. Contents(q)' = Stretch(pipe'[q].data, pipe[q].nread, Bytes(q) + Len(s))
    BY <1>9, <1>11 DEF Contents, Oldest, Stretch
  <1>13. Contents(q)' = Contents(q) \o s
    <2>1. PICK d \in [0 .. PIPESIZE - 1 -> Byte] : d = pipe[q].data
      BY <1>8
    <2>2. PICK r \in Count : r = pipe[q].nread
      BY <1>8
    <2>3. PICK w \in Count : w = pipe[q].nwrite
      BY <1>8
    <2>4. PICK t \in Seq(Byte) : t = s
      BY <1>6
    <2>5. pipe'[q].data = Filled(d, w, t) /\ Bytes(q) = Apart(r, w)
      BY <1>8, <1>9, <2>1, <2>2, <2>3, <2>4
    <2>6. /\ Filled(d, w, t) \in [0 .. PIPESIZE - 1 -> Byte]
          /\ Apart(r, w) \in Nat /\ Apart(r, w) + Len(t) <= PIPESIZE
      BY <1>8, <1>10, <1>11, <2>4, <2>5
    <2>7. Stretch(Filled(d, w, t), r, Apart(r, w) + Len(t)) = Stretch(d, r, Apart(r, w)) \o t
      BY <2>6, PutIn
    <2>8. Contents(q) = Stretch(d, r, Apart(r, w))
      BY <2>1, <2>2, <2>5, ContentsIs
    <2>9. Contents(q)' = Stretch(Filled(d, w, t), r, Apart(r, w) + Len(t))
      BY <1>12, <2>2, <2>4, <2>5
    <2> QED BY <2>4, <2>7, <2>8, <2>9
  <1>14. AtPipe(p, "write", q)
    BY <1>1 DEF AtPipe, PipeWriteSome
  <1>15. pc'[p] = "user" => k = Len(b)
    BY <1>4, <1>7, <1>a, Halves
  <1>16. Gives(p, q)
    BY <1>2, <1>4, <1>5, <1>6, <1>7, <1>13, <1>14, <1>15 DEF Gives
  <1>17. \A x \in Pipes : x # q => Contents(x)' = Contents(x)
    BY <1>9 DEF Contents, Oldest, Bytes
  <1> SUFFICES ASSUME NEW x \in Pipes PROVE Queue(x)
      BY DEF Queues
  <1>18. \A r \in Procs : /\ AtPipe(r, "write", x) => \/ pc'[r] = pc[r] /\ io'[r] = io[r]
                                                      \/ r = p /\ x = q
                          /\ AtPipe(r, "read", x) => pc'[r] # "got"
    BY <1>6, <1>14, <1>a DEF AtPipe
  <1> QED BY <1>16, <1>17, <1>18 DEF Queue

LEMMA QueuesTransfer == ASSUME TypeInv, Bounds, NEW p \in Procs, Transfer(p) PROVE Queues
  BY QueuesPipeReadSleep, QueuesPipeReadSome, QueuesConsoleRead, QueuesPipeWriteSome,
     QueuesConsoleWrite DEF Transfer

LEMMA QueuesNext == ASSUME TypeInv, HandsOK, Bounds, [Next]_vars PROVE [Queues]_vars
  <1>1. CASE Type
    BY <1>1, QueuesType
  <1>2. ASSUME NEW p \in Procs, Step(p) PROVE Queues
    BY <1>2, QueuesPipeCalls, QueuesForkCall, QueuesDupCall, QueuesCloseCall,
       QueuesExitClose, QueuesExit, QueuesFinish, QueuesWait, QueuesInitReaps, QueuesCalls,
       QueuesTransfer DEF Step
  <1>3. ASSUME NEW p \in Procs, KillOne(p) PROVE Queues
    BY <1>3, QueuesKillOne
  <1> QED BY <1>1, <1>2, <1>3 DEF Next

-----------------------------------------------------------------------------
(* The theorems.                                                           *)

\* The invariant that the others follow from: types, bounds, reference counts,
\* what calls of pipe have in hand, the ends of pipes, who may use them, and why
\* each sleeper sleeps.
THEOREM ShellInvariant == Spec => []ShellInv
  <1>1. Init => ShellInv
    BY TypeInit, HandsInit, BoundsInit, RefsInit, WakesInit DEF ShellInv, Refs
  <1>2. ShellInv /\ [Next]_vars => ShellInv'
    <2> SUFFICES ASSUME ShellInv, [Next]_vars PROVE ShellInv'
        OBVIOUS
    <2>1. TypeInv /\ HandsOK /\ Bounds /\ Refs /\ HandInv /\ DataWakes /\ WaitWakes
      BY DEF ShellInv, Refs, SleepInv, DataWakes, WaitWakes
    <2>2. TypeInv' /\ HandsOK' /\ Bounds'
      BY <2>1, TypeNext, HandsNext, BoundsNext
    <2>3. Refs' /\ HandInv' /\ DataWakes' /\ WaitWakes'
      BY <2>1, RefsNext, HandNext, DataNext, WaitNext
    <2> QED BY <2>2, <2>3 DEF ShellInv, Refs, SleepInv, DataWakes, WaitWakes
  <1> QED BY <1>1, <1>2, PTL DEF Spec

\* Descriptors refer to files of the table; no pipe holds more than PIPESIZE
\* bytes and the console no more than INPUT_BUF, however the counts wrap, when
\* any number of processes read, write, erase and are killed.
THEOREM ShellTypeOK == Spec => []TypeOK
  <1>1. ShellInv => TypeOK
    BY TypesAndBounds DEF ShellInv
  <1> QED BY <1>1, ShellInvariant, PTL

\* fork, dup, close, exit and pipe, wherever it fails, agree on f->ref; and the
\* page of a pipe is in use exactly while a file, or a close that is under way,
\* has one of its ends, which each read and write under way relies on.
THEOREM PipesAlwaysLive == Spec => []PipesLive
  <1>1. ShellInv => PipesLive
    BY RefsLive DEF ShellInv, Refs
  <1> QED BY <1>1, ShellInvariant, PTL

\* A sleeper in piperead, pipewrite, consoleread or wait has nothing to do yet
\* and somebody to wake it; only bytes that a killed writer left may be missed.
THEOREM WakeupsAlwaysCome == Spec => []WakeupsComing
  <1>1. ShellInv => WakeupsComing
    BY WakesComing DEF ShellInv
  <1> QED BY <1>1, ShellInvariant, PTL

\* Whatever processes share a pipe and whenever they are killed, bytes leave it
\* in the order they came in, none lost, doubled or changed: piperead, pipewrite
\* and pipeclose, with counts that wrap, keep a queue in the ring of PIPESIZE.
THEOREM PipesAreQueues == Spec => [][Queues]_vars
  <1>1. ShellInv /\ [Next]_vars => [Queues]_vars
    BY QueuesNext DEF ShellInv
  <1> QED BY <1>1, ShellInvariant, PTL DEF Spec
==============================================================================
