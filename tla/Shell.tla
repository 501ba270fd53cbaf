-------------------------------- MODULE Shell --------------------------------
(***************************************************************************)
(* The shell runs one command line: sh.c's main loop, runcmd and fork1,    *)
(* over the descriptors, pipes and console of Streams.  The programs are   *)
(* cat.c, one that exits, and echo, which here puts its text in a pipe by  *)
(* one write, as pipe1 of usertests.c does (echo.c prints byte by byte).   *)
(* Somebody types, and may kill a process.                                 *)
(*                                                                         *)
(* `todo` holds the calls a process has still to make.  Redirections and   *)
(* the parser are left out; exec keeps the descriptors and always finds    *)
(* its program.                                                            *)
(***************************************************************************)
EXTENDS Streams

CONSTANTS
  Sh,          \* the shell
  Commands,    \* the command lines and their parts
  Sessions,    \* a command line (job), the keys typed while it runs (keys),
               \* if ^D follows (eof), how many processes are killed (kills), and
               \* the descriptors the shell was started with (open)
  CatBuf       \* sizeof(buf) in cat.c

ASSUME ShellAssumption ==
  /\ Sh \in Procs /\ CatBuf \in Nat \ {0}
  /\ NOFILE >= 3 /\ NFILE >= 1
  /\ \A c \in Commands :
       CASE c.type = "pipe" -> {c.left, c.right} \subseteq Commands
         [] c.type = "list" -> {c.left, c.right} \subseteq Commands
         [] c.type = "back" -> c.cmd \in Commands
         [] c.type = "echo" -> c.bytes \in Seq(Chars)
         [] OTHER           -> c.type \in {"cat", "exit"}
  /\ \A s \in Sessions : /\ s.job \in Commands /\ s.keys \in Seq(Chars)
                         /\ s.open \in 3 .. NOFILE

VARIABLES
  todo, env,   \* the calls left; the descriptors pipe(p) gave
  parent,      \* p->parent, None for init
  session,     \* the member of Sessions
  keys,        \* the keys still to be typed
  kills,
  echoed       \* history: what echo writes

progs == <<todo, env, parent>>
vars  == <<kernel, progs, session, keys, kills, echoed>>

Call(what) == [do |-> what]
CloseFd(x) == [do |-> "close", fd |-> x]
Fork(s)    == [do |-> "fork", child |-> s]
Run(c)     == [do |-> "run", cmd |-> c]

\* runcmd: the calls of each kind of command.
Expand(c) ==
  CASE c.type = "pipe" ->
       << Call("pipe"),
          Fork(<<CloseFd("stdout"), [do |-> "dup", fd |-> "p1"],
                 CloseFd("p0"), CloseFd("p1"), Run(c.left)>>),
          Fork(<<CloseFd("stdin"), [do |-> "dup", fd |-> "p0"],
                 CloseFd("p0"), CloseFd("p1"), Run(c.right)>>),
          CloseFd("p0"), CloseFd("p1"), Call("wait"), Call("wait"), Call("exit") >>
    [] c.type = "list" -> <<Fork(<<Run(c.left)>>), Call("wait"), Run(c.right)>>
    [] c.type = "back" -> <<Fork(<<Run(c.cmd)>>), Call("exit")>>
    [] c.type = "echo" -> <<[do |-> "echo", bytes |-> c.bytes], Call("exit")>>
    [] OTHER           -> <<Call(c.type)>>

\* p is about to make the call `what`.  A killed process exits in trap().
About(p, what) ==
  /\ pc[p] = "user" /\ todo[p] # <<>>
  /\ IF killed[p] THEN what = "exit" ELSE Head(todo[p]).do = what
Rest(p) == Tail(todo[p])
Ready(s) == IF s # <<>> /\ Head(s).do = "run" THEN Expand(Head(s).cmd) ELSE s
Then(p, s) == todo' = [todo EXCEPT ![p] = Ready(s)]
Exits == <<Call("exit")>>

Still == UNCHANGED <<session, keys, kills, echoed>>

\* pipe(p), from the call to the first file.
PipeCall(p) ==
  /\ About(p, "pipe")
  /\ \/ FileAlloc(p, "rf") /\ Goto(p, "pipealloc") /\ UNCHANGED todo
     \/ FreeFiles = {} /\ Then(p, Exits) /\ UNCHANGED <<file, taken, pc>>
  /\ Still
  /\ UNCHANGED <<ofile, pipe, input, out, typed, io, killed, unwoken, env, parent>>

PipeMake(p) ==
  /\ PipeAlloc(p) \/ PipePage(p) \/ NoFds(p)
  /\ Still
  /\ UNCHANGED <<input, out, typed, io, killed, unwoken, progs>>

PipeDone(p) ==
  /\ \E r, w \in Fds : /\ PipeFds(p, r, w)
                       /\ env' = [env EXCEPT ![p].p0 = r, ![p].p1 = w]
  /\ Then(p, Rest(p))
  /\ Still
  /\ UNCHANGED <<input, out, typed, io, killed, unwoken, parent>>

\* runcmd panics, that is exits, when pipe fails.
PipeFails(p) ==
  /\ GiveBack(p)
  /\ Then(p, Exits)
  /\ Still
  /\ UNCHANGED <<input, out, typed, killed, unwoken, env, parent>>

\* fork1.
ForkCall(p) ==
  /\ About(p, "fork")
  /\ LET free == {q \in Procs : pc[q] = "unused"}
         q == CHOOSE r \in free : TRUE
     IN IF free = {}
        THEN Then(p, Exits) /\ UNCHANGED <<ofile, file, pc, killed, env, parent>>
        ELSE /\ Inherit(p, q)
             /\ pc' = [pc EXCEPT ![q] = "user"]
             /\ killed' = [killed EXCEPT ![q] = FALSE]
             /\ env' = [env EXCEPT ![q] = env[p]]
             /\ parent' = [parent EXCEPT ![q] = p]
             /\ todo' = [todo EXCEPT ![p] = Ready(Rest(p)),
                                       ![q] = Ready(Head(todo[p]).child)]
  /\ Still
  /\ UNCHANGED <<taken, pipe, input, out, typed, io, unwoken>>

DupCall(p) ==
  /\ About(p, "dup")
  /\ Dup(p, env[p][Head(todo[p]).fd])
  /\ Then(p, Rest(p))
  /\ Still
  /\ UNCHANGED <<taken, pipe, input, out, typed, pc, io, killed, unwoken, env, parent>>

\* sys_close fails when the descriptor is not open.
CloseCall(p) ==
  /\ About(p, "close")
  /\ LET n == env[p][Head(todo[p]).fd]
     IN IF ofile[p][n] # None THEN Close(p, n, "user")
        ELSE UNCHANGED <<ofile, file, pc, io>>
  /\ Then(p, Rest(p))
  /\ Still
  /\ UNCHANGED <<taken, pipe, input, out, typed, killed, unwoken, env, parent>>

\* exit closes one file after the other, then wakes its parent and leaves its
\* children to init.
ExitClose(p) ==
  /\ About(p, "exit") /\ \E n \in Fds : ofile[p][n] # None
  /\ Close(p, Least({n \in Fds : ofile[p][n] # None}), "user")
  /\ Then(p, Exits)
  /\ Still
  /\ UNCHANGED <<taken, pipe, input, out, typed, killed, unwoken, env, parent>>

Exit(p) ==
  /\ About(p, "exit") /\ \A n \in Fds : ofile[p][n] = None
  /\ pc' = [q \in Procs |->
              IF q = p THEN "zombie"
              ELSE IF q = parent[p] /\ pc[q] = "waitsleep" THEN "wait" ELSE pc[q]]
  /\ parent' = [q \in Procs |-> IF parent[q] = p THEN None ELSE parent[q]]
  /\ Then(p, <<>>)
  /\ Still
  /\ UNCHANGED <<ofile, file, taken, pipe, input, out, typed, io, killed, unwoken, env>>

Finish(p) ==
  /\ pc[p] = "pipeclose"
  /\ PipeClose(p, AfterClose(taken[p]))
  /\ Still /\ UNCHANGED progs

\* wait, and init's.
Reap(q) == [pc EXCEPT ![q] = "unused"]
Wait(p) ==
  /\ About(p, "wait") \/ pc[p] = "wait"
  /\ LET mine == {q \in Procs : parent[q] = p /\ pc[q] # "unused"}
         dead == {q \in mine : pc[q] = "zombie"}
     IN IF dead # {}
        THEN /\ Then(p, Rest(p))
             /\ \E q \in dead : /\ pc' = [Reap(q) EXCEPT ![p] = "user"]
                               /\ parent' = [parent EXCEPT ![q] = None]
        ELSE /\ UNCHANGED parent
             /\ IF mine = {} \/ killed[p]
                THEN Goto(p, "user") /\ Then(p, Rest(p))
                ELSE Goto(p, "waitsleep") /\ UNCHANGED todo
  /\ Still
  /\ UNCHANGED <<ofile, file, taken, pipe, input, out, typed, io, killed, unwoken, env>>

InitReaps(q) ==
  /\ pc[q] = "zombie" /\ parent[q] = None
  /\ pc' = Reap(q)
  /\ Still
  /\ UNCHANGED <<ofile, file, taken, pipe, input, out, typed, io, killed, unwoken, progs>>

\* One write of the whole text.
Echo(p) ==
  /\ About(p, "echo")
  /\ FileWrite(p, 1, Head(todo[p]).bytes)
  /\ echoed' = echoed \o Head(todo[p]).bytes
  /\ Then(p, Rest(p))
  /\ UNCHANGED <<typed, env, parent, session, keys, kills>>

\* cat reads standard input and writes what it got, until a read returns
\* nothing or a call fails.
CatRead(p) ==
  /\ About(p, "cat")
  /\ FileRead(p, 0)
  /\ Still /\ UNCHANGED <<typed, progs>>

CatGot(p) ==
  /\ pc[p] = "got"
  /\ IF killed[p] \/ io[p].bytes = <<>>
     THEN /\ Goto(p, "user") /\ Then(p, Exits)
          /\ UNCHANGED <<ofile, file, taken, pipe, input, out, io, killed, unwoken>>
     ELSE FileWrite(p, 1, io[p].bytes) /\ UNCHANGED todo
  /\ Still /\ UNCHANGED <<typed, env, parent>>

Transfer(p) ==
  /\ \/ PipeReadSleep(p) \/ PipeReadSome(p, CatBuf) \/ ConsoleRead(p, CatBuf)
     \/ PipeWriteSome(p) \/ ConsoleWrite(p)
  /\ Still /\ UNCHANGED progs

\* cat and echo give up when a call fails.
Return(p) ==
  /\ pc[p] = "failed"
  /\ Goto(p, "user")
  /\ Then(p, Exits)
  /\ Still
  /\ UNCHANGED <<ofile, file, taken, pipe, input, out, typed, io, killed, unwoken, env, parent>>

\* A key; after the script, ^D for as long as there is room for it.
Type ==
  /\ \/ keys # <<>>
     \/ session.eof /\ (input.e - input.r) % Width < INPUT_BUF
  /\ ConsoleIntr(IF keys = <<>> THEN "eof" ELSE Head(keys))
  /\ keys' = IF keys = <<>> THEN keys ELSE Tail(keys)
  /\ UNCHANGED <<progs, session, kills, echoed>>

KillOne(p) ==
  /\ kills < session.kills
  /\ p # Sh /\ pc[p] \notin {"unused", "zombie"} /\ ~killed[p]
  /\ Kill(p)
  /\ kills' = kills + 1
  /\ UNCHANGED <<progs, session, keys, echoed>>

Std == [stdin |-> 0, stdout |-> 1, p0 |-> 0, p1 |-> 0]

Init ==
  /\ session \in Sessions
  /\ keys = session.keys
  /\ ofile = [p \in Procs |-> [n \in Fds |-> IF p = Sh /\ n < session.open THEN 1 ELSE None]]
  /\ file = [f \in Files |-> IF f = 1 THEN [Closed EXCEPT !.ref = session.open, !.type = "console"]
                                      ELSE Closed]
  /\ taken = [p \in Procs |-> NoFiles]
  /\ pipe = [q \in Pipes |-> [used |-> FALSE, nread |-> 0, nwrite |-> 0,
                              readopen |-> FALSE, writeopen |-> FALSE,
                              data |-> [i \in 0 .. PIPESIZE - 1 |-> None]]]
  /\ input = [r |-> 0, w |-> 0, e |-> 0, buf |-> [i \in 0 .. INPUT_BUF - 1 |-> None]]
  /\ out = <<>> /\ typed = <<>>
  /\ pc = [p \in Procs |-> IF p = Sh THEN "user" ELSE "unused"]
  /\ io = [p \in Procs |-> Idle]
  /\ killed = [p \in Procs |-> FALSE]
  /\ unwoken = {}
  /\ todo = [p \in Procs |-> IF p = Sh THEN <<Fork(<<Run(session.job)>>), Call("wait")>> ELSE <<>>]
  /\ env = [p \in Procs |-> Std]
  /\ parent = [p \in Procs |-> None]
  /\ kills = 0 /\ echoed = <<>>

Step(p) ==
  \/ PipeCall(p) \/ PipeMake(p) \/ PipeDone(p) \/ PipeFails(p)
  \/ ForkCall(p) \/ DupCall(p) \/ CloseCall(p)
  \/ ExitClose(p) \/ Exit(p) \/ Finish(p) \/ Wait(p) \/ InitReaps(p)
  \/ Echo(p) \/ CatRead(p) \/ CatGot(p) \/ Transfer(p) \/ Return(p)

Next == Type \/ \E p \in Procs : Step(p) \/ KillOne(p)

\* Runnable processes run, init waits for orphans, and somebody types on.
Fairness == WF_vars(Type) /\ \A p \in Procs : WF_vars(Step(p))

Spec == Init /\ [][Next]_vars /\ Fairness

-----------------------------------------------------------------------------
Blocked == {"readsleep", "writesleep", "waitsleep"}

\* The ranges of the variables; no pipe holds more than PIPESIZE bytes and no
\* more than INPUT_BUF characters wait for a reader, however the counts wrap.
TypeOK ==
  /\ ofile \in [Procs -> [Fds -> Files \cup {None}]]
  /\ taken \in [Procs -> [rf : Files \cup {None}, wf : Files \cup {None}]]
  /\ \A q \in Pipes : Bytes(q) <= PIPESIZE
  /\ (input.w - input.r) % Width <= (input.e - input.r) % Width
  /\ (input.e - input.r) % Width <= INPUT_BUF
  /\ pc \in [Procs -> Blocked \cup {"unused", "user", "read", "write", "got", "wait",
                        "failed", "pipeclose", "zombie",
                        "pipealloc", "pipepage", "pipefds", "unpipe"}]
  /\ parent \in [Procs -> Procs \cup {None}]

\* A file is open for as long as a descriptor refers to it, in any process,
\* or a call of pipe has it in hand: fork, dup, close, exit, and pipe wherever
\* it fails, agree on f->ref.  A pipe's page is freed when both ends are closed
\* and never earlier: while a descriptor, a read or write under way, a call of
\* pipe or a pipeclose has an end, the pipe says so; and no page stays
\* allocated when nobody has either.
Ends(q, w) ==
  \/ \E f \in Files : file[f].type = "pipe" /\ file[f].pipe = q /\ file[f].writable = w
  \/ \E p \in Procs : pc[p] = "pipeclose" /\ io[p].pipe = q /\ io[p].writable = w
PipesLive ==
  /\ \A f \in Files :
       file[f].ref = Cardinality({x \in Procs \X Fds : ofile[x[1]][x[2]] = f})
                     + Cardinality({x \in Procs \X {"rf", "wf"} : taken[x[1]][x[2]] = f})
  /\ \A q \in Pipes : /\ pipe[q].writeopen = Ends(q, TRUE)
                      /\ pipe[q].readopen = Ends(q, FALSE)
                      /\ pipe[q].used = (pipe[q].writeopen \/ pipe[q].readopen)
  /\ \A p \in Procs :
       pc[p] \in {"read", "readsleep", "write", "writesleep"} /\ io[p].kind = "pipe"
         => pipe[io[p].pipe].used

\* No wakeup is lost: a reader sleeps only on an empty pipe with a writer or
\* an empty line, a writer only on a full pipe with a reader, and wait only
\* while every child lives.  A writer that was killed is the exception: it
\* leaves pipewrite without waking the readers of what it wrote.
WakeupsComing ==
  \A p \in Procs :
    /\ pc[p] = "readsleep" /\ io[p].kind = "console" => input.r = input.w
    /\ pc[p] = "readsleep" /\ io[p].kind = "pipe" =>
         /\ pipe[io[p].pipe].writeopen
         /\ Bytes(io[p].pipe) = 0 \/ io[p].pipe \in unwoken
    /\ pc[p] = "writesleep" =>
         pipe[io[p].pipe].readopen /\ Room(io[p].pipe) = 0
    /\ pc[p] = "waitsleep" =>
         /\ \E q \in Procs : parent[q] = p
         /\ \A q \in Procs : parent[q] = p => pc[q] # "zombie"

\* What comes out is what went in, in order and once, through short reads,
\* wrapped counts, lines longer than the buffer and erased keys; through kills
\* too, where one process reads the console: a reader that is killed drops what
\* it has taken, and another would print what comes after.
InOrder == IsPrefix(out, echoed \o typed)

\* And all of it, when nobody was killed and the pipeline ends in cat: end of
\* file comes after the last byte, and ^D after the text before it.
Ended == todo[Sh] = <<>> /\ pc[Sh] = "user"
Complete ==
  Ended /\ kills = 0 /\ session.job.type = "pipe" /\ session.job.right.type = "cat" =>
    IF echoed # <<>> THEN out = echoed
    ELSE typed = out \o SelectSeq(Typed(input.r, input.w), LAMBDA c : c # "eof")

\* Every command line ends, and leaves no process behind: each process of a
\* pipeline meets end of file or a failed write, whoever was killed.
Finishes == <>[](Ended /\ \A p \in Procs \ {Sh} : pc[p] = "unused")
==============================================================================
