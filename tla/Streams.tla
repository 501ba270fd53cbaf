------------------------------- MODULE Streams -------------------------------
(***************************************************************************)
(* Descriptors, the file table, pipes and the console of the lab 4 kernel  *)
(* (file.c, pipe.c, console.c, the descriptor calls of sysfile.c), with    *)
(* what fork, exit and kill in proc.c do to them.  The programs that make  *)
(* the calls are in Shell.                                                 *)
(*                                                                         *)
(* A step is at most one critical section of ftable.lock, kmem.lock,       *)
(* p->lock or cons.lock, with what p does to its own data before the next. *)
(* Indices count modulo Width as the code's uint do modulo 2^32, which     *)
(* PIPESIZE and INPUT_BUF divide.                                          *)
(***************************************************************************)
EXTENDS Integers, Sequences, SequencesExt

CONSTANTS
  Procs,
  NOFILE, NFILE,
  PIPESIZE, INPUT_BUF,
  Width,
  Pipes,        \* the pages kalloc may give pipealloc
  Chars,        \* the keys, and the bytes that programs write
  None

ASSUME StreamsAssumption ==
  /\ IsFiniteSet(Procs) /\ None \notin Procs \cup Pipes \cup 1 .. NFILE
  /\ NOFILE \in Nat /\ NFILE \in Nat /\ Width \in Nat
  /\ PIPESIZE \in Nat \ {0} /\ Width % PIPESIZE = 0 /\ Width > PIPESIZE
  /\ INPUT_BUF \in Nat \ {0} /\ Width % INPUT_BUF = 0 /\ Width > INPUT_BUF

Files == 1 .. NFILE
Fds   == 0 .. NOFILE - 1

VARIABLES
  ofile,     \* p->ofile
  file,      \* ftable.file: ref, type, pipe, writable
  taken,     \* rf and wf of a call of pipe: files without a descriptor yet
  pipe,      \* the pipes: in use, data, nread, nwrite, readopen, writeopen
  input,     \* the console's buffer and its indices r, w, e
  out,       \* what programs have written to the console
  typed,     \* history: the characters of the lines typed
  pc,        \* where each process is
  io,        \* the bytes of its read or write, and the pipe it closes
  killed,    \* p->killed
  unwoken    \* history: pipes a killed writer left without a wakeup

kernel == <<ofile, file, taken, pipe, input, out, typed, pc, io, killed, unwoken>>

Goto(p, where) == pc' = [pc EXCEPT ![p] = where]
Least(S) == CHOOSE x \in S : \A y \in S : x <= y
Smaller(m, n) == IF m < n THEN m ELSE n

-----------------------------------------------------------------------------
(* Descriptors and the file table.                                         *)

FreeFds(p) == {n \in Fds : ofile[p][n] = None}
Idle == [kind |-> "none", pipe |-> None, bytes |-> <<>>, writable |-> FALSE]

FreeFiles == {f \in Files : file[f].ref = 0}
Closed == [ref |-> 0, type |-> "none", pipe |-> None, writable |-> FALSE]

\* sys_dup; it fails when `n` is not open or no descriptor is free.
Dup(p, n) ==
  IF ofile[p][n] # None /\ FreeFds(p) # {}
  THEN /\ ofile' = [ofile EXCEPT ![p][Least(FreeFds(p))] = ofile[p][n]]
       /\ file' = [file EXCEPT ![ofile[p][n]].ref = @ + 1]
  ELSE UNCHANGED <<ofile, file>>

\* The descriptors a child gets from fork.
Inherit(p, q) ==
  /\ ofile' = [ofile EXCEPT ![q] = ofile[p]]
  /\ file' = [f \in Files |->
                [file[f] EXCEPT !.ref = @ + Cardinality({n \in Fds : ofile[p][n] = f})]]

\* fileclose, up to the end of its critical section.
FileClose(p, f, next) ==
  LET last == file[f].ref = 1
  IN /\ file' = IF last THEN [file EXCEPT ![f] = Closed]
                ELSE [file EXCEPT ![f].ref = @ - 1]
     /\ IF last /\ file[f].type = "pipe"
        THEN /\ Goto(p, "pipeclose")
             /\ io' = [io EXCEPT ![p] = [Idle EXCEPT !.pipe = file[f].pipe,
                                                   !.writable = file[f].writable]]
        ELSE Goto(p, next) /\ UNCHANGED io

\* sys_close.
Close(p, n, next) ==
  /\ ofile' = [ofile EXCEPT ![p][n] = None]
  /\ FileClose(p, ofile[p][n], next)

(* sys_pipe: a file for each end, a page, two descriptors.                 *)

NoFiles == [rf |-> None, wf |-> None]

\* filealloc.
FileAlloc(p, end) ==
  LET f == Least(FreeFiles)
  IN /\ FreeFiles # {}
     /\ file' = [file EXCEPT ![f].ref = 1]
     /\ taken' = [taken EXCEPT ![p][end] = f]

PipeAlloc(p) ==
  /\ pc[p] = "pipealloc"
  /\ \/ FileAlloc(p, "wf") /\ Goto(p, "pipepage")
     \/ FreeFiles = {} /\ Goto(p, "unpipe") /\ UNCHANGED <<file, taken>>
  /\ UNCHANGED <<ofile, pipe>>

End(q, w) == [ref |-> 1, type |-> "pipe", pipe |-> q, writable |-> w]

\* kalloc, which may find no page for reasons of its own, and the rest of
\* pipealloc.
PipePage(p) ==
  /\ pc[p] = "pipepage"
  /\ \/ LET q == CHOOSE r \in Pipes : ~pipe[r].used
        IN /\ \E r \in Pipes : ~pipe[r].used
           /\ file' = [file EXCEPT ![taken[p].rf] = End(q, FALSE),
                                   ![taken[p].wf] = End(q, TRUE)]
           /\ pipe' = [pipe EXCEPT ![q] =
                         [@ EXCEPT !.used = TRUE, !.nread = 0, !.nwrite = 0,
                                   !.readopen = TRUE, !.writeopen = TRUE]]
           /\ Goto(p, "pipefds")
     \/ Goto(p, "unpipe") /\ UNCHANGED <<file, pipe>>
  /\ UNCHANGED <<ofile, taken>>

\* fdalloc for each end.
TwoFree(p) == \E m, n \in FreeFds(p) : m # n

PipeFds(p, rfd, wfd) ==
  /\ pc[p] = "pipefds" /\ TwoFree(p)
  /\ rfd = Least(FreeFds(p)) /\ wfd = Least(FreeFds(p) \ {rfd})
  /\ ofile' = [ofile EXCEPT ![p][rfd] = taken[p].rf, ![p][wfd] = taken[p].wf]
  /\ taken' = [taken EXCEPT ![p] = NoFiles]
  /\ Goto(p, "user")
  /\ UNCHANGED <<file, pipe>>

\* A slip: the descriptor of the first end stays.
NoFdsKept(p) ==
  /\ pc[p] = "pipefds" /\ ~TwoFree(p)
  /\ ofile' = [ofile EXCEPT ![p] =
                 [n \in Fds |-> IF n \in FreeFds(p) THEN taken[p].rf ELSE @[n]]]
  /\ Goto(p, "unpipe")
  /\ UNCHANGED <<file, taken, pipe>>

\* The first end's descriptor, if it got one, is taken back.
NoFds(p) ==
  /\ pc[p] = "pipefds" /\ ~TwoFree(p)
  /\ Goto(p, "unpipe")
  /\ UNCHANGED <<ofile, file, taken, pipe>>

\* A failing pipe closes the files it has in hand, the reading end first.
AfterClose(t) == IF t = NoFiles THEN "user" ELSE "unpipe"
GiveBack(p) ==
  /\ pc[p] = "unpipe"
  /\ LET end == IF taken[p].rf # None THEN "rf" ELSE "wf"
         rest == [taken[p] EXCEPT ![end] = None]
     IN /\ taken' = [taken EXCEPT ![p] = rest]
        /\ FileClose(p, taken[p][end], AfterClose(rest))
  /\ UNCHANGED <<ofile, pipe>>

-----------------------------------------------------------------------------
(* Pipes.                                                                  *)

Asleep == [read |-> "readsleep", write |-> "writesleep"]

\* The processes asleep at `at` about pipe `q` go on.
WakePipe(at, q, f) ==
  [p \in Procs |-> IF f[p] = Asleep[at] /\ io[p].kind = "pipe" /\ io[p].pipe = q
                   THEN at ELSE f[p]]

Bytes(q) == (pipe[q].nwrite - pipe[q].nread) % Width
Room(q)  == PIPESIZE - Bytes(q)

\* pipeclose.
Shut(p) ==
  LET q == io[p].pipe
      r == pipe[q].readopen /\ io[p].writable
      w == pipe[q].writeopen /\ ~io[p].writable
  IN pipe' = [pipe EXCEPT ![q].readopen = r, ![q].writeopen = w, ![q].used = r \/ w]

\* A slip: the other side is not woken.
PipeCloseQuietly(p, next) ==
  /\ pc[p] = "pipeclose"
  /\ Shut(p)
  /\ Goto(p, next)
  /\ UNCHANGED <<ofile, file, taken, input, out, typed, io, killed, unwoken>>

PipeClose(p, next) ==
  /\ pc[p] = "pipeclose"
  /\ Shut(p)
  /\ pc' = WakePipe(IF io[p].writable THEN "read" ELSE "write", io[p].pipe,
                    [pc EXCEPT ![p] = next])
  /\ unwoken' = IF io[p].writable THEN unwoken \ {io[p].pipe} ELSE unwoken
  /\ UNCHANGED <<ofile, file, taken, input, out, typed, io, killed>>

\* The bytes `s` go into pipe `q`, and `k` bytes come out of it.
Put(q, s) ==
  pipe' = [pipe EXCEPT
    ![q].nwrite = (@ + Len(s)) % Width,
    ![q].data = [i \in 0 .. PIPESIZE - 1 |->
                   LET at == ((i - pipe[q].nwrite) % PIPESIZE) + 1
                   IN IF at <= Len(s) THEN s[at] ELSE pipe[q].data[i]]]
\* A slip: the index is incremented before it is used.
OldestAfter(q, k) ==
  [i \in 1 .. k |-> pipe[q].data[(pipe[q].nread + i) % PIPESIZE]]
Oldest(q, k) ==
  [i \in 1 .. k |-> pipe[q].data[(pipe[q].nread + i - 1) % PIPESIZE]]

\* pipewrite, from a wakeup or its start to its sleep or its end.  A killed
\* process that leaves it does not wake the readers of what it has written.
PipeWriteSome(p) ==
  /\ pc[p] = "write" /\ io[p].kind = "pipe"
  /\ LET q == io[p].pipe
         k == Smaller(Room(q), Len(io[p].bytes))
         rest == SubSeq(io[p].bytes, k + 1, Len(io[p].bytes))
         stop == rest # <<>> /\ (~pipe[q].readopen \/ killed[p])
     IN /\ Put(q, SubSeq(io[p].bytes, 1, k))
        /\ io' = [io EXCEPT ![p].bytes = rest]
        /\ IF stop
           THEN /\ Goto(p, "failed")
                /\ unwoken' = IF k = 0 THEN unwoken ELSE unwoken \cup {q}
           ELSE /\ pc' = WakePipe("read", q, [pc EXCEPT ![p] =
                           IF rest = <<>> THEN "user" ELSE "writesleep"])
                /\ unwoken' = unwoken \ {q}
  /\ UNCHANGED <<ofile, file, taken, input, out, typed, killed>>

\* piperead of at most `n` bytes.
PipeReadSleep(p) ==
  /\ pc[p] = "read" /\ io[p].kind = "pipe"
  /\ LET q == io[p].pipe
     IN /\ Bytes(q) = 0 /\ pipe[q].writeopen
        /\ Goto(p, IF killed[p] THEN "failed" ELSE "readsleep")
  /\ UNCHANGED <<ofile, file, taken, pipe, input, out, typed, io, killed, unwoken>>

\* A slip: the end of file comes before the bytes still in the pipe.
TakesOpen(q, n) == IF pipe[q].writeopen THEN Smaller(Bytes(q), n) ELSE 0
Takes(q, n) == Smaller(Bytes(q), n)

\* A slip: a read that got all it asked for does not wake the writers.
PipeReadSomeFull(p, n) ==
  /\ pc[p] = "read" /\ io[p].kind = "pipe"
  /\ LET q == io[p].pipe
         k == Takes(q, n)
     IN /\ Bytes(q) > 0 \/ ~pipe[q].writeopen
        /\ pipe' = [pipe EXCEPT ![q].nread = (@ + k) % Width]
        /\ io' = [io EXCEPT ![p].bytes = Oldest(q, k)]
        /\ pc' = IF k = n THEN [pc EXCEPT ![p] = "got"]
                 ELSE WakePipe("write", q, [pc EXCEPT ![p] = "got"])
        /\ unwoken' = IF k = Bytes(q) THEN unwoken \ {q} ELSE unwoken
  /\ UNCHANGED <<ofile, file, taken, input, out, typed, killed>>

PipeReadSome(p, n) ==
  /\ pc[p] = "read" /\ io[p].kind = "pipe"
  /\ LET q == io[p].pipe
         k == Takes(q, n)
     IN /\ Bytes(q) > 0 \/ ~pipe[q].writeopen
        /\ pipe' = [pipe EXCEPT ![q].nread = (@ + k) % Width]
        /\ io' = [io EXCEPT ![p].bytes = Oldest(q, k)]
        /\ pc' = WakePipe("write", q, [pc EXCEPT ![p] = "got"])
        /\ unwoken' = IF k = Bytes(q) THEN unwoken \ {q} ELSE unwoken
  /\ UNCHANGED <<ofile, file, taken, input, out, typed, killed>>

-----------------------------------------------------------------------------
(* The console.                                                            *)

At(i) == i % INPUT_BUF
Typed(from, to) ==
  [j \in 1 .. (to - from) % Width |-> input.buf[At(from + j - 1)]]

WakeReaders(f) ==
  [p \in Procs |-> IF f[p] = "readsleep" /\ io[p].kind = "console"
                   THEN "read" ELSE f[p]]

\* consoleintr of one key.  Erasing stops at what has been handed to a reader.
Erase(k) == input' = [input EXCEPT !.e = (@ - k) % Width]

\* ^U: back to the start of the line.
KillLine ==
  LET line == Typed(input.w, input.e)
      n == Len(line)
  IN Erase(CHOOSE k \in 0 .. n : /\ "nl" \notin ToSet(SubSeq(line, n - k + 1, n))
                                 /\ k < n => line[n - k] = "nl")

\* A slip: characters a reader may already take are erased.
BackSpaceTaken == Erase(IF input.e = input.r THEN 0 ELSE 1)
BackSpace == Erase(IF input.e = input.w THEN 0 ELSE 1)

Store(c) ==
  IF (input.e - input.r) % Width < INPUT_BUF
  THEN LET e == (input.e + 1) % Width
           eol == c \in {"nl", "eof"} \/ e = (input.r + INPUT_BUF) % Width
       IN /\ input' = [input EXCEPT !.buf[At(input.e)] = c, !.e = e,
                                    !.w = IF eol THEN e ELSE @]
          /\ pc' = IF eol THEN WakeReaders(pc) ELSE pc
          /\ typed' = IF eol THEN typed \o SelectSeq(Append(Typed(input.w, input.e), c),
                                                   LAMBDA d : d # "eof")
                     ELSE typed
  ELSE UNCHANGED <<input, pc, typed>>

ConsoleIntr(c) ==
  /\ CASE c = "kill" -> KillLine /\ UNCHANGED <<pc, typed>>
       [] c = "bs"   -> BackSpace /\ UNCHANGED <<pc, typed>>
       [] OTHER      -> Store(c)
  /\ UNCHANGED <<ofile, file, taken, pipe, out, io, killed, unwoken>>

\* consoleread of `n` bytes, from a wakeup or its start to its sleep or its
\* end; io holds what it has copied.  It takes bytes up to the end of a line;
\* a ^D after others is left for the next call.
ConsoleRead(p, n) ==
  /\ pc[p] = "read" /\ io[p].kind = "console"
  /\ LET avail == Typed(input.r, input.w)
         most == Smaller(n - Len(io[p].bytes), Len(avail))
         ends == {i \in 1 .. most : avail[i] \in {"nl", "eof"}}
         eof == ends # {} /\ avail[Least(ends)] = "eof"
         k == IF ends = {} THEN most
              ELSE IF eof THEN Least(ends) - 1 ELSE Least(ends)
         got == io[p].bytes \o SubSeq(avail, 1, k)
         used == IF eof /\ got = <<>> THEN k + 1 ELSE k
         full == Len(got) = n \/ ends # {}
     IN /\ input' = [input EXCEPT !.r = (@ + used) % Width]
        /\ io' = [io EXCEPT ![p].bytes = got]
        /\ Goto(p, IF full THEN "got" ELSE IF killed[p] THEN "failed" ELSE "readsleep")
  /\ UNCHANGED <<ofile, file, taken, pipe, out, typed, killed, unwoken>>

ConsoleWrite(p) ==
  /\ pc[p] = "write" /\ io[p].kind = "console"
  /\ out' = out \o io[p].bytes
  /\ io' = [io EXCEPT ![p].bytes = <<>>]
  /\ Goto(p, "user")
  /\ UNCHANGED <<ofile, file, taken, pipe, input, typed, killed, unwoken>>

-----------------------------------------------------------------------------
(* fileread, filewrite and kill.                                           *)

Begin(p, n, s, what, usable) ==
  /\ IF ofile[p][n] # None /\ usable
     THEN LET f == file[ofile[p][n]]
          IN /\ io' = [io EXCEPT ![p] = [Idle EXCEPT !.kind = f.type, !.pipe = f.pipe,
                                                     !.bytes = s]]
             /\ Goto(p, what)
     ELSE Goto(p, "failed") /\ UNCHANGED io
  /\ UNCHANGED <<ofile, file, taken, pipe, input, out, killed, unwoken>>

Readable(p, n) == ofile[p][n] # None /\
  (file[ofile[p][n]].type = "console" \/ ~file[ofile[p][n]].writable)
Writable(p, n) == ofile[p][n] # None /\
  (file[ofile[p][n]].type = "console" \/ file[ofile[p][n]].writable)

FileRead(p, n) == Begin(p, n, <<>>, "read", Readable(p, n))
FileWrite(p, n, s) == Begin(p, n, s, "write", Writable(p, n))

\* kill: the flag, and the sleeper is made runnable.
Kill(p) ==
  /\ killed' = [killed EXCEPT ![p] = TRUE]
  /\ pc' = [pc EXCEPT ![p] = CASE @ = "readsleep" -> "read"
                               [] @ = "writesleep" -> "write"
                               [] @ = "waitsleep" -> "wait"
                               [] OTHER -> @]
  /\ UNCHANGED <<ofile, file, taken, pipe, input, out, typed, io, unwoken>>
==============================================================================
