----------------------------- MODULE KernelLocks -----------------------------
(***************************************************************************)
(* The spinlocks of the lab 2 kernel, and the order its code takes them    *)
(* in.  Interrupts are off while a CPU holds one, and page faults, the one *)
(* trap that still comes, are part of the code that causes them; so what a *)
(* CPU does between holding no lock and holding no lock again is a fixed   *)
(* sequence of steps, a section.  Which section comes next is up to the    *)
(* program, to the scheduler and to the devices: any may.                  *)
(***************************************************************************)
EXTENDS Integers, Sequences

CONSTANTS
  Cpus,
  Idle,      \* no CPU
  Printing   \* lab2_ag.c is built in, not lab2_ag_noprint.c

ASSUME LocksAssumption == Idle \notin Cpus /\ Printing \in BOOLEAN

Locks == {"ptable", "kmem", "pageref", "cons", "pipe", "ticks"}

VARIABLES
  owner,    \* lk->locked and lk->cpu: the CPU that holds each lock
  todo      \* the steps left of the section each CPU is in

vars == <<owner, todo>>

Acq(l) == <<[do |-> "acquire", lock |-> l]>>
Rel(l) == <<[do |-> "release", lock |-> l]>>
Sched  == <<[do |-> "sched", lock |-> "ptable"]>>
Locked(l, steps) == Acq(l) \o steps \o Rel(l)

-----------------------------------------------------------------------------
(* The sections.                                                           *)

\* wakeup, called with a lock held, and sleep on a channel guarded by `l`.
Wakeup   == Locked("ptable", <<>>)
Sleep(l) == Acq("ptable") \o Rel(l) \o Sched \o Rel("ptable") \o Acq(l)

\* kalloc and kfree.
Alloc == Locked("kmem", <<>>)
Free  == Locked("kmem", Locked("pageref", <<>>))

\* cprintf, from the functions the autograder replaces.
Report == IF Printing THEN Locked("cons", <<>>) ELSE <<>>

\* A page fault: nothing to do, the last reference, or a page to fill.
\* A slip: the old page is freed where its count is only decremented.
FaultsFree == {Report \o Locked("pageref", Alloc \o Report \o Free)}
Faults == {<<>>, Report} \cup
          {Report \o Locked("pageref", fill) : fill \in {<<>>, Alloc \o Report}}

\* copyuvm counts a reference.
Count == Locked("pageref", <<>>)
\* wait frees the child's pages with the process table locked.
Wait  == Locked("ptable", Free)
Yield == Locked("ptable", Sched)
\* The timer of CPU 0, sys_sleep.
Clock == Locked("ticks", Wakeup)
Nap   == Locked("ticks", Sleep("ticks"))

\* A slip: a key wakes the reader from under ptable.lock.
ConsoleIntrInverted == Locked("ptable", Locked("cons", <<>>))
\* consoleintr wakes the reader; consoleread stores into the program's memory.
ConsoleIntr  == Locked("cons", Wakeup)
ConsoleReads == {Locked("cons", w \o f) :
                   w \in {<<>>, Sleep("cons")}, f \in Faults}
ConsoleWrite == Locked("cons", <<>>)

\* pipewrite waits when the pipe is full, piperead when it is empty; only
\* piperead stores into the program's memory.
PipeWrites == {Locked("pipe", w \o Wakeup) : w \in {<<>>, Wakeup \o Sleep("pipe")}}
PipeReads  == {Locked("pipe", w \o f \o Wakeup) :
                 w \in {<<>>, Sleep("pipe")}, f \in Faults}

Sections ==
  {Wakeup, Alloc, Free, Count, Wait, Yield, Clock, Nap, ConsoleIntr, ConsoleWrite}
    \cup Faults \cup ConsoleReads \cup PipeWrites \cup PipeReads

\* Where a process may be taken up again: after its sched, or, when it is new
\* or there is none, with ptable.lock to release.
AfterSched(s) ==
  LET k == CHOOSE n \in DOMAIN s : s[n] = Sched[1] IN SubSeq(s, k + 1, Len(s))
Resumes ==
  {Rel("ptable")} \cup
  {AfterSched(s) : s \in {t \in Sections : \E n \in DOMAIN t : t[n] = Sched[1]}}

-----------------------------------------------------------------------------
Held(c) == {l \in Locks : owner[l] = c}
Done(c) == todo' = [todo EXCEPT ![c] = Tail(@)]

At(c, do, l) == todo[c] # <<>> /\ Head(todo[c]) = [do |-> do, lock |-> l]

Enter(c) ==
  /\ todo[c] = <<>>
  /\ \E s \in Sections : todo' = [todo EXCEPT ![c] = s]
  /\ UNCHANGED owner

\* acquire: spin until the lock is free.
Acquire(c, l) ==
  /\ At(c, "acquire", l)
  /\ owner[l] = Idle
  /\ owner' = [owner EXCEPT ![l] = c]
  /\ Done(c)

Release(c, l) ==
  /\ At(c, "release", l)
  /\ owner[l] = c
  /\ owner' = [owner EXCEPT ![l] = Idle]
  /\ Done(c)

\* sched: the CPU goes on with another process, with ptable.lock held.
Switch(c) ==
  /\ At(c, "sched", "ptable")
  /\ Held(c) = {"ptable"}
  /\ \E s \in Resumes : todo' = [todo EXCEPT ![c] = s]
  /\ UNCHANGED owner

\* The checks of acquire ("acquire"), release ("release") and sched
\* ("sched ptable.lock", "sched locks") that end in panic().
Panics(c) ==
  \E l \in Locks :
    \/ At(c, "acquire", l) /\ owner[l] = c
    \/ At(c, "release", l) /\ owner[l] # c
    \/ At(c, "sched", l) /\ Held(c) # {"ptable"}

Init ==
  /\ owner = [l \in Locks |-> Idle]
  /\ todo = [c \in Cpus |-> <<>>]

Step(c) ==
  \/ Enter(c) \/ Switch(c)
  \/ \E l \in Locks : Acquire(c, l) \/ Release(c, l)

Next == \E c \in Cpus : Step(c)

Spec == Init /\ [][Next]_vars

-----------------------------------------------------------------------------
\* CPU `c` spins for a lock that CPU `d` holds.
Waits(c, d) ==
  c # d /\ \E l \in Locks : At(c, "acquire", l) /\ owner[l] = d

\* CPUs that will spin for ever, each for a lock another of them holds.
Stuck(S) == S # {} /\ \A c \in S : \E d \in S : Waits(c, d)

\* Of the checks in acquire, release and sched one can fail: a fault that
\* consoleread causes is reported by cprintf with cons.lock held.  Otherwise
\* no CPU takes a lock it holds, and none switches away with a lock other
\* than ptable.lock, the faults under the pipe's lock included.
OnlyReportsPanic ==
  \A c \in Cpus : Panics(c) =>
    Printing /\ owner["cons"] = c /\ At(c, "acquire", "cons")

\* A program sees copy-on-write only as ordinary memory (lab2.md,
\* "transparent to the user-space"): no fault leaves the kernel hanging.
NoDeadlock == \A S \in SUBSET Cpus : ~Stuck(S)

\* The locks are ordered but for the inside of a page fault.  Whenever CPUs
\* wait for each other for ever, one of them is in kfree, with kmem.lock,
\* waiting for pageref_lock, and one in a page fault, with pageref_lock,
\* waiting for kmem.lock or to report the fault: the console's interrupt then
\* has cons.lock and waits for a wait that frees pages under ptable.lock.
OnlyFaultsHang ==
  \A S \in SUBSET Cpus : Stuck(S) =>
    /\ \E c \in S : owner["kmem"] = c /\ At(c, "acquire", "pageref")
    /\ \E c \in S :
         /\ owner["pageref"] = c
         /\ At(c, "acquire", "kmem") \/ (Printing /\ At(c, "acquire", "cons"))

=============================================================================
