------------------------------- MODULE Sched -------------------------------
(***************************************************************************)
(* The lab 3 process table and its single run queue                         *)
(* (DesignOS-xv6-public-lab3/kernel/src/proc.c): allocproc, fork, clone,    *)
(* exit, wait, sleep, wakeup, kill, setscheduler, yield and the per-CPU     *)
(* scheduler loop, which pops the head of a linked list threaded through    *)
(* the process structures.                                                  *)
(*                                                                          *)
(* A step is one critical section of ptable.lock; queue.queuelock is only   *)
(* taken inside one.  A slot stands for its pid as well: pids of live slots *)
(* are distinct.  Memory, files and thread groups are left out.             *)
(***************************************************************************)
EXTENDS Integers, Sequences, FiniteSets

CONSTANTS
    NPROC,       \* slots of the process table
    CPUs,        \* processors
    Asks,        \* the <<policy, priority>> pairs programs ask for
    MaxUpsets    \* bound: kills and scheduler changes that upset the queue

ASSUME SchedAssumption == NPROC \in Nat \ {0} /\ Asks \subseteq {1, 2} \X Nat /\ MaxUpsets \in Nat

VARIABLES
    st,          \* p->state
    policy,      \* p->policy
    priority,    \* p->priority
    parent,      \* p->parent
    killed,      \* p->killed
    chan,        \* p->chan: its own address in wait(), or a device's
    next,        \* p->next
    head,        \* queue.head
    cpu,         \* c->proc, for each CPU
    call,        \* where in the kernel a process is when it is not sleeping
    arg,         \* the process that call is about
    halted,      \* a CPU panicked, or spins for ever holding ptable.lock
    upsets       \* history: kills of a sleeper, and scheduler changes of a
                 \* child that is not runnable

proc == <<st, policy, priority, parent, killed, chan, call, arg>>
queue == <<head, next>>
vars == <<proc, queue, cpu, halted, upsets>>

None == 0
Procs == 1..NPROC
initproc == 1
SCHED_RR == 1
SCHED_FIFO == 2

Runnable == {p \in Procs : st[p] = "RUNNABLE"}
Zombies(p) == {k \in Procs : parent[k] = p /\ st[k] = "ZOMBIE"}
Kids(p) == {k \in Procs : parent[k] = p}
First(x, S) == x \in S /\ \A y \in S : x <= y
Free == {p \in Procs : st[p] = "UNUSED"}

-----------------------------------------------------------------------------
(* The run queue, as a record of head, links and whether a loop over it     *)
(* failed to end.                                                           *)

TheQueue == [head |-> head, next |-> next, spins |-> FALSE]

\* The nodes met from x on, None after the last.
Nodes(nx, x) ==
    LET at[k \in 0..NPROC] ==
          IF k = 0 THEN x ELSE IF at[k - 1] = None THEN None ELSE nx[at[k - 1]]
    IN  at

\* The node where a loop from x on that ends at the nodes of S stops; None if
\* it meets none, which is when it goes round a cycle for ever.
Walk(nx, x, S) ==
    LET at == Nodes(nx, x)
        stops == {k \in 0..NPROC : at[k] \in S}
    IN  IF stops = {} THEN None ELSE at[CHOOSE k \in stops : \A j \in stops : k <= j]

\* A slip: nothing is unlinked.
RemoveNothing(q, p) == q

\* remove: unlink p if it is found.
Remove(q, p) ==
    LET x == Walk(q.next, q.head, {y \in Procs : q.next[y] \in {None, p}})
    IN  IF q.head = None THEN q
        ELSE IF q.head = p THEN [q EXCEPT !.head = q.next[p]]
        ELSE IF x = None THEN [q EXCEPT !.spins = TRUE]
        ELSE IF q.next[x] = p THEN [q EXCEPT !.next[x] = q.next[p]]
        ELSE q

\* push, with the policies and priorities the processes have at the call: the
\* loops over the list end at its last node, at one that is not SCHED_FIFO,
\* or before one of lower priority, or one whose priority is not SCHED_FIFO.
LastRR(q, pol) == {y \in Procs : q.next[y] = None \/ pol[y] # SCHED_FIFO}
Behind(q, p, pol, pri) ==
    {y \in Procs : \/ q.next[y] = None
                   \/ pri[q.next[y]] < pri[p]
                   \/ pol[p] # SCHED_RR /\ pri[q.next[y]] # SCHED_FIFO}

PushAs(q, p, pol, pri) ==
    LET from == IF pol[p] = SCHED_RR THEN Walk(q.next, q.head, LastRR(q, pol)) ELSE q.head
        x == Walk(q.next, from, Behind(q, p, pol, pri))
    IN  IF q.head = None
        THEN [q EXCEPT !.head = p, !.next[p] = None]
        ELSE IF (pol[q.head] = pol[p] \/ pol[p] = SCHED_FIFO) /\ pri[p] > pri[q.head]
        THEN [q EXCEPT !.head = p, !.next[p] = q.head]
        ELSE IF x = None THEN [q EXCEPT !.spins = TRUE]
        ELSE [q EXCEPT !.next = [[@ EXCEPT ![p] = q.next[x]] EXCEPT ![x] = p]]

\* A slip: an equal priority goes to the front too.
PushFirst(q, p, pol, pri) ==
    IF q.head # None /\ pol[q.head] = pol[p] /\ pri[p] = pri[q.head]
    THEN [q EXCEPT !.head = p, !.next[p] = q.head]
    ELSE PushAs(q, p, pol, pri)

\* A slip: the policies are not looked at.
PushLast(q, p, pol, pri) ==
    LET x == Walk(q.next, q.head, {y \in Procs : q.next[y] = None})
    IN  IF q.head = None THEN [q EXCEPT !.head = p, !.next[p] = None]
        ELSE [q EXCEPT !.next = [[@ EXCEPT ![p] = None] EXCEPT ![x] = p]]

Push(q, p, pol, pri) == PushAs(q, p, pol, pri)

\* The pushes of wakeup1's loop over the table.
PushAll(q, woken) ==
    LET f[k \in 0..NPROC] ==
          IF k = 0 THEN q
          ELSE IF k \in woken THEN Push(f[k - 1], k, policy, priority) ELSE f[k - 1]
    IN  f[NPROC]

\* The queue becomes q; a loop that does not end holds ptable.lock for ever.
\* The link of a node off the list is dead, push writes it first: it is None.
SetQueue(q) ==
    LET met == {Nodes(q.next, q.head)[k] : k \in 0..NPROC}
    IN  /\ head' = q.head
        /\ next' = [p \in Procs |-> IF p \in met THEN q.next[p] ELSE None]
        /\ halted' = q.spins

-----------------------------------------------------------------------------
(* scheduler(): pop the head; run it if it is runnable, else drop it.       *)

Idle(c) == ~halted /\ cpu[c] = None /\ head \in Procs
Pop == SetQueue([TheQueue EXCEPT !.head = next[head]]) /\ UNCHANGED upsets

Drop(c) ==
    /\ Idle(c) /\ st[head] # "RUNNABLE"
    /\ Pop
    /\ UNCHANGED <<proc, cpu>>

\* A slip: the test of the state only skips sleepers and the dead.
MayRunLoose(p) == st[p] \in {"RUNNABLE", "RUNNING"}

MayRun(p) == st[p] = "RUNNABLE"

\* The popped process returns from swtch into whatever it was doing.
Run(c) ==
    /\ Idle(c) /\ MayRun(head) /\ call[head] # "wait"
    /\ Pop
    /\ cpu' = [cpu EXCEPT ![c] = head]
    /\ st' = [st EXCEPT ![head] = "RUNNING"]
    /\ chan' = [chan EXCEPT ![head] = "none"]
    /\ UNCHANGED <<policy, priority, parent, killed, call, arg>>

\* Reap the first zombie child in table order.
ScanReap(p) ==
    /\ \E k \in Procs :
          /\ First(k, Zombies(p))
          /\ st' = [st EXCEPT ![k] = "UNUSED", ![p] = "RUNNING"]
          /\ parent' = [parent EXCEPT ![k] = None]
          /\ killed' = [killed EXCEPT ![k] = FALSE]
    /\ chan' = [chan EXCEPT ![p] = "none"]
    /\ call' = [call EXCEPT ![p] = "user"]
    /\ UNCHANGED <<policy, priority, arg>>

\* No child, or the caller was killed: wait returns -1.
ScanFails(p) ==
    /\ Zombies(p) = {} /\ (Kids(p) = {} \/ killed[p])
    /\ st' = [st EXCEPT ![p] = "RUNNING"]
    /\ chan' = [chan EXCEPT ![p] = "none"]
    /\ call' = [call EXCEPT ![p] = "user"]
    /\ UNCHANGED <<policy, priority, parent, killed, arg>>

ScanSleeps(p) ==
    /\ Zombies(p) = {} /\ Kids(p) # {} /\ ~killed[p]
    /\ st' = [st EXCEPT ![p] = "SLEEPING"]
    /\ chan' = [chan EXCEPT ![p] = "wait"]
    /\ call' = [call EXCEPT ![p] = "wait"]
    /\ UNCHANGED <<policy, priority, parent, killed, arg>>

\* A woken waiter comes back from sleep still holding ptable.lock and scans.
Resume(c) ==
    /\ Idle(c) /\ MayRun(head) /\ call[head] = "wait"
    /\ Pop
    /\ \/ /\ ScanReap(head) \/ ScanFails(head)
          /\ cpu' = [cpu EXCEPT ![c] = head]
       \/ ScanSleeps(head) /\ UNCHANGED cpu

-----------------------------------------------------------------------------
(* What the process on CPU c does.                                          *)

On(c, where) == ~halted /\ cpu[c] # None /\ call[cpu[c]] = where
Syscall(c) == On(c, "user") /\ ~killed[cpu[c]]
Leave(c) == cpu' = [cpu EXCEPT ![c] = None]

Wait(c) ==
    /\ Syscall(c)
    /\ \/ ScanReap(cpu[c]) /\ UNCHANGED cpu
       \/ ScanFails(cpu[c]) /\ UNCHANGED cpu
       \/ ScanSleeps(cpu[c]) /\ Leave(c)
    /\ UNCHANGED <<queue, halted, upsets>>

\* A slip: allocproc leaves the policy of the slot as it was.
AllocBare(c) ==
    /\ Syscall(c)
    /\ \E k \in Procs :
          /\ First(k, Free)
          /\ st' = [st EXCEPT ![k] = "EMBRYO"]
          /\ next' = [next EXCEPT ![k] = None]
          /\ arg' = [arg EXCEPT ![cpu[c]] = k]
    /\ call' = [call EXCEPT ![cpu[c]] = "fork"]
    /\ UNCHANGED <<policy, priority, parent, killed, chan, head, cpu, halted, upsets>>

\* allocproc, as fork or clone calls it; with no slot free it changes nothing.
Alloc(c) ==
    /\ Syscall(c)
    /\ \E k \in Procs :
          /\ First(k, Free)
          /\ st' = [st EXCEPT ![k] = "EMBRYO"]
          /\ policy' = [policy EXCEPT ![k] = SCHED_RR]
          /\ priority' = [priority EXCEPT ![k] = 0]
          /\ next' = [next EXCEPT ![k] = None]
          /\ arg' = [arg EXCEPT ![cpu[c]] = k]
    /\ call' = [call EXCEPT ![cpu[c]] = "fork"]
    /\ UNCHANGED <<parent, killed, chan, head, cpu, halted, upsets>>

\* fork and clone hand the child to the scheduler.
Start(c) ==
    /\ On(c, "fork")
    /\ LET k == arg[cpu[c]]
       IN  /\ parent' = [parent EXCEPT ![k] = cpu[c]]
           /\ st' = [st EXCEPT ![k] = "RUNNABLE"]
           /\ call' = [call EXCEPT ![cpu[c]] = "user", ![k] = "user"]
           /\ SetQueue(Push(TheQueue, k, policy, priority))
    /\ arg' = [arg EXCEPT ![cpu[c]] = None]
    /\ UNCHANGED <<policy, priority, killed, chan, cpu, upsets>>

\* copyuvm failed: the slot is given back as it is.
ForkFails(c) ==
    /\ On(c, "fork")
    /\ st' = [st EXCEPT ![arg[cpu[c]]] = "UNUSED"]
    /\ call' = [call EXCEPT ![cpu[c]] = "user"]
    /\ arg' = [arg EXCEPT ![cpu[c]] = None]
    /\ UNCHANGED <<policy, priority, parent, killed, chan, queue, cpu, halted, upsets>>

\* clone met a kernel address on the stack it copies: the slot stays EMBRYO.
CloneFails(c) ==
    /\ On(c, "fork")
    /\ call' = [call EXCEPT ![cpu[c]] = "user"]
    /\ arg' = [arg EXCEPT ![cpu[c]] = None]
    /\ UNCHANGED <<st, policy, priority, parent, killed, chan, queue, cpu, halted, upsets>>

\* yield: from the timer under SCHED_RR, or from setscheduler.
Yield(c) ==
    LET p == cpu[c]
    IN  /\ ~halted /\ p # None
        /\ \/ policy[p] = SCHED_RR /\ UNCHANGED call
           \/ call[p] = "yield" /\ call' = [call EXCEPT ![p] = "user"]
        /\ st' = [st EXCEPT ![p] = "RUNNABLE"]
        /\ SetQueue(Push(TheQueue, p, policy, priority))
        /\ Leave(c)
        /\ UNCHANGED <<policy, priority, parent, killed, chan, arg, upsets>>

\* sleep on a device's channel, inside any system call or in exit.
Sleep(c) ==
    /\ On(c, "user")
    /\ st' = [st EXCEPT ![cpu[c]] = "SLEEPING"]
    /\ chan' = [chan EXCEPT ![cpu[c]] = "device"]
    /\ Leave(c)
    /\ UNCHANGED <<policy, priority, parent, killed, call, arg, queue, halted, upsets>>

\* wakeup: a device's interrupt handler, or another process.
Wakeup ==
    LET woken == {p \in Procs : st[p] = "SLEEPING" /\ chan[p] = "device"}
    IN  /\ ~halted /\ woken # {}
        /\ st' = [p \in Procs |-> IF p \in woken THEN "RUNNABLE" ELSE st[p]]
        /\ SetQueue(PushAll(TheQueue, woken))
        /\ UNCHANGED <<policy, priority, parent, killed, chan, call, arg, cpu, upsets>>

\* The waiters exit wakes: the parent, and init if it gets a zombie.
Waiting(p) == st[p] = "SLEEPING" /\ chan[p] = "wait"

\* A slip: wakeup1 gets the caller, not its parent.
WokenSelf(p) ==
    {k \in Procs : Waiting(k) /\ (k = p \/ (k = initproc /\ Zombies(p) # {}))}

Woken(p) ==
    {k \in Procs : Waiting(k) /\ (k = parent[p] \/ (k = initproc /\ Zombies(p) # {}))}

Exit(c) ==
    LET p == cpu[c]
        first == Woken(p) \cap {parent[p]}
    IN  /\ On(c, "user") /\ p # initproc
        /\ st' = [k \in Procs |-> IF k = p THEN "ZOMBIE"
                                  ELSE IF k \in Woken(p) THEN "RUNNABLE" ELSE st[k]]
        /\ parent' = [k \in Procs |-> IF parent[k] = p THEN initproc ELSE parent[k]]
        /\ SetQueue(PushAll(PushAll(TheQueue, first), Woken(p) \ first))
        /\ Leave(c)
        /\ UNCHANGED <<policy, priority, killed, chan, call, arg, upsets>>

\* exit of the first process panics.
InitExits(c) ==
    /\ On(c, "user") /\ cpu[c] = initproc
    /\ halted' = TRUE
    /\ UNCHANGED <<proc, queue, cpu, upsets>>

\* These two leave the queue wrong; a run lets them happen MaxUpsets times.
Upset(b) == upsets' = upsets + (IF b THEN 1 ELSE 0) /\ upsets' <= MaxUpsets

\* kill looks for the pid only: 0, or the pid of a failed fork, is an UNUSED
\* slot's, and the next process in it starts killed.  It wakes a sleeper by
\* its state alone; nothing is pushed.
Kill(c, k) ==
    /\ Syscall(c)
    /\ killed' = [killed EXCEPT ![k] = TRUE]
    /\ st' = [st EXCEPT ![k] = IF @ = "SLEEPING" THEN "RUNNABLE" ELSE @]
    /\ Upset(st[k] = "SLEEPING")
    /\ UNCHANGED <<policy, priority, parent, chan, call, arg, queue, cpu, halted>>

-----------------------------------------------------------------------------
(* setscheduler                                                             *)

SetSelf(c, pol, pri) ==
    /\ Syscall(c)
    /\ policy' = [policy EXCEPT ![cpu[c]] = pol]
    /\ priority' = [priority EXCEPT ![cpu[c]] = pri]
    /\ call' = [call EXCEPT ![cpu[c]] = "yield"]
    /\ UNCHANGED <<st, parent, killed, chan, arg, queue, cpu, halted, upsets>>

\* A child is unlinked and pushed whatever its state is.
SetChild(c, k, pol, pri) ==
    /\ Syscall(c) /\ parent[k] = cpu[c]
    /\ policy' = [policy EXCEPT ![k] = pol]
    /\ priority' = [priority EXCEPT ![k] = pri]
    /\ LET q == Remove(TheQueue, k)
       IN  SetQueue(IF q.spins THEN q ELSE Push(q, k, policy', priority'))
    /\ call' = [call EXCEPT ![cpu[c]] = "preempt"]
    /\ arg' = [arg EXCEPT ![cpu[c]] = k]
    /\ Upset(st[k] # "RUNNABLE")
    /\ UNCHANGED <<st, parent, killed, chan, cpu>>

\* After the unlock: does the child beat the caller?
Preempt(c) ==
    LET p == cpu[c]
        k == arg[p]
    IN  /\ On(c, "preempt")
        /\ call' = [call EXCEPT ![p] =
                      IF \/ policy[k] = policy[p] /\ priority[k] > priority[p]
                         \/ policy[k] = SCHED_FIFO /\ policy[p] = SCHED_RR
                      THEN "yield" ELSE "user"]
        /\ arg' = [arg EXCEPT ![p] = None]
        /\ UNCHANGED <<st, policy, priority, parent, killed, chan, queue, cpu, halted, upsets>>

\* A pid that is neither the caller nor its child: ptable.lock stays taken,
\* the caller's next sched panics and every other CPU spins.
SetOther(c) ==
    /\ Syscall(c)
    /\ halted' = TRUE
    /\ UNCHANGED <<proc, queue, cpu, upsets>>

-----------------------------------------------------------------------------

Init ==
    /\ st = [p \in Procs |-> IF p = initproc THEN "RUNNABLE" ELSE "UNUSED"]
    /\ policy = [p \in Procs |-> IF p = initproc THEN SCHED_RR ELSE 0]
    /\ priority = [p \in Procs |-> 0]
    /\ parent = [p \in Procs |-> None]
    /\ killed = [p \in Procs |-> FALSE]
    /\ chan = [p \in Procs |-> "none"]
    /\ next = [p \in Procs |-> None]
    /\ head = initproc
    /\ cpu = [c \in CPUs |-> None]
    /\ call = [p \in Procs |-> "user"]
    /\ arg = [p \in Procs |-> None]
    /\ halted = FALSE
    /\ upsets = 0

Setscheduler(c) ==
    \/ \E a \in Asks : SetSelf(c, a[1], a[2]) \/ \E k \in Procs : SetChild(c, k, a[1], a[2])
    \/ SetOther(c)

Next ==
    \/ Wakeup
    \/ \E c \in CPUs :
          \/ Drop(c) \/ Run(c) \/ Resume(c)
          \/ Wait(c) \/ Alloc(c) \/ Start(c) \/ ForkFails(c) \/ CloneFails(c)
          \/ Yield(c) \/ Sleep(c) \/ Exit(c) \/ InitExits(c)
          \/ Setscheduler(c) \/ Preempt(c)
          \/ \E k \in Procs : Kill(c, k)

\* An idle CPU's loop takes the head (Drop, Run, Resume); the clock takes the
\* CPU from a process that lets it (Yield).  Both are stated on the variable
\* they move alone: they are enabled when those actions are.
Takes(c) == Idle(c) /\ head' = next[head]
Ticks(c) == ~halted /\ cpu[c] # None /\ policy[cpu[c]] = SCHED_RR /\ Leave(c)
Fairness == \A c \in CPUs : WF_head(Takes(c)) /\ WF_cpu(Ticks(c))

Spec == Init /\ [][Next]_vars /\ Fairness

-----------------------------------------------------------------------------

(* Every variable stays in its range, and a slot in use has a policy.       *)
TypeOK ==
    /\ st \in [Procs -> {"UNUSED", "EMBRYO", "SLEEPING", "RUNNABLE", "RUNNING", "ZOMBIE"}]
    /\ policy \in [Procs -> {0, SCHED_RR, SCHED_FIFO}]
    /\ \A p \in Procs : policy[p] = 0 => st[p] = "UNUSED"
    /\ priority \in [Procs -> {a[2] : a \in Asks} \cup {0}]
    /\ parent \in [Procs -> Procs \cup {None}]
    /\ killed \in [Procs -> BOOLEAN]
    /\ chan \in [Procs -> {"none", "wait", "device"}]
    /\ next \in [Procs -> Procs \cup {None}]
    /\ head \in Procs \cup {None}
    /\ cpu \in [CPUs -> Procs \cup {None}]
    /\ call \in [Procs -> {"user", "wait", "fork", "preempt", "yield"}]
    /\ arg \in [Procs -> Procs \cup {None}]
    /\ halted \in BOOLEAN /\ upsets \in 0..MaxUpsets

(* A process is RUNNING exactly while one CPU, and one only, has it: however *)
(* often its node was pushed, its kernel stack is never used by two CPUs.   *)
RunsOnce ==
    \A p \in Procs : Cardinality({c \in CPUs : cpu[c] = p}) = IF st[p] = "RUNNING" THEN 1 ELSE 0

(* The list from queue.head ends and holds the runnable processes and no    *)
(* other, once each, until a sleeper is killed or a child that is not       *)
(* runnable has its scheduler set.                                          *)
Linked ==
    LET at == Nodes(next, head)
    IN  at[NPROC] = None /\ {at[k] : k \in 0..NPROC} = Runnable \cup {None}
QueueExact == (upsets = 0 /\ ~halted) => Linked

(* No parent sleeps in wait while it has a zombie child to reap, orphans    *)
(* passed to init included.                                                 *)
WaitersWoken == \A p \in Procs : st[p] = "SLEEPING" /\ chan[p] = "wait" => Zombies(p) = {}

(* While every process is SCHED_RR of one priority and nothing upsets the   *)
(* queue, each runnable process gets a CPU: the insertion point of push     *)
(* makes the list a ring.                                                   *)
Even == upsets = 0 /\ ~halted /\ \A p \in Procs : policy[p] # SCHED_FIFO /\ priority[p] = 0
RoundRobin == []Even => \A p \in Procs : (st[p] = "RUNNABLE") ~> (st[p] = "RUNNING")

(* The process a CPU takes is one no runnable process beats: FIFO before    *)
(* RR, then higher priority first (lab3.md, "Priorities").  push keeps the  *)
(* list in that order only for the programs of Sortable: a SCHED_RR process *)
(* goes behind the first SCHED_RR one whatever their priorities once a      *)
(* SCHED_FIFO one leads the list, one SCHED_FIFO process must beat the      *)
(* SCHED_RR ones by its priority, and goes before any that follows the head *)
(* and whose priority is not the constant SCHED_FIFO.                       *)
Beats(p, q) ==
    \/ policy[p] = SCHED_FIFO /\ policy[q] = SCHED_RR
    \/ policy[p] = policy[q] /\ priority[p] > priority[q]
Sortable ==
    \/ \A a \in Asks : a[1] = SCHED_RR
    \/ \A a \in Asks :
          \/ a[1] = SCHED_RR /\ a[2] = 0
          \/ /\ a[1] = SCHED_FIFO /\ a[2] > 0
             /\ a[2] = SCHED_FIFO \/ \A b \in Asks : b[1] = SCHED_FIFO => b[2] >= a[2]
BestFirst ==
    [][\A c \in CPUs : Sortable /\ upsets = 0 /\ cpu[c] = None /\ cpu'[c] # None
          => \A p \in Runnable : ~Beats(p, cpu'[c])]_vars

(* A runnable process is on the list the CPUs pop from.                     *)
Queued == ~halted => \A p \in Runnable : \E k \in 0..NPROC : Nodes(next, head)[k] = p
=============================================================================
