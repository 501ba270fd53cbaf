---------------------------- MODULE SchedProofs ----------------------------
(***************************************************************************)
(* However wrong the run queue gets, no process runs on two CPUs, for any   *)
(* number of slots and CPUs: the test of the state under ptable.lock is     *)
(* enough (proc.c, scheduler).  The invariant says who is on a CPU, who is  *)
(* RUNNING, and that the slot fork fills in belongs to one caller; the      *)
(* queue does not occur in it.  A second invariant, on parents and channels,*)
(* gives that no parent sleeps in wait for a child that is a zombie.        *)
(*                                                                          *)
(* The last part is about the queue.  A sequence L of slots says what the   *)
(* linked list holds; push inserts in L, remove and the scheduler delete    *)
(* from it, and a loop over the list stops at the first node of L it looks  *)
(* for.  The invariant is that some L has the runnable processes, in order  *)
(* when the programs are such that push keeps it.                           *)
(***************************************************************************)
EXTENDS Sched, FiniteSetTheorems, WellFoundedInduction, TLAPS

States == {"UNUSED", "EMBRYO", "SLEEPING", "RUNNABLE", "RUNNING", "ZOMBIE"}
Calls == {"user", "wait", "fork", "preempt", "yield"}

\* The variables that say who runs, in their ranges.
Typed ==
  /\ st \in [Procs -> States]
  /\ call \in [Procs -> Calls]
  /\ arg \in [Procs -> Procs \cup {None}]
  /\ cpu \in [CPUs -> Procs \cup {None}]

\* RUNNING is being on a CPU, and a CPU shares its process with no other.
OnCpu ==
  /\ \A c \in CPUs : cpu[c] # None => st[cpu[c]] = "RUNNING"
  /\ \A p \in Procs : st[p] = "RUNNING" => \E c \in CPUs : cpu[c] = p
  /\ \A c, d \in CPUs : cpu[c] = cpu[d] => c = d \/ cpu[c] = None

\* The slot a fork fills in is nobody else's.
Embryos ==
  \A p \in Procs : call[p] = "fork" =>
    /\ arg[p] \in Procs /\ st[arg[p]] = "EMBRYO"
    /\ \A q \in Procs : call[q] = "fork" /\ arg[q] = arg[p] => q = p

RunInv == Typed /\ OnCpu /\ Embryos

running == <<st, call, arg, cpu>>

LEMMA NoneIsNoProc == None \notin Procs
BY DEF None, Procs

\* It holds of the initial states.
LEMMA RunInit == Init => RunInv
BY NoneIsNoProc DEF Init, RunInv, Typed, OnCpu, Embryos, States, Calls, None

\* What a step may do to the states of processes that neither enter nor leave
\* a CPU, and to where they are in the kernel.
Elsewhere(S) ==
  \A k \in S : st'[k] # st[k] => /\ st[k] \notin {"RUNNING", "EMBRYO"}
                                 /\ st'[k] # "RUNNING"
Returns ==
  /\ call' \in [Procs -> Calls]
  /\ \A k \in Procs : call'[k] # call[k] => call'[k] # "fork"

\* A step that moves no process on or off a CPU.
LEMMA Stays ==
  ASSUME RunInv, UNCHANGED <<arg, cpu>>, st' \in [Procs -> States],
         Elsewhere(Procs), Returns
  PROVE  RunInv'
<1>1. Typed'
  BY DEF RunInv, Typed, Returns
<1>2. OnCpu'
  BY NoneIsNoProc DEF RunInv, Typed, OnCpu, Elsewhere
<1>3. Embryos'
  BY DEF RunInv, Typed, Embryos, Elsewhere, Returns
<1> QED  BY <1>1, <1>2, <1>3 DEF RunInv

\* A step of the queue alone.
LEMMA RunSame == ASSUME RunInv, UNCHANGED running PROVE RunInv'
BY DEF RunInv, Typed, OnCpu, Embryos, running

\* wakeup and kill: sleepers become RUNNABLE.
LEMMA RunWakeup == ASSUME RunInv, Wakeup PROVE RunInv'
<1>1. st' \in [Procs -> States] /\ Elsewhere(Procs)
  BY DEF Wakeup, RunInv, Typed, States, Elsewhere
<1>2. UNCHANGED <<arg, cpu>> /\ Returns
  BY DEF Wakeup, Returns, RunInv, Typed
<1> QED  BY <1>1, <1>2, Stays

LEMMA RunKill ==
  ASSUME RunInv, NEW c \in CPUs, NEW k \in Procs, Kill(c, k) PROVE RunInv'
<1>1. st' \in [Procs -> States] /\ Elsewhere(Procs)
  BY DEF Kill, RunInv, Typed, States, Elsewhere
<1>2. UNCHANGED <<arg, cpu>> /\ Returns
  BY DEF Kill, Returns, RunInv, Typed
<1> QED  BY <1>1, <1>2, Stays

\* Only call changes, and not to fork.
LEMMA RunCall ==
  ASSUME RunInv, UNCHANGED <<st, cpu>>, NEW p \in Procs,
         NEW w \in Calls \ {"fork"}, call' = [call EXCEPT ![p] = w],
         \A q \in Procs \ {p} : arg'[q] = arg[q], arg' \in [Procs -> Procs \cup {None}]
  PROVE  RunInv'
<1>1. Typed'
  BY DEF RunInv, Typed
<1>2. OnCpu'
  BY DEF RunInv, OnCpu
<1>3. Embryos'
  BY DEF RunInv, Typed, Embryos
<1> QED  BY <1>1, <1>2, <1>3 DEF RunInv

\* The process on CPU c leaves it for a state s.
LEMMA Leaves ==
  ASSUME RunInv, NEW c \in CPUs, cpu[c] # None, Leave(c), UNCHANGED arg,
         st' \in [Procs -> States], st'[cpu[c]] # "RUNNING", st'[cpu[c]] # "EMBRYO",
         Elsewhere(Procs \ {cpu[c]}), Returns
  PROVE  RunInv'
<1> DEFINE p == cpu[c]
<1>p. p \in Procs /\ st[p] = "RUNNING"
  BY DEF RunInv, Typed, OnCpu
<1>c. cpu' \in [CPUs -> Procs \cup {None}] /\ cpu'[c] = None
       /\ \A d \in CPUs \ {c} : cpu'[d] = cpu[d]
  BY DEF Leave, RunInv, Typed
<1>1. Typed'
  BY <1>c DEF RunInv, Typed, Returns
<1>2. OnCpu'
  <2>1. ASSUME NEW d \in CPUs, cpu'[d] # None PROVE st'[cpu'[d]] = "RUNNING"
    <3>1. d # c /\ cpu'[d] = cpu[d] /\ cpu[d] \in Procs
      BY <1>c, <2>1 DEF RunInv, Typed
    <3>2. cpu[d] # p /\ st[cpu[d]] = "RUNNING"
      BY <3>1, <1>p, NoneIsNoProc, <2>1 DEF RunInv, OnCpu
    <3> QED  BY <3>1, <3>2, <1>p DEF Elsewhere
  <2>2. ASSUME NEW q \in Procs, st'[q] = "RUNNING" PROVE \E d \in CPUs : cpu'[d] = q
    <3>1. q # p /\ st[q] = "RUNNING"
      BY <2>2 DEF Elsewhere
    <3>2. PICK d \in CPUs : cpu[d] = q
      BY <3>1 DEF RunInv, OnCpu
    <3> QED  BY <3>1, <3>2, <1>c
  <2>3. \A d, x \in CPUs : cpu'[d] = cpu'[x] => d = x \/ cpu'[d] = None
    BY <1>c DEF RunInv, OnCpu
  <2> QED  BY <2>1, <2>2, <2>3 DEF OnCpu
<1>3. Embryos'
  BY <1>p DEF RunInv, Typed, Embryos, Elsewhere, Returns
<1> QED  BY <1>1, <1>2, <1>3 DEF RunInv

\* yield, sleep and exit give up the CPU.
LEMMA RunYield == ASSUME RunInv, NEW c \in CPUs, Yield(c) PROVE RunInv'
<1>1. cpu[c] \in Procs /\ cpu[c] # None
  BY DEF Yield, RunInv, Typed
<1>2. st' = [st EXCEPT ![cpu[c]] = "RUNNABLE"] /\ Leave(c) /\ UNCHANGED arg
  BY DEF Yield
<1>3. Returns
  BY <1>1 DEF Yield, RunInv, Typed, Calls, Returns
<1>4. st' \in [Procs -> States] /\ st'[cpu[c]] = "RUNNABLE"
       /\ Elsewhere(Procs \ {cpu[c]})
  BY <1>1, <1>2 DEF RunInv, Typed, States, Elsewhere
<1> QED  BY <1>1, <1>2, <1>3, <1>4, Leaves

LEMMA RunSleep == ASSUME RunInv, NEW c \in CPUs, Sleep(c) PROVE RunInv'
<1>1. cpu[c] \in Procs /\ cpu[c] # None
  BY DEF Sleep, On, RunInv, Typed
<1>2. st' = [st EXCEPT ![cpu[c]] = "SLEEPING"] /\ Leave(c) /\ UNCHANGED <<arg, call>>
  BY DEF Sleep
<1>3. st' \in [Procs -> States] /\ st'[cpu[c]] = "SLEEPING"
       /\ Elsewhere(Procs \ {cpu[c]})
  BY <1>1, <1>2 DEF RunInv, Typed, States, Elsewhere
<1>4. Returns
  BY <1>2 DEF RunInv, Typed, Returns
<1> QED  BY <1>1, <1>2, <1>3, <1>4, Leaves

LEMMA RunExit == ASSUME RunInv, NEW c \in CPUs, Exit(c) PROVE RunInv'
<1>1. cpu[c] \in Procs /\ cpu[c] # None
  BY DEF Exit, On, RunInv, Typed
<1>2. Leave(c) /\ UNCHANGED <<arg, call>>
  BY DEF Exit
<1>3. st' = [k \in Procs |-> IF k = cpu[c] THEN "ZOMBIE"
                             ELSE IF k \in Woken(cpu[c]) THEN "RUNNABLE" ELSE st[k]]
  BY DEF Exit
<1>4. st' \in [Procs -> States] /\ st'[cpu[c]] = "ZOMBIE"
  BY <1>1, <1>3 DEF RunInv, Typed, States
<1>5. Elsewhere(Procs \ {cpu[c]})
  BY <1>3 DEF Woken, Waiting, Elsewhere
<1>6. Returns
  BY <1>2 DEF RunInv, Typed, Returns
<1> QED  BY <1>1, <1>2, <1>4, <1>5, <1>6, Leaves

-----------------------------------------------------------------------------
\* A process comes on CPU c.
LEMMA Comes ==
  ASSUME RunInv, NEW c \in CPUs, NEW p \in Procs, cpu[c] = None, st[p] = "RUNNABLE",
         cpu' = [cpu EXCEPT ![c] = p], UNCHANGED arg,
         st' \in [Procs -> States], st'[p] = "RUNNING", Elsewhere(Procs \ {p}), Returns
  PROVE  RunInv'
<1>c. cpu' \in [CPUs -> Procs \cup {None}] /\ cpu'[c] = p
       /\ \A d \in CPUs \ {c} : cpu'[d] = cpu[d]
  BY DEF RunInv, Typed
<1>p. \A d \in CPUs : cpu[d] # p
  BY NoneIsNoProc DEF RunInv, OnCpu
<1>1. Typed'
  BY <1>c DEF RunInv, Typed, Returns
<1>2. OnCpu'
  <2>1. ASSUME NEW d \in CPUs, cpu'[d] # None PROVE st'[cpu'[d]] = "RUNNING"
    <3>1. CASE d = c
      BY <3>1, <1>c
    <3>2. CASE d # c
      <4>1. cpu'[d] = cpu[d] /\ cpu[d] \in Procs \ {p} /\ st[cpu[d]] = "RUNNING"
        BY <3>2, <2>1, <1>c, <1>p DEF RunInv, Typed, OnCpu
      <4> QED  BY <4>1 DEF Elsewhere
    <3> QED  BY <3>1, <3>2
  <2>2. ASSUME NEW q \in Procs, st'[q] = "RUNNING" PROVE \E d \in CPUs : cpu'[d] = q
    <3>1. CASE q = p
      BY <3>1, <1>c
    <3>2. CASE q # p
      <4>1. st[q] = "RUNNING"
        BY <3>2, <2>2 DEF Elsewhere
      <4>2. PICK d \in CPUs : cpu[d] = q
        BY <4>1 DEF RunInv, OnCpu
      <4> QED  BY <4>2, <1>c, NoneIsNoProc
    <3> QED  BY <3>1, <3>2
  <2>3. \A d, x \in CPUs : cpu'[d] = cpu'[x] => d = x \/ cpu'[d] = None
    BY <1>c, <1>p DEF RunInv, OnCpu
  <2> QED  BY <2>1, <2>2, <2>3 DEF OnCpu
<1>3. Embryos'
  BY DEF RunInv, Typed, Embryos, Elsewhere, Returns
<1> QED  BY <1>1, <1>2, <1>3 DEF RunInv

\* What the three outcomes of wait's scan do to the states.
LEMMA Scan ==
  ASSUME RunInv, NEW p \in Procs, st[p] \in {"RUNNABLE", "RUNNING"},
         NEW s \in {"RUNNING", "SLEEPING"},
         \/ s = "RUNNING" /\ (ScanReap(p) \/ ScanFails(p))
         \/ s = "SLEEPING" /\ ScanSleeps(p)
  PROVE  /\ st' \in [Procs -> States] /\ st'[p] = s
         /\ Elsewhere(Procs \ {p}) /\ Returns /\ UNCHANGED arg
<1>1. CASE ScanReap(p) /\ s = "RUNNING"
  <2>1. PICK k \in Procs : k \in Zombies(p) /\ st' = [st EXCEPT ![k] = "UNUSED", ![p] = "RUNNING"]
    BY <1>1 DEF ScanReap, First
  <2>2. st[k] = "ZOMBIE"
    BY <2>1 DEF Zombies
  <2>3. call' = [call EXCEPT ![p] = "user"] /\ UNCHANGED arg
    BY <1>1 DEF ScanReap
  <2> QED  BY <1>1, <2>1, <2>2, <2>3 DEF RunInv, Typed, States, Calls, Elsewhere, Returns
<1>2. CASE ScanFails(p) /\ s = "RUNNING"
  BY <1>2 DEF ScanFails, RunInv, Typed, States, Calls, Elsewhere, Returns
<1>3. CASE ScanSleeps(p) /\ s = "SLEEPING"
  BY <1>3 DEF ScanSleeps, RunInv, Typed, States, Calls, Elsewhere, Returns
<1> QED  BY <1>1, <1>2, <1>3

\* The scheduler's two ways to run the head, and wait.
LEMMA RunRun == ASSUME RunInv, NEW c \in CPUs, Run(c) PROVE RunInv'
<1>1. head \in Procs /\ cpu[c] = None /\ st[head] = "RUNNABLE"
  BY DEF Run, Idle, MayRun
<1>2. st' = [st EXCEPT ![head] = "RUNNING"] /\ cpu' = [cpu EXCEPT ![c] = head]
       /\ UNCHANGED <<arg, call>>
  BY DEF Run
<1>3. st' \in [Procs -> States] /\ st'[head] = "RUNNING" /\ Elsewhere(Procs \ {head})
  BY <1>1, <1>2 DEF RunInv, Typed, States, Elsewhere
<1>4. Returns
  BY <1>2 DEF RunInv, Typed, Returns
<1> QED  BY <1>1, <1>2, <1>3, <1>4, Comes

LEMMA RunResume == ASSUME RunInv, NEW c \in CPUs, Resume(c) PROVE RunInv'
<1>1. head \in Procs /\ cpu[c] = None /\ st[head] = "RUNNABLE"
  BY DEF Resume, Idle, MayRun
<1>2. CASE (ScanReap(head) \/ ScanFails(head)) /\ cpu' = [cpu EXCEPT ![c] = head]
  <2>1. /\ st' \in [Procs -> States] /\ st'[head] = "RUNNING"
        /\ Elsewhere(Procs \ {head}) /\ Returns /\ UNCHANGED arg
    BY <1>1, <1>2, Scan
  <2> QED  BY <1>1, <1>2, <2>1, Comes
<1>3. CASE ScanSleeps(head) /\ UNCHANGED cpu
  <2>1. /\ st' \in [Procs -> States] /\ st'[head] = "SLEEPING"
        /\ Elsewhere(Procs \ {head}) /\ Returns /\ UNCHANGED arg
    BY <1>1, <1>3, Scan
  <2>2. Elsewhere(Procs)
    BY <1>1, <2>1 DEF Elsewhere
  <2> QED  BY <1>3, <2>1, <2>2, Stays
<1> QED  BY <1>2, <1>3 DEF Resume

LEMMA RunWait == ASSUME RunInv, NEW c \in CPUs, Wait(c) PROVE RunInv'
<1>1. cpu[c] \in Procs /\ cpu[c] # None /\ st[cpu[c]] = "RUNNING"
  BY DEF Wait, Syscall, On, RunInv, Typed, OnCpu
<1>2. CASE (ScanReap(cpu[c]) \/ ScanFails(cpu[c])) /\ UNCHANGED cpu
  <2>1. /\ st' \in [Procs -> States] /\ st'[cpu[c]] = "RUNNING"
        /\ Elsewhere(Procs \ {cpu[c]}) /\ Returns /\ UNCHANGED arg
    BY <1>1, <1>2, Scan
  <2>2. Elsewhere(Procs)
    BY <1>1, <2>1 DEF Elsewhere
  <2> QED  BY <1>2, <2>1, <2>2, Stays
<1>3. CASE ScanSleeps(cpu[c]) /\ Leave(c)
  <2>1. /\ st' \in [Procs -> States] /\ st'[cpu[c]] = "SLEEPING"
        /\ Elsewhere(Procs \ {cpu[c]}) /\ Returns /\ UNCHANGED arg
    BY <1>1, <1>3, Scan
  <2> QED  BY <1>1, <1>3, <2>1, Leaves
<1> QED  BY <1>2, <1>3 DEF Wait

-----------------------------------------------------------------------------
\* fork and clone: the slot they fill in is UNUSED before, EMBRYO meanwhile.
LEMMA RunAlloc == ASSUME RunInv, NEW c \in CPUs, Alloc(c) PROVE RunInv'
<1> DEFINE p == cpu[c]
<1>1. p \in Procs /\ p # None /\ st[p] = "RUNNING" /\ UNCHANGED cpu
  BY DEF Alloc, Syscall, On, RunInv, Typed, OnCpu
<1>2. PICK k \in Procs : /\ st[k] = "UNUSED" /\ st' = [st EXCEPT ![k] = "EMBRYO"]
                         /\ arg' = [arg EXCEPT ![p] = k]
  BY DEF Alloc, First, Free
<1>3. call' = [call EXCEPT ![p] = "fork"]
  BY DEF Alloc
<1>4. Typed'
  BY <1>1, <1>2, <1>3 DEF RunInv, Typed, States, Calls
<1>5. OnCpu'
  BY <1>1, <1>2 DEF RunInv, Typed, OnCpu
<1>6. Embryos'
  BY <1>1, <1>2, <1>3 DEF RunInv, Typed, Embryos
<1> QED  BY <1>4, <1>5, <1>6 DEF RunInv

\* The three ends of fork: state s for the slot, and the caller goes on.
LEMMA ForkEnds ==
  ASSUME RunInv, NEW c \in CPUs, On(c, "fork"), NEW s \in {"RUNNABLE", "UNUSED", "EMBRYO"},
         st' = [st EXCEPT ![arg[cpu[c]]] = s], UNCHANGED cpu,
         arg' = [arg EXCEPT ![cpu[c]] = None],
         call' \in [Procs -> Calls], call'[cpu[c]] = "user",
         \A q \in Procs : call'[q] \in {call[q], "user"}
  PROVE  RunInv'
<1> DEFINE p == cpu[c]
           k == arg[p]
<1>1. p \in Procs /\ st[p] = "RUNNING" /\ call[p] = "fork"
  BY DEF On, RunInv, Typed, OnCpu
<1>2. k \in Procs /\ st[k] = "EMBRYO"
  BY <1>1 DEF RunInv, Embryos
<1>3. Typed'
  BY <1>1, <1>2 DEF RunInv, Typed, States
<1>4. OnCpu'
  BY <1>1, <1>2 DEF RunInv, Typed, OnCpu
<1>5. Embryos'
  BY <1>1, <1>2 DEF RunInv, Typed, Embryos
<1> QED  BY <1>3, <1>4, <1>5 DEF RunInv

\* fork and clone after allocproc.
LEMMA RunForkEnds ==
  ASSUME RunInv, NEW c \in CPUs, Start(c) \/ ForkFails(c) \/ CloneFails(c) PROVE RunInv'
<1>1. /\ On(c, "fork") /\ UNCHANGED cpu /\ arg' = [arg EXCEPT ![cpu[c]] = None]
      /\ cpu[c] \in Procs /\ arg[cpu[c]] \in Procs /\ st[arg[cpu[c]]] = "EMBRYO"
  BY DEF Start, ForkFails, CloneFails, On, RunInv, Typed, Embryos
<1>2. CASE Start(c)
  <2>1. /\ st' = [st EXCEPT ![arg[cpu[c]]] = "RUNNABLE"]
        /\ call' = [call EXCEPT ![cpu[c]] = "user", ![arg[cpu[c]]] = "user"]
    BY <1>2 DEF Start
  <2>2. /\ call' \in [Procs -> Calls] /\ call'[cpu[c]] = "user"
        /\ \A q \in Procs : call'[q] \in {call[q], "user"}
    BY <1>1, <2>1 DEF RunInv, Typed, Calls
  <2> QED  BY <1>1, <2>1, <2>2, ForkEnds
<1>3. CASE ForkFails(c) \/ CloneFails(c)
  <2>1. call' = [call EXCEPT ![cpu[c]] = "user"]
    BY <1>3 DEF ForkFails, CloneFails
  <2>2. /\ call' \in [Procs -> Calls] /\ call'[cpu[c]] = "user"
        /\ \A q \in Procs : call'[q] \in {call[q], "user"}
    BY <1>1, <2>1 DEF RunInv, Typed, Calls
  <2>3. \/ st' = [st EXCEPT ![arg[cpu[c]]] = "UNUSED"]
        \/ st' = [st EXCEPT ![arg[cpu[c]]] = "EMBRYO"]
    BY <1>1, <1>3 DEF ForkFails, CloneFails, RunInv, Typed
  <2> QED  BY <1>1, <2>2, <2>3, ForkEnds
<1> QED  BY <1>2, <1>3

\* setscheduler changes what the caller does next, not who runs.
LEMMA RunSetscheduler ==
  ASSUME RunInv, NEW c \in CPUs, Setscheduler(c) \/ Preempt(c) PROVE RunInv'
<1>1. CASE \E a \in Asks : SetSelf(c, a[1], a[2])
  <2>1. cpu[c] \in Procs
    BY <1>1 DEF SetSelf, Syscall, On, RunInv, Typed
  <2>2. call' = [call EXCEPT ![cpu[c]] = "yield"] /\ UNCHANGED <<st, cpu, arg>>
    BY <1>1 DEF SetSelf
  <2>3. arg' \in [Procs -> Procs \cup {None}] /\ "yield" \in Calls \ {"fork"}
    BY <2>2 DEF RunInv, Typed, Calls
  <2> QED  BY <2>1, <2>2, <2>3, RunCall
<1>2. CASE \E a \in Asks, k \in Procs : SetChild(c, k, a[1], a[2])
  <2>1. cpu[c] \in Procs
    BY <1>2 DEF SetChild, Syscall, On, RunInv, Typed
  <2>2. PICK k \in Procs : /\ call' = [call EXCEPT ![cpu[c]] = "preempt"]
                           /\ arg' = [arg EXCEPT ![cpu[c]] = k] /\ UNCHANGED <<st, cpu>>
    BY <1>2 DEF SetChild
  <2>3. /\ arg' \in [Procs -> Procs \cup {None}] /\ "preempt" \in Calls \ {"fork"}
        /\ \A q \in Procs \ {cpu[c]} : arg'[q] = arg[q]
    BY <2>1, <2>2 DEF RunInv, Typed, Calls
  <2> QED  BY <2>1, <2>2, <2>3, RunCall
<1>3. CASE SetOther(c)
  BY <1>3, RunSame DEF SetOther, proc, running
<1>4. CASE Preempt(c)
  <2>1. cpu[c] \in Procs
    BY <1>4 DEF Preempt, On, RunInv, Typed
  <2>2. PICK w \in {"yield", "user"} : call' = [call EXCEPT ![cpu[c]] = w]
    BY <1>4 DEF Preempt
  <2>3. arg' = [arg EXCEPT ![cpu[c]] = None] /\ UNCHANGED <<st, cpu>>
    BY <1>4 DEF Preempt
  <2>4. /\ arg' \in [Procs -> Procs \cup {None}] /\ w \in Calls \ {"fork"}
        /\ \A q \in Procs \ {cpu[c]} : arg'[q] = arg[q]
    BY <2>1, <2>2, <2>3 DEF RunInv, Typed, Calls
  <2> QED  BY <2>1, <2>2, <2>3, <2>4, RunCall
<1> QED  BY <1>1, <1>2, <1>3, <1>4 DEF Setscheduler

\* The invariant is inductive.
LEMMA RunNext == RunInv /\ [Next]_vars => RunInv'
<1> SUFFICES ASSUME RunInv, [Next]_vars PROVE RunInv'
  OBVIOUS
<1>1. CASE UNCHANGED vars
  BY <1>1, RunSame DEF vars, proc, running
<1>2. CASE Wakeup
  BY <1>2, RunWakeup
<1>3. ASSUME NEW c \in CPUs, Drop(c) PROVE RunInv'
  BY <1>3, RunSame DEF Drop, proc, running
<1>4. ASSUME NEW c \in CPUs, InitExits(c) PROVE RunInv'
  BY <1>4, RunSame DEF InitExits, proc, running
<1>5. ASSUME NEW c \in CPUs, NEW k \in Procs, Kill(c, k) PROVE RunInv'
  BY <1>5, RunKill
<1>6. ASSUME NEW c \in CPUs,
             \/ Run(c) \/ Resume(c) \/ Wait(c) \/ Alloc(c)
             \/ Start(c) \/ ForkFails(c) \/ CloneFails(c)
             \/ Yield(c) \/ Sleep(c) \/ Exit(c) \/ Setscheduler(c) \/ Preempt(c)
      PROVE  RunInv'
  BY <1>6, RunRun, RunResume, RunWait, RunAlloc, RunForkEnds, RunYield, RunSleep, RunExit,
     RunSetscheduler
<1> QED  BY <1>1, <1>2, <1>3, <1>4, <1>5, <1>6 DEF Next

\* One CPU has p if it is RUNNING, none otherwise.
LEMMA RunInvImplies == RunInv => RunsOnce
<1> SUFFICES ASSUME RunInv, NEW p \in Procs
             PROVE Cardinality({c \in CPUs : cpu[c] = p}) = IF st[p] = "RUNNING" THEN 1 ELSE 0
  BY DEF RunsOnce
<1>1. CASE st[p] = "RUNNING"
  <2>1. PICK c \in CPUs : cpu[c] = p
    BY <1>1 DEF RunInv, OnCpu
  <2>2. {d \in CPUs : cpu[d] = p} = {c}
    BY <2>1, NoneIsNoProc DEF RunInv, OnCpu
  <2> QED  BY <1>1, <2>2, FS_Singleton
<1>2. CASE st[p] # "RUNNING"
  <2>1. {d \in CPUs : cpu[d] = p} = {}
    BY <1>2, NoneIsNoProc DEF RunInv, OnCpu
  <2> QED  BY <1>2, <2>1, FS_EmptySet
<1> QED  BY <1>1, <1>2

(* However wrong the calls that upset the queue leave it, a process is       *)
(* RUNNING exactly while one CPU and one only has it (scheduler, sched).     *)
THEOREM RunsOnceAlways == Spec => []RunsOnce
<1>1. Init /\ [][Next]_vars => []RunInv
  BY RunInit, RunNext, PTL
<1> QED  BY <1>1, RunInvImplies, PTL DEF Spec
-----------------------------------------------------------------------------
\* What keeps zombies from being missed: the init process has no parent and
\* does not die, and nobody is its own parent.
Chans == {"none", "wait", "device"}
Family ==
  /\ parent \in [Procs -> Procs \cup {None}] /\ chan \in [Procs -> Chans]
  /\ initproc \in Procs /\ parent[initproc] = None
  /\ st[initproc] \notin {"UNUSED", "EMBRYO", "ZOMBIE"}
  /\ \A p \in Procs : parent[p] # p

WaitInv == Family /\ WaitersWoken

family == <<st, parent, chan>>

LEMMA WaitInit == Init => WaitInv
<1> SUFFICES ASSUME Init PROVE WaitInv
  OBVIOUS
<1>1. initproc \in Procs
  BY SchedAssumption DEF initproc, Procs
<1> QED  BY <1>1, NoneIsNoProc DEF Init, WaitInv, Family, WaitersWoken, Zombies, Chans, None

LEMMA WaitSame == ASSUME WaitInv, UNCHANGED family PROVE WaitInv'
BY DEF WaitInv, Family, WaitersWoken, Zombies, family

\* A step that makes no zombie and puts nobody to sleep in wait with one.
LEMMA NoZombie ==
  ASSUME WaitInv,
         \A k \in Procs : st'[k] = "ZOMBIE" => st[k] = "ZOMBIE" /\ parent'[k] = parent[k],
         \A k \in Procs : st'[k] = "SLEEPING" /\ chan'[k] = "wait"
                            => Waiting(k) \/ Zombies(k) = {}
  PROVE  WaitersWoken'
BY DEF WaitInv, WaitersWoken, Zombies, Waiting

\* The processes that wakeup and kill wake are awake.
LEMMA WaitWakes ==
  ASSUME RunInv, WaitInv, Wakeup \/ \E c \in CPUs, k \in Procs : Kill(c, k) PROVE WaitInv'
<1>1. \A k \in Procs : st'[k] = st[k] \/ (st[k] = "SLEEPING" /\ st'[k] = "RUNNABLE")
  BY DEF Wakeup, Kill, RunInv, Typed
<1>2. UNCHANGED <<parent, chan>>
  BY DEF Wakeup, Kill
<1>3. Family'
  BY <1>1, <1>2 DEF WaitInv, Family
<1>4. WaitersWoken'
  BY <1>1, <1>2, NoZombie DEF Waiting
<1> QED  BY <1>3, <1>4 DEF WaitInv

\* wait reaps, fails or finds nothing and sleeps.
LEMMA WaitScan ==
  ASSUME RunInv, WaitInv, NEW p \in Procs, st[p] \in {"RUNNABLE", "RUNNING"},
         ScanReap(p) \/ ScanFails(p) \/ ScanSleeps(p)
  PROVE  WaitInv'
<1>1. CASE ScanReap(p)
  <2>1. PICK k \in Procs : /\ st[k] = "ZOMBIE"
                           /\ st' = [st EXCEPT ![k] = "UNUSED", ![p] = "RUNNING"]
                           /\ parent' = [parent EXCEPT ![k] = None]
    BY <1>1 DEF ScanReap, First, Zombies
  <2>2. chan' = [chan EXCEPT ![p] = "none"]
    BY <1>1 DEF ScanReap
  <2>3. Family'
    BY <2>1, <2>2, NoneIsNoProc DEF WaitInv, Family, RunInv, Typed, Chans
  <2>4. WaitersWoken'
    BY <2>1, <2>2, NoZombie DEF WaitInv, Family, RunInv, Typed, Waiting
  <2> QED  BY <2>3, <2>4 DEF WaitInv
<1>2. CASE ScanFails(p) \/ ScanSleeps(p)
  <2>1. /\ st' \in {[st EXCEPT ![p] = "RUNNING"], [st EXCEPT ![p] = "SLEEPING"]}
        /\ chan' \in {[chan EXCEPT ![p] = "none"], [chan EXCEPT ![p] = "wait"]}
        /\ UNCHANGED parent /\ Zombies(p) = {}
    BY <1>2 DEF ScanFails, ScanSleeps
  <2>2. Family'
    BY <2>1 DEF WaitInv, Family, RunInv, Typed, Chans
  <2>3. WaitersWoken'
    BY <2>1, NoZombie DEF WaitInv, Family, RunInv, Typed, Waiting
  <2> QED  BY <2>2, <2>3 DEF WaitInv
<1> QED  BY <1>1, <1>2

\* The scheduler, yield and sleep change the state of one process, which was
\* runnable or running.
LEMMA WaitMoves ==
  ASSUME RunInv, WaitInv, NEW c \in CPUs, Run(c) \/ Yield(c) \/ Sleep(c) PROVE WaitInv'
<1>1. PICK p \in Procs, s \in {"RUNNING", "RUNNABLE", "SLEEPING"} :
        /\ st[p] \in {"RUNNABLE", "RUNNING"}
        /\ st' = [st EXCEPT ![p] = s] /\ UNCHANGED parent
        /\ \/ s # "SLEEPING" /\ UNCHANGED chan
           \/ chan' \in {[chan EXCEPT ![p] = "none"], [chan EXCEPT ![p] = "device"]}
  <2>1. CASE Run(c)
    BY <2>1 DEF Run, Idle, MayRun
  <2>2. CASE Yield(c)
    BY <2>2 DEF Yield, RunInv, Typed, OnCpu
  <2>3. CASE Sleep(c)
    BY <2>3 DEF Sleep, On, RunInv, Typed, OnCpu
  <2> QED  BY <2>1, <2>2, <2>3
<1>2. Family'
  BY <1>1 DEF WaitInv, Family, RunInv, Typed, Chans
<1>3. WaitersWoken'
  BY <1>1, NoZombie DEF WaitInv, Family, RunInv, Typed, Waiting
<1> QED  BY <1>2, <1>3 DEF WaitInv

\* allocproc and what becomes of the slot.
LEMMA WaitForks ==
  ASSUME RunInv, WaitInv, NEW c \in CPUs,
         Alloc(c) \/ Start(c) \/ ForkFails(c) \/ CloneFails(c)
  PROVE  WaitInv'
<1>1. cpu[c] \in Procs /\ cpu[c] # None /\ st[cpu[c]] = "RUNNING"
  BY DEF Alloc, Start, ForkFails, CloneFails, Syscall, On, RunInv, Typed, OnCpu
<1>2. CASE Alloc(c)
  <2>1. PICK k \in Procs : st[k] = "UNUSED" /\ st' = [st EXCEPT ![k] = "EMBRYO"]
    BY <1>2 DEF Alloc, First, Free
  <2>2. UNCHANGED <<parent, chan>>
    BY <1>2 DEF Alloc
  <2>3. Family'
    BY <2>1, <2>2 DEF WaitInv, Family, RunInv, Typed
  <2>4. WaitersWoken'
    BY <2>1, <2>2, NoZombie DEF WaitInv, Family, RunInv, Typed, Waiting
  <2> QED  BY <2>3, <2>4 DEF WaitInv
<1>3. CASE Start(c) \/ ForkFails(c) \/ CloneFails(c)
  <2> DEFINE k == arg[cpu[c]]
  <2>1. k \in Procs /\ st[k] = "EMBRYO" /\ UNCHANGED chan
    BY <1>1, <1>3 DEF Start, ForkFails, CloneFails, On, RunInv, Embryos
  <2>2. /\ st' \in {st, [st EXCEPT ![k] = "RUNNABLE"], [st EXCEPT ![k] = "UNUSED"]}
        /\ parent' \in {parent, [parent EXCEPT ![k] = cpu[c]]}
    BY <1>3 DEF Start, ForkFails, CloneFails
  <2>3. Family'
    BY <1>1, <2>1, <2>2 DEF WaitInv, Family, RunInv, Typed
  <2>4. WaitersWoken'
    BY <2>1, <2>2, NoZombie DEF WaitInv, Family, RunInv, Typed, Waiting
  <2> QED  BY <2>3, <2>4 DEF WaitInv
<1> QED  BY <1>2, <1>3

\* exit: the new zombie's parent is woken, and init if it gets old ones.
LEMMA WaitExit == ASSUME RunInv, WaitInv, NEW c \in CPUs, Exit(c) PROVE WaitInv'
<1> DEFINE p == cpu[c]
<1>1. p \in Procs /\ p # initproc /\ st[p] = "RUNNING" /\ UNCHANGED chan
  BY DEF Exit, On, RunInv, Typed, OnCpu
<1>2. /\ st' = [k \in Procs |-> IF k = p THEN "ZOMBIE"
                               ELSE IF k \in Woken(p) THEN "RUNNABLE" ELSE st[k]]
      /\ parent' = [k \in Procs |-> IF parent[k] = p THEN initproc ELSE parent[k]]
  BY DEF Exit
<1>3. Family'
  <2>1. st'[initproc] \notin {"UNUSED", "EMBRYO", "ZOMBIE"} /\ initproc \in Procs
    BY <1>1, <1>2 DEF WaitInv, Family
  <2>2. parent' \in [Procs -> Procs \cup {None}] /\ parent'[initproc] = None
    BY <1>1, <1>2, NoneIsNoProc DEF WaitInv, Family
  <2>3. \A q \in Procs : parent'[q] # q
    BY <1>1, <1>2, NoneIsNoProc DEF WaitInv, Family
  <2> QED  BY <1>1, <2>1, <2>2, <2>3 DEF WaitInv, Family
<1>4. ASSUME NEW q \in Procs, NEW k \in Procs, st'[q] = "SLEEPING", chan'[q] = "wait",
             parent'[k] = q, st'[k] = "ZOMBIE"
      PROVE FALSE
  <2>1. q # p /\ q \notin Woken(p) /\ Waiting(q)
    BY <1>1, <1>2, <1>4 DEF Waiting
  <2>2. CASE k = p
    BY <1>1, <1>2, <1>4, <2>1, <2>2 DEF WaitInv, Family, Woken
  <2>3. CASE k # p
    <3>1. st[k] = "ZOMBIE"
      BY <1>2, <1>4, <2>3
    <3>2. CASE parent[k] = p
      BY <1>2, <1>4, <2>1, <3>1, <3>2 DEF Woken, Zombies
    <3>3. CASE parent[k] # p
      BY <1>2, <1>4, <2>1, <3>1, <3>3 DEF WaitInv, WaitersWoken, Waiting, Zombies
    <3> QED  BY <3>2, <3>3
  <2> QED  BY <2>2, <2>3
<1>5. WaitersWoken'
  BY <1>4 DEF WaitersWoken, Zombies
<1> QED  BY <1>3, <1>5 DEF WaitInv

LEMMA WaitNext == RunInv /\ WaitInv /\ [Next]_vars => WaitInv'
<1> SUFFICES ASSUME RunInv, WaitInv, [Next]_vars PROVE WaitInv'
  OBVIOUS
<1>1. CASE UNCHANGED vars
  BY <1>1, WaitSame DEF vars, proc, family
<1>2. CASE Wakeup \/ \E c \in CPUs, k \in Procs : Kill(c, k)
  BY <1>2, WaitWakes
<1>3. ASSUME NEW c \in CPUs, Run(c) \/ Yield(c) \/ Sleep(c) PROVE WaitInv'
  BY <1>3, WaitMoves
<1>4. ASSUME NEW c \in CPUs, Resume(c) \/ Wait(c) PROVE WaitInv'
  <2>1. PICK p \in Procs : /\ st[p] \in {"RUNNABLE", "RUNNING"}
                           /\ ScanReap(p) \/ ScanFails(p) \/ ScanSleeps(p)
    BY <1>4 DEF Resume, Wait, Idle, MayRun, Syscall, On, RunInv, Typed, OnCpu
  <2> QED  BY <2>1, WaitScan
<1>5. ASSUME NEW c \in CPUs, Alloc(c) \/ Start(c) \/ ForkFails(c) \/ CloneFails(c)
      PROVE  WaitInv'
  BY <1>5, WaitForks
<1>6. ASSUME NEW c \in CPUs, Exit(c) PROVE WaitInv'
  BY <1>6, WaitExit
<1>7. ASSUME NEW c \in CPUs, Drop(c) \/ InitExits(c) \/ Setscheduler(c) \/ Preempt(c)
      PROVE  WaitInv'
  BY <1>7, WaitSame DEF Drop, InitExits, Setscheduler, SetSelf, SetChild, SetOther, Preempt,
     proc, family
<1> QED  BY <1>1, <1>2, <1>3, <1>4, <1>5, <1>6, <1>7 DEF Next

(* No parent sleeps in wait beside a zombie child, however many processes    *)
(* exit together and whichever of them were orphans (exit, wait).            *)
THEOREM WaitersAlwaysWoken == Spec => []WaitersWoken
<1>1. WaitInv => WaitersWoken
  BY DEF WaitInv
<1>2. Init /\ [][Next]_vars => [](RunInv /\ WaitInv)
  BY RunInit, RunNext, WaitInit, WaitNext, PTL
<1> QED  BY <1>1, <1>2, PTL DEF Spec

-----------------------------------------------------------------------------
(* Least elements, and what the recursive functions are.                    *)

LEMMA SlotsAre ==
  /\ NPROC \in Nat \ {0} /\ Procs \subseteq Nat \ {0} /\ None \notin Procs
  /\ initproc \in Procs /\ Procs \subseteq 0..NPROC
  /\ \A p \in Procs : p - 1 \in 0..NPROC
BY SchedAssumption DEF Procs, None, initproc

LEMMA LeastIn ==
  ASSUME NEW S \in SUBSET Nat, S # {} PROVE \E x \in S : \A y \in S : x <= y
<1>1. PICK x \in S : \A y \in S : <<y, x>> \notin OpToRel(<, Nat)
  BY NatLessThanWellFounded, WFMin
<1>2. ASSUME NEW y \in S PROVE x <= y
  <2>1. x \in Nat /\ y \in Nat
    OBVIOUS
  <2>2. ~(y < x)
    BY <1>1, <2>1 DEF OpToRel
  <2> QED  BY <2>1, <2>2
<1> QED  BY <1>2

\* A set of naturals up to n that has 0, and k with k - 1, has them all.
LEMMA UpTo ==
  ASSUME NEW n \in Nat, NEW S, 0 \in S, \A k \in 1..n : k - 1 \in S => k \in S
  PROVE  0..n \subseteq S
<1> SUFFICES ASSUME (0..n) \ S # {} PROVE FALSE
  OBVIOUS
<1> DEFINE T == (0..n) \ S
<1>1. T \in SUBSET Nat /\ T # {}
  OBVIOUS
<1> HIDE DEF T
<1>2. PICK k \in T : \A j \in T : k <= j
  BY <1>1, LeastIn
<1>3. k \in 1..n /\ k - 1 \in 0..n /\ ~(k <= k - 1)
  BY <1>2 DEF T
<1>4. k - 1 \in S
  BY <1>2, <1>3 DEF T
<1> QED  BY <1>2, <1>3, <1>4 DEF T

\* The nodes met are those of a function that goes from node to node.
Links(g, nx, x) ==
  g = [k \in 0..NPROC |-> IF k = 0 THEN x
                          ELSE IF g[k - 1] = None THEN None ELSE nx[g[k - 1]]]

LEMMA NodesAre ==
  ASSUME NEW nx, NEW x, NEW g, Links(g, nx, x)
  PROVE  Nodes(nx, x) = g
<1> DEFINE at == Nodes(nx, x)
           e(h) == [k \in 0..NPROC |-> IF k = 0 THEN x
                                 ELSE IF h[k - 1] = None THEN None ELSE nx[h[k - 1]]]
<1>1. at = CHOOSE h : h = e(h)
  BY Zenon DEF Nodes
<1>2. at = e(at)
  <2>1. g = e(g)
    BY DEF Links
  <2> HIDE DEF e
  <2> QED  BY <1>1, <2>1, Zenon
<1> HIDE DEF at
<1>3. 0..NPROC \subseteq {k \in 0..NPROC : at[k] = g[k]}
  <2> DEFINE S == {k \in 0..NPROC : at[k] = g[k]}
  <2>1. 0 \in S
    BY <1>2, SlotsAre DEF Links
  <2>2. ASSUME NEW k \in 1..NPROC, k - 1 \in S PROVE k \in S
    <3>1. k \in 0..NPROC /\ k # 0 /\ at[k - 1] = g[k - 1]
      BY <2>2
    <3> QED  BY <3>1, <1>2 DEF Links
  <2> HIDE DEF S
  <2> QED  BY <2>1, <2>2, UpTo, SlotsAre DEF S
<1>4. at = [k \in 0..NPROC |-> at[k]] /\ g = [k \in 0..NPROC |-> g[k]]
  BY <1>2 DEF Links
<1>5. at = g
  BY <1>3, <1>4
<1> QED  BY <1>5 DEF at

-----------------------------------------------------------------------------
(* Lists of slots, and queues that are such a list.                         *)

Queues == [head : Procs \cup {None}, next : [Procs -> Procs \cup {None}], spins : BOOLEAN]

Lists(n) == {L \in [1..n -> Procs] : \A i, j \in 1..n : L[i] = L[j] => i = j}
Holds(n, L) == {L[i] : i \in 1..n}

Chained(q, n, L) ==
  /\ q \in Queues /\ ~q.spins
  /\ q.head = IF n = 0 THEN None ELSE L[1]
  /\ \A i \in 1..n : q.next[L[i]] = IF i = n THEN None ELSE L[i + 1]

\* No list is longer than the table.
LEMMA ListFits == ASSUME NEW n \in Nat, NEW L \in Lists(n) PROVE n <= NPROC
<1>1. IsFiniteSet(1..n) /\ Cardinality(1..n) = n
  BY FS_Interval
<1>2. IsFiniteSet(Procs) /\ Cardinality(Procs) = NPROC
  BY FS_Interval, SlotsAre DEF Procs
<1>3. L \in Injection(1..n, Procs)
  BY DEF Lists, Injection, IsInjective
<1> QED  BY <1>1, <1>2, <1>3, FS_Injection

\* From its i-th node on, the nodes of a list are the rest of it.
LEMMA NodesOfList ==
  ASSUME NEW n \in Nat, NEW L \in Lists(n), NEW q, Chained(q, n, L), NEW i \in 1..n
  PROVE  Nodes(q.next, L[i]) = [k \in 0..NPROC |-> IF i + k <= n THEN L[i + k] ELSE None]
<1> DEFINE g == [k \in 0..NPROC |-> IF i + k <= n THEN L[i + k] ELSE None]
<1>1. \A k \in 1..n : L[k] \in Procs
  BY DEF Lists
<1>2. ASSUME NEW k \in 0..NPROC
      PROVE  g[k] = IF k = 0 THEN L[i]
                    ELSE IF g[k - 1] = None THEN None ELSE q.next[g[k - 1]]
  <2>1. CASE k = 0
    BY <2>1
  <2>2. CASE k # 0
    <3>1. k - 1 \in 0..NPROC /\ i + k = (i + (k - 1)) + 1
      BY <2>2, SlotsAre
    <3>2. g[k - 1] = IF i + (k - 1) <= n THEN L[i + (k - 1)] ELSE None
      BY <3>1
    <3>3. g[k] = IF i + k <= n THEN L[i + k] ELSE None
      OBVIOUS
    <3>4. CASE i + (k - 1) <= n
      <4>1. i + (k - 1) \in 1..n
        BY <3>1, <3>4
      <4>2. g[k - 1] \in Procs /\ g[k - 1] # None
        BY <1>1, <3>2, <3>4, <4>1, SlotsAre
      <4>3. q.next[L[i + (k - 1)]] = IF i + (k - 1) = n THEN None ELSE L[i + k]
        BY <4>1, <3>1 DEF Chained
      <4> QED  BY <2>2, <3>1, <3>2, <3>3, <3>4, <4>2, <4>3
    <3>5. CASE ~(i + (k - 1) <= n)
      BY <2>2, <3>1, <3>2, <3>3, <3>5
    <3> QED  BY <3>4, <3>5
  <2> QED  BY <2>1, <2>2
<1>3. Links(g, q.next, L[i])
  <2> HIDE DEF g
  <2>1. g = [k \in 0..NPROC |-> g[k]]
    BY DEF g
  <2> QED  BY <2>1, <1>2 DEF Links
<1> HIDE DEF g
<1>4. Nodes(q.next, L[i]) = g
  BY <1>3, NodesAre
<1> QED  BY <1>4 DEF g

LEMMA NodesOfNone ==
  ASSUME NEW nx PROVE Nodes(nx, None) = [k \in 0..NPROC |-> None]
<1> DEFINE g == [k \in 0..NPROC |-> None]
<1>1. \A k \in 0..NPROC : k # 0 => k - 1 \in 0..NPROC
  BY SlotsAre
<1>2. Links(g, nx, None)
  BY <1>1 DEF Links
<1> HIDE DEF g
<1>3. Nodes(nx, None) = g
  BY <1>2, NodesAre
<1> QED  BY <1>3 DEF g

\* A loop stops at a node of S if it stops at all.
LEMMA WalkIn ==
  ASSUME NEW nx, NEW x, NEW S PROVE Walk(nx, x, S) \in S \cup {None}
<1> DEFINE at == Nodes(nx, x)
           stops == {k \in 0..NPROC : at[k] \in S}
<1>1. CASE stops = {}
  BY <1>1 DEF Walk
<1>2. CASE stops # {}
  <2>1. stops \in SUBSET Nat
    OBVIOUS
  <2>2. Walk(nx, x, S) = at[CHOOSE k \in stops : \A j \in stops : k <= j]
    BY <1>2 DEF Walk
  <2> HIDE DEF stops
  <2>3. \E k \in stops : \A j \in stops : k <= j
    BY <1>2, <2>1, LeastIn
  <2>4. (CHOOSE k \in stops : \A j \in stops : k <= j) \in stops
    BY <2>3
  <2> QED  BY <2>2, <2>4 DEF stops
<1> QED  BY <1>1, <1>2

\* A loop over a list stops at the first node of S.
LEMMA WalkList ==
  ASSUME NEW n \in Nat, NEW L \in Lists(n), NEW q, Chained(q, n, L), NEW S \in SUBSET Procs,
         NEW i \in 1..n, NEW j \in i..n, L[j] \in S, \A m \in i..(j - 1) : L[m] \notin S
  PROVE  Walk(q.next, L[i], S) = L[j]
<1> DEFINE at == Nodes(q.next, L[i])
           stops == {k \in 0..NPROC : at[k] \in S}
<1>1. at = [k \in 0..NPROC |-> IF i + k <= n THEN L[i + k] ELSE None]
  BY NodesOfList
<1>2. n <= NPROC
  BY ListFits
<1>3. j - i \in 0..NPROC /\ i + (j - i) = j
  BY <1>2, SlotsAre
<1>4. j - i \in stops
  BY <1>1, <1>3
<1>5. ASSUME NEW k \in stops PROVE j - i <= k
  <2>1. k \in 0..NPROC /\ at[k] \in S
    OBVIOUS
  <2>2. i + k <= n
    BY <2>1, <1>1, SlotsAre
  <2>3. SUFFICES ASSUME ~(j - i <= k) PROVE FALSE
    OBVIOUS
  <2>4. i + k \in i..(j - 1)
    BY <2>1, <2>3
  <2> QED  BY <2>1, <2>2, <2>4, <1>1
<1> HIDE DEF stops
<1>6. (CHOOSE k \in stops : \A m \in stops : k <= m) = j - i
  <2>1. \A k \in stops : (\A m \in stops : k <= m) => k = j - i
    <3> SUFFICES ASSUME NEW k \in stops, \A m \in stops : k <= m PROVE k = j - i
      OBVIOUS
    <3>1. k <= j - i /\ j - i <= k /\ k \in Nat
      BY <1>4, <1>5 DEF stops
    <3> QED  BY <3>1
  <2> QED  BY <1>4, <1>5, <2>1
<1>7. Walk(q.next, L[i], S) = at[CHOOSE k \in stops : \A m \in stops : k <= m]
  BY <1>4 DEF Walk, stops
<1>8. at[j - i] = L[j]
  BY <1>1, <1>3
<1> QED  BY <1>6, <1>7, <1>8

\* It does if the last node is in S.
LEMMA WalkStops ==
  ASSUME NEW n \in Nat, NEW L \in Lists(n), NEW q, Chained(q, n, L), NEW S \in SUBSET Procs,
         NEW i \in 1..n, L[n] \in S
  PROVE  \E j \in i..n : /\ Walk(q.next, L[i], S) = L[j] /\ L[j] \in S
                         /\ \A k \in i..(j - 1) : L[k] \notin S
<1> DEFINE T == {j \in i..n : L[j] \in S}
<1>1. T \in SUBSET Nat /\ n \in T
  OBVIOUS
<1> HIDE DEF T
<1>2. PICK j \in T : \A k \in T : j <= k
  BY <1>1, LeastIn
<1>3. j \in i..n /\ L[j] \in S
  BY <1>2 DEF T
<1>4. \A k \in i..(j - 1) : k \in i..n /\ ~(j <= k)
  BY <1>3
<1>5. \A k \in i..(j - 1) : L[k] \notin S
  BY <1>2, <1>4 DEF T
<1> QED  BY <1>3, <1>5, WalkList

-----------------------------------------------------------------------------
(* What push, remove and the pop do to a list.                              *)

\* The queue with p behind the j-th node, and its list.
Inserted(q, L, j, p) ==
  IF j = 0 THEN [q EXCEPT !.head = p, !.next[p] = q.head]
  ELSE [q EXCEPT !.next = [[@ EXCEPT ![p] = q.next[L[j]]] EXCEPT ![L[j]] = p]]
Longer(n, L, j, p) ==
  [i \in 1..(n + 1) |-> IF i <= j THEN L[i] ELSE IF i = j + 1 THEN p ELSE L[i - 1]]

\* The queue without the j-th node, and its list.
Deleted(q, L, j) ==
  IF j = 1 THEN [q EXCEPT !.head = q.next[L[1]]]
  ELSE [q EXCEPT !.next[L[j - 1]] = q.next[L[j]]]
Shorter(n, L, j) == [i \in 1..(n - 1) |-> IF i < j THEN L[i] ELSE L[i + 1]]

LEMMA InsertList ==
  ASSUME NEW n \in Nat, NEW L \in Lists(n), NEW q, Chained(q, n, L),
         NEW p \in Procs, p \notin Holds(n, L), NEW j \in 0..n
  PROVE  /\ Longer(n, L, j, p) \in Lists(n + 1)
         /\ Chained(Inserted(q, L, j, p), n + 1, Longer(n, L, j, p))
         /\ Holds(n + 1, Longer(n, L, j, p)) = Holds(n, L) \cup {p}
<1> DEFINE M == Longer(n, L, j, p)
           r == Inserted(q, L, j, p)
<1>0. /\ \A i \in 1..n : L[i] \in Procs /\ L[i] # p
      /\ \A i, k \in 1..n : L[i] = L[k] => i = k
  BY DEF Lists, Holds
<1>m. /\ \A i \in 1..(n + 1) : M[i] = IF i <= j THEN L[i] ELSE IF i = j + 1 THEN p ELSE L[i - 1]
      /\ DOMAIN M = 1..(n + 1) /\ M = [i \in 1..(n + 1) |-> M[i]]
  BY DEF Longer
<1>at. /\ \A i \in 1..j : i \in 1..n /\ i \in 1..(n + 1) /\ M[i] = L[i]
       /\ j + 1 \in 1..(n + 1) /\ M[j + 1] = p
       /\ \A i \in (j + 1)..n : i \in 1..n /\ i + 1 \in 1..(n + 1) /\ M[i + 1] = L[i]
  <2>1. \A i \in (j + 1)..n : (i + 1) - 1 = i /\ ~(i + 1 <= j) /\ i + 1 # j + 1
    OBVIOUS
  <2> QED  BY <1>m, <2>1
<1>1. M \in Lists(n + 1)
  <2>1. \A i \in 1..(n + 1) : M[i] \in Procs
    BY <1>0, <1>m
  <2>2. \A i, k \in 1..(n + 1) : M[i] = M[k] => i = k
    <3> SUFFICES ASSUME NEW i \in 1..(n + 1), NEW k \in 1..(n + 1), M[i] = M[k] PROVE i = k
      OBVIOUS
    <3>1. \A x \in 1..(n + 1) : (x <= j => x \in 1..n) /\ (x > j + 1 => x - 1 \in 1..n)
      OBVIOUS
    <3> QED  BY <1>0, <1>m, <3>1
  <2> HIDE DEF M
  <2> QED  BY <1>m, <2>1, <2>2 DEF Lists
<1>2. Holds(n + 1, M) = Holds(n, L) \cup {p}
  <2>1. \A i \in 1..(n + 1) : M[i] \in Holds(n, L) \cup {p}
    <3>1. \A x \in 1..(n + 1) : (x <= j => x \in 1..n) /\ (x > j + 1 => x - 1 \in 1..n)
      OBVIOUS
    <3> QED  BY <1>m, <3>1 DEF Holds
  <2>2. \A i \in 1..n : \E k \in 1..(n + 1) : M[k] = L[i]
    BY <1>at
  <2>3. \E k \in 1..(n + 1) : M[k] = p
    BY <1>at
  <2> HIDE DEF M
  <2> QED  BY <2>1, <2>2, <2>3 DEF Holds
<1>3. Chained(r, n + 1, M)
  <2>q. /\ q \in Queues /\ ~q.spins /\ q.head = IF n = 0 THEN None ELSE L[1]
        /\ \A i \in 1..n : q.next[L[i]] = IF i = n THEN None ELSE L[i + 1]
    BY DEF Chained
  <2>1. CASE j = 0
    <3>1. r = [q EXCEPT !.head = p, !.next[p] = q.head]
      BY <2>1 DEF Inserted
    <3>2. /\ r \in Queues /\ ~r.spins /\ r.head = p
          /\ r.next[p] = q.head /\ \A x \in Procs \ {p} : r.next[x] = q.next[x]
      <4>1. q.head \in Procs \cup {None} /\ q.next \in [Procs -> Procs \cup {None}]
        BY <2>q DEF Queues
      <4>2. r = [head |-> p, next |-> [q.next EXCEPT ![p] = q.head], spins |-> q.spins]
        BY <2>q, <3>1 DEF Queues
      <4> QED  BY <2>q, <4>1, <4>2 DEF Queues
    <3>3. r.head = M[1] /\ n + 1 # 0
      BY <1>at, <2>1, <3>2
    <3>4. ASSUME NEW i \in 1..(n + 1)
          PROVE  r.next[M[i]] = IF i = n + 1 THEN None ELSE M[i + 1]
      <4>1. CASE i = 1
        <5>1. M[i] = p /\ (n = 0 \/ (1 \in 1..n /\ M[2] = L[1]))
          BY <1>at, <2>1, <4>1
        <5> QED  BY <2>q, <3>2, <4>1, <5>1
      <4>2. CASE i # 1
        <5>0. i - 1 \in (j + 1)..n /\ (i - 1) + 1 = i /\ (i # n + 1 => i \in (j + 1)..n)
          BY <2>1, <4>2
        <5>1. i - 1 \in 1..n /\ M[i] = L[i - 1] /\ (i # n + 1 => i \in 1..n /\ M[i + 1] = L[i])
          BY <1>at, <5>0
        <5>2. r.next[M[i]] = q.next[L[i - 1]]
          BY <1>0, <3>2, <5>1
        <5>3. q.next[L[i - 1]] = IF i - 1 = n THEN None ELSE L[(i - 1) + 1]
          BY <2>q, <5>1
        <5> QED  BY <5>1, <5>2, <5>3
      <4> QED  BY <4>1, <4>2
    <3> QED  BY <3>2, <3>3, <3>4 DEF Chained
  <2>2. CASE j # 0
    <3>0. j \in 1..n /\ L[j] \in Procs /\ L[j] # p
      BY <1>0, <2>2
    <3>1. r = [q EXCEPT !.next = [[@ EXCEPT ![p] = q.next[L[j]]] EXCEPT ![L[j]] = p]]
      BY <2>2 DEF Inserted
    <3>2. /\ r \in Queues /\ ~r.spins /\ r.head = q.head
          /\ r.next[p] = q.next[L[j]] /\ r.next[L[j]] = p
          /\ \A x \in Procs \ {p, L[j]} : r.next[x] = q.next[x]
      BY <2>q, <3>0, <3>1 DEF Queues
    <3>3. r.head = M[1] /\ n + 1 # 0 /\ n # 0
      BY <1>at, <2>q, <3>0, <3>2
    <3>4. ASSUME NEW i \in 1..(n + 1)
          PROVE  r.next[M[i]] = IF i = n + 1 THEN None ELSE M[i + 1]
      <4>1. CASE i = j
        BY <1>at, <3>0, <3>2, <4>1
      <4>2. CASE i = j + 1
        <5>1. M[i] = p /\ (i # n + 1 => M[i + 1] = L[j + 1])
          BY <1>at, <4>2
        <5> QED  BY <2>q, <3>0, <3>2, <4>2, <5>1
      <4>3. CASE i < j
        <5>1. M[i] = L[i] /\ M[i + 1] = L[i + 1] /\ i \in 1..n /\ L[i] # L[j]
          BY <1>0, <1>at, <3>0, <4>3
        <5>2. r.next[M[i]] = q.next[L[i]]
          BY <1>0, <3>2, <5>1
        <5> QED  BY <2>q, <3>0, <4>3, <5>1, <5>2
      <4>4. CASE i > j + 1
        <5>1. i - 1 \in 1..n /\ M[i] = L[i - 1] /\ i - 1 # j
              /\ (i # n + 1 => i \in 1..n /\ M[i + 1] = L[i])
          BY <1>m, <1>at, <3>0, <4>4
        <5>2. r.next[M[i]] = q.next[L[i - 1]]
          BY <1>0, <3>0, <3>2, <5>1
        <5>3. q.next[L[i - 1]] = IF i - 1 = n THEN None ELSE L[(i - 1) + 1]
          BY <2>q, <5>1
        <5> QED  BY <5>1, <5>2, <5>3
      <4> QED  BY <4>1, <4>2, <4>3, <4>4
    <3> QED  BY <3>2, <3>3, <3>4 DEF Chained
  <2> QED  BY <2>1, <2>2
<1> QED  BY <1>1, <1>2, <1>3

LEMMA DeleteList ==
  ASSUME NEW n \in Nat, NEW L \in Lists(n), NEW q, Chained(q, n, L), NEW j \in 1..n
  PROVE  /\ n - 1 \in Nat /\ Shorter(n, L, j) \in Lists(n - 1)
         /\ Chained(Deleted(q, L, j), n - 1, Shorter(n, L, j))
         /\ Holds(n - 1, Shorter(n, L, j)) = Holds(n, L) \ {L[j]}
<1> DEFINE M == Shorter(n, L, j)
           r == Deleted(q, L, j)
<1>0. /\ \A i \in 1..n : L[i] \in Procs
      /\ \A i, k \in 1..n : L[i] = L[k] => i = k
  BY DEF Lists
<1>m. /\ \A i \in 1..(n - 1) : /\ i \in 1..n /\ i + 1 \in 1..n
                               /\ M[i] = IF i < j THEN L[i] ELSE L[i + 1]
      /\ DOMAIN M = 1..(n - 1) /\ M = [i \in 1..(n - 1) |-> M[i]]
  BY DEF Shorter
<1>1. M \in Lists(n - 1)
  <2>1. \A i \in 1..(n - 1) : M[i] \in Procs
    BY <1>0, <1>m
  <2>2. \A i, k \in 1..(n - 1) : M[i] = M[k] => i = k
    <3> SUFFICES ASSUME NEW i \in 1..(n - 1), NEW k \in 1..(n - 1), M[i] = M[k] PROVE i = k
      OBVIOUS
    <3> QED  BY <1>0, <1>m
  <2> HIDE DEF M
  <2> QED  BY <1>m, <2>1, <2>2 DEF Lists
<1>2. Holds(n - 1, M) = Holds(n, L) \ {L[j]}
  <2>1. \A i \in 1..(n - 1) : M[i] \in Holds(n, L) \ {L[j]}
    BY <1>0, <1>m DEF Holds
  <2>2. ASSUME NEW i \in 1..n, L[i] # L[j] PROVE \E k \in 1..(n - 1) : M[k] = L[i]
    <3>1. CASE i < j
      <4>1. i \in 1..(n - 1)
        BY <3>1
      <4> QED  BY <1>m, <3>1, <4>1
    <3>2. CASE i > j
      <4>1. i - 1 \in 1..(n - 1) /\ ~(i - 1 < j) /\ (i - 1) + 1 = i
        BY <3>2
      <4>2. M[i - 1] = L[i]
        BY <1>m, <4>1
      <4> QED  BY <4>1, <4>2
    <3> QED  BY <2>2, <3>1, <3>2
  <2> HIDE DEF M
  <2> QED  BY <2>1, <2>2 DEF Holds
<1>3. Chained(r, n - 1, M)
  <2>q. /\ q \in Queues /\ ~q.spins /\ q.head = L[1]
        /\ \A i \in 1..n : q.next[L[i]] = IF i = n THEN None ELSE L[i + 1]
    BY DEF Chained
  <2>t. \A i \in 1..n : q.next[L[i]] \in Procs \cup {None}
    BY <1>0, <2>q DEF Queues
  <2>1. CASE j = 1
    <3>1. r = [q EXCEPT !.head = q.next[L[1]]]
      BY <2>1 DEF Deleted
    <3>2. r \in Queues /\ ~r.spins /\ r.head = q.next[L[1]] /\ r.next = q.next
      BY <2>q, <2>t, <3>1 DEF Queues
    <3>3. r.head = IF n - 1 = 0 THEN None ELSE M[1]
      BY <1>m, <2>q, <2>1, <3>2
    <3>4. ASSUME NEW i \in 1..(n - 1)
          PROVE  r.next[M[i]] = IF i = n - 1 THEN None ELSE M[i + 1]
      <4>1. M[i] = L[i + 1] /\ i + 1 \in 1..n
        BY <1>m, <2>1
      <4>2. i # n - 1 => i + 1 \in 1..(n - 1) /\ M[i + 1] = L[(i + 1) + 1]
        BY <1>m, <2>1
      <4> QED  BY <2>q, <3>2, <4>1, <4>2
    <3> QED  BY <3>2, <3>3, <3>4 DEF Chained
  <2>2. CASE j # 1
    <3>0. j - 1 \in 1..n /\ j - 1 \in 1..(n - 1) /\ L[j - 1] \in Procs
      BY <1>0, <2>2
    <3>1. r = [q EXCEPT !.next[L[j - 1]] = q.next[L[j]]]
      BY <2>2 DEF Deleted
    <3>2. /\ r \in Queues /\ ~r.spins /\ r.head = q.head
          /\ r.next[L[j - 1]] = q.next[L[j]]
          /\ \A x \in Procs \ {L[j - 1]} : r.next[x] = q.next[x]
      BY <2>q, <2>t, <3>0, <3>1 DEF Queues
    <3>3. r.head = IF n - 1 = 0 THEN None ELSE M[1]
      <4>1. 1 \in 1..(n - 1) /\ n - 1 # 0 /\ 1 < j
        BY <2>2
      <4>2. M[1] = L[1]
        BY <1>m, <4>1
      <4> QED  BY <2>q, <3>2, <4>1, <4>2
    <3>4. ASSUME NEW i \in 1..(n - 1)
          PROVE  r.next[M[i]] = IF i = n - 1 THEN None ELSE M[i + 1]
      <4>1. CASE i = j - 1
        <5>1. M[i] = L[j - 1] /\ r.next[M[i]] = IF j = n THEN None ELSE L[j + 1]
          BY <1>m, <2>q, <3>2, <4>1
        <5>2. i # n - 1 => j \in 1..(n - 1) /\ M[j] = L[j + 1]
          BY <1>m, <4>1
        <5> QED  BY <4>1, <5>1, <5>2
      <4>2. CASE i < j - 1
        <5>1. M[i] = L[i] /\ i + 1 \in 1..(n - 1) /\ M[i + 1] = L[i + 1] /\ i # j - 1 /\ i # n
          BY <1>m, <4>2
        <5>2. r.next[M[i]] = q.next[L[i]]
          BY <1>0, <1>m, <3>0, <3>2, <5>1
        <5> QED  BY <2>q, <4>2, <5>1, <5>2, <1>m
      <4>3. CASE i > j - 1
        <5>1. M[i] = L[i + 1] /\ i + 1 # j - 1 /\ i + 1 \in 1..n
          BY <1>m, <4>3
        <5>2. r.next[M[i]] = q.next[L[i + 1]]
          BY <1>0, <3>0, <3>2, <5>1
        <5>3. i # n - 1 => i + 1 \in 1..(n - 1) /\ ~(i + 1 < j)
          BY <4>3
        <5>4. i # n - 1 => M[i + 1] = L[(i + 1) + 1]
          BY <1>m, <5>3
        <5> QED  BY <2>q, <5>1, <5>2, <5>4
      <4> QED  BY <4>1, <4>2, <4>3
    <3> QED  BY <3>2, <3>3, <3>4 DEF Chained
  <2> QED  BY <2>1, <2>2
<1> QED  BY <1>1, <1>2, <1>3

-----------------------------------------------------------------------------
(* The order of the list.                                                   *)

\* Beats, with the policies and priorities given.
Ahead(p, q, pol, pri) ==
  \/ pol[p] = SCHED_FIFO /\ pol[q] = SCHED_RR
  \/ pol[p] = pol[q] /\ pri[p] > pri[q]

Sorted(n, L, pol, pri) == \A i, k \in 1..n : i < k => ~Ahead(L[k], L[i], pol, pri)

\* What a process may have asked for.
Kinds == Asks \cup {<<SCHED_RR, 0>>}
KindsIn(S, pol, pri) == \A p \in S : <<pol[p], pri[p]>> \in Kinds

\* A queue that is a list of S, in order if the programs allow it.
ReadyAs(q, S, pol, pri, n, L) ==
  /\ Chained(q, n, L) /\ Holds(n, L) = S
  /\ Sortable => Sorted(n, L, pol, pri)
Ready(q, S, pol, pri) ==
  \E n \in Nat : \E L \in Lists(n) : ReadyAs(q, S, pol, pri, n, L)

LEMMA KindsAre ==
  ASSUME NEW S, NEW pol, NEW pri, KindsIn(S, pol, pri), NEW p \in S
  PROVE  /\ pol[p] \in {SCHED_RR, SCHED_FIFO} /\ pri[p] \in Nat
         /\ pol[p] = SCHED_FIFO => <<SCHED_FIFO, pri[p]>> \in Asks
         /\ pol[p] = SCHED_RR => pri[p] = 0 \/ <<SCHED_RR, pri[p]>> \in Asks
<1>1. <<pol[p], pri[p]>> \in Asks \/ <<pol[p], pri[p]>> = <<SCHED_RR, 0>>
  BY DEF KindsIn, Kinds
<1>2. CASE <<pol[p], pri[p]>> \in Asks
  BY <1>2, SchedAssumption DEF SCHED_RR, SCHED_FIFO
<1>3. CASE <<pol[p], pri[p]>> = <<SCHED_RR, 0>>
  BY <1>3 DEF SCHED_RR, SCHED_FIFO
<1> QED  BY <1>1, <1>2, <1>3

\* Programs whose processes push keeps in order.
LEMMA SortableIs ==
  ASSUME Sortable, NEW S, NEW pol, NEW pri, KindsIn(S, pol, pri)
  PROVE  \/ \A p \in S : pol[p] = SCHED_RR
         \/ /\ \A p \in S : pol[p] = SCHED_RR => pri[p] = 0
            /\ \A p \in S : pol[p] = SCHED_FIFO => pri[p] > 0
            /\ \A p, q \in S : pol[p] = SCHED_FIFO /\ pol[q] = SCHED_FIFO
                                 => pri[p] = SCHED_FIFO \/ pri[q] >= pri[p]
<1>1. \A p \in S : /\ pol[p] \in {SCHED_RR, SCHED_FIFO} /\ pri[p] \in Nat
                   /\ pol[p] = SCHED_FIFO => <<SCHED_FIFO, pri[p]>> \in Asks
                   /\ pol[p] = SCHED_RR => pri[p] = 0 \/ <<SCHED_RR, pri[p]>> \in Asks
  BY KindsAre
<1>2. CASE \A a \in Asks : a[1] = SCHED_RR
  <2>1. ASSUME NEW p \in S PROVE pol[p] = SCHED_RR
    <3>1. SUFFICES ASSUME pol[p] = SCHED_FIFO PROVE FALSE
      BY <1>1
    <3>2. <<SCHED_FIFO, pri[p]>> \in Asks
      BY <1>1, <3>1
    <3>3. <<SCHED_FIFO, pri[p]>>[1] = SCHED_RR
      BY <1>2, <3>2
    <3> QED  BY <3>3 DEF SCHED_FIFO, SCHED_RR
  <2> QED  BY <2>1
<1>3. CASE \A a \in Asks :
             \/ a[1] = SCHED_RR /\ a[2] = 0
             \/ /\ a[1] = SCHED_FIFO /\ a[2] > 0
                /\ a[2] = SCHED_FIFO \/ \A b \in Asks : b[1] = SCHED_FIFO => b[2] >= a[2]
  <2>1. \A x : <<SCHED_RR, x>> \in Asks => x = 0
    <3>1. SUFFICES ASSUME NEW x, <<SCHED_RR, x>> \in Asks PROVE x = 0
      OBVIOUS
    <3>2. <<SCHED_RR, x>>[1] = SCHED_RR /\ <<SCHED_RR, x>>[2] = x
      OBVIOUS
    <3> QED  BY <1>3, <3>1, <3>2 DEF SCHED_FIFO, SCHED_RR
  <2>2. \A x : <<SCHED_FIFO, x>> \in Asks =>
          /\ x > 0
          /\ x = SCHED_FIFO \/ \A b \in Asks : b[1] = SCHED_FIFO => b[2] >= x
    <3>1. SUFFICES ASSUME NEW x, <<SCHED_FIFO, x>> \in Asks
                   PROVE /\ x > 0
                         /\ x = SCHED_FIFO \/ \A b \in Asks : b[1] = SCHED_FIFO => b[2] >= x
      OBVIOUS
    <3>2. <<SCHED_FIFO, x>>[1] = SCHED_FIFO /\ <<SCHED_FIFO, x>>[2] = x
      OBVIOUS
    <3> QED  BY <1>3, <3>1, <3>2 DEF SCHED_FIFO, SCHED_RR
  <2>3. \A x, y : <<SCHED_FIFO, x>> \in Asks /\ <<SCHED_FIFO, y>> \in Asks
                    => x = SCHED_FIFO \/ y >= x
    <3>1. SUFFICES ASSUME NEW x, NEW y, <<SCHED_FIFO, x>> \in Asks, <<SCHED_FIFO, y>> \in Asks,
                          x # SCHED_FIFO
                   PROVE y >= x
      OBVIOUS
    <3>2. <<SCHED_FIFO, y>>[1] = SCHED_FIFO /\ <<SCHED_FIFO, y>>[2] = y
      OBVIOUS
    <3> QED  BY <2>2, <3>1, <3>2
  <2>4. \A p \in S : pol[p] = SCHED_RR => pri[p] = 0
    BY <1>1, <2>1
  <2>5. \A p \in S : pol[p] = SCHED_FIFO => pri[p] > 0
    BY <1>1, <2>2
  <2>6. \A p, q \in S : pol[p] = SCHED_FIFO /\ pol[q] = SCHED_FIFO
                          => pri[p] = SCHED_FIFO \/ pri[q] >= pri[p]
    BY <1>1, <2>3
  <2> QED  BY <2>4, <2>5, <2>6
<1> QED  BY <1>2, <1>3 DEF Sortable

\* A node put between those it does not beat and those that do not beat it.
LEMMA InsertSorted ==
  ASSUME NEW n \in Nat, NEW L, NEW p, NEW j \in 0..n, NEW pol, NEW pri,
         Sorted(n, L, pol, pri),
         \A i \in 1..j : ~Ahead(p, L[i], pol, pri),
         \A i \in (j + 1)..n : ~Ahead(L[i], p, pol, pri)
  PROVE  Sorted(n + 1, Longer(n, L, j, p), pol, pri)
<1> DEFINE M == Longer(n, L, j, p)
<1>m. \A i \in 1..(n + 1) : M[i] = IF i <= j THEN L[i] ELSE IF i = j + 1 THEN p ELSE L[i - 1]
  BY DEF Longer
<1> SUFFICES ASSUME NEW i \in 1..(n + 1), NEW k \in 1..(n + 1), i < k
             PROVE ~Ahead(M[k], M[i], pol, pri)
  BY DEF Sorted
<1> HIDE DEF M
<1>1. CASE k <= j
  <2>1. i \in 1..n /\ k \in 1..n /\ M[i] = L[i] /\ M[k] = L[k]
    BY <1>1, <1>m
  <2> QED  BY <2>1 DEF Sorted
<1>2. CASE k = j + 1
  <2>1. i \in 1..j /\ M[i] = L[i] /\ M[k] = p
    BY <1>2, <1>m
  <2> QED  BY <2>1
<1>3. CASE k > j + 1 /\ i <= j
  <2>1. i \in 1..n /\ k - 1 \in 1..n /\ i < k - 1 /\ M[i] = L[i] /\ M[k] = L[k - 1]
    BY <1>3, <1>m
  <2> QED  BY <2>1 DEF Sorted
<1>4. CASE k > j + 1 /\ i = j + 1
  <2>1. k - 1 \in (j + 1)..n /\ M[i] = p /\ M[k] = L[k - 1]
    BY <1>4, <1>m
  <2> QED  BY <2>1
<1>5. CASE k > j + 1 /\ i > j + 1
  <2>1. i - 1 \in 1..n /\ k - 1 \in 1..n /\ i - 1 < k - 1
        /\ M[i] = L[i - 1] /\ M[k] = L[k - 1]
    BY <1>5, <1>m
  <2> QED  BY <2>1 DEF Sorted
<1> QED  BY <1>1, <1>2, <1>3, <1>4, <1>5

LEMMA DeleteSorted ==
  ASSUME NEW n \in Nat, NEW L, NEW j \in 1..n, NEW pol, NEW pri, Sorted(n, L, pol, pri)
  PROVE  Sorted(n - 1, Shorter(n, L, j), pol, pri)
<1> DEFINE M == Shorter(n, L, j)
<1>m. \A i \in 1..(n - 1) : /\ i \in 1..n /\ i + 1 \in 1..n
                            /\ M[i] = IF i < j THEN L[i] ELSE L[i + 1]
  BY DEF Shorter
<1> SUFFICES ASSUME NEW i \in 1..(n - 1), NEW k \in 1..(n - 1), i < k
             PROVE ~Ahead(M[k], M[i], pol, pri)
  BY DEF Sorted
<1> HIDE DEF M
<1>1. i < k + 1 /\ i + 1 < k + 1 /\ (k < j => i < j)
  OBVIOUS
<1> QED  BY <1>1, <1>m DEF Sorted

\* push puts p behind the j-th node, and where it is in order if the programs
\* allow it.
Spot(n, L, j, p, pol, pri) ==
  /\ \A i \in 1..j : ~Ahead(p, L[i], pol, pri)
  /\ \A i \in (j + 1)..n : ~Ahead(L[i], p, pol, pri)

LEMMA FrontSpot ==
  ASSUME NEW n \in Nat \ {0}, NEW L \in Lists(n), NEW p, NEW pol, NEW pri,
         KindsIn(Holds(n, L) \cup {p}, pol, pri), Sorted(n, L, pol, pri),
         pol[L[1]] = pol[p] \/ pol[p] = SCHED_FIFO, pri[p] > pri[L[1]]
  PROVE  Spot(n, L, 0, p, pol, pri)
<1> DEFINE S == Holds(n, L) \cup {p}
<1>0. p \in S /\ \A i \in 1..n : L[i] \in S
  BY DEF Holds
<1>1. \A x \in S : pol[x] \in {SCHED_RR, SCHED_FIFO} /\ pri[x] \in Nat
  BY KindsAre
<1> HIDE DEF S
<1> SUFFICES ASSUME NEW i \in 1..n PROVE ~Ahead(L[i], p, pol, pri)
  BY DEF Spot
<1>2. 1 \in 1..n /\ (i = 1 \/ 1 < i)
  OBVIOUS
<1>3. i = 1 \/ ~Ahead(L[i], L[1], pol, pri)
  BY <1>2 DEF Sorted
<1>4. /\ pol[p] \in {SCHED_RR, SCHED_FIFO} /\ pri[p] \in Nat
      /\ pol[L[1]] \in {SCHED_RR, SCHED_FIFO} /\ pri[L[1]] \in Nat
      /\ pol[L[i]] \in {SCHED_RR, SCHED_FIFO} /\ pri[L[i]] \in Nat
  BY <1>0, <1>1, <1>2
<1> QED  BY <1>3, <1>4 DEF Ahead, SCHED_RR, SCHED_FIFO

LEMMA BehindSpot ==
  ASSUME NEW n \in Nat \ {0}, NEW L \in Lists(n), NEW q, Chained(q, n, L),
         NEW p, NEW pol, NEW pri,
         KindsIn(Holds(n, L) \cup {p}, pol, pri), Sorted(n, L, pol, pri), Sortable,
         ~((pol[L[1]] = pol[p] \/ pol[p] = SCHED_FIFO) /\ pri[p] > pri[L[1]]),
         NEW f \in 1..n, NEW j \in f..n,
         pol[p] # SCHED_RR => f = 1,
         pol[p] = SCHED_RR => /\ L[f] \in LastRR(q, pol)
                              /\ \A i \in 1..(f - 1) : L[i] \notin LastRR(q, pol),
         L[j] \in Behind(q, p, pol, pri),
         \A i \in f..(j - 1) : L[i] \notin Behind(q, p, pol, pri)
  PROVE  Spot(n, L, j, p, pol, pri)
<1> DEFINE S == Holds(n, L) \cup {p}
<1>0. p \in S /\ \A i \in 1..n : L[i] \in S /\ L[i] \in Procs
  BY DEF Holds, Lists
<1>1. \A x \in S : pol[x] \in {SCHED_RR, SCHED_FIFO} /\ pri[x] \in Nat
  BY KindsAre
<1>2. \/ \A x \in S : pol[x] = SCHED_RR
      \/ /\ \A x \in S : pol[x] = SCHED_RR => pri[x] = 0
         /\ \A x \in S : pol[x] = SCHED_FIFO => pri[x] > 0
         /\ \A x, y \in S : pol[x] = SCHED_FIFO /\ pol[y] = SCHED_FIFO
                              => pri[x] = SCHED_FIFO \/ pri[y] >= pri[x]
  BY SortableIs
<1> HIDE DEF S
<1>n. \A i \in 1..n : q.next[L[i]] = IF i = n THEN None ELSE L[i + 1]
  BY DEF Chained
<1>b. /\ j \in 1..n /\ \/ j = n
                       \/ /\ j + 1 \in 1..n
                          /\ \/ pri[L[j + 1]] < pri[p]
                             \/ pol[p] # SCHED_RR /\ pri[L[j + 1]] # SCHED_FIFO
  <2>1. q.next[L[j]] = IF j = n THEN None ELSE L[j + 1]
    BY <1>n
  <2>2. j = n \/ (j + 1 \in 1..n /\ q.next[L[j]] = L[j + 1] /\ L[j + 1] # None)
    <3>1. j = n \/ j + 1 \in 1..n
      OBVIOUS
    <3> QED  BY <2>1, <3>1, <1>0, SlotsAre
  <2> QED  BY <2>2 DEF Behind
<1>a. \A i \in (f + 1)..j : /\ pri[p] <= pri[L[i]]
                            /\ pol[p] # SCHED_RR => pri[L[i]] = SCHED_FIFO
  <2> SUFFICES ASSUME NEW i \in (f + 1)..j
               PROVE /\ pri[p] <= pri[L[i]]
                     /\ pol[p] # SCHED_RR => pri[L[i]] = SCHED_FIFO
    OBVIOUS
  <2>1. i - 1 \in f..(j - 1) /\ i - 1 \in 1..n /\ i - 1 # n /\ i \in 1..n /\ (i - 1) + 1 = i
    OBVIOUS
  <2>2. L[i - 1] \notin Behind(q, p, pol, pri) /\ q.next[L[i - 1]] = L[i] /\ L[i - 1] \in Procs
    BY <2>1, <1>n, <1>0
  <2>3. ~(pri[L[i]] < pri[p]) /\ (pol[p] # SCHED_RR => pri[L[i]] = SCHED_FIFO)
    BY <2>2 DEF Behind
  <2> QED  BY <2>1, <2>3, <1>0, <1>1
<1>s. \A i, k \in 1..n : i < k => ~Ahead(L[k], L[i], pol, pri)
  BY DEF Sorted
<1>t. /\ pol[p] \in {SCHED_RR, SCHED_FIFO} /\ pri[p] \in Nat
      /\ \A i \in 1..n : pol[L[i]] \in {SCHED_RR, SCHED_FIFO} /\ pri[L[i]] \in Nat
  BY <1>0, <1>1
<1>3. CASE \A x \in S : pol[x] = SCHED_RR
  <2>0. pol[p] = SCHED_RR /\ \A i \in 1..n : pol[L[i]] = SCHED_RR
    BY <1>0, <1>3
  <2>1. f = 1
    <3>1. 1 \in 1..n /\ L[1] \in LastRR(q, pol)
      BY <1>0, <2>0 DEF LastRR, SCHED_RR, SCHED_FIFO
    <3>2. 1 \notin 1..(f - 1)
      BY <2>0, <3>1
    <3> QED  BY <3>2
  <2>2. ASSUME NEW i \in 1..j PROVE ~Ahead(p, L[i], pol, pri)
    <3>1. CASE i = 1
      BY <2>0, <3>1, <1>t DEF Ahead, SCHED_RR, SCHED_FIFO
    <3>2. CASE i # 1
      <4>1. i \in (f + 1)..j /\ i \in 1..n
        BY <2>1, <3>2
      <4> QED  BY <2>0, <4>1, <1>a, <1>t DEF Ahead, SCHED_RR, SCHED_FIFO
    <3> QED  BY <3>1, <3>2
  <2>3. ASSUME NEW i \in (j + 1)..n PROVE ~Ahead(L[i], p, pol, pri)
    <3>1. j + 1 \in 1..n /\ i \in 1..n /\ j # n /\ (i = j + 1 \/ j + 1 < i)
      OBVIOUS
    <3>2. pri[L[j + 1]] < pri[p]
      BY <1>b, <2>0, <3>1
    <3>3. i = j + 1 \/ ~Ahead(L[i], L[j + 1], pol, pri)
      BY <1>s, <3>1
    <3> QED  BY <2>0, <3>1, <3>2, <3>3, <1>t DEF Ahead, SCHED_RR, SCHED_FIFO
  <2> QED  BY <2>2, <2>3 DEF Spot
<1>4. CASE /\ \A x \in S : pol[x] = SCHED_RR => pri[x] = 0
           /\ \A x \in S : pol[x] = SCHED_FIFO => pri[x] > 0
           /\ \A x, y \in S : pol[x] = SCHED_FIFO /\ pol[y] = SCHED_FIFO
                                => pri[x] = SCHED_FIFO \/ pri[y] >= pri[x]
  <2>1. CASE pol[p] = SCHED_RR
    <3>1. ASSUME NEW i \in 1..j PROVE ~Ahead(p, L[i], pol, pri)
      <4>1. i \in 1..n
        OBVIOUS
      <4>2. pri[p] = 0 /\ (pol[L[i]] = SCHED_RR => pri[L[i]] = 0)
        BY <1>0, <1>4, <2>1, <4>1
      <4> QED  BY <2>1, <4>1, <4>2 DEF Ahead, SCHED_RR, SCHED_FIFO
    <3>2. ASSUME NEW i \in (j + 1)..n PROVE ~Ahead(L[i], p, pol, pri)
      <4>1. i \in 1..n /\ f \in 1..n /\ f < i /\ f # n
        OBVIOUS
      <4>2. pol[L[f]] # SCHED_FIFO
        <5>1. q.next[L[f]] = L[f + 1] /\ f + 1 \in 1..n
          BY <1>n, <4>1
        <5>2. L[f + 1] # None
          BY <5>1, <1>0, SlotsAre
        <5> QED  BY <2>1, <5>1, <5>2 DEF LastRR
      <4>3. pol[L[i]] = SCHED_RR
        <5>1. ~Ahead(L[i], L[f], pol, pri)
          BY <1>s, <4>1
        <5> QED  BY <4>1, <4>2, <5>1, <1>t DEF Ahead, SCHED_RR, SCHED_FIFO
      <4>4. pri[p] = 0 /\ pri[L[i]] = 0
        BY <1>0, <1>4, <2>1, <4>1, <4>3
      <4> QED  BY <2>1, <4>3, <4>4 DEF Ahead, SCHED_RR, SCHED_FIFO
    <3> QED  BY <3>1, <3>2 DEF Spot
  <2>2. CASE pol[p] = SCHED_FIFO
    <3>0. f = 1 /\ 1 \in 1..n /\ pri[p] > 0
      BY <1>0, <1>4, <2>2 DEF SCHED_RR, SCHED_FIFO
    <3>r. \A i \in 1..n : pol[L[i]] = SCHED_FIFO \/ pri[L[i]] = 0
      BY <1>0, <1>4, <1>t
    <3>1. ASSUME NEW i \in 1..j PROVE ~Ahead(p, L[i], pol, pri)
      <4>0. i \in 1..n
        OBVIOUS
      <4>1. pri[L[i]] >= pri[p]
        <5>1. CASE i = 1
          BY <2>2, <3>0, <5>1, <1>t
        <5>2. CASE i # 1
          <6>1. i \in (f + 1)..j
            BY <3>0, <5>2
          <6> QED  BY <4>0, <6>1, <1>a, <1>t
        <5> QED  BY <5>1, <5>2
      <4>2. pol[L[i]] = SCHED_FIFO
        BY <3>0, <3>r, <4>0, <4>1, <1>t
      <4> QED  BY <2>2, <4>0, <4>1, <4>2, <1>t DEF Ahead, SCHED_RR, SCHED_FIFO
    <3>2. ASSUME NEW i \in (j + 1)..n PROVE ~Ahead(L[i], p, pol, pri)
      <4>1. j + 1 \in 1..n /\ i \in 1..n /\ j # n /\ (i = j + 1 \/ j + 1 < i)
        OBVIOUS
      <4>2. pri[L[j + 1]] < pri[p] \/ pri[L[j + 1]] # SCHED_FIFO
        BY <1>b, <4>1
      <4>3. SUFFICES ASSUME pol[L[i]] = SCHED_FIFO PROVE pri[L[i]] <= pri[p]
        BY <2>2, <4>1, <1>t DEF Ahead, SCHED_RR, SCHED_FIFO
      <4>4. pol[L[j + 1]] = SCHED_FIFO /\ pri[L[i]] <= pri[L[j + 1]]
        <5>1. CASE i = j + 1
          BY <4>1, <4>3, <5>1, <1>t
        <5>2. CASE j + 1 < i
          <6>1. ~Ahead(L[i], L[j + 1], pol, pri)
            BY <1>s, <4>1, <5>2
          <6> QED  BY <4>1, <4>3, <6>1, <1>t DEF Ahead, SCHED_RR, SCHED_FIFO
        <5> QED  BY <4>1, <5>1, <5>2
      <4>5. pri[L[j + 1]] = SCHED_FIFO \/ pri[p] >= pri[L[j + 1]]
        BY <1>0, <1>4, <2>2, <4>1, <4>4
      <4>6. pri[L[j + 1]] <= pri[p]
        BY <4>1, <4>2, <4>5, <1>t
      <4> QED  BY <4>1, <4>4, <4>6, <1>t
    <3> QED  BY <3>1, <3>2 DEF Spot
  <2> QED  BY <2>1, <2>2, <1>t
<1> QED  BY <1>2, <1>3, <1>4

\* push on a list that does not have p.
LEMMA PushSpot ==
  ASSUME NEW n \in Nat, NEW L \in Lists(n), NEW q, Chained(q, n, L),
         NEW p \in Procs, p \notin Holds(n, L), NEW pol, NEW pri
  PROVE  \E j \in 0..n :
           /\ Push(q, p, pol, pri) = Inserted(q, L, j, p)
           /\ Sortable /\ Sorted(n, L, pol, pri) /\ KindsIn(Holds(n, L) \cup {p}, pol, pri)
                => Spot(n, L, j, p, pol, pri)
<1> DEFINE from == IF pol[p] = SCHED_RR THEN Walk(q.next, q.head, LastRR(q, pol)) ELSE q.head
           x == Walk(q.next, from, Behind(q, p, pol, pri))
<1>0. \A i \in 1..n : L[i] \in Procs /\ L[i] # None
  BY SlotsAre DEF Lists
<1>q. /\ q.head = IF n = 0 THEN None ELSE L[1]
      /\ q \in Queues /\ \A i \in 1..n : q.next[L[i]] = IF i = n THEN None ELSE L[i + 1]
  BY DEF Chained
<1>d. Push(q, p, pol, pri) =
        IF q.head = None
        THEN [q EXCEPT !.head = p, !.next[p] = None]
        ELSE IF (pol[q.head] = pol[p] \/ pol[p] = SCHED_FIFO) /\ pri[p] > pri[q.head]
        THEN [q EXCEPT !.head = p, !.next[p] = q.head]
        ELSE IF x = None THEN [q EXCEPT !.spins = TRUE]
        ELSE [q EXCEPT !.next = [[@ EXCEPT ![p] = q.next[x]] EXCEPT ![x] = p]]
  BY DEF Push, PushAs
<1> HIDE DEF from, x
<1>1. CASE n = 0
  <2>1. Push(q, p, pol, pri) = [q EXCEPT !.head = p, !.next[p] = None]
    BY <1>d, <1>q, <1>1
  <2>2. Push(q, p, pol, pri) = Inserted(q, L, 0, p)
    BY <2>1, <1>q, <1>1 DEF Inserted
  <2>3. Spot(n, L, 0, p, pol, pri)
    BY <1>1 DEF Spot
  <2> QED  BY <2>2, <2>3, <1>1
<1>2. CASE n # 0 /\ (pol[L[1]] = pol[p] \/ pol[p] = SCHED_FIFO) /\ pri[p] > pri[L[1]]
  <2>1. q.head = L[1] /\ q.head # None
    BY <1>0, <1>q, <1>2
  <2>2. Push(q, p, pol, pri) = [q EXCEPT !.head = p, !.next[p] = q.head]
    BY <1>d, <1>2, <2>1
  <2>3. Push(q, p, pol, pri) = Inserted(q, L, 0, p)
    BY <2>2 DEF Inserted
  <2>4. Sorted(n, L, pol, pri) /\ KindsIn(Holds(n, L) \cup {p}, pol, pri)
          => Spot(n, L, 0, p, pol, pri)
    BY <1>2, FrontSpot
  <2> QED  BY <2>3, <2>4
<1>3. CASE n # 0 /\ ~((pol[L[1]] = pol[p] \/ pol[p] = SCHED_FIFO) /\ pri[p] > pri[L[1]])
  <2>1. q.head = L[1] /\ q.head # None /\ n \in Nat \ {0} /\ n \in 1..n /\ 1 \in 1..n
    BY <1>0, <1>q, <1>3
  <2>2. /\ LastRR(q, pol) \in SUBSET Procs /\ Behind(q, p, pol, pri) \in SUBSET Procs
        /\ L[n] \in LastRR(q, pol) /\ L[n] \in Behind(q, p, pol, pri)
    <3>1. L[n] \in Procs /\ q.next[L[n]] = None
      BY <1>0, <1>q, <2>1
    <3> QED  BY <3>1 DEF LastRR, Behind
  <2>3. \E f \in 1..n :
          /\ from = L[f]
          /\ pol[p] # SCHED_RR => f = 1
          /\ pol[p] = SCHED_RR => /\ L[f] \in LastRR(q, pol)
                                  /\ \A i \in 1..(f - 1) : L[i] \notin LastRR(q, pol)
    <3>1. CASE pol[p] # SCHED_RR
      BY <2>1, <3>1 DEF from
    <3>2. CASE pol[p] = SCHED_RR
      <4>1. from = Walk(q.next, L[1], LastRR(q, pol))
        BY <2>1, <3>2 DEF from
      <4> HIDE DEF from
      <4>2. \E f \in 1..n : /\ Walk(q.next, L[1], LastRR(q, pol)) = L[f]
                            /\ L[f] \in LastRR(q, pol)
                            /\ \A i \in 1..(f - 1) : L[i] \notin LastRR(q, pol)
        BY <2>1, <2>2, WalkStops
      <4> QED  BY <3>2, <4>1, <4>2
    <3> QED  BY <3>1, <3>2
  <2>4. PICK f \in 1..n :
          /\ from = L[f]
          /\ pol[p] # SCHED_RR => f = 1
          /\ pol[p] = SCHED_RR => /\ L[f] \in LastRR(q, pol)
                                  /\ \A i \in 1..(f - 1) : L[i] \notin LastRR(q, pol)
    BY <2>3
  <2>5. n \in f..n
    BY <2>4
  <2>6. PICK j \in f..n : /\ x = L[j] /\ L[j] \in Behind(q, p, pol, pri)
                          /\ \A i \in f..(j - 1) : L[i] \notin Behind(q, p, pol, pri)
    <3>1. x = Walk(q.next, L[f], Behind(q, p, pol, pri))
      BY <2>4 DEF x
    <3> QED  BY <2>2, <2>5, <3>1, WalkStops
  <2>7. j \in 1..n /\ j \in 0..n /\ j # 0 /\ x # None
    BY <2>6, <1>0
  <2>8. Push(q, p, pol, pri) = Inserted(q, L, j, p)
    <3>1. Push(q, p, pol, pri) =
            [q EXCEPT !.next = [[@ EXCEPT ![p] = q.next[x]] EXCEPT ![x] = p]]
      BY <1>d, <1>3, <2>1, <2>7
    <3> QED  BY <3>1, <2>6, <2>7 DEF Inserted
  <2>9. ASSUME Sortable, Sorted(n, L, pol, pri), KindsIn(Holds(n, L) \cup {p}, pol, pri)
        PROVE  Spot(n, L, j, p, pol, pri)
    BY <2>9, <1>3, <2>1, <2>4, <2>6, BehindSpot
  <2> QED  BY <2>7, <2>8, <2>9
<1> QED  BY <1>1, <1>2, <1>3

LEMMA PushReady ==
  ASSUME NEW q, NEW S, NEW pol, NEW pri, Ready(q, S, pol, pri),
         NEW p \in Procs \ S, KindsIn(S \cup {p}, pol, pri)
  PROVE  Ready(Push(q, p, pol, pri), S \cup {p}, pol, pri)
<1>a. PICK n \in Nat : \E L \in Lists(n) : ReadyAs(q, S, pol, pri, n, L)
  BY DEF Ready
<1>b. PICK L \in Lists(n) : ReadyAs(q, S, pol, pri, n, L)
  BY <1>a
<1>1. /\ Chained(q, n, L) /\ Holds(n, L) = S
      /\ Sortable => Sorted(n, L, pol, pri)
  BY <1>b DEF ReadyAs
<1>2. PICK j \in 0..n :
           /\ Push(q, p, pol, pri) = Inserted(q, L, j, p)
           /\ Sortable /\ Sorted(n, L, pol, pri) /\ KindsIn(Holds(n, L) \cup {p}, pol, pri)
                => Spot(n, L, j, p, pol, pri)
  BY <1>1, PushSpot
<1>3. /\ n + 1 \in Nat /\ Longer(n, L, j, p) \in Lists(n + 1)
      /\ Chained(Push(q, p, pol, pri), n + 1, Longer(n, L, j, p))
      /\ Holds(n + 1, Longer(n, L, j, p)) = S \cup {p}
  BY <1>1, <1>2, InsertList
<1>4. Sortable => Sorted(n + 1, Longer(n, L, j, p), pol, pri)
  BY <1>1, <1>2, InsertSorted DEF Spot
<1> QED  BY <1>3, <1>4 DEF Ready, ReadyAs

\* remove of a process that is on the list.
LEMMA RemoveReady ==
  ASSUME NEW q, NEW S, NEW pol, NEW pri, Ready(q, S, pol, pri), NEW p \in S
  PROVE  Ready(Remove(q, p), S \ {p}, pol, pri) /\ ~Remove(q, p).spins
<1>a. PICK n \in Nat : \E L \in Lists(n) : ReadyAs(q, S, pol, pri, n, L)
  BY DEF Ready
<1>b. PICK L \in Lists(n) : ReadyAs(q, S, pol, pri, n, L)
  BY <1>a
<1>1. /\ Chained(q, n, L) /\ Holds(n, L) = S
      /\ Sortable => Sorted(n, L, pol, pri)
  BY <1>b DEF ReadyAs
<1>2. PICK j \in 1..n : L[j] = p
  BY <1>1 DEF Holds
<1>0. /\ \A i \in 1..n : L[i] \in Procs /\ L[i] # None
      /\ \A i, k \in 1..n : L[i] = L[k] => i = k
      /\ q.head = IF n = 0 THEN None ELSE L[1]
      /\ \A i \in 1..n : q.next[L[i]] = IF i = n THEN None ELSE L[i + 1]
  BY <1>1, SlotsAre DEF Lists, Chained
<1>3. n # 0 /\ 1 \in 1..n /\ q.head # None /\ q.head = L[1]
  BY <1>0, <1>2
<1>4. Remove(q, p) = Deleted(q, L, j)
  <2>1. CASE j = 1
    BY <1>2, <1>3, <2>1 DEF Remove, Deleted
  <2>2. CASE j # 1
    <3> DEFINE Y == {y \in Procs : q.next[y] \in {None, p}}
    <3>1. q.head # p /\ j - 1 \in 1..n /\ j - 1 # n /\ (j - 1) + 1 = j
      BY <1>0, <1>2, <1>3, <2>2
    <3>2. q.next[L[j - 1]] = p /\ L[j - 1] \in Y
      BY <1>0, <1>2, <3>1
    <3>3. \A i \in 1..((j - 1) - 1) : L[i] \notin Y
      <4> SUFFICES ASSUME NEW i \in 1..((j - 1) - 1) PROVE L[i] \notin Y
        OBVIOUS
      <4>1. i \in 1..n /\ i # n /\ i + 1 \in 1..n /\ i + 1 # j
        OBVIOUS
      <4>2. q.next[L[i]] = L[i + 1] /\ L[i + 1] # p /\ L[i + 1] # None
        BY <4>1, <1>0, <1>2
      <4> QED  BY <4>2
    <3>4. Walk(q.next, L[1], Y) = L[j - 1]
      <4>1. Y \in SUBSET Procs
        OBVIOUS
      <4> HIDE DEF Y
      <4> QED  BY <1>1, <1>3, <3>1, <3>2, <3>3, <4>1, WalkList
    <3>5. Remove(q, p) = [q EXCEPT !.next[L[j - 1]] = q.next[p]]
      BY <1>0, <1>3, <3>1, <3>2, <3>4 DEF Remove
    <3> QED  BY <1>2, <2>2, <3>5 DEF Deleted
  <2> QED  BY <2>1, <2>2
<1>5. /\ n - 1 \in Nat /\ Shorter(n, L, j) \in Lists(n - 1)
      /\ Chained(Remove(q, p), n - 1, Shorter(n, L, j))
      /\ Holds(n - 1, Shorter(n, L, j)) = S \ {p}
  BY <1>1, <1>2, <1>4, DeleteList
<1>6. Sortable => Sorted(n - 1, Shorter(n, L, j), pol, pri)
  BY <1>1, DeleteSorted
<1>7. ~Remove(q, p).spins
  BY <1>5 DEF Chained
<1> QED  BY <1>5, <1>6, <1>7 DEF Ready, ReadyAs

\* The pop of the head, which no process on the list beats.
LEMMA PopReady ==
  ASSUME NEW q, NEW S, NEW pol, NEW pri, Ready(q, S, pol, pri), q.head \in Procs
  PROVE  /\ q.head \in S
         /\ Ready([q EXCEPT !.head = q.next[q.head]], S \ {q.head}, pol, pri)
         /\ Sortable /\ KindsIn(S, pol, pri) => \A p \in S : ~Ahead(p, q.head, pol, pri)
<1>a. PICK n \in Nat : \E L \in Lists(n) : ReadyAs(q, S, pol, pri, n, L)
  BY DEF Ready
<1>b. PICK L \in Lists(n) : ReadyAs(q, S, pol, pri, n, L)
  BY <1>a
<1>1. /\ Chained(q, n, L) /\ Holds(n, L) = S
      /\ Sortable => Sorted(n, L, pol, pri)
  BY <1>b DEF ReadyAs
<1>2. n # 0 /\ 1 \in 1..n /\ q.head = L[1] /\ q.head \in S
  BY <1>1, SlotsAre DEF Chained, Holds
<1>3. [q EXCEPT !.head = q.next[q.head]] = Deleted(q, L, 1)
  BY <1>2 DEF Deleted
<1>4. /\ n - 1 \in Nat /\ Shorter(n, L, 1) \in Lists(n - 1)
      /\ Chained([q EXCEPT !.head = q.next[q.head]], n - 1, Shorter(n, L, 1))
      /\ Holds(n - 1, Shorter(n, L, 1)) = S \ {q.head}
  BY <1>1, <1>2, <1>3, DeleteList
<1>5. Sortable => Sorted(n - 1, Shorter(n, L, 1), pol, pri)
  BY <1>1, <1>2, DeleteSorted
<1>6. ASSUME Sortable, KindsIn(S, pol, pri), NEW p \in S PROVE ~Ahead(p, q.head, pol, pri)
  <2>1. PICK i \in 1..n : p = L[i]
    BY <1>1 DEF Holds
  <2>2. i = 1 \/ 1 < i
    OBVIOUS
  <2>3. CASE i = 1
    <3>1. p = q.head /\ pri[p] \in Nat
      BY <1>2, <1>6, <2>1, <2>3, KindsAre
    <3> QED  BY <3>1 DEF Ahead, SCHED_RR, SCHED_FIFO
  <2>4. CASE 1 < i
    BY <1>1, <1>2, <1>6, <2>1, <2>4 DEF Sorted
  <2> QED  BY <2>2, <2>3, <2>4
<1> QED  BY <1>2, <1>4, <1>5, <1>6 DEF Ready, ReadyAs

-----------------------------------------------------------------------------
(* The queues are of their type whatever the list is.                       *)

LEMMA PushType ==
  ASSUME NEW q \in Queues, NEW p \in Procs, NEW pol, NEW pri
  PROVE  Push(q, p, pol, pri) \in Queues
<1> DEFINE from == IF pol[p] = SCHED_RR THEN Walk(q.next, q.head, LastRR(q, pol)) ELSE q.head
           x == Walk(q.next, from, Behind(q, p, pol, pri))
<1>1. x \in Procs \cup {None}
  <2>1. x \in Behind(q, p, pol, pri) \cup {None}
    BY WalkIn
  <2> QED  BY <2>1 DEF Behind
<1>2. Push(q, p, pol, pri) =
        IF q.head = None
        THEN [q EXCEPT !.head = p, !.next[p] = None]
        ELSE IF (pol[q.head] = pol[p] \/ pol[p] = SCHED_FIFO) /\ pri[p] > pri[q.head]
        THEN [q EXCEPT !.head = p, !.next[p] = q.head]
        ELSE IF x = None THEN [q EXCEPT !.spins = TRUE]
        ELSE [q EXCEPT !.next = [[@ EXCEPT ![p] = q.next[x]] EXCEPT ![x] = p]]
  BY DEF Push, PushAs
<1> HIDE DEF from, x
<1>q. /\ q = [head |-> q.head, next |-> q.next, spins |-> q.spins]
      /\ q.head \in Procs \cup {None} /\ q.next \in [Procs -> Procs \cup {None}]
      /\ q.spins \in BOOLEAN
  BY DEF Queues
<1>3. [q EXCEPT !.head = p, !.next[p] = None] \in Queues
  <2>1. SUFFICES ASSUME NEW r, r = [q EXCEPT !.head = p, !.next[p] = None] PROVE r \in Queues
    BY Zenon
  <2>2. r = [head |-> p, next |-> [q.next EXCEPT ![p] = None], spins |-> q.spins]
    BY <1>q, <2>1 DEF Queues
  <2> QED  BY <1>q, <2>2 DEF Queues
<1>4. [q EXCEPT !.head = p, !.next[p] = q.head] \in Queues
  <2>1. SUFFICES ASSUME NEW r, r = [q EXCEPT !.head = p, !.next[p] = q.head] PROVE r \in Queues
    BY Zenon
  <2>2. r = [head |-> p, next |-> [q.next EXCEPT ![p] = q.head], spins |-> q.spins]
    BY <1>q, <2>1 DEF Queues
  <2> QED  BY <1>q, <2>2 DEF Queues
<1>5. [q EXCEPT !.spins = TRUE] \in Queues
  BY <1>q DEF Queues
<1>6. ASSUME x # None
      PROVE  [q EXCEPT !.next = [[@ EXCEPT ![p] = q.next[x]] EXCEPT ![x] = p]] \in Queues
  <2>1. [[q.next EXCEPT ![p] = q.next[x]] EXCEPT ![x] = p] \in [Procs -> Procs \cup {None}]
    BY <1>1, <1>6, <1>q
  <2> QED  BY <1>q, <2>1 DEF Queues
<1> QED  BY <1>2, <1>3, <1>4, <1>5, <1>6

LEMMA RemoveType ==
  ASSUME NEW q \in Queues, NEW p \in Procs PROVE Remove(q, p) \in Queues
<1> DEFINE x == Walk(q.next, q.head, {y \in Procs : q.next[y] \in {None, p}})
<1>1. x \in Procs \cup {None}
  <2>1. x \in {y \in Procs : q.next[y] \in {None, p}} \cup {None}
    BY WalkIn
  <2> QED  BY <2>1
<1>2. Remove(q, p) = IF q.head = None THEN q
                     ELSE IF q.head = p THEN [q EXCEPT !.head = q.next[p]]
                     ELSE IF x = None THEN [q EXCEPT !.spins = TRUE]
                     ELSE IF q.next[x] = p THEN [q EXCEPT !.next[x] = q.next[p]]
                     ELSE q
  BY DEF Remove
<1> HIDE DEF x
<1>q. /\ q = [head |-> q.head, next |-> q.next, spins |-> q.spins]
      /\ q.head \in Procs \cup {None} /\ q.next \in [Procs -> Procs \cup {None}]
      /\ q.spins \in BOOLEAN
  BY DEF Queues
<1>3. [q EXCEPT !.head = q.next[p]] \in Queues
  BY <1>q DEF Queues
<1>4. [q EXCEPT !.spins = TRUE] \in Queues
  BY <1>q DEF Queues
<1>5. ASSUME x # None PROVE [q EXCEPT !.next[x] = q.next[p]] \in Queues
  <2>1. [q.next EXCEPT ![x] = q.next[p]] \in [Procs -> Procs \cup {None}]
    BY <1>1, <1>5, <1>q
  <2> QED  BY <1>q, <2>1 DEF Queues
<1> QED  BY <1>2, <1>3, <1>4, <1>5

-----------------------------------------------------------------------------
(* The pushes of wakeup1's loop.                                            *)

\* The queue after each slot of the table.
Loop(f, m, q, woken) ==
  f = [k \in 0..m |->
         IF k = 0 THEN q
         ELSE IF k \in woken THEN Push(f[k - 1], k, policy, priority) ELSE f[k - 1]]

\* Such a function exists: up to m, it extends the one up to m - 1.
LEMMA LoopIs ==
  ASSUME NEW q, NEW woken PROVE \E f : Loop(f, NPROC, q, woken) /\ PushAll(q, woken) = f[NPROC]
<1> DEFINE S == {m \in 0..NPROC : \E f : Loop(f, m, q, woken)}
           e(f) == [k \in 0..NPROC |->
                      IF k = 0 THEN q
                      ELSE IF k \in woken THEN Push(f[k - 1], k, policy, priority) ELSE f[k - 1]]
<1>1. 0 \in S
  <2>1. Loop([k \in 0..0 |-> q], 0, q, woken)
    BY DEF Loop
  <2> QED  BY <2>1, SlotsAre
<1>2. ASSUME NEW m \in 1..NPROC, m - 1 \in S PROVE m \in S
  <2>1. PICK f : Loop(f, m - 1, q, woken)
    BY <1>2
  <2> DEFINE v == IF m \in woken THEN Push(f[m - 1], m, policy, priority) ELSE f[m - 1]
             g == [k \in 0..m |-> IF k = m THEN v ELSE f[k]]
  <2>2. \A k \in 0..m : k # 0 => k - 1 \in 0..m /\ k - 1 # m /\ g[k - 1] = f[k - 1]
    OBVIOUS
  <2>3. \A k \in 0..m : k # m => k \in 0..(m - 1)
    OBVIOUS
  <2>4. ASSUME NEW k \in 0..m
        PROVE  g[k] = IF k = 0 THEN q
                      ELSE IF k \in woken THEN Push(g[k - 1], k, policy, priority) ELSE g[k - 1]
    <3>1. CASE k = m
      <4>1. g[k] = v /\ k # 0 /\ g[k - 1] = f[m - 1]
        BY <2>2, <3>1
      <4> HIDE DEF g
      <4> QED  BY <3>1, <4>1
    <3>2. CASE k # m
      <4>1. g[k] = f[k] /\ k \in 0..(m - 1) /\ (k # 0 => g[k - 1] = f[k - 1])
        BY <2>2, <2>3, <3>2
      <4>2. f[k] = IF k = 0 THEN q
                   ELSE IF k \in woken THEN Push(f[k - 1], k, policy, priority) ELSE f[k - 1]
        BY <2>1, <4>1 DEF Loop
      <4> HIDE DEF g
      <4> QED  BY <4>1, <4>2
    <3> QED  BY <3>1, <3>2
  <2>5. g = [k \in 0..m |-> g[k]]
    OBVIOUS
  <2> HIDE DEF g
  <2>6. Loop(g, m, q, woken)
    BY <2>4, <2>5 DEF Loop
  <2> QED  BY <2>6
<1>3. NPROC \in S
  <2> HIDE DEF S
  <2> QED  BY <1>1, <1>2, UpTo, SlotsAre
<1>4. \E f : f = e(f)
  BY <1>3 DEF Loop
<1>5. PushAll(q, woken) = (CHOOSE f : f = e(f))[NPROC]
  BY Zenon DEF PushAll
<1> DEFINE h == CHOOSE f : f = e(f)
<1>6. h = e(h)
  <2> HIDE DEF e
  <2> QED  BY <1>4, Zenon
<1>7. Loop(h, NPROC, q, woken)
  BY <1>6, Zenon DEF Loop
<1> QED  BY <1>5, <1>7, Zenon

LEMMA LoopStep ==
  ASSUME NEW f, NEW q, NEW woken, Loop(f, NPROC, q, woken)
  PROVE  /\ f[0] = q
         /\ \A k \in 1..NPROC :
              f[k] = IF k \in woken THEN Push(f[k - 1], k, policy, priority) ELSE f[k - 1]
BY SlotsAre DEF Loop

LEMMA PushAllType ==
  ASSUME NEW q \in Queues, NEW woken PROVE PushAll(q, woken) \in Queues
<1>1. PICK f : Loop(f, NPROC, q, woken) /\ PushAll(q, woken) = f[NPROC]
  BY LoopIs
<1> DEFINE S == {k \in 0..NPROC : f[k] \in Queues}
<1>2. 0 \in S
  BY <1>1, LoopStep, SlotsAre
<1>3. ASSUME NEW k \in 1..NPROC, k - 1 \in S PROVE k \in S
  <2>1. f[k] = IF k \in woken THEN Push(f[k - 1], k, policy, priority) ELSE f[k - 1]
    BY <1>1, LoopStep
  <2>2. k \in Procs
    BY DEF Procs
  <2> QED  BY <1>3, <2>1, <2>2, PushType
<1>4. NPROC \in S
  <2> HIDE DEF S
  <2> QED  BY <1>2, <1>3, UpTo, SlotsAre
<1> QED  BY <1>1, <1>4

LEMMA PushAllReady ==
  ASSUME NEW q, NEW S, Ready(q, S, policy, priority), NEW woken \in SUBSET Procs,
         woken \cap S = {}, KindsIn(S \cup woken, policy, priority)
  PROVE  Ready(PushAll(q, woken), S \cup woken, policy, priority)
<1>1. PICK f : Loop(f, NPROC, q, woken) /\ PushAll(q, woken) = f[NPROC]
  BY LoopIs
<1> DEFINE Seen(k) == S \cup {p \in woken : p <= k}
           T == {k \in 0..NPROC : Ready(f[k], Seen(k), policy, priority)}
<1>w. \A p \in woken : p \in Procs /\ p \in Nat /\ p >= 1 /\ p <= NPROC
  BY SlotsAre DEF Procs
<1>2. 0 \in T
  <2>1. Seen(0) = S
    <3>1. {p \in woken : p <= 0} = {}
      BY <1>w
    <3> QED  BY <3>1
  <2>2. f[0] = q /\ 0 \in 0..NPROC
    BY <1>1, LoopStep, SlotsAre
  <2> HIDE DEF Seen
  <2> QED  BY <2>1, <2>2
<1>3. ASSUME NEW k \in 1..NPROC, k - 1 \in T PROVE k \in T
  <2>1. f[k] = IF k \in woken THEN Push(f[k - 1], k, policy, priority) ELSE f[k - 1]
    BY <1>1, LoopStep
  <2>2. k \in Procs /\ Ready(f[k - 1], Seen(k - 1), policy, priority)
    BY <1>3 DEF Procs
  <2>3. CASE k \in woken
    <3>1. k \notin Seen(k - 1) /\ Seen(k) = Seen(k - 1) \cup {k}
      <4>1. k \notin S /\ ~(k <= k - 1)
        BY <2>3
      <4>2. {p \in woken : p <= k} = {p \in woken : p <= k - 1} \cup {k}
        <5>1. \A p \in woken : p <= k <=> p <= k - 1 \/ p = k
          BY <1>w
        <5> QED  BY <2>3, <5>1
      <4> QED  BY <4>1, <4>2
    <3>2. KindsIn(Seen(k - 1) \cup {k}, policy, priority)
      BY <2>3 DEF KindsIn
    <3>3. Ready(f[k], Seen(k), policy, priority)
      <4> HIDE DEF Seen
      <4> QED  BY <2>1, <2>2, <2>3, <3>1, <3>2, PushReady
    <3> QED  BY <3>3
  <2>4. CASE k \notin woken
    <3>1. {p \in woken : p <= k} = {p \in woken : p <= k - 1}
      <4>1. \A p \in woken : p <= k <=> p <= k - 1
        BY <1>w, <2>4
      <4> QED  BY <4>1
    <3> QED  BY <2>1, <2>2, <2>4, <3>1
  <2> QED  BY <2>3, <2>4
<1>4. NPROC \in T
  <2> HIDE DEF T
  <2> QED  BY <1>2, <1>3, UpTo, SlotsAre
<1>5. Seen(NPROC) = S \cup woken
  BY <1>w
<1> QED  BY <1>1, <1>4, <1>5

-----------------------------------------------------------------------------
(* What becomes of the variables.                                           *)

\* The list survives when the dead links are written.
LEMMA SetReady ==
  ASSUME NEW q, NEW S, NEW pol, NEW pri, Ready(q, S, pol, pri), SetQueue(q)
  PROVE  Ready(TheQueue', S, pol, pri) /\ halted' = FALSE
<1>a. PICK n \in Nat : \E L \in Lists(n) : ReadyAs(q, S, pol, pri, n, L)
  BY DEF Ready
<1>b. PICK L \in Lists(n) : ReadyAs(q, S, pol, pri, n, L)
  BY <1>a
<1>1. /\ Chained(q, n, L) /\ Holds(n, L) = S
      /\ Sortable => Sorted(n, L, pol, pri)
  BY <1>b DEF ReadyAs
<1>0. \A i \in 1..n : L[i] \in Procs
  BY DEF Lists
<1> DEFINE met == {Nodes(q.next, q.head)[k] : k \in 0..NPROC}
<1>2. ASSUME NEW i \in 1..n PROVE L[i] \in met
  <2>1. n <= NPROC /\ 1 \in 1..n /\ q.head = L[1]
    BY <1>1, ListFits DEF Chained
  <2>2. Nodes(q.next, q.head) = [k \in 0..NPROC |-> IF 1 + k <= n THEN L[1 + k] ELSE None]
    BY <1>1, <2>1, NodesOfList
  <2>3. i - 1 \in 0..NPROC /\ 1 + (i - 1) = i /\ 1 + (i - 1) <= n
    BY <2>1, SlotsAre
  <2>4. Nodes(q.next, q.head)[i - 1] = L[i]
    BY <2>2, <2>3
  <2> QED  BY <2>3, <2>4
<1>3. /\ head' = q.head /\ halted' = q.spins
      /\ next' = [p \in Procs |-> IF p \in met THEN q.next[p] ELSE None]
  BY DEF SetQueue
<1> HIDE DEF met
<1>4. /\ q \in Queues /\ q.spins = FALSE
      /\ q.head \in Procs \cup {None} /\ q.next \in [Procs -> Procs \cup {None}]
  BY <1>1 DEF Chained, Queues
<1>5. /\ TheQueue' = [head |-> head', next |-> next', spins |-> FALSE]
      /\ TheQueue'.next = next' /\ TheQueue'.head = head' /\ TheQueue'.spins = FALSE
  BY DEF TheQueue
<1>6. TheQueue' \in Queues
  BY <1>3, <1>4, <1>5 DEF Queues
<1>7. \A i \in 1..n : next'[L[i]] = q.next[L[i]]
  BY <1>0, <1>2, <1>3
<1>8. Chained(TheQueue', n, L)
  BY <1>1, <1>3, <1>5, <1>6, <1>7 DEF Chained
<1>9. Ready(TheQueue', S, pol, pri)
  BY <1>1, <1>8 DEF Ready, ReadyAs
<1> QED  BY <1>3, <1>4, <1>9

LEMMA SetType ==
  ASSUME NEW q \in Queues, SetQueue(q)
  PROVE  /\ head' \in Procs \cup {None} /\ next' \in [Procs -> Procs \cup {None}]
         /\ halted' \in BOOLEAN
BY DEF Queues, SetQueue

\* A queue that is a list of the runnable processes is what QueueExact says.
LEMMA ReadyLinked ==
  ASSUME NEW pol, NEW pri, Ready(TheQueue, Runnable, pol, pri) PROVE Linked
<1>a. PICK n \in Nat : \E L \in Lists(n) : ReadyAs(TheQueue, Runnable, pol, pri, n, L)
  BY DEF Ready
<1>b. PICK L \in Lists(n) : ReadyAs(TheQueue, Runnable, pol, pri, n, L)
  BY <1>a
<1>1. /\ Chained(TheQueue, n, L) /\ Holds(n, L) = Runnable /\ n <= NPROC
      /\ TheQueue.next = next /\ TheQueue.head = head
  BY <1>b, ListFits DEF ReadyAs, TheQueue
<1> DEFINE at == Nodes(next, head)
<1>2. at = [k \in 0..NPROC |-> IF 1 + k <= n THEN L[1 + k] ELSE None]
  <2>1. CASE n = 0
    <3>1. head = None /\ \A k \in 0..NPROC : ~(1 + k <= n)
      BY <1>1, <2>1 DEF Chained
    <3>2. at = [k \in 0..NPROC |-> None]
      BY <3>1, NodesOfNone
    <3> QED  BY <3>1, <3>2
  <2>2. CASE n # 0
    <3>1. head = L[1] /\ 1 \in 1..n
      BY <1>1, <2>2 DEF Chained
    <3>2. Nodes(TheQueue.next, L[1]) = [k \in 0..NPROC |-> IF 1 + k <= n THEN L[1 + k] ELSE None]
      BY <1>1, <3>1, NodesOfList
    <3> QED  BY <1>1, <3>1, <3>2
  <2> QED  BY <2>1, <2>2
<1> HIDE DEF at
<1>3. at[NPROC] = None /\ NPROC \in 0..NPROC
  BY <1>1, <1>2, SlotsAre
<1>4. ASSUME NEW k \in 0..NPROC PROVE at[k] \in Runnable \cup {None}
  <2>1. CASE 1 + k <= n
    <3>1. at[k] = L[1 + k] /\ 1 + k \in 1..n
      BY <1>2, <2>1
    <3> QED  BY <1>1, <3>1 DEF Holds
  <2>2. CASE ~(1 + k <= n)
    BY <1>2, <2>2
  <2> QED  BY <2>1, <2>2
<1>5. ASSUME NEW p \in Runnable PROVE \E k \in 0..NPROC : at[k] = p
  <2>1. PICK i \in 1..n : L[i] = p
    BY <1>1 DEF Holds
  <2>2. i - 1 \in 0..NPROC /\ 1 + (i - 1) = i /\ 1 + (i - 1) <= n
    BY <1>1, SlotsAre
  <2> QED  BY <1>2, <2>1, <2>2
<1>6. {at[k] : k \in 0..NPROC} = Runnable \cup {None}
  BY <1>3, <1>4, <1>5
<1> QED  BY <1>3, <1>6 DEF Linked, at

-----------------------------------------------------------------------------
\* What a process in use asked for, and the ranges of the rest.
Settings ==
  /\ policy \in [Procs -> {0, SCHED_RR, SCHED_FIFO}]
  /\ priority \in [Procs -> {a[2] : a \in Asks} \cup {0}]
  /\ \A p \in Procs : st[p] # "UNUSED" => <<policy[p], priority[p]>> \in Kinds
Ranges ==
  /\ killed \in [Procs -> BOOLEAN]
  /\ next \in [Procs -> Procs \cup {None}] /\ head \in Procs \cup {None}
  /\ halted \in BOOLEAN /\ upsets \in 0..MaxUpsets

\* The list of the runnable processes, in order if the programs allow it.
QueueInv == upsets = 0 /\ ~halted => Ready(TheQueue, Runnable, policy, priority)

SchedInv == RunInv /\ WaitInv /\ Settings /\ Ranges /\ QueueInv

LEMMA SettingsInit == Init => Settings /\ Ranges
<1> SUFFICES ASSUME Init PROVE Settings /\ Ranges
  OBVIOUS
<1>1. policy \in [Procs -> {0, SCHED_RR, SCHED_FIFO}] /\ priority \in [Procs -> {a[2] : a \in Asks} \cup {0}]
  BY DEF Init
<1>2. \A p \in Procs : st[p] # "UNUSED" => <<policy[p], priority[p]>> \in Kinds
  BY DEF Init, Kinds
<1>3. killed \in [Procs -> BOOLEAN] /\ halted \in BOOLEAN
  BY DEF Init
<1>4. next \in [Procs -> Procs \cup {None}] /\ head \in Procs \cup {None}
  BY SlotsAre DEF Init
<1>5. upsets \in 0..MaxUpsets
  BY SchedAssumption DEF Init
<1> QED  BY <1>1, <1>2, <1>3, <1>4, <1>5 DEF Settings, Ranges

LEMMA QueueInit == Init => QueueInv
<1> SUFFICES ASSUME Init PROVE Ready(TheQueue, Runnable, policy, priority)
  BY DEF QueueInv
<1> DEFINE L == [i \in 1..1 |-> initproc]
<1>0. initproc \in Procs /\ 1..1 = {1} /\ 1 \in Nat /\ 1 # 0
  BY SlotsAre
<1>1. L \in Lists(1) /\ L[1] = initproc
  BY <1>0 DEF Lists
<1>2. Chained(TheQueue, 1, L)
  <2>1. TheQueue.head = initproc /\ TheQueue.next = next /\ TheQueue.spins = FALSE
    BY DEF Init, TheQueue
  <2>2. TheQueue \in Queues
    BY <1>0, SlotsAre DEF Init, TheQueue, Queues
  <2>3. next[initproc] = None
    BY <1>0 DEF Init
  <2> HIDE DEF L
  <2> QED  BY <1>0, <1>1, <2>1, <2>2, <2>3 DEF Chained
<1>3. Holds(1, L) = Runnable
  <2>1. Holds(1, L) = {initproc}
    BY <1>0, <1>1 DEF Holds
  <2>2. Runnable = {initproc}
    BY <1>0 DEF Init, Runnable
  <2> QED  BY <2>1, <2>2
<1>4. Sorted(1, L, policy, priority)
  BY <1>0 DEF Sorted
<1> HIDE DEF L
<1>5. ReadyAs(TheQueue, Runnable, policy, priority, 1, L)
  BY <1>2, <1>3, <1>4 DEF ReadyAs
<1> QED  BY <1>0, <1>1, <1>5 DEF Ready

-----------------------------------------------------------------------------
(* Types.                                                                   *)

LEMMA QueueType == ASSUME Ranges PROVE TheQueue \in Queues
BY DEF Ranges, TheQueue, Queues

\* Nothing but setscheduler and allocproc changes what a process asked for.
LEMMA SettingsSame ==
  ASSUME Settings, UNCHANGED <<policy, priority>>,
         \A p \in Procs : st'[p] # "UNUSED" => st[p] # "UNUSED"
  PROVE  Settings'
BY DEF Settings

LEMMA SettingsSets ==
  ASSUME Settings, NEW k \in Procs, NEW a \in Kinds,
         policy' = [policy EXCEPT ![k] = a[1]], priority' = [priority EXCEPT ![k] = a[2]],
         \A p \in Procs \ {k} : st'[p] # "UNUSED" => st[p] # "UNUSED"
  PROVE  Settings'
<1>1. a[1] \in {0, SCHED_RR, SCHED_FIFO} /\ a[2] \in {b[2] : b \in Asks} \cup {0}
  BY SchedAssumption DEF Kinds, SCHED_RR, SCHED_FIFO
<1>2. <<a[1], a[2]>> = a
  BY SchedAssumption DEF Kinds
<1> QED  BY <1>1, <1>2 DEF Settings

LEMMA SettingsNext == RunInv /\ Settings /\ [Next]_vars => Settings'
<1> SUFFICES ASSUME RunInv, Settings, [Next]_vars PROVE Settings'
  OBVIOUS
<1>1. CASE UNCHANGED vars
  BY <1>1, SettingsSame DEF vars, proc
<1>2. CASE Wakeup
  BY <1>2, SettingsSame DEF Wakeup, RunInv, Typed
<1>3. ASSUME NEW c \in CPUs, NEW k \in Procs, Kill(c, k) PROVE Settings'
  BY <1>3, SettingsSame DEF Kill, RunInv, Typed
<1>4. ASSUME NEW c \in CPUs, Drop(c) \/ InitExits(c) \/ Preempt(c) \/ SetOther(c) \/ CloneFails(c)
      PROVE Settings'
  BY <1>4, SettingsSame DEF Drop, InitExits, Preempt, SetOther, CloneFails, proc
<1>5. ASSUME NEW c \in CPUs, Run(c) \/ Yield(c) \/ Sleep(c) PROVE Settings'
  <2>1. PICK p \in Procs : st[p] \in {"RUNNABLE", "RUNNING"} /\ \E s : st' = [st EXCEPT ![p] = s]
    <3>1. CASE Run(c)
      BY <3>1 DEF Run, Idle, MayRun
    <3>2. CASE Yield(c)
      BY <3>2 DEF Yield, RunInv, Typed, OnCpu
    <3>3. CASE Sleep(c)
      BY <3>3 DEF Sleep, On, RunInv, Typed, OnCpu
    <3> QED  BY <1>5, <3>1, <3>2, <3>3
  <2>2. UNCHANGED <<policy, priority>>
    BY <1>5 DEF Run, Yield, Sleep
  <2>3. \A k \in Procs : st'[k] # "UNUSED" => st[k] # "UNUSED"
    BY <2>1 DEF RunInv, Typed
  <2> QED  BY <2>2, <2>3, SettingsSame
<1>6. ASSUME NEW c \in CPUs, Resume(c) \/ Wait(c) PROVE Settings'
  <2>1. PICK p \in Procs : /\ st[p] \in {"RUNNABLE", "RUNNING"}
                           /\ ScanReap(p) \/ ScanFails(p) \/ ScanSleeps(p)
    BY <1>6 DEF Resume, Wait, Idle, MayRun, Syscall, On, RunInv, Typed, OnCpu
  <2>2. \A k \in Procs : st'[k] # "UNUSED" => st[k] # "UNUSED"
    BY <2>1 DEF ScanReap, ScanFails, ScanSleeps, RunInv, Typed
  <2>3. UNCHANGED <<policy, priority>>
    BY <2>1 DEF ScanReap, ScanFails, ScanSleeps
  <2> QED  BY <2>2, <2>3, SettingsSame
<1>7. ASSUME NEW c \in CPUs, Start(c) \/ ForkFails(c) PROVE Settings'
  <2>1. arg[cpu[c]] \in Procs /\ st[arg[cpu[c]]] = "EMBRYO"
    BY <1>7 DEF Start, ForkFails, On, RunInv, Typed, Embryos
  <2>2. \A k \in Procs : st'[k] # "UNUSED" => st[k] # "UNUSED"
    BY <1>7, <2>1 DEF Start, ForkFails, RunInv, Typed
  <2>3. UNCHANGED <<policy, priority>>
    BY <1>7 DEF Start, ForkFails
  <2> QED  BY <2>2, <2>3, SettingsSame
<1>8. ASSUME NEW c \in CPUs, Exit(c) PROVE Settings'
  <2>1. cpu[c] \in Procs /\ st[cpu[c]] = "RUNNING"
    BY <1>8 DEF Exit, On, RunInv, Typed, OnCpu
  <2>2. st' = [k \in Procs |-> IF k = cpu[c] THEN "ZOMBIE"
                               ELSE IF k \in Woken(cpu[c]) THEN "RUNNABLE" ELSE st[k]]
    BY <1>8 DEF Exit
  <2>3. \A k \in Procs : st'[k] # "UNUSED" => st[k] # "UNUSED"
    BY <2>1, <2>2 DEF Woken, Waiting
  <2>4. UNCHANGED <<policy, priority>>
    BY <1>8 DEF Exit
  <2> QED  BY <2>3, <2>4, SettingsSame
<1>9. ASSUME NEW c \in CPUs, Alloc(c) PROVE Settings'
  <2>1. PICK k \in Procs : /\ st' = [st EXCEPT ![k] = "EMBRYO"]
                           /\ policy' = [policy EXCEPT ![k] = SCHED_RR]
                           /\ priority' = [priority EXCEPT ![k] = 0]
    BY <1>9 DEF Alloc
  <2>2. <<SCHED_RR, 0>> \in Kinds /\ <<SCHED_RR, 0>>[1] = SCHED_RR /\ <<SCHED_RR, 0>>[2] = 0
    BY DEF Kinds
  <2>3. \A p \in Procs \ {k} : st'[p] # "UNUSED" => st[p] # "UNUSED"
    BY <2>1 DEF RunInv, Typed
  <2> QED  BY <2>1, <2>2, <2>3, SettingsSets
<1>10. ASSUME NEW c \in CPUs, NEW a \in Asks, SetSelf(c, a[1], a[2]) PROVE Settings'
  <2>1. cpu[c] \in Procs /\ a \in Kinds
    BY <1>10 DEF SetSelf, Syscall, On, RunInv, Typed, Kinds
  <2> QED  BY <1>10, <2>1, SettingsSets DEF SetSelf
<1>11. ASSUME NEW c \in CPUs, NEW a \in Asks, NEW k \in Procs, SetChild(c, k, a[1], a[2])
       PROVE Settings'
  <2>1. a \in Kinds
    BY DEF Kinds
  <2> QED  BY <1>11, <2>1, SettingsSets DEF SetChild
<1> QED  BY <1>1, <1>2, <1>3, <1>4, <1>5, <1>6, <1>7, <1>8, <1>9, <1>10, <1>11
            DEF Next, Setscheduler

LEMMA RangesNext == RunInv /\ Ranges /\ [Next]_vars => Ranges'
<1> SUFFICES ASSUME RunInv, Ranges, [Next]_vars PROVE Ranges'
  OBVIOUS
<1> DEFINE Kd == killed' \in [Procs -> BOOLEAN]
           Qd == /\ next' \in [Procs -> Procs \cup {None}] /\ head' \in Procs \cup {None}
                 /\ halted' \in BOOLEAN
           Ud == upsets' \in 0..MaxUpsets
<1>k. UNCHANGED killed => Kd
  BY DEF Ranges
<1>q. UNCHANGED <<queue, halted>> => Qd
  BY DEF Ranges, queue
<1>u. UNCHANGED upsets => Ud
  BY DEF Ranges
<1>s. ASSUME NEW q \in Queues, SetQueue(q) PROVE Qd
  BY <1>s, SetType
<1>b. ASSUME NEW b \in BOOLEAN, Upset(b) PROVE Ud
  BY <1>b, SchedAssumption DEF Ranges, Upset
<1>t. head \in Procs => [TheQueue EXCEPT !.head = next[head]] \in Queues
  BY DEF Ranges, TheQueue, Queues
<1>0. ASSUME Kd, Qd, Ud PROVE Ranges'
  BY <1>0 DEF Ranges
<1> HIDE DEF Kd, Qd, Ud
<1>p. ASSUME head \in Procs, Pop PROVE Qd /\ Ud
  BY <1>p, <1>t, <1>s, <1>u DEF Pop
<1>1. CASE UNCHANGED vars
  BY <1>1, <1>0, <1>k, <1>q, <1>u DEF vars, proc
<1>2. CASE Wakeup
  BY <1>2, <1>0, <1>k, <1>s, <1>u, QueueType, PushAllType DEF Wakeup
<1>3. ASSUME NEW c \in CPUs, NEW k \in Procs, Kill(c, k) PROVE Ranges'
  <2>1. killed' = [killed EXCEPT ![k] = TRUE] /\ Upset(st[k] = "SLEEPING")
         /\ UNCHANGED <<queue, halted>>
    BY <1>3 DEF Kill
  <2>2. Kd
    BY <2>1 DEF Ranges, Kd
  <2> QED  BY <2>1, <2>2, <1>0, <1>q, <1>b
<1>4. ASSUME NEW c \in CPUs, Drop(c) \/ Run(c) PROVE Ranges'
  <2>1. head \in Procs /\ Pop /\ UNCHANGED killed
    BY <1>4 DEF Drop, Run, Idle, proc
  <2> QED  BY <2>1, <1>0, <1>k, <1>p
<1>5. ASSUME NEW c \in CPUs, Resume(c) \/ Wait(c) PROVE Ranges'
  <2>1. \E p : ScanReap(p) \/ ScanFails(p) \/ ScanSleeps(p)
    BY <1>5 DEF Resume, Wait
  <2>2. Kd
    BY <2>1, <1>k DEF ScanReap, ScanFails, ScanSleeps, Ranges, Kd
  <2>3. CASE Resume(c)
    BY <2>2, <2>3, <1>0, <1>p DEF Resume, Idle
  <2>4. CASE Wait(c)
    BY <2>2, <2>4, <1>0, <1>q, <1>u DEF Wait
  <2> QED  BY <1>5, <2>3, <2>4
<1>6. ASSUME NEW c \in CPUs, Alloc(c) PROVE Ranges'
  <2>1. Qd
    BY <1>6, SlotsAre DEF Alloc, Ranges, Qd
  <2> QED  BY <1>6, <2>1, <1>0, <1>k, <1>u DEF Alloc
<1>7. ASSUME NEW c \in CPUs, Start(c) \/ Yield(c) PROVE Ranges'
  <2>1. PICK k \in Procs : SetQueue(Push(TheQueue, k, policy, priority))
    BY <1>7 DEF Start, Yield, On, RunInv, Typed, Embryos
  <2> QED  BY <1>7, <2>1, <1>0, <1>k, <1>s, <1>u, QueueType, PushType DEF Start, Yield
<1>8. ASSUME NEW c \in CPUs, Exit(c) PROVE Ranges'
  <2>1. \E a, b : SetQueue(PushAll(PushAll(TheQueue, a), b))
    BY <1>8 DEF Exit
  <2> QED  BY <1>8, <2>1, <1>0, <1>k, <1>s, <1>u, QueueType, PushAllType DEF Exit
<1>9. ASSUME NEW c \in CPUs, InitExits(c) \/ SetOther(c) PROVE Ranges'
  <2>1. Qd
    BY <1>9 DEF InitExits, SetOther, Ranges, Qd, queue
  <2> QED  BY <1>9, <2>1, <1>0, <1>k, <1>u DEF InitExits, SetOther, proc
<1>10. ASSUME NEW c \in CPUs, NEW a \in Asks, NEW k \in Procs, SetChild(c, k, a[1], a[2])
       PROVE Ranges'
  <2> DEFINE r == Remove(TheQueue, k)
             q == IF r.spins THEN r ELSE Push(r, k, policy', priority')
  <2>1. r \in Queues
    BY QueueType, RemoveType
  <2>2. q \in Queues
    <3> HIDE DEF r
    <3> QED  BY <2>1, PushType
  <2>3. SetQueue(q) /\ Upset(st[k] # "RUNNABLE") /\ UNCHANGED killed
    BY <1>10 DEF SetChild
  <2> HIDE DEF q
  <2> QED  BY <2>2, <2>3, <1>0, <1>k, <1>s, <1>b
<1>11. ASSUME NEW c \in CPUs, ForkFails(c) \/ CloneFails(c) \/ Sleep(c) \/ Preempt(c)
       PROVE Ranges'
  BY <1>11, <1>0, <1>k, <1>q, <1>u DEF ForkFails, CloneFails, Sleep, Preempt
<1>12. ASSUME NEW c \in CPUs, NEW a \in Asks, SetSelf(c, a[1], a[2]) PROVE Ranges'
  BY <1>12, <1>0, <1>k, <1>q, <1>u DEF SetSelf
<1> QED  BY <1>1, <1>2, <1>3, <1>4, <1>5, <1>6, <1>7, <1>8, <1>9, <1>10, <1>11, <1>12
            DEF Next, Setscheduler

-----------------------------------------------------------------------------
(* The list.                                                                *)

\* What a queue is depends on its head, and on the links and the settings of
\* the processes on it.
LEMMA ReadySame ==
  ASSUME NEW q, NEW S, NEW pol, NEW pri, Ready(q, S, pol, pri),
         NEW r \in Queues, ~r.spins, r.head = q.head, NEW pol2, NEW pri2,
         \A p \in S : r.next[p] = q.next[p] /\ pol2[p] = pol[p] /\ pri2[p] = pri[p]
  PROVE  Ready(r, S, pol2, pri2)
<1>a. PICK n \in Nat : \E L \in Lists(n) : ReadyAs(q, S, pol, pri, n, L)
  BY DEF Ready
<1>b. PICK L \in Lists(n) : ReadyAs(q, S, pol, pri, n, L)
  BY <1>a
<1>1. /\ Chained(q, n, L) /\ Holds(n, L) = S
      /\ Sortable => Sorted(n, L, pol, pri)
  BY <1>b DEF ReadyAs
<1>2. \A i \in 1..n : /\ r.next[L[i]] = q.next[L[i]] /\ pol2[L[i]] = pol[L[i]]
                      /\ pri2[L[i]] = pri[L[i]]
  BY <1>1 DEF Holds
<1>3. Chained(r, n, L)
  BY <1>1, <1>2 DEF Chained
<1>4. Sortable => Sorted(n, L, pol2, pri2)
  BY <1>1, <1>2 DEF Sorted, Ahead
<1> QED  BY <1>1, <1>3, <1>4 DEF Ready, ReadyAs

\* The processes that are not UNUSED asked for something.
LEMMA InUse ==
  ASSUME Settings, NEW S \in SUBSET Procs, \A p \in S : st[p] # "UNUSED"
  PROVE  KindsIn(S, policy, priority)
BY DEF Settings, KindsIn

\* A step that leaves the queue and the runnable processes alone.
LEMMA QueueSame ==
  ASSUME QueueInv, Ranges', upsets' = 0 => upsets = 0, ~halted' => ~halted,
         head' = head, Runnable' = Runnable,
         \A p \in Runnable : /\ next'[p] = next[p] /\ policy'[p] = policy[p]
                             /\ priority'[p] = priority[p]
  PROVE  QueueInv'
<1> SUFFICES ASSUME upsets' = 0, ~halted'
             PROVE Ready(TheQueue', Runnable', policy', priority')
  BY DEF QueueInv
<1>1. Ready(TheQueue, Runnable, policy, priority)
  BY DEF QueueInv
<1>2. /\ TheQueue'.head = head' /\ TheQueue'.next = next' /\ TheQueue'.spins = FALSE
      /\ TheQueue.head = head /\ TheQueue.next = next
  BY DEF TheQueue
<1>3. TheQueue' \in Queues
  BY DEF Ranges, TheQueue, Queues
<1>4. Ready(TheQueue', Runnable, policy', priority')
  BY <1>1, <1>2, <1>3, ReadySame
<1> QED  BY <1>4

\* A step that sets the queue to a list of what is runnable after it.
LEMMA QueueSet ==
  ASSUME NEW q, SetQueue(q),
         upsets' = 0 => Ready(q, Runnable', policy', priority')
  PROVE  QueueInv'
<1> SUFFICES ASSUME upsets' = 0 PROVE Ready(TheQueue', Runnable', policy', priority')
  BY DEF QueueInv
<1>1. Ready(q, Runnable', policy', priority')
  OBVIOUS
<1> HIDE DEF QueueInv
<1>2. ASSUME NEW S, NEW pol, NEW pri, Ready(q, S, pol, pri)
      PROVE  Ready(TheQueue', S, pol, pri)
  BY <1>2, SetReady
<1> QED  BY <1>1, <1>2

\* wakeup and exit: the sleepers that are pushed become runnable.
LEMMA QueueWakes ==
  ASSUME RunInv, Settings, QueueInv, upsets = 0, ~halted,
         Wakeup \/ \E c \in CPUs : Exit(c)
  PROVE  QueueInv'
<1>r. Ready(TheQueue, Runnable, policy, priority)
  BY DEF QueueInv
<1>1. CASE Wakeup
  <2> DEFINE woken == {p \in Procs : st[p] = "SLEEPING" /\ chan[p] = "device"}
  <2>1. /\ st' = [p \in Procs |-> IF p \in woken THEN "RUNNABLE" ELSE st[p]]
        /\ SetQueue(PushAll(TheQueue, woken)) /\ UNCHANGED <<policy, priority>>
    BY <1>1 DEF Wakeup
  <2>2. /\ woken \in SUBSET Procs /\ woken \cap Runnable = {}
        /\ \A p \in Runnable \cup woken : p \in Procs /\ st[p] # "UNUSED"
        /\ Runnable' = Runnable \cup woken
    BY <2>1 DEF Runnable
  <2> HIDE DEF woken
  <2>3. KindsIn(Runnable \cup woken, policy, priority)
    BY <2>2, InUse
  <2>4. Ready(PushAll(TheQueue, woken), Runnable \cup woken, policy, priority)
    BY <1>r, <2>2, <2>3, PushAllReady
  <2> QED  BY <2>1, <2>2, <2>4, QueueSet
<1>2. ASSUME NEW c \in CPUs, Exit(c) PROVE QueueInv'
  <2> DEFINE p == cpu[c]
             woken == Woken(p)
             first == woken \cap {parent[p]}
             rest == woken \ first
  <2>1. p \in Procs /\ st[p] = "RUNNING"
    BY <1>2 DEF Exit, On, RunInv, Typed, OnCpu
  <2>2. /\ st' = [k \in Procs |-> IF k = p THEN "ZOMBIE"
                                  ELSE IF k \in woken THEN "RUNNABLE" ELSE st[k]]
        /\ SetQueue(PushAll(PushAll(TheQueue, first), rest)) /\ UNCHANGED <<policy, priority>>
    BY <1>2 DEF Exit
  <2>3. \A k \in woken : k \in Procs /\ st[k] = "SLEEPING"
    BY DEF Woken, Waiting
  <2>4. /\ first \in SUBSET Procs /\ rest \in SUBSET Procs
        /\ first \cap Runnable = {} /\ rest \cap (Runnable \cup first) = {}
        /\ \A k \in Runnable \cup woken : k \in Procs /\ st[k] # "UNUSED"
        /\ (Runnable \cup first) \cup rest = Runnable \cup woken
        /\ Runnable \cup first \subseteq Runnable \cup woken
    BY <2>3 DEF Runnable
  <2>5. Runnable' = Runnable \cup woken
    BY <2>1, <2>2, <2>3 DEF Runnable
  <2> HIDE DEF first, rest, woken
  <2>6. KindsIn(Runnable \cup woken, policy, priority)
    BY <2>4, InUse
  <2>7. KindsIn(Runnable \cup first, policy, priority)
    BY <2>4, <2>6 DEF KindsIn
  <2>8. Ready(PushAll(TheQueue, first), Runnable \cup first, policy, priority)
    BY <1>r, <2>4, <2>7, PushAllReady
  <2>9. Ready(PushAll(PushAll(TheQueue, first), rest), Runnable \cup woken, policy, priority)
    BY <2>4, <2>6, <2>8, PushAllReady
  <2> QED  BY <2>2, <2>5, <2>9, QueueSet
<1> QED  BY <1>1, <1>2

\* A push of a process that becomes runnable by it.
LEMMA QueuePush ==
  ASSUME RunInv, Settings, QueueInv, upsets = 0, ~halted,
         NEW k \in Procs, st[k] \in {"EMBRYO", "RUNNING"}, st' = [st EXCEPT ![k] = "RUNNABLE"],
         SetQueue(Push(TheQueue, k, policy, priority)), UNCHANGED <<policy, priority>>
  PROVE  QueueInv'
<1>1. k \in Procs \ Runnable /\ Runnable' = Runnable \cup {k}
  BY DEF Runnable, RunInv, Typed
<1>2. KindsIn(Runnable \cup {k}, policy, priority)
  BY InUse DEF Runnable
<1>3. Ready(TheQueue, Runnable, policy, priority)
  BY DEF QueueInv
<1>4. Ready(Push(TheQueue, k, policy, priority), Runnable \cup {k}, policy, priority)
  BY <1>1, <1>2, <1>3, PushReady
<1> QED  BY <1>1, <1>4, QueueSet

\* setscheduler of a runnable child: off the list and on it again.
LEMMA QueueChild ==
  ASSUME RunInv, Settings, Settings', QueueInv, upsets = 0, ~halted,
         NEW c \in CPUs, NEW k \in Procs, NEW pol, NEW pri, SetChild(c, k, pol, pri)
  PROVE  QueueInv'
<1> DEFINE r == Remove(TheQueue, k)
           q == IF r.spins THEN r ELSE Push(r, k, policy', priority')
<1>1. /\ SetQueue(q) /\ Upset(st[k] # "RUNNABLE") /\ UNCHANGED st
      /\ policy' = [policy EXCEPT ![k] = pol] /\ priority' = [priority EXCEPT ![k] = pri]
  BY DEF SetChild
<1>2. SUFFICES ASSUME upsets' = 0 PROVE Ready(q, Runnable', policy', priority')
  <2> HIDE DEF q
  <2> QED  BY <1>1, QueueSet
<1>3. k \in Runnable /\ Runnable' = Runnable
  BY <1>1, <1>2 DEF Runnable, Upset
<1>4. Ready(TheQueue, Runnable, policy, priority)
  BY DEF QueueInv
<1>5. Ready(r, Runnable \ {k}, policy, priority) /\ ~r.spins
  BY <1>3, <1>4, RemoveReady
<1> HIDE DEF r
<1>6. r \in Queues
  BY <1>5 DEF Ready, ReadyAs, Chained
<1>7. \A p \in Runnable \ {k} : policy'[p] = policy[p] /\ priority'[p] = priority[p]
  BY <1>1 DEF Settings, Runnable
<1>8. ASSUME NEW pol2, NEW pri2,
             \A p \in Runnable \ {k} : pol2[p] = policy[p] /\ pri2[p] = priority[p]
      PROVE  Ready(r, Runnable \ {k}, pol2, pri2)
  BY <1>5, <1>6, <1>8, ReadySame
<1>9. Ready(r, Runnable \ {k}, policy', priority')
  BY <1>7, <1>8
<1>10. KindsIn((Runnable \ {k}) \cup {k}, policy', priority')
  BY <1>1, <1>3 DEF Settings, KindsIn, Runnable
<1>11. ASSUME NEW pol2, NEW pri2, Ready(r, Runnable \ {k}, pol2, pri2),
              KindsIn((Runnable \ {k}) \cup {k}, pol2, pri2)
       PROVE  Ready(Push(r, k, pol2, pri2), Runnable, pol2, pri2)
  <2>1. (Runnable \ {k}) \cup {k} = Runnable /\ k \in Procs \ (Runnable \ {k})
    BY <1>3
  <2>2. Ready(Push(r, k, pol2, pri2), (Runnable \ {k}) \cup {k}, pol2, pri2)
    BY <1>11, <2>1, PushReady
  <2> QED  BY <2>1, <2>2
<1>12. Ready(Push(r, k, policy', priority'), Runnable, policy', priority')
  BY <1>9, <1>10, <1>11
<1> QED  BY <1>3, <1>5, <1>12

\* The scheduler takes the head off.
LEMMA QueuePop ==
  ASSUME RunInv, QueueInv, upsets = 0, ~halted, head \in Procs, Pop,
         UNCHANGED <<policy, priority>>, Runnable' = Runnable \ {head}
  PROVE  QueueInv'
<1> DEFINE q == [TheQueue EXCEPT !.head = next[head]]
<1>1. Ready(TheQueue, Runnable, policy, priority)
  BY DEF QueueInv
<1>2. TheQueue.head = head /\ TheQueue.next = next
  BY DEF TheQueue
<1>3. Ready(q, Runnable \ {head}, policy, priority)
  BY <1>1, <1>2, PopReady
<1>4. SetQueue(q)
  BY DEF Pop
<1> HIDE DEF q
<1> QED  BY <1>3, <1>4, QueueSet

\* The head is runnable.
LEMMA HeadRuns ==
  ASSUME QueueInv, upsets = 0, ~halted, head \in Procs PROVE head \in Runnable
<1>1. Ready(TheQueue, Runnable, policy, priority) /\ TheQueue.head = head
  BY DEF QueueInv, TheQueue
<1> QED  BY <1>1, PopReady

\* wait's scan makes nobody runnable, and its caller not.
LEMMA ScanRunnable ==
  ASSUME RunInv, NEW p \in Procs, st[p] \in {"RUNNABLE", "RUNNING"},
         ScanReap(p) \/ ScanFails(p) \/ ScanSleeps(p)
  PROVE  Runnable' = Runnable \ {p} /\ UNCHANGED <<policy, priority>>
<1>1. CASE ScanReap(p)
  <2>1. PICK k \in Procs : /\ st[k] = "ZOMBIE"
                           /\ st' = [st EXCEPT ![k] = "UNUSED", ![p] = "RUNNING"]
    BY <1>1 DEF ScanReap, First, Zombies
  <2> QED  BY <1>1, <2>1 DEF ScanReap, Runnable, RunInv, Typed
<1>2. CASE ScanFails(p) \/ ScanSleeps(p)
  <2>1. st' \in {[st EXCEPT ![p] = "RUNNING"], [st EXCEPT ![p] = "SLEEPING"]}
    BY <1>2 DEF ScanFails, ScanSleeps
  <2> QED  BY <1>2, <2>1 DEF ScanFails, ScanSleeps, Runnable, RunInv, Typed
<1> QED  BY <1>1, <1>2

LEMMA QueueNext ==
  ASSUME RunInv, Settings, Settings', Ranges, Ranges', QueueInv, [Next]_vars
  PROVE  QueueInv'
<1>a. SUFFICES ASSUME upsets' = 0, ~halted' PROVE QueueInv'
  BY DEF QueueInv
<1>1. CASE UNCHANGED vars
  BY <1>1, QueueSame DEF vars, proc, queue, Runnable
<1>2. CASE Next
  <2>u. upsets = 0 /\ ~halted
    <3>1. ASSUME NEW b \in BOOLEAN, Upset(b) PROVE upsets = 0
      BY <3>1, <1>a DEF Upset, Ranges
    <3>2. upsets = 0
      BY <1>2, <1>a, <3>1 DEF Next, Wakeup, Drop, Run, Resume, Pop, Wait, Alloc, Start, ForkFails,
         CloneFails, Yield, Sleep, Exit, InitExits, Setscheduler, SetSelf, SetChild, SetOther,
         Preempt, Kill
    <3>3. ~halted
      BY <1>2 DEF Next, Wakeup, Drop, Run, Resume, Idle, Wait, Alloc, Start, ForkFails,
         CloneFails, Yield, Sleep, Exit, InitExits, Setscheduler, SetSelf, SetChild, SetOther,
         Preempt, Kill, Syscall, On
    <3> QED  BY <3>2, <3>3
  <2>s. ASSUME UNCHANGED <<queue, policy, priority>>, Runnable' = Runnable PROVE QueueInv'
    BY <2>s, <2>u, QueueSame DEF queue
  <2>1. CASE Wakeup
    BY <2>1, <2>u, QueueWakes
  <2>2. ASSUME NEW c \in CPUs, Exit(c) PROVE QueueInv'
    BY <2>2, <2>u, QueueWakes
  <2>3. ASSUME NEW c \in CPUs, NEW k \in Procs, Kill(c, k) PROVE QueueInv'
    <3>1. st[k] # "SLEEPING" /\ UNCHANGED <<queue, policy, priority>>
      BY <2>3, <1>a, <2>u DEF Kill, Upset
    <3>2. st' = [st EXCEPT ![k] = IF @ = "SLEEPING" THEN "RUNNABLE" ELSE @]
      BY <2>3 DEF Kill
    <3>3. Runnable' = Runnable
      BY <3>1, <3>2 DEF Runnable, RunInv, Typed
    <3> QED  BY <3>1, <3>3, <2>s
  <2>4. ASSUME NEW c \in CPUs, Drop(c) PROVE QueueInv'
    <3>1. head \in Procs /\ st[head] # "RUNNABLE"
      BY <2>4 DEF Drop, Idle
    <3>2. head \in Runnable
      BY <3>1, <2>u, HeadRuns
    <3> QED  BY <3>1, <3>2 DEF Runnable
  <2>5. ASSUME NEW c \in CPUs, Run(c) PROVE QueueInv'
    <3>1. head \in Procs /\ Pop /\ UNCHANGED <<policy, priority>> /\ st' = [st EXCEPT ![head] = "RUNNING"]
      BY <2>5 DEF Run, Idle
    <3>2. Runnable' = Runnable \ {head}
      BY <3>1 DEF Runnable, RunInv, Typed
    <3> QED  BY <3>1, <3>2, <2>u, QueuePop
  <2>6. ASSUME NEW c \in CPUs, Resume(c) PROVE QueueInv'
    <3>1. head \in Procs /\ Pop /\ st[head] = "RUNNABLE"
          /\ (ScanReap(head) \/ ScanFails(head) \/ ScanSleeps(head))
      BY <2>6 DEF Resume, Idle, MayRun
    <3>2. Runnable' = Runnable \ {head} /\ UNCHANGED <<policy, priority>>
      BY <3>1, ScanRunnable
    <3> QED  BY <3>1, <3>2, <2>u, QueuePop
  <2>7. ASSUME NEW c \in CPUs, Wait(c) PROVE QueueInv'
    <3>1. /\ cpu[c] \in Procs /\ st[cpu[c]] = "RUNNING" /\ UNCHANGED queue
          /\ ScanReap(cpu[c]) \/ ScanFails(cpu[c]) \/ ScanSleeps(cpu[c])
      BY <2>7 DEF Wait, Syscall, On, RunInv, Typed, OnCpu
    <3>2. Runnable' = Runnable \ {cpu[c]} /\ UNCHANGED <<policy, priority>>
      BY <3>1, ScanRunnable
    <3>3. cpu[c] \notin Runnable
      BY <3>1 DEF Runnable
    <3> QED  BY <3>1, <3>2, <3>3, <2>s
  <2>8. ASSUME NEW c \in CPUs, Alloc(c) PROVE QueueInv'
    <3>1. PICK k \in Procs : /\ st[k] = "UNUSED" /\ st' = [st EXCEPT ![k] = "EMBRYO"]
                             /\ policy' = [policy EXCEPT ![k] = SCHED_RR]
                             /\ priority' = [priority EXCEPT ![k] = 0]
                             /\ next' = [next EXCEPT ![k] = None]
      BY <2>8 DEF Alloc, First, Free
    <3>2. Runnable' = Runnable /\ k \notin Runnable
      BY <3>1 DEF Runnable, RunInv, Typed
    <3>3. \A p \in Runnable : /\ next'[p] = next[p] /\ policy'[p] = policy[p]
                              /\ priority'[p] = priority[p]
      BY <3>1, <3>2 DEF Runnable, Settings, Ranges
    <3>4. head' = head
      BY <2>8 DEF Alloc
    <3> QED  BY <3>2, <3>3, <3>4, <2>u, QueueSame
  <2>9. ASSUME NEW c \in CPUs, Start(c) PROVE QueueInv'
    <3>1. arg[cpu[c]] \in Procs /\ st[arg[cpu[c]]] = "EMBRYO"
      BY <2>9 DEF Start, On, RunInv, Typed, Embryos
    <3> QED  BY <2>9, <3>1, <2>u, QueuePush DEF Start
  <2>10. ASSUME NEW c \in CPUs, Yield(c) PROVE QueueInv'
    <3>1. cpu[c] \in Procs /\ st[cpu[c]] = "RUNNING"
      BY <2>10 DEF Yield, RunInv, Typed, OnCpu
    <3> QED  BY <2>10, <3>1, <2>u, QueuePush DEF Yield
  <2>11. ASSUME NEW c \in CPUs, ForkFails(c) \/ Sleep(c) PROVE QueueInv'
    <3>1. PICK k \in Procs : /\ st[k] \in {"EMBRYO", "RUNNING"}
                             /\ \E s \in {"UNUSED", "SLEEPING"} : st' = [st EXCEPT ![k] = s]
      BY <2>11 DEF ForkFails, Sleep, On, RunInv, Typed, Embryos, OnCpu
    <3>2. Runnable' = Runnable
      BY <3>1 DEF Runnable, RunInv, Typed
    <3> QED  BY <2>11, <3>2, <2>s DEF ForkFails, Sleep
  <2>12. ASSUME NEW c \in CPUs, CloneFails(c) \/ Preempt(c) PROVE QueueInv'
    <3>1. Runnable' = Runnable
      BY <2>12 DEF CloneFails, Preempt, Runnable
    <3> QED  BY <2>12, <3>1, <2>s DEF CloneFails, Preempt
  <2>13. ASSUME NEW c \in CPUs, InitExits(c) \/ SetOther(c) PROVE QueueInv'
    BY <2>13, <1>a DEF InitExits, SetOther
  <2>14. ASSUME NEW c \in CPUs, NEW a \in Asks, SetSelf(c, a[1], a[2]) PROVE QueueInv'
    <3>1. cpu[c] \in Procs /\ st[cpu[c]] = "RUNNING"
      BY <2>14 DEF SetSelf, Syscall, On, RunInv, Typed, OnCpu
    <3>2. /\ UNCHANGED <<st, queue>> /\ policy' = [policy EXCEPT ![cpu[c]] = a[1]]
          /\ priority' = [priority EXCEPT ![cpu[c]] = a[2]]
      BY <2>14 DEF SetSelf
    <3>3. Runnable' = Runnable /\ cpu[c] \notin Runnable
      BY <3>1, <3>2 DEF Runnable
    <3>4. \A p \in Runnable : policy'[p] = policy[p] /\ priority'[p] = priority[p]
      BY <3>2, <3>3 DEF Runnable, Settings
    <3> QED  BY <3>2, <3>3, <3>4, <2>u, QueueSame DEF queue
  <2>15. ASSUME NEW c \in CPUs, NEW a \in Asks, NEW k \in Procs, SetChild(c, k, a[1], a[2])
         PROVE QueueInv'
    BY <2>15, <2>u, QueueChild
  <2> QED  BY <1>2, <2>1, <2>2, <2>3, <2>4, <2>5, <2>6, <2>7, <2>8, <2>9, <2>10, <2>11, <2>12,
              <2>13, <2>14, <2>15 DEF Next, Setscheduler
<1> QED  BY <1>1, <1>2

LEMMA SchedInvInit == Init => SchedInv
BY RunInit, WaitInit, SettingsInit, QueueInit DEF SchedInv

LEMMA SchedInvNext == SchedInv /\ [Next]_vars => SchedInv'
BY RunNext, WaitNext, SettingsNext, RangesNext, QueueNext DEF SchedInv

LEMMA SchedInvAlways == Spec => []SchedInv
<1>1. Init /\ [][Next]_vars => []SchedInv
  BY SchedInvInit, SchedInvNext, PTL
<1> QED  BY <1>1, PTL DEF Spec

(* Every variable of the process table stays in its range, and a slot in    *)
(* use has a policy, which push compares (allocproc, setscheduler).         *)
THEOREM SchedTypeOK == Spec => []TypeOK
<1>1. SchedInv => TypeOK
  <2> SUFFICES ASSUME SchedInv PROVE TypeOK
    OBVIOUS
  <2>1. \A p \in Procs : policy[p] = 0 => st[p] = "UNUSED"
    <3> SUFFICES ASSUME NEW p \in Procs, policy[p] = 0, st[p] # "UNUSED" PROVE FALSE
      OBVIOUS
    <3>1. KindsIn({p}, policy, priority)
      BY InUse DEF SchedInv
    <3>2. policy[p] \in {SCHED_RR, SCHED_FIFO}
      BY <3>1, KindsAre
    <3> QED  BY <3>2 DEF SCHED_RR, SCHED_FIFO
  <2> QED  BY <2>1 DEF SchedInv, RunInv, Typed, States, Calls, WaitInv, Family, Chans, Settings,
              Ranges, TypeOK
<1> QED  BY <1>1, SchedInvAlways, PTL

(* Through every push, pop and unlink the list from queue.head ends and has  *)
(* the runnable processes, each once (push, remove, scheduler, wakeup1).    *)
THEOREM QueueAlwaysExact == Spec => []QueueExact
<1>1. SchedInv => QueueExact
  BY ReadyLinked DEF SchedInv, QueueInv, QueueExact
<1> QED  BY <1>1, SchedInvAlways, PTL

\* The process that comes on a CPU is the head of the list.
LEMMA BestIsHead ==
  ASSUME SchedInv, [Next]_vars, NEW c \in CPUs, Sortable, upsets = 0, cpu[c] = None,
         cpu'[c] # None, NEW p \in Runnable
  PROVE  ~Beats(p, cpu'[c])
<1>1. Run(c) \/ Resume(c)
  <2>1. cpu \in [CPUs -> Procs \cup {None}]
    BY DEF SchedInv, RunInv, Typed
  <2>2. ~UNCHANGED cpu
    OBVIOUS
  <2>3. ASSUME NEW d \in CPUs, Leave(d) PROVE FALSE
    BY <2>1, <2>3 DEF Leave
  <2>4. ASSUME NEW d \in CPUs, Run(d) PROVE d = c
    BY <2>1, <2>4 DEF Run
  <2>5. ASSUME NEW d \in CPUs, Resume(d) PROVE d = c
    BY <2>1, <2>2, <2>5 DEF Resume
  <2>6. Next
    BY <2>2 DEF vars
  <2>7. PICK d \in CPUs : Run(d) \/ Resume(d)
    BY <2>2, <2>3, <2>6 DEF Next, Wakeup, Drop, Wait, Alloc, Start, ForkFails,
         CloneFails, Yield, Sleep, Exit, InitExits, Setscheduler, SetSelf, SetChild, SetOther,
         Preempt, Kill
  <2> QED  BY <2>4, <2>5, <2>7
<1>2. cpu'[c] = head /\ head \in Procs /\ ~halted
  <2>1. cpu \in [CPUs -> Procs \cup {None}]
    BY DEF SchedInv, RunInv, Typed
  <2>2. Idle(c)
    BY <1>1 DEF Run, Resume
  <2>3. cpu' = [cpu EXCEPT ![c] = head]
    BY <1>1 DEF Run, Resume
  <2> QED  BY <2>1, <2>2, <2>3 DEF Idle
<1>3. Ready(TheQueue, Runnable, policy, priority) /\ TheQueue.head = head
  BY <1>2 DEF SchedInv, QueueInv, TheQueue
<1>4. KindsIn(Runnable, policy, priority)
  BY InUse DEF SchedInv, Runnable
<1>5. ~Ahead(p, head, policy, priority)
  BY <1>2, <1>3, <1>4, PopReady
<1> QED  BY <1>2, <1>5 DEF Ahead, Beats

(* For the programs push sorts, any number of slots and CPUs, a CPU takes    *)
(* no process that a runnable one beats (push, scheduler; lab3.md).         *)
THEOREM BestAlwaysFirst == Spec => BestFirst
<1>1. SchedInv /\ [Next]_vars
        => [\A c \in CPUs : Sortable /\ upsets = 0 /\ cpu[c] = None /\ cpu'[c] # None
              => \A p \in Runnable : ~Beats(p, cpu'[c])]_vars
  BY BestIsHead
<1> QED  BY <1>1, SchedInvAlways, PTL DEF Spec, BestFirst
=============================================================================
