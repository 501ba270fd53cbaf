----------------------------- MODULE AtomicDisk -----------------------------
(***************************************************************************)
(* What the log of log.c promises the file system: the changes of file     *)
(* system calls reach the disk together, when no call is under way, and a  *)
(* crash keeps the last such state and nothing else.                       *)
(***************************************************************************)
CONSTANTS Procs, Blocks, Values, Fresh

VARIABLES
  stable,    \* what a restart would find in each block
  volatile,  \* what a file system call reads from each block
  active     \* the processes between begin_op and end_op

Init ==
  /\ stable = [b \in Blocks |-> Fresh]
  /\ volatile = stable
  /\ active = {}

Begin(p) == active' = active \cup {p} /\ UNCHANGED <<stable, volatile>>

Write(p, b, v) ==
  /\ p \in active
  /\ volatile' = [volatile EXCEPT ![b] = v]
  /\ UNCHANGED <<stable, active>>

End(p) == active' = active \ {p} /\ UNCHANGED <<stable, volatile>>

Commit ==
  /\ active = {}
  /\ stable' = volatile
  /\ UNCHANGED <<volatile, active>>

Crash ==
  /\ volatile' = stable
  /\ active' = {}
  /\ UNCHANGED stable

Next ==
  \/ Commit \/ Crash
  \/ \E p \in Procs : \/ Begin(p) \/ End(p)
                      \/ \E b \in Blocks, v \in Values : Write(p, b, v)

Spec == Init /\ [][Next]_<<stable, volatile, active>>

=============================================================================
