------------------------------ MODULE BlockStore ------------------------------
(***************************************************************************)
(* What the buffer cache promises the file system: each block has one      *)
(* content, one process at a time uses a block, and only that process      *)
(* changes it, except that a faulty block may lose its content.            *)
(***************************************************************************)
CONSTANTS Procs, Blocks, Values, None, Faulty

VARIABLES
  content,   \* what a bread of each block returns
  user       \* the process that uses each block

vars == <<content, user>>

Init ==
  /\ content \in [Blocks -> Values]
  /\ user = [n \in Blocks |-> None]

Take(p, n) ==
  /\ user[n] = None
  /\ user' = [user EXCEPT ![n] = p]
  /\ UNCHANGED content

Change(p, n, v) ==
  /\ user[n] = p
  /\ content' = [content EXCEPT ![n] = v]
  /\ UNCHANGED user

Give(p, n) ==
  /\ user[n] = p
  /\ user' = [user EXCEPT ![n] = None]
  /\ UNCHANGED content

Lose(n) ==
  /\ user[n] = None
  /\ \E v \in Values : content' = [content EXCEPT ![n] = v]
  /\ UNCHANGED user

Next ==
  \/ \E n \in Faulty : Lose(n)
  \/ \E p \in Procs, n \in Blocks :
       Take(p, n) \/ Give(p, n) \/ \E v \in Values : Change(p, n, v)

Spec == Init /\ [][Next]_vars
===============================================================================
