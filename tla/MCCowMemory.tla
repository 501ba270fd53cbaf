---------------------------- MODULE MCCowMemory ----------------------------
(* Model checking of CowMemory.  Which free page is handed out makes no     *)
(* difference to any property, so kalloc always takes the lowest.           *)
EXTENDS CowMemory, FiniteSetsExt

LowestFree(S) == IF S = {} THEN {} ELSE {Min(S)}

\* Without sbrk, which multiplies the sizes exec has to free.
NoSbrk == \E p \in Procs : Access(p) \/ Fork(p) \/ Exec(p) \/ Exit(p) \/ Wait(p)
ExecSpec == Init /\ [][NoSbrk]_vars

\* Without the bound on the references of a page.
WrapSpec == Init /\ [][Next \/ \E p \in Procs : ForkRef(p)]_vars

=============================================================================
