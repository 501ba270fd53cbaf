---------------------------- MODULE PrivateMemory ----------------------------
(***************************************************************************)
(* What user memory promises a program, whatever pages the kernel shares:  *)
(* every process has pages of its own, fork copies them at the instant it  *)
(* returns, new pages hold zeros, and nobody else's store shows in them.   *)
(***************************************************************************)
EXTENDS Integers

CONSTANTS Procs, InitProc, MaxPages, TextPages, Stores, ZeroVal, Junk, Image

VARIABLE mem   \* mem[p]: the pages of process p, a function on 0 .. n-1

Nothing  == [v \in {} |-> ZeroVal]   \* no process, or one without memory
TheImage == [v \in 0 .. TextPages + 1 |-> IF v = TextPages THEN Junk ELSE Image]

Init == mem = [p \in Procs |-> IF p = InitProc THEN [v \in {0} |-> Image]
                                              ELSE Nothing]

Become(p, m) == mem' = [mem EXCEPT ![p] = m]

Store(p) == \E v \in DOMAIN mem[p], x \in Stores :
              Become(p, [mem[p] EXCEPT ![v] = x])

Fork(p)  == mem[p] # Nothing /\ \E c \in Procs :
              mem[c] = Nothing /\ Become(c, mem[p])

Grow(p)  == \E n \in 1 .. MaxPages - 1 :
              /\ DOMAIN mem[p] = 0 .. n - 1
              /\ Become(p, [v \in 0 .. n |-> IF v = n THEN ZeroVal ELSE mem[p][v]])

Shrink(p) == \E n \in 1 .. MaxPages :
              /\ DOMAIN mem[p] = 0 .. n - 1
              /\ Become(p, [v \in 0 .. n - 2 |-> mem[p][v]])

Exec(p)  == mem[p] # Nothing /\ Become(p, TheImage)

\* exit, or a kill when the kernel has no page for a store or an sbrk.
Die(p)   == Become(p, Nothing)

Next == \E p \in Procs :
  Store(p) \/ Fork(p) \/ Grow(p) \/ Shrink(p) \/ Exec(p) \/ Die(p)

Spec == Init /\ [][Next]_mem

=============================================================================
