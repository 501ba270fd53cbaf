----------------------------- MODULE MCThreads -----------------------------
(* What the programs of a behaviour do: files by open, files by dup, the    *)
(* folder, or memory.                                                       *)
EXTENDS Threads

AllKits == { {"open", "close", "fork", "clone"},
             {"dup", "close", "use", "fork", "clone"},
             {"chdir", "exec", "fork", "clone"},
             {"sbrk", "exec", "fork", "clone"} }
============================================================================
