------------------------------ MODULE MCInodes ------------------------------
(* What the two programs of a behaviour do, root's and a user's: names of   *)
(* files; removed directories; directories and names in them; permissions;  *)
(* references that are lost; paths from the root and empty ones; links of a  *)
(* directory's own name; a small inode cache.                               *)
EXTENDS Inodes

Users == [p \in Procs |-> p - 1]
Kit(one, two, paths) ==
  [calls |-> <<one, two>>, paths |-> <<paths, paths>>, absolute |-> FALSE, slots |-> 3]

AllKits ==
  { Kit({"create", "unlink"}, {"link", "unlink"}, {<<"a">>, <<"b">>}),
    Kit({"mkdir", "chdir", "unlink"}, {"mkdir", "chdir", "unlink"}, {<<"a">>, <<"..">>}),
    Kit({"mkdir", "unlink"}, {"create", "mknod", "unlink"}, {<<"a">>, <<"a", "b">>}),
    [Kit({"chattr"}, {"create", "link", "unlink"}, {<<"a">>, <<"b">>})
        EXCEPT !.paths[1] = {<<".">>}],
    Kit({"create", "chattr"}, {"open", "exec", "chattr"}, {<<"a">>, <<"a", "b">>}),
    [Kit({"mkdir", "chdir"}, {"mkdir", "unlink"}, {<<>>, <<"a">>, <<"b">>})
        EXCEPT !.absolute = TRUE],
    Kit({"mkdir", "create", "chattr"}, {"link"}, {<<"a">>, <<"a", ".">>}),
    [Kit({"create", "open"}, {"create", "unlink"}, {<<"a">>, <<"b">>}) EXCEPT !.slots = 2] }
=============================================================================
