------------------------------- MODULE MCShell -------------------------------
(* Command lines and keys for TLC.                                           *)
EXTENDS Shell

Cat  == [type |-> "cat"]
Quit == [type |-> "exit"]
Text == [type |-> "echo", bytes |-> <<"x", "y", "z">>]
Into(a, b) == [type |-> "pipe", left |-> a, right |-> b]
After(a, b) == [type |-> "list", left |-> a, right |-> b]
Behind(a) == [type |-> "back", cmd |-> a]

Session(j, ks, e, k) == [job |-> j, keys |-> ks, eof |-> e, kills |-> k, open |-> 3]

\* Nothing is typed: echo xyz | cat and echo xyz | exit, of which a process
\* may be killed, and echo xyz | cat &.
Quiet == {Session(j, <<>>, FALSE, 1) : j \in {Into(Text, Cat), Into(Text, Quit)}}
         \cup {Session(Behind(Into(Text, Cat)), <<>>, FALSE, 0)}

\* cat | cat while a line with a typing error, a line that overfills the
\* buffer, a line given up and text before ^D are typed.
Typing == {Session(Into(Cat, Cat), ks, TRUE, 0) :
             ks \in {<<"a", "bs", "b", "nl">>, <<"a", "b", "bs", "c", "nl">>,
                       <<"a", "kill", "b", "eof">>}}

\* cat | cat of which one is killed, and echo xyz; cat.
Others ==
  { Session(Into(Cat, Cat), <<"a", "nl">>, TRUE, 1),
    Session(After(Text, Cat), <<"a", "nl">>, TRUE, 0) }

\* Pipes that fail: echo xyz | cat | cat needs more file structures than there
\* are; (exit | exit) | (exit | exit) has two calls of pipe race for the last
\* one; a shell with a file left open has one descriptor to spare.
Scarce ==
  { Session(Into(Text, Into(Cat, Cat)), <<>>, FALSE, 0),
    Session(Into(Into(Quit, Quit), Into(Quit, Quit)), <<>>, FALSE, 0),
    [Session(Into(Quit, Quit), <<>>, FALSE, 0) EXCEPT !.open = 4] }

AllSessions == Quiet \cup Typing \cup Others \cup Scarce

\* The jobs and their parts.
Parts(c) == IF c.type \in {"pipe", "list"} THEN {c.left, c.right}
            ELSE IF c.type = "back" THEN {c.cmd} ELSE {}
Jobs == {s.job : s \in AllSessions}
WithParts(S) == S \cup UNION {Parts(c) : c \in S}
AllCommands == WithParts(WithParts(Jobs))

AllChars == {"a", "b", "c", "x", "y", "z", "nl", "eof", "bs", "kill"}
==============================================================================
