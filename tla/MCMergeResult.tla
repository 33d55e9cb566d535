---------------------------- MODULE MCMergeResult ----------------------------
(* Every list of at most three rows for the automatic merge; all commands on *)
(* lists of two and three rows that have every kind of block.                *)
EXTENDS MergeResult

Texts == {<<"p">>, <<" ", "p">>, <<"q">>, <<"#">>, <<>>}

Row(sides) == UNION {[has -> Texts] : has \in (SUBSET sides) \ {{}}}

Scenario(r, c, w, keys, start, cmds, n) ==
    [rows |-> r, three |-> c, white |-> w, keywords |-> keys, atStart |-> start,
     commands |-> cmds, limit |-> n]

\* A change in B, a white space conflict and a conflict; lines that one side
\* or two have; a keyword.
Solved  == [A |-> <<"p">>, B |-> <<"q">>, C |-> <<"p">>]
White   == [A |-> <<"p">>, B |-> <<" ", "p">>, C |-> <<" ", "p", " ">>]
Open    == [A |-> <<"p">>, B |-> <<"q">>, C |-> <<"r">>]
Deleted == [A |-> <<"p">>, B |-> <<"p">>]
OnlyC   == [C |-> <<"r">>]
Same    == [A |-> <<"p">>, B |-> <<"p">>, C |-> <<"p">>]
Two     == [A |-> <<"p">>, B |-> <<"q">>]
OnlyA   == [A |-> <<"p">>]
Blank   == [A |-> <<" ">>]

\* Comments beside a text, and rows of comments only: pure ones, and one that
\* is skipable but not pure.
Remarks == [A |-> <<"p">>, B |-> <<"p", "#">>, C |-> <<"#", "p">>]
Pure    == [A |-> <<"#">>, B |-> <<"#", "#">>, C |-> <<" ">>]
Indent  == [A |-> <<"#">>, B |-> <<" ", "#">>, C |-> <<"#", "#">>]

ChoiceCommands == {"choose", "everywhere", "unsolved", "white", "autoSolve", "unsolve",
                   "regExp", "split", "join", "save"}
KeyCommands    == {"choose", "unsolved", "split", "join", "type", "delete", "return", "erase",
                   "paste", "save"}

MCScenarios ==
    {Scenario(<<r, s>>, TRUE, "None", {}, FALSE, {"choose"}, 0) : r \in Row(Sides), s \in Row(Sides)}
        \cup {Scenario(r, TRUE, w, k[1], k[2], ChoiceCommands, 4) :
                r \in {<<Open, Open, OnlyC>>, <<White, Open>>, <<Solved, White, OnlyC>>, <<Remarks, Pure, Open>>},
                w \in {"None", "C"}, k \in {<<{}, FALSE>>, <<{1}, FALSE>>, <<{1}, TRUE>>}}
        \cup {Scenario(r, TRUE, "None", {}, FALSE, KeyCommands, 3) :
                r \in {<<Deleted, OnlyC, Open>>, <<Solved, Open>>, <<White, Same>>}}
        \cup {Scenario(<<Indent, Pure, Two>>, TRUE, "None", {}, FALSE, ChoiceCommands, 3)}
        \cup {Scenario(<<Two, Two>>, FALSE, "B", {1, 2}, FALSE, Command, 3),
               Scenario(<<Blank, OnlyA, Two>>, FALSE, "B", {}, FALSE, ChoiceCommands, 3)}
=============================================================================
