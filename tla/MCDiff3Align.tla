---------------------------- MODULE MCDiff3Align ----------------------------
(* Texts p, q, r.  Every alignment of short inputs with the option "Align B  *)
(* and C" (the passes before it are those without), every one of shorter     *)
(* inputs with two ranges chosen by hand, and long dialogues about two.       *)
EXTENDS Diff3Align

Texts(n) == UNION {[1..k -> Text] : k \in 0..n}

Inputs(a, b, c) == {[A |-> x, B |-> y, C |-> z] : x \in Texts(a), y \in Texts(b), z \in Texts(c)}

\* The texts are named in the order of their first use.
Canonical(f) ==
    LET all == f["A"] \o f["B"] \o f["C"]
        before(k) == {all[j] : j \in 1..k - 1}
    IN \A k \in DOMAIN all :
            /\ all[k] = "q" => "p" \in before(k)
            /\ all[k] = "r" => "q" \in before(k)

Scenario(f, c, bc, hard, n) ==
    [files |-> f, three |-> c, alignBC |-> bc, tryHard |-> hard, edits |-> n]

MCScenarios ==
    {Scenario(f, TRUE, TRUE, TRUE, 0) : f \in {g \in Inputs(2, 3, 3) : Canonical(g)}}
        \cup {Scenario(f, TRUE, FALSE, TRUE, 2) : f \in {g \in Inputs(2, 2, 2) : Canonical(g)}}
        \cup {Scenario(f, FALSE, FALSE, TRUE, 2) : f \in {g \in Inputs(2, 3, 0) : Canonical(g)}}
        \cup {Scenario(f, TRUE, bc, FALSE, IF bc THEN 0 ELSE 1) :
                f \in {g \in Inputs(2, 2, 2) : Canonical(g)}, bc \in BOOLEAN}
        \cup {Scenario([A |-> <<"p", "q">>, B |-> <<"q", "r">>, C |-> <<"r", "p">>], TRUE, FALSE, TRUE, 4),
               Scenario([A |-> <<"p", "q", "r">>, B |-> <<"q", "r">>, C |-> <<"r">>], TRUE, FALSE, TRUE, 4)}
=============================================================================
