-------------------------- MODULE Diff3AlignClaims --------------------------
(* What the tests say of the alignment, where the code does something else.  *)
EXTENDS MCDiff3Align

\* alignmenttest.cpp, which sets the option "Align B and C": "Check if all line
\* numbers are in sequence".  (calcDiff3LineListUsingBC() moves the lines in the
\* way with one Diff3Line that keeps its line of A, which is inserted again.)
LinesAreInSequence ==
    phase = "done" =>
        \A s \in Shown : \A j, k \in DOMAIN LinesOf(s) : j < k => LinesOf(s)[j] < LinesOf(s)[k]
=============================================================================
