----------------------------- MODULE Diff3Align -----------------------------
(* The alignment of three inputs as KDiff3App::mainInit() computes it: diffs *)
(* of A and B, then of A and C, the manual alignment, the trim, and with the *)
(* option "Align B and C" a diff of B and C and the last two passes again.   *)
(* Two inputs need only the first diff.  Every change of the list of manual  *)
(* alignments starts over.                                                   *)
(*                                                                           *)
(* A step is one diff of two inputs, one Diff of its list, one entry of the  *)
(* manual list or one row.  The texts of lines are opaque.                   *)
EXTENDS AlignBC

CONSTANTS
    Text,       \* the texts of lines
    Scenarios   \* [files, three, alignBC, tryHard, edits]: texts of the lines of
                \* every side, are there three inputs, the options, and a bound:
                \* the number of manual alignments the user adds

ASSUME ScenarioAssumption ==
    \A x \in Scenarios :
        /\ x.files \in [Sides -> Seq(Text)]
        /\ x.three \in BOOLEAN /\ x.alignBC \in BOOLEAN /\ x.tryHard \in BOOLEAN
        /\ x.edits \in Nat

VARIABLES
    files,     \* files[s]: the texts of the lines of side s
    three,     \* is there a third input
    alignBC,   \* the option m_bDiff3AlignBC
    tryHard,   \* the option m_bTryHard
    edits,     \* how many more manual alignments the user adds
    manual,    \* m_manualDiffHelpList
    phase,     \* the pass that runs
    again,     \* the rows have been trimmed once
    rows,      \* m_diff3LineList
    diffs,     \* what is left of the list of Diffs
    read,      \* lines of each side read so far by a pass over diffs
    here,      \* the row a pass is at: i3 and lookAhead
    cur,       \* positions i3A, i3B and i3C (i3b and i3c)
    help       \* the entry of the manual list a pass is at: iMDHL

vars == <<files, three, alignBC, tryHard, edits, manual, phase, again, rows, diffs, read, here,
          cur, help>>

input == <<files, three, alignBC, tryHard>>

Size(s) == Len(files[s])

Zero == [s \in Sides |-> 0]
Start == [s \in Sides |-> 1]

-----------------------------------------------------------------------------
(* The lists of Diffs that ManualDiffHelpList::runDiff() may return for two  *)
(* inputs: one of each section, one after the other.                         *)
Sections(s, t) ==
    LET ends == SectionEnds(manual, s, t, Size(s), Size(t))
        start(k) == IF k = 1 THEN [s |-> 0, t |-> 0] ELSE ends[k - 1]
    IN [k \in DOMAIN ends |-> [from |-> start(k), to |-> ends[k]]]

\* A section that ends before it starts makes SafeInt throw.
Throws(s, t) ==
    \E k \in DOMAIN Sections(s, t) :
        LET x == Sections(s, t)[k] IN x.to.s < x.from.s \/ x.to.t < x.from.t

RunDiff(s, t) ==
    LET of(x) == SectionDiffs(SubSeq(files[s], x.from.s + 1, x.to.s),
                              SubSeq(files[t], x.from.t + 1, x.to.t), tryHard)
        lists[k \in 0..Len(Sections(s, t))] ==
            IF k = 0 THEN {<<>>}
            ELSE {l \o m : l \in lists[k - 1], m \in of(Sections(s, t)[k])}
    IN lists[Len(Sections(s, t))]

\* One diff of two inputs; next is the pass that uses it.
Diff(now, s, t, next) ==
    /\ phase = now
    /\ IF Throws(s, t)
       THEN /\ phase' = "error"
            /\ UNCHANGED <<diffs, read, here, cur>>
       ELSE /\ phase' = next
            /\ diffs' \in RunDiff(s, t)
            /\ read' = Zero
            /\ here' = 1
            /\ cur' = Start
    /\ UNCHANGED <<input, edits, manual, again, rows, help>>

DiffAB == Diff("diffAB", "A", "B", "addAB")
DiffAC == Diff("diffAC", "A", "C", "addAC")
\* The diff of B and C is always computed, and used with the option only.
DiffBC == Diff("diffBC", "B", "C", IF alignBC THEN "addBC" ELSE "done")

\* The lines of s and t a Diff accounts for.
ReadOn(d, s, t) == [read EXCEPT ![s] = @ + d.eq + d.d1, ![t] = @ + d.eq + d.d2]

AddAB ==
    /\ phase = "addAB"
    /\ IF diffs = <<>>
       THEN /\ phase' = IF three THEN "diffAC" ELSE "done"
            /\ UNCHANGED <<rows, diffs, read>>
       ELSE /\ rows' = AddPair(rows, Head(diffs), read["A"], read["B"])
            /\ diffs' = Tail(diffs)
            /\ read' = ReadOn(Head(diffs), "A", "B")
            /\ UNCHANGED phase
    /\ UNCHANGED <<input, edits, manual, again, here, cur, help>>

AddAC ==
    /\ phase = "addAC"
    /\ IF diffs = <<>>
       THEN /\ phase' = "manual"
            /\ help' = 1
            /\ UNCHANGED <<rows, diffs, read, here>>
       ELSE /\ LET t == AddThird(rows, here, Head(diffs), read["A"], read["C"])
               IN rows' = t.rows /\ here' = t.here
            /\ diffs' = Tail(diffs)
            /\ read' = ReadOn(Head(diffs), "A", "C")
            /\ UNCHANGED <<phase, help>>
    /\ UNCHANGED <<input, edits, manual, again, cur>>

AddBC ==
    /\ phase = "addBC"
    /\ IF diffs = <<>>
       THEN /\ phase' = "manual"
            /\ help' = 1
            /\ UNCHANGED <<rows, diffs, read, cur>>
       ELSE /\ LET t == AlignDiff([rows |-> rows, ib |-> cur["B"], ic |-> cur["C"]],
                                  Head(diffs), read["B"], read["C"])
               IN /\ rows' = t.rows
                  /\ cur' = [cur EXCEPT !["B"] = t.ib, !["C"] = t.ic]
            /\ diffs' = Tail(diffs)
            /\ read' = ReadOn(Head(diffs), "B", "C")
            /\ UNCHANGED <<phase, help>>
    /\ UNCHANGED <<input, edits, manual, again, here>>

\* correctManualDiffAlignment() gives up at an entry for a single side.
Correct ==
    /\ phase = "manual"
    /\ IF help > Len(manual) \/ Cardinality(Chosen(manual[help])) < 2
       THEN /\ phase' = "trim"
            /\ rows' = RemoveEmptyRows(rows)
            /\ here' = 1
            /\ cur' = Start
            /\ help' = 1
       ELSE /\ rows' = Align(rows, manual[help])
            /\ help' = help + 1
            /\ UNCHANGED <<phase, here, cur>>
    /\ UNCHANGED <<input, edits, manual, again, diffs, read>>

\* Room above the first row of a manual alignment is not looked at any more.
AtHelp == help <= Len(manual) /\ Starts(manual[help], rows[here]) # {}

Trim ==
    /\ phase = "trim"
    /\ here <= Len(rows)
    /\ LET t == Trimmed([rows |-> rows, cur |-> IF AtHelp THEN [s \in Sides |-> here] ELSE cur],
                        files, manual, here)
       IN rows' = t.rows /\ cur' = t.cur
    /\ help' = IF AtHelp THEN help + 1 ELSE help
    /\ here' = here + 1
    /\ UNCHANGED <<input, edits, manual, phase, again, diffs, read>>

TrimEnds ==
    /\ phase = "trim"
    /\ here > Len(rows)
    /\ rows' = RemoveEmptyRows(rows)
    /\ phase' = IF again THEN "done" ELSE "diffBC"
    /\ again' = TRUE
    /\ UNCHANGED <<input, edits, manual, diffs, read, here, cur, help>>

-----------------------------------------------------------------------------
(* mainInit() starts over with a changed list.                               *)
Restart ==
    /\ phase' = "diffAB"
    /\ again' = FALSE
    /\ rows' = <<>>
    /\ diffs' = <<>>
    /\ read' = Zero
    /\ here' = 1
    /\ cur' = Start
    /\ help' = 1
    /\ UNCHANGED input

Shown == IF three THEN Sides ELSE {"A", "B"}

\* slotAddManualDiffHelp(): the selected lines of one window.
AddManualDiffHelp(s, range) ==
    /\ phase \in {"done", "error"}
    /\ edits > 0
    /\ edits' = edits - 1
    /\ manual' = InsertEntry(manual, s, range)
    /\ Restart

\* slotClearManualDiffHelpList()
ClearManualDiffHelpList ==
    /\ phase \in {"done", "error"}
    /\ manual # <<>>
    /\ manual' = <<>>
    /\ Restart
    /\ UNCHANGED edits

Init ==
    /\ \E x \in Scenarios :
        /\ files = x.files
        /\ three = x.three
        /\ alignBC = x.alignBC
        /\ tryHard = x.tryHard
        /\ edits = x.edits
    /\ manual = <<>>
    /\ phase = "diffAB"
    /\ again = FALSE
    /\ rows = <<>>
    /\ diffs = <<>>
    /\ read = Zero
    /\ here = 1
    /\ cur = Start
    /\ help = 1

Ranges(s) == {r \in [first : 1..Size(s), last : 1..Size(s)] : r.first <= r.last}

Pass ==
    \/ DiffAB \/ DiffAC \/ DiffBC
    \/ AddAB \/ AddAC \/ AddBC
    \/ Correct \/ Trim \/ TrimEnds

User ==
    \/ \E s \in Shown : \E range \in Ranges(s) : AddManualDiffHelp(s, range)
    \/ ClearManualDiffHelpList

Next == Pass \/ User

Spec == Init /\ [][Next]_vars

-----------------------------------------------------------------------------
(* Safety                                                                    *)

\* The rows have been trimmed, or all the rows of two inputs are there.
RowsComplete == phase \in {"diffBC", "done"}

LinesOf(s) == Kept([k \in DOMAIN rows |-> rows[k].at[s]], {k \in DOMAIN rows : Holds(rows[k], s)})

Complete(s) == LinesOf(s) = [k \in 1..Size(s) |-> k]

\* debugLineCheck(): "Just make sure that all input lines are in the output too,
\* exactly once", in order, whatever was aligned by hand; and no row is empty.
EachLineOnce ==
    RowsComplete /\ ~(alignBC /\ phase = "done") =>
        (\A s \in Shown : Complete(s)) /\ EmptyRow \notin ToSet(rows)

\* With the option the lines of B and C, at least, are there exactly once.
AlignBCKeepsBAndC == phase = "done" => \A s \in Shown \ {"A"} : Complete(s)

SameText(row, s, t) ==
    Holds(row, s) /\ Holds(row, t) /\ files[s][row.at[s]] = files[t][row.at[t]]

\* Equal lines that share a row are flagged, so that no difference is shown
\* where there is none, unless lines were aligned by hand or the diffs do not try hard.
EqualLinesAreFlagged ==
    tryHard /\ RowsComplete /\ manual = <<>> /\ ~(alignBC /\ phase = "done") =>
        \A k \in DOMAIN rows : \A p \in Pairs :
            (\A s, t \in p : SameText(rows[k], s, t)) => p \in rows[k].eq

\* The lines chosen by hand start in the same row.
ManuallyAligned ==
    phase = "done" =>
        \A k \in DOMAIN manual : \A j \in DOMAIN rows :
            Starts(manual[k], rows[j]) \in {{}, Chosen(manual[k])}

\* Of three inputs, lines chosen by hand on two start in the same row, when every
\* entry of the list names two sides: correctManualDiffAlignment() moves what the
\* diffs left unaligned, and the trim does not undo it.
TwoSidesAreAligned ==
    three /\ ~alignBC /\ (\A k \in DOMAIN manual : Cardinality(Chosen(manual[k])) = 2)
        => ManuallyAligned

-----------------------------------------------------------------------------
(* Actions                                                                   *)

Matches == MapThenSumSet(LAMBDA k : Cardinality(rows[k].eq), DOMAIN rows)

\* The trim may give a line another partner, but never leaves fewer equal pairs.
TrimKeepsMatches == [][phase = "trim" => Matches' >= Matches]_vars
=============================================================================
