----------------------------- MODULE MergeBlocks -----------------------------
(* The blocks of the merge result: MergeBlockList, MergeBlock and           *)
(* MergeEditLine, and what MergeResultWindow does to a block.               *)
(*                                                                          *)
(* A row of the Diff3LineList is the function from the inputs that have a   *)
(* line in it to the characters of the line; " " is a white one, "#" one of *)
(* a comment that the options say to ignore (without them a comment is a    *)
(* text like any other).  Rows are numbered from 1.  The numbers of         *)
(* conflicts and the colours of the display, mergeDetails among them, are   *)
(* left out.                                                                *)
EXTENDS ListParts

Sides == {"A", "B", "C"}

\* What is compared: white space counts as equal, and so do comments, be they
\* blanked beside other text or, alone in their lines, set equal by fineDiff().
Text(t) == SelectSeq(t, LAMBDA c : c \notin {" ", "#"})

\* whiteLine() or isPureComment(); white space around a comment makes the line
\* skipable, and not pure.
IsWhite(row, s) == s \in DOMAIN row => ToSet(row[s]) \in {{}, {" "}, {"#"}}
\* Mutant: white space makes no difference.
FineDiffWords(row, s, t) == {s, t} \subseteq DOMAIN row /\ Text(row[s]) # Text(row[t])

FineDiff(row, s, t) == {s, t} \subseteq DOMAIN row /\ row[s] # row[t]
Equal(row, s, t)    == {s, t} \subseteq DOMAIN row /\ Text(row[s]) = Text(row[t])

-----------------------------------------------------------------------------
(* MergeEditLine.  "str" is what the user made of it once it is changed.    *)

Line(k) == [row |-> k, src |-> "None", removed |-> FALSE, changed |-> FALSE, str |-> <<>>]

SourceLine(k, s, removed) == [Line(k) EXCEPT !.src = s, !.removed = removed]
RemovedLine(k, s)         == SourceLine(k, s, TRUE)      \* setRemoved(s)

SetRemoved(l)   == [l EXCEPT !.src = "None", !.removed = TRUE, !.changed = TRUE, !.str = <<>>]
SetString(l, t) == [l EXCEPT !.src = "None", !.removed = FALSE, !.changed = TRUE, !.str = t]

IsConflict(l) == l.src = "None" /\ ~l.removed /\ ~l.changed

\* The line has a line of its input to show.  Row 0 is that of a blank block,
\* whose iterator points nowhere: when it is read, the model goes on as if no
\* input had a line there.
HasSource(rows, l) ==
    l.src # "None" /\ l.row \in DOMAIN rows /\ l.src \in DOMAIN rows[l.row]

GetString(rows, l) ==
    IF l.changed THEN l.str
    ELSE IF HasSource(rows, l) /\ ~l.removed THEN rows[l.row][l.src]
    ELSE <<>>

-----------------------------------------------------------------------------
(* mergeOneLine: what becomes of one row when nobody is asked.  "alike" is  *)
(* eBCAddedAndEqual.                                                        *)

Clash   == [src |-> "None", removed |-> FALSE, alike |-> FALSE]
Take(s) == [Clash EXCEPT !.src = s]
Drop(s) == [Take(s) EXCEPT !.removed = TRUE]

MergeTwo(row) ==
    IF DOMAIN row = {"A", "B"} /\ ~FineDiff(row, "A", "B") THEN Take("A") ELSE Clash

MergeThree(row) ==
    LET AB == FineDiff(row, "A", "B")
        BC == FineDiff(row, "B", "C")
        CA == FineDiff(row, "A", "C")
        has == DOMAIN row
    IN CASE has = Sides -> CASE ~AB /\ ~BC /\ ~CA -> Take("A")
                             [] ~AB /\ BC /\ CA -> Take("C")
                             [] AB /\ BC /\ ~CA -> Take("B")
                             [] AB /\ ~BC /\ CA -> Take("C")
                             [] OTHER -> Clash
         [] has = {"A", "B"} -> IF AB THEN Clash ELSE Drop("C")
         [] has = {"A", "C"} -> IF CA THEN Clash ELSE Drop("B")
         [] has = {"B", "C"} -> IF BC THEN Clash ELSE [Take("C") EXCEPT !.alike = TRUE]
         [] has = {"A"} -> Drop("C")
         [] OTHER -> Take(CHOOSE s \in has : TRUE)

MergeOneLine(row, three) == IF three THEN MergeThree(row) ELSE MergeTwo(row)

WhiteSpaceConflict(row, three) ==
    /\ MergeOneLine(row, three) = Clash
    /\ LET in == IF three THEN Sides ELSE {"A", "B"}
       IN \/ \A s \in in : Equal(row, "A", s)
          \/ \A s \in in : IsWhite(row, s)

\* isSameKind(), of the block of row f and the row r.
SameKind(r, f, three) ==
    LET new == MergeOneLine(r, three)
        old == MergeOneLine(f, three)
    IN IF new = Clash /\ old = Clash
       THEN \A s \in {"B", "C"} : Equal(r, "A", s) = Equal(f, "A", s)
       ELSE new.src = old.src /\ new.alike = old.alike

-----------------------------------------------------------------------------
(* MergeBlockList.                                                          *)

\* A block of the rows first .. first + len - 1.
RowsOf(b) == [i \in 1..b.len |-> b.first + i - 1]

\* The block a failed split leaves behind: MergeBlock's initial values, its
\* index -1 is row 0.
BlankBlock == [first |-> 0, len |-> 0, conflict |-> FALSE, ws |-> FALSE,
               delta |-> FALSE, lines |-> <<>>]

NewBlock(rows, three, k) ==
    LET d == MergeOneLine(rows[k], three)
    IN [first |-> k, len |-> 1, conflict |-> d = Clash,
        ws |-> WhiteSpaceConflict(rows[k], three), delta |-> d.src # "A",
        lines |-> <<SourceLine(k, d.src, d.removed)>>]

\* One row more, in a block of its own until it is seen to be of the same kind.
\* A conflict has one line, whatever number of rows it has.
Extended(b, new) ==
    [b EXCEPT !.len = @ + 1, !.ws = @ /\ new.ws,
              !.lines = IF new.conflict /\ b.conflict THEN @ ELSE @ \o new.lines]

WithRow(rows, three, blocks, k) ==
    LET new == NewBlock(rows, three, k)
        n   == Len(blocks)
    IN IF n > 0 /\ SameKind(rows[k], rows[blocks[n].first], three)
       THEN [blocks EXCEPT ![n] = Extended(@, new)]
       ELSE Append(blocks, new)

BuildFromDiff3(rows, three) ==
    LET built[k \in 0..Len(rows)] ==
            IF k = 0 THEN <<>> ELSE WithRow(rows, three, built[k - 1], k)
    IN built[Len(rows)]

HasModifiedText(b) == \E i \in DOMAIN b.lines : b.lines[i].changed

\* Mutant: a solved conflict is chosen again.
MayUpdateAny(b, conflictsOnly, whiteOnly) == b.delta /\ (whiteOnly => b.ws)

\* The blocks updateDefaults() changes.
MayUpdate(b, conflictsOnly, whiteOnly) ==
    /\ b.delta
    /\ ~(HasModifiedText(b) /\ (conflictsOnly \/ whiteOnly))
    /\ conflictsOnly => b.lines = <<>> \/ IsConflict(b.lines[1])
    /\ whiteOnly => b.ws

\* The block with all lines of one input.
Chosen(rows, b, s) ==
    LET ks == Kept(RowsOf(b), {i \in 1..b.len : s \in DOMAIN rows[RowsOf(b)[i]]})
    IN [b EXCEPT !.lines = IF ks = <<>> THEN <<RemovedLine(b.first, s)>>
                           ELSE [i \in DOMAIN ks |-> SourceLine(ks[i], s, FALSE)]]

Unsolved(b) == [b EXCEPT !.lines = <<Line(b.first)>>, !.conflict = TRUE]

UpdateDefaults(rows, blocks, s, conflictsOnly, whiteOnly) ==
    [i \in DOMAIN blocks |->
        IF ~MayUpdate(blocks[i], conflictsOnly, whiteOnly) THEN blocks[i]
        ELSE IF s = "Invalid" THEN Unsolved(blocks[i])
        ELSE Chosen(rows, blocks[i], s)]

\* removeEmptySource() looks for a source in the line and the one before it.
RemoveEmptySource(rows, b) ==
    LET shows(l) == HasSource(rows, l) /\ ~l.removed
        empty(i) == /\ i > 1
                    /\ ~shows(b.lines[i]) /\ ~shows(b.lines[i - 1])
                    /\ b.lines[i].src = b.lines[i - 1].src
    IN [b EXCEPT !.lines = Kept(@, {i \in DOMAIN @ : ~empty(i)})]

-----------------------------------------------------------------------------
(* Choosing a side for a block, splitting and joining blocks.               *)

\* The lines a choice leaves: it takes away the side that is chosen already,
\* the placeholder of a conflict and the user's own lines.
LinesLeft(b, s) ==
    LET left(l) == l.src # s /\ ~IsConflict(l) /\ ~l.changed
    IN Kept(b.lines, {i \in DOMAIN b.lines : left(b.lines[i])})

Choose(rows, b, s) ==
    LET active == \E i \in DOMAIN b.lines : b.lines[i].src = s
        added  == IF active THEN <<>>
                  ELSE [i \in 1..b.len |-> SourceLine(b.first + i - 1, s, FALSE)]
        all    == LinesLeft(b, s) \o added
        lines  == Kept(all, {i \in DOMAIN all : HasSource(rows, all[i])})
    IN [b EXCEPT !.lines = IF lines # <<>> THEN lines
                           ELSE IF active THEN <<Line(b.first)>>
                           ELSE <<RemovedLine(b.first, s)>>]

\* Mutant: the line of the row is in neither half.
HalvesLate(b, k) ==
    LET at == SelectInSeq(b.lines, LAMBDA l : l.row = k)
    IN <<[b EXCEPT !.len = k - b.first, !.lines = IF at = 0 THEN @ ELSE SubSeq(@, 1, at - 1)],
         [b EXCEPT !.first = k, !.len = b.len - (k - b.first),
                   !.lines = IF at = 0 THEN <<Line(k)>> ELSE SubSeq(@, at + 1, Len(@))]>>

\* MergeBlock::split() at a row of the block behind its first.
Halves(b, k) ==
    LET at == SelectInSeq(b.lines, LAMBDA l : l.row = k)
        upper == [b EXCEPT !.len = k - b.first,
                           !.lines = IF at = 0 THEN @ ELSE SubSeq(@, 1, at - 1)]
        lower == [b EXCEPT !.first = k, !.len = b.len - (k - b.first),
                           !.lines = IF at = 0 THEN <<Line(k)>> ELSE SubSeq(@, at, Len(@))]
    IN <<upper, lower>>

\* The block splitAtDiff3LineIdx() splits, 0 when a block begins at the row.
BlockToSplit(blocks, k) ==
    LET next == SelectInSeq(blocks, LAMBDA b : b.first >= k)
    IN IF next = 0 THEN Len(blocks)
       ELSE IF blocks[next].first = k THEN 0 ELSE next - 1

SplitInside(b, k) == b.first <= k /\ k < b.first + b.len

SplitAt(blocks, k) ==
    LET j == BlockToSplit(blocks, k)
        parts == IF SplitInside(blocks[j], k) THEN Halves(blocks[j], k)
                 ELSE <<blocks[j], BlankBlock>>
    IN IF j = 0 THEN blocks
       ELSE SubSeq(blocks, 1, j - 1) \o parts \o SubSeq(blocks, j + 1, Len(blocks))

Joined(a, b) ==
    [a EXCEPT !.len = @ + b.len, !.lines = <<Line(a.first)>>,
              !.conflict = @ \/ b.conflict, !.ws = @ /\ b.ws, !.delta = @ \/ b.delta]

Holding(blocks, k) == SelectInSeq(blocks, LAMBDA b : b.first <= k /\ k < b.first + b.len)

JoinDiffs(blocks, f, l) ==
    LET i == Holding(blocks, f)
        j == Holding(blocks, l)
        joined[n \in 0..j - i] ==
            IF n = 0 THEN blocks[i] ELSE Joined(joined[n - 1], blocks[i + n])
    IN SubSeq(blocks, 1, i - 1)
         \o <<joined[j - i]>>
         \o SubSeq(blocks, j + 1, Len(blocks))
=============================================================================
