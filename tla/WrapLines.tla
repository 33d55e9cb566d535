----------------------------- MODULE WrapLines -----------------------------
(* What the text windows show: the rows of the alignment, or, with word      *)
(* wrap, the screen lines they are broken into (DiffTextWindow).  Rows,      *)
(* lines and positions count from 0 as in the code; sequences from 1.        *)
EXTENDS Integers, Sequences, SequencesExt, FiniteSetsExt

CONSTANTS
    Wins,              \* the text windows
    Rows,              \* number of rows (Diff3Lines)
    TextLength,        \* window |-> length of its line in each row, -1: it has none
    s_linesPerRunnable \* rows one runnable works on

ASSUME RowsAssumption ==
    /\ Rows \in Nat \ {0} /\ s_linesPerRunnable \in Nat \ {0}
    /\ IsFiniteSet(Wins)
    /\ TextLength \in [Wins -> [1..Rows -> Nat \cup {-1}]]

Row == 0..(Rows - 1)
AtLine(vec, line) == vec[line + 1]
AtMost(a, b) == IF a < b THEN a ELSE b
AtLeast(a, b) == IF a > b THEN a ELSE b
Length(w, row) == AtLeast(0, AtLine(TextLength[w], row))

\* prepareTextLayout(): the text of a row as lines of a width.  Where Qt breaks
\* depends on the words; here it breaks after each "width" characters.
Pieces(w, row, width) ==
    LET n == AtLeast(1, (Length(w, row) + width - 1) \div width)
    IN [j \in 1..n |-> [row |-> row, offset |-> (j - 1) * width,
                        length |-> AtMost(width, Length(w, row) - (j - 1) * width)]]

\* recalcWordWrapHelper(), first pass: what one runnable leaves in its cache.
RunnablesOfWindow == (Rows + s_linesPerRunnable - 1) \div s_linesPerRunnable
RowsOfRunnable(k) == (k * s_linesPerRunnable)..(AtMost((k + 1) * s_linesPerRunnable, Rows) - 1)
WrapLineCache(w, k, width) ==
    LET rows == RowsOfRunnable(k)
    IN FlattenSeq([i \in 1..Cardinality(rows) |-> Pieces(w, k * s_linesPerRunnable + i - 1, width)])

\* The lines of a row, in their order.
OfRow(lines, row) ==
    LET of[k \in 0..Len(lines)] ==
            IF k = 0 THEN <<>>
            ELSE IF lines[k].row = row THEN Append(of[k - 1], lines[k]) ELSE of[k - 1]
    IN of[Len(lines)]

EntriesOf(caches, row) == OfRow(FlattenSeq(caches), row)

LinesNeeded(needed, cache) ==
    [row \in Row |-> AtLeast(needed[row], Len(OfRow(cache, row)))]

\* Diff3LineList::recalcWordWrap(): where each row begins, and the number of lines.
SumLinesNeeded(needed) ==
    LET sum[row \in 0..Rows] == IF row = 0 THEN 0 ELSE sum[row - 1] + needed[row - 1]
    IN sum

\* recalcWordWrapHelper(), second pass: every window gives a row the same number
\* of lines, and leaves those empty that it does not need.
Diff3WrapLines(caches, needed) ==
    FlattenSeq([i \in 1..Rows |->
        LET own == EntriesOf(caches, i - 1)
        IN [j \in 1..needed[i - 1] |->
               IF j <= Len(own) THEN own[j] ELSE [row |-> i - 1, offset |-> 0, length |-> 0]]])

-----------------------------------------------------------------------------
(* Coordinates. *)

\* convertLineToDiff3LineIdx(), convertDiff3LineIdxToLine()
LineToRow(wrap, vec, line) ==
    IF wrap /\ vec # <<>> THEN AtLine(vec, AtMost(line, Len(vec) - 1)).row ELSE line

RowToLine(wrap, sums, row) == IF wrap THEN sums[AtMost(row, Rows - 1)] ELSE row

\* convertLineCoordsToD3LCoords(): a position on the screen as one in its row.
ToD3LCoords(wrap, vec, sums, at) ==
    IF ~wrap \/ vec = <<>> THEN at
    ELSE LET row == LineToRow(wrap, vec, at.line)
         IN [line |-> row,
             pos |-> at.pos + MapThenSumSet(LAMBDA l : AtLine(vec, l).length, sums[row]..(at.line - 1))]

\* convertD3LCoordsToLineCoords(): and back.
ToLineCoords(wrap, vec, sums, at) ==
    IF ~wrap THEN at
    ELSE LET Walk[l \in Nat, p \in Int] ==
                 IF p > AtLine(vec, l).length THEN Walk[l + 1, p - AtLine(vec, l).length]
                 ELSE [line |-> l, pos |-> p]
         IN Walk[RowToLine(wrap, sums, at.line), at.pos]

-----------------------------------------------------------------------------
(* Selection: from one position to another, in either direction. *)

NoSelection == [from |-> [line |-> -1, pos |-> -1], to |-> [line |-> -1, pos |-> -1]]
Before(a, b) == a.line < b.line \/ (a.line = b.line /\ a.pos <= b.pos)
IsEmptySelection(sel) == sel.from.line = -1 \/ sel.from = sel.to
BeginOf(sel) == IF Before(sel.from, sel.to) THEN sel.from ELSE sel.to
EndOf(sel) == IF Before(sel.from, sel.to) THEN sel.to ELSE sel.from

\* Selection::within()
Within(sel, at) ==
    /\ sel.from.line # -1
    /\ Before(BeginOf(sel), at) /\ ~Before(EndOf(sel), at)
    \* a selection in one line and one over several agree: the end is left out

\* The lines on the screen, as pieces of rows.
ScreenLines(w, wrap, vec) ==
    IF wrap THEN vec
    ELSE [i \in 1..Rows |-> [row |-> i - 1, offset |-> 0, length |-> Length(w, i - 1)]]

\* getSelection(): the characters of the rows that are selected; -1 is the line
\* end of a row.
SelectedText(w, wrap, vec, sel) ==
    LET lines == ScreenLines(w, wrap, vec)
        shown == {l \in 0..(Len(lines) - 1) : AtLine(TextLength[w], AtLine(lines, l).row) >= 0}
        chars(l) == {<<AtLine(lines, l).row, AtLine(lines, l).offset + p>> :
                        p \in {q \in 0..(AtLine(lines, l).length - 1) : Within(sel, [line |-> l, pos |-> q])}}
        ends == {l \in shown :
                    /\ Within(sel, [line |-> l, pos |-> AtLine(lines, l).length])
                    /\ l + 1 >= Len(lines) \/ AtLine(lines, l + 1).row # AtLine(lines, l).row}
    IN UNION {chars(l) : l \in shown} \cup {<<AtLine(lines, l).row, -1>> : l \in ends}
=============================================================================
