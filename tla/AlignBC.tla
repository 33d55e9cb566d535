------------------------------- MODULE AlignBC -------------------------------
(* calcDiff3LineListUsingBC(): with the option "Align B and C" a line of C   *)
(* that equals a line of B, but none of A, joins its row.  t holds the rows  *)
(* and the positions of i3b and i3c; one Diff is taken at a time.            *)
EXTENDS Diff3Rows

\* Side x of a row that held line x moves up to the row "to" of its equal line.
JoinUp(row, x, line) ==
    LET y == IF x = "B" THEN "C" ELSE "B"
    IN [at |-> [row.at EXCEPT ![x] = line],
        eq |-> (row.eq \ {{"A", x}}) \cup {BC}
               \cup (IF {"A", y} \in row.eq THEN {{"A", x}} ELSE {})]

\* Mutant: no line is in the way.
DisturbingNone(rows, x, to, from) == {}

\* The rows from "to" to above "from" that hold x are in the way: their lines of
\* x, and down to the last of them that equals A the lines of A too, get rows of
\* their own.  They are built in one variable, which keeps that last line of A.
Disturbing(rows, x, to, from) == {k \in to..from - 1 : Holds(rows[k], x)}

EqualsA(rows, x, to, from) == {k \in to..from - 1 : {"A", x} \in rows[k].eq}

LeavesRow(rows, x, k, last) == Holds(rows[k], x) \/ (k <= last /\ Holds(rows[k], "A"))

OutOfSight(rows, x, k, last) ==
    LET base == rows[Min({k, last})]
        line == Only(rows[k], {x})
    IN IF last = 0 THEN line
       ELSE [at |-> [line.at EXCEPT !["A"] = base.at["A"]], eq |-> base.eq \cap {{"A", x}}]

MoveUp(rows, x, to, from) ==
    LET last == Max({0} \cup EqualsA(rows, x, to, from))
        leaving == IF Disturbing(rows, x, to, from) = {} THEN {}
                   ELSE {k \in to..from - 1 : LeavesRow(rows, x, k, last)}
        above == Kept([k \in DOMAIN rows |-> OutOfSight(rows, x, k, last)], leaving)
        left == [k \in DOMAIN rows |->
                    IF k = from THEN Without(rows[k], {x})
                    ELSE IF k \notin leaving THEN rows[k]
                    ELSE Without(rows[k], IF k <= last THEN {"A", x} ELSE {x})]
        joined == [left EXCEPT ![to] = JoinUp(@, x, rows[from].at[x])]
    IN [rows |-> InsertRows(joined, to, above), by |-> Len(above)]

\* The equal line of a Diff.
AlignEqual(t, b, c) ==
    LET ib == RowOfLine(t.rows, t.ib, "B", b)
        ic == RowOfLine(t.rows, t.ic, "C", c)
        bUp == MoveUp(t.rows, "B", ic, ib)
        cUp == MoveUp(t.rows, "C", ib, ic)
        after(rows, by) == [rows |-> rows, ib |-> ib + by + 1, ic |-> ic + by + 1]
    IN IF ib = ic THEN after([t.rows EXCEPT ![ib].eq = @ \cup {BC}], 0)
       ELSE IF ic < ib /\ AB \notin t.rows[ib].eq THEN after(bUp.rows, bUp.by)
       ELSE IF ib < ic /\ AC \notin t.rows[ic].eq THEN after(cUp.rows, cUp.by)
       ELSE after(t.rows, 0)

\* A line of B that the Diff does not match moves up as far as possible.
MoveLoneB(t, b) ==
    LET found == RowOfLine(t.rows, t.ib, "B", b)
    IN IF found # t.ib /\ AB \notin t.rows[found].eq
       THEN [rows |-> InsertRows([t.rows EXCEPT ![found].at["B"] = NoLine], t.ib,
                                 <<Row(NoLine, b, NoLine, {})>>),
             ib |-> t.ib + 2,
             ic |-> IF t.ic >= t.ib THEN t.ic + 1 ELSE t.ic]
       ELSE [t EXCEPT !.ib = found + 1]

\* One Diff, b lines of B and c lines of C having been read.
AlignDiff(t, d, b, c) ==
    LET lone[k \in 0..d.d1] ==
            IF k > 0 THEN MoveLoneB(lone[k - 1], b + d.eq + k)
            ELSE IF d.eq = 0 THEN t ELSE AlignEqual(t, b + 1, c + 1)
    IN lone[d.d1]
=============================================================================
