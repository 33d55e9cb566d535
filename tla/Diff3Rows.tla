------------------------------ MODULE Diff3Rows ------------------------------
(* The list of Diff3Lines (diff.h): each row holds at most one line of each  *)
(* input and says which of them are equal.  The four passes of diff.cpp that *)
(* build the list, as functions of rows:                                     *)
(*                                                                           *)
(*   AddPair      one Diff of calcDiff3LineListUsingAB()                     *)
(*   AddThird     one Diff of calcDiff3LineListUsingAC()                     *)
(*   Align        one entry in correctManualDiffAlignment()                  *)
(*   Trimmed      one row in calcDiff3LineListTrim()                         *)
(*                                                                           *)
(* "equal" stands for LineData::equal(): equal up to white space.  Iterators *)
(* are positions; a position one past the end is end().                      *)
EXTENDS ManualDiffHelp, FiniteSets, FiniteSetsExt

AB == {"A", "B"}
AC == {"A", "C"}
BC == {"B", "C"}
Pairs == {AB, AC, BC}

Others(s) == Sides \ {s}
PairsOf(s) == {p \in Pairs : s \in p}

\* A Diff3Line: at[s] is the line of side s, eq the pairs flagged equal.
Row(a, b, c, eq) == [at |-> [A |-> a, B |-> b, C |-> c], eq |-> eq]
EmptyRow == Row(NoLine, NoLine, NoLine, {})

Holds(row, s) == row.at[s] # NoLine

\* Take the sides S out of a row, or put only them into a new one.
Without(row, S) ==
    [at |-> [s \in Sides |-> IF s \in S THEN NoLine ELSE row.at[s]],
     eq |-> {p \in row.eq : p \cap S = {}}]
Only(row, S) ==
    [at |-> [s \in Sides |-> IF s \in S THEN row.at[s] ELSE NoLine],
     eq |-> {p \in row.eq : p \subseteq S}]

InsertRows(rows, k, new) == SubSeq(rows, 1, k - 1) \o new \o SubSeq(rows, k, Len(rows))

RemoveEmptyRows(rows) == Kept(rows, {k \in DOMAIN rows : rows[k] # EmptyRow})

\* The first position from k on whose row satisfies Test, or one past the end.
Find(rows, k, Test(_)) ==
    LET hits == {j \in k..Len(rows) : Test(rows[j])}
    IN IF hits = {} THEN Len(rows) + 1 ELSE Min(hits)

-----------------------------------------------------------------------------
(* A DiffList as DiffList::runDiff() returns it for two sections of lines.   *)
(* With the option "Try hard", the default, GNU diff finds a longest common  *)
(* subsequence; without it, hard = FALSE, its heuristics may leave matches   *)
(* out, and any common subsequence is taken for what they find.              *)
(* A Diff of several equal lines is split into Diffs of one equal line each. *)
(* The lines first differ by d1 and d2, then each Diff starts with a match.  *)
Increasing(m) == \A j, k \in DOMAIN m : j < k => m[j][1] < m[k][1] /\ m[j][2] < m[k][2]

\* The common subsequences, as lists of the places of their lines in x and in y.
Common(x, y) ==
    LET equal == {p \in (DOMAIN x) \X (DOMAIN y) : x[p[1]] = y[p[2]]}
    IN {m \in SeqOf(equal, Min({Len(x), Len(y)})) : Increasing(m)}

Matchings(x, y, hard) ==
    LET common == Common(x, y)
    IN {m \in common : hard => \A n \in common : Len(n) <= Len(m)}

DiffListOf(m, size1, size2) ==
    LET stops == <<<<0, 0>>>> \o m \o <<<<size1 + 1, size2 + 1>>>>
    IN [k \in 1..Len(stops) - 1 |->
          [eq |-> IF k = 1 THEN 0 ELSE 1,
           d1 |-> stops[k + 1][1] - stops[k][1] - 1,
           d2 |-> stops[k + 1][2] - stops[k][2] - 1]]

SectionDiffs(x, y, hard) == {DiffListOf(m, Len(x), Len(y)) : m \in Matchings(x, y, hard)}

-----------------------------------------------------------------------------
(* calcDiff3LineListUsingAB(), one Diff, a and b lines having been read.     *)
AddPair(rows, d, a, b) ==
    LET next(n, k, d12) == IF k <= d12 THEN n + d.eq + k ELSE NoLine
    IN rows
       \o [k \in 1..d.eq |-> Row(a + k, b + k, NoLine, {AB})]
       \o [k \in 1..Max({d.d1, d.d2}) |-> Row(next(a, k, d.d1), next(b, k, d.d2), NoLine, {})]

(* calcDiff3LineListUsingAC(), one Diff: the equal line of C joins its line  *)
(* of A, which is searched from position here on; the others get rows of     *)
(* their own before the next row.                                            *)
RowOfLine(rows, here, s, line) == Find(rows, here, LAMBDA r : r.at[s] = line)

JoinC(row, c) ==
    [at |-> [row.at EXCEPT !["C"] = c],
     eq |-> row.eq \cup {AC} \cup (IF AB \in row.eq THEN {BC} ELSE {})]

\* Mutant: the lone lines of C go where the search started.
AddThirdBefore(rows, here, d, a, c) ==
    LET found == RowOfLine(rows, here, "A", a + 1)
        joined == IF d.eq = 0 THEN rows ELSE [rows EXCEPT ![found] = JoinC(@, c + 1)]
        lone == [k \in 1..d.d2 |-> Row(NoLine, NoLine, c + d.eq + k, {})]
    IN [rows |-> InsertRows(joined, here, lone),
        here |-> (IF d.eq = 0 THEN here ELSE found + 1) + d.d2]

AddThird(rows, here, d, a, c) ==
    LET found == RowOfLine(rows, here, "A", a + 1)
        joined == IF d.eq = 0 THEN rows ELSE [rows EXCEPT ![found] = JoinC(@, c + 1)]
        place == IF d.eq = 0 THEN here ELSE found + 1
        lone == [k \in 1..d.d2 |-> Row(NoLine, NoLine, c + d.eq + k, {})]
    IN [rows |-> InsertRows(joined, place, lone), here |-> place + d.d2]

-----------------------------------------------------------------------------
(* correctManualDiffAlignment(), one entry that names at least two sides.    *)
(* The first row with a first line of the entry takes the first line of a    *)
(* second side; what the other sides hold between the two rows goes above.   *)
(* The side the entry does not name is moved above as well, as far as no     *)
(* equal line stands in the way.                                             *)
Starts(e, row) == {s \in Chosen(e) : row.at[s] = FirstLine(e, s)}

InOrder(S) == IF "A" \in S THEN "A" ELSE IF "B" \in S THEN "B" ELSE "C"

StopPair(s) == IF s = "C" THEN AC ELSE AB

\* What the side m that the entry does not name holds from row k on goes above
\* row dest, after the rows already moved there.
MoveMissing(rows, m, dest, k, moved) ==
    LET stop == Find(rows, k, LAMBDA r : Holds(r, m) /\ StopPair(m) \in r.eq)
        left == [j \in DOMAIN rows |->
                    IF j \in k..stop - 1 THEN Without(rows[j], {m}) ELSE rows[j]]
        up == Kept([j \in DOMAIN rows |-> Only(rows[j], {m})],
                   {j \in k..stop - 1 : Holds(rows[j], m)})
    IN InsertRows(left, dest, moved \o up)

\* Mutant: the second side stops at its row instead of joining the first.
AlignBefore(rows, e) ==
    LET dest == Find(rows, 1, LAMBDA r : Starts(e, r) # {})
        side == InOrder(Starts(e, rows[dest]))
        found == Find(rows, dest, LAMBDA r : Starts(e, r) \ {side} # {})
        moved == [j \in 1..found - dest |-> Only(rows[dest + j - 1], Others(side))]
        kept == [j \in DOMAIN rows |->
                    IF j \in dest..found - 1 THEN Without(rows[j], Others(side)) ELSE rows[j]]
    IN IF dest > Len(rows) THEN rows ELSE InsertRows(kept, dest, moved)

Align(rows, e) ==
    LET dest == Find(rows, 1, LAMBDA r : Starts(e, r) # {})
        side == InOrder(Starts(e, rows[dest]))
        found == Find(rows, dest, LAMBDA r : Starts(e, r) \ {side} # {})
        second == InOrder(Starts(e, rows[found]) \ {side})
        moved == [j \in 1..found - dest |-> Only(rows[dest + j - 1], Others(side))]
        kept == [j \in DOMAIN rows |->
                    IF j \in dest..found - 1 THEN Without(rows[j], Others(side)) ELSE rows[j]]
        aligned == IF found = dest THEN kept
                   ELSE [kept EXCEPT ![dest].at[second] = rows[found].at[second],
                                     ![found] = Without(@, {second})]
        missing == Sides \ Chosen(e)
    IN IF dest > Len(rows) THEN rows
       ELSE IF found > Len(rows) THEN InsertRows(kept, dest, moved)
       ELSE IF missing = {} THEN InsertRows(aligned, dest, moved)
       ELSE MoveMissing(aligned, InOrder(missing), dest, found, moved)

-----------------------------------------------------------------------------
(* calcDiff3LineListTrim(), one row.  t holds the rows and, for every side,  *)
(* the first of the rows above that have no line of it: a line of the row at *)
(* position "line" may move up there.  f holds the texts of the lines.       *)
Partner(s) == IF s = "A" THEN "B" ELSE "A"
Third(s)   == IF s = "C" THEN "B" ELSE "C"

\* The lines of S move from one row to another, where they are equal as in gained.
Move(rows, S, from, to, lost, gained) ==
    [rows EXCEPT
        ![to] = [at |-> [s \in Sides |-> IF s \in S THEN rows[from].at[s] ELSE @.at[s]],
                 eq |-> @.eq \cup gained],
        ![from] = [at |-> [s \in Sides |-> IF s \in S THEN NoLine ELSE @.at[s]],
                   eq |-> @.eq \ lost]]

\* Mutant: the line that moves up is not compared with its new neighbours.
MoveSideUnflagged(t, s, line, gained) ==
    [rows |-> Move(t.rows, {s}, line, t.cur[s], PairsOf(s), {}),
     cur |-> [t.cur EXCEPT ![s] = @ + 1]]

\* s moves up one row and looks for room below that row from then on.
MoveSide(t, s, line, gained) ==
    [rows |-> Move(t.rows, {s}, line, t.cur[s], PairsOf(s), gained),
     cur |-> [t.cur EXCEPT ![s] = @ + 1]]

MayMove(t, list, S, line, to) ==
    \A s \in S : \A u \in Sides \ S :
        IsValidMove(list, t.rows[line].at[s], t.rows[to].at[u], s, u)

\* The room for s is beside two equal lines that s equals too.
MoveMatching(t, f, list, s, line) ==
    LET u == Partner(s)
        room == t.rows[t.cur[s]]
    IN IF /\ line > t.cur[s] /\ Holds(t.rows[line], s)
          /\ Holds(room, u) /\ Others(s) \in room.eq
          /\ f[s][t.rows[line].at[s]] = f[u][room.at[u]]
          /\ MayMove(t, list, {s}, line, t.cur[s])
       THEN MoveSide(t, s, line, PairsOf(s)) ELSE t

\* s equals nothing in its row.
MoveAlone(t, f, list, s, line) ==
    LET u == Partner(s)
        v == Third(s)
        room == t.rows[t.cur[s]]
        same(x) == Holds(room, x) /\ f[s][t.rows[line].at[s]] = f[x][room.at[x]]
        first == IF same(u) THEN {{s, u}} ELSE {}
        both == {{s, u}, {u, v}} \subseteq room.eq \cup first
        second == IF both \/ same(v) THEN {{s, v}} ELSE {}
    IN IF /\ line > t.cur[s] /\ Holds(t.rows[line], s)
          /\ PairsOf(s) \cap t.rows[line].eq = {}
          /\ MayMove(t, list, {s}, line, t.cur[s])
       THEN MoveSide(t, s, line, first \cup second) ELSE t

\* Two equal lines, without the third, move up to where both find room.
\* Mutant: the third line of the row may be equal too.
PairGoesAnyway(t, S, probe, unless, line) ==
    /\ \A s \in S : line > t.cur[s]
    /\ Holds(t.rows[line], probe) /\ S \in t.rows[line].eq

PairGoes(t, S, probe, unless, line) ==
    /\ \A s \in S : line > t.cur[s]
    /\ Holds(t.rows[line], probe) /\ S \in t.rows[line].eq /\ unless \notin t.rows[line].eq

MovePair(t, f, list, S, probe, line) ==
    LET to == Max({t.cur[s] : s \in S})
        o == InOrder(Sides \ S)
        same == /\ Holds(t.rows[to], o)
                /\ f[probe][t.rows[line].at[probe]] = f[o][t.rows[to].at[o]]
    IN IF MayMove(t, list, S, line, to)
       THEN [rows |-> Move(t.rows, S, line, to, {S},
                           {S} \cup IF same THEN PairsOf(o) ELSE {}),
             cur |-> [s \in Sides |-> IF s \in S THEN to + 1 ELSE t.cur[s]]]
       ELSE t

MovePairs(t, f, list, line) ==
    IF PairGoes(t, AB, "A", AC, line) THEN MovePair(t, f, list, AB, "A", line)
    ELSE IF PairGoes(t, AC, "A", AB, line) THEN MovePair(t, f, list, AC, "A", line)
    ELSE IF PairGoes(t, BC, "B", AC, line) THEN MovePair(t, f, list, BC, "B", line)
    ELSE t

\* Sides that still have a line in this row look for room below it.
Passed(t, line) ==
    [t EXCEPT !.cur = [s \in Sides |-> IF Holds(t.rows[line], s) THEN line + 1 ELSE t.cur[s]]]

Trimmed(t, f, list, line) ==
    LET matching(x, s) == MoveMatching(x, f, list, s, line)
        alone(x, s) == MoveAlone(x, f, list, s, line)
        matched == matching(matching(matching(t, "A"), "B"), "C")
        moved == alone(alone(alone(matched, "A"), "B"), "C")
    IN Passed(MovePairs(moved, f, list, line), line)
=============================================================================
