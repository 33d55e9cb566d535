------------------------------ MODULE LineDiff ------------------------------
(* What differs inside two lines: DiffList::calcDiff() and optimize(), which *)
(* Diff3Line::fineDiff() calls for every pair of lines that are not equal.   *)
(*                                                                           *)
(* A line is the sequence of its characters; p1 and p2 are the places the    *)
(* search has come to, counted from 0.                                       *)
EXTENDS Integers, Sequences, SequencesExt, FiniteSetsExt

CONSTANT MaxSearchRange   \* 500

Part(eq, d1, d2) == [eq |-> eq, d1 |-> d1, d2 |-> d2]

CommonLength(t, u, p1, p2) ==
    Max({n \in 0..Min({Len(t) - p1, Len(u) - p2}) : \A k \in 1..n : t[p1 + k] = u[p2 + k]})

CommonLengthBack(t, u, p1, p2) ==
    Max({n \in 0..Min({p1, p2}) : \A k \in 0..n - 1 : t[p1 - k] = u[p2 - k]})

\* The characters at i1 and i2 behind the place match: they are near, or
\* those behind them match too.
Matches(t, u, p1, p2, i1, i2) ==
    LET a == p1 + i1 + 1
        b == p2 + i2 + 1
    IN /\ t[a] = u[b]
       /\ \/ i1 - i2 \in -2..2
          \/ a = Len(t) /\ b = Len(u)
          \/ a < Len(t) /\ b < Len(u) /\ t[a + 1] = u[b + 1]

\* The first of the nearest matches, moved back to where it begins.
Best(t, u, p1, p2) ==
    LET found == {m \in (0..Len(t) - p1 - 1) \X (0..Min({Len(u) - p2, MaxSearchRange}) - 1) :
                      Matches(t, u, p1, p2, m[1], m[2])}
        near == {m \in found : \A n \in found : m[1] + m[2] <= n[1] + n[2]}
        m == CHOOSE m \in near : \A n \in near : m[1] <= n[1]
        back == Min({CommonLengthBack(t, u, p1 + m[1], p2 + m[2]), m[1], m[2]})
    IN {<<m[1] - back, m[2] - back>> : n \in near}

\* n characters are taken back from the end of the list: from the last part,
\* and with the one before when nothing is left that can be taken.
RECURSIVE TakeBack(_, _, _)
TakeBack(list, d, n) ==
    LET paired == d.d1 > 0 /\ d.d2 > 0
        less == IF paired THEN [d EXCEPT !.d1 = @ - 1, !.d2 = @ - 1]
                ELSE IF d.eq > 0 THEN [d EXCEPT !.eq = @ - 1] ELSE d
        m == IF less = d THEN n ELSE n - 1
        used == less.eq = 0 /\ (less.d1 = 0 \/ less.d2 = 0) /\ m > 0
        prev == Last(list)
    IN IF n = 0 THEN [list |-> list, d |-> d, n |-> 0]
       ELSE IF used /\ list = <<>> THEN [list |-> list, d |-> less, n |-> m]
       ELSE IF used THEN TakeBack(Front(list), Part(less.eq + prev.eq, less.d1 + prev.d1, less.d2 + prev.d2), m)
       ELSE TakeBack(list, less, m)

\* One round of calcDiff().
Round(s, t, u) ==
    LET eq == CommonLength(t, u, s.p1, s.p2)
        q1 == s.p1 + eq
        q2 == s.p2 + eq
        ended(list, p1, p2, end, n, back) ==
            IF n = 0 \/ (end /\ back.list = s.list) THEN [list |-> list, p1 |-> p1, p2 |-> p2, end |-> end]
            ELSE [list |-> Append(back.list, back.d), p1 |-> p1 - n + back.n, p2 |-> p2 - n + back.n, end |-> FALSE]
        shortened(d, p1, p2, end, n) ==
            ended(Append(s.list, d), p1, p2, end, n, TakeBack(s.list, d, n))
        added(d, p1, p2, end) == shortened(d, p1, p2, end, CommonLengthBack(t, u, p1, p2))
        to(b) == added(Part(eq, b[1], b[2]), q1 + b[1], q2 + b[2], FALSE)
        next(best) == IF best = {} THEN added(Part(eq, Len(t) - q1, Len(u) - q2), q1, q2, TRUE)
                      ELSE to(CHOOSE b \in best : TRUE)
    IN next(Best(t, u, q1, q2))

\* calcDiff(), as far as it comes in a number of rounds.
CalcDiff(t, u, rounds) ==
    LET next(s) == IF s.end THEN s ELSE Round(s, t, u)
        run[k \in 0..rounds] ==
            IF k = 0 THEN [list |-> <<>>, p1 |-> 0, p2 |-> 0, end |-> FALSE] ELSE next(run[k - 1])
    IN run[rounds]

\* Mutant: only the first line gets the characters that counted as equal.
RefineFirst(d) == IF d.eq < 4 /\ (d.d1 > 0 \/ d.d2 > 0) THEN Part(0, d.d1 + d.eq, d.d2) ELSE d

Refine(d) == IF d.eq < 4 /\ (d.d1 > 0 \/ d.d2 > 0) THEN Part(0, d.d1 + d.eq, d.d2 + d.eq) ELSE d

\* optimize(): short equal parts count as different, all of them or the first.
Optimize(list) ==
    LET useful == \E k \in DOMAIN list : list[k].eq >= 4
    IN [k \in DOMAIN list |-> IF ~useful \/ k = 1 THEN Refine(list[k]) ELSE list[k]]
=============================================================================
