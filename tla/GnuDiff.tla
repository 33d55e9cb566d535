------------------------------ MODULE GnuDiff ------------------------------
(* GNU diff, as DiffList::runDiff() uses it on two sections of lines.        *)
(*                                                                           *)
(* A line is the sequence of its characters.  Lines that are equal but for   *)
(* white space, and for numbers if asked, are of one class; what             *)
(* find_and_hash_each_line() numbers is here the class itself.  Lines and    *)
(* the places between them are counted from 0, as in the code.               *)
(*                                                                           *)
(* gnuDiff is static and zeroed: context, no_diff_means_no_output and        *)
(* speed_large_files are never set, and what they guard is left out.         *)
EXTENDS Integers, Sequences, FiniteSets, SequencesExt, FiniteSetsExt

CONSTANTS TooExpensive,   \* too_expensive, 256 in small files
          Many            \* how many matches make a line provisional: 5

ASSUME GnuDiffAssumption == TooExpensive \in Nat \ {0} /\ Many \in Nat \ {0}

NL == "\n"
IsSpace(c) == c = " "
IsNumeric(c) == c \in {"1", "2", "-", "."}

\* What lines_differ() compares of a line.
Class(line, ignoreNumbers) ==
    SelectSeq(line, LAMBDA c : ~IsSpace(c) /\ ~(ignoreNumbers /\ IsNumeric(c)))

LinesDiffer(s, t, ignoreNumbers) == Class(s, ignoreNumbers) # Class(t, ignoreNumbers)

-----------------------------------------------------------------------------
(* The buffer of a section goes to the end of its last line, "after" is the  *)
(* character behind it.                                                      *)

Buffer(lines) == FlattenSeq([i \in DOMAIN lines |-> IF i = 1 THEN lines[1] ELSE <<NL>> \o lines[i]])

\* Where the line after place p begins, or the end.
NextLine(buf, p) == Min({k \in p + 1..Len(buf) : buf[k] = NL} \cup {Len(buf)})

\* find_identical_ends(): up to where whole lines are the same characters,
\* and from where.
FindIdenticalEnds(b0, after0, b1, after1) ==
    LET n0 == Len(b0)
        n1 == Len(b1)
        common == Max({k \in 0..Min({n0, n1}) : SubSeq(b0, 1, k) = SubSeq(b1, 1, k)})
        prefix == Max({0} \cup {k \in 1..common : b0[k] = NL})
        at(buf, after, p) == IF p = Len(buf) THEN after ELSE buf[p + 1]
        differ(p) == at(b0, after0, p) # at(b1, after1, p + n1 - n0)
        begin == prefix + Max({0, n0 - n1})
        p == Max({begin} \cup {k \in begin + 1..n0 : differ(k)})
        suffix == IF p = n0 THEN n0 ELSE NextLine(b0, IF differ(p) THEN p + 1 ELSE p)
    IN [prefix |-> prefix, suffix |-> <<suffix, suffix + n1 - n0>>]

PrefixLines(buf, prefix) == Cardinality({k \in 1..prefix : buf[k] = NL})

\* find_and_hash_each_line(): the classes of the lines from the prefix on that
\* begin before the suffix.
HashedLines(buf, prefix, suffix, ignoreNumbers) ==
    LET begins == {p \in prefix..suffix - 1 : p = prefix \/ buf[p] = NL}
        starts == SetToSortSeq(begins, LAMBDA a, b : a < b)
        end(p) == Min({k \in p + 1..Len(buf) : buf[k] = NL} \cup {Len(buf) + 1})
    IN [i \in DOMAIN starts |-> Class(SubSeq(buf, starts[i] + 1, end(starts[i]) - 1), ignoreNumbers)]

-----------------------------------------------------------------------------
(* discard_confusing_lines(): lines the other file does not have are left    *)
(* out, and lines it has many of if they are among such ones.                *)

Count(x, l) == Cardinality({i \in DOMAIN x : x[i] = l})

Marks(x, y) == [i \in DOMAIN x |-> IF Count(y, x[i]) = 0 THEN 1 ELSE IF Count(y, x[i]) > Many THEN 2 ELSE 0]

\* The run of marked lines from i on that ends with one that is sure.
RunFrom(marks, i) ==
    LET j == Max({k \in i..Len(marks) : \A l \in i..k : marks[l] # 0})
    IN SubSeq(marks, i, Max({k \in i..j : marks[k] = 1}))

Kept(run) == [k \in DOMAIN run |-> IF run[k] = 2 THEN 0 ELSE run[k]]

\* Approximately the square root of a quarter of the length.
SubrunLimit(n) == IF n < 16 THEN 2 ELSE IF n < 64 THEN 3 ELSE 5

WithoutSubruns(run) ==
    LET long(k) == \E a \in 1..k, b \in k..Len(run) :
                       b - a + 1 >= SubrunLimit(Len(run)) /\ \A l \in a..b : run[l] = 2
    IN [k \in DOMAIN run |-> IF run[k] = 2 /\ long(k) THEN 0 ELSE run[k]]

\* Provisional lines are kept up to three sure ones in a row, or to the first
\* sure one behind the eighth line.
WithoutHead(run) ==
    LET step(s, k) ==
            LET mark == run[k]
                sure == IF mark = 1 THEN s.sure + 1 ELSE 0
            IN IF s.on /\ ~(k > 8 /\ mark = 1)
               THEN [out |-> Append(s.out, IF mark = 2 THEN 0 ELSE mark), sure |-> sure, on |-> sure < 3]
               ELSE [s EXCEPT !.out = Append(@, mark), !.on = FALSE]
    IN FoldLeft(step, [out |-> <<>>, sure |-> 0, on |-> TRUE], [k \in DOMAIN run |-> k]).out

Thinned(run) ==
    IF 4 * Count(run, 2) > Len(run) THEN Kept(run)
    ELSE Reverse(WithoutHead(Reverse(WithoutHead(WithoutSubruns(run)))))

RECURSIVE Discards(_, _)
Discards(marks, i) ==
    IF i > Len(marks) THEN marks
    ELSE IF marks[i] # 1 THEN Discards([marks EXCEPT ![i] = 0], i + 1)
    ELSE LET past(run, end) ==
                 Discards(SubSeq(marks, 1, i - 1) \o Thinned(run) \o SubSeq(marks, end, Len(marks)), end)
         IN past(RunFrom(marks, i), i + Len(RunFrom(marks, i)))

\* The places of the lines that are compared.
RealIndexes(x, y, minimal) ==
    LET discards == Discards(Marks(x, y), 1)
    IN SelectSeq([i \in DOMAIN x |-> i - 1], LAMBDA i : minimal \/ discards[i + 1] = 0)

-----------------------------------------------------------------------------
(* diag(): a place in the middle of a shortest edit script.  "fd" and "bd"   *)
(* hold for a diagonal how far the search from the start and from the end    *)
(* has come, "met" is the place they met at.                                 *)

Infinite == 1000000

\* The length of the snake of equal lines from (p, q) on, or back from it.
Snake(x, y, p, q, x1, y1) ==
    Max({n \in 0..Max({0, Min({x1 - p, y1 - q})}) : \A k \in 0..n - 1 : x[p + k + 1] = y[q + k + 1]})
SnakeBack(x, y, p, q, x0, y0) ==
    Max({n \in 0..Max({0, Min({p - x0, q - y0})}) : \A k \in 0..n - 1 : x[p - k] = y[q - k]})

Diagonals(s, lo, hi) == {d \in s[lo]..s[hi] : (s[hi] - d) % 2 = 0}

Forward(s, x, y, x1, y1, dmin, dmax) ==
    LET fmin == IF s.fmin > dmin THEN s.fmin - 1 ELSE s.fmin + 1
        fmax == IF s.fmax < dmax THEN s.fmax + 1 ELSE s.fmax - 1
        fd0 == IF s.fmin > dmin THEN [s.fd EXCEPT ![fmin - 1] = -1] ELSE s.fd
        fd == IF s.fmax < dmax THEN [fd0 EXCEPT ![fmax + 1] = -1] ELSE fd0
        active == {d \in fmin..fmax : (fmax - d) % 2 = 0}
        far(d, p) == p + Snake(x, y, p, p - d, x1, y1)
        moved(old) == [d \in DOMAIN old |->
                          IF d \notin active THEN old[d]
                          ELSE far(d, IF old[d - 1] >= old[d + 1] THEN old[d - 1] + 1 ELSE old[d + 1])]
        at(next, met) ==
            [s EXCEPT !.fmin = fmin, !.fmax = fmax, !.fd = next,
                      !.met = {<<next[d], next[d] - d>> : d \in {Max(met \cup {dmin - 1})} \cap met}]
        meet(next) ==
            at(next, {d \in active : s.odd /\ s.bmin <= d /\ d <= s.bmax /\ s.bd[d] <= next[d]})
    IN meet(moved(fd))

Backward(s, x, y, x0, y0, dmin, dmax) ==
    LET bmin == IF s.bmin > dmin THEN s.bmin - 1 ELSE s.bmin + 1
        bmax == IF s.bmax < dmax THEN s.bmax + 1 ELSE s.bmax - 1
        bd0 == IF s.bmin > dmin THEN [s.bd EXCEPT ![bmin - 1] = Infinite] ELSE s.bd
        bd == IF s.bmax < dmax THEN [bd0 EXCEPT ![bmax + 1] = Infinite] ELSE bd0
        active == {d \in bmin..bmax : (bmax - d) % 2 = 0}
        far(d, p) == p - SnakeBack(x, y, p, p - d, x0, y0)
        moved(old) == [d \in DOMAIN old |->
                          IF d \notin active THEN old[d]
                          ELSE far(d, IF old[d - 1] < old[d + 1] THEN old[d - 1] ELSE old[d + 1] - 1)]
        at(next, met) ==
            [s EXCEPT !.bmin = bmin, !.bmax = bmax, !.bd = next,
                      !.met = {<<next[d], next[d] - d>> : d \in {Max(met \cup {dmin - 1})} \cap met}]
        meet(next) ==
            at(next, {d \in active : ~s.odd /\ s.fmin <= d /\ d <= s.fmax /\ next[d] <= s.fd[d]})
    IN meet(moved(bd))

\* Too expensive: the place that is nearest to the middle from one side.
Halfway(s, x0, x1, y0, y1) ==
    LET fx(d) == LET p == Min({s.fd[d], x1}) IN IF y1 < p - d THEN y1 + d ELSE p
        bx(d) == LET p == Max({x0, s.bd[d]}) IN IF p - d < y0 THEN y0 + d ELSE p
        fs == Diagonals(s, "fmin", "fmax")
        bs == Diagonals(s, "bmin", "bmax")
        f == Max({d \in fs : \A e \in fs : 2 * fx(e) - e <= 2 * fx(d) - d})
        b == Max({d \in bs : \A e \in bs : 2 * bx(d) - d <= 2 * bx(e) - e})
    IN IF x1 + y1 - (2 * bx(b) - b) < 2 * fx(f) - f - (x0 + y0)
       THEN [x |-> fx(f), y |-> fx(f) - f, lo |-> TRUE, hi |-> FALSE]
       ELSE [x |-> bx(b), y |-> bx(b) - b, lo |-> FALSE, hi |-> TRUE]

Middle(place) == [x |-> place[1], y |-> place[2], lo |-> TRUE, hi |-> TRUE]

Diag(x, y, x0, x1, y0, y1, minimal) ==
    LET dmin == x0 - y1
        dmax == x1 - y0
        start == [fd |-> [d \in dmin - 1..dmax + 1 |-> IF d = x0 - y0 THEN x0 ELSE 0],
                  bd |-> [d \in dmin - 1..dmax + 1 |-> IF d = x1 - y1 THEN x1 ELSE 0],
                  fmin |-> x0 - y0, fmax |-> x0 - y0, bmin |-> x1 - y1, bmax |-> x1 - y1,
                  odd |-> (x0 - y0 - (x1 - y1)) % 2 = 1, met |-> {}]
        search[c \in 0..(x1 - x0) + (y1 - y0)] ==
            LET back(b) == [s |-> b, part |-> IF b.met # {} THEN {Middle(p) : p \in b.met}
                                              ELSE IF ~minimal /\ c >= TooExpensive
                                              THEN {Halfway(b, x0, x1, y0, y1)} ELSE {}]
                forth(f) == IF f.met # {} THEN [s |-> f, part |-> {Middle(p) : p \in f.met}]
                            ELSE back(Backward(f, x, y, x0, y0, dmin, dmax))
                next(before) == IF before.part # {} THEN before
                                ELSE forth(Forward(before.s, x, y, x1, y1, dmin, dmax))
            IN IF c = 0 THEN [s |-> start, part |-> {}] ELSE next(search[c - 1])
    IN CHOOSE part \in search[(x1 - x0) + (y1 - y0)].part : TRUE

\* compareseq(): the lines of x and of y that have no partner.
RECURSIVE CompareSeq(_, _, _, _, _, _, _)
CompareSeq(x, y, xa, xb, ya, yb, minimal) ==
    LET both(lo, hi) == <<lo[1] \cup hi[1], lo[2] \cup hi[2]>>
        divided(x0, x1, y0, y1, part) ==
            both(CompareSeq(x, y, x0, part.x, y0, part.y, part.lo),
                 CompareSeq(x, y, part.x, x1, part.y, y1, part.hi))
        between(x0, x1, y0, y1) ==
            IF x0 = x1 THEN <<{}, y0..y1 - 1>>
            ELSE IF y0 = y1 THEN <<x0..x1 - 1, {}>>
            ELSE divided(x0, x1, y0, y1, Diag(x, y, x0, x1, y0, y1, minimal))
        after(down, up) == between(xa + down, xb - up, ya + down, yb - up)
        forth(down) == after(down, SnakeBack(x, y, xb, yb, xa + down, ya + down))
    IN forth(Snake(x, y, xa, ya, xb, yb))

-----------------------------------------------------------------------------
(* shift_boundaries(): a run of changed lines is moved to the place where it *)
(* joins others or stands beside a run of the other file.  "ch" are the      *)
(* changed lines of this file, "oth" those of the other; start and i are the *)
(* ends of the run, j is the place in the other file.                        *)

NextFree(S, k) == Min((k..k + Cardinality(S)) \ S)
LastFree(S, k) == Max((k - Cardinality(S)..k) \ S)

RECURSIVE MoveBack(_, _)
MoveBack(s, x) ==
    IF s.start = 0 \/ x[s.start] # x[s.i] THEN s
    ELSE LET ch == (s.ch \cup {s.start - 1}) \ {s.i - 1}
         IN MoveBack([s EXCEPT !.ch = ch, !.i = @ - 1, !.start = LastFree(ch, @ - 2) + 1,
                               !.j = LastFree(s.oth, @ - 1)], x)

\* Mutant: what is moved forward is not taken from the start.
MoveForwardGrowing(s, x) ==
    IF s.i = Len(x) \/ x[s.start + 1] # x[s.i + 1] THEN s
    ELSE LET ch == s.ch \cup {s.i}
             i == NextFree(ch, s.i + 1)
         IN [s EXCEPT !.ch = ch, !.start = @ + 1, !.i = i, !.j = NextFree(s.oth, @ + 1)]

RECURSIVE MoveForward(_, _)
MoveForward(s, x) ==
    IF s.i = Len(x) \/ x[s.start + 1] # x[s.i + 1] THEN s
    ELSE LET ch == (s.ch \ {s.start}) \cup {s.i}
             i == NextFree(ch, s.i + 1)
             j == NextFree(s.oth, s.j + 1)
         IN MoveForward([s EXCEPT !.ch = ch, !.start = @ + 1, !.i = i, !.j = j,
                                  !.corresponding = IF j > s.j + 1 THEN i ELSE @], x)

RECURSIVE Settle(_, _)
Settle(s, x) ==
    LET settled(next) == IF next.i - next.start = s.i - s.start THEN next ELSE Settle(next, x)
        forth(back) ==
            MoveForward([back EXCEPT !.corresponding = IF back.j - 1 \in s.oth THEN back.i ELSE Len(x)], x)
    IN settled(forth(MoveBack(s, x)))

RECURSIVE BackTo(_)
BackTo(s) ==
    IF s.corresponding >= s.i THEN s
    ELSE BackTo([s EXCEPT !.ch = (@ \cup {s.start - 1}) \ {s.i - 1}, !.start = @ - 1, !.i = @ - 1,
                          !.j = LastFree(s.oth, @ - 1)])

RECURSIVE ShiftFrom(_, _, _, _, _)
ShiftFrom(ch, oth, x, i, j) ==
    IF i = Len(x) THEN ch
    ELSE IF i \notin ch THEN ShiftFrom(ch, oth, x, i + 1, NextFree(oth, j) + 1)
    ELSE LET run == [ch |-> ch, oth |-> oth, start |-> i, i |-> NextFree(ch, i + 1),
                     j |-> NextFree(oth, j), corresponding |-> Len(x)]
             behind(end) == ShiftFrom(end.ch, oth, x, end.i, end.j)
         IN behind(BackTo(Settle(run, x)))

ShiftBoundaries(changed, x, y) ==
    LET second(first) == <<first, ShiftFrom(changed[2], first, y, 0, 0)>>
    IN second(ShiftFrom(changed[1], changed[2], x, 0, 0))

-----------------------------------------------------------------------------
(* build_script() and diff_2_files().                                        *)

RECURSIVE BuildScript(_, _, _, _)
BuildScript(changed, i0, i1, script) ==
    IF i0 < 0 /\ i1 < 0 THEN script
    ELSE LET l0 == LastFree(changed[1], i0 - 1) + 1
             l1 == LastFree(changed[2], i1 - 1) + 1
             change == [line0 |-> l0, line1 |-> l1, deleted |-> i0 - l0, inserted |-> i1 - l1]
         IN BuildScript(changed, l0 - 1, l1 - 1,
                        IF l0 < i0 \/ l1 < i1 THEN <<change>> \o script ELSE script)

\* The changes of two sequences of classes.
Changed(x, y, minimal) ==
    LET all(l, r, ch) == {i \in 0..Len(l) - 1 : \A k \in DOMAIN r : r[k] = i => k - 1 \in ch}
        found(rx, ry, c) == ShiftBoundaries(<<all(x, rx, c[1]), all(y, ry, c[2])>>, x, y)
        compared(rx, ry) ==
            found(rx, ry, CompareSeq([k \in DOMAIN rx |-> x[rx[k] + 1]], [k \in DOMAIN ry |-> y[ry[k] + 1]],
                                     0, Len(rx), 0, Len(ry), minimal))
    IN compared(RealIndexes(x, y, minimal), RealIndexes(y, x, minimal))

Diff2Files(b0, after0, b1, after1, minimal, ignoreNumbers) ==
    LET script(x, y) == BuildScript(Changed(x, y, minimal), Len(x), Len(y), <<>>)
        within(ends) ==
            [prefix |-> PrefixLines(b0, ends.prefix),
             script |-> script(HashedLines(b0, ends.prefix, ends.suffix[1], ignoreNumbers),
                               HashedLines(b1, ends.prefix, ends.suffix[2], ignoreNumbers))]
    IN within(FindIdenticalEnds(b0, after0, b1, after1))

-----------------------------------------------------------------------------
(* DiffList::runDiff(): the script as a list of Diffs, each of which is some *)
(* equal lines and the lines that differ behind them.                        *)

Diff(eq, d1, d2) == [eq |-> eq, d1 |-> d1, d2 |-> d2]

\* The lines behind the last change: those of the common suffix, and empty
\* last lines, which have no character in the buffer.
Rest(n1, n2) == LET eq == Min({n1, n2}) IN Diff(eq, n1 - eq, n2 - eq)

\* The list made of the script s, behind the common prefix.
DiffList(s, prefix, size1, size2) ==
    LET end(k) == IF k = 0 THEN 0 ELSE s[k].line0 + s[k].deleted
        diffs == [k \in DOMAIN s |-> Diff(s[k].line0 - end(k - 1) + IF k = 1 THEN prefix ELSE 0,
                                          s[k].deleted, s[k].inserted)]
        rest == Rest(size1 - end(Len(s)) - prefix,
                     size2 - (Last(s).line1 + Last(s).inserted) - prefix)
    IN IF s = <<>> THEN <<Rest(size1, size2)>>
       ELSE IF rest.eq > 0 THEN Append(diffs, rest)
       ELSE [diffs EXCEPT ![Len(diffs)].d1 = @ + rest.d1, ![Len(diffs)].d2 = @ + rest.d2]

RunDiff(lines1, lines2, o) ==
    LET list(d) == DiffList(d.script, d.prefix, Len(lines1), Len(lines2))
    IN IF lines1 = <<>> \/ lines2 = <<>> THEN <<Diff(0, Len(lines1), Len(lines2))>>
       ELSE list(Diff2Files(Buffer(lines1), o.after1, Buffer(lines2), o.after2, o.tryHard, o.ignoreNumbers))
=============================================================================
