----------------------------- MODULE FindText -----------------------------
(* Edit / Find: the occurrences of a text in the windows A, B and C and the  *)
(* merge result, one after the other, and what each of them selects.  Lines  *)
(* and positions count from 0 as in the code; sequences from 1.  Upper and   *)
(* lower case are told apart.                                                *)
EXTENDS Integers, Sequences, SequencesExt

Windows == <<"A", "B", "C", "Output">>

\* FindDialog::restartFind() and nextWindow(), behind the last one "invalid".
Restart == [window |-> "A", line |-> 0, pos |-> 0]

Rank(window) == CHOOSE i \in DOMAIN Windows : Windows[i] = window

NextWindow(at) ==
    LET i == Rank(at.window)
    IN [window |-> IF i < Len(Windows) THEN Windows[i + 1] ELSE "invalid", line |-> 0, pos |-> 0]

\* QString::indexOf(): the first occurrence of s from a position on, -1 for none.
IndexOf(line, s, from) ==
    LET ps == {p \in from..(Len(line) - Len(s)) : SubSeq(line, p + 1, p + Len(s)) = s}
    IN IF ps = {} THEN -1 ELSE CHOOSE p \in ps : \A q \in ps : p <= q

\* findString(): from a line and a position in it.  The position is forgotten
\* behind the first line that has any text.
FindString(lines, s, line, pos) ==
    LET from[l \in line..Len(lines), p \in {0, pos}] ==
            IF l = Len(lines) THEN [found |-> FALSE, line |-> line, pos |-> pos]
            ELSE LET text == lines[l + 1]
                     at == IndexOf(text, s, p)
                 IN IF text = <<>> THEN from[l + 1, p]
                    ELSE IF at # -1 THEN [found |-> TRUE, line |-> l, pos |-> at]
                    ELSE from[l + 1, 0]
    IN from[line, pos]

\* Mutant: the search goes on behind the occurrence.
FoundBehind(r, s) == r.pos + Len(s)

\* Where the next search begins.
Behind(r, s) == r.pos + 1

\* slotEditFindNext(): the first occurrence in this window or one behind it;
\* "texts" are those of the windows to be searched.
EditFindNext(texts, s, at) ==
    LET search[i \in 0..Len(Windows)] ==
            LET now == FoldLeft(LAMBDA a, j : NextWindow(a), at, [j \in 1..i |-> j])
                r == FindString(texts[now.window], s, now.line, now.pos)
            IN IF now.window = "invalid" THEN [found |-> FALSE, at |-> Restart]
               ELSE IF now.window \in DOMAIN texts /\ r.found
                    THEN [found |-> TRUE, window |-> now.window, line |-> r.line, pos |-> r.pos,
                          at |-> [now EXCEPT !.line = r.line, !.pos = Behind(r, s)]]
               ELSE search[i + 1]
    IN search[0]

\* DiffTextWindow::setSelection(): a position in a line as one in the pieces
\* that word wrap breaks it into, the first piece being 0.
InPieces(lengths, pos) ==
    LET piece[i \in DOMAIN lengths, p \in Nat] ==
            IF p > lengths[i] THEN piece[i + 1, p - lengths[i]] ELSE [piece |-> i - 1, pos |-> p]
    IN piece[1, pos]

\* The characters of a line that are selected: all behind the begin and before
\* the end.
Selected(text, lengths, r, s) ==
    LET offset(at) == FoldLeft(+, 0, SubSeq(lengths, 1, at.piece)) + at.pos
    IN SubSeq(text, offset(InPieces(lengths, r.pos)) + 1, offset(InPieces(lengths, r.pos + Len(s))))
=============================================================================
