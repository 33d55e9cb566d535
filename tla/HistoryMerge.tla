---------------------------- MODULE HistoryMerge ----------------------------
(* The history merge of a version control log: Diff3LineList::               *)
(* findHistoryRange() and MergeResultWindow::slotMergeHistory().             *)
(*                                                                           *)
(* A line is the sequence of its words.  The first one is the lead, which    *)
(* all lines of the history have; "$Log$" after it begins the history.  A    *)
(* number there is what the regular expression for entries matches, and what *)
(* the sort key of the entry is made of.                                     *)
EXTENDS MergeBlocks

CONSTANT Number   \* words that are numbers |-> the number

Lead(t) == IF t = <<>> THEN "" ELSE t[1]
Words(t) == IF t = <<>> THEN <<>> ELSE Tail(t)
StringOf(row, s) == IF s \in DOMAIN row THEN row[s] ELSE <<>>
Inputs(three) == IF three THEN Sides ELSE {"A", "B"}
IsStart(t) == Words(t) = <<"$Log$">>

\* [first, last): the rows from one that begins the history in all inputs to
\* the first with another lead.  0 if there is none.
FindHistoryRange(rows, three) ==
    LET start == SelectInSeq(rows, LAMBDA r : \A s \in Inputs(three) : IsStart(StringOf(r, s)))
        lead == Lead(StringOf(rows[start], "A"))
        ends(k) == \E s \in Inputs(three) :
                       LET t == StringOf(rows[k], s) IN t # <<>> /\ Lead(t) # lead
        after == {k \in DOMAIN rows : k >= start /\ ends(k)}
    IN IF start = 0 THEN [first |-> 0, last |-> 0]
       ELSE [first |-> start,
             last |-> IF after = {} THEN Len(rows) + 1 ELSE CHOOSE k \in after : \A l \in after : k <= l]

-----------------------------------------------------------------------------
(* Entries.  The map of the history has for a key the lines of the entry in  *)
(* each input, none if the input does not have it.                           *)

\* calcHistorySortKey() fills a number up to four digits: with zeros behind it.
SortKey(n) == IF n < 10 THEN n * 1000 ELSE IF n < 100 THEN n * 100 ELSE n * 10

\* A line begins an entry: it has a number, or it follows an empty line.
BeginsEntry(words, regExp, afterEmpty) ==
    IF regExp THEN words # <<>> /\ words[1] \in DOMAIN Number ELSE words # <<>> /\ afterEmpty

KeyOf(words, regExp) == IF regExp THEN <<SortKey(Number[words[1]])>> ELSE words

NoEntry == [s \in Sides |-> <<>>]
Begun(entry) == entry.key # <<>>

Keep(h, s) ==
    LET known == h.key \in DOMAIN h.map
        entry == IF known THEN h.map[h.key] ELSE NoEntry
    IN [h EXCEPT !.map = (h.key :> [entry EXCEPT ![s] = h.lines]) @@ @,
                 !.new = IF known THEN @ ELSE Append(@, h.key)]

\* The line of one row.  An input without a line there has an empty one.
CollectRow(h, rows, k, s, regExp) ==
    LET t == StringOf(rows[k], s)
        words == Words(t)
        kept == IF Begun(h) /\ h.lines # <<>> THEN Keep(h, s) ELSE h
        line == SourceLine(k, s, FALSE)
        next == IF BeginsEntry(words, regExp, h.afterEmpty)
                THEN [kept EXCEPT !.key = KeyOf(words, regExp), !.lines = <<line>>]
                ELSE IF IsStart(t) THEN h
                ELSE [h EXCEPT !.lines = Append(@, line)]
    IN [next EXCEPT !.afterEmpty = words = <<>>]

\* Mutant: the last entry is not kept.
CollectUnended(h0, rows, range, s, regExp) ==
    LET ks == [i \in 1..(range.last - range.first - 1) |-> range.first + i]
        h == FoldLeft(LAMBDA h, k : CollectRow(h, rows, k, s, regExp),
                      [h0 EXCEPT !.key = <<>>, !.lines = <<>>, !.new = <<>>, !.afterEmpty = TRUE], ks)
    IN [h EXCEPT !.hits = h.new \o @]

\* collectHistoryInformation(): the entries an input adds come before those
\* of the inputs before it.
Collect(h0, rows, range, s, regExp) ==
    LET ks == [i \in 1..(range.last - range.first - 1) |-> range.first + i]
        end == FoldLeft(LAMBDA h, k : CollectRow(h, rows, k, s, regExp),
                        [h0 EXCEPT !.key = <<>>, !.lines = <<>>, !.new = <<>>, !.afterEmpty = TRUE], ks)
        h == IF Begun(end) THEN Keep(end, s) ELSE end
    IN [h EXCEPT !.hits = h.new \o @]

History(rows, range, three, regExp) ==
    FoldLeft(LAMBDA h, s : Collect(h, rows, range, s, regExp),
             [map |-> <<>>, hits |-> <<>>, key |-> <<>>, lines |-> <<>>, new |-> <<>>, afterEmpty |-> TRUE],
             IF three THEN <<"A", "B", "C">> ELSE <<"A", "B">>)

\* HistoryMapEntry::choice(): of three inputs, what both others have or one
\* has added, not what one has removed.
Choice(e, three) ==
    IF ~three THEN IF e["A"] = <<>> THEN e["B"] ELSE e["A"]
    ELSE IF e["A"] = <<>> THEN IF e["C"] = <<>> THEN e["B"] ELSE e["C"]
    ELSE IF e["B"] # <<>> /\ e["C"] # <<>> THEN e["A"] ELSE <<>>

\* HistoryMapEntry::staysInPlace(): the entry has the last rows, in all inputs.
StaysInPlace(e, three, last) ==
    \A s \in Inputs(three) :
        /\ e[s] # <<>>
        /\ e[s][1].row = e["A"][1].row
        /\ e[s][Len(e[s])].row = last - 1

\* The entries are taken from the end of the order while they stay in place.
\* staysInPlace() moves the end of the history through a reference: to the
\* first row of an entry that stays, and by one row if it does not stay.
InPlace(map, order, three, last0) ==
    LET stays[n \in 0..Len(order)] ==
            IF n = 0 THEN [n |-> 0, last |-> last0, on |-> TRUE]
            ELSE LET p == stays[n - 1]
                     e == map[order[Len(order) + 1 - n]]
                 IN IF ~p.on THEN p
                    ELSE IF StaysInPlace(e, three, p.last)
                    THEN [n |-> n, last |-> e["A"][1].row, on |-> TRUE]
                    ELSE [p EXCEPT !.last = @ - 1, !.on = FALSE]
        end == stays[Len(order)]
    IN [order |-> SubSeq(order, 1, Len(order) - end.n), last |-> end.last]

-----------------------------------------------------------------------------
(* slotMergeHistory().  The block of the first row takes all rows of the     *)
(* history and gets the lines; max is m_maxNofHistoryEntries, -1 for all.    *)

Sorted(keys) == SetToSortSeq(keys, LAMBDA a, b : a[1] > b[1])

\* The block that begins at row k, after SplitAt(); a split behind the last
\* row has added a blank one.
At(blocks, k) ==
    LET i == SelectInSeq(blocks, LAMBDA b : b.first = k) IN IF i = 0 THEN Len(blocks) ELSE i

IsBlank(rows, l) == Words(GetString(rows, l)) = <<>>

\* The lines the history gets: its first row, the lead, and the entries "taken".
HistoryLines(rows, range, map, taken, three) ==
    <<SourceLine(range.first, IF three THEN "C" ELSE "B", FALSE),
      SetString(Line(0), <<Lead(StringOf(rows[range.first], "A"))>>)>>
        \o FlattenSeq([n \in DOMAIN taken |-> Choice(map[taken[n]], three)])

\* The blocks i to j - 1 become one with those lines, without the last of them
\* if a second blank line would follow.
ReplaceHistory(rows, split, i, j, lines, sorting) ==
    LET next == IF j = i THEN lines ELSE split[j].lines
        twice == ~sorting /\ next # <<>> /\ IsBlank(rows, Last(lines)) /\ IsBlank(rows, next[1])
    IN SubSeq(split, 1, i - 1)
           \o <<[FoldLeft(Joined, split[i], SubSeq(split, i + 1, j - 1)) EXCEPT
                     !.lines = IF twice THEN Front(lines) ELSE lines]>>
           \o SubSeq(split, IF j = i THEN i + 1 ELSE j, Len(split))

MergeHistory(rows, blocks, three, regExp, sorting, max) ==
    LET replaced(range, rest, split, lines) ==
            ReplaceHistory(rows, split, At(split, range.first), At(split, rest.last), lines, sorting)
        merged(range, h, rest) ==
            replaced(range, rest, SplitAt(SplitAt(blocks, range.first), rest.last),
                     HistoryLines(rows, range, h.map,
                                  SubSeq(rest.order, 1, IF max \in 0..Len(rest.order) THEN max ELSE Len(rest.order)),
                                  three))
        ordered(range, h, all) ==
            merged(range, h, IF max = -1 THEN InPlace(h.map, all, three, range.last)
                             ELSE [order |-> all, last |-> range.last])
        collected(range, h) == ordered(range, h, IF sorting THEN Sorted(DOMAIN h.map) ELSE h.hits)
        within(range) == IF range.first = 0 THEN blocks ELSE collected(range, History(rows, range, three, regExp))
    IN within(FindHistoryRange(rows, three))
=============================================================================
