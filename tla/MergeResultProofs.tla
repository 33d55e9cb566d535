-------------------------- MODULE MergeResultProofs --------------------------
(* What MergeResult promises of every merge, proved; before it, lemmas about *)
(* the operators of MergeBlocks: what lines the blocks have that are built,  *)
(* solved, split and joined.                                                 *)
EXTENDS MergeResult, ListLemmas

-----------------------------------------------------------------------------
(* Lists of blocks.  C is the set of characters, "threeWay" whether there    *)
(* are three inputs.                                                         *)

RowList(rs, threeWay, C) ==
    /\ Len(rs) \in Nat \ {0} /\ DOMAIN rs = 1..Len(rs)
    /\ \A k \in 1..Len(rs) :
          /\ DOMAIN rs[k] # {} /\ DOMAIN rs[k] \subseteq IF threeWay THEN Sides ELSE {"A", "B"}
          /\ rs[k] \in [DOMAIN rs[k] -> Seq(C)]

\* A line that is removed keeps no text of the user's.
EditLine(C) ==
    {l \in [row : Nat, src : Sides \cup {"None"}, removed : BOOLEAN, changed : BOOLEAN,
            str : Seq(C)] : l.removed => l.str = <<>>}

Block(C) ==
    [first : Nat, len : Nat, conflict : BOOLEAN, ws : BOOLEAN, delta : BOOLEAN,
     lines : Seq(EditLine(C))]

\* Only what no input has is taken as removed.  Behind the first line of a
\* block, a line that the user has not touched comes from an input, and it has
\* a text if the rows were a conflict once.
FairLines(rs, ls, conflict) ==
    /\ \A i \in 1..Len(ls) : HasSource(rs, ls[i]) => ~ls[i].removed
    /\ \A i \in 2..Len(ls) : ~ls[i].changed =>
          ls[i].src # "None" /\ (conflict => HasSource(rs, ls[i]))

\* A blank block has no rows and no choice is made for it.  The rows of the
\* others are rows of the list, and white space conflicts if the block is one.
Fits(rs, threeWay, b, n) ==
    /\ b.first = 0 => b.len = 0 /\ ~b.delta /\ ~b.ws
    /\ b.first # 0 => b.len # 0 /\ b.first + b.len <= n + 1
    /\ b.ws => \A k \in b.first..b.first + b.len - 1 : WhiteSpaceConflict(rs[k], threeWay)

FairBlock(rs, threeWay, C, b, n) ==
    b \in Block(C) /\ FairLines(rs, b.lines, b.conflict) /\ Fits(rs, threeWay, b, n)

\* The blocks have the rows 1..n, in order; blank ones come last.
Chain(bs, n) ==
    /\ bs[1].first = 1
    /\ \A i \in 1..Len(bs) - 1 :
          bs[i + 1].first = 0 \/ (bs[i].first # 0 /\ bs[i + 1].first = bs[i].first + bs[i].len)
    /\ \A i \in 1..Len(bs) :
          bs[i].first # 0 /\ (i = Len(bs) \/ bs[i + 1].first = 0) => bs[i].first + bs[i].len = n + 1

FairList(rs, threeWay, C, bs, n) ==
    /\ bs \in Seq(Block(C)) /\ Len(bs) >= 1
    /\ \A i \in 1..Len(bs) : FairBlock(rs, threeWay, C, bs[i], n)
    /\ Chain(bs, n)

\* Of two lines, one behind the other, that the user has not touched and that
\* come from the same input, one has a text.
NoEmpty(rs, ls) ==
    \A i \in 2..Len(ls) : ~ls[i - 1].changed /\ ~ls[i].changed =>
        \/ ls[i].src # ls[i - 1].src
        \/ HasSource(rs, ls[i]) \/ HasSource(rs, ls[i - 1])

-----------------------------------------------------------------------------
(* buildFromDiff3(). *)

LEMMA SourceLineWell ==
    ASSUME NEW C, NEW k \in Nat, NEW s \in Sides \cup {"None"}, NEW removed \in BOOLEAN
    PROVE  /\ SourceLine(k, s, removed) \in EditLine(C)
           /\ SourceLine(k, s, removed).row = k /\ SourceLine(k, s, removed).src = s
           /\ SourceLine(k, s, removed).removed = removed
           /\ SourceLine(k, s, removed).changed = FALSE
           /\ SourceLine(k, s, removed).str = <<>>
<1>1. <<>> \in Seq(C)
  BY EmptySeq
<1>2. SourceLine(k, s, removed).str = <<>> /\ SourceLine(k, s, removed).row = k
  BY DEF SourceLine, Line
<1>3. SourceLine(k, s, removed).changed = FALSE
  BY DEF SourceLine, Line
<1>4. SourceLine(k, s, removed).removed = removed /\ SourceLine(k, s, removed).src = s
  BY DEF SourceLine, Line
<1>5. SourceLine(k, s, removed) \in EditLine(C)
  BY <1>1 DEF SourceLine, Line, EditLine
<1> QED BY <1>2, <1>3, <1>4, <1>5

\* What mergeOneLine() says of a row: a conflict, a line of the row, or the
\* lack of one.
LEMMA MergeOneLineWell ==
    ASSUME NEW row, NEW threeWay, DOMAIN row # {},
           DOMAIN row \subseteq IF threeWay THEN Sides ELSE {"A", "B"}
    PROVE  LET d == MergeOneLine(row, threeWay)
           IN /\ d.src \in Sides \cup {"None"} /\ d.removed \in BOOLEAN
              /\ d = Clash <=> d.src = "None"
              /\ d.removed => d.src \notin DOMAIN row
              /\ ~d.removed => d.src \in DOMAIN row \cup {"None"}
<1> DEFINE has == DOMAIN row
<1>1. Clash.src = "None" /\ Clash.removed = FALSE
  BY DEF Clash
<1>2. \A x \in Sides : Take(x).src = x /\ Take(x).removed = FALSE /\ Take(x) # Clash
  BY DEF Take, Clash, Sides
<1>3. \A x \in Sides : Drop(x).src = x /\ Drop(x).removed = TRUE /\ Drop(x) # Clash
  BY DEF Drop, Take, Clash, Sides
<1>4. LET d == [Take("C") EXCEPT !.alike = TRUE]
      IN d.src = "C" /\ d.removed = FALSE /\ d # Clash
  BY DEF Take, Clash
<1>5. CASE ~threeWay
  <2>1. \/ MergeOneLine(row, threeWay) = Take("A") /\ "A" \in has
        \/ MergeOneLine(row, threeWay) = Clash
    BY <1>5 DEF MergeOneLine, MergeTwo
  <2> QED BY <1>1, <1>2, <2>1 DEF Sides
<1>6. CASE threeWay
  <2>1. MergeOneLine(row, threeWay) = MergeThree(row) /\ has \subseteq Sides
    BY <1>6 DEF MergeOneLine
  <2>2. CASE has = Sides
    <3>1. MergeThree(row) \in {Take("A"), Take("B"), Take("C"), Clash}
      BY <2>2 DEF MergeThree, Sides
    <3> QED BY <1>1, <1>2, <2>1, <2>2, <3>1 DEF Sides
  <2>3. CASE has = {"A", "B"} \/ has = {"A"}
    <3>1. MergeThree(row) \in {Drop("C"), Clash}
      BY <2>3 DEF MergeThree, Sides
    <3> QED BY <1>1, <1>3, <2>1, <2>3, <3>1 DEF Sides
  <2>4. CASE has = {"A", "C"}
    <3>1. MergeThree(row) \in {Drop("B"), Clash}
      BY <2>4 DEF MergeThree, Sides
    <3> QED BY <1>1, <1>3, <2>1, <2>4, <3>1 DEF Sides
  <2>5. CASE has = {"B", "C"}
    <3>1. MergeThree(row) \in {[Take("C") EXCEPT !.alike = TRUE], Clash}
      BY <2>5 DEF MergeThree, Sides
    <3> QED BY <1>1, <1>4, <2>1, <2>5, <3>1 DEF Sides
  <2>6. CASE has = {"B"} \/ has = {"C"}
    <3>1. MergeThree(row) = Take(CHOOSE x \in has : TRUE)
      <4>1. /\ has # Sides /\ has # {"A", "B"} /\ has # {"A", "C"} /\ has # {"B", "C"}
            /\ has # {"A"}
        BY <2>6 DEF Sides
      <4> QED BY <4>1 DEF MergeThree
    <3>2. PICK x \in Sides : x = CHOOSE y \in has : TRUE
      BY <2>6 DEF Sides
    <3>3. MergeOneLine(row, threeWay) = Take(x)
      BY <2>1, <3>1, <3>2, Zenon
    <3>4. Take(x).src = x /\ Take(x).removed = FALSE /\ Take(x) # Clash /\ x # "None"
      BY <1>2, <3>2 DEF Sides
    <3> QED BY <3>2, <3>3, <3>4, Zenon
  <2> QED BY <2>1, <2>2, <2>3, <2>4, <2>5, <2>6 DEF Sides
<1> QED BY <1>5, <1>6

LEMMA NewBlockFair ==
    ASSUME NEW C, NEW rs, NEW threeWay, RowList(rs, threeWay, C), NEW k \in 1..Len(rs)
    PROVE  LET b == NewBlock(rs, threeWay, k)
               d == MergeOneLine(rs[k], threeWay)
           IN /\ FairBlock(rs, threeWay, C, b, k)
              /\ b.first = k /\ b.len = 1 /\ (b.conflict <=> d.src = "None")
              /\ Len(b.lines) = 1 /\ b.lines[1].src = d.src
<1> DEFINE b == NewBlock(rs, threeWay, k)
           d == MergeOneLine(rs[k], threeWay)
           l == SourceLine(k, d.src, d.removed)
<1>1. /\ d.src \in Sides \cup {"None"} /\ d.removed \in BOOLEAN
      /\ d = Clash <=> d.src = "None"
      /\ d.removed => d.src \notin DOMAIN rs[k]
  BY MergeOneLineWell DEF RowList
<1>2. /\ b.first = k /\ b.len = 1 /\ b.conflict = (d = Clash) /\ b.lines = <<l>>
      /\ b.ws = WhiteSpaceConflict(rs[k], threeWay) /\ b.delta = (d.src # "A")
      /\ b = [first |-> b.first, len |-> b.len, conflict |-> b.conflict,
              ws |-> b.ws, delta |-> b.delta, lines |-> b.lines]
  BY DEF NewBlock
<1>3. k \in Nat \ {0}
  BY DEF RowList
<1> HIDE DEF b, d
<1>4. l \in EditLine(C) /\ l.row = k /\ l.src = d.src /\ l.removed = d.removed /\ l.changed = FALSE
  <2>1. k \in Nat
    BY <1>3
  <2>2. PICK s \in Sides \cup {"None"}, r \in BOOLEAN : s = d.src /\ r = d.removed
    BY <1>1
  <2>3. l = SourceLine(k, s, r)
    BY <2>2
  <2> HIDE DEF l
  <2>4. /\ l \in EditLine(C)
        /\ l.row = k /\ l.src = s /\ l.removed = r /\ l.changed = FALSE
    <3>1. SourceLine(k, s, r) \in EditLine(C)
      BY <2>1, <2>2, SourceLineWell
    <3>2. SourceLine(k, s, r).row = k /\ SourceLine(k, s, r).src = s
      BY DEF SourceLine, Line
    <3>3. SourceLine(k, s, r).removed = r
      BY DEF SourceLine, Line
    <3>4. SourceLine(k, s, r).changed = FALSE
      BY DEF SourceLine, Line
    <3> QED BY <2>3, <3>1, <3>2, <3>3, <3>4, Zenon
  <2> QED BY <2>2, <2>4, Zenon
<1> HIDE DEF l
<1>5. b.lines \in Seq(EditLine(C)) /\ Len(b.lines) = 1 /\ b.lines[1] = l
  BY <1>2, <1>4
<1>6. b.ws \in BOOLEAN /\ b.conflict \in BOOLEAN /\ b.delta \in BOOLEAN
  BY <1>2 DEF WhiteSpaceConflict
<1>7. b \in Block(C)
  <2>1. b.first \in Nat /\ b.len \in Nat
    BY <1>2, <1>3
  <2> QED BY <1>2, <1>5, <1>6, <2>1 DEF Block
<1>8. FairLines(rs, b.lines, b.conflict)
  BY <1>1, <1>4, <1>5 DEF FairLines, HasSource
<1>9. Fits(rs, threeWay, b, k)
  <2>1. b.first # 0 /\ b.len # 0 /\ b.first + b.len <= k + 1
    BY <1>2, <1>3
  <2>2. \A j \in b.first..b.first + b.len - 1 : j = k
    BY <1>2, <1>3
  <2> QED BY <1>2, <2>1, <2>2 DEF Fits
<1> QED BY <1>1, <1>2, <1>4, <1>5, <1>7, <1>8, <1>9 DEF FairBlock, b, d

\* A line more, in the list of lines.
LEMMA FairLinesAppend ==
    ASSUME NEW C, NEW rs, NEW ls \in Seq(EditLine(C)), NEW l \in EditLine(C),
           FairLines(rs, ls, FALSE), HasSource(rs, l) => ~l.removed, l.src # "None"
    PROVE  ls \o <<l>> \in Seq(EditLine(C)) /\ FairLines(rs, ls \o <<l>>, FALSE)
<1> DEFINE r == Append(ls, l)
<1>1. r = ls \o <<l>>
  BY AppendIsConcat
<1>2. /\ r \in Seq(EditLine(C)) /\ Len(r) = Len(ls) + 1
      /\ \A i \in 1..Len(ls) : r[i] = ls[i]
      /\ r[Len(ls) + 1] = l
  BY AppendProperties
<1>3. Len(ls) \in Nat
  BY LenProperties
<1> HIDE DEF r
<1>4. \A i \in 1..Len(r) : HasSource(rs, r[i]) => ~r[i].removed
  BY <1>2, <1>3 DEF FairLines
<1>5. \A i \in 2..Len(r) : ~r[i].changed => r[i].src # "None"
  BY <1>2, <1>3 DEF FairLines
<1> QED BY <1>1, <1>2, <1>4, <1>5 DEF FairLines

LEMMA ExtendedFair ==
    ASSUME NEW C, NEW rs, NEW threeWay, RowList(rs, threeWay, C), NEW k \in 1..Len(rs),
           NEW b, FairBlock(rs, threeWay, C, b, k - 1), b.first # 0, b.first + b.len = k,
           b.conflict <=> MergeOneLine(rs[b.first], threeWay).src = "None",
           SameKind(rs[k], rs[b.first], threeWay)
    PROVE  LET e == Extended(b, NewBlock(rs, threeWay, k))
           IN /\ FairBlock(rs, threeWay, C, e, k)
              /\ e.first = b.first /\ e.len = b.len + 1 /\ (e.conflict <=> b.conflict)
<1> DEFINE new == NewBlock(rs, threeWay, k)
           e == Extended(b, new)
           d == MergeOneLine(rs[k], threeWay)
           o == MergeOneLine(rs[b.first], threeWay)
<1>1. /\ FairBlock(rs, threeWay, C, new, k) /\ new.first = k /\ new.len = 1
      /\ (new.conflict <=> d.src = "None")
      /\ Len(new.lines) = 1 /\ new.lines[1].src = d.src
  BY NewBlockFair
<1>2. k \in Nat /\ Len(rs) \in Nat
  BY DEF RowList
<1>3. /\ b \in Block(C) /\ b.first \in Nat /\ b.len \in Nat /\ b.conflict \in BOOLEAN
      /\ b.ws \in BOOLEAN /\ b.delta \in BOOLEAN /\ b.lines \in Seq(EditLine(C))
      /\ FairLines(rs, b.lines, b.conflict) /\ Fits(rs, threeWay, b, k - 1)
  BY DEF FairBlock, Block
<1>4. /\ new.lines \in Seq(EditLine(C)) /\ new.ws \in BOOLEAN /\ new.conflict \in BOOLEAN
      /\ FairLines(rs, new.lines, new.conflict) /\ Fits(rs, threeWay, new, k)
  BY <1>1 DEF FairBlock, Block
<1>5. b.first \in 1..Len(rs)
  BY <1>2, <1>3 DEF Fits
<1>6. (new.conflict /\ b.conflict) \/ (~new.conflict /\ ~b.conflict)
  <2>1. (d = Clash <=> d.src = "None") /\ (o = Clash <=> o.src = "None")
    BY <1>5, MergeOneLineWell DEF RowList
  <2>2. (d = Clash /\ o = Clash) \/ d.src = o.src
    BY DEF SameKind
  <2> HIDE DEF d, o, new
  <2> QED BY <1>1, <2>1, <2>2 DEF d, o
<1> HIDE DEF new, d, o
<1>7. /\ e.first = b.first /\ e.len = b.len + 1 /\ e.conflict = b.conflict
      /\ e.ws = (b.ws /\ new.ws) /\ e.delta = b.delta
      /\ e.lines = IF new.conflict /\ b.conflict THEN b.lines ELSE b.lines \o new.lines
  BY <1>3 DEF Extended, Block
<1>8. e.lines \in Seq(EditLine(C)) /\ FairLines(rs, e.lines, e.conflict)
  <2>1. CASE new.conflict /\ b.conflict
    BY <1>3, <1>7, <2>1
  <2>2. CASE ~new.conflict /\ ~b.conflict
    <3> DEFINE l == new.lines[1]
    <3>1. new.lines = <<l>> /\ l \in EditLine(C)
      BY <1>1, <1>4
    <3>2. HasSource(rs, l) => ~l.removed
      BY <1>1, <1>4 DEF FairLines
    <3>3. l.src # "None"
      BY <1>1, <2>2
    <3>4. b.conflict = FALSE /\ FairLines(rs, b.lines, FALSE)
      BY <1>3, <2>2
    <3> HIDE DEF l
    <3>5. b.lines \o <<l>> \in Seq(EditLine(C)) /\ FairLines(rs, b.lines \o <<l>>, FALSE)
      BY <1>3, <3>1, <3>2, <3>3, <3>4, FairLinesAppend
    <3> QED BY <1>7, <2>2, <3>1, <3>4, <3>5
  <2> QED BY <1>6, <2>1, <2>2
<1>9. e \in Block(C)
  <2>1. e.lines \in Seq(EditLine(C)) /\ e.ws \in BOOLEAN /\ e.len \in Nat
    BY <1>3, <1>4, <1>7, <1>8
  <2> QED BY <1>3, <1>7, <2>1 DEF Extended, Block
<1>10. Fits(rs, threeWay, e, k)
  <2>1. e.first # 0 /\ e.len # 0 /\ e.first + e.len <= k + 1
    BY <1>2, <1>3, <1>7
  <2>2. ASSUME e.ws, NEW j \in e.first..e.first + e.len - 1
        PROVE  WhiteSpaceConflict(rs[j], threeWay)
    <3>1. CASE j = k
      BY <1>1, <1>2, <1>4, <1>7, <2>2, <3>1 DEF Fits
    <3>2. CASE j # k
      <4>1. j \in b.first..b.first + b.len - 1
        BY <1>2, <1>3, <1>7, <2>2, <3>2
      <4> QED BY <1>3, <1>7, <2>2, <4>1 DEF Fits
    <3> QED BY <3>1, <3>2
  <2> QED BY <2>1, <2>2 DEF Fits
<1> QED BY <1>7, <1>8, <1>9, <1>10 DEF FairBlock, new

LEMMA FairBlockLater ==
    ASSUME NEW C, NEW rs, NEW threeWay, NEW b, NEW k \in Nat, FairBlock(rs, threeWay, C, b, k)
    PROVE  FairBlock(rs, threeWay, C, b, k + 1)
BY DEF FairBlock, Fits, Block

\* What buildFromDiff3() has made of the first k rows.
Built(rs, threeWay, C, bs, k) ==
    /\ bs \in Seq(Block(C))
    /\ k = 0 => bs = <<>>
    /\ k # 0 => FairList(rs, threeWay, C, bs, k)
    /\ \A i \in 1..Len(bs) :
          /\ bs[i].first # 0
          /\ bs[i].conflict <=> MergeOneLine(rs[bs[i].first], threeWay).src = "None"

LEMMA WithRowExtends ==
    ASSUME NEW C, NEW rs, NEW threeWay, RowList(rs, threeWay, C), NEW k \in 1..Len(rs),
           NEW bs \in Seq(Block(C)), Built(rs, threeWay, C, bs, k - 1),
           Len(bs) > 0, SameKind(rs[k], rs[bs[Len(bs)].first], threeWay)
    PROVE  Built(rs, threeWay, C, WithRow(rs, threeWay, bs, k), k)
<1> DEFINE n == Len(bs)
           e == Extended(bs[n], NewBlock(rs, threeWay, k))
           r == WithRow(rs, threeWay, bs, k)
<1>1. n \in Nat \ {0} /\ n \in 1..n /\ DOMAIN bs = 1..n /\ \A i \in 1..n : bs[i] \in Block(C)
  BY LenProperties, ElementOfSeq
<1>2. k \in Nat \ {0} /\ Len(rs) \in Nat
  BY DEF RowList
<1>3. k - 1 # 0
  BY EmptySeq DEF Built
<1>4. FairList(rs, threeWay, C, bs, k - 1)
  BY <1>3 DEF Built
<1>5. bs[n].first # 0 /\ bs[n].first + bs[n].len = k
  <2>1. bs[n].first # 0
    BY <1>1 DEF Built
  <2>2. bs[n].first + bs[n].len = k - 1 + 1
    BY <1>1, <1>4, <2>1 DEF FairList, Chain
  <2> QED BY <1>2, <2>1, <2>2
<1>6. FairBlock(rs, threeWay, C, bs[n], k - 1)
  BY <1>1, <1>4 DEF FairList
<1>7. bs[n].conflict <=> MergeOneLine(rs[bs[n].first], threeWay).src = "None"
  BY <1>1 DEF Built
<1>8. /\ FairBlock(rs, threeWay, C, e, k)
      /\ e.first = bs[n].first /\ e.len = bs[n].len + 1 /\ (e.conflict <=> bs[n].conflict)
  BY <1>5, <1>6, <1>7, ExtendedFair
<1>9. r = [bs EXCEPT ![n] = e]
  BY DEF WithRow
<1> HIDE DEF e, r
<1>10. /\ r \in Seq(Block(C)) /\ Len(r) = n /\ r[n] = e
       /\ \A i \in 1..n : i # n => r[i] = bs[i]
  <2>1. e \in Block(C)
    BY <1>8 DEF FairBlock
  <2> QED BY <1>1, <1>9, <2>1, ExceptSeq
<1> HIDE DEF n
<1>11. \A i \in 1..n : FairBlock(rs, threeWay, C, r[i], k)
  <2> SUFFICES ASSUME NEW i \in 1..n PROVE FairBlock(rs, threeWay, C, r[i], k)
    OBVIOUS
  <2>1. CASE i = n
    BY <1>8, <1>10, <2>1
  <2>2. CASE i # n
    <3>1. FairBlock(rs, threeWay, C, bs[i], k - 1)
      BY <1>4 DEF FairList, n
    <3>2. k - 1 \in Nat /\ k - 1 + 1 = k
      BY <1>2
    <3>3. FairBlock(rs, threeWay, C, bs[i], k)
      BY <3>1, <3>2, FairBlockLater
    <3> QED BY <1>10, <2>2, <3>3
  <2> QED BY <2>1, <2>2
<1>12. \A i \in 1..n : r[i].first = bs[i].first /\ (i # n => r[i] = bs[i])
  BY <1>8, <1>10
<1>13. Chain(r, k)
  <2>1. r[1].first = 1
    BY <1>1, <1>4, <1>12 DEF FairList, Chain
  <2>2. ASSUME NEW i \in 1..n - 1 PROVE r[i].first # 0 /\ r[i + 1].first = r[i].first + r[i].len
    <3>1. bs[i + 1].first # 0 /\ i \in 1..n /\ i + 1 \in 1..n /\ i # n
      BY <1>1 DEF Built, n
    <3>2. bs[i].first # 0 /\ bs[i + 1].first = bs[i].first + bs[i].len
      BY <1>4, <3>1 DEF FairList, Chain, n
    <3> QED BY <1>12, <3>1, <3>2
  <2>3. ASSUME NEW i \in 1..n, i = n \/ r[i + 1].first = 0
        PROVE  r[i].first + r[i].len = k + 1
    <3>1. i = n
      <4>1. CASE i # n
        <5>1. i + 1 \in 1..n
          BY <1>1, <4>1
        <5>2. r[i + 1].first # 0
          BY <1>12, <5>1 DEF Built, n
        <5> QED BY <2>3, <4>1, <5>2
      <4> QED BY <4>1
    <3> QED BY <1>1, <1>2, <1>5, <1>8, <1>10, <3>1, SMTT(30) DEF Block
  <2> QED BY <1>10, <2>1, <2>2, <2>3 DEF Chain
<1>14. \A i \in 1..n : /\ r[i].first # 0
                       /\ r[i].conflict <=> MergeOneLine(rs[r[i].first], threeWay).src = "None"
  BY <1>7, <1>8, <1>10, <1>12 DEF Built, n
<1> QED BY <1>1, <1>2, <1>10, <1>11, <1>13, <1>14 DEF Built, FairList, r

LEMMA WithRowAppends ==
    ASSUME NEW C, NEW rs, NEW threeWay, RowList(rs, threeWay, C), NEW k \in 1..Len(rs),
           NEW bs \in Seq(Block(C)), Built(rs, threeWay, C, bs, k - 1),
           ~(Len(bs) > 0 /\ SameKind(rs[k], rs[bs[Len(bs)].first], threeWay))
    PROVE  Built(rs, threeWay, C, WithRow(rs, threeWay, bs, k), k)
<1> DEFINE n == Len(bs)
           e == NewBlock(rs, threeWay, k)
           r == WithRow(rs, threeWay, bs, k)
<1>1. n \in Nat
  BY LenProperties
<1>2. k \in Nat \ {0} /\ Len(rs) \in Nat
  BY DEF RowList
<1>3. /\ FairBlock(rs, threeWay, C, e, k)
      /\ e.first = k /\ e.len = 1 /\ (e.conflict <=> MergeOneLine(rs[k], threeWay).src = "None")
  BY NewBlockFair
<1>4. r = Append(bs, e)
  BY DEF WithRow
<1>5. e \in Block(C)
  BY <1>3 DEF FairBlock
<1> HIDE DEF e, r
<1>6. /\ r \in Seq(Block(C)) /\ Len(r) = n + 1 /\ r[n + 1] = e
      /\ \A i \in 1..n : r[i] = bs[i]
  BY <1>4, <1>5, AppendProperties
<1>7. \A i \in 1..n + 1 : FairBlock(rs, threeWay, C, r[i], k)
  <2> SUFFICES ASSUME NEW i \in 1..n + 1 PROVE FairBlock(rs, threeWay, C, r[i], k)
    OBVIOUS
  <2>1. CASE i = n + 1
    BY <1>3, <1>6, <2>1
  <2>2. CASE i # n + 1
    <3>1. i \in 1..n /\ n # 0
      BY <1>1, <2>2
    <3>2. k - 1 # 0
      BY <3>1, EmptySeq DEF Built
    <3>3. FairBlock(rs, threeWay, C, bs[i], k - 1)
      BY <3>1, <3>2 DEF Built, FairList
    <3>4. k - 1 \in Nat /\ k - 1 + 1 = k
      BY <1>2
    <3>5. FairBlock(rs, threeWay, C, bs[i], k)
      BY <3>3, <3>4, FairBlockLater
    <3> QED BY <1>6, <3>1, <3>5
  <2> QED BY <2>1, <2>2
<1>8. \A i \in 1..n + 1 : /\ r[i].first # 0
                          /\ r[i].conflict <=> MergeOneLine(rs[r[i].first], threeWay).src = "None"
  <2> SUFFICES ASSUME NEW i \in 1..n + 1
               PROVE  /\ r[i].first # 0
                      /\ r[i].conflict <=> MergeOneLine(rs[r[i].first], threeWay).src = "None"
    OBVIOUS
  <2>1. CASE i = n + 1
    BY <1>2, <1>3, <1>6, <2>1
  <2>2. CASE i # n + 1
    <3>1. i \in 1..n
      BY <1>1, <2>2
    <3> QED BY <1>6, <3>1 DEF Built
  <2> QED BY <2>1, <2>2
<1>9. Chain(r, k)
  <2>1. CASE n = 0
    <3>1. k - 1 = 0
      <4>1. CASE k - 1 # 0
        BY <2>1, <4>1 DEF Built, FairList
      <4> QED BY <4>1
    <3> QED BY <1>2, <1>3, <1>6, <2>1, <3>1 DEF Chain
  <2>2. CASE n # 0
    <3> HIDE DEF n
    <3>1. k - 1 # 0
      BY <2>2, EmptySeq DEF Built, n
    <3>2. Chain(bs, k - 1)
      BY <3>1 DEF Built, FairList
    <3>3. n \in 1..n /\ 1 \in 1..n /\ bs[n].first # 0
      BY <1>1, <2>2 DEF Built, n
    <3>4. bs[n].first + bs[n].len = k
      <4>1. bs[n].first + bs[n].len = k - 1 + 1
        BY <3>2, <3>3 DEF Chain, n
      <4> QED BY <1>2, <4>1
    <3>5. r[1].first = 1
      BY <1>6, <3>2, <3>3 DEF Chain
    <3>6. ASSUME NEW i \in 1..n PROVE r[i + 1].first = r[i].first + r[i].len
      <4>1. CASE i = n
        BY <1>3, <1>6, <3>3, <3>4, <4>1
      <4>2. CASE i # n
        <5>1. i \in 1..n - 1 /\ i + 1 \in 1..n
          BY <1>1, <4>2
        <5>2. bs[i + 1].first # 0
          BY <5>1 DEF Built, n
        <5>3. bs[i + 1].first = bs[i].first + bs[i].len
          BY <3>2, <5>1, <5>2 DEF Chain, n
        <5> QED BY <1>6, <5>1, <5>3
      <4> QED BY <4>1, <4>2
    <3>7. ASSUME NEW i \in 1..n + 1, i = n + 1 \/ r[i + 1].first = 0
          PROVE  r[i].first + r[i].len = k + 1
      <4>1. i = n + 1
        <5>1. CASE i # n + 1
          <6>1. i + 1 \in 1..n + 1
            BY <1>1, <5>1
          <6> QED BY <1>8, <3>7, <5>1, <6>1
        <5> QED BY <5>1
      <4> QED BY <1>3, <1>6, <4>1
    <3>8. n + 1 - 1 = n
      BY <1>1
    <3>9. \A i \in 1..n : r[i].first # 0 /\ i \in 1..n + 1
      BY <1>1, <1>8
    <3> HIDE DEF r
    <3>10. \A i \in 1..Len(r) - 1 :
              r[i + 1].first = 0 \/ (r[i].first # 0 /\ r[i + 1].first = r[i].first + r[i].len)
      <4>1. Len(r) = n + 1
        BY <1>6
      <4>2. Len(r) - 1 = n
        BY <1>1, <4>1
      <4> QED BY <3>6, <3>9, <4>2
    <3>11. \A i \in 1..Len(r) :
              r[i].first # 0 /\ (i = Len(r) \/ r[i + 1].first = 0) => r[i].first + r[i].len = k + 1
      BY <1>6, <3>7
    <3> QED BY <3>5, <3>10, <3>11 DEF Chain
  <2> QED BY <2>1, <2>2
<1> QED BY <1>1, <1>2, <1>6, <1>7, <1>8, <1>9 DEF Built, FairList, r

\* Extended() and WithRow() of whatever blocks are blocks.
LEMMA WithRowType ==
    ASSUME NEW C, NEW rs, NEW threeWay, RowList(rs, threeWay, C)
    PROVE  \A bs \in Seq(Block(C)), k \in 1..Len(rs) : WithRow(rs, threeWay, bs, k) \in Seq(Block(C))
<1> SUFFICES ASSUME NEW bs \in Seq(Block(C)), NEW k \in 1..Len(rs)
             PROVE  WithRow(rs, threeWay, bs, k) \in Seq(Block(C))
  OBVIOUS
<1> DEFINE new == NewBlock(rs, threeWay, k)
           n == Len(bs)
           e == Extended(bs[n], new)
<1>1. new \in Block(C)
  BY NewBlockFair DEF FairBlock
<1>2. n \in Nat
  BY LenProperties
<1> HIDE DEF new
<1>3. CASE n > 0 /\ SameKind(rs[k], rs[bs[n].first], threeWay)
  <2>1. n \in 1..n /\ bs[n] \in Block(C)
    BY <1>2, <1>3, ElementOfSeq
  <2> DEFINE b == bs[n]
  <2>2. b \in Block(C)
    BY <2>1
  <2> HIDE DEF b
  <2>3. b.lines \in Seq(EditLine(C)) /\ new.lines \in Seq(EditLine(C)) /\ b.len \in Nat
    BY <1>1, <2>2 DEF Block
  <2>4. b.lines \o new.lines \in Seq(EditLine(C))
    BY <2>3, ConcatProperties
  <2> DEFINE w == b.ws /\ new.ws
             ls == IF new.conflict /\ b.conflict THEN b.lines ELSE b.lines \o new.lines
  <2>5. Extended(b, new) \in Block(C)
    <3>1. w \in BOOLEAN /\ ls \in Seq(EditLine(C)) /\ b.len + 1 \in Nat
      BY <2>3, <2>4
    <3>2. Extended(b, new) = [b EXCEPT !.len = b.len + 1, !.ws = w, !.lines = ls]
      BY DEF Extended
    <3> HIDE DEF w, ls
    <3> QED BY <2>2, <3>1, <3>2 DEF Block
  <2>6. WithRow(rs, threeWay, bs, k) = [bs EXCEPT ![n] = Extended(b, new)]
    BY <1>3 DEF WithRow, new, b
  <2> HIDE DEF n
  <2> QED BY <2>1, <2>5, <2>6, ExceptSeq DEF n
<1>4. CASE ~(n > 0 /\ SameKind(rs[k], rs[bs[n].first], threeWay))
  <2>1. WithRow(rs, threeWay, bs, k) = Append(bs, new)
    BY <1>4 DEF WithRow, new
  <2> QED BY <1>1, <2>1, AppendProperties
<1> QED BY <1>3, <1>4

\* What holds of no rows and goes on holding with each row holds of them all.
LEMMA BuildInduction ==
    ASSUME NEW C, NEW rs, NEW threeWay, RowList(rs, threeWay, C),
           NEW P, <<<<>>, 0>> \in P,
           \A bs \in Seq(Block(C)), k \in 1..Len(rs) :
              <<bs, k - 1>> \in P => <<WithRow(rs, threeWay, bs, k), k>> \in P
    PROVE  <<BuildFromDiff3(rs, threeWay), Len(rs)>> \in P
<1> DEFINE n == Len(rs)
           S == Seq(Block(C))
           G == [z \in S \X (1..n) |-> WithRow(rs, threeWay, z[1], z[2])]
           Is(f) == f = [k \in 0..n |-> IF k = 0 THEN <<>> ELSE WithRow(rs, threeWay, f[k - 1], k)]
           f == CHOOSE g : Is(g)
<1>1. n \in Nat \ {0} /\ <<>> \in S
  BY EmptySeq DEF RowList
<1>2. \A x \in S, k \in 1..n : G[<<x, k>>] = WithRow(rs, threeWay, x, k) /\ G[<<x, k>>] \in S
  <2> SUFFICES ASSUME NEW x \in S, NEW k \in 1..n
               PROVE  G[<<x, k>>] = WithRow(rs, threeWay, x, k) /\ G[<<x, k>>] \in S
    OBVIOUS
  <2>1. G[<<x, k>>] = WithRow(rs, threeWay, x, k)
    OBVIOUS
  <2>2. WithRow(rs, threeWay, x, k) \in S
    BY WithRowType
  <2> QED BY <2>1, <2>2
<1> HIDE DEF G
<1>3. \E g : Is(g)
  <2>1. PICK g : /\ g = [k \in 0..n |-> IF k = 0 THEN <<>> ELSE G[<<g[k - 1], k>>]]
                 /\ g \in [0..n -> S]
    <3> HIDE DEF S, n
    <3> QED BY <1>1, <1>2, RecursionExists
  <2>2. \A k \in 0..n : k # 0 => k \in 1..n /\ k - 1 \in 0..n
    BY <1>1
  <2> HIDE DEF n
  <2>3. \A k \in 0..n : k # 0 => G[<<g[k - 1], k>>] = WithRow(rs, threeWay, g[k - 1], k)
    <3> HIDE DEF S
    <3> QED BY <1>2, <2>1, <2>2
  <2>4. Is(g)
    BY <2>1, <2>3
  <2> QED BY <2>4
<1>4. Is(f)
  BY <1>3
<1>5. BuildFromDiff3(rs, threeWay) = f[n]
  BY DEF BuildFromDiff3
<1> HIDE DEF f
<1>6. f[0] = <<>> /\ \A k \in 1..n : f[k] = WithRow(rs, threeWay, f[k - 1], k)
  BY <1>1, <1>4
<1> DEFINE T == {k \in Nat : k <= n => f[k] \in S /\ <<f[k], k>> \in P}
<1>7. 0 \in T
  BY <1>1, <1>6
<1>8. ASSUME NEW k \in Nat, k \in T PROVE k + 1 \in T
  <2> SUFFICES ASSUME k + 1 <= n PROVE f[k + 1] \in S /\ <<f[k + 1], k + 1>> \in P
    OBVIOUS
  <2>1. k + 1 \in 1..n /\ k + 1 - 1 = k /\ k <= n
    BY <1>1
  <2>2. f[k] \in S /\ <<f[k], k>> \in P
    BY <1>8, <2>1
  <2>3. f[k + 1] = WithRow(rs, threeWay, f[k], k + 1)
    BY <1>6, <2>1
  <2>4. WithRow(rs, threeWay, f[k], k + 1) \in S
    BY <2>1, <2>2, WithRowType
  <2>5. <<WithRow(rs, threeWay, f[k], k + 1), k + 1>> \in P
    BY <2>1, <2>2
  <2> QED BY <2>3, <2>4, <2>5
<1> HIDE DEF T
<1>9. \A k \in Nat : k \in T
  BY <1>7, <1>8, SetInduction
<1>10. <<f[n], n>> \in P
  BY <1>1, <1>9 DEF T
<1> QED BY <1>5, <1>10

\* buildFromDiff3() leaves the rows in order in blocks without a text of the
\* user, with a conflict at most at the head of each.
LEMMA BuildFair ==
    ASSUME NEW C, NEW rs, NEW threeWay, RowList(rs, threeWay, C)
    PROVE  FairList(rs, threeWay, C, BuildFromDiff3(rs, threeWay), Len(rs))
<1> DEFINE P == {z \in Seq(Block(C)) \X Nat : Built(rs, threeWay, C, z[1], z[2])}
<1>1. Len(rs) \in Nat \ {0}
  BY DEF RowList
<1>2. <<<<>>, 0>> \in P
  <2>1. <<>> \in Seq(Block(C)) /\ 1..Len(<<>>) = {}
    BY EmptySeq
  <2>2. Built(rs, threeWay, C, <<>>, 0)
    BY <2>1 DEF Built
  <2> QED BY <2>1, <2>2
<1>3. ASSUME NEW bs \in Seq(Block(C)), NEW k \in 1..Len(rs), <<bs, k - 1>> \in P
      PROVE  <<WithRow(rs, threeWay, bs, k), k>> \in P
  <2>1. Built(rs, threeWay, C, bs, k - 1)
    BY <1>3
  <2>2. Built(rs, threeWay, C, WithRow(rs, threeWay, bs, k), k)
    BY <2>1, WithRowExtends, WithRowAppends
  <2>3. WithRow(rs, threeWay, bs, k) \in Seq(Block(C)) /\ k \in Nat
    BY <1>1, WithRowType
  <2> QED BY <2>2, <2>3
<1> HIDE DEF P
<1>4. <<BuildFromDiff3(rs, threeWay), Len(rs)>> \in P
  BY <1>2, <1>3, BuildInduction
<1>5. Built(rs, threeWay, C, BuildFromDiff3(rs, threeWay), Len(rs))
  BY <1>4 DEF P
<1> QED BY <1>1, <1>5 DEF Built

-----------------------------------------------------------------------------
(* updateDefaults(). *)

\* A list whose blocks are of the rows of another list.
LEMMA SameRows ==
    ASSUME NEW C, NEW rs, NEW threeWay, NEW n \in Nat, NEW bs, FairList(rs, threeWay, C, bs, n),
           NEW cs \in Seq(Block(C)), Len(cs) = Len(bs),
           \A i \in 1..Len(bs) : /\ FairBlock(rs, threeWay, C, cs[i], n)
                                 /\ cs[i].first = bs[i].first /\ cs[i].len = bs[i].len
    PROVE  FairList(rs, threeWay, C, cs, n)
<1>1. Len(bs) \in Nat \ {0} /\ 1 \in 1..Len(bs)
  BY LenProperties DEF FairList
<1>2. Chain(cs, n)
  <2>1. cs[1].first = 1
    BY <1>1 DEF FairList, Chain
  <2>2. ASSUME NEW i \in 1..Len(bs) - 1
        PROVE  cs[i + 1].first = 0 \/ (cs[i].first # 0 /\ cs[i + 1].first = cs[i].first + cs[i].len)
    <3>1. i \in 1..Len(bs) /\ i + 1 \in 1..Len(bs)
      BY <1>1
    <3>2. bs[i + 1].first = 0 \/ (bs[i].first # 0 /\ bs[i + 1].first = bs[i].first + bs[i].len)
      BY DEF FairList, Chain
    <3> QED BY <3>1, <3>2
  <2>3. ASSUME NEW i \in 1..Len(bs), cs[i].first # 0, i = Len(bs) \/ cs[i + 1].first = 0
        PROVE  cs[i].first + cs[i].len = n + 1
    <3>1. i = Len(bs) \/ bs[i + 1].first = 0
      <4>1. CASE i # Len(bs)
        <5>1. i + 1 \in 1..Len(bs)
          BY <1>1, <4>1
        <5> QED BY <2>3, <4>1, <5>1
      <4> QED BY <4>1
    <3>2. bs[i].first + bs[i].len = n + 1
      BY <2>3, <3>1 DEF FairList, Chain
    <3> QED BY <3>2
  <2> QED BY <2>1, <2>2, <2>3 DEF Chain
<1> QED BY <1>1, <1>2 DEF FairList

\* A block with other lines is of the same rows.
LEMMA OtherLines ==
    ASSUME NEW C, NEW rs, NEW threeWay, NEW n, NEW b, FairBlock(rs, threeWay, C, b, n),
           NEW ls \in Seq(EditLine(C)), FairLines(rs, ls, b.conflict)
    PROVE  LET r == [b EXCEPT !.lines = ls]
           IN /\ FairBlock(rs, threeWay, C, r, n)
              /\ r.first = b.first /\ r.len = b.len /\ r.lines = ls
<1> DEFINE r == [b EXCEPT !.lines = ls]
<1>1. b \in Block(C)
  BY DEF FairBlock
<1>2. r \in Block(C) /\ r.lines = ls /\ r.first = b.first /\ r.len = b.len
  BY <1>1 DEF Block
<1>3. r.conflict = b.conflict /\ r.ws = b.ws /\ r.delta = b.delta
  BY <1>1 DEF Block
<1> HIDE DEF r
<1>4. Fits(rs, threeWay, r, n)
  BY <1>2, <1>3 DEF FairBlock, Fits
<1> QED BY <1>2, <1>3, <1>4 DEF FairBlock, r

LEMMA OneLineFair ==
    ASSUME NEW C, NEW rs, NEW l \in EditLine(C), HasSource(rs, l) => ~l.removed,
           NEW conflict
    PROVE  <<l>> \in Seq(EditLine(C)) /\ FairLines(rs, <<l>>, conflict)
<1>1. <<l>> \in Seq(EditLine(C)) /\ Len(<<l>>) = 1 /\ <<l>>[1] = l
  OBVIOUS
<1>2. 2..1 = {}
  OBVIOUS
<1> QED BY <1>1, <1>2 DEF FairLines

LEMMA LineWell ==
    ASSUME NEW C, NEW rs, NEW k \in Nat
    PROVE  Line(k) \in EditLine(C) /\ Line(k).src = "None" /\ Line(k).row = k
           /\ ~HasSource(rs, Line(k)) /\ IsConflict(Line(k))
<1>1. <<>> \in Seq(C)
  BY EmptySeq
<1> QED BY <1>1 DEF Line, EditLine, HasSource, IsConflict

\* A line taken from an input has a text if the input has one in the row.
LEMMA TakenLine ==
    ASSUME NEW C, NEW rs, NEW k \in Nat, NEW s \in Sides
    PROVE  /\ SourceLine(k, s, FALSE) \in EditLine(C)
           /\ HasSource(rs, SourceLine(k, s, FALSE)) <=> k \in DOMAIN rs /\ s \in DOMAIN rs[k]
           /\ ~SourceLine(k, s, FALSE).removed /\ ~SourceLine(k, s, FALSE).changed
           /\ SourceLine(k, s, FALSE).src = s /\ s # "None"
           /\ RemovedLine(k, s) \in EditLine(C)
           /\ HasSource(rs, RemovedLine(k, s)) => k \in DOMAIN rs /\ s \in DOMAIN rs[k]
           /\ RemovedLine(k, s).src = s
<1>1. s \in Sides \cup {"None"} /\ s # "None"
  BY DEF Sides
<1>2. RemovedLine(k, s) = SourceLine(k, s, TRUE)
  BY DEF RemovedLine
<1>3. /\ SourceLine(k, s, TRUE) \in EditLine(C)
      /\ SourceLine(k, s, TRUE).row = k /\ SourceLine(k, s, TRUE).src = s
  BY <1>1, SourceLineWell
<1>4. /\ SourceLine(k, s, FALSE) \in EditLine(C)
      /\ SourceLine(k, s, FALSE).row = k /\ SourceLine(k, s, FALSE).src = s
      /\ SourceLine(k, s, FALSE).removed = FALSE /\ SourceLine(k, s, FALSE).changed = FALSE
  BY <1>1, SourceLineWell
<1> QED BY <1>1, <1>2, <1>3, <1>4 DEF HasSource

\* The rows of a block.
LEMMA RowsOfBlock ==
    ASSUME NEW C, NEW rs, NEW threeWay, RowList(rs, threeWay, C), NEW b,
           FairBlock(rs, threeWay, C, b, Len(rs)), b.first # 0
    PROVE  /\ RowsOf(b) \in Seq(1..Len(rs)) /\ Len(RowsOf(b)) = b.len
           /\ b.first \in 1..Len(rs) /\ b.len \in Nat \ {0}
           /\ \A i \in 1..b.len : RowsOf(b)[i] = b.first + i - 1
<1>1. b.first \in Nat /\ b.len \in Nat /\ b.len # 0 /\ b.first + b.len <= Len(rs) + 1
  BY DEF FairBlock, Block, Fits
<1>2. Len(rs) \in Nat
  BY DEF RowList
<1>3. \A i \in 1..b.len : b.first + i - 1 \in 1..Len(rs)
  BY <1>1, <1>2
<1>4. RowsOf(b) \in [1..b.len -> 1..Len(rs)]
  BY <1>3 DEF RowsOf
<1>5. RowsOf(b) \in Seq(1..Len(rs)) /\ Len(RowsOf(b)) = b.len
  BY <1>1, <1>4, MapSeq
<1> QED BY <1>1, <1>2, <1>5 DEF RowsOf

LEMMA ChosenFair ==
    ASSUME NEW C, NEW rs, NEW threeWay, RowList(rs, threeWay, C), NEW b,
           FairBlock(rs, threeWay, C, b, Len(rs)), b.first # 0, NEW s \in Sides
    PROVE  LET r == Chosen(rs, b, s)
           IN /\ FairBlock(rs, threeWay, C, r, Len(rs))
              /\ r.first = b.first /\ r.len = b.len
<1> DEFINE K == {i \in 1..b.len : s \in DOMAIN rs[RowsOf(b)[i]]}
           ks == Kept(RowsOf(b), K)
           ls == IF ks = <<>> THEN <<RemovedLine(b.first, s)>>
                 ELSE [i \in DOMAIN ks |-> SourceLine(ks[i], s, FALSE)]
<1>1. /\ RowsOf(b) \in Seq(1..Len(rs)) /\ Len(RowsOf(b)) = b.len
      /\ b.first \in 1..Len(rs) /\ b.len \in Nat \ {0}
      /\ \A i \in 1..b.len : RowsOf(b)[i] = b.first + i - 1
  BY RowsOfBlock
<1>2. DOMAIN rs = 1..Len(rs) /\ Len(rs) \in Nat
  BY DEF RowList
<1>3. KeptWell(RowsOf(b), K, 1..Len(rs))
  <2>1. K \subseteq Int
    OBVIOUS
  <2> HIDE DEF K
  <2> QED BY <1>1, <2>1, KeptElements
<1>4. /\ ks \in Seq(1..Len(rs))
      /\ \A n \in 1..Len(ks) : s \in DOMAIN rs[ks[n]]
      /\ (\A i \in 1..b.len : i \notin K) <=> ks = <<>>
  <2>1. \A n \in 1..Len(ks) : \E i \in n..b.len : i \in K /\ ks[n] = RowsOf(b)[i]
    BY <1>1, <1>3 DEF KeptWell
  <2>2. \A n \in 1..Len(ks) : s \in DOMAIN rs[ks[n]]
    BY <2>1
  <2> HIDE DEF K
  <2> QED BY <1>1, <1>3, <2>2 DEF KeptWell
<1>5. ls \in Seq(EditLine(C)) /\ FairLines(rs, ls, b.conflict)
  <2>1. CASE ks = <<>>
    <3>1. s \notin DOMAIN rs[b.first]
      <4>1. 1 \in 1..b.len /\ RowsOf(b)[1] = b.first
        BY <1>1
      <4>2. 1 \notin K
        BY <1>4, <2>1, <4>1
      <4> QED BY <4>1, <4>2
    <3>2. b.first \in Nat
      BY <1>1
    <3>3. RemovedLine(b.first, s) \in EditLine(C) /\ ~HasSource(rs, RemovedLine(b.first, s))
      BY <3>1, <3>2, TakenLine
    <3>4. ls = <<RemovedLine(b.first, s)>>
      BY <2>1
    <3> HIDE DEF ls
    <3> QED BY <3>3, <3>4, OneLineFair
  <2>2. CASE ks # <<>>
    <3> DEFINE m == Len(ks)
    <3> HIDE DEF ks
    <3>1. m \in Nat /\ DOMAIN ks = 1..m /\ \A i \in 1..m : ks[i] \in 1..Len(rs)
      BY <1>4, LenProperties, ElementOfSeq
    <3>2. ls = [i \in 1..m |-> SourceLine(ks[i], s, FALSE)]
      BY <2>2, <3>1
    <3>3. \A i \in 1..m :
             /\ SourceLine(ks[i], s, FALSE) \in EditLine(C)
             /\ HasSource(rs, SourceLine(ks[i], s, FALSE))
             /\ ~SourceLine(ks[i], s, FALSE).removed
             /\ SourceLine(ks[i], s, FALSE).src # "None"
      <4> SUFFICES ASSUME NEW i \in 1..m
                   PROVE  /\ SourceLine(ks[i], s, FALSE) \in EditLine(C)
                          /\ HasSource(rs, SourceLine(ks[i], s, FALSE))
                          /\ ~SourceLine(ks[i], s, FALSE).removed
                          /\ SourceLine(ks[i], s, FALSE).src # "None"
        OBVIOUS
      <4>1. ks[i] \in Nat /\ ks[i] \in DOMAIN rs /\ s \in DOMAIN rs[ks[i]]
        BY <1>2, <1>4, <3>1
      <4> QED BY <4>1, TakenLine
    <3> HIDE DEF m, ls
    <3>4. ls \in [1..m -> EditLine(C)]
      BY <3>2, <3>3
    <3>5. ls \in Seq(EditLine(C)) /\ Len(ls) = m
      BY <3>1, <3>4, MapSeq
    <3>6. \A i \in 1..m : HasSource(rs, ls[i]) /\ ~ls[i].removed /\ ls[i].src # "None"
      BY <3>2, <3>3
    <3>7. 2..m \subseteq 1..m
      BY <3>1
    <3> QED BY <3>5, <3>6, <3>7 DEF FairLines
  <2> QED BY <2>1, <2>2
<1>6. Chosen(rs, b, s) = [b EXCEPT !.lines = ls]
  BY DEF Chosen
<1> HIDE DEF ls
<1> QED BY <1>5, <1>6, OtherLines

LEMMA UnsolvedFair ==
    ASSUME NEW C, NEW rs, NEW threeWay, NEW n, NEW b, FairBlock(rs, threeWay, C, b, n)
    PROVE  LET r == Unsolved(b)
           IN /\ FairBlock(rs, threeWay, C, r, n)
              /\ r.first = b.first /\ r.len = b.len
<1> DEFINE r == Unsolved(b)
           ls == <<Line(b.first)>>
<1>1. b \in Block(C)
  BY DEF FairBlock
<1>2. b.first \in Nat
  BY <1>1 DEF Block
<1>3. Line(b.first) \in EditLine(C) /\ ~HasSource(rs, Line(b.first))
  BY <1>2, LineWell
<1>4. ls \in Seq(EditLine(C)) /\ FairLines(rs, ls, TRUE)
  BY <1>3, OneLineFair
<1>5. r = [b EXCEPT !.lines = ls, !.conflict = TRUE]
  BY DEF Unsolved
<1> HIDE DEF ls, r
<1>6. r \in Block(C) /\ r.lines = ls /\ r.first = b.first /\ r.len = b.len
  BY <1>1, <1>4, <1>5 DEF Block
<1>7. r.conflict /\ r.ws = b.ws /\ r.delta = b.delta
  BY <1>1, <1>5 DEF Block
<1>8. FairLines(rs, r.lines, r.conflict)
  BY <1>4, <1>6, <1>7 DEF FairLines
<1>9. Fits(rs, threeWay, r, n)
  BY <1>6, <1>7 DEF FairBlock, Fits
<1> QED BY <1>6, <1>8, <1>9 DEF FairBlock, r

\* What updateDefaults() does to a block.
UpdatedBlock(rs, b, s, conflictsOnly, whiteOnly) ==
    IF ~MayUpdate(b, conflictsOnly, whiteOnly) THEN b
    ELSE IF s = "Invalid" THEN Unsolved(b) ELSE Chosen(rs, b, s)

LEMMA UpdateDefaultsFair ==
    ASSUME NEW C, NEW rs, NEW threeWay, RowList(rs, threeWay, C), NEW bs,
           FairList(rs, threeWay, C, bs, Len(rs)), NEW s \in Sides \cup {"Invalid"},
           NEW conflictsOnly, NEW whiteOnly
    PROVE  LET cs == UpdateDefaults(rs, bs, s, conflictsOnly, whiteOnly)
           IN /\ FairList(rs, threeWay, C, cs, Len(rs)) /\ Len(cs) = Len(bs)
              /\ \A i \in 1..Len(bs) :
                    cs[i] = UpdatedBlock(rs, bs[i], s, conflictsOnly, whiteOnly)
<1> DEFINE cs == UpdateDefaults(rs, bs, s, conflictsOnly, whiteOnly)
           m == Len(bs)
<1>1. bs \in Seq(Block(C)) /\ m \in Nat /\ DOMAIN bs = 1..m /\ Len(rs) \in Nat
  BY LenProperties DEF FairList, RowList
<1>2. \A i \in 1..m : cs[i] = UpdatedBlock(rs, bs[i], s, conflictsOnly, whiteOnly)
  BY <1>1 DEF UpdateDefaults, UpdatedBlock
<1>3. cs = [i \in 1..m |-> cs[i]]
  BY <1>1 DEF UpdateDefaults
<1> HIDE DEF cs
<1>4. \A i \in 1..m : /\ FairBlock(rs, threeWay, C, cs[i], Len(rs))
                      /\ cs[i].first = bs[i].first /\ cs[i].len = bs[i].len
  <2> SUFFICES ASSUME NEW i \in 1..m
               PROVE  /\ FairBlock(rs, threeWay, C, cs[i], Len(rs))
                      /\ cs[i].first = bs[i].first /\ cs[i].len = bs[i].len
    OBVIOUS
  <2>1. FairBlock(rs, threeWay, C, bs[i], Len(rs))
    BY DEF FairList
  <2>2. CASE ~MayUpdate(bs[i], conflictsOnly, whiteOnly)
    BY <1>2, <2>1, <2>2 DEF UpdatedBlock
  <2>3. CASE MayUpdate(bs[i], conflictsOnly, whiteOnly) /\ s = "Invalid"
    BY <1>2, <2>1, <2>3, UnsolvedFair DEF UpdatedBlock
  <2>4. CASE MayUpdate(bs[i], conflictsOnly, whiteOnly) /\ s # "Invalid"
    <3>1. bs[i].first # 0
      BY <2>1, <2>4 DEF MayUpdate, FairBlock, Fits
    <3>2. cs[i] = Chosen(rs, bs[i], s) /\ s \in Sides
      BY <1>2, <2>4 DEF UpdatedBlock
    <3> QED BY <2>1, <3>1, <3>2, ChosenFair
  <2> QED BY <2>2, <2>3, <2>4
<1>5. cs \in Seq(Block(C)) /\ Len(cs) = m
  <2>1. \A i \in 1..m : cs[i] \in Block(C)
    BY <1>4 DEF FairBlock
  <2>2. cs \in [1..m -> Block(C)]
    BY <1>3, <2>1
  <2> QED BY <1>1, <2>2, MapSeq
<1>6. FairList(rs, threeWay, C, cs, Len(rs))
  BY <1>1, <1>4, <1>5, SameRows
<1> QED BY <1>2, <1>5, <1>6 DEF cs

-----------------------------------------------------------------------------
(* removeEmptySource(). *)

LEMMA RemoveEmptyFair ==
    ASSUME NEW C, NEW rs, NEW threeWay, NEW n, NEW b, FairBlock(rs, threeWay, C, b, n)
    PROVE  LET r == RemoveEmptySource(rs, b)
           IN /\ FairBlock(rs, threeWay, C, r, n) /\ NoEmpty(rs, r.lines)
              /\ r.first = b.first /\ r.len = b.len
              /\ NoEmpty(rs, b.lines) /\ ~HasModifiedText(b) => r.lines = b.lines
<1> DEFINE ls == b.lines
           shows(l) == HasSource(rs, l) /\ ~l.removed
           empty(i) == /\ i > 1
                       /\ ~shows(ls[i]) /\ ~shows(ls[i - 1])
                       /\ ls[i].src = ls[i - 1].src
           K == {i \in DOMAIN ls : ~empty(i)}
           ks == Kept(ls, K)
<1>1. ls \in Seq(EditLine(C)) /\ FairLines(rs, ls, b.conflict)
  BY DEF FairBlock, Block
<1>2. Len(ls) \in Nat /\ DOMAIN ls = 1..Len(ls) /\ K \subseteq Int
  BY <1>1, LenProperties
<1>3. RemoveEmptySource(rs, b) = [b EXCEPT !.lines = ks]
  BY DEF RemoveEmptySource
<1>4. KeptWell(ls, K, EditLine(C)) /\ KeptNear(ls, K)
  <2> HIDE DEF K
  <2> QED BY <1>1, <1>2, KeptElements, KeptNeighbours
<1>5. \A i \in 1..Len(ls) : shows(ls[i]) <=> HasSource(rs, ls[i])
  BY <1>1 DEF FairLines
<1>6. \A i \in 1..Len(ls) : i \notin K =>
         /\ i - 1 \in 1..Len(ls) /\ ~HasSource(rs, ls[i]) /\ ~HasSource(rs, ls[i - 1])
         /\ ls[i].src = ls[i - 1].src
  <2> SUFFICES ASSUME NEW i \in 1..Len(ls), i \notin K
               PROVE  /\ i - 1 \in 1..Len(ls) /\ ~HasSource(rs, ls[i])
                      /\ ~HasSource(rs, ls[i - 1]) /\ ls[i].src = ls[i - 1].src
    OBVIOUS
  <2>1. empty(i)
    BY <1>2
  <2>2. i - 1 \in 1..Len(ls)
    BY <1>2, <2>1
  <2> HIDE DEF shows
  <2> QED BY <1>5, <2>1, <2>2
<1>7. \A i \in 2..Len(ls) : i \in K =>
         \/ HasSource(rs, ls[i]) \/ HasSource(rs, ls[i - 1])
         \/ ls[i].src # ls[i - 1].src
  <2> SUFFICES ASSUME NEW i \in 2..Len(ls), i \in K
               PROVE  \/ HasSource(rs, ls[i]) \/ HasSource(rs, ls[i - 1])
                      \/ ls[i].src # ls[i - 1].src
    OBVIOUS
  <2>1. ~empty(i) /\ i > 1 /\ i \in 1..Len(ls) /\ i - 1 \in 1..Len(ls)
    BY <1>2
  <2> HIDE DEF shows
  <2> QED BY <1>5, <2>1
<1> HIDE DEF ls, K, ks
<1>8. ks \in Seq(EditLine(C)) /\ Len(ks) \in Nat
  BY <1>4, LenProperties DEF KeptWell, ks
<1>9. FairLines(rs, ks, b.conflict)
  <2>1. \A m \in 1..Len(ks) : \E i \in m..Len(ls) : ks[m] = ls[i]
    BY <1>4 DEF KeptWell, ks
  <2>2. ASSUME NEW m \in 1..Len(ks) PROVE HasSource(rs, ks[m]) => ~ks[m].removed
    BY <1>1, <1>2, <2>1 DEF FairLines
  <2>3. ASSUME NEW m \in 2..Len(ks), ~ks[m].changed
        PROVE  ks[m].src # "None" /\ (b.conflict => HasSource(rs, ks[m]))
    <3>1. m \in 1..Len(ks)
      BY <1>8
    <3>2. PICK i \in m..Len(ls) : ks[m] = ls[i]
      BY <2>1, <3>1
    <3>3. i \in 2..Len(ls)
      BY <1>2, <3>2
    <3> QED BY <1>1, <2>3, <3>2, <3>3 DEF FairLines
  <2> QED BY <2>2, <2>3 DEF FairLines
<1>10. NoEmpty(rs, ks)
  <2> SUFFICES ASSUME NEW m \in 2..Len(ks),
                      ks[m].src = ks[m - 1].src,
                      ~HasSource(rs, ks[m]), ~HasSource(rs, ks[m - 1])
               PROVE  FALSE
    BY DEF NoEmpty
  <2>1. m - 1 \in 1..Len(ks) - 1 /\ m - 1 + 1 = m
    BY <1>8
  <2>2. PICK i, j \in 1..Len(ls) :
           /\ i < j /\ i \in K /\ j \in K /\ ks[m - 1] = ls[i] /\ ks[m] = ls[j]
           /\ \A x \in i + 1..j - 1 : x \notin K
    BY <1>4, <2>1 DEF KeptNear, ks
  <2> DEFINE T == {x \in Nat : i + x < j => ls[i + x].src = ls[i].src /\ ~HasSource(rs, ls[i + x])}
  <2>3. 0 \in T
    BY <2>2
  <2>4. ASSUME NEW x \in Nat, x \in T PROVE x + 1 \in T
    <3> SUFFICES ASSUME i + (x + 1) < j
                 PROVE  /\ ls[i + (x + 1)].src = ls[i].src
                        /\ ~HasSource(rs, ls[i + (x + 1)])
      OBVIOUS
    <3>1. /\ i + (x + 1) \in i + 1..j - 1 /\ i + (x + 1) \in 1..Len(ls)
          /\ i + (x + 1) - 1 = i + x /\ i + x < j
      BY <1>2, <2>2
    <3>2. i + (x + 1) \notin K
      BY <2>2, <3>1
    <3>3. ls[i + x].src = ls[i].src
      BY <2>4, <3>1
    <3> QED BY <1>6, <3>1, <3>2, <3>3
  <2> HIDE DEF T
  <2>5. \A x \in Nat : x \in T
    BY <2>3, <2>4, SetInduction
  <2>6. j - 1 - i \in Nat /\ i + (j - 1 - i) = j - 1 /\ j - 1 < j /\ j \in 2..Len(ls)
    BY <1>2, <2>2
  <2>7. ls[j - 1].src = ls[i].src /\ ~HasSource(rs, ls[j - 1])
    BY <2>5, <2>6 DEF T
  <2>8. ls[j].src = ls[i].src /\ ~HasSource(rs, ls[j])
    BY <2>2
  <2> QED BY <1>7, <2>2, <2>6, <2>7, <2>8
<1>11. ASSUME NoEmpty(rs, ls), \A i \in 1..Len(ls) : ~ls[i].changed PROVE ks = ls
  <2>1. ASSUME NEW i \in 1..Len(ls), i \notin K PROVE FALSE
    <3>1. i - 1 \in 1..Len(ls) /\ i \in 2..Len(ls)
      BY <1>2, <1>6, <2>1
    <3> QED BY <1>6, <1>11, <2>1, <3>1 DEF NoEmpty
  <2> QED BY <1>4, <2>1 DEF KeptWell, ks
<1>12. ~HasModifiedText(b) => \A i \in 1..Len(ls) : ~ls[i].changed
  BY <1>2 DEF HasModifiedText, ls
<1> QED BY <1>3, <1>8, <1>9, <1>10, <1>11, <1>12, OtherLines DEF ls

-----------------------------------------------------------------------------
(* Choose(). *)

LEMMA ChooseFair ==
    ASSUME NEW C, NEW rs, NEW threeWay, RowList(rs, threeWay, C), NEW n, NEW b,
           FairBlock(rs, threeWay, C, b, n), NEW s \in Sides
    PROVE  LET r == Choose(rs, b, s)
           IN /\ FairBlock(rs, threeWay, C, r, n) /\ NoEmpty(rs, r.lines)
              /\ r.first = b.first /\ r.len = b.len
<1> DEFINE W == {l \in EditLine(C) : HasSource(rs, l) => ~l.removed}
           active == \E i \in DOMAIN b.lines : b.lines[i].src = s
           added == IF active THEN <<>>
                    ELSE [i \in 1..b.len |-> SourceLine(b.first + i - 1, s, FALSE)]
           all == LinesLeft(b, s) \o added
           K == {i \in DOMAIN all : HasSource(rs, all[i])}
           lines == Kept(all, K)
           ls == IF lines # <<>> THEN lines
                 ELSE IF active THEN <<Line(b.first)>> ELSE <<RemovedLine(b.first, s)>>
<1>1. /\ b.lines \in Seq(EditLine(C)) /\ Len(b.lines) \in Nat /\ DOMAIN b.lines = 1..Len(b.lines)
      /\ b.first \in Nat /\ b.len \in Nat
  BY LenProperties DEF FairBlock, Block
<1>2. b.lines \in Seq(W)
  <2>1. \A i \in 1..Len(b.lines) : b.lines[i] \in W
    BY <1>1, ElementOfSeq DEF FairBlock, FairLines
  <2>2. b.lines = [i \in 1..Len(b.lines) |-> b.lines[i]]
    BY <1>1, SeqDef
  <2> HIDE DEF W
  <2>3. b.lines \in [1..Len(b.lines) -> W]
    BY <2>1, <2>2
  <2> QED BY <1>1, <2>3, MapSeq
<1>3. LinesLeft(b, s) \in Seq(W)
  <2> DEFINE L == {i \in DOMAIN b.lines :
                      b.lines[i].src # s /\ ~IsConflict(b.lines[i]) /\ ~b.lines[i].changed}
  <2>1. LinesLeft(b, s) = Kept(b.lines, L)
    BY DEF LinesLeft
  <2>2. L \subseteq Int
    BY <1>1
  <2> HIDE DEF L, W
  <2>3. KeptWell(b.lines, L, W)
    BY <1>2, <2>2, KeptElements
  <2> QED BY <2>1, <2>3 DEF KeptWell
<1>4. added \in Seq(W)
  <2>1. CASE active
    BY <2>1
  <2>2. CASE ~active
    <3>1. \A i \in 1..b.len : SourceLine(b.first + i - 1, s, FALSE) \in W
      <4> SUFFICES ASSUME NEW i \in 1..b.len PROVE SourceLine(b.first + i - 1, s, FALSE) \in W
        OBVIOUS
      <4>1. b.first + i - 1 \in Nat
        BY <1>1
      <4> QED BY <4>1, TakenLine
    <3> HIDE DEF W
    <3>2. added \in [1..b.len -> W]
      BY <2>2, <3>1
    <3> HIDE DEF added
    <3> QED BY <1>1, <3>2, MapSeq
  <2> QED BY <2>1, <2>2
<1>9. ASSUME ~active, b.first \in DOMAIN rs, s \in DOMAIN rs[b.first]
      PROVE  Len(added) >= 1 /\ HasSource(rs, added[1])
  <2>1. b.first # 0
    BY <1>9 DEF RowList
  <2>2. b.len >= 1 /\ 1 \in 1..b.len
    BY <1>1, <2>1 DEF FairBlock, Fits
  <2>3. b.first + 1 - 1 = b.first
    BY <1>1
  <2> DEFINE f == [i \in 1..b.len |-> SourceLine(b.first + i - 1, s, FALSE)]
  <2>4. added = f /\ f[1] = SourceLine(b.first, s, FALSE)
    BY <1>9, <2>2, <2>3
  <2>6. Len(f) = b.len
    <3>1. f \in [1..b.len -> {f[i] : i \in 1..b.len}]
      OBVIOUS
    <3> HIDE DEF f
    <3> QED BY <1>1, <3>1, MapSeq
  <2> HIDE DEF added, f
  <2>5. HasSource(rs, SourceLine(b.first, s, FALSE))
    BY <1>1, <1>9, TakenLine
  <2> QED BY <2>2, <2>4, <2>5, <2>6
<1> HIDE DEF added
<1>5. /\ all \in Seq(W) /\ Len(all) = Len(LinesLeft(b, s)) + Len(added)
      /\ Len(added) >= 1 => all[Len(LinesLeft(b, s)) + 1] = added[1]
      /\ Len(LinesLeft(b, s)) \in Nat /\ Len(added) \in Nat
  <2> HIDE DEF W
  <2> QED BY <1>3, <1>4, ConcatProperties, LenProperties
<1> HIDE DEF all
<1>10. ASSUME lines = <<>>, ~active
       PROVE  ~(b.first \in DOMAIN rs /\ s \in DOMAIN rs[b.first])
  <2> SUFFICES ASSUME b.first \in DOMAIN rs, s \in DOMAIN rs[b.first] PROVE FALSE
    OBVIOUS
  <2> DEFINE x == Len(LinesLeft(b, s)) + 1
  <2>1. Len(added) >= 1 /\ HasSource(rs, added[1])
    BY <1>9, <1>10
  <2>2. x \in 1..Len(all) /\ all[x] = added[1]
    BY <1>5, <2>1
  <2>3. Len(all) \in Nat /\ DOMAIN all = 1..Len(all) /\ K \subseteq Int
    BY <1>5, LenProperties
  <2>4. x \in K
    BY <2>1, <2>2, <2>3
  <2>5. KeptWell(all, K, W)
    <3> HIDE DEF K, W
    <3> QED BY <1>5, <2>3, KeptElements
  <2> HIDE DEF x, K
  <2> QED BY <1>10, <2>2, <2>4, <2>5 DEF KeptWell
<1>6. lines \in Seq(W) /\ \A i \in 1..Len(lines) : HasSource(rs, lines[i])
  <2>1. K \subseteq Int /\ Len(all) \in Nat
    BY <1>5, LenProperties
  <2>2. KeptWell(all, K, W)
    <3> HIDE DEF K, W
    <3> QED BY <1>5, <2>1, KeptElements
  <2>3. \A i \in 1..Len(lines) : \E j \in i..Len(all) : j \in K /\ lines[i] = all[j]
    BY <2>2 DEF KeptWell
  <2>4. lines \in Seq(W)
    BY <2>2 DEF KeptWell
  <2> HIDE DEF lines
  <2> QED BY <2>3, <2>4
<1> HIDE DEF lines
<1>7. ls \in Seq(EditLine(C)) /\ FairLines(rs, ls, b.conflict) /\ NoEmpty(rs, ls)
  <2>1. CASE lines # <<>>
    <3>1. Len(lines) \in Nat /\ DOMAIN lines = 1..Len(lines) /\ \A i \in 1..Len(lines) : lines[i] \in W
      BY <1>6, LenProperties, ElementOfSeq
    <3>2. lines = [i \in 1..Len(lines) |-> lines[i]]
      BY <1>6, <3>1, SeqDef
    <3>3. lines \in [1..Len(lines) -> EditLine(C)]
      BY <3>1, <3>2
    <3>4. lines \in Seq(EditLine(C))
      BY <3>1, <3>3, MapSeq
    <3>5. \A i \in 2..Len(lines) : i \in 1..Len(lines)
      BY <3>1
    <3>6. \A i \in 1..Len(lines) : HasSource(rs, lines[i]) /\ ~lines[i].removed /\ lines[i].src # "None"
      BY <1>6, <3>1 DEF HasSource
    <3>7. FairLines(rs, lines, b.conflict) /\ NoEmpty(rs, lines)
      BY <3>5, <3>6 DEF FairLines, NoEmpty
    <3> QED BY <2>1, <3>4, <3>7
  <2>2. CASE lines = <<>>
    <3>1. PICK l : l \in EditLine(C) /\ (HasSource(rs, l) => ~l.removed) /\ ls = <<l>>
      <4>1. CASE active
        <5>1. Line(b.first) \in EditLine(C) /\ ~HasSource(rs, Line(b.first))
          BY <1>1, LineWell
        <5> QED BY <2>2, <4>1, <5>1
      <4>2. CASE ~active
        <5>1. /\ RemovedLine(b.first, s) \in EditLine(C)
              /\ HasSource(rs, RemovedLine(b.first, s)) => ~RemovedLine(b.first, s).removed
          <6>1. CASE ~HasSource(rs, RemovedLine(b.first, s))
            BY <1>1, <6>1, TakenLine
          <6>2. CASE HasSource(rs, RemovedLine(b.first, s))
            BY <1>1, <1>10, <2>2, <4>2, <6>2, TakenLine
          <6> QED BY <6>1, <6>2
        <5> QED BY <2>2, <4>2, <5>1
      <4> QED BY <4>1, <4>2
    <3>2. <<l>> \in Seq(EditLine(C)) /\ FairLines(rs, <<l>>, b.conflict)
      BY <3>1, OneLineFair
    <3>3. NoEmpty(rs, <<l>>)
      <4>1. 2..Len(<<l>>) = {}
        OBVIOUS
      <4> QED BY <4>1 DEF NoEmpty
    <3> QED BY <3>1, <3>2, <3>3
  <2> QED BY <2>1, <2>2
<1>8. Choose(rs, b, s) = [b EXCEPT !.lines = ls]
  BY DEF Choose, lines, all, added
<1> HIDE DEF ls
<1> QED BY <1>7, <1>8, OtherLines

-----------------------------------------------------------------------------
(* splitAtDiff3LineIdx(). *)

\* The first lines of a block, and its last ones.
LEMMA PartOfLines ==
    ASSUME NEW C, NEW rs, NEW ls \in Seq(EditLine(C)), NEW conflict,
           FairLines(rs, ls, conflict), NEW i \in 1..Len(ls) + 1, NEW j \in 0..Len(ls),
           i <= j + 1
    PROVE  LET r == SubSeq(ls, i, j)
           IN /\ r \in Seq(EditLine(C)) /\ FairLines(rs, r, conflict)
              /\ NoEmpty(rs, ls) => NoEmpty(rs, r)
<1> DEFINE r == SubSeq(ls, i, j)
<1>1. Len(ls) \in Nat
  BY LenProperties
<1>2. /\ r \in Seq(EditLine(C)) /\ Len(r) = j - i + 1
      /\ \A x \in 1..j - i + 1 : r[x] = ls[i + x - 1]
  <2>1. CASE i = j + 1
    <3>1. r = <<>>
      BY <1>1, <2>1, SubSeqProperties
    <3> QED BY <1>1, <2>1, <3>1, EmptySeq
  <2>2. CASE i # j + 1
    <3>1. i \in 1..Len(ls) /\ j \in 1..Len(ls) /\ i <= j
      BY <1>1, <2>2
    <3>2. \A x \in i..j : ls[x] \in EditLine(C)
      BY <1>1, <3>1, ElementOfSeq
    <3>3. /\ r \in Seq(EditLine(C)) /\ Len(r) = IF i <= j THEN j - i + 1 ELSE 0
          /\ \A x \in 1..j - i + 1 : r[x] = ls[i + x - 1]
      BY <3>1, <3>2, SubSeqProperties
    <3> QED BY <3>1, <3>3
  <2> QED BY <2>1, <2>2
<1> HIDE DEF r
<1>3. \A x \in 1..Len(r) : i + x - 1 \in 1..Len(ls) /\ (x # 1 => i + x - 1 \in 2..Len(ls))
  BY <1>1, <1>2
<1>4. \A x \in 2..Len(r) : x \in 1..Len(r) /\ x # 1 /\ x - 1 \in 1..Len(r) /\ i + (x - 1) - 1 = i + x - 1 - 1
  BY <1>1, <1>2
<1>5. FairLines(rs, r, conflict)
  BY <1>2, <1>3, <1>4 DEF FairLines
<1>6. NoEmpty(rs, ls) => NoEmpty(rs, r)
  <2> SUFFICES ASSUME NoEmpty(rs, ls), NEW x \in 2..Len(r), ~r[x - 1].changed, ~r[x].changed
               PROVE  \/ r[x].src # r[x - 1].src
                      \/ HasSource(rs, r[x]) \/ HasSource(rs, r[x - 1])
    BY DEF NoEmpty
  <2> DEFINE y == i + x - 1
  <2>1. y \in 2..Len(ls) /\ r[x] = ls[y] /\ r[x - 1] = ls[y - 1]
    BY <1>2, <1>3, <1>4, SMTT(30)
  <2> HIDE DEF y
  <2> QED BY <2>1 DEF NoEmpty
<1> QED BY <1>2, <1>5, <1>6 DEF r

\* A block of part of the rows.
LEMMA OtherRows ==
    ASSUME NEW C, NEW rs, NEW threeWay, NEW n \in Nat, NEW b, FairBlock(rs, threeWay, C, b, n),
           NEW r \in Block(C), r.conflict = b.conflict, r.ws = b.ws, r.delta = b.delta,
           r.first # 0, r.len # 0, b.first # 0, b.first <= r.first,
           r.first + r.len <= b.first + b.len, FairLines(rs, r.lines, b.conflict)
    PROVE  FairBlock(rs, threeWay, C, r, n)
<1>1. b \in Block(C) /\ b.first \in Nat /\ b.len \in Nat /\ r.first \in Nat /\ r.len \in Nat
  BY DEF FairBlock, Block
<1>2. Fits(rs, threeWay, r, n)
  <2>1. b.first + b.len <= n + 1
    BY DEF FairBlock, Fits
  <2>2. r.first + r.len <= n + 1
    BY <1>1, <2>1
  <2>3. \A j \in r.first..r.first + r.len - 1 : j \in b.first..b.first + b.len - 1
    BY <1>1
  <2> QED BY <2>2, <2>3 DEF FairBlock, Fits
<1> QED BY <1>2 DEF FairBlock

LEMMA HalvesFair ==
    ASSUME NEW C, NEW rs, NEW threeWay, NEW n \in Nat, NEW b, FairBlock(rs, threeWay, C, b, n),
           NEW k \in Nat, b.first < k, k < b.first + b.len, b.first # 0
    PROVE  LET u == Halves(b, k)[1]
               l == Halves(b, k)[2]
           IN /\ FairBlock(rs, threeWay, C, u, n) /\ FairBlock(rs, threeWay, C, l, n)
              /\ u.first = b.first /\ u.first + u.len = k
              /\ l.first = k /\ l.first + l.len = b.first + b.len
              /\ NoEmpty(rs, b.lines) => NoEmpty(rs, u.lines) /\ NoEmpty(rs, l.lines)
<1> DEFINE ls == b.lines
           at == SelectInSeq(ls, LAMBDA l : l.row = k)
           us == IF at = 0 THEN ls ELSE SubSeq(ls, 1, at - 1)
           vs == IF at = 0 THEN <<Line(k)>> ELSE SubSeq(ls, at, Len(ls))
           u == Halves(b, k)[1]
           v == Halves(b, k)[2]
<1>1. /\ ls \in Seq(EditLine(C)) /\ FairLines(rs, ls, b.conflict)
      /\ b \in Block(C) /\ b.first \in Nat /\ b.len \in Nat /\ Len(ls) \in Nat
  BY LenProperties DEF FairBlock, Block
<1>2. at \in 0..Len(ls)
  <2> DEFINE I == {x \in 1..Len(ls) : ls[x].row = k}
  <2>1. at = IF I # {} THEN Min(I) ELSE 0
    BY DEF SelectInSeq
  <2>2. I \subseteq Nat /\ I \subseteq 1..Len(ls)
    OBVIOUS
  <2> HIDE DEF I
  <2>3. I # {} => Min(I) \in I
    BY <2>2, MinWell
  <2> QED BY <1>1, <2>1, <2>2, <2>3
<1>3. /\ u = [b EXCEPT !.len = k - b.first, !.lines = us]
      /\ v = [b EXCEPT !.first = k, !.len = b.len - (k - b.first), !.lines = vs]
  BY DEF Halves
<1> HIDE DEF at, ls
<1>4. /\ us \in Seq(EditLine(C)) /\ FairLines(rs, us, b.conflict)
      /\ NoEmpty(rs, ls) => NoEmpty(rs, us)
  <2>1. CASE at = 0
    BY <1>1, <2>1
  <2>2. CASE at # 0
    <3>1. at - 1 \in 0..Len(ls) /\ 1 \in 1..Len(ls) + 1 /\ 1 <= at - 1 + 1
      BY <1>1, <1>2, <2>2
    <3> QED BY <1>1, <2>2, <3>1, PartOfLines
  <2> QED BY <2>1, <2>2
<1>5. /\ vs \in Seq(EditLine(C)) /\ FairLines(rs, vs, b.conflict)
      /\ NoEmpty(rs, ls) => NoEmpty(rs, vs)
  <2>1. CASE at = 0
    <3>1. vs = <<Line(k)>> /\ Line(k) \in EditLine(C) /\ ~HasSource(rs, Line(k))
      BY <2>1, LineWell
    <3> HIDE DEF vs
    <3>2. vs \in Seq(EditLine(C)) /\ FairLines(rs, vs, b.conflict)
      BY <3>1, OneLineFair
    <3>3. 2..Len(vs) = {}
      BY <3>1
    <3> QED BY <3>2, <3>3 DEF NoEmpty
  <2>2. CASE at # 0
    <3>1. Len(ls) \in 0..Len(ls) /\ at \in 1..Len(ls) + 1 /\ at <= Len(ls) + 1
      BY <1>1, <1>2, <2>2
    <3> QED BY <1>1, <2>2, <3>1, PartOfLines
  <2> QED BY <2>1, <2>2
<1> HIDE DEF us, vs, u, v
<1>6. /\ FairBlock(rs, threeWay, C, u, n)
      /\ u.first = b.first /\ u.len = k - b.first /\ u.lines = us
  <2>1. k - b.first \in Nat \ {0}
    BY <1>1
  <2>2. /\ u \in Block(C)
        /\ u.first = b.first /\ u.len = k - b.first /\ u.lines = us
        /\ u.conflict = b.conflict /\ u.ws = b.ws /\ u.delta = b.delta
    BY <1>1, <1>3, <1>4, <2>1 DEF Block
  <2>3. u.len # 0 /\ b.first <= u.first /\ u.first + u.len <= b.first + b.len
    BY <1>1, <2>2
  <2> QED BY <1>4, <2>2, <2>3, OtherRows
<1>7. /\ FairBlock(rs, threeWay, C, v, n)
      /\ v.first = k /\ v.len = b.len - (k - b.first) /\ v.lines = vs
  <2>1. b.len - (k - b.first) \in Nat \ {0} /\ k # 0
    BY <1>1, SMTT(30)
  <2>2. /\ v \in Block(C)
        /\ v.first = k /\ v.len = b.len - (k - b.first) /\ v.lines = vs
        /\ v.conflict = b.conflict /\ v.ws = b.ws /\ v.delta = b.delta
    BY <1>1, <1>3, <1>5, <2>1 DEF Block
  <2>3. v.len # 0 /\ b.first <= v.first /\ v.first + v.len <= b.first + b.len
    BY <1>1, <2>2
  <2> QED BY <1>5, <2>1, <2>2, <2>3, OtherRows
<1>8. u.first + u.len = k /\ v.first + v.len = b.first + b.len
  BY <1>1, <1>6, <1>7
<1> QED BY <1>4, <1>5, <1>6, <1>7, <1>8 DEF u, v, ls

NoEmptyList(rs, bs) == \A i \in 1..Len(bs) : NoEmpty(rs, bs[i].lines)

LEMMA BlankFair ==
    ASSUME NEW C, NEW rs, NEW threeWay, NEW n
    PROVE  /\ FairBlock(rs, threeWay, C, BlankBlock, n) /\ BlankBlock.first = 0
           /\ NoEmpty(rs, BlankBlock.lines)
<1>1. <<>> \in Seq(EditLine(C)) /\ 1..Len(<<>>) = {} /\ 2..Len(<<>>) = {}
  BY EmptySeq
<1>2. BlankBlock \in Block(C)
  BY <1>1 DEF BlankBlock, Block
<1>3. BlankBlock.lines = <<>> /\ BlankBlock.first = 0 /\ BlankBlock.len = 0
  BY DEF BlankBlock
<1>4. ~BlankBlock.ws /\ ~BlankBlock.delta
  BY DEF BlankBlock
<1>5. FairLines(rs, BlankBlock.lines, BlankBlock.conflict) /\ NoEmpty(rs, BlankBlock.lines)
  BY <1>1, <1>3 DEF FairLines, NoEmpty
<1> QED BY <1>2, <1>3, <1>4, <1>5 DEF FairBlock, Fits

\* The block that is split begins before the row, the next one behind it.
LEMMA BlockToSplitWell ==
    ASSUME NEW C, NEW rs, NEW threeWay, NEW n \in Nat, NEW bs, FairList(rs, threeWay, C, bs, n),
           NEW k \in 1..n + 1
    PROVE  LET j == BlockToSplit(bs, k)
           IN j = 0 \/ /\ j \in 1..Len(bs) /\ bs[j].first < k
                       /\ j # Len(bs) => bs[j + 1].first > k
<1> DEFINE m == Len(bs)
           I == {x \in 1..m : bs[x].first >= k}
           j == BlockToSplit(bs, k)
<1>1. /\ m \in Nat \ {0} /\ bs[1].first = 1
      /\ \A x \in 1..m : bs[x].first \in Nat
  BY LenProperties DEF FairList, Chain, FairBlock, Block
<1>2. I \subseteq Nat /\ I \subseteq 1..m
  OBVIOUS
<1>3. CASE I = {}
  <2>1. SelectInSeq(bs, LAMBDA b : b.first >= k) = 0
    BY <1>3 DEF SelectInSeq
  <2>2. j = m
    BY <2>1 DEF BlockToSplit
  <2>3. m \in 1..m /\ m \notin I
    BY <1>1, <1>3
  <2> HIDE DEF j
  <2> QED BY <1>1, <2>2, <2>3 DEF j
<1>4. CASE I # {}
  <2> DEFINE x == Min(I)
  <2>1. SelectInSeq(bs, LAMBDA b : b.first >= k) = x
    BY <1>4 DEF SelectInSeq
  <2>2. x \in I /\ \A y \in I : x <= y
    <3> HIDE DEF I
    <3> QED BY <1>2, <1>4, MinWell
  <2>3. x # 0
    BY <2>2
  <2>4. j = IF bs[x].first = k THEN 0 ELSE x - 1
    BY <2>1, <2>3 DEF BlockToSplit
  <2> HIDE DEF x, j
  <2>5. CASE bs[x].first = k
    BY <2>4, <2>5 DEF j
  <2>6. CASE bs[x].first # k
    <3>1. x # 1 /\ bs[x].first > k
      BY <1>1, <2>2, <2>6
    <3>2. x - 1 \in 1..m /\ x - 1 + 1 = x /\ ~(x <= x - 1)
      BY <1>1, <2>2, <3>1
    <3>3. bs[x - 1].first < k
      BY <1>1, <2>2, <3>2
    <3> QED BY <2>4, <2>6, <3>1, <3>2, <3>3 DEF j
  <2> QED BY <2>5, <2>6
<1> QED BY <1>3, <1>4

LEMMA SplitAtFair ==
    ASSUME NEW C, NEW rs, NEW threeWay, NEW n \in Nat, NEW bs, FairList(rs, threeWay, C, bs, n),
           NEW k \in 1..n + 1
    PROVE  /\ FairList(rs, threeWay, C, SplitAt(bs, k), n)
           /\ NoEmptyList(rs, bs) => NoEmptyList(rs, SplitAt(bs, k))
<1> DEFINE m == Len(bs)
           j == BlockToSplit(bs, k)
           b == bs[j]
           parts == IF SplitInside(b, k) THEN Halves(b, k) ELSE <<b, BlankBlock>>
           r == SubSeq(bs, 1, j - 1) \o parts \o SubSeq(bs, j + 1, m)
<1>1. /\ bs \in Seq(Block(C)) /\ m \in Nat \ {0} /\ Chain(bs, n)
      /\ \A x \in 1..m : /\ FairBlock(rs, threeWay, C, bs[x], n)
                         /\ bs[x] \in Block(C) /\ bs[x].first \in Nat /\ bs[x].len \in Nat
  BY LenProperties DEF FairList, FairBlock, Block
<1>2. j = 0 \/ /\ j \in 1..m /\ b.first < k
               /\ j # m => bs[j + 1].first > k
  BY BlockToSplitWell
<1>3. SplitAt(bs, k) = IF j = 0 THEN bs ELSE r
  BY DEF SplitAt
<1>4. CASE j = 0
  BY <1>3, <1>4
<1>5. CASE j # 0
  <2> HIDE DEF j
  <2>1. /\ j \in 1..m /\ FairBlock(rs, threeWay, C, b, n)
        /\ b \in Block(C) /\ b.first \in Nat /\ b.len \in Nat /\ b.first < k
    BY <1>1, <1>2, <1>5
  <2> DEFINE p == parts[1]
             q == parts[2]
  <2>2. /\ parts \in Seq(Block(C)) /\ Len(parts) = 2
        /\ FairBlock(rs, threeWay, C, p, n) /\ FairBlock(rs, threeWay, C, q, n)
        /\ p.first = b.first
        /\ \/ /\ b.first # 0 /\ q.first # 0
              /\ p.first + p.len = q.first /\ q.first + q.len = b.first + b.len
           \/ j = m /\ p = b /\ q.first = 0
        /\ NoEmpty(rs, b.lines) => NoEmpty(rs, p.lines) /\ NoEmpty(rs, q.lines)
    <3>1. CASE SplitInside(b, k)
      <4>1. b.first # 0 /\ k < b.first + b.len /\ k \in Nat /\ k # 0
        BY <2>1, <3>1 DEF SplitInside, FairBlock, Fits
      <4>2. /\ FairBlock(rs, threeWay, C, p, n) /\ FairBlock(rs, threeWay, C, q, n)
            /\ p.first = b.first
            /\ p.first + p.len = k /\ q.first = k /\ q.first + q.len = b.first + b.len
            /\ NoEmpty(rs, b.lines) => NoEmpty(rs, p.lines) /\ NoEmpty(rs, q.lines)
        <5>1. parts = Halves(b, k)
          BY <3>1
        <5> HIDE DEF b, parts
        <5> QED BY <2>1, <4>1, <5>1, HalvesFair
      <4>3. p \in Block(C) /\ q \in Block(C)
        BY <4>2 DEF FairBlock
      <4>4. parts = <<p, q>>
        BY <3>1 DEF Halves
      <4> HIDE DEF p, q, parts, b
      <4>5. parts \in Seq(Block(C)) /\ Len(parts) = 2
        BY <4>3, <4>4
      <4> QED BY <4>1, <4>2, <4>5
    <3>2. CASE ~SplitInside(b, k)
      <4>1. j = m
        <5>1. CASE j # m
          <6>1. j \in 1..m - 1 /\ j + 1 \in 1..m /\ bs[j + 1].first > k
            BY <1>1, <1>2, <1>5, <2>1, <5>1
          <6>2. bs[j + 1].first # 0
            BY <1>1, <6>1
          <6>3. b.first # 0 /\ bs[j + 1].first = b.first + b.len
            BY <1>1, <6>1, <6>2 DEF Chain
          <6> QED BY <2>1, <3>2, <6>1, <6>3 DEF SplitInside
        <5> QED BY <5>1
      <4>2. p = b /\ q = BlankBlock /\ parts = <<b, BlankBlock>>
        BY <3>2
      <4>3. /\ FairBlock(rs, threeWay, C, BlankBlock, n) /\ BlankBlock.first = 0
            /\ NoEmpty(rs, BlankBlock.lines) /\ BlankBlock \in Block(C)
        BY BlankFair DEF FairBlock
      <4> HIDE DEF p, q, parts, b
      <4>4. parts \in Seq(Block(C)) /\ Len(parts) = 2
        BY <2>1, <4>2, <4>3
      <4> QED BY <2>1, <4>1, <4>2, <4>3, <4>4
    <3> QED BY <3>1, <3>2
  <2> HIDE DEF parts
  <2>3. /\ r \in Seq(Block(C)) /\ Len(r) = m + 1
        /\ \A x \in 1..j - 1 : r[x] = bs[x]
        /\ r[j] = p /\ r[j + 1] = q
        /\ \A x \in j + 1..m : r[x + 1] = bs[x]
    <3>1. /\ bs \in Seq(Block(C)) /\ parts \in Seq(Block(C)) /\ j \in Int /\ m \in Int
          /\ j \in 1..Len(bs) + 1 /\ j \in j - 1..Len(bs)
      BY <1>1, <2>1, <2>2
    <3>2. InPlaceOf(r, bs, parts, j, j, Block(C))
      BY <3>1, InPlace
    <3> HIDE DEF r
    <3>3. Len(r) = j - 1 + 2 + m - j /\ \A x \in 1..2, y \in Int : y = j - 1 + x => r[y] = parts[x]
      BY <2>2, <3>2 DEF InPlaceOf
    <3>4. \A x \in j + 1..m, y \in Int : y = j - 1 + 2 + x - j => r[y] = bs[x]
      BY <2>2, <3>2, SMTT(30) DEF InPlaceOf
    <3> HIDE DEF m
    <3>5. r[j] = p /\ r[j + 1] = q
      BY <3>1, <3>3
    <3>6. \A x \in j + 1..m : r[x + 1] = bs[x]
      BY <3>1, <3>4
    <3>7. Len(r) = m + 1
      BY <3>1, <3>3
    <3> QED BY <3>2, <3>5, <3>6, <3>7 DEF InPlaceOf
  <2> HIDE DEF r, p, q
  <2>4. \A x \in 1..m + 1 : \/ x \in 1..j - 1 /\ r[x] = bs[x] /\ x \in 1..m
                            \/ x = j /\ r[x] = p
                            \/ x = j + 1 /\ r[x] = q
                            \/ x - 1 \in j + 1..m /\ r[x] = bs[x - 1] /\ x - 1 \in 1..m
    <3> SUFFICES ASSUME NEW x \in 1..m + 1
                 PROVE  \/ x \in 1..j - 1 /\ r[x] = bs[x] /\ x \in 1..m
                        \/ x = j /\ r[x] = p
                        \/ x = j + 1 /\ r[x] = q
                        \/ x - 1 \in j + 1..m /\ r[x] = bs[x - 1] /\ x - 1 \in 1..m
      OBVIOUS
    <3> HIDE DEF m
    <3>1. CASE x < j
      BY <1>1, <2>1, <2>3, <3>1
    <3>2. CASE x = j \/ x = j + 1
      BY <2>3, <3>2
    <3>3. CASE x > j + 1
      <4>1. x - 1 \in j + 1..m /\ x - 1 \in 1..m /\ x - 1 + 1 = x
        BY <1>1, <2>1, <3>3
      <4> QED BY <2>3, <4>1
    <3> QED BY <1>1, <2>1, <3>1, <3>2, <3>3
  <2>5. \A x \in 1..m + 1 : FairBlock(rs, threeWay, C, r[x], n)
    BY <1>1, <2>2, <2>4
  <2>6. NoEmptyList(rs, bs) => \A x \in 1..m + 1 : NoEmpty(rs, r[x].lines)
    BY <2>1, <2>2, <2>4 DEF NoEmptyList
  <2>7. Chain(r, n)
    <3>1. r[1].first = 1
      <4>1. CASE j = 1
        BY <1>1, <2>2, <2>3, <4>1 DEF Chain
      <4>2. CASE j # 1
        <5>1. 1 \in 1..j - 1
          BY <2>1, <4>2
        <5> QED BY <1>1, <2>3, <5>1 DEF Chain
      <4> QED BY <4>1, <4>2
    <3>2. ASSUME NEW x \in 1..m
          PROVE  r[x + 1].first = 0 \/ (r[x].first # 0 /\ r[x + 1].first = r[x].first + r[x].len)
      <4> HIDE DEF m
      <4>1. x \in 1..m + 1 /\ x + 1 \in 1..m + 1
        BY <1>1
      <4>2. CASE x < j
        <5>1. x \in 1..m - 1 /\ x \in 1..j - 1
          BY <1>1, <2>1, <4>2
        <5>2. bs[x + 1].first = 0 \/ (bs[x].first # 0 /\ bs[x + 1].first = bs[x].first + bs[x].len)
          BY <1>1, <5>1 DEF Chain, m
        <5>3. r[x] = bs[x] /\ r[x + 1].first = bs[x + 1].first
          <6>1. CASE x + 1 = j
            BY <2>2, <2>3, <5>1, <6>1
          <6>2. CASE x + 1 # j
            <7>1. x + 1 \in 1..j - 1
              BY <2>1, <4>2, <6>2
            <7> QED BY <2>3, <5>1, <7>1
          <6> QED BY <6>1, <6>2
        <5> QED BY <5>2, <5>3
      <4>3. CASE x = j
        BY <2>2, <2>3, <4>3
      <4>4. CASE x = j + 1
        <5>1. j \in 1..m - 1 /\ j + 1 \in j + 1..m /\ j + 1 + 1 = x + 1 /\ j # m
          BY <1>1, <2>1, <4>4
        <5>2. r[x + 1] = bs[j + 1] /\ r[x] = q
          BY <2>3, <4>4, <5>1
        <5>3. bs[j + 1].first = 0 \/ (b.first # 0 /\ bs[j + 1].first = b.first + b.len)
          BY <1>1, <5>1 DEF Chain, m
        <5>4. q.first # 0 /\ q.first + q.len = b.first + b.len
          BY <2>2, <5>1
        <5> QED BY <5>2, <5>3, <5>4
      <4>5. CASE x > j + 1
        <5>1. x - 1 \in 1..m - 1 /\ x - 1 + 1 = x /\ x - 1 \in j + 1..m /\ x \in j + 1..m
          BY <1>1, <2>1, <4>5
        <5>2. r[x] = bs[x - 1] /\ r[x + 1] = bs[x]
          BY <2>3, <5>1
        <5>3. bs[x].first = 0 \/ (bs[x - 1].first # 0 /\ bs[x].first = bs[x - 1].first + bs[x - 1].len)
          <6>1. \A y \in 1..m - 1 :
                   bs[y + 1].first = 0 \/ (bs[y].first # 0 /\ bs[y + 1].first = bs[y].first + bs[y].len)
            BY <1>1 DEF Chain, m
          <6> QED BY <5>1, <6>1
        <5> QED BY <5>1, <5>2, <5>3
      <4> QED BY <1>1, <2>1, <4>2, <4>3, <4>4, <4>5
    <3>3. ASSUME NEW x \in 1..m + 1, r[x].first # 0, x = m + 1 \/ r[x + 1].first = 0
          PROVE  r[x].first + r[x].len = n + 1
      <4>1. \A y \in 1..m : bs[y].first # 0 /\ (y = m \/ bs[y + 1].first = 0) => bs[y].first + bs[y].len = n + 1
        BY <1>1 DEF Chain
      <4> HIDE DEF m
      <4>2. CASE x < j
        <5>1. x \in 1..m /\ x # m + 1 /\ x \in 1..j - 1
          BY <1>1, <2>1, <4>2
        <5>2. r[x] = bs[x] /\ r[x + 1].first = bs[x + 1].first
          <6>1. CASE x + 1 = j
            BY <2>2, <2>3, <5>1, <6>1
          <6>2. CASE x + 1 # j
            <7>1. x + 1 \in 1..j - 1
              BY <2>1, <4>2, <6>2
            <7> QED BY <2>3, <5>1, <7>1
          <6> QED BY <6>1, <6>2
        <5> QED BY <3>3, <4>1, <5>1, <5>2
      <4>3. CASE x = j
        <5>1. x # m + 1 /\ q.first = 0
          BY <1>1, <2>1, <2>3, <3>3, <4>3
        <5>2. j = m /\ p = b /\ r[x] = bs[j]
          BY <2>2, <2>3, <4>3, <5>1
        <5> QED BY <2>1, <3>3, <4>1, <5>2
      <4>4. CASE x = j + 1
        <5>1. r[x] = q
          BY <2>3, <4>4
        <5>2. b.first # 0 /\ q.first + q.len = b.first + b.len
          BY <2>2, <3>3, <5>1
        <5>3. j = m \/ bs[j + 1].first = 0
          <6>1. CASE j # m
            <7>1. x # m + 1 /\ j + 1 \in j + 1..m /\ j + 1 + 1 = x + 1
              BY <1>1, <2>1, <4>4, <6>1
            <7>2. r[x + 1] = bs[j + 1]
              BY <2>3, <7>1
            <7> QED BY <3>3, <7>1, <7>2
          <6> QED BY <6>1
        <5> QED BY <2>1, <4>1, <5>1, <5>2, <5>3
      <4>5. CASE x > j + 1
        <5>1. x - 1 \in 1..m /\ x - 1 + 1 = x /\ x - 1 \in j + 1..m
          BY <1>1, <2>1, <4>5
        <5>2. r[x] = bs[x - 1]
          BY <2>3, <5>1
        <5>3. x - 1 = m \/ bs[x].first = 0
          <6>1. CASE x # m + 1
            <7>1. x \in j + 1..m
              BY <1>1, <2>1, <4>5, <6>1
            <7>2. r[x + 1] = bs[x]
              BY <2>3, <7>1
            <7> QED BY <3>3, <6>1, <7>2
          <6>2. CASE x = m + 1
            BY <1>1, <6>2
          <6> QED BY <6>1, <6>2
        <5> QED BY <3>3, <4>1, <5>1, <5>2, <5>3
      <4> QED BY <1>1, <2>1, <4>2, <4>3, <4>4, <4>5
    <3>4. Len(r) - 1 = m
      BY <1>1, <2>3
    <3> HIDE DEF m
    <3>5. \A x \in 1..Len(r) - 1 :
             r[x + 1].first = 0 \/ (r[x].first # 0 /\ r[x + 1].first = r[x].first + r[x].len)
      BY <3>2, <3>4
    <3>6. \A x \in 1..Len(r) :
             r[x].first # 0 /\ (x = Len(r) \/ r[x + 1].first = 0) => r[x].first + r[x].len = n + 1
      BY <2>3, <3>3
    <3> QED BY <3>1, <3>5, <3>6 DEF Chain
  <2> QED BY <1>1, <1>3, <1>5, <2>3, <2>5, <2>6, <2>7 DEF FairList, NoEmptyList
<1> QED BY <1>4, <1>5

-----------------------------------------------------------------------------
(* slotJoinDiffs(). *)

\* A block that is not blank has none before it that is, and none it overlaps.
LEMMA BlocksInOrder ==
    ASSUME NEW C, NEW rs, NEW threeWay, NEW n \in Nat, NEW bs, FairList(rs, threeWay, C, bs, n)
    PROVE  \A i, j \in 1..Len(bs) : i < j /\ bs[j].first # 0 =>
              bs[i].first # 0 /\ bs[i].first + bs[i].len <= bs[j].first
<1> DEFINE m == Len(bs)
           T == {d \in Nat : \A i, j \in 1..m : j = i + d /\ d # 0 /\ bs[j].first # 0 =>
                    bs[i].first # 0 /\ bs[i].first + bs[i].len <= bs[j].first}
<1>1. /\ m \in Nat /\ Chain(bs, n)
      /\ \A i \in 1..m : bs[i].first \in Nat /\ bs[i].len \in Nat
  BY LenProperties DEF FairList, FairBlock, Block
<1>2. \A i \in 1..m - 1 :
         bs[i + 1].first = 0 \/ (bs[i].first # 0 /\ bs[i + 1].first = bs[i].first + bs[i].len)
  BY <1>1 DEF Chain
<1> HIDE DEF m
<1>3. 0 \in T
  OBVIOUS
<1>4. ASSUME NEW d \in Nat, d \in T PROVE d + 1 \in T
  <2> SUFFICES ASSUME NEW i \in 1..m, NEW j \in 1..m, j = i + (d + 1), bs[j].first # 0
               PROVE  bs[i].first # 0 /\ bs[i].first + bs[i].len <= bs[j].first
    OBVIOUS
  <2>1. j - 1 \in 1..m - 1 /\ j - 1 + 1 = j /\ j - 1 \in 1..m /\ j - 1 = i + d
    BY <1>1
  <2>2. bs[j - 1].first # 0 /\ bs[j].first = bs[j - 1].first + bs[j - 1].len
    BY <1>2, <2>1
  <2>3. CASE d = 0
    BY <1>1, <2>1, <2>2, <2>3
  <2>4. CASE d # 0
    <3>1. bs[i].first # 0 /\ bs[i].first + bs[i].len <= bs[j - 1].first
      BY <1>4, <2>1, <2>2, <2>4
    <3> QED BY <1>1, <2>1, <2>2, <3>1
  <2> QED BY <2>3, <2>4
<1> HIDE DEF T
<1>5. \A d \in Nat : d \in T
  BY <1>3, <1>4, SetInduction
<1> SUFFICES ASSUME NEW i \in 1..m, NEW j \in 1..m, i < j, bs[j].first # 0
             PROVE  bs[i].first # 0 /\ bs[i].first + bs[i].len <= bs[j].first
  BY DEF m
<1>6. j - i \in Nat /\ j = i + (j - i) /\ j - i # 0
  BY <1>1
<1> QED BY <1>5, <1>6 DEF T

HoldsRow(b, k) == b.first <= k /\ k < b.first + b.len

LEMMA HoldingWell ==
    ASSUME NEW C, NEW rs, NEW threeWay, NEW n \in Nat, NEW bs, FairList(rs, threeWay, C, bs, n),
           NEW k \in 1..n
    PROVE  Holding(bs, k) \in 1..Len(bs) /\ HoldsRow(bs[Holding(bs, k)], k)
<1> DEFINE m == Len(bs)
           T == {x \in Nat : x \in 1..n => \E i \in 1..m : HoldsRow(bs[i], x)}
           I == {x \in 1..m : bs[x].first <= k /\ k < bs[x].first + bs[x].len}
<1>1. /\ m \in Nat \ {0} /\ Chain(bs, n)
      /\ \A i \in 1..m : /\ bs[i].first \in Nat /\ bs[i].len \in Nat
                         /\ bs[i].first # 0 => bs[i].len # 0
  BY LenProperties DEF FairList, FairBlock, Block, Fits
<1>2. 0 \in T
  OBVIOUS
<1>3. ASSUME NEW x \in Nat, x \in T PROVE x + 1 \in T
  <2> SUFFICES ASSUME x + 1 \in 1..n PROVE \E i \in 1..m : HoldsRow(bs[i], x + 1)
    OBVIOUS
  <2>1. CASE x = 0
    <3>1. 1 \in 1..m /\ bs[1].first = 1
      BY <1>1 DEF Chain
    <3>2. HoldsRow(bs[1], x + 1)
      BY <1>1, <2>1, <3>1 DEF HoldsRow
    <3> QED BY <3>1, <3>2
  <2>2. CASE x # 0
    <3>1. x \in 1..n
      BY <2>2
    <3>2. PICK i \in 1..m : HoldsRow(bs[i], x)
      BY <1>3, <3>1
    <3>3. CASE x + 1 < bs[i].first + bs[i].len
      BY <1>1, <3>2, <3>3 DEF HoldsRow
    <3>4. CASE x + 1 = bs[i].first + bs[i].len
      <4>1. bs[i].first # 0
        BY <1>1, <3>2 DEF HoldsRow, FairList, FairBlock, Fits
      <4>2. bs[i].first + bs[i].len # n + 1
        BY <3>4
      <4>3. i # m /\ bs[i + 1].first # 0
        BY <1>1, <4>1, <4>2 DEF Chain
      <4>4. i \in 1..m - 1 /\ i + 1 \in 1..m
        BY <1>1, <4>3
      <4>5. bs[i + 1].first = x + 1
        BY <1>1, <3>4, <4>3, <4>4 DEF Chain
      <4>6. HoldsRow(bs[i + 1], x + 1)
        BY <1>1, <4>4, <4>5 DEF HoldsRow
      <4> QED BY <4>4, <4>6
    <3> QED BY <1>1, <3>2, <3>3, <3>4 DEF HoldsRow
  <2> QED BY <2>1, <2>2
<1> HIDE DEF T
<1>4. \A x \in Nat : x \in T
  BY <1>2, <1>3, SetInduction
<1>5. I # {}
  <2>1. k \in T
    BY <1>4
  <2> QED BY <2>1 DEF T, HoldsRow
<1>6. Holding(bs, k) = Min(I)
  BY <1>5 DEF Holding, SelectInSeq
<1>7. Min(I) \in I
  <2>1. I \subseteq Nat
    OBVIOUS
  <2> HIDE DEF I
  <2> QED BY <1>5, <2>1, MinWell
<1> QED BY <1>6, <1>7 DEF HoldsRow

LEMMA JoinedFair ==
    ASSUME NEW C, NEW rs, NEW threeWay, NEW n \in Nat, NEW a, FairBlock(rs, threeWay, C, a, n),
           NEW b, FairBlock(rs, threeWay, C, b, n), a.first # 0, b.first = a.first + a.len
    PROVE  LET r == Joined(a, b)
           IN /\ FairBlock(rs, threeWay, C, r, n) /\ NoEmpty(rs, r.lines)
              /\ r.first = a.first /\ r.first + r.len = b.first + b.len
<1> DEFINE r == Joined(a, b)
           ls == <<Line(a.first)>>
           conflict == a.conflict \/ b.conflict
           ws == a.ws /\ b.ws
           delta == a.delta \/ b.delta
<1>1. /\ a \in Block(C) /\ a.first \in Nat /\ a.len \in Nat /\ Fits(rs, threeWay, a, n)
      /\ b \in Block(C) /\ b.first \in Nat /\ b.len \in Nat /\ Fits(rs, threeWay, b, n)
  BY DEF FairBlock, Block
<1>2. Line(a.first) \in EditLine(C) /\ ~HasSource(rs, Line(a.first))
  BY <1>1, LineWell
<1>3. ls \in Seq(EditLine(C)) /\ FairLines(rs, ls, conflict)
  BY <1>2, OneLineFair
<1>4. NoEmpty(rs, ls)
  <2>1. 2..Len(ls) = {}
    OBVIOUS
  <2> QED BY <2>1 DEF NoEmpty
<1>5. r = [a EXCEPT !.len = a.len + b.len, !.lines = ls, !.conflict = conflict, !.ws = ws, !.delta = delta]
  BY DEF Joined
<1>6. conflict \in BOOLEAN /\ ws \in BOOLEAN /\ delta \in BOOLEAN /\ a.len + b.len \in Nat
  BY <1>1
<1> HIDE DEF r, ls, conflict, ws, delta
<1>7. /\ r \in Block(C) /\ r.first = a.first /\ r.len = a.len + b.len /\ r.lines = ls
      /\ r.conflict = conflict /\ r.ws = ws
  BY <1>1, <1>3, <1>5, <1>6 DEF Block
<1>8. Fits(rs, threeWay, r, n)
  <2>1. b.first # 0 /\ b.len # 0 /\ b.first + b.len <= n + 1 /\ a.len # 0
    BY <1>1 DEF Fits
  <2>2. r.first # 0 /\ r.len # 0 /\ r.first + r.len <= n + 1
    BY <1>1, <1>7, <2>1
  <2>3. ASSUME r.ws, NEW k \in r.first..r.first + r.len - 1
        PROVE  WhiteSpaceConflict(rs[k], threeWay)
    <3>1. a.ws /\ b.ws
      BY <1>7, <2>3 DEF ws
    <3>2. k \in a.first..a.first + a.len - 1 \/ k \in b.first..b.first + b.len - 1
      BY <1>1, <1>7
    <3> QED BY <1>1, <3>1, <3>2 DEF Fits
  <2> QED BY <2>2, <2>3 DEF Fits
<1>9. r.first + r.len = b.first + b.len
  BY <1>1, <1>7
<1> QED BY <1>3, <1>4, <1>7, <1>8, <1>9 DEF FairBlock, r

LEMMA JoinedType ==
    ASSUME NEW C, NEW a \in Block(C), NEW b \in Block(C)
    PROVE  Joined(a, b) \in Block(C)
<1> DEFINE ls == <<Line(a.first)>>
           conflict == a.conflict \/ b.conflict
           ws == a.ws /\ b.ws
           delta == a.delta \/ b.delta
<1>1. a.first \in Nat /\ a.len \in Nat /\ b.len \in Nat
  BY DEF Block
<1>2. Line(a.first) \in EditLine(C)
  BY <1>1, LineWell
<1>3. ls \in Seq(EditLine(C)) /\ conflict \in BOOLEAN /\ ws \in BOOLEAN /\ delta \in BOOLEAN
      /\ a.len + b.len \in Nat
  BY <1>1, <1>2
<1>4. Joined(a, b) = [a EXCEPT !.len = a.len + b.len, !.lines = ls, !.conflict = conflict,
                               !.ws = ws, !.delta = delta]
  BY DEF Joined
<1> HIDE DEF ls, conflict, ws, delta
<1> QED BY <1>3, <1>4 DEF Block

LEMMA JoinDiffsFair ==
    ASSUME NEW C, NEW rs, NEW threeWay, NEW n \in Nat, NEW bs, FairList(rs, threeWay, C, bs, n),
           NEW f \in 1..n, NEW l \in f..n
    PROVE  /\ FairList(rs, threeWay, C, JoinDiffs(bs, f, l), n)
           /\ NoEmptyList(rs, bs) => NoEmptyList(rs, JoinDiffs(bs, f, l))
<1> DEFINE m == Len(bs)
           i == Holding(bs, f)
           j == Holding(bs, l)
           d == j - i
           Is(g) == g = [x \in 0..d |-> IF x = 0 THEN bs[i] ELSE Joined(g[x - 1], bs[i + x])]
           joined == CHOOSE g : Is(g)
           r == SubSeq(bs, 1, i - 1) \o <<joined[d]>> \o SubSeq(bs, j + 1, m)
<1>1. /\ bs \in Seq(Block(C)) /\ m \in Nat \ {0} /\ Chain(bs, n)
      /\ \A x \in 1..m : /\ FairBlock(rs, threeWay, C, bs[x], n)
                         /\ bs[x] \in Block(C) /\ bs[x].first \in Nat /\ bs[x].len \in Nat
                         /\ bs[x].first = 0 => bs[x].len = 0
  BY LenProperties DEF FairList, FairBlock, Block, Fits
<1>2. JoinDiffs(bs, f, l) = r
  BY DEF JoinDiffs
<1>3. /\ i \in 1..m /\ HoldsRow(bs[i], f) /\ j \in 1..m /\ HoldsRow(bs[j], l)
      /\ bs[i].first # 0 /\ bs[j].first # 0
  <2>1. l \in 1..n
    OBVIOUS
  <2>2. i \in 1..m /\ HoldsRow(bs[i], f) /\ j \in 1..m /\ HoldsRow(bs[j], l)
    BY <2>1, HoldingWell
  <2> HIDE DEF i, j
  <2> QED BY <1>1, <2>2 DEF HoldsRow
<1> HIDE DEF i, j
<1>4. d \in Nat /\ i <= j
  <2>1. CASE j < i
    <3>1. bs[j].first + bs[j].len <= bs[i].first
      BY <1>3, <2>1, BlocksInOrder
    <3> QED BY <1>1, <1>3, <3>1, SMTT(30) DEF HoldsRow
  <2>2. CASE ~(j < i)
    BY <1>3, <2>2
  <2> QED BY <2>1, <2>2
<1>5. \A x \in i..j : x \in 1..m /\ bs[x].first # 0 /\
         (x # j => x \in 1..m - 1 /\ bs[x + 1].first = bs[x].first + bs[x].len)
  <2> SUFFICES ASSUME NEW x \in i..j
               PROVE  x \in 1..m /\ bs[x].first # 0 /\
                      (x # j => x \in 1..m - 1 /\ bs[x + 1].first = bs[x].first + bs[x].len)
    OBVIOUS
  <2>1. \A y \in i..j : y \in 1..m /\ bs[y].first # 0
    <3> SUFFICES ASSUME NEW y \in i..j PROVE y \in 1..m /\ bs[y].first # 0
      OBVIOUS
    <3>1. y \in 1..m
      BY <1>1, <1>3
    <3>2. CASE y < j
      BY <1>3, <3>1, <3>2, BlocksInOrder
    <3>3. CASE y = j
      BY <1>3, <3>1, <3>3
    <3> QED BY <1>3, <3>1, <3>2, <3>3
  <2>2. ASSUME x # j PROVE x \in 1..m - 1 /\ bs[x + 1].first = bs[x].first + bs[x].len
    <3>1. x \in 1..m - 1 /\ x + 1 \in i..j
      BY <1>1, <1>3, <2>2
    <3>2. bs[x + 1].first # 0
      BY <2>1, <3>1
    <3> QED BY <1>1, <3>1, <3>2 DEF Chain
  <2> QED BY <2>1, <2>2
<1> DEFINE S == Block(C)
           G == [z \in S \X (1..d) |-> Joined(z[1], bs[i + z[2]])]
<1>6. \A x \in S, k \in 1..d : G[<<x, k>>] = Joined(x, bs[i + k]) /\ G[<<x, k>>] \in S
  <2> SUFFICES ASSUME NEW x \in S, NEW k \in 1..d
               PROVE  G[<<x, k>>] = Joined(x, bs[i + k]) /\ G[<<x, k>>] \in S
    OBVIOUS
  <2>1. G[<<x, k>>] = Joined(x, bs[i + k])
    OBVIOUS
  <2>2. i + k \in 1..m
    BY <1>1, <1>3, <1>4, SMTT(30)
  <2>3. bs[i + k] \in Block(C)
    BY <1>1, <2>2
  <2>4. Joined(x, bs[i + k]) \in Block(C)
    BY <2>3, JoinedType
  <2> QED BY <2>1, <2>4
<1> HIDE DEF G
<1>7. Is(joined)
  <2>1. bs[i] \in S
    BY <1>1, <1>3
  <2>2. PICK g : /\ g = [x \in 0..d |-> IF x = 0 THEN bs[i] ELSE G[<<g[x - 1], x>>]]
                 /\ g \in [0..d -> S]
    <3> HIDE DEF S, d
    <3> QED BY <1>4, <1>6, <2>1, RecursionExists
  <2>3. \A x \in 0..d : x # 0 => x \in 1..d /\ x - 1 \in 0..d
    BY <1>4
  <2> HIDE DEF d
  <2>4. \A x \in 0..d : x # 0 => G[<<g[x - 1], x>>] = Joined(g[x - 1], bs[i + x])
    <3> HIDE DEF S
    <3> QED BY <1>6, <2>2, <2>3
  <2>5. Is(g)
    BY <2>2, <2>4
  <2> QED BY <2>5
<1> HIDE DEF joined
<1>8. joined[0] = bs[i] /\ \A x \in 1..d : joined[x] = Joined(joined[x - 1], bs[i + x])
  BY <1>4, <1>7
<1> DEFINE Good(x) == /\ FairBlock(rs, threeWay, C, joined[x], n)
                      /\ NoEmpty(rs, bs[i].lines) => NoEmpty(rs, joined[x].lines)
                      /\ joined[x].first = bs[i].first
                      /\ joined[x].first + joined[x].len = bs[i + x].first + bs[i + x].len
           T == {x \in Nat : x \in 0..d => Good(x)}
<1>9. 0 \in T
  <2>1. i + 0 = i
    BY <1>3
  <2>2. Good(0)
    BY <1>1, <1>3, <1>8, <2>1
  <2> QED BY <2>2
<1>10. ASSUME NEW x \in Nat, x \in T PROVE x + 1 \in T
  <2> SUFFICES ASSUME x + 1 \in 0..d PROVE Good(x + 1)
    OBVIOUS
  <2>1. x \in 0..d /\ x + 1 \in 1..d /\ x + 1 - 1 = x /\ i + x \in i..j /\ i + (x + 1) \in i..j
        /\ i + x # j /\ i + x + 1 = i + (x + 1)
    <3>1. i \in Int /\ j \in Int /\ d = j - i /\ x \in Nat
      BY <1>3, <1>10
    <3>2. x + 1 <= d
      BY <1>4
    <3> HIDE DEF d
    <3> QED BY <3>1, <3>2, SMTT(30)
  <2> HIDE DEF d
  <2>2. Good(x)
    BY <1>10, <2>1
  <2>3. joined[x + 1] = Joined(joined[x], bs[i + (x + 1)])
    BY <1>8, <2>1
  <2>4. bs[i + (x + 1)].first = bs[i + x].first + bs[i + x].len
    BY <1>5, <2>1
  <2> DEFINE a == joined[x]
             b == bs[i + (x + 1)]
  <2>5. /\ FairBlock(rs, threeWay, C, a, n) /\ FairBlock(rs, threeWay, C, b, n)
        /\ a.first # 0 /\ b.first = a.first + a.len /\ a.first = bs[i].first
    BY <1>1, <1>3, <1>5, <2>1, <2>2, <2>4
  <2>6. joined[x + 1] = Joined(a, b)
    BY <2>3
  <2> HIDE DEF a, b
  <2>7. /\ FairBlock(rs, threeWay, C, Joined(a, b), n) /\ NoEmpty(rs, Joined(a, b).lines)
        /\ Joined(a, b).first = a.first
        /\ Joined(a, b).first + Joined(a, b).len = b.first + b.len
    BY <2>5, JoinedFair
  <2> QED BY <2>5, <2>6, <2>7 DEF b
<1> HIDE DEF T
<1>11. \A x \in Nat : x \in T
  BY <1>9, <1>10, SetInduction
<1>12. Good(d)
  <2>1. d \in T /\ d \in 0..d
    BY <1>4, <1>11
  <2> HIDE DEF d, Good
  <2> QED BY <2>1 DEF T
<1> DEFINE p == joined[d]
<1>13. /\ FairBlock(rs, threeWay, C, p, n) /\ p \in Block(C)
       /\ p.first = bs[i].first /\ p.first + p.len = bs[j].first + bs[j].len
       /\ NoEmpty(rs, bs[i].lines) => NoEmpty(rs, p.lines)
  <2>1. i + d = j
    BY <1>3
  <2> HIDE DEF d
  <2> QED BY <1>12, <2>1 DEF FairBlock
<1> HIDE DEF p
<1>14. /\ r \in Seq(Block(C)) /\ Len(r) = m - d
       /\ \A x \in 1..i - 1 : r[x] = bs[x]
       /\ r[i] = p
       /\ \A x \in j + 1..m : r[x - d] = bs[x]
  <2>1. r = SubSeq(bs, 1, i - 1) \o <<p>> \o SubSeq(bs, j + 1, m)
    BY DEF p
  <2>2. /\ <<p>> \in Seq(Block(C)) /\ Len(<<p>>) = 1 /\ <<p>>[1] = p
        /\ i \in 1..Len(bs) + 1 /\ j \in i - 1..Len(bs) /\ i \in Int /\ j \in Int /\ m \in Int
    BY <1>1, <1>3, <1>4, <1>13
  <2> HIDE DEF r
  <2>3. InPlaceOf(r, bs, <<p>>, i, j, Block(C))
    BY <1>1, <2>1, <2>2, InPlace
  <2>4. Len(r) = i - 1 + 1 + m - j /\ \A x \in 1..1, y \in Int : y = i - 1 + x => r[y] = p
    BY <2>2, <2>3 DEF InPlaceOf
  <2>5. \A x \in j + 1..m, y \in Int : y = i - 1 + 1 + x - j => r[y] = bs[x]
    BY <2>2, <2>3 DEF InPlaceOf
  <2> HIDE DEF m
  <2>6. r[i] = p
    BY <2>2, <2>4
  <2>7. \A x \in j + 1..m : r[x - d] = bs[x]
    BY <2>2, <2>5
  <2>8. Len(r) = m - d
    BY <2>2, <2>4
  <2> QED BY <2>3, <2>6, <2>7, <2>8 DEF InPlaceOf
<1> HIDE DEF r
<1>15. m - d \in Nat \ {0} /\ m - d >= i
  BY <1>1, <1>3, <1>4
<1> HIDE DEF m
<1>16. \A x \in 1..m - d : \/ x \in 1..i - 1 /\ r[x] = bs[x] /\ x \in 1..m
                           \/ x = i /\ r[x] = p
                           \/ x + d \in j + 1..m /\ r[x] = bs[x + d] /\ x + d \in 1..m
  <2> SUFFICES ASSUME NEW x \in 1..m - d
               PROVE  \/ x \in 1..i - 1 /\ r[x] = bs[x] /\ x \in 1..m
                      \/ x = i /\ r[x] = p
                      \/ x + d \in j + 1..m /\ r[x] = bs[x + d] /\ x + d \in 1..m
    OBVIOUS
  <2>1. CASE x < i
    BY <1>1, <1>3, <1>14, <2>1
  <2>2. CASE x = i
    BY <1>14, <2>2
  <2>3. CASE x > i
    <3> DEFINE y == x + d
    <3>1. y \in j + 1..m /\ y \in 1..m /\ y - d = x
      BY <1>1, <1>3, <1>4, <2>3
    <3> HIDE DEF y, d
    <3>2. r[y - d] = bs[y]
      BY <1>14, <3>1
    <3> QED BY <3>1, <3>2 DEF y
  <2> QED BY <1>3, <2>1, <2>2, <2>3
<1>17. \A x \in 1..m - d : FairBlock(rs, threeWay, C, r[x], n)
  BY <1>1, <1>13, <1>16
<1>18. NoEmptyList(rs, bs) => \A x \in 1..m - d : NoEmpty(rs, r[x].lines)
  BY <1>3, <1>13, <1>16 DEF NoEmptyList, m
<1>19. /\ \A x \in 1..m - 1 :
            bs[x + 1].first = 0 \/ (bs[x].first # 0 /\ bs[x + 1].first = bs[x].first + bs[x].len)
       /\ \A x \in 1..m :
            bs[x].first # 0 /\ (x = m \/ bs[x + 1].first = 0) => bs[x].first + bs[x].len = n + 1
       /\ bs[1].first = 1
  BY <1>1 DEF Chain, m
<1>20. \A x \in 1..i - 1 : x \in 1..m - 1 /\ r[x] = bs[x] /\ r[x + 1].first = bs[x + 1].first
  <2> SUFFICES ASSUME NEW x \in 1..i - 1
               PROVE  x \in 1..m - 1 /\ r[x] = bs[x] /\ r[x + 1].first = bs[x + 1].first
    OBVIOUS
  <2>1. x \in 1..m - 1
    BY <1>1, <1>3
  <2>2. CASE x + 1 = i
    BY <1>13, <1>14, <2>1, <2>2
  <2>3. CASE x + 1 # i
    <3>1. x + 1 \in 1..i - 1
      BY <1>3, <2>3
    <3> QED BY <1>14, <2>1, <3>1
  <2> QED BY <2>2, <2>3
<1>21. \A x \in i..m - d : \E y \in j..m :
          /\ y = x + d /\ (x = m - d <=> y = m)
          /\ r[x].first # 0 <=> bs[y].first # 0
          /\ r[x].first + r[x].len = bs[y].first + bs[y].len
          /\ x # m - d => r[x + 1] = bs[y + 1] /\ y \in 1..m - 1
  <2> SUFFICES ASSUME NEW x \in i..m - d
               PROVE  \E y \in j..m :
                         /\ y = x + d /\ (x = m - d <=> y = m)
                         /\ r[x].first # 0 <=> bs[y].first # 0
                         /\ r[x].first + r[x].len = bs[y].first + bs[y].len
                         /\ x # m - d => r[x + 1] = bs[y + 1] /\ y \in 1..m - 1
    OBVIOUS
  <2> DEFINE y == x + d
  <2>1. /\ y \in j..m /\ (x = m - d <=> y = m) /\ y - d = x /\ (x = i <=> y = j)
        /\ x # m - d => y + 1 \in j + 1..m /\ y + 1 - d = x + 1 /\ y \in 1..m - 1
    BY <1>1, <1>3, <1>4
  <2>2. x # m - d => r[x + 1] = bs[y + 1]
    <3> DEFINE z == y + 1
    <3>1. x # m - d => z \in j + 1..m /\ z - d = x + 1
      BY <1>1, <1>3, <1>4, <2>1
    <3> HIDE DEF z, d
    <3>2. z \in j + 1..m => r[z - d] = bs[z]
      BY <1>14
    <3>3. x # m - d => r[x + 1] = bs[z]
      BY <3>1, <3>2
    <3> QED BY <3>3 DEF z
  <2>3. /\ r[x].first # 0 <=> bs[y].first # 0
        /\ r[x].first + r[x].len = bs[y].first + bs[y].len
    <3>1. CASE x = i
      <4>1. y = j
        BY <2>1, <3>1
      <4> HIDE DEF y
      <4> QED BY <1>3, <1>13, <1>14, <3>1, <4>1
    <3>2. CASE x # i
      <4>1. y \in j + 1..m
        BY <1>1, <1>3, <2>1, <3>2
      <4> HIDE DEF y, d
      <4>2. r[y - d] = bs[y]
        BY <1>14, <4>1
      <4> QED BY <2>1, <4>2
    <3> QED BY <3>1, <3>2
  <2> QED BY <2>1, <2>2, <2>3
<1> HIDE DEF d
<1>22. Chain(r, n)
  <2>1. r[1].first = 1
    <3>1. CASE i = 1
      BY <1>13, <1>14, <1>19, <3>1
    <3>2. CASE i # 1
      <4>1. 1 \in 1..i - 1
        BY <1>3, <3>2
      <4> QED BY <1>19, <1>20, <4>1
    <3> QED BY <3>1, <3>2
  <2>2. ASSUME NEW x \in 1..m - d - 1
        PROVE  r[x + 1].first = 0 \/ (r[x].first # 0 /\ r[x + 1].first = r[x].first + r[x].len)
    <3>1. CASE x < i
      <4>1. x \in 1..i - 1
        BY <1>3, <3>1
      <4> QED BY <1>19, <1>20, <4>1
    <3>2. CASE x >= i
      <4>1. x \in i..m - d /\ x # m - d
        BY <1>3, <1>15, <3>2
      <4>2. PICK y \in j..m :
               /\ y \in 1..m - 1 /\ r[x + 1] = bs[y + 1]
               /\ r[x].first # 0 <=> bs[y].first # 0
               /\ r[x].first + r[x].len = bs[y].first + bs[y].len
        BY <1>21, <4>1
      <4> QED BY <1>19, <4>2
    <3> QED BY <1>3, <3>1, <3>2
  <2>3. ASSUME NEW x \in 1..m - d, r[x].first # 0, x = m - d \/ r[x + 1].first = 0
        PROVE  r[x].first + r[x].len = n + 1
    <3>1. CASE x < i
      <4>1. x \in 1..i - 1
        BY <1>3, <3>1
      <4>2. x \in 1..m /\ r[x] = bs[x] /\ r[x + 1].first = bs[x + 1].first
        BY <1>1, <1>20, <4>1
      <4>3. x # m - d
        BY <1>3, <1>15, <3>1
      <4> QED BY <1>19, <2>3, <4>2, <4>3
    <3>2. CASE x >= i
      <4>1. x \in i..m - d
        BY <1>3, <1>15, <3>2
      <4>2. PICK y \in j..m :
               /\ x = m - d <=> y = m
               /\ r[x].first # 0 <=> bs[y].first # 0
               /\ r[x].first + r[x].len = bs[y].first + bs[y].len
               /\ x # m - d => r[x + 1] = bs[y + 1]
        BY <1>21, <4>1
      <4>3. y \in 1..m
        BY <1>1, <1>3, <4>2
      <4> QED BY <1>19, <2>3, <4>2, <4>3
    <3> QED BY <1>3, <3>1, <3>2
  <2> DEFINE k == m - d
  <2>4. Len(r) = k /\ k \in Nat
    BY <1>14, <1>15
  <2>5. \A x \in 1..k - 1 :
           r[x + 1].first = 0 \/ (r[x].first # 0 /\ r[x + 1].first = r[x].first + r[x].len)
    BY <2>2
  <2>6. \A x \in 1..k :
           r[x].first # 0 /\ (x = k \/ r[x + 1].first = 0) => r[x].first + r[x].len = n + 1
    BY <2>3
  <2> HIDE DEF k
  <2> QED BY <2>1, <2>4, <2>5, <2>6 DEF Chain
<1>23. Len(r) >= 1 /\ \A x \in 1..Len(r) : x \in 1..m - d
  BY <1>14, <1>15
<1> QED BY <1>2, <1>14, <1>17, <1>18, <1>22, <1>23 DEF FairList, NoEmptyList

-----------------------------------------------------------------------------
(* Other lines for one block. *)

\* What the merge result is at any time.
Result(rs, threeWay, C, bs, n) ==
    FairList(rs, threeWay, C, bs, n) /\ NoEmptyList(rs, bs)

LEMMA BlockReplaced ==
    ASSUME NEW C, NEW rs, NEW threeWay, NEW n \in Nat, NEW bs, Result(rs, threeWay, C, bs, n),
           NEW j \in 1..Len(bs), NEW e, FairBlock(rs, threeWay, C, e, n), NoEmpty(rs, e.lines),
           e.first = bs[j].first, e.len = bs[j].len
    PROVE  Result(rs, threeWay, C, [bs EXCEPT ![j] = e], n)
<1> DEFINE r == [bs EXCEPT ![j] = e]
<1>1. bs \in Seq(Block(C)) /\ e \in Block(C) /\ FairList(rs, threeWay, C, bs, n)
  BY DEF Result, FairList, FairBlock
<1>2. /\ r \in Seq(Block(C)) /\ Len(r) = Len(bs)
      /\ \A i \in 1..Len(bs) : r[i] = IF i = j THEN e ELSE bs[i]
  BY <1>1, ExceptSeq
<1> HIDE DEF r
<1>3. \A i \in 1..Len(bs) : /\ FairBlock(rs, threeWay, C, r[i], n)
                            /\ r[i].first = bs[i].first /\ r[i].len = bs[i].len
  BY <1>1, <1>2 DEF FairList
<1>4. FairList(rs, threeWay, C, r, n)
  BY <1>1, <1>2, <1>3, SameRows
<1> QED BY <1>2, <1>4 DEF Result, NoEmptyList, r

LEMMA LinesReplaced ==
    ASSUME NEW C, NEW rs, NEW threeWay, NEW n \in Nat, NEW bs, Result(rs, threeWay, C, bs, n),
           NEW j \in 1..Len(bs), NEW ls \in Seq(EditLine(C)), FairLines(rs, ls, bs[j].conflict),
           NoEmpty(rs, ls)
    PROVE  Result(rs, threeWay, C, [bs EXCEPT ![j].lines = ls], n)
<1> DEFINE e == [bs[j] EXCEPT !.lines = ls]
<1>1. FairBlock(rs, threeWay, C, bs[j], n)
  BY DEF FairList, Result
<1>2. /\ FairBlock(rs, threeWay, C, e, n) /\ NoEmpty(rs, e.lines)
      /\ e.first = bs[j].first /\ e.len = bs[j].len
  BY <1>1, OtherLines
<1>3. [bs EXCEPT ![j].lines = ls] = [bs EXCEPT ![j] = e]
  OBVIOUS
<1> HIDE DEF e
<1> QED BY <1>2, <1>3, BlockReplaced

\* A line the user has written is fair wherever it stands, and so are those
\* around it.
LinesFit(rs, C, ls, conflict) ==
    ls \in Seq(EditLine(C)) /\ FairLines(rs, ls, conflict) /\ NoEmpty(rs, ls)

\* A line that may be at i.
MayBe(rs, C, l, i, conflict) ==
    /\ l \in EditLine(C)
    /\ HasSource(rs, l) => ~l.removed
    /\ i # 1 => l.changed
    /\ l.changed \/ conflict

LEMMA LineReplaced ==
    ASSUME NEW C, NEW rs, NEW conflict, NEW ls, LinesFit(rs, C, ls, conflict),
           NEW i \in 1..Len(ls), NEW l, MayBe(rs, C, l, i, conflict)
    PROVE  /\ LinesFit(rs, C, [ls EXCEPT ![i] = l], conflict)
           /\ Len([ls EXCEPT ![i] = l]) = Len(ls)
           /\ [ls EXCEPT ![i] = l][i] = l
           /\ \A x \in 1..Len(ls) : x # i => [ls EXCEPT ![i] = l][x] = ls[x]
<1> DEFINE r == [ls EXCEPT ![i] = l]
<1>0. /\ ls \in Seq(EditLine(C)) /\ FairLines(rs, ls, conflict) /\ NoEmpty(rs, ls)
      /\ l \in EditLine(C)
      /\ HasSource(rs, l) => ~l.removed
      /\ i # 1 => l.changed
      /\ l.changed \/ conflict
  BY DEF LinesFit, MayBe
<1>1. /\ r \in Seq(EditLine(C)) /\ Len(r) = Len(ls)
      /\ \A x \in 1..Len(ls) : r[x] = IF x = i THEN l ELSE ls[x]
  BY <1>0, ExceptSeq
<1>2. Len(ls) \in Nat
  BY <1>0, LenProperties
<1> HIDE DEF r
<1>3. \A x \in 2..Len(ls) : x \in 1..Len(ls) /\ x - 1 \in 1..Len(ls) /\ x # 1
  BY <1>2
<1>4. FairLines(rs, r, conflict)
  BY <1>0, <1>1, <1>3 DEF FairLines
<1>5. NoEmpty(rs, r)
  <2> SUFFICES ASSUME NEW x \in 2..Len(ls), ~r[x - 1].changed, ~r[x].changed
               PROVE  \/ r[x].src # r[x - 1].src
                      \/ HasSource(rs, r[x]) \/ HasSource(rs, r[x - 1])
    BY <1>1 DEF NoEmpty
  <2>1. x # i
    BY <1>0, <1>1, <1>3
  <2>2. CASE x - 1 = i
    <3>1. conflict /\ r[x] = ls[x]
      BY <1>0, <1>1, <1>3, <2>1, <2>2
    <3> QED BY <1>0, <1>1, <1>3, <3>1 DEF FairLines
  <2>3. CASE x - 1 # i
    <3>1. r[x] = ls[x] /\ r[x - 1] = ls[x - 1]
      BY <1>1, <1>3, <2>1, <2>3
    <3> QED BY <1>0, <3>1 DEF NoEmpty
  <2> QED BY <2>2, <2>3
<1> QED BY <1>1, <1>4, <1>5 DEF LinesFit, r

-----------------------------------------------------------------------------
(* What the lines show. *)

\* What a line shows: a conflict and a removed line show nothing.
LineText(rs, l) == IF IsConflict(l) \/ l.removed THEN <<>> ELSE <<GetString(rs, l)>>

LineTexts(rs, C)  == [l \in EditLine(C) |-> LineText(rs, l)]
BlockTexts(rs, C) == [b \in Block(C) |-> Gathered(LineTexts(rs, C), b.lines)]

\* What the automatic merge shows for a row.
RowLine(rs, threeWay, k) ==
    LET d == MergeOneLine(rs[k], threeWay) IN SourceLine(k, d.src, d.removed)
RowTexts(rs, threeWay)   == [k \in 1..Len(rs) |-> LineText(rs, RowLine(rs, threeWay, k))]
FirstRows(k)            == [i \in 1..k |-> i]

LEMMA StringType ==
    ASSUME NEW C, NEW rs, NEW threeWay, RowList(rs, threeWay, C), NEW l \in EditLine(C)
    PROVE  GetString(rs, l) \in Seq(C)
<1>1. l.str \in Seq(C) /\ <<>> \in Seq(C)
  BY EmptySeq DEF EditLine
<1>2. HasSource(rs, l) => rs[l.row][l.src] \in Seq(C)
  <2> SUFFICES ASSUME l.row \in DOMAIN rs, l.src \in DOMAIN rs[l.row]
               PROVE  rs[l.row][l.src] \in Seq(C)
    BY DEF HasSource
  <2>1. rs[l.row] \in [DOMAIN rs[l.row] -> Seq(C)]
    BY DEF RowList
  <2> QED BY <2>1
<1> QED BY <1>1, <1>2 DEF GetString

LEMMA TextTypes ==
    ASSUME NEW C, NEW rs, NEW threeWay, RowList(rs, threeWay, C)
    PROVE  /\ LineTexts(rs, C) \in [EditLine(C) -> Seq(Seq(C))]
           /\ BlockTexts(rs, C) \in [Block(C) -> Seq(Seq(C))]
<1>1. ASSUME NEW l \in EditLine(C) PROVE LineText(rs, l) \in Seq(Seq(C))
  <2> DEFINE t == GetString(rs, l)
             U == Seq(C)
  <2>1. t \in U
    BY StringType
  <2> HIDE DEF t, U
  <2>2. <<t>> \in Seq(U) /\ <<>> \in Seq(U)
    BY <2>1
  <2> QED BY <2>2 DEF LineText, t, U
<1>2. LineTexts(rs, C) \in [EditLine(C) -> Seq(Seq(C))]
  BY <1>1 DEF LineTexts
<1>3. ASSUME NEW b \in Block(C) PROVE Gathered(LineTexts(rs, C), b.lines) \in Seq(Seq(C))
  <2>1. b.lines \in Seq(EditLine(C))
    BY DEF Block
  <2> QED BY <1>2, <2>1, GatheredType
<1>4. BlockTexts(rs, C) \in [Block(C) -> Seq(Seq(C))]
  BY <1>3 DEF BlockTexts
<1> QED BY <1>2, <1>4

LEMMA FirstRowsWell ==
    ASSUME NEW n \in Nat, NEW k \in 1..n
    PROVE  /\ FirstRows(k - 1) \in Seq(1..n) /\ FirstRows(0) = <<>>
           /\ FirstRows(k) = Append(FirstRows(k - 1), k)
<1> DEFINE S == 1..n
           r == FirstRows(k - 1)
           t == FirstRows(k)
           a == Append(r, k)
<1>1. k - 1 \in Nat /\ k \in Nat /\ k \in S /\ k - 1 + 1 = k
  OBVIOUS
<1>2. r \in [1..k - 1 -> S] /\ t \in [1..k -> S] /\ FirstRows(0) = <<>>
  BY DEF FirstRows
<1>3. /\ \A i \in 1..k - 1 : r[i] = i
      /\ \A i \in 1..k : t[i] = i
  BY DEF FirstRows
<1> HIDE DEF S, r, t
<1>4. r \in Seq(S) /\ Len(r) = k - 1 /\ t \in Seq(S) /\ Len(t) = k
  BY <1>1, <1>2, MapSeq
<1>5. a \in Seq(S) /\ Len(a) = k - 1 + 1 /\ a[k - 1 + 1] = k /\ \A i \in 1..k - 1 : a[i] = r[i]
  BY <1>1, <1>4, AppendProperties
<1> HIDE DEF a
<1>6. \A i \in 1..k : t[i] = a[i]
  <2> SUFFICES ASSUME NEW i \in 1..k PROVE t[i] = a[i]
    OBVIOUS
  <2>1. CASE i = k
    BY <1>1, <1>3, <1>5, <2>1
  <2>2. CASE i # k
    <3>1. i \in 1..k - 1
      BY <1>1, <2>2
    <3> QED BY <1>3, <1>5, <3>1
  <2> QED BY <2>1, <2>2
<1>7. t = a
  BY <1>1, <1>4, <1>5, <1>6, SeqEqual
<1> QED BY <1>2, <1>4, <1>7 DEF r, t, a, S

\* The first line of a block that was just built tells whether its rows are
\* conflicts, and a line that shows nothing says why.
ClearBlock(rs, threeWay, b) ==
    /\ Len(b.lines) >= 1
    /\ b.conflict <=> IsConflict(b.lines[1])
    /\ \A k \in b.first..b.first + b.len - 1 :
          b.conflict <=> MergeOneLine(rs[k], threeWay).src = "None"
    /\ \A i \in 1..Len(b.lines) :
          HasSource(rs, b.lines[i]) \/ IsConflict(b.lines[i]) \/ b.lines[i].removed

LEMMA RowLineWell ==
    ASSUME NEW C, NEW rs, NEW threeWay, RowList(rs, threeWay, C), NEW k \in 1..Len(rs)
    PROVE  LET l == RowLine(rs, threeWay, k)
               d == MergeOneLine(rs[k], threeWay)
           IN /\ l \in EditLine(C) /\ NewBlock(rs, threeWay, k).lines = <<l>>
              /\ IsConflict(l) <=> d.src = "None"
              /\ HasSource(rs, l) \/ IsConflict(l) \/ l.removed
              /\ RowTexts(rs, threeWay)[k] = LineText(rs, l)
<1> DEFINE l == RowLine(rs, threeWay, k)
           d == MergeOneLine(rs[k], threeWay)
<1>1. /\ d.src \in Sides \cup {"None"} /\ d.removed \in BOOLEAN
      /\ d = Clash <=> d.src = "None"
      /\ ~d.removed => d.src \in DOMAIN rs[k] \cup {"None"}
  BY MergeOneLineWell DEF RowList
<1>2. d.src = "None" => ~d.removed
  BY <1>1 DEF Clash
<1>3. k \in Nat /\ k \in DOMAIN rs
  BY DEF RowList
<1>4. l = SourceLine(k, d.src, d.removed)
  BY DEF RowLine
<1>5. NewBlock(rs, threeWay, k).lines = <<l>>
  BY DEF NewBlock, RowLine
<1>6. RowTexts(rs, threeWay)[k] = LineText(rs, l)
  BY DEF RowTexts
<1> HIDE DEF d, l
<1>7. l \in EditLine(C)
  BY <1>1, <1>3, <1>4, SourceLineWell
<1>8. l.row = k /\ l.src = d.src
  BY <1>4 DEF SourceLine, Line
<1>9. l.removed = d.removed
  BY <1>4 DEF SourceLine, Line
<1>10. l.changed = FALSE
  BY <1>4 DEF SourceLine, Line
<1>11. IsConflict(l) <=> d.src = "None"
  BY <1>1, <1>2, <1>8, <1>9, <1>10 DEF IsConflict
<1>12. HasSource(rs, l) \/ IsConflict(l) \/ l.removed
  BY <1>1, <1>3, <1>8, <1>9, <1>11 DEF HasSource
<1> QED BY <1>5, <1>6, <1>7, <1>11, <1>12 DEF d, l

LEMMA NewBlockClear ==
    ASSUME NEW C, NEW rs, NEW threeWay, RowList(rs, threeWay, C), NEW k \in 1..Len(rs)
    PROVE  LET b == NewBlock(rs, threeWay, k)
           IN /\ b \in Block(C) /\ ClearBlock(rs, threeWay, b)
              /\ BlockTexts(rs, C)[b] = RowTexts(rs, threeWay)[k]
<1> DEFINE b == NewBlock(rs, threeWay, k)
           d == MergeOneLine(rs[k], threeWay)
           l == RowLine(rs, threeWay, k)
<1>1. /\ FairBlock(rs, threeWay, C, b, k)
      /\ b.first = k /\ b.len = 1 /\ (b.conflict <=> d.src = "None")
  BY NewBlockFair
<1>2. /\ l \in EditLine(C) /\ b.lines = <<l>>
      /\ IsConflict(l) <=> d.src = "None"
      /\ HasSource(rs, l) \/ IsConflict(l) \/ l.removed
      /\ RowTexts(rs, threeWay)[k] = LineText(rs, l)
  BY RowLineWell
<1>3. b \in Block(C) /\ k \in Nat
  BY <1>1 DEF FairBlock, RowList
<1> HIDE DEF b, d, l
<1>4. Len(b.lines) = 1 /\ b.lines[1] = l
  BY <1>2
<1>5. \A j \in b.first..b.first + b.len - 1 : j = k
  BY <1>1, <1>3
<1>6. ClearBlock(rs, threeWay, b)
  BY <1>1, <1>2, <1>4, <1>5 DEF ClearBlock, d
<1>7. BlockTexts(rs, C)[b] = Gathered(LineTexts(rs, C), <<l>>)
  BY <1>2, <1>3 DEF BlockTexts
<1>8. Gathered(LineTexts(rs, C), <<l>>) = LineTexts(rs, C)[l]
  <2>1. \A x \in EditLine(C) : Gathered(LineTexts(rs, C), <<x>>) = LineTexts(rs, C)[x]
    <3> DEFINE T == Seq(C)
               G == LineTexts(rs, C)
    <3>1. G \in [EditLine(C) -> Seq(T)]
      BY TextTypes
    <3> HIDE DEF G, T
    <3> QED BY <3>1, GatheredOne DEF G
  <2> QED BY <1>2, <2>1
<1>9. LineTexts(rs, C)[l] = LineText(rs, l)
  BY <1>2 DEF LineTexts
<1> QED BY <1>2, <1>3, <1>6, <1>7, <1>8, <1>9 DEF b

\* A block that the next row, k, is of the same kind as, and the row added to it.
TakesRow(rs, threeWay, C, b, k) ==
    /\ FairBlock(rs, threeWay, C, b, k - 1) /\ ClearBlock(rs, threeWay, b)
    /\ b.first # 0 /\ b.first + b.len = k /\ SameKind(rs[k], rs[b.first], threeWay)

HasTaken(rs, threeWay, C, b, k) ==
    LET e == Extended(b, NewBlock(rs, threeWay, k))
    IN /\ e \in Block(C) /\ ClearBlock(rs, threeWay, e)
       /\ BlockTexts(rs, C)[e] = BlockTexts(rs, C)[b] \o RowTexts(rs, threeWay)[k]

LEMMA ExtendedClear ==
    ASSUME NEW C, NEW rs, NEW threeWay, RowList(rs, threeWay, C), NEW k \in 1..Len(rs),
           NEW b, TakesRow(rs, threeWay, C, b, k)
    PROVE  HasTaken(rs, threeWay, C, b, k)
<1>0. /\ FairBlock(rs, threeWay, C, b, k - 1) /\ ClearBlock(rs, threeWay, b)
      /\ b.first # 0 /\ b.first + b.len = k /\ SameKind(rs[k], rs[b.first], threeWay)
  BY DEF TakesRow
<1> DEFINE new == NewBlock(rs, threeWay, k)
           e == Extended(b, new)
           d == MergeOneLine(rs[k], threeWay)
           o == MergeOneLine(rs[b.first], threeWay)
           G == LineTexts(rs, C)
           l == RowLine(rs, threeWay, k)
<1>1. /\ k \in Nat /\ Len(rs) \in Nat
      /\ b \in Block(C) /\ b.first \in Nat /\ b.len \in Nat /\ b.len # 0
      /\ b.lines \in Seq(EditLine(C)) /\ Len(b.lines) \in Nat
  BY <1>0, LenProperties DEF RowList, FairBlock, Block, Fits
<1>2. b.first \in b.first..b.first + b.len - 1
  BY <1>1
<1>3. b.conflict <=> o.src = "None"
  BY <1>0, <1>2 DEF ClearBlock
<1>4. FairBlock(rs, threeWay, C, e, k) /\ e.first = b.first /\ e.len = b.len + 1
      /\ (e.conflict <=> b.conflict)
  BY <1>0, <1>3, ExtendedFair
<1>5. new.conflict <=> d.src = "None"
  BY NewBlockFair
<1>6. b.conflict <=> d.src = "None"
  <2>1. b.first \in 1..Len(rs)
    BY <1>0, <1>1
  <2>2. (d = Clash <=> d.src = "None") /\ (o = Clash <=> o.src = "None")
    <3>1. MergeOneLine(rs[k], threeWay) = Clash <=> MergeOneLine(rs[k], threeWay).src = "None"
      BY MergeOneLineWell DEF RowList
    <3> DEFINE f == b.first
    <3>2. f \in 1..Len(rs)
      BY <2>1
    <3> HIDE DEF f
    <3>3. MergeOneLine(rs[f], threeWay) = Clash <=> MergeOneLine(rs[f], threeWay).src = "None"
      BY <3>2, MergeOneLineWell DEF RowList
    <3> QED BY <3>1, <3>3 DEF f
  <2>3. (d = Clash /\ o = Clash) \/ d.src = o.src
    BY <1>0 DEF SameKind
  <2> HIDE DEF d, o
  <2> QED BY <1>3, <2>2, <2>3
<1>7. /\ l \in EditLine(C) /\ new.lines = <<l>>
      /\ IsConflict(l) <=> d.src = "None"
      /\ HasSource(rs, l) \/ IsConflict(l) \/ l.removed
      /\ RowTexts(rs, threeWay)[k] = LineText(rs, l)
  BY RowLineWell
<1>8. e.lines = IF new.conflict /\ b.conflict THEN b.lines ELSE b.lines \o new.lines
  BY <1>1 DEF Extended, Block
<1>9. G \in [EditLine(C) -> Seq(Seq(C))] /\ G[l] = LineText(rs, l)
  BY <1>7, TextTypes DEF LineTexts
<1>10. e \in Block(C)
  BY <1>4 DEF FairBlock
<1>11. BlockTexts(rs, C)[e] = Gathered(G, e.lines) /\ BlockTexts(rs, C)[b] = Gathered(G, b.lines)
  BY <1>1, <1>10 DEF BlockTexts
<1> HIDE DEF new, e, o, l, G
<1>12. \A j \in e.first..e.first + e.len - 1 : e.conflict <=> MergeOneLine(rs[j], threeWay).src = "None"
  <2> SUFFICES ASSUME NEW j \in e.first..e.first + e.len - 1
               PROVE  e.conflict <=> MergeOneLine(rs[j], threeWay).src = "None"
    OBVIOUS
  <2>1. CASE j = k
    BY <1>0, <1>1, <1>4, <1>6, <2>1
  <2>2. CASE j # k
    <3>1. j \in b.first..b.first + b.len - 1
      BY <1>0, <1>1, <1>4, <2>2
    <3> QED BY <1>0, <1>4, <3>1 DEF ClearBlock
  <2> QED BY <2>1, <2>2
<1>13. CASE b.conflict
  <2>1. e.lines = b.lines
    BY <1>5, <1>6, <1>8, <1>13
  <2>2. ClearBlock(rs, threeWay, e)
    BY <1>0, <1>4, <1>12, <2>1 DEF ClearBlock
  <2>3. G[l] = <<>>
    BY <1>6, <1>7, <1>9, <1>13 DEF LineText
  <2>4. Gathered(G, b.lines) \o <<>> = Gathered(G, b.lines)
    BY <1>1, <1>9, GatheredType, ConcatEmptySeq
  <2> QED BY <1>7, <1>9, <1>10, <1>11, <2>1, <2>2, <2>3, <2>4 DEF e, new, HasTaken
<1>14. CASE ~b.conflict
  <2>1. e.lines = Append(b.lines, l)
    BY <1>1, <1>7, <1>8, <1>14, AppendIsConcat
  <2>2. /\ Len(e.lines) = Len(b.lines) + 1 /\ e.lines[Len(b.lines) + 1] = l
        /\ \A i \in 1..Len(b.lines) : e.lines[i] = b.lines[i]
    BY <1>1, <1>7, <2>1, AppendProperties
  <2>3. ClearBlock(rs, threeWay, e)
    <3>1. Len(e.lines) >= 1 /\ 1 \in 1..Len(b.lines)
      BY <1>0, <1>1, <2>2 DEF ClearBlock
    <3>2. e.conflict <=> IsConflict(e.lines[1])
      BY <1>0, <1>4, <2>2, <3>1 DEF ClearBlock
    <3>3. ASSUME NEW i \in 1..Len(e.lines)
          PROVE  HasSource(rs, e.lines[i]) \/ IsConflict(e.lines[i]) \/ e.lines[i].removed
      <4>1. CASE i = Len(b.lines) + 1
        BY <1>7, <2>2, <4>1
      <4>2. CASE i # Len(b.lines) + 1
        <5>1. i \in 1..Len(b.lines)
          BY <1>1, <2>2, <4>2
        <5> QED BY <1>0, <2>2, <5>1 DEF ClearBlock
      <4> QED BY <4>1, <4>2
    <3> QED BY <1>12, <3>1, <3>2, <3>3 DEF ClearBlock
  <2>4. Gathered(G, Append(b.lines, l)) = Gathered(G, b.lines) \o G[l]
    BY <1>1, <1>7, <1>9, GatheredAppend
  <2> QED BY <1>7, <1>9, <1>10, <1>11, <2>1, <2>3, <2>4 DEF e, new, HasTaken
<1> QED BY <1>13, <1>14

\* What buildFromDiff3() has made of the first k rows, and what they show.
BuiltClear(rs, threeWay, C, bs, k) ==
    /\ Built(rs, threeWay, C, bs, k)
    /\ \A i \in 1..Len(bs) : ClearBlock(rs, threeWay, bs[i])
    /\ Gathered(BlockTexts(rs, C), bs) = Gathered(RowTexts(rs, threeWay), FirstRows(k))

LEMMA RowTextTypes ==
    ASSUME NEW C, NEW rs, NEW threeWay, RowList(rs, threeWay, C)
    PROVE  RowTexts(rs, threeWay) \in [1..Len(rs) -> Seq(Seq(C))]
<1>1. ASSUME NEW k \in 1..Len(rs) PROVE RowTexts(rs, threeWay)[k] \in Seq(Seq(C))
  <2> DEFINE l == RowLine(rs, threeWay, k)
  <2>1. l \in EditLine(C) /\ RowTexts(rs, threeWay)[k] = LineText(rs, l)
    BY RowLineWell
  <2> HIDE DEF l
  <2>2. LineTexts(rs, C)[l] \in Seq(Seq(C))
    BY <2>1, TextTypes
  <2>3. LineTexts(rs, C)[l] = LineText(rs, l)
    BY <2>1 DEF LineTexts
  <2> QED BY <2>1, <2>2, <2>3
<1>2. RowTexts(rs, threeWay) = [k \in 1..Len(rs) |-> RowTexts(rs, threeWay)[k]]
  BY DEF RowTexts
<1> QED BY <1>1, <1>2

LEMMA WithRowClear ==
    ASSUME NEW C, NEW rs, NEW threeWay, RowList(rs, threeWay, C), NEW k \in 1..Len(rs),
           NEW bs \in Seq(Block(C)), BuiltClear(rs, threeWay, C, bs, k - 1)
    PROVE  BuiltClear(rs, threeWay, C, WithRow(rs, threeWay, bs, k), k)
<1> DEFINE n == Len(bs)
           B == Block(C)
           T == Seq(C)
           H == BlockTexts(rs, C)
           R == RowTexts(rs, threeWay)
           new == NewBlock(rs, threeWay, k)
           r == WithRow(rs, threeWay, bs, k)
           more == n > 0 /\ SameKind(rs[k], rs[bs[n].first], threeWay)
<1>1. n \in Nat /\ k \in Nat /\ Len(rs) \in Nat
  BY LenProperties DEF RowList
<1>2. Built(rs, threeWay, C, bs, k - 1)
  BY DEF BuiltClear
<1>3. Built(rs, threeWay, C, r, k)
  BY <1>2, WithRowExtends, WithRowAppends
<1>4. H \in [B -> Seq(T)] /\ R \in [1..Len(rs) -> Seq(T)]
  BY TextTypes, RowTextTypes
<1>5. Gathered(R, FirstRows(k)) = Gathered(R, FirstRows(k - 1)) \o R[k]
  <2>1. FirstRows(k - 1) \in Seq(1..Len(rs)) /\ FirstRows(k) = Append(FirstRows(k - 1), k)
    BY <1>1, FirstRowsWell
  <2>2. \A s \in Seq(1..Len(rs)), x \in 1..Len(rs) :
           Gathered(R, Append(s, x)) = Gathered(R, s) \o R[x]
    <3> DEFINE S == 1..Len(rs)
    <3>1. R \in [S -> Seq(T)]
      BY <1>4
    <3> HIDE DEF S, T, R
    <3>2. \A s \in Seq(S), x \in S : Gathered(R, Append(s, x)) = Gathered(R, s) \o R[x]
      BY <3>1, GatheredAppend
    <3> QED BY <3>2 DEF S
  <2> HIDE DEF R
  <2> QED BY <2>1, <2>2
<1>6. Gathered(H, bs) = Gathered(R, FirstRows(k - 1))
  BY DEF BuiltClear
<1>7. new \in B /\ ClearBlock(rs, threeWay, new) /\ H[new] = R[k]
  BY NewBlockClear
<1>8. \A s \in Seq(B), x \in B : Gathered(H, Append(s, x)) = Gathered(H, s) \o H[x]
  <2> HIDE DEF B, T, H
  <2> QED BY <1>4, GatheredAppend
<1>9. CASE more
  <2> DEFINE e == Extended(bs[n], new)
  <2>1. n \in Nat \ {0} /\ n \in 1..n
    BY <1>1, <1>9
  <2>2. FairBlock(rs, threeWay, C, bs[n], k - 1) /\ bs[n].first # 0 /\ bs[n].first + bs[n].len = k
    <3>1. k - 1 # 0
      BY <1>2, <2>1, EmptySeq DEF Built
    <3>2. FairList(rs, threeWay, C, bs, k - 1) /\ bs[n].first # 0
      BY <1>2, <2>1, <3>1 DEF Built
    <3>3. bs[n].first + bs[n].len = k - 1 + 1
      BY <2>1, <3>2 DEF FairList, Chain
    <3>4. k - 1 + 1 = k
      BY <1>1
    <3> QED BY <2>1, <3>2, <3>3, <3>4 DEF FairList
  <2>3. ClearBlock(rs, threeWay, bs[n])
    BY <2>1 DEF BuiltClear
  <2>4. e \in B /\ ClearBlock(rs, threeWay, e) /\ H[e] = H[bs[n]] \o R[k]
    <3> DEFINE b == bs[n]
    <3>1. /\ FairBlock(rs, threeWay, C, b, k - 1) /\ b.first # 0 /\ b.first + b.len = k
          /\ SameKind(rs[k], rs[b.first], threeWay) /\ ClearBlock(rs, threeWay, b)
      BY <1>9, <2>2, <2>3
    <3>2. TakesRow(rs, threeWay, C, b, k)
      BY <3>1 DEF TakesRow
    <3> HIDE DEF b
    <3>3. HasTaken(rs, threeWay, C, b, k)
      BY <3>2, ExtendedClear
    <3> QED BY <3>3 DEF HasTaken, b
  <2>5. r = [bs EXCEPT ![n] = e]
    BY <1>9 DEF WithRow
  <2>6. PICK q \in Seq(B), x \in B :
           bs = Append(q, x) /\ Len(q) = n - 1 /\ bs[n] = x /\ \A i \in 1..n - 1 : q[i] = bs[i]
    <3> DEFINE m == n - 1
    <3>1. m \in Nat /\ m + 1 = n /\ Len(bs) = m + 1 /\ bs \in Seq(B)
      BY <2>1
    <3> HIDE DEF m, n, B
    <3>2. PICK q \in Seq(B), x \in B :
             bs = Append(q, x) /\ Len(q) = m /\ bs[m + 1] = x /\ \A i \in 1..m : q[i] = bs[i]
      BY <3>1, FrontAndLast
    <3> QED BY <3>1, <3>2 DEF m
  <2> HIDE DEF e, r, n, H, R, B, T
  <2>7. /\ r \in Seq(B) /\ Len(r) = n /\ r[n] = e
        /\ \A i \in 1..n : i # n => r[i] = bs[i]
    <3>1. bs \in Seq(B)
      BY DEF B
    <3> QED BY <2>1, <2>4, <2>5, <3>1, ExceptSeq DEF n
  <2>8. r = Append(q, e)
    <3> DEFINE a == Append(q, e)
    <3>1. a \in Seq(B) /\ Len(a) = n - 1 + 1 /\ a[n - 1 + 1] = e /\ \A i \in 1..n - 1 : a[i] = q[i]
      BY <2>4, <2>6, AppendProperties
    <3> HIDE DEF a
    <3>2. n - 1 + 1 = n
      BY <2>1
    <3>3. \A i \in 1..n : r[i] = a[i]
      <4> SUFFICES ASSUME NEW i \in 1..n PROVE r[i] = a[i]
        OBVIOUS
      <4>1. CASE i = n
        BY <2>7, <3>1, <3>2, <4>1
      <4>2. CASE i # n
        <5>1. i \in 1..n - 1
          BY <2>1, <4>2
        <5> QED BY <2>6, <2>7, <3>1, <4>2, <5>1
      <4> QED BY <4>1, <4>2
    <3> QED BY <2>7, <3>1, <3>2, <3>3, SeqEqual DEF a
  <2>9. Gathered(H, r) = Gathered(H, bs) \o R[k]
    <3>1. /\ Gathered(H, r) = Gathered(H, q) \o H[e]
          /\ Gathered(H, bs) = Gathered(H, q) \o H[x]
      BY <1>8, <2>4, <2>6, <2>8
    <3>2. /\ Gathered(H, q) \in Seq(T) /\ H[x] \in Seq(T)
          /\ R[k] \in Seq(T)
      BY <1>4, <2>6, GatheredType
    <3>3. Gathered(H, q) \o (H[x] \o R[k]) = (Gathered(H, q) \o H[x]) \o R[k]
      <4> DEFINE a == Gathered(H, q)
                 b == H[x]
                 c == R[k]
      <4>1. a \in Seq(T) /\ b \in Seq(T) /\ c \in Seq(T)
        BY <3>2
      <4> HIDE DEF a, b, c
      <4>2. (a \o b) \o c = a \o (b \o c)
        BY <4>1, ConcatAssociative, SMTT(30)
      <4> QED BY <4>2 DEF a, b, c
    <3> QED BY <2>4, <2>6, <3>1, <3>3
  <2>10. \A i \in 1..Len(r) : ClearBlock(rs, threeWay, r[i])
    <3> SUFFICES ASSUME NEW i \in 1..n PROVE ClearBlock(rs, threeWay, r[i])
      BY <2>7
    <3>1. CASE i = n
      BY <2>4, <2>7, <3>1
    <3>2. CASE i # n
      BY <2>7, <3>2 DEF BuiltClear, n
    <3> QED BY <3>1, <3>2
  <2> QED BY <1>3, <1>5, <1>6, <2>9, <2>10 DEF BuiltClear, r, H, R
<1>10. CASE ~more
  <2>1. r = Append(bs, new)
    BY <1>10 DEF WithRow
  <2>2. Len(r) = n + 1 /\ r[n + 1] = new /\ \A i \in 1..n : r[i] = bs[i]
    <3> HIDE DEF new, r
    <3> QED BY <1>7, <2>1, AppendProperties
  <2> HIDE DEF new, r, H, R, B, T
  <2>3. Gathered(H, r) = Gathered(H, bs) \o R[k]
    BY <1>7, <1>8, <2>1 DEF B
  <2>4. \A i \in 1..Len(r) : ClearBlock(rs, threeWay, r[i])
    <3> SUFFICES ASSUME NEW i \in 1..n + 1 PROVE ClearBlock(rs, threeWay, r[i])
      BY <2>2
    <3>1. CASE i = n + 1
      BY <1>7, <2>2, <3>1
    <3>2. CASE i # n + 1
      <4>1. i \in 1..n
        BY <1>1, <3>2
      <4> QED BY <2>2, <4>1 DEF BuiltClear
    <3> QED BY <3>1, <3>2
  <2> QED BY <1>3, <1>5, <1>6, <2>3, <2>4 DEF BuiltClear, r, H, R
<1> QED BY <1>9, <1>10

\* The blocks that buildFromDiff3() makes of all rows show what each row shows.
LEMMA BuildClear ==
    ASSUME NEW C, NEW rs, NEW threeWay, RowList(rs, threeWay, C)
    PROVE  LET bs == BuildFromDiff3(rs, threeWay)
           IN /\ \A i \in 1..Len(bs) : ClearBlock(rs, threeWay, bs[i])
              /\ Gathered(BlockTexts(rs, C), bs)
                   = Gathered(RowTexts(rs, threeWay), FirstRows(Len(rs)))
<1> DEFINE P == {z \in Seq(Block(C)) \X Nat : BuiltClear(rs, threeWay, C, z[1], z[2])}
<1>1. Len(rs) \in Nat \ {0}
  BY DEF RowList
<1>2. <<<<>>, 0>> \in P
  <2>1. <<>> \in Seq(Block(C)) /\ 1..Len(<<>>) = {} /\ FirstRows(0) = <<>>
    BY EmptySeq DEF FirstRows
  <2>2. Built(rs, threeWay, C, <<>>, 0)
    BY <2>1 DEF Built
  <2>3. BuiltClear(rs, threeWay, C, <<>>, 0)
    BY <2>1, <2>2, GatheredNone DEF BuiltClear
  <2> QED BY <2>1, <2>3
<1>3. ASSUME NEW bs \in Seq(Block(C)), NEW k \in 1..Len(rs), <<bs, k - 1>> \in P
      PROVE  <<WithRow(rs, threeWay, bs, k), k>> \in P
  <2>1. BuiltClear(rs, threeWay, C, bs, k - 1)
    BY <1>3
  <2>2. BuiltClear(rs, threeWay, C, WithRow(rs, threeWay, bs, k), k)
    BY <2>1, WithRowClear
  <2>3. WithRow(rs, threeWay, bs, k) \in Seq(Block(C)) /\ k \in Nat
    BY <1>1, WithRowType
  <2> QED BY <2>2, <2>3
<1> HIDE DEF P
<1>4. <<BuildFromDiff3(rs, threeWay), Len(rs)>> \in P
  BY <1>2, <1>3, BuildInduction
<1>5. BuiltClear(rs, threeWay, C, BuildFromDiff3(rs, threeWay), Len(rs))
  BY <1>4 DEF P
<1> QED BY <1>5 DEF BuiltClear

\* The blocks have the same rows, the same head, and their lines show the same.
ShowTheSame(rs, C, r, b) ==
    /\ r \in Block(C) /\ r.first = b.first /\ r.len = b.len
    /\ Len(r.lines) >= 1 /\ r.lines[1] = b.lines[1]
    /\ BlockTexts(rs, C)[r] = BlockTexts(rs, C)[b]

LEMMA RemoveEmptyClear ==
    ASSUME NEW C, NEW rs, NEW threeWay, RowList(rs, threeWay, C), NEW n, NEW b,
           FairBlock(rs, threeWay, C, b, n), ClearBlock(rs, threeWay, b)
    PROVE  ShowTheSame(rs, C, RemoveEmptySource(rs, b), b)
<1> DEFINE ls == b.lines
           shows(l) == HasSource(rs, l) /\ ~l.removed
           empty(i) == /\ i > 1
                       /\ ~shows(ls[i]) /\ ~shows(ls[i - 1])
                       /\ ls[i].src = ls[i - 1].src
           K == {i \in DOMAIN ls : ~empty(i)}
           ks == Kept(ls, K)
           r == RemoveEmptySource(rs, b)
           G == LineTexts(rs, C)
<1>1. ls \in Seq(EditLine(C)) /\ FairLines(rs, ls, b.conflict) /\ b \in Block(C)
  BY DEF FairBlock, Block
<1>2. Len(ls) \in Nat /\ DOMAIN ls = 1..Len(ls) /\ K \subseteq Int
  BY <1>1, LenProperties
<1>3. r = [b EXCEPT !.lines = ks]
  BY DEF RemoveEmptySource
<1>4. r \in Block(C) /\ r.first = b.first /\ r.len = b.len
  <2>1. FairBlock(rs, threeWay, C, r, n) /\ r.first = b.first /\ r.len = b.len
    BY RemoveEmptyFair
  <2> QED BY <2>1 DEF FairBlock
<1>5. Len(ls) >= 1 /\ 1 \in K
  <2>1. Len(ls) >= 1
    BY DEF ClearBlock
  <2>2. ~empty(1) /\ 1 \in DOMAIN ls
    BY <1>2, <2>1
  <2> QED BY <2>1, <2>2
<1>6. ASSUME NEW i \in 1..Len(ls), i \notin K PROVE G[ls[i]] = <<>>
  <2>1. ls[i] \in EditLine(C) /\ ~shows(ls[i])
    BY <1>1, <1>2, <1>6, ElementOfSeq
  <2>2. HasSource(rs, ls[i]) \/ IsConflict(ls[i]) \/ ls[i].removed
    BY DEF ClearBlock
  <2>3. LineText(rs, ls[i]) = <<>>
    BY <2>1, <2>2 DEF LineText
  <2> QED BY <2>1, <2>3 DEF LineTexts
<1>7. G \in [EditLine(C) -> Seq(Seq(C))]
  BY TextTypes
<1> HIDE DEF K, G
<1>8. Gathered(G, ks) = Gathered(G, ls) /\ ks \in Seq(EditLine(C))
  <2>1. \A s \in Seq(EditLine(C)) : (\A i \in 1..Len(s) : i \notin K => G[s[i]] = <<>>) =>
           Gathered(G, Kept(s, K)) = Gathered(G, s) /\ Kept(s, K) \in Seq(EditLine(C))
    BY <1>7, KeptGathered
  <2> HIDE DEF ls
  <2> QED BY <1>1, <1>6, <2>1
<1>9. Len(ks) >= 1 /\ ks[1] = ls[1]
  <2>1. KeptWell(ls, K, EditLine(C))
    BY <1>1, <1>2, KeptElements
  <2>2. \A i \in K : i \in 1..Len(ls) => 1 <= i
    BY <1>2
  <2> HIDE DEF ls
  <2> QED BY <1>2, <1>5, <2>1, <2>2 DEF KeptWell
<1> HIDE DEF ks
<1>10. r.lines = ks
  BY <1>1, <1>3 DEF Block
<1> HIDE DEF r
<1>11. BlockTexts(rs, C)[r] = Gathered(G, ks) /\ BlockTexts(rs, C)[b] = Gathered(G, ls)
  BY <1>1, <1>4, <1>10 DEF BlockTexts, G
<1> QED BY <1>4, <1>8, <1>9, <1>10, <1>11 DEF ShowTheSame, r

\* The lines of all blocks show what the blocks show.
OfBlocks(G, C) == [b \in Block(C) |-> Gathered(G, b.lines)]

LEMMA GatheredBlocks ==
    ASSUME NEW C, NEW T, NEW G \in [EditLine(C) -> Seq(T)], NEW bs \in Seq(Block(C))
    PROVE  LET ls == FlattenSeq([j \in DOMAIN bs |-> bs[j].lines])
           IN /\ ls \in Seq(EditLine(C))
              /\ OfBlocks(G, C) \in [Block(C) -> Seq(T)]
              /\ Gathered(G, ls) = Gathered(OfBlocks(G, C), bs)
<1> DEFINE L == EditLine(C)
           U == Seq(L)
           H == EachGathered(G, L)
           B == OfBlocks(G, C)
           ss == [j \in DOMAIN bs |-> bs[j].lines]
           n == Len(bs)
<1>1. n \in Nat /\ DOMAIN bs = 1..n /\ \A j \in 1..n : bs[j] \in Block(C) /\ bs[j].lines \in U
  <2>1. n \in Nat /\ DOMAIN bs = 1..n /\ \A j \in 1..n : bs[j] \in Block(C)
    BY LenProperties, ElementOfSeq
  <2> QED BY <2>1 DEF Block
<1>2. ss \in Seq(U) /\ Len(ss) = n /\ DOMAIN ss = 1..n /\ \A j \in 1..n : ss[j] = bs[j].lines
  <2>1. ss \in [1..n -> U] /\ \A j \in 1..n : ss[j] = bs[j].lines
    BY <1>1
  <2> HIDE DEF ss, n, U
  <2> QED BY <1>1, <2>1, MapSeq
<1>3. B \in [Block(C) -> Seq(T)]
  <2>1. ASSUME NEW b \in Block(C) PROVE Gathered(G, b.lines) \in Seq(T)
    <3>1. b.lines \in Seq(EditLine(C))
      BY DEF Block
    <3> QED BY <3>1, GatheredType
  <2> QED BY <2>1 DEF OfBlocks
<1>4. \A j \in 1..n : B[bs[j]] = H[ss[j]]
  BY <1>1, <1>2 DEF OfBlocks, EachGathered
<1> HIDE DEF ss, n, B, L, H, U
<1>5. FlattenSeq(ss) \in Seq(L)
  BY <1>2, FlattenType DEF U
<1>6. Gathered(G, FlattenSeq(ss)) = Gathered(H, ss)
  <2>1. \A tt \in Seq(Seq(L)) : Gathered(G, FlattenSeq(tt)) = Gathered(EachGathered(G, L), tt)
    BY GatheredFlatten DEF L
  <2> QED BY <1>2, <2>1 DEF H, U
<1>7. Gathered(H, ss) = Gathered(B, bs)
  <2>1. [j \in DOMAIN ss |-> H[ss[j]]] = [j \in DOMAIN bs |-> B[bs[j]]]
    BY <1>1, <1>2, <1>4
  <2> QED BY <2>1 DEF Gathered
<1> QED BY <1>3, <1>5, <1>6, <1>7 DEF ss, B, L

LEMMA TextOfBlocks ==
    ASSUME NEW C, NEW rs, NEW threeWay, RowList(rs, threeWay, C), NEW bs \in Seq(Block(C))
    PROVE  LET ls == FlattenSeq([j \in DOMAIN bs |-> bs[j].lines])
           IN /\ ls \in Seq(EditLine(C))
              /\ Gathered(LineTexts(rs, C), ls) = Gathered(BlockTexts(rs, C), bs)
<1> DEFINE G == LineTexts(rs, C)
           T == Seq(C)
<1>1. G \in [EditLine(C) -> Seq(T)]
  BY TextTypes
<1>2. OfBlocks(G, C) = BlockTexts(rs, C)
  BY DEF OfBlocks, BlockTexts
<1> HIDE DEF G, T
<1>3. LET ls == FlattenSeq([j \in DOMAIN bs |-> bs[j].lines])
      IN ls \in Seq(EditLine(C)) /\ Gathered(G, ls) = Gathered(OfBlocks(G, C), bs)
  BY <1>1, GatheredBlocks
<1> QED BY <1>2, <1>3 DEF G

-----------------------------------------------------------------------------
(* The characters of the lines. *)

Strings(rs, C) == [l \in EditLine(C) |-> GetString(rs, l)]

LEMMA StringTypes ==
    ASSUME NEW C, NEW rs, NEW threeWay, RowList(rs, threeWay, C)
    PROVE  /\ Strings(rs, C) \in [EditLine(C) -> Seq(C)]
           /\ OfBlocks(Strings(rs, C), C) \in [Block(C) -> Seq(C)]
<1>1. Strings(rs, C) \in [EditLine(C) -> Seq(C)]
  BY StringType DEF Strings
<1>2. ASSUME NEW b \in Block(C) PROVE Gathered(Strings(rs, C), b.lines) \in Seq(C)
  <2>1. b.lines \in Seq(EditLine(C))
    BY DEF Block
  <2> QED BY <1>1, <2>1, GatheredType
<1> QED BY <1>1, <1>2 DEF OfBlocks

\* A split moves lines: it writes none and drops none.
LEMMA HalvesText ==
    ASSUME NEW C, NEW rs, NEW threeWay, RowList(rs, threeWay, C), NEW b \in Block(C),
           NEW k \in Nat, Halves(b, k)[1] \in Block(C), Halves(b, k)[2] \in Block(C)
    PROVE  LET H == OfBlocks(Strings(rs, C), C)
           IN H[Halves(b, k)[1]] \o H[Halves(b, k)[2]] = H[b]
<1> DEFINE ls == b.lines
           G == Strings(rs, C)
           at == SelectInSeq(ls, LAMBDA l : l.row = k)
           us == IF at = 0 THEN ls ELSE SubSeq(ls, 1, at - 1)
           vs == IF at = 0 THEN <<Line(k)>> ELSE SubSeq(ls, at, Len(ls))
           u == Halves(b, k)[1]
           v == Halves(b, k)[2]
<1>1. G \in [EditLine(C) -> Seq(C)]
  BY StringTypes
<1>2. /\ \A s, t \in Seq(EditLine(C)) : Gathered(G, s \o t) = Gathered(G, s) \o Gathered(G, t)
      /\ \A x \in EditLine(C) : Gathered(G, <<x>>) = G[x]
      /\ \A s \in Seq(EditLine(C)) : Gathered(G, s) \in Seq(C)
  <2> DEFINE L == EditLine(C)
  <2>0. G \in [L -> Seq(C)]
    BY <1>1
  <2> HIDE DEF G, L
  <2>1. \A s, t \in Seq(L) : Gathered(G, s \o t) = Gathered(G, s) \o Gathered(G, t)
    BY ONLY <2>0, GatheredConcat
  <2>2. \A x \in L : Gathered(G, <<x>>) = G[x]
    BY ONLY <2>0, GatheredOne
  <2>3. \A s \in Seq(L) : Gathered(G, s) \in Seq(C)
    BY <2>0, GatheredType
  <2> QED BY <2>1, <2>2, <2>3 DEF L
<1>3. ls \in Seq(EditLine(C)) /\ Len(ls) \in Nat
  BY LenProperties DEF Block
<1>4. at \in 0..Len(ls)
  <2> DEFINE I == {x \in 1..Len(ls) : ls[x].row = k}
  <2>1. at = IF I # {} THEN Min(I) ELSE 0
    BY DEF SelectInSeq
  <2>2. I \subseteq Nat /\ I \subseteq 1..Len(ls)
    OBVIOUS
  <2> HIDE DEF I
  <2>3. I # {} => Min(I) \in I
    BY <2>2, MinWell
  <2> QED BY <1>3, <2>1, <2>2, <2>3
<1>5. u.lines = us /\ v.lines = vs
  <2>1. /\ u = [b EXCEPT !.len = k - b.first, !.lines = us]
        /\ v = [b EXCEPT !.first = k, !.len = b.len - (k - b.first), !.lines = vs]
    BY DEF Halves
  <2> HIDE DEF us, vs
  <2> QED BY <2>1 DEF Block
<1>6. Gathered(G, us) \o Gathered(G, vs) = Gathered(G, ls)
  <2>1. CASE at = 0
    <3>1. us = ls /\ vs = <<Line(k)>>
      BY <2>1
    <3>2. Line(k) \in EditLine(C) /\ G[Line(k)] = <<>>
      <4>1. Line(k) \in EditLine(C) /\ ~HasSource(rs, Line(k))
        BY LineWell
      <4>2. ~Line(k).changed
        BY DEF Line
      <4> QED BY <4>1, <4>2 DEF Strings, GetString
    <3>3. Gathered(G, vs) = <<>>
      BY <1>2, <3>1, <3>2
    <3>4. Gathered(G, ls) \in Seq(C)
      BY <1>2, <1>3
    <3> HIDE DEF G, us, vs
    <3> QED BY <3>1, <3>3, <3>4, ConcatEmptySeq
  <2>2. CASE at # 0
    <3>0. at \in 1..Len(ls) + 1
      <4> HIDE DEF at, ls
      <4> QED BY <1>3, <1>4, <2>2
    <3>1. us = SubSeq(ls, 1, at - 1) /\ vs = SubSeq(ls, at, Len(ls)) /\ at \in 1..Len(ls) + 1
      <4> HIDE DEF at, ls
      <4> QED BY <2>2, <3>0
    <3> HIDE DEF us, vs, ls, at, G
    <3>2. us \in Seq(EditLine(C)) /\ vs \in Seq(EditLine(C)) /\ ls = us \o vs
      BY <1>3, <3>1, CutInTwo
    <3> QED BY <1>2, <3>2
  <2> QED BY <2>1, <2>2
<1>7. /\ OfBlocks(G, C)[u] = Gathered(G, us) /\ OfBlocks(G, C)[v] = Gathered(G, vs)
      /\ OfBlocks(G, C)[b] = Gathered(G, ls)
  <2> HIDE DEF us, vs
  <2> QED BY <1>5 DEF OfBlocks
<1> HIDE DEF us, vs
<1> QED BY <1>6, <1>7

LEMMA SplitAtText ==
    ASSUME NEW C, NEW rs, NEW threeWay, RowList(rs, threeWay, C), NEW n \in Nat,
           NEW bs, FairList(rs, threeWay, C, bs, n), NEW k \in 1..n + 1
    PROVE  LET H == OfBlocks(Strings(rs, C), C)
           IN Gathered(H, SplitAt(bs, k)) = Gathered(H, bs)
<1> DEFINE H == OfBlocks(Strings(rs, C), C)
           B == Block(C)
           j == BlockToSplit(bs, k)
           b == bs[j]
           parts == IF SplitInside(b, k) THEN Halves(b, k) ELSE <<b, BlankBlock>>
<1>1. bs \in Seq(B) /\ \A x \in 1..Len(bs) : FairBlock(rs, threeWay, C, bs[x], n) /\ bs[x] \in B
  BY DEF FairList, FairBlock
<1>2. H \in [B -> Seq(C)]
  BY StringTypes
<1>3. /\ \A s, t \in Seq(B) : Gathered(H, s \o t) = Gathered(H, s) \o Gathered(H, t)
      /\ \A x \in B : Gathered(H, <<x>>) = H[x]
      /\ \A s \in Seq(B) : \A x \in 1..Len(s) + 1 : \A y \in x - 1..Len(s) :
            \E a, z \in Seq(C) : Frame(H, B, s, x, y, a, z)
  <2> HIDE DEF H, B
  <2>1. \A s, t \in Seq(B) : Gathered(H, s \o t) = Gathered(H, s) \o Gathered(H, t)
    BY ONLY <1>2, GatheredConcat
  <2>2. \A x \in B : Gathered(H, <<x>>) = H[x]
    BY ONLY <1>2, GatheredOne
  <2>3. \A s \in Seq(B) : \A x \in 1..Len(s) + 1 : \A y \in x - 1..Len(s) :
            \E a, z \in Seq(C) : Frame(H, B, s, x, y, a, z)
    BY ONLY <1>2, GatheredPart
  <2> QED BY <2>1, <2>2, <2>3
<1>4. j = 0 \/ (j \in 1..Len(bs) /\ b.first < k)
  BY BlockToSplitWell
<1>5. SplitAt(bs, k) = IF j = 0 THEN bs ELSE Part(bs, j, j, parts)
  BY DEF SplitAt, Part
<1> HIDE DEF H, B, j
<1>6. CASE j = 0
  BY <1>5, <1>6 DEF H
<1>7. CASE j # 0
  <2>1. j \in 1..Len(bs) /\ b.first < k /\ FairBlock(rs, threeWay, C, b, n) /\ b \in B
    BY <1>1, <1>4, <1>7
  <2>2. bs = Part(bs, j, j, <<b>>)
    <3>1. \A x \in 1..Len(bs) : x # j => bs[x] = bs[x]
      OBVIOUS
    <3> QED BY <1>1, <2>1, <3>1, ReplacedPart
  <2>3. /\ parts \in Seq(B) /\ Gathered(H, parts) = H[b]
    <3>1. CASE SplitInside(b, k)
      <4> DEFINE u == Halves(b, k)[1]
                 v == Halves(b, k)[2]
      <4>1. b.first # 0 /\ k < b.first + b.len /\ k \in Nat
        BY <2>1, <3>1 DEF SplitInside, FairBlock, Fits
      <4>2. FairBlock(rs, threeWay, C, u, n) /\ FairBlock(rs, threeWay, C, v, n)
        <5> HIDE DEF b
        <5> QED BY <2>1, <4>1, HalvesFair
      <4>3. u \in B /\ v \in B
        BY <4>2 DEF FairBlock, B
      <4>4. H[u] \o H[v] = H[b]
        <5> HIDE DEF b
        <5> QED BY <2>1, <4>1, <4>3, HalvesText DEF B, H
      <4>5. parts = <<u>> \o <<v>>
        <5>1. parts = <<u, v>>
          BY <3>1 DEF Halves
        <5> HIDE DEF u, v, parts, b
        <5> QED BY <4>3, <5>1, PairIsConcat
      <4> HIDE DEF u, v, parts, b
      <4>6. <<u>> \in Seq(B) /\ <<v>> \in Seq(B)
        BY <4>3
      <4>7. parts \in Seq(B)
        BY <4>5, <4>6, ConcatProperties
      <4> QED BY <1>3, <4>3, <4>4, <4>5, <4>6, <4>7
    <3>2. CASE ~SplitInside(b, k)
      <4> DEFINE e == BlankBlock
      <4>1. parts = <<b>> \o <<e>>
        <5>1. parts = <<b, e>>
          BY <3>2
        <5> HIDE DEF b, e, parts
        <5> QED BY <5>1
      <4>2. e \in B /\ H[e] = <<>>
        <5>1. e \in B
          BY BlankFair DEF FairBlock, B
        <5>2. e.lines = <<>>
          BY DEF BlankBlock
        <5> HIDE DEF e
        <5> QED BY <5>1, <5>2, GatheredNone DEF H, B, OfBlocks
      <4> HIDE DEF e, parts, b
      <4>3. <<b>> \in Seq(B) /\ <<e>> \in Seq(B)
        BY <2>1, <4>2
      <4>4. parts \in Seq(B)
        BY <4>1, <4>3, ConcatProperties
      <4>5. Gathered(H, parts) = H[b] \o <<>>
        BY <1>3, <2>1, <4>1, <4>2, <4>3
      <4>6. H[b] \in Seq(C)
        BY <1>2, <2>1
      <4> QED BY <4>4, <4>5, <4>6, ConcatEmptySeq
    <3> QED BY <3>1, <3>2
  <2> HIDE DEF parts
  <2>4. j \in 1..Len(bs) + 1 /\ j \in j - 1..Len(bs) /\ <<b>> \in Seq(B)
    <3>1. Len(bs) \in Nat
      BY <1>1, LenProperties
    <3> HIDE DEF b
    <3> QED BY <2>1, <3>1
  <2>5. PICK a, z \in Seq(C) : Frame(H, B, bs, j, j, a, z)
    BY <1>1, <1>3, <2>4
  <2>6. /\ Gathered(H, Part(bs, j, j, parts)) = (a \o H[b]) \o z
        /\ Gathered(H, Part(bs, j, j, <<b>>)) = (a \o H[b]) \o z
    <3> HIDE DEF b
    <3> QED BY <1>3, <2>1, <2>3, <2>4, <2>5 DEF Frame
  <2> HIDE DEF b
  <2> QED BY <1>5, <1>7, <2>2, <2>6 DEF H
<1> QED BY <1>6, <1>7

-----------------------------------------------------------------------------
(* The invariant of a merge. *)

\* What holds at any time: see Result() for the blocks.
IsResult(bs) == Result(rows, three, Char, bs, Len(rows))

IInv ==
    /\ scenario \in Scenarios
    /\ IsResult(blocks)
    /\ file # "partial"

LEMMA ScenarioWell ==
    ASSUME scenario \in Scenarios
    PROVE  /\ RowList(rows, three, Char)
           /\ Len(rows) \in Nat \ {0} /\ DOMAIN rows = 1..Len(rows)
           /\ Inputs \subseteq Sides
           /\ scenario.white \in Sides \cup {"None"} /\ scenario.keywords \subseteq 1..Len(rows)
           /\ Typed \subseteq Char
<1>1. /\ three \in BOOLEAN
      /\ DOMAIN rows = 1..Len(rows) /\ Len(rows) \in Nat \ {0}
      /\ \A k \in DOMAIN rows :
            /\ DOMAIN rows[k] # {} /\ DOMAIN rows[k] \subseteq IF three THEN Sides ELSE {"A", "B"}
            /\ rows[k] \in [DOMAIN rows[k] -> Seq(Char)]
      /\ scenario.white \in Sides \cup {"None"} /\ scenario.keywords \subseteq 1..Len(rows)
  BY ScenarioAssumption DEF rows, three
<1>2. RowList(rows, three, Char)
  BY <1>1 DEF RowList
<1>3. Inputs \subseteq Sides
  BY DEF Inputs, Sides
<1> QED BY <1>1, <1>2, <1>3, ScenarioAssumption

-----------------------------------------------------------------------------
(* merge(). *)

LEMMA WithoutEmptyFair ==
    ASSUME scenario \in Scenarios, NEW bs, FairList(rows, three, Char, bs, Len(rows))
    PROVE  /\ IsResult(WithoutEmpty(bs)) /\ Len(WithoutEmpty(bs)) = Len(bs)
           /\ \A i \in 1..Len(bs) : NoEmpty(rows, bs[i].lines) /\ ~HasModifiedText(bs[i]) =>
                 WithoutEmpty(bs)[i].lines = bs[i].lines
<1> DEFINE n == Len(rows)
           m == Len(bs)
           r == WithoutEmpty(bs)
<1>1. n \in Nat
  BY ScenarioWell
<1>2. bs \in Seq(Block(Char)) /\ m \in Nat /\ DOMAIN bs = 1..m
  BY LenProperties DEF FairList
<1>3. r = [i \in 1..m |-> RemoveEmptySource(rows, bs[i])]
  BY <1>2 DEF WithoutEmpty
<1>4. \A i \in 1..m : r[i] = RemoveEmptySource(rows, bs[i])
  BY <1>3
<1> HIDE DEF r
<1>5. \A i \in 1..m : /\ FairBlock(rows, three, Char, r[i], n) /\ NoEmpty(rows, r[i].lines)
                      /\ r[i].first = bs[i].first /\ r[i].len = bs[i].len
                      /\ NoEmpty(rows, bs[i].lines) /\ ~HasModifiedText(bs[i]) =>
                            r[i].lines = bs[i].lines
  <2> SUFFICES ASSUME NEW i \in 1..m
               PROVE  /\ FairBlock(rows, three, Char, r[i], n) /\ NoEmpty(rows, r[i].lines)
                      /\ r[i].first = bs[i].first /\ r[i].len = bs[i].len
                      /\ NoEmpty(rows, bs[i].lines) /\ ~HasModifiedText(bs[i]) =>
                            r[i].lines = bs[i].lines
    OBVIOUS
  <2>1. FairBlock(rows, three, Char, bs[i], n) /\ r[i] = RemoveEmptySource(rows, bs[i])
    BY <1>4 DEF FairList
  <2> QED BY <2>1, RemoveEmptyFair
<1>6. r \in Seq(Block(Char)) /\ Len(r) = m
  <2>1. \A i \in 1..m : r[i] \in Block(Char)
    BY <1>5 DEF FairBlock
  <2>2. r \in [1..m -> Block(Char)]
    BY <1>3, <1>4, <2>1
  <2> QED BY <1>2, <2>2, MapSeq
<1>7. FairList(rows, three, Char, r, n)
  BY <1>1, <1>5, <1>6, SameRows
<1> QED BY <1>5, <1>6, <1>7 DEF IsResult, Result, NoEmptyList, r

LEMMA MergedIsResult ==
    ASSUME scenario \in Scenarios, NEW bs, NEW s \in Sides \cup {"Invalid"},
           NEW conflictsOnly, NEW whiteOnly, conflictsOnly => IsResult(bs)
    PROVE  IsResult(Merged(bs, s, conflictsOnly, whiteOnly))
<1> DEFINE old == IF conflictsOnly THEN bs ELSE BuildFromDiff3(rows, three)
           new == UpdateDefaults(rows, old, s, conflictsOnly, whiteOnly)
<1>1. RowList(rows, three, Char)
  BY ScenarioWell
<1>2. FairList(rows, three, Char, old, Len(rows))
  BY <1>1, BuildFair DEF IsResult, Result
<1> HIDE DEF old
<1>3. FairList(rows, three, Char, new, Len(rows))
  BY <1>1, <1>2, UpdateDefaultsFair
<1>4. Merged(bs, s, conflictsOnly, whiteOnly) = WithoutEmpty(new)
  BY DEF Merged, old
<1> HIDE DEF new
<1> QED BY <1>3, <1>4, WithoutEmptyFair

\* A keyword turns the head of a conflict into a line of an input, before the
\* block is split behind it.
LEMMA AutoMergeKeywordIsResult ==
    ASSUME scenario \in Scenarios, NEW bs, IsResult(bs), NEW k \in 1..Len(rows)
    PROVE  IsResult(AutoMergeKeyword(bs, k))
<1> DEFINE n == Len(rows)
           I == {x \in 1..Len(bs) : bs[x].first = k}
           j == SelectInSeq(bs, LAMBDA b : b.first = k)
           s == IF three THEN "C" ELSE "B"
           taken == [bs EXCEPT ![j].lines[1] = SourceLine(bs[j].lines[1].row, s, FALSE)]
<1>1. n \in Nat /\ FairList(rows, three, Char, bs, n) /\ NoEmptyList(rows, bs)
  BY ScenarioWell DEF IsResult, Result
<1>2. j # 0 => j \in 1..Len(bs)
  <2>1. j = IF I # {} THEN Min(I) ELSE 0
    BY DEF SelectInSeq
  <2>2. I \subseteq Nat /\ I \subseteq 1..Len(bs)
    OBVIOUS
  <2> HIDE DEF I
  <2>3. I # {} => Min(I) \in I
    BY <2>2, MinWell
  <2> QED BY <2>1, <2>2, <2>3
<1>3. AutoMergeKeyword(bs, k) =
         IF k \notin scenario.keywords \/ j = 0 THEN bs
         ELSE IF ~bs[j].conflict \/ bs[j].lines = <<>> THEN bs
         ELSE SplitAt(taken, k + 1)
  BY DEF AutoMergeKeyword
<1> HIDE DEF j
<1>4. ASSUME j # 0, bs[j].conflict, bs[j].lines # <<>>
      PROVE  IsResult(SplitAt(taken, k + 1))
  <2> DEFINE ls == bs[j].lines
             l == SourceLine(ls[1].row, s, FALSE)
             new == [ls EXCEPT ![1] = l]
  <2>1. j \in 1..Len(bs) /\ FairBlock(rows, three, Char, bs[j], n)
    BY <1>1, <1>2, <1>4 DEF FairList
  <2>2. /\ ls \in Seq(EditLine(Char)) /\ FairLines(rows, ls, bs[j].conflict) /\ NoEmpty(rows, ls)
        /\ Len(ls) \in Nat
    BY <1>1, <2>1, LenProperties DEF FairBlock, Block, NoEmptyList
  <2>3. 1 \in 1..Len(ls)
    BY <1>4, <2>2, EmptySeq
  <2>4. ls[1].row \in Nat
    <3>1. ls[1] \in EditLine(Char)
      BY <2>2, <2>3, ElementOfSeq
    <3> QED BY <3>1 DEF EditLine
  <2>5. s \in Sides
    BY DEF Sides
  <2>6. l \in EditLine(Char) /\ ~l.removed
    <3> HIDE DEF s, ls
    <3> QED BY <2>4, <2>5, TakenLine
  <2>7. taken = [bs EXCEPT ![j].lines = new]
    <3>1. bs \in Seq(Block(Char)) /\ bs[j] \in Block(Char)
      BY <1>1, <2>1 DEF FairList, FairBlock
    <3> QED BY <2>1, <3>1 DEF Block
  <2> HIDE DEF l, ls
  <2>8. LinesFit(rows, Char, ls, bs[j].conflict) /\ MayBe(rows, Char, l, 1, bs[j].conflict)
    BY <1>4, <2>2, <2>6 DEF LinesFit, MayBe
  <2>12. LinesFit(rows, Char, new, bs[j].conflict)
    BY <2>3, <2>8, LineReplaced
  <2> HIDE DEF new, taken
  <2>9. Result(rows, three, Char, taken, n)
    BY <1>1, <2>1, <2>7, <2>12, LinesReplaced DEF Result, LinesFit
  <2>10. FairList(rows, three, Char, taken, n) /\ NoEmptyList(rows, taken) /\ k + 1 \in 1..n + 1
    BY <1>1, <2>9 DEF Result
  <2>11. /\ FairList(rows, three, Char, SplitAt(taken, k + 1), n)
         /\ NoEmptyList(rows, taken) => NoEmptyList(rows, SplitAt(taken, k + 1))
    BY <1>1, <2>10, SplitAtFair
  <2> QED BY <2>10, <2>11 DEF IsResult, Result
<1> HIDE DEF taken
<1> QED BY <1>3, <1>4

LEMMA RegExpAutoMergeIsResult ==
    ASSUME scenario \in Scenarios, NEW bs, IsResult(bs)
    PROVE  IsResult(RegExpAutoMerge(bs))
<1> DEFINE n == Len(rows)
           S == {x \in Seq(Block(Char)) : IsResult(x)}
           G == [z \in S \X (1..n) |-> AutoMergeKeyword(z[1], z[2])]
           Is(f) == f = [k \in 0..n |-> IF k = 0 THEN bs ELSE AutoMergeKeyword(f[k - 1], k)]
           f == CHOOSE g : Is(g)
<1>1. n \in Nat \ {0} /\ bs \in S
  BY ScenarioWell DEF IsResult, Result, FairList
<1>2. \A x \in S, k \in 1..n : AutoMergeKeyword(x, k) \in S
  <2> SUFFICES ASSUME NEW x \in S, NEW k \in 1..n PROVE AutoMergeKeyword(x, k) \in S
    OBVIOUS
  <2>1. IsResult(AutoMergeKeyword(x, k))
    BY AutoMergeKeywordIsResult
  <2> QED BY <2>1 DEF IsResult, Result, FairList
<1>3. \A x \in S, k \in 1..n : G[<<x, k>>] = AutoMergeKeyword(x, k) /\ G[<<x, k>>] \in S
  <2> HIDE DEF S
  <2> QED BY <1>2
<1> HIDE DEF G, S
<1>4. \E g : Is(g)
  <2>1. PICK g : /\ g = [k \in 0..n |-> IF k = 0 THEN bs ELSE G[<<g[k - 1], k>>]]
                 /\ g \in [0..n -> S]
    <3> HIDE DEF n
    <3> QED BY <1>1, <1>3, RecursionExists
  <2>2. \A k \in 0..n : k # 0 => k \in 1..n /\ k - 1 \in 0..n
    BY <1>1
  <2> HIDE DEF n
  <2>3. \A k \in 0..n : k # 0 => G[<<g[k - 1], k>>] = AutoMergeKeyword(g[k - 1], k)
    BY <1>3, <2>1, <2>2
  <2>4. Is(g)
    BY <2>1, <2>3
  <2> QED BY <2>4
<1>5. Is(f)
  BY <1>4
<1>6. RegExpAutoMerge(bs) = f[n]
  BY DEF RegExpAutoMerge
<1> HIDE DEF f
<1>7. f[0] = bs /\ \A k \in 1..n : f[k] = AutoMergeKeyword(f[k - 1], k)
  BY <1>1, <1>5
<1> DEFINE T == {k \in Nat : k <= n => f[k] \in S}
<1>8. 0 \in T
  BY <1>1, <1>7
<1>9. ASSUME NEW k \in Nat, k \in T PROVE k + 1 \in T
  <2> SUFFICES ASSUME k + 1 <= n PROVE f[k + 1] \in S
    OBVIOUS
  <2>1. k + 1 \in 1..n /\ k + 1 - 1 = k /\ k <= n
    BY <1>1
  <2>2. f[k] \in S /\ f[k + 1] = AutoMergeKeyword(f[k], k + 1)
    BY <1>7, <1>9, <2>1
  <2> QED BY <1>2, <2>1, <2>2
<1> HIDE DEF T
<1>10. \A k \in Nat : k \in T
  BY <1>8, <1>9, SetInduction
<1>11. f[n] \in S
  BY <1>1, <1>10 DEF T
<1> QED BY <1>6, <1>11 DEF S

LEMMA AutoSolvedIsResult ==
    ASSUME scenario \in Scenarios
    PROVE  IsResult(AutoSolved)
<1> DEFINE built == BuildFromDiff3(rows, three)
           white == IF scenario.white = "None" THEN built
                    ELSE UpdateDefaults(rows, built, scenario.white, FALSE, TRUE)
<1>1. RowList(rows, three, Char) /\ scenario.white \in Sides \cup {"None"}
  BY ScenarioWell
<1>2. FairList(rows, three, Char, built, Len(rows))
  BY <1>1, BuildFair
<1> HIDE DEF built
<1>3. FairList(rows, three, Char, white, Len(rows))
  BY <1>1, <1>2, UpdateDefaultsFair
<1>4. AutoSolved = IF scenario.atStart THEN RegExpAutoMerge(WithoutEmpty(white))
                   ELSE WithoutEmpty(white)
  BY DEF AutoSolved, built
<1> HIDE DEF white
<1>5. IsResult(WithoutEmpty(white))
  BY <1>3, WithoutEmptyFair
<1> QED BY <1>4, <1>5, RegExpAutoMergeIsResult

-----------------------------------------------------------------------------
(* The editor. *)

At(bs, p) == p[1] \in 1..Len(bs) /\ p[2] \in 1..Len(bs[p[1]].lines)

\* A line that the user has written.
Written(l) == l \in EditLine(Char) /\ l.changed /\ l.src = "None"

LEMMA WrittenLine ==
    ASSUME NEW l \in EditLine(Char), NEW t \in Seq(Char)
    PROVE  Written(SetString(l, t)) /\ Written(SetRemoved(l))
<1>1. <<>> \in Seq(Char)
  BY EmptySeq
<1>2. SetString(l, t) \in EditLine(Char) /\ SetRemoved(l) \in EditLine(Char)
  BY <1>1 DEF SetString, SetRemoved, EditLine
<1>3. SetString(l, t).changed /\ SetString(l, t).src = "None"
  BY DEF SetString, EditLine
<1>4. SetRemoved(l).changed /\ SetRemoved(l).src = "None"
  BY DEF SetRemoved, EditLine
<1> QED BY <1>2, <1>3, <1>4 DEF Written

LEMMA WrittenAnywhere ==
    ASSUME NEW l, Written(l), NEW i, NEW conflict
    PROVE  MayBe(rows, Char, l, i, conflict)
BY DEF Written, MayBe, HasSource

\* The lines of a block of the result.
LEMMA LinesOf ==
    ASSUME NEW bs, IsResult(bs)
    PROVE  /\ bs \in Seq(Block(Char)) /\ Len(bs) \in Nat \ {0} /\ DOMAIN bs = 1..Len(bs)
           /\ \A j \in 1..Len(bs) :
                 /\ bs[j] \in Block(Char)
                 /\ LinesFit(rows, Char, bs[j].lines, bs[j].conflict)
                 /\ Len(bs[j].lines) \in Nat /\ DOMAIN bs[j].lines = 1..Len(bs[j].lines)
                 /\ \A i \in 1..Len(bs[j].lines) : bs[j].lines[i] \in EditLine(Char)
<1>1. bs \in Seq(Block(Char)) /\ Len(bs) \in Nat \ {0} /\ DOMAIN bs = 1..Len(bs)
  BY LenProperties DEF IsResult, Result, FairList
<1>2. ASSUME NEW j \in 1..Len(bs)
      PROVE  /\ bs[j] \in Block(Char)
             /\ LinesFit(rows, Char, bs[j].lines, bs[j].conflict)
             /\ Len(bs[j].lines) \in Nat /\ DOMAIN bs[j].lines = 1..Len(bs[j].lines)
             /\ \A i \in 1..Len(bs[j].lines) : bs[j].lines[i] \in EditLine(Char)
  <2>1. FairBlock(rows, three, Char, bs[j], Len(rows)) /\ NoEmpty(rows, bs[j].lines)
    BY <1>2 DEF IsResult, Result, FairList, NoEmptyList
  <2>2. bs[j] \in Block(Char) /\ bs[j].lines \in Seq(EditLine(Char))
    BY <2>1 DEF FairBlock, Block
  <2> QED BY <2>1, <2>2, LenProperties, ElementOfSeq DEF FairBlock, LinesFit
<1> QED BY <1>1, <1>2

LEMMA GetStringType ==
    ASSUME scenario \in Scenarios, NEW l \in EditLine(Char)
    PROVE  GetString(rows, l) \in Seq(Char)
<1>1. l.str \in Seq(Char) /\ <<>> \in Seq(Char)
  BY EmptySeq DEF EditLine
<1>2. HasSource(rows, l) => rows[l.row][l.src] \in Seq(Char)
  <2> SUFFICES ASSUME l.row \in DOMAIN rows, l.src \in DOMAIN rows[l.row]
               PROVE  rows[l.row][l.src] \in Seq(Char)
    BY DEF HasSource
  <2>1. rows[l.row] \in [DOMAIN rows[l.row] -> Seq(Char)]
    BY ScenarioWell DEF RowList
  <2> QED BY <2>1
<1> QED BY <1>1, <1>2 DEF GetString

LEMMA PartsOfString ==
    ASSUME NEW t \in Seq(Char), NEW x \in 0..Len(t)
    PROVE  Left(t, x) \in Seq(Char) /\ Mid(t, x) \in Seq(Char)
<1>1. Len(t) \in Nat
  BY LenProperties
<1>2. 1 \in 1..Len(t) + 1 /\ x \in 1 - 1..Len(t) /\ x + 1 \in 1..Len(t) + 1
      /\ Len(t) \in x + 1 - 1..Len(t)
  BY <1>1
<1> QED BY <1>2, SubSeqProperties DEF Left, Mid

LEMMA PutIsResult ==
    ASSUME scenario \in Scenarios, NEW bs, IsResult(bs), NEW p, At(bs, p), NEW l, Written(l)
    PROVE  LET r == Put(bs, p, l)
           IN /\ IsResult(r) /\ Len(r) = Len(bs)
              /\ \A j \in 1..Len(bs) :
                    /\ r[j].first = bs[j].first /\ r[j].len = bs[j].len
                    /\ r[j].conflict = bs[j].conflict
                    /\ Len(r[j].lines) = Len(bs[j].lines)
                    /\ \A i \in 1..Len(bs[j].lines) :
                          r[j].lines[i] = IF j = p[1] /\ i = p[2] THEN l ELSE bs[j].lines[i]
<1> DEFINE n == Len(rows)
           j == p[1]
           i == p[2]
           ls == bs[j].lines
           new == [ls EXCEPT ![i] = l]
           r == [bs EXCEPT ![j].lines = new]
<1>1. n \in Nat /\ Result(rows, three, Char, bs, n)
  BY ScenarioWell DEF IsResult
<1>2. /\ DOMAIN bs = 1..Len(bs) /\ bs \in Seq(Block(Char)) /\ Len(bs) \in Nat
      /\ \A x \in 1..Len(bs) : bs[x] \in Block(Char)
      /\ j \in 1..Len(bs) /\ i \in 1..Len(ls)
      /\ LinesFit(rows, Char, ls, bs[j].conflict)
  BY LinesOf DEF At
<1>3. Put(bs, p, l) = r
  BY <1>2 DEF Put, Block
<1>4. /\ LinesFit(rows, Char, new, bs[j].conflict)
      /\ Len(new) = Len(ls) /\ new[i] = l
      /\ \A x \in 1..Len(ls) : x # i => new[x] = ls[x]
  <2>1. MayBe(rows, Char, l, i, bs[j].conflict)
    BY WrittenAnywhere
  <2> HIDE DEF ls, j, i
  <2> QED BY <1>2, <2>1, LineReplaced
<1> HIDE DEF new
<1>5. Result(rows, three, Char, r, n)
  BY <1>1, <1>2, <1>4, LinesReplaced DEF LinesFit
<1>6. DOMAIN r = 1..Len(bs) /\ r \in [1..Len(bs) -> Block(Char)]
  <2>1. [bs[j] EXCEPT !.lines = new] \in Block(Char)
    BY <1>2, <1>4 DEF LinesFit, Block
  <2> QED BY <1>2, <2>1
<1>7. Len(r) = Len(bs)
  BY <1>2, <1>6, MapSeq
<1>8. \A x \in 1..Len(bs) : r[x] = IF x = j THEN [bs[j] EXCEPT !.lines = new] ELSE bs[x]
  BY <1>2
<1>9. \A x \in 1..Len(bs) :
         /\ r[x].first = bs[x].first /\ r[x].len = bs[x].len /\ r[x].conflict = bs[x].conflict
         /\ r[x].lines = IF x = j THEN new ELSE bs[x].lines
  <2> DEFINE e == [bs[j] EXCEPT !.lines = new]
  <2>1. bs[j] \in Block(Char)
    BY <1>2
  <2>2. /\ e.first = bs[j].first /\ e.len = bs[j].len /\ e.conflict = bs[j].conflict
        /\ e.lines = new
    BY <2>1 DEF Block
  <2> HIDE DEF e, r
  <2> QED BY <1>8, <2>2 DEF e
<1> HIDE DEF r
<1>10. \A x \in 1..Len(bs) :
          /\ Len(r[x].lines) = Len(bs[x].lines)
          /\ \A y \in 1..Len(bs[x].lines) :
                r[x].lines[y] = IF x = j /\ y = i THEN l ELSE bs[x].lines[y]
  BY <1>4, <1>9
<1> QED BY <1>3, <1>5, <1>7, <1>9, <1>10 DEF IsResult

\* The same for the text of a line.
LEMMA WriteIsResult ==
    ASSUME scenario \in Scenarios, NEW bs, IsResult(bs), NEW p, At(bs, p), NEW t \in Seq(Char)
    PROVE  LET r == Write(bs, p, t)
           IN /\ IsResult(r) /\ Len(r) = Len(bs) /\ Written(LineAt(r, p)) /\ At(r, p)
              /\ \A j \in 1..Len(bs) :
                    /\ r[j].first = bs[j].first /\ r[j].len = bs[j].len
                    /\ r[j].conflict = bs[j].conflict
                    /\ Len(r[j].lines) = Len(bs[j].lines)
                    /\ \A i \in 1..Len(bs[j].lines) :
                          ~(j = p[1] /\ i = p[2]) => r[j].lines[i] = bs[j].lines[i]
<1> DEFINE l == SetString(LineAt(bs, p), t)
           r == Write(bs, p, t)
<1>1. LineAt(bs, p) \in EditLine(Char)
  BY LinesOf DEF At, LineAt
<1>2. Written(l)
  BY <1>1, WrittenLine
<1>3. r = Put(bs, p, l)
  BY DEF Write
<1> HIDE DEF l, r
<1>4. /\ IsResult(r) /\ Len(r) = Len(bs)
      /\ \A j \in 1..Len(bs) :
            /\ r[j].first = bs[j].first /\ r[j].len = bs[j].len
            /\ r[j].conflict = bs[j].conflict
            /\ Len(r[j].lines) = Len(bs[j].lines)
            /\ \A i \in 1..Len(bs[j].lines) :
                  r[j].lines[i] = IF j = p[1] /\ i = p[2] THEN l ELSE bs[j].lines[i]
  BY <1>2, <1>3, PutIsResult
<1>5. At(r, p) /\ LineAt(r, p) = l
  BY <1>4 DEF At, LineAt
<1> QED BY <1>2, <1>4, <1>5 DEF r

\* A line that is written goes behind the first of a block.
LEMMA LineInserted ==
    ASSUME NEW ls, NEW conflict, LinesFit(rows, Char, ls, conflict),
           NEW i \in 2..Len(ls) + 1, NEW l, Written(l)
    PROVE  LinesFit(rows, Char, InsertAt(ls, i, l), conflict)
<1> DEFINE n == Len(ls)
           r == InsertAt(ls, i, l)
<1>1. ls \in Seq(EditLine(Char)) /\ n \in Nat /\ <<l>> \in Seq(EditLine(Char)) /\ Len(<<l>>) = 1
  BY LenProperties DEF LinesFit, Written
<1>2. InPlaceOf(SubSeq(ls, 1, i - 1) \o <<l>> \o SubSeq(ls, (i - 1) + 1, Len(ls)),
                ls, <<l>>, i, i - 1, EditLine(Char))
  <2>1. i \in 1..Len(ls) + 1 /\ i - 1 \in i - 1..Len(ls)
    BY <1>1
  <2> QED BY <1>1, <2>1, InPlace
<1>3. r = SubSeq(ls, 1, i - 1) \o <<l>> \o SubSeq(ls, (i - 1) + 1, Len(ls))
  BY <1>1 DEF InsertAt
<1>4. InPlaceOf(r, ls, <<l>>, i, i - 1, EditLine(Char))
  BY <1>2, <1>3
<1> HIDE DEF r, n
<1>5. /\ r \in Seq(EditLine(Char)) /\ Len(r) = n + 1
      /\ \A x \in 1..i - 1 : r[x] = ls[x]
      /\ r[i] = l
      /\ \A x \in i..n, y \in Int : y = x + 1 => r[y] = ls[x]
  <2>1. /\ r \in Seq(EditLine(Char)) /\ Len(r) = i - 1 + Len(<<l>>) + Len(ls) - (i - 1)
        /\ \A x \in 1..i - 1 : r[x] = ls[x]
        /\ \A x \in 1..Len(<<l>>), y \in Int : y = i - 1 + x => r[y] = <<l>>[x]
        /\ \A x \in (i - 1) + 1..Len(ls), y \in Int :
              y = i - 1 + Len(<<l>>) + x - (i - 1) => r[y] = ls[x]
    BY <1>4 DEF InPlaceOf
  <2> USE DEF n
  <2>2. r[i] = l
    <3>1. 1 \in 1..Len(<<l>>) /\ i \in Int /\ i = i - 1 + 1 /\ <<l>>[1] = l
      BY <1>1
    <3> QED BY <2>1, <3>1
  <2>3. ASSUME NEW x \in i..n, NEW y \in Int, y = x + 1 PROVE r[y] = ls[x]
    <3>1. x \in (i - 1) + 1..Len(ls) /\ y = i - 1 + Len(<<l>>) + x - (i - 1)
      BY <1>1, <2>3
    <3> QED BY <2>1, <3>1
  <2>4. Len(r) = n + 1
    BY <1>1, <2>1
  <2> QED BY <2>1, <2>2, <2>3, <2>4
<1>6. n \in Nat /\ i \in 2..n + 1 /\ l.changed /\ l.src = "None"
  BY <1>1 DEF n, Written
<1>7. FairLines(rows, ls, conflict) /\ NoEmpty(rows, ls) /\ n = Len(ls)
  BY DEF LinesFit, n
<1>8. ASSUME NEW y \in 1..n + 1
      PROVE  \/ y = i /\ r[y] = l
             \/ y < i /\ r[y] = ls[y] /\ y \in 1..n
             \/ i < y /\ r[y] = ls[y - 1] /\ y - 1 \in 1..n
  <2>1. CASE y = i
    BY <1>5, <2>1
  <2>2. CASE y < i
    <3>1. y \in 1..i - 1 /\ y \in 1..n
      BY <1>6, <2>2
    <3> QED BY <1>5, <2>2, <3>1
  <2>3. CASE y > i
    <3>1. y - 1 \in i..n /\ y \in Int /\ y = (y - 1) + 1 /\ y - 1 \in 1..n
      BY <1>6, <2>3
    <3> QED BY <1>5, <2>3, <3>1
  <2> QED BY <1>6, <2>1, <2>2, <2>3
<1>9. FairLines(rows, r, conflict)
  <2>1. ASSUME NEW y \in 1..Len(r)
        PROVE  /\ HasSource(rows, r[y]) => ~r[y].removed
               /\ y >= 2 /\ ~r[y].changed => r[y].src # "None" /\ (conflict => HasSource(rows, r[y]))
    <3>1. CASE y = i
      BY <1>5, <1>6, <3>1 DEF HasSource
    <3>2. CASE y # i
      <4>1. PICK z \in 1..n : r[y] = ls[z] /\ (y >= 2 => z >= 2)
        BY <1>5, <1>6, <1>8, <3>2
      <4>2. z >= 2 => z \in 2..Len(ls)
        BY <1>6, <1>7
      <4> QED BY <1>7, <4>1, <4>2 DEF FairLines
    <3> QED BY <3>1, <3>2
  <2>2. \A y \in 2..Len(r) : y \in 1..Len(r) /\ y >= 2
    BY <1>5, <1>6
  <2> QED BY <2>1, <2>2 DEF FairLines
<1>10. NoEmpty(rows, r)
  <2> SUFFICES ASSUME NEW y \in 2..Len(r), ~r[y - 1].changed, ~r[y].changed
               PROVE  \/ r[y].src # r[y - 1].src
                      \/ HasSource(rows, r[y]) \/ HasSource(rows, r[y - 1])
    BY DEF NoEmpty
  <2>1. y \in 1..n + 1 /\ y - 1 \in 1..n + 1
    BY <1>5, <1>6
  <2>2. PICK z \in 2..n : r[y] = ls[z] /\ r[y - 1] = ls[z - 1]
    <3>1. y # i /\ y - 1 # i
      BY <1>5, <1>6
    <3>2. CASE y < i
      <4>1. r[y] = ls[y] /\ r[y - 1] = ls[y - 1] /\ y \in 2..n
        BY <1>6, <1>8, <2>1, <3>2
      <4> QED BY <4>1
    <3>3. CASE y > i
      <4>1. y - 1 > i /\ y - 1 \in 2..n
        BY <1>6, <2>1, <3>1, <3>3
      <4>2. r[y] = ls[y - 1] /\ r[y - 1] = ls[(y - 1) - 1]
        BY <1>6, <1>8, <2>1, <3>3, <4>1
      <4> QED BY <4>1, <4>2
    <3> QED BY <1>6, <2>1, <3>1, <3>2, <3>3
  <2> QED BY <1>7, <2>2 DEF NoEmpty
<1> QED BY <1>5, <1>9, <1>10 DEF LinesFit, r

\* A line goes that has none in front of it, or one that is written.
LEMMA LineErased ==
    ASSUME NEW ls, NEW conflict, LinesFit(rows, Char, ls, conflict), NEW i \in 1..Len(ls),
           i # 1 => ls[i - 1].changed
    PROVE  LinesFit(rows, Char, RemoveAt(ls, i), conflict)
<1> DEFINE n == Len(ls)
           r == RemoveAt(ls, i)
<1>1. ls \in Seq(EditLine(Char)) /\ n \in Nat /\ <<>> \in Seq(EditLine(Char)) /\ Len(<<>>) = 0
  BY LenProperties, EmptySeq DEF LinesFit
<1>2. InPlaceOf(SubSeq(ls, 1, i - 1) \o <<>> \o SubSeq(ls, i + 1, Len(ls)),
                ls, <<>>, i, i, EditLine(Char))
  <2>1. i \in 1..Len(ls) + 1 /\ i \in i - 1..Len(ls)
    BY <1>1
  <2> QED BY <1>1, <2>1, InPlace
<1>3. r = SubSeq(ls, 1, i - 1) \o <<>> \o SubSeq(ls, i + 1, Len(ls))
  <2>1. SubSeq(ls, 1, i - 1) \in Seq(EditLine(Char))
    <3>1. \A x \in 1..i - 1 : ls[x] \in EditLine(Char)
      BY <1>1, ElementOfSeq
    <3> QED BY <3>1, SubSeqProperties
  <2> QED BY <2>1, ConcatEmptySeq DEF RemoveAt
<1>4. InPlaceOf(r, ls, <<>>, i, i, EditLine(Char))
  BY <1>2, <1>3
<1> HIDE DEF r, n
<1>5. /\ r \in Seq(EditLine(Char)) /\ Len(r) = n - 1
      /\ \A x \in 1..i - 1 : r[x] = ls[x]
      /\ \A x \in i + 1..n, y \in Int : y = x - 1 => r[y] = ls[x]
  <2>1. /\ r \in Seq(EditLine(Char)) /\ Len(r) = i - 1 + Len(<<>>) + Len(ls) - i
        /\ \A x \in 1..i - 1 : r[x] = ls[x]
        /\ \A x \in i + 1..Len(ls), y \in Int :
              y = i - 1 + Len(<<>>) + x - i => r[y] = ls[x]
    BY <1>4 DEF InPlaceOf
  <2>2. ASSUME NEW x \in i + 1..n, NEW y \in Int, y = x - 1 PROVE r[y] = ls[x]
    <3>1. x \in i + 1..Len(ls) /\ y = i - 1 + Len(<<>>) + x - i
      BY <1>1, <2>2 DEF n
    <3> QED BY <2>1, <3>1
  <2>3. Len(r) = n - 1
    BY <1>1, <2>1 DEF n
  <2> QED BY <2>1, <2>2, <2>3
<1>6. n \in Nat /\ i \in 1..n
  BY <1>1 DEF n
<1>7. FairLines(rows, ls, conflict) /\ NoEmpty(rows, ls) /\ n = Len(ls)
  BY DEF LinesFit, n
<1>8. ASSUME NEW y \in 1..n - 1
      PROVE  \/ y < i /\ r[y] = ls[y] /\ y \in 1..n
             \/ i <= y /\ r[y] = ls[y + 1] /\ y + 1 \in 1..n
  <2>1. CASE y < i
    <3>1. y \in 1..i - 1 /\ y \in 1..n
      BY <1>6, <2>1
    <3> QED BY <1>5, <2>1, <3>1
  <2>2. CASE y >= i
    <3>1. y + 1 \in i + 1..n /\ y \in Int /\ y = (y + 1) - 1 /\ y + 1 \in 1..n
      BY <1>6, <2>2
    <3> QED BY <1>5, <2>2, <3>1
  <2> QED BY <1>6, <2>1, <2>2
<1>9. FairLines(rows, r, conflict)
  <2>1. ASSUME NEW y \in 1..Len(r)
        PROVE  /\ HasSource(rows, r[y]) => ~r[y].removed
               /\ y >= 2 /\ ~r[y].changed => r[y].src # "None" /\ (conflict => HasSource(rows, r[y]))
    <3>1. PICK z \in 1..n : r[y] = ls[z] /\ (y >= 2 => z >= 2)
      <4>1. y \in 1..n - 1
        BY <1>5, <1>6
      <4>2. CASE y < i /\ r[y] = ls[y] /\ y \in 1..n
        BY <4>2
      <4>3. CASE i <= y /\ r[y] = ls[y + 1] /\ y + 1 \in 1..n
        <5>1. y >= 2 => y + 1 >= 2
          BY <4>1, <1>6
        <5> QED BY <4>3, <5>1
      <4> QED BY <1>8, <4>1, <4>2, <4>3
    <3>2. z >= 2 => z \in 2..Len(ls)
      BY <1>6, <1>7
    <3> QED BY <1>7, <3>1, <3>2 DEF FairLines
  <2>2. \A y \in 2..Len(r) : y \in 1..Len(r) /\ y >= 2
    BY <1>5, <1>6
  <2> QED BY <2>1, <2>2 DEF FairLines
<1>10. NoEmpty(rows, r)
  <2> SUFFICES ASSUME NEW y \in 2..Len(r), ~r[y - 1].changed, ~r[y].changed
               PROVE  \/ r[y].src # r[y - 1].src
                      \/ HasSource(rows, r[y]) \/ HasSource(rows, r[y - 1])
    BY DEF NoEmpty
  <2>1. y \in 1..n - 1 /\ y - 1 \in 1..n - 1
    BY <1>5, <1>6
  <2>2. PICK z \in 2..n : r[y] = ls[z] /\ r[y - 1] = ls[z - 1]
    <3>1. CASE y < i
      <4>1. r[y] = ls[y] /\ r[y - 1] = ls[y - 1] /\ y \in 2..n
        BY <1>6, <1>8, <2>1, <3>1
      <4> QED BY <4>1
    <3>2. CASE y > i
      <4>1. y - 1 >= i /\ y + 1 \in 2..n
        BY <1>6, <2>1, <3>2
      <4>2. r[y] = ls[y + 1] /\ r[y - 1] = ls[(y - 1) + 1]
        BY <1>6, <1>8, <2>1, <3>2, <4>1
      <4>3. (y + 1) - 1 = (y - 1) + 1
        BY <2>1
      <4> QED BY <4>1, <4>2, <4>3
    <3>3. CASE y = i
      <4>1. y - 1 < i /\ r[y - 1] = ls[y - 1] /\ i # 1
        BY <1>6, <1>8, <2>1, <3>3
      <4> QED BY <3>3, <4>1
    <3> QED BY <1>6, <2>1, <3>1, <3>2, <3>3
  <2> QED BY <1>7, <2>2 DEF NoEmpty
<1> QED BY <1>5, <1>9, <1>10 DEF LinesFit, r

LEMMA InsertIsResult ==
    ASSUME scenario \in Scenarios, NEW bs, IsResult(bs), NEW p, At(bs, p), NEW t \in Seq(Char)
    PROVE  IsResult(Insert(bs, p, t))
<1> DEFINE j == p[1]
           ls == bs[j].lines
           l == SetString(Line(bs[j].first), t)
           new == InsertAt(ls, p[2] + 1, l)
<1>1. Len(rows) \in Nat /\ Result(rows, three, Char, bs, Len(rows))
  BY ScenarioWell DEF IsResult
<1>2. /\ j \in 1..Len(bs) /\ DOMAIN bs = 1..Len(bs) /\ bs[j] \in Block(Char)
      /\ LinesFit(rows, Char, ls, bs[j].conflict) /\ Len(ls) \in Nat
      /\ p[2] \in 1..Len(ls)
  BY LinesOf DEF At
<1>3. bs[j].first \in Nat
  BY <1>2 DEF Block
<1>4. Line(bs[j].first) \in EditLine(Char)
  BY <1>3, LineWell
<1>5. Written(l)
  BY <1>4, WrittenLine
<1>6. Insert(bs, p, t) = [bs EXCEPT ![j].lines = new]
  BY <1>2 DEF Insert, Block
<1>7. LinesFit(rows, Char, new, bs[j].conflict)
  <2>1. p[2] + 1 \in 2..Len(ls) + 1
    BY <1>2
  <2> HIDE DEF l, ls, j
  <2> QED BY <1>2, <1>5, <2>1, LineInserted
<1> HIDE DEF new
<1>8. Result(rows, three, Char, [bs EXCEPT ![j].lines = new], Len(rows))
  BY <1>1, <1>2, <1>7, LinesReplaced DEF LinesFit
<1> QED BY <1>6, <1>8 DEF IsResult

LEMMA EraseIsResult ==
    ASSUME scenario \in Scenarios, NEW bs, IsResult(bs), NEW p, At(bs, p),
           p[2] # 1 => bs[p[1]].lines[p[2] - 1].changed
    PROVE  IsResult(Erase(bs, p))
<1> DEFINE j == p[1]
           ls == bs[j].lines
           new == RemoveAt(ls, p[2])
<1>1. Len(rows) \in Nat /\ Result(rows, three, Char, bs, Len(rows))
  BY ScenarioWell DEF IsResult
<1>2. /\ j \in 1..Len(bs) /\ DOMAIN bs = 1..Len(bs) /\ bs[j] \in Block(Char)
      /\ LinesFit(rows, Char, ls, bs[j].conflict) /\ Len(ls) \in Nat
      /\ p[2] \in 1..Len(ls)
  BY LinesOf DEF At
<1>3. CASE Len(ls) > 1
  <2>1. Erase(bs, p) = [bs EXCEPT ![j].lines = new]
    BY <1>2, <1>3 DEF Erase, Block
  <2>2. LinesFit(rows, Char, new, bs[j].conflict)
    <3> HIDE DEF ls
    <3>1. p[2] # 1 => ls[p[2] - 1].changed
      BY DEF ls
    <3> HIDE DEF j
    <3> QED BY <1>2, <3>1, LineErased
  <2> HIDE DEF new
  <2>3. Result(rows, three, Char, [bs EXCEPT ![j].lines = new], Len(rows))
    BY <1>1, <1>2, <2>2, LinesReplaced DEF LinesFit
  <2> QED BY <2>1, <2>3 DEF IsResult
<1>4. CASE ~(Len(ls) > 1)
  <2>1. Erase(bs, p) = Put(bs, p, SetRemoved(LineAt(bs, p)))
    BY <1>4 DEF Erase
  <2>2. LineAt(bs, p) \in EditLine(Char)
    BY LinesOf DEF At, LineAt
  <2>3. Written(SetRemoved(LineAt(bs, p)))
    <3>1. <<>> \in Seq(Char)
      BY EmptySeq
    <3> QED BY <2>2, <3>1, WrittenLine
  <2> QED BY <2>1, <2>3, PutIsResult
<1> QED BY <1>3, <1>4

-----------------------------------------------------------------------------
(* The commands. *)

LEMMA PositionsAreAt ==
    ASSUME IInv
    PROVE  \A p \in Positions : /\ At(blocks, p) /\ p = <<p[1], p[2]>>
                                /\ p[1] \in Nat /\ p[2] \in Nat
                                /\ String(p) \in Seq(Char)
<1>1. IsResult(blocks) /\ scenario \in Scenarios
  BY DEF IInv
<1>2. /\ DOMAIN blocks = 1..Len(blocks)
      /\ \A j \in 1..Len(blocks) :
            /\ DOMAIN blocks[j].lines = 1..Len(blocks[j].lines)
            /\ \A i \in 1..Len(blocks[j].lines) : blocks[j].lines[i] \in EditLine(Char)
  BY <1>1, LinesOf
<1>3. ASSUME NEW p \in Positions
      PROVE  /\ At(blocks, p) /\ p = <<p[1], p[2]>>
             /\ p[1] \in Nat /\ p[2] \in Nat
  <2>1. PICK j \in DOMAIN blocks : p \in {j} \X DOMAIN blocks[j].lines
    BY DEF Positions
  <2>2. p[1] = j /\ p[2] \in DOMAIN blocks[j].lines /\ p = <<p[1], p[2]>>
    BY <2>1
  <2> QED BY <1>2, <2>1, <2>2 DEF At
<1>4. ASSUME NEW p \in Positions PROVE String(p) \in Seq(Char)
  <2>1. LineAt(blocks, p) \in EditLine(Char)
    BY <1>2, <1>3 DEF At, LineAt
  <2> QED BY <1>1, <2>1, GetStringType DEF String
<1> QED BY <1>3, <1>4

LEMMA LinesArePositions ==
    ASSUME IInv
    PROVE  \A j \in 1..Len(blocks) : \A i \in 1..Len(blocks[j].lines) : <<j, i>> \in Positions
<1>1. /\ DOMAIN blocks = 1..Len(blocks)
      /\ \A j \in 1..Len(blocks) : DOMAIN blocks[j].lines = 1..Len(blocks[j].lines)
  BY LinesOf DEF IInv
<1> QED BY <1>1 DEF Positions

LEMMA TypeIsResult ==
    ASSUME IInv, NEW p \in Positions, NEW x \in Columns(p), NEW c \in Char, Type(p, x, c)
    PROVE  IsResult(blocks')
<1>1. At(blocks, p) /\ String(p) \in Seq(Char) /\ IsResult(blocks) /\ scenario \in Scenarios
  BY PositionsAreAt DEF IInv
<1>2. Left(String(p), x) \in Seq(Char) /\ Mid(String(p), x) \in Seq(Char) /\ <<c>> \in Seq(Char)
  BY <1>1, PartsOfString DEF Columns
<1>3. Left(String(p), x) \o <<c>> \o Mid(String(p), x) \in Seq(Char)
  BY <1>2, ConcatProperties
<1>4. blocks' = Write(blocks, p, Left(String(p), x) \o <<c>> \o Mid(String(p), x))
  BY DEF Type
<1> QED BY <1>1, <1>3, <1>4, WriteIsResult

LEMMA DeleteCharacterIsResult ==
    ASSUME IInv, NEW p \in Positions, NEW x \in Columns(p), DeleteCharacter(p, x)
    PROVE  IsResult(blocks')
<1>1. At(blocks, p) /\ String(p) \in Seq(Char) /\ IsResult(blocks) /\ scenario \in Scenarios
  BY PositionsAreAt DEF IInv
<1>2. x \in 0..Len(String(p)) /\ x + 1 \in 0..Len(String(p))
  <2>1. Len(String(p)) \in Nat
    BY <1>1, LenProperties
  <2> QED BY <2>1 DEF DeleteCharacter, Columns
<1>3. Left(String(p), x) \in Seq(Char) /\ Mid(String(p), x + 1) \in Seq(Char)
  BY <1>1, <1>2, PartsOfString
<1>4. Left(String(p), x) \o Mid(String(p), x + 1) \in Seq(Char)
  BY <1>3, ConcatProperties
<1>5. blocks' = Write(blocks, p, Left(String(p), x) \o Mid(String(p), x + 1))
  BY DEF DeleteCharacter
<1> QED BY <1>1, <1>4, <1>5, WriteIsResult

LEMMA RemoveLineIsResult ==
    ASSUME IInv, NEW p \in Positions, RemoveLine(p)
    PROVE  IsResult(blocks')
<1>1. At(blocks, p) /\ IsResult(blocks) /\ scenario \in Scenarios
  BY PositionsAreAt DEF IInv
<1>2. LineAt(blocks, p) \in EditLine(Char)
  BY <1>1, LinesOf DEF At, LineAt
<1>3. <<>> \in Seq(Char)
  BY EmptySeq
<1>4. Written(SetRemoved(LineAt(blocks, p)))
  BY <1>2, <1>3, WrittenLine
<1>5. blocks' = Put(blocks, p, SetRemoved(LineAt(blocks, p)))
  BY DEF RemoveLine
<1> QED BY <1>1, <1>4, <1>5, PutIsResult

LEMMA ReturnIsResult ==
    ASSUME IInv, NEW p \in Positions, NEW x \in Columns(p), Return(p, x)
    PROVE  IsResult(blocks')
<1> DEFINE cut  == IF x < Len(String(p)) THEN Write(blocks, p, Left(String(p), x)) ELSE blocks
           rest == Mid(String(p), x)
<1>1. At(blocks, p) /\ String(p) \in Seq(Char) /\ IsResult(blocks) /\ scenario \in Scenarios
  BY PositionsAreAt DEF IInv
<1>2. Left(String(p), x) \in Seq(Char) /\ rest \in Seq(Char)
  BY <1>1, PartsOfString DEF Columns
<1>3. IsResult(cut) /\ At(cut, p)
  BY <1>1, <1>2, WriteIsResult
<1>4. blocks' = IF LineAt(cut, p).removed THEN Write(cut, p, rest) ELSE Insert(cut, p, rest)
  BY DEF Return
<1> HIDE DEF cut, rest
<1>5. IsResult(Write(cut, p, rest)) /\ IsResult(Insert(cut, p, rest))
  BY <1>1, <1>2, <1>3, WriteIsResult, InsertIsResult
<1> QED BY <1>4, <1>5

LEMMA PasteIsResult ==
    ASSUME IInv, NEW p \in Positions, NEW x \in Columns(p), NEW clip \in Seq(Seq(Char)),
           Len(clip) \in {1, 2}, Paste(p, x, clip)
    PROVE  IsResult(blocks')
<1> DEFINE left == Left(String(p), x)
           rest == Mid(String(p), x)
           one == left \o clip[1] \o rest
           head == left \o clip[1]
           tail == clip[2] \o rest
<1>1. At(blocks, p) /\ String(p) \in Seq(Char) /\ IsResult(blocks) /\ scenario \in Scenarios
  BY PositionsAreAt DEF IInv
<1>2. left \in Seq(Char) /\ rest \in Seq(Char)
  BY <1>1, PartsOfString DEF Columns
<1>3. clip[1] \in Seq(Char) /\ (Len(clip) = 2 => clip[2] \in Seq(Char))
  BY ElementOfSeq
<1>4. blocks' = IF Len(clip) = 1 THEN Write(blocks, p, one)
                ELSE Insert(Write(blocks, p, head), p, tail)
  BY DEF Paste
<1> HIDE DEF left, rest
<1>5. one \in Seq(Char) /\ head \in Seq(Char) /\ (Len(clip) = 2 => tail \in Seq(Char))
  BY <1>2, <1>3, ConcatProperties
<1> HIDE DEF one, head, tail
<1>6. IsResult(Write(blocks, p, one)) /\ IsResult(Write(blocks, p, head))
      /\ At(Write(blocks, p, head), p)
  BY <1>1, <1>5, WriteIsResult
<1>7. Len(clip) = 2 => IsResult(Insert(Write(blocks, p, head), p, tail))
  BY <1>1, <1>5, <1>6, InsertIsResult
<1> QED BY <1>4, <1>6, <1>7

\* What follows a line is behind it in its block, or at the top of another.
LEMMA FollowingWell ==
    ASSUME IInv, NEW p \in Positions, NEW q \in Positions, Following(p, q)
    PROVE  q[2] = 1 \/ (q[1] = p[1] /\ q[2] = p[2] + 1)
<1>1. IsResult(blocks)
  BY DEF IInv
<1>2. /\ DOMAIN blocks = 1..Len(blocks)
      /\ \A j \in 1..Len(blocks) : /\ DOMAIN blocks[j].lines = 1..Len(blocks[j].lines)
                                   /\ Len(blocks[j].lines) \in Nat
  BY <1>1, LinesOf
<1>3. \A j \in 1..Len(blocks) : \A i \in 1..Len(blocks[j].lines) : <<j, i>> \in Positions
  BY LinesArePositions
<1>4. /\ p[1] \in 1..Len(blocks) /\ p[2] \in 1..Len(blocks[p[1]].lines)
      /\ q[1] \in 1..Len(blocks) /\ q[2] \in 1..Len(blocks[q[1]].lines)
  BY PositionsAreAt DEF At
<1>5. Before(p, q) /\ ~\E r \in Positions : Before(p, r) /\ Before(r, q)
  BY DEF Following
<1>6. CASE p[1] = q[1] /\ p[2] < q[2]
  <2> SUFFICES ASSUME q[2] # p[2] + 1 PROVE FALSE
    BY <1>6
  <2> DEFINE r == <<p[1], p[2] + 1>>
  <2>1. p[2] + 1 \in 1..Len(blocks[p[1]].lines) /\ p[2] + 1 < q[2] /\ p[2] < p[2] + 1
    BY <1>2, <1>4, <1>6
  <2>2. r \in Positions /\ r[1] = p[1] /\ r[2] = p[2] + 1
    BY <1>3, <1>4, <2>1
  <2> HIDE DEF r
  <2>3. Before(p, r) /\ Before(r, q)
    BY <1>6, <2>1, <2>2 DEF Before
  <2> QED BY <1>5, <2>2, <2>3
<1>7. CASE p[1] < q[1]
  <2> SUFFICES ASSUME q[2] # 1 PROVE FALSE
    OBVIOUS
  <2> DEFINE r == <<q[1], 1>>
  <2>1. 1 \in 1..Len(blocks[q[1]].lines) /\ 1 < q[2]
    BY <1>2, <1>4
  <2>2. r \in Positions /\ r[1] = q[1] /\ r[2] = 1
    BY <1>3, <1>4, <2>1
  <2> HIDE DEF r
  <2>3. Before(p, r) /\ Before(r, q)
    BY <1>7, <2>1, <2>2 DEF Before
  <2> QED BY <1>5, <2>2, <2>3
<1> QED BY <1>5, <1>6, <1>7 DEF Before

LEMMA JoinLinesIsResult ==
    ASSUME IInv, NEW p \in Positions, NEW q \in Positions, JoinLines(p, q)
    PROVE  IsResult(blocks')
<1> DEFINE t == String(p) \o String(q)
           w == Write(blocks, p, t)
<1>1. /\ At(blocks, p) /\ At(blocks, q) /\ IsResult(blocks) /\ scenario \in Scenarios
      /\ String(p) \in Seq(Char) /\ String(q) \in Seq(Char)
  BY PositionsAreAt DEF IInv
<1>2. t \in Seq(Char)
  BY <1>1, ConcatProperties
<1>3. q[2] = 1 \/ (q[1] = p[1] /\ q[2] = p[2] + 1)
  BY FollowingWell DEF JoinLines
<1>4. blocks' = Erase(w, q)
  BY DEF JoinLines
<1> HIDE DEF t
<1>5. /\ IsResult(w) /\ Len(w) = Len(blocks) /\ Written(LineAt(w, p))
      /\ \A j \in 1..Len(blocks) : Len(w[j].lines) = Len(blocks[j].lines)
  BY <1>1, <1>2, WriteIsResult
<1> HIDE DEF w
<1>6. At(w, q)
  BY <1>1, <1>5 DEF At
<1>7. q[2] # 1 => w[q[1]].lines[q[2] - 1].changed
  <2> SUFFICES ASSUME q[2] # 1 PROVE w[q[1]].lines[q[2] - 1].changed
    OBVIOUS
  <2>1. p[2] \in Nat
    BY PositionsAreAt
  <2>2. q[1] = p[1] /\ q[2] - 1 = p[2]
    BY <1>3, <2>1
  <2> QED BY <1>5, <2>2 DEF LineAt, Written
<1> QED BY <1>1, <1>4, <1>5, <1>6, <1>7, EraseIsResult

LEMMA ChooseCurrentIsResult ==
    ASSUME IInv, NEW j \in DOMAIN blocks, NEW s \in Inputs, ChooseCurrent(j, s)
    PROVE  IsResult(blocks')
<1> DEFINE e == Choose(rows, blocks[j], s)
<1>1. /\ IsResult(blocks) /\ scenario \in Scenarios /\ Len(rows) \in Nat /\ s \in Sides
      /\ RowList(rows, three, Char)
  BY ScenarioWell DEF IInv
<1>2. j \in 1..Len(blocks)
  BY <1>1, LinesOf
<1>3. FairBlock(rows, three, Char, blocks[j], Len(rows))
  BY <1>1, <1>2 DEF IsResult, Result, FairList
<1>4. blocks' = [blocks EXCEPT ![j] = e]
  BY DEF ChooseCurrent
<1>5. /\ FairBlock(rows, three, Char, e, Len(rows)) /\ NoEmpty(rows, e.lines)
      /\ e.first = blocks[j].first /\ e.len = blocks[j].len
  BY <1>1, <1>3, ChooseFair
<1> HIDE DEF e
<1>6. Result(rows, three, Char, [blocks EXCEPT ![j] = e], Len(rows))
  BY <1>1, <1>2, <1>5, BlockReplaced DEF IsResult
<1> QED BY <1>4, <1>6 DEF IsResult

LEMMA RegroupIsResult ==
    ASSUME IInv, NEW f \in Numbers, NEW l \in f..Len(rows)
    PROVE  /\ SlotSplitDiff(f, l) => IsResult(blocks')
           /\ SlotJoinDiffs(f, l) => IsResult(blocks')
<1> DEFINE n == Len(rows)
           once == SplitAt(blocks, l + 1)
<1>1. /\ n \in Nat /\ Numbers = 1..n
      /\ FairList(rows, three, Char, blocks, n) /\ NoEmptyList(rows, blocks)
  BY ScenarioWell DEF IInv, IsResult, Result, Numbers
<1>2. f \in 1..n /\ l \in f..n /\ l + 1 \in 1..n + 1 /\ f \in 1..n + 1
  BY <1>1
<1> HIDE DEF n
<1>3. FairList(rows, three, Char, once, n) /\ NoEmptyList(rows, once)
  BY <1>1, <1>2, SplitAtFair
<1> HIDE DEF once
<1>4. FairList(rows, three, Char, SplitAt(once, f), n) /\ NoEmptyList(rows, SplitAt(once, f))
  BY <1>1, <1>2, <1>3, SplitAtFair
<1>5. FairList(rows, three, Char, JoinDiffs(blocks, f, l), n)
      /\ NoEmptyList(rows, JoinDiffs(blocks, f, l))
  BY <1>1, <1>2, JoinDiffsFair
<1> QED BY <1>4, <1>5 DEF SlotSplitDiff, SlotJoinDiffs, IsResult, Result, once, n

\* What is left of a block when others go, if no two lines meet that are
\* untouched and have the same origin.
LEMMA LinesKept ==
    ASSUME NEW ls, NEW conflict, LinesFit(rows, Char, ls, conflict), NEW K, K \subseteq 1..Len(ls),
           \A i, k \in K : i + 1 < k /\ (\A m \in i + 1..k - 1 : m \notin K) =>
               ls[i].changed \/ ls[k].changed \/ ls[i].src # ls[k].src
    PROVE  LinesFit(rows, Char, Kept(ls, K), conflict)
<1> DEFINE ks == Kept(ls, K)
<1>1. /\ ls \in Seq(EditLine(Char)) /\ Len(ls) \in Nat
      /\ FairLines(rows, ls, conflict) /\ NoEmpty(rows, ls)
  BY LenProperties DEF LinesFit
<1>2. KeptWell(ls, K, EditLine(Char)) /\ KeptNear(ls, K)
  <2>1. K \subseteq Int
    BY <1>1
  <2> QED BY <1>1, <2>1, KeptElements, KeptNeighbours
<1> HIDE DEF ks
<1>3. ks \in Seq(EditLine(Char)) /\ Len(ks) \in Nat
  BY <1>2, LenProperties DEF KeptWell, ks
<1>4. FairLines(rows, ks, conflict)
  <2>1. \A m \in 1..Len(ks) : \E i \in m..Len(ls) : ks[m] = ls[i]
    BY <1>2 DEF KeptWell, ks
  <2>2. ASSUME NEW m \in 1..Len(ks) PROVE HasSource(rows, ks[m]) => ~ks[m].removed
    BY <1>1, <2>1 DEF FairLines
  <2>3. ASSUME NEW m \in 2..Len(ks), ~ks[m].changed
        PROVE  ks[m].src # "None" /\ (conflict => HasSource(rows, ks[m]))
    <3>1. m \in 1..Len(ks)
      BY <1>3
    <3>2. PICK i \in m..Len(ls) : ks[m] = ls[i]
      BY <2>1, <3>1
    <3>3. i \in 2..Len(ls)
      BY <1>1, <3>2
    <3> QED BY <1>1, <2>3, <3>2, <3>3 DEF FairLines
  <2> QED BY <2>2, <2>3 DEF FairLines
<1>5. NoEmpty(rows, ks)
  <2> SUFFICES ASSUME NEW m \in 2..Len(ks), ~ks[m - 1].changed, ~ks[m].changed
               PROVE  \/ ks[m].src # ks[m - 1].src
                      \/ HasSource(rows, ks[m]) \/ HasSource(rows, ks[m - 1])
    BY DEF NoEmpty
  <2>1. m - 1 \in 1..Len(ks) - 1 /\ m - 1 + 1 = m
    BY <1>3
  <2>2. PICK i, k \in 1..Len(ls) :
           /\ i < k /\ i \in K /\ k \in K /\ ks[m - 1] = ls[i] /\ ks[m] = ls[k]
           /\ \A x \in i + 1..k - 1 : x \notin K
    BY <1>2, <2>1 DEF KeptNear, ks
  <2>3. CASE i + 1 < k
    <3>1. ls[i].src # ls[k].src
      BY <2>2, <2>3
    <3> QED BY <2>2, <3>1
  <2>4. CASE ~(i + 1 < k)
    <3>1. k \in 2..Len(ls) /\ k - 1 = i
      BY <1>1, <2>2, <2>4
    <3> QED BY <1>1, <2>2, <3>1 DEF NoEmpty
  <2> QED BY <2>3, <2>4
<1> QED BY <1>3, <1>4, <1>5 DEF LinesFit, ks

LEMMA FirstOfPositions ==
    ASSUME NEW S, S \subseteq Nat \X Nat, S # {}
    PROVE  \E r \in S : \A s \in S : ~Before(s, r)
<1> DEFINE I == {s[1] : s \in S}
           J == {s[2] : s \in {x \in S : x[1] = Min(I)}}
<1>1. I \subseteq Nat /\ I # {}
  OBVIOUS
<1> HIDE DEF I
<1>2. Min(I) \in I /\ \A y \in I : Min(I) <= y
  BY <1>1, MinWell
<1>3. J \subseteq Nat /\ J # {}
  BY <1>2 DEF I
<1> HIDE DEF J
<1>4. Min(J) \in J /\ \A y \in J : Min(J) <= y
  BY <1>3, MinWell
<1>5. PICK r \in S : r[1] = Min(I) /\ r[2] = Min(J)
  BY <1>4 DEF J
<1>6. ASSUME NEW s \in S PROVE ~Before(s, r)
  <2>1. s[1] \in Nat /\ s[2] \in Nat /\ r[1] \in Nat /\ r[2] \in Nat
    OBVIOUS
  <2>2. r[1] <= s[1]
    BY <1>2, <1>5 DEF I
  <2>3. s[1] = r[1] => r[2] <= s[2]
    BY <1>4, <1>5 DEF J
  <2> QED BY <2>1, <2>2, <2>3 DEF Before
<1> QED BY <1>6

LEMMA DeleteSelectionIsResult ==
    ASSUME IInv, NEW p \in Positions, NEW x \in Columns(p), NEW q \in Positions,
           NEW y \in Columns(q), DeleteSelection(p, x, q, y)
    PROVE  IsResult(blocks')
<1> DEFINE n == Len(rows)
           within == {r \in Positions : IsEditable(r) /\ ~Before(r, p) /\ ~Before(q, r)}
           first == CHOOSE r \in within : \A s \in within : ~Before(s, r)
           final == CHOOSE r \in within : \A s \in within : ~Before(r, s)
           head  == IF first = p THEN Left(String(p), x) ELSE <<>>
           tail  == IF final = q THEN Mid(String(q), y) ELSE <<>>
           written == Write(blocks, first, head \o tail)
           others(j) == {i \in DOMAIN blocks[j].lines : <<j, i>> \in within \ {first}}
           K(j) == DOMAIN written[j].lines \ others(j)
           kept(j) == Kept(written[j].lines, K(j))
           left(j) == IF kept(j) # <<>> \/ others(j) = {} THEN kept(j)
                      ELSE <<SetRemoved(Last(written[j].lines))>>
           cs == [j \in DOMAIN blocks |-> [blocks[j] EXCEPT !.lines = left(j)]]
<1>1. /\ scenario \in Scenarios /\ IsResult(blocks) /\ n \in Nat
      /\ FairList(rows, three, Char, blocks, n)
      /\ \A r \in Positions : /\ At(blocks, r) /\ r = <<r[1], r[2]>>
                              /\ r[1] \in Nat /\ r[2] \in Nat /\ String(r) \in Seq(Char)
  BY PositionsAreAt, ScenarioWell DEF IInv, IsResult, Result
<1>2. blocks' = IF within = {} THEN blocks ELSE cs
  BY DEF DeleteSelection
<1>3. ~Before(q, p)
  BY DEF DeleteSelection
<1> SUFFICES ASSUME within # {} PROVE IsResult(cs)
  BY <1>1, <1>2
<1>4. \A r : r \in within <=> r \in Positions /\ IsEditable(r) /\ ~Before(r, p) /\ ~Before(q, r)
  OBVIOUS
<1>5. first \in within /\ \A s \in within : ~Before(s, first)
  <2>1. within \subseteq Nat \X Nat
    BY <1>1
  <2> HIDE DEF within
  <2> QED BY <2>1, FirstOfPositions
<1> HIDE DEF within, first, final
<1>6. head \o tail \in Seq(Char)
  <2>1. Left(String(p), x) \in Seq(Char) /\ Mid(String(q), y) \in Seq(Char) /\ <<>> \in Seq(Char)
    BY <1>1, PartsOfString, EmptySeq DEF Columns
  <2>2. head \in Seq(Char) /\ tail \in Seq(Char)
    BY <2>1
  <2> HIDE DEF head, tail
  <2> QED BY <2>2, ConcatProperties
<1>7. /\ IsResult(written) /\ Len(written) = Len(blocks) /\ Written(LineAt(written, first))
      /\ \A j \in 1..Len(blocks) :
            /\ written[j].conflict = blocks[j].conflict
            /\ Len(written[j].lines) = Len(blocks[j].lines)
            /\ \A i \in 1..Len(blocks[j].lines) :
                  ~(j = first[1] /\ i = first[2]) => written[j].lines[i] = blocks[j].lines[i]
  <2> DEFINE t == head \o tail
  <2>1. At(blocks, first) /\ t \in Seq(Char)
    BY <1>1, <1>4, <1>5, <1>6
  <2> HIDE DEF t
  <2>2. LET r == Write(blocks, first, t)
        IN /\ IsResult(r) /\ Len(r) = Len(blocks) /\ Written(LineAt(r, first)) /\ At(r, first)
           /\ \A j \in 1..Len(blocks) :
                 /\ r[j].first = blocks[j].first /\ r[j].len = blocks[j].len
                 /\ r[j].conflict = blocks[j].conflict
                 /\ Len(r[j].lines) = Len(blocks[j].lines)
                 /\ \A i \in 1..Len(blocks[j].lines) :
                       ~(j = first[1] /\ i = first[2]) => r[j].lines[i] = blocks[j].lines[i]
    BY <1>1, <2>1, WriteIsResult
  <2>3. written = Write(blocks, first, t)
    BY DEF t
  <2> HIDE DEF written
  <2> QED BY <2>2, <2>3
<1> HIDE DEF written
<1>8. /\ DOMAIN blocks = 1..Len(blocks)
      /\ \A j \in 1..Len(blocks) : /\ DOMAIN blocks[j].lines = 1..Len(blocks[j].lines)
                                   /\ Len(blocks[j].lines) \in Nat
  BY <1>1, LinesOf
<1>9. \A j \in 1..Len(blocks) :
         /\ LinesFit(rows, Char, written[j].lines, blocks[j].conflict)
         /\ DOMAIN written[j].lines = 1..Len(blocks[j].lines)
         /\ \A i \in 1..Len(blocks[j].lines) : written[j].lines[i] \in EditLine(Char)
  BY <1>7, LinesOf
<1>10. ASSUME NEW j \in 1..Len(blocks), NEW i \in K(j), NEW k \in K(j), i + 1 < k,
              \A m \in i + 1..k - 1 : m \notin K(j),
              ~written[j].lines[i].changed, ~written[j].lines[k].changed
       PROVE  written[j].lines[i].src # written[j].lines[k].src
  <2> DEFINE m == i + 1
  <2>1. /\ i \in 1..Len(blocks[j].lines) /\ k \in 1..Len(blocks[j].lines)
        /\ Len(blocks[j].lines) \in Nat
    BY <1>8, <1>9
  <2>2. m \in i + 1..k - 1 /\ m \in 1..Len(blocks[j].lines) /\ i < m
    BY <1>10, <2>1
  <2>3. m \in others(j)
    BY <1>9, <1>10, <2>2
  <2>4. <<j, m>> \in within /\ <<j, m>> # first
    BY <2>3
  <2>5. written[j].lines[k].src # "None"
    <3>1. FairLines(rows, written[j].lines, blocks[j].conflict)
      BY <1>9 DEF LinesFit
    <3>2. k \in 2..Len(written[j].lines)
      BY <1>7, <1>10, <2>1
    <3> QED BY <1>10, <3>1, <3>2 DEF FairLines
  <2>6. <<j, i>> # first
    <3> SUFFICES ASSUME <<j, i>> = first PROVE FALSE
      OBVIOUS
    <3>1. first[1] = j /\ first[2] = i
      OBVIOUS
    <3> QED BY <1>7, <1>10, <3>1 DEF LineAt, Written
  <2>7. <<j, i>> \notin within
    BY <1>8, <1>10, <2>1, <2>6
  <2>8. <<j, i>> \in Positions
    <3>1. i \in 1..Len(blocks[j].lines)
      BY <1>8, <2>1
    <3> QED BY <1>8, <3>1, LinesArePositions
  <2>9. ~IsEditable(<<j, i>>)
    <3> SUFFICES ASSUME IsEditable(<<j, i>>) PROVE FALSE
      OBVIOUS
    <3> DEFINE u == <<j, i>>
               v == <<j, m>>
    <3>1. u[1] = j /\ u[2] = i /\ v[1] = j /\ v[2] = m /\ j \in Nat /\ i \in Nat /\ m \in Nat
      BY <2>1
    <3>2. p[1] \in Nat /\ p[2] \in Nat /\ q[1] \in Nat /\ q[2] \in Nat
          /\ p = <<p[1], p[2]>> /\ first[1] \in Nat /\ first[2] \in Nat
          /\ first = <<first[1], first[2]>>
      BY <1>1, <1>4, <1>5
    <3>3. u \in Positions /\ IsEditable(u) /\ u \notin within /\ v \in within
      BY <2>4, <2>7, <2>8
    <3> HIDE DEF u, v
    <3>4. ~Before(v, p) /\ ~Before(q, v) /\ (Before(u, p) \/ Before(q, u))
      BY <1>4, <3>3
    <3>5. p[1] = j /\ p[2] = m
      <4> HIDE DEF m
      <4>1. m = i + 1
        BY DEF m
      <4> QED BY <3>1, <3>2, <3>4, <4>1 DEF Before
    <3>6. p = v
      BY <3>2, <3>5 DEF v
    <3>7. ~Before(p, first) /\ ~Before(first, p)
      BY <1>4, <1>5, <3>3, <3>6
    <3>8. p[1] = first[1] /\ p[2] = first[2]
      BY <3>2, <3>7 DEF Before
    <3>9. p = first
      BY <3>2, <3>8
    <3> QED BY <2>4, <3>6, <3>9 DEF v
  <2>10. written[j].lines[i] = blocks[j].lines[i]
    <3>1. ~(j = first[1] /\ i = first[2])
      <4>1. first = <<first[1], first[2]>>
        BY <1>1, <1>4, <1>5
      <4> QED BY <2>6, <4>1
    <3> QED BY <1>7, <2>1, <3>1
  <2>11. written[j].lines[i].src = "None"
    BY <2>9, <2>10 DEF IsEditable, IsConflict, LineAt
  <2> QED BY <2>5, <2>11
<1>11. \A j \in 1..Len(blocks) : LinesFit(rows, Char, left(j), blocks[j].conflict)
  <2> SUFFICES ASSUME NEW j \in 1..Len(blocks)
               PROVE  LinesFit(rows, Char, left(j), blocks[j].conflict)
    OBVIOUS
  <2> DEFINE ls == written[j].lines
             k == K(j)
  <2>1. /\ LinesFit(rows, Char, ls, blocks[j].conflict) /\ DOMAIN ls = 1..Len(ls)
        /\ Len(ls) = Len(blocks[j].lines) /\ Len(ls) \in Nat
        /\ \A i \in 1..Len(ls) : ls[i] \in EditLine(Char)
    BY <1>7, <1>8, <1>9
  <2>2. k \subseteq 1..Len(ls)
    BY <2>1
  <2>3. \A a, b \in k : a + 1 < b /\ (\A m \in a + 1..b - 1 : m \notin k) =>
            ls[a].changed \/ ls[b].changed \/ ls[a].src # ls[b].src
    <3> HIDE DEF K
    <3> QED BY <1>10
  <2>4. LinesFit(rows, Char, kept(j), blocks[j].conflict)
    <3>1. kept(j) = Kept(ls, k)
      OBVIOUS
    <3> HIDE DEF ls, k, kept
    <3> QED BY <2>1, <2>2, <2>3, <3>1, LinesKept
  <2>5. others(j) # {} => LinesFit(rows, Char, <<SetRemoved(Last(ls))>>, blocks[j].conflict)
    <3> SUFFICES ASSUME others(j) # {}
                 PROVE  LinesFit(rows, Char, <<SetRemoved(Last(ls))>>, blocks[j].conflict)
      OBVIOUS
    <3>1. Len(ls) \in 1..Len(ls)
      <4>1. PICK i \in DOMAIN blocks[j].lines : TRUE
        OBVIOUS
      <4> QED BY <1>8, <2>1, <4>1
    <3>2. Last(ls) \in EditLine(Char) /\ <<>> \in Seq(Char)
      BY <2>1, <3>1, EmptySeq DEF Last
    <3> DEFINE l == SetRemoved(Last(ls))
    <3>3. Written(l)
      BY <3>2, WrittenLine
    <3> HIDE DEF l
    <3>4. l \in EditLine(Char) /\ (HasSource(rows, l) => ~l.removed)
      BY <3>3 DEF Written, HasSource
    <3>5. <<l>> \in Seq(EditLine(Char)) /\ FairLines(rows, <<l>>, blocks[j].conflict)
      BY <3>4, OneLineFair
    <3>6. NoEmpty(rows, <<l>>)
      <4>1. 2..Len(<<l>>) = {}
        OBVIOUS
      <4> QED BY <4>1 DEF NoEmpty
    <3> QED BY <3>5, <3>6 DEF LinesFit, l
  <2> HIDE DEF kept, others
  <2> QED BY <2>4, <2>5
<1> HIDE DEF left
<1>12. \A j \in 1..Len(blocks) :
          /\ FairBlock(rows, three, Char, cs[j], n) /\ NoEmpty(rows, cs[j].lines)
          /\ cs[j].first = blocks[j].first /\ cs[j].len = blocks[j].len
  <2> SUFFICES ASSUME NEW j \in 1..Len(blocks)
               PROVE  /\ FairBlock(rows, three, Char, cs[j], n) /\ NoEmpty(rows, cs[j].lines)
                      /\ cs[j].first = blocks[j].first /\ cs[j].len = blocks[j].len
    OBVIOUS
  <2> DEFINE b == blocks[j]
             ls == left(j)
  <2>1. FairBlock(rows, three, Char, b, n)
    BY <1>1 DEF FairList
  <2>2. ls \in Seq(EditLine(Char)) /\ FairLines(rows, ls, b.conflict) /\ NoEmpty(rows, ls)
    BY <1>11 DEF LinesFit
  <2>3. cs[j] = [b EXCEPT !.lines = ls]
    BY <1>8
  <2> HIDE DEF b, ls, cs
  <2>4. /\ FairBlock(rows, three, Char, cs[j], n) /\ cs[j].lines = ls
        /\ cs[j].first = b.first /\ cs[j].len = b.len
    BY <2>1, <2>2, <2>3, OtherLines
  <2> QED BY <2>2, <2>4 DEF b
<1>13. cs \in Seq(Block(Char)) /\ Len(cs) = Len(blocks)
  <2>1. DOMAIN cs = 1..Len(blocks) /\ cs = [j \in 1..Len(blocks) |-> cs[j]]
    BY <1>8
  <2> HIDE DEF cs
  <2>2. cs \in [1..Len(blocks) -> Block(Char)] /\ Len(blocks) \in Nat
    BY <1>1, <1>12, <2>1, LinesOf DEF FairBlock
  <2> QED BY <2>2, MapSeq
<1> HIDE DEF cs
<1>14. FairList(rows, three, Char, cs, n)
  BY <1>1, <1>12, <1>13, SameRows
<1>15. NoEmptyList(rows, cs)
  BY <1>12, <1>13 DEF NoEmptyList
<1> QED BY <1>14, <1>15 DEF IsResult, Result, n

-----------------------------------------------------------------------------
(* Saving. *)

\* Behind the first line of a block there is no conflict, so that nothing is
\* left out if there is none in front.
LEMMA SavedIsWhole ==
    ASSUME IInv, UnsolvedConflicts = {}
    PROVE  \A i \in DOMAIN Lines(blocks) : ~IsConflict(Lines(blocks)[i])
<1> DEFINE m == Len(blocks)
           S == {l \in EditLine(Char) : ~IsConflict(l)}
           parts == [j \in DOMAIN blocks |-> blocks[j].lines]
<1>1. IsResult(blocks) /\ m \in Nat
      /\ DOMAIN blocks = 1..m
      /\ \A j \in 1..m : /\ LinesFit(rows, Char, blocks[j].lines, blocks[j].conflict)
                         /\ Len(blocks[j].lines) \in Nat
                         /\ DOMAIN blocks[j].lines = 1..Len(blocks[j].lines)
  BY LinesOf DEF IInv
<1>2. ASSUME NEW j \in 1..m PROVE blocks[j].lines \in Seq(S)
  <2> DEFINE ls == blocks[j].lines
  <2>1. /\ ls \in Seq(EditLine(Char)) /\ FairLines(rows, ls, blocks[j].conflict)
        /\ Len(ls) \in Nat /\ DOMAIN ls = 1..Len(ls)
    BY <1>1 DEF LinesFit
  <2>2. ls = <<>> \/ ~IsConflict(ls[1])
    BY <1>1 DEF UnsolvedConflicts
  <2> HIDE DEF ls
  <2>3. ASSUME NEW i \in 1..Len(ls) PROVE ls[i] \in S
    <3>1. ls[i] \in EditLine(Char)
      BY <2>1, ElementOfSeq
    <3>2. CASE i = 1
      <4>1. ls # <<>>
        BY <2>3, EmptySeq
      <4> QED BY <2>2, <3>1, <3>2, <4>1
    <3>3. CASE i # 1
      <4>1. i \in 2..Len(ls)
        BY <2>1, <3>3
      <4> QED BY <2>1, <3>1, <4>1 DEF FairLines, IsConflict
    <3> QED BY <3>2, <3>3
  <2> HIDE DEF S
  <2>4. ls \in [1..Len(ls) -> S]
    <3>1. ls = [i \in 1..Len(ls) |-> ls[i]]
      BY <2>1
    <3> QED BY <2>3, <3>1
  <2> QED BY <2>1, <2>4, MapSeq DEF ls
<1> HIDE DEF S
<1>3. parts \in Seq(Seq(S))
  <2>1. parts \in [1..m -> Seq(S)]
    BY <1>1, <1>2
  <2> HIDE DEF parts
  <2> QED BY <1>1, <2>1, MapSeq
<1>4. Lines(blocks) = FlattenSeq(parts)
  BY DEF Lines
<1> HIDE DEF parts
<1>5. Lines(blocks) \in Seq(S)
  BY <1>3, <1>4, FlattenType
<1>6. \A i \in DOMAIN Lines(blocks) : Lines(blocks)[i] \in S
  BY <1>5, LenProperties, ElementOfSeq
<1> QED BY <1>6 DEF S

-----------------------------------------------------------------------------
(* The invariant. *)

LEMMA InitWell == Init => IInv
BY AutoSolvedIsResult DEF Init, IInv

LEMMA ChoosingWell == IInv /\ Choosing => IsResult(blocks')
<1> SUFFICES ASSUME IInv, Choosing PROVE IsResult(blocks')
  OBVIOUS
<1>1. scenario \in Scenarios /\ IsResult(blocks) /\ Inputs \subseteq Sides
  BY ScenarioWell DEF IInv
<1>2. ASSUME NEW j \in DOMAIN blocks, NEW s \in Inputs, ChooseCurrent(j, s)
      PROVE  IsResult(blocks')
  BY <1>2, ChooseCurrentIsResult
<1>3. ASSUME NEW s \in Inputs, NEW c \in BOOLEAN, NEW w \in BOOLEAN, ChooseGlobal(s, c, w)
      PROVE  IsResult(blocks')
  <2>1. s \in Sides \cup {"Invalid"} /\ blocks' = Merged(blocks, s, c, w)
    BY <1>1, <1>3 DEF ChooseGlobal
  <2> QED BY <1>1, <2>1, MergedIsResult
<1>4. AutoSolve => IsResult(blocks')
  BY <1>1, AutoSolvedIsResult DEF AutoSolve
<1>5. Unsolve => IsResult(blocks')
  <2> SUFFICES ASSUME Unsolve PROVE IsResult(blocks')
    OBVIOUS
  <2>1. "Invalid" \in Sides \cup {"Invalid"} /\ blocks' = Merged(blocks, "Invalid", FALSE, FALSE)
    BY DEF Unsolve
  <2> QED BY <1>1, <2>1, MergedIsResult
<1>6. Decline => IsResult(blocks')
  BY <1>1 DEF Decline
<1>7. SlotRegExpAutoMerge => IsResult(blocks')
  BY <1>1, RegExpAutoMergeIsResult DEF SlotRegExpAutoMerge
<1> QED BY <1>2, <1>3, <1>4, <1>5, <1>6, <1>7 DEF Choosing

LEMMA KeysWell == IInv /\ Keys => IsResult(blocks')
<1> SUFFICES ASSUME IInv, NEW p \in Positions,
                    \/ \E x \in Columns(p) :
                           \/ DeleteCharacter(p, x) \/ Return(p, x)
                           \/ \E c \in Typed :
                                  \/ Type(p, x, c)
                                  \/ \E clip \in {<<<<c>>>>, <<<<c>>, <<>>>>} : Paste(p, x, clip)
                           \/ \E q \in Positions : \E y \in Columns(q) : DeleteSelection(p, x, q, y)
                    \/ \E q \in Positions : JoinLines(p, q)
                    \/ RemoveLine(p)
             PROVE  IsResult(blocks')
  BY DEF Keys
<1>1. Typed \subseteq Char
  BY ScenarioAssumption
<1>2. ASSUME NEW x \in Columns(p), DeleteCharacter(p, x) \/ Return(p, x)
      PROVE  IsResult(blocks')
  BY <1>2, DeleteCharacterIsResult, ReturnIsResult
<1>3. ASSUME NEW x \in Columns(p), NEW c \in Typed, Type(p, x, c)
      PROVE  IsResult(blocks')
  BY <1>1, <1>3, TypeIsResult
<1>4. ASSUME NEW x \in Columns(p), NEW c \in Typed,
             NEW clip \in {<<<<c>>>>, <<<<c>>, <<>>>>}, Paste(p, x, clip)
      PROVE  IsResult(blocks')
  <2>1. <<c>> \in Seq(Char) /\ <<>> \in Seq(Char)
    BY <1>1, EmptySeq
  <2> DEFINE t == <<c>>
             none == <<>>
  <2> HIDE DEF t, none
  <2>3. t \in Seq(Char) /\ none \in Seq(Char) /\ clip \in {<<t>>, <<t, none>>}
    BY <2>1 DEF t, none
  <2>2. clip \in Seq(Seq(Char)) /\ Len(clip) \in {1, 2}
    <3>1. CASE clip = <<t>>
      BY <2>3, <3>1
    <3>2. CASE clip = <<t, none>>
      BY <2>3, <3>2
    <3> QED BY <2>3, <3>1, <3>2
  <2> QED BY <1>4, <2>2, PasteIsResult
<1>5. ASSUME NEW x \in Columns(p), NEW q \in Positions, NEW y \in Columns(q),
             DeleteSelection(p, x, q, y)
      PROVE  IsResult(blocks')
  BY <1>5, DeleteSelectionIsResult
<1>6. ASSUME NEW q \in Positions, JoinLines(p, q)
      PROVE  IsResult(blocks')
  BY <1>6, JoinLinesIsResult
<1>7. RemoveLine(p) => IsResult(blocks')
  BY RemoveLineIsResult
<1> QED BY <1>2, <1>3, <1>4, <1>5, <1>6, <1>7

LEMMA RegroupWell == IInv /\ Regroup => IsResult(blocks')
BY RegroupIsResult DEF Regroup

\* Only saving writes a file.
LEMMA OthersSaveNothing ==
    ASSUME Choosing \/ Regroup \/ Keys
    PROVE  scenario' = scenario /\ file' = file
<1> DEFINE Unsaved == scenario' = scenario /\ file' = file
<1>1. Choosing => Unsaved
  BY DEF Choosing, Give, Decline, AutoSolve, Unsolve, ChooseGlobal, ChooseCurrent,
         SlotRegExpAutoMerge
<1>2. Regroup => Unsaved
  BY DEF Regroup, Give, SlotSplitDiff, SlotJoinDiffs
<1>3. /\ \A p, x, c : Type(p, x, c) => Unsaved
      /\ \A p, x : DeleteCharacter(p, x) => Unsaved
      /\ \A p, q : JoinLines(p, q) => Unsaved
      /\ \A p : RemoveLine(p) => Unsaved
  BY DEF Give, Type, DeleteCharacter, JoinLines, RemoveLine
<1>4. /\ \A p, x : Return(p, x) => Unsaved
      /\ \A p, x, clip : Paste(p, x, clip) => Unsaved
  BY DEF Give, Return, Paste
<1>5. \A p, x, q, y : DeleteSelection(p, x, q, y) => Unsaved
  BY SMTT(30) DEF Give, DeleteSelection
<1> HIDE DEF Unsaved
<1>6. Keys => Unsaved
  BY <1>3, <1>4, <1>5 DEF Keys
<1> QED BY <1>1, <1>2, <1>6 DEF Unsaved

LEMMA NextWell == IInv /\ [Next]_vars => IInv'
<1> SUFFICES ASSUME IInv, [Next]_vars PROVE IInv'
  OBVIOUS
<1>1. CASE UNCHANGED vars
  BY <1>1 DEF vars, IInv, IsResult, rows, three
<1>2. CASE Next
  <2>1. scenario' = scenario /\ (SaveDocument \/ file' = file)
    <3>1. CASE SaveDocument
      BY <3>1 DEF SaveDocument, Give
    <3> QED BY <1>2, <3>1, OthersSaveNothing DEF Next
  <2>2. IsResult(blocks')
    <3>1. CASE SaveDocument
      BY <3>1 DEF SaveDocument, IInv
    <3> QED BY <1>2, <3>1, ChoosingWell, RegroupWell, KeysWell DEF Next
  <2>3. rows' = rows /\ three' = three
    BY <2>1 DEF rows, three
  <2>5. SaveDocument => file' # "partial"
    <3> SUFFICES ASSUME SaveDocument PROVE file' # "partial"
      OBVIOUS
    <3>1. UnsolvedConflicts = {}
      BY DEF SaveDocument
    <3> QED BY <3>1, SavedIsWhole DEF SaveDocument
  <2>6. IsResult(blocks)'
    BY <2>2, <2>3 DEF IsResult
  <2> QED BY <2>1, <2>5, <2>6 DEF IInv
<1> QED BY <1>1, <1>2

\* The blocks of the result hold the rows in order, each fair to its rows, and
\* a conflict is the first line of its block, whatever is chosen, split,
\* joined, typed, pasted or deleted (MergeBlockList, MergeBlock).
THEOREM Invariance == Spec => []IInv
<1>1. Init => IInv
  BY InitWell
<1>2. IInv /\ [Next]_vars => IInv'
  BY NextWell
<1> QED BY <1>1, <1>2, PTL DEF Spec

\* saveDocument() looks at the first line of every block only, and no file is
\* written from which EncodedData has left a conflict out.
THEOREM NothingUnsolvedIsEverSaved == Spec => []NothingUnsolvedIsSaved
<1>1. IInv => NothingUnsolvedIsSaved
  BY DEF IInv, NothingUnsolvedIsSaved
<1> QED BY <1>1, Invariance, PTL

-----------------------------------------------------------------------------
(* "Choose ... for all unsolved conflicts". *)

LEMMA SolvedIsKept ==
    ASSUME IInv, NEW s \in Inputs, NEW whiteOnly \in BOOLEAN, NEW j \in DOMAIN blocks,
           ~HasModifiedText(blocks[j]),
           \/ blocks[j].lines # <<>> /\ ~IsConflict(blocks[j].lines[1])
           \/ whiteOnly /\ \E k \in Range(RowsOf(blocks[j])) : ~WhiteSpaceConflict(rows[k], three)
    PROVE  Merged(blocks, s, TRUE, whiteOnly)[j].lines = blocks[j].lines
<1> DEFINE b == blocks[j]
           conflictsOnly == TRUE
           cs == UpdateDefaults(rows, blocks, s, conflictsOnly, whiteOnly)
<1>1. /\ scenario \in Scenarios /\ RowList(rows, three, Char)
      /\ FairList(rows, three, Char, blocks, Len(rows)) /\ NoEmptyList(rows, blocks)
      /\ s \in Sides \cup {"Invalid"}
  BY ScenarioWell DEF IInv, IsResult, Result
<1>2. j \in 1..Len(blocks)
  BY LinesOf DEF IInv
<1>3. FairBlock(rows, three, Char, b, Len(rows)) /\ NoEmpty(rows, b.lines)
  BY <1>1, <1>2 DEF FairList, NoEmptyList
<1>4. ~MayUpdate(b, TRUE, whiteOnly)
  <2>1. CASE b.lines # <<>> /\ ~IsConflict(b.lines[1])
    BY <2>1 DEF MayUpdate
  <2>2. CASE whiteOnly /\ \E k \in Range(RowsOf(b)) : ~WhiteSpaceConflict(rows[k], three)
    <3>1. PICK i \in 1..b.len : ~WhiteSpaceConflict(rows[b.first + i - 1], three)
      BY <2>2 DEF RowsOf, Range
    <3>2. b.first \in Nat /\ b.len \in Nat
      BY <1>3 DEF FairBlock, Block
    <3>3. b.first + i - 1 \in b.first..b.first + b.len - 1
      BY <3>2
    <3>4. ~b.ws
      BY <1>3, <3>1, <3>3 DEF FairBlock, Fits
    <3> QED BY <2>2, <3>4 DEF MayUpdate
  <2> QED BY <2>1, <2>2
<1>5. /\ FairList(rows, three, Char, cs, Len(rows)) /\ Len(cs) = Len(blocks)
      /\ \A i \in 1..Len(blocks) : cs[i] = UpdatedBlock(rows, blocks[i], s, conflictsOnly, whiteOnly)
  <2> HIDE DEF conflictsOnly
  <2>1. LET ds == UpdateDefaults(rows, blocks, s, conflictsOnly, whiteOnly)
        IN /\ FairList(rows, three, Char, ds, Len(rows)) /\ Len(ds) = Len(blocks)
           /\ \A i \in 1..Len(blocks) :
                 ds[i] = UpdatedBlock(rows, blocks[i], s, conflictsOnly, whiteOnly)
    BY <1>1, UpdateDefaultsFair
  <2> QED BY <2>1
<1>6. cs[j] = b
  BY <1>2, <1>4, <1>5 DEF UpdatedBlock
<1>7. Merged(blocks, s, TRUE, whiteOnly) = WithoutEmpty(cs)
  BY DEF Merged
<1> HIDE DEF cs
<1>8. NoEmpty(rows, cs[j].lines) /\ ~HasModifiedText(cs[j]) => WithoutEmpty(cs)[j].lines = cs[j].lines
  BY <1>1, <1>2, <1>5, WithoutEmptyFair
<1> QED BY <1>3, <1>6, <1>7, <1>8

\* Choosing a side for everything that is unsolved leaves the blocks alone that
\* are solved and untouched (MayUpdate, RemoveEmptySource).
THEOREM SolvedBlocksStay == Spec => SolvedBlocksAreKept
<1> DEFINE solved(b) == b.lines # <<>> /\ ~IsConflict(b.lines[1])
           white(b) == \A k \in Range(RowsOf(b)) : WhiteSpaceConflict(rows[k], three)
           AreKept ==
               last' \in {"unsolved", "white"} =>
                   \A j \in DOMAIN blocks :
                       ~HasModifiedText(blocks[j]) /\ (solved(blocks[j]) \/ (last' = "white" /\ ~white(blocks[j])))
                           => blocks'[j].lines = blocks[j].lines
<1>1. ASSUME IInv, NEW s \in Inputs, NEW w \in BOOLEAN, ChooseGlobal(s, TRUE, w)
      PROVE  AreKept
  <2>1. blocks' = Merged(blocks, s, TRUE, w) /\ (last' = "white" => w)
    BY <1>1 DEF ChooseGlobal
  <2> SUFFICES ASSUME NEW j \in DOMAIN blocks, ~HasModifiedText(blocks[j]),
                      solved(blocks[j]) \/ (last' = "white" /\ ~white(blocks[j]))
               PROVE  blocks'[j].lines = blocks[j].lines
    OBVIOUS
  <2>2. \/ blocks[j].lines # <<>> /\ ~IsConflict(blocks[j].lines[1])
        \/ w /\ \E k \in Range(RowsOf(blocks[j])) : ~WhiteSpaceConflict(rows[k], three)
    BY <2>1
  <2> QED BY <1>1, <2>1, <2>2, SolvedIsKept
<1>2. /\ \A s : ChooseGlobal(s, FALSE, FALSE) => AreKept
      /\ \A j, s : ChooseCurrent(j, s) => AreKept
      /\ AutoSolve \/ Unsolve \/ Decline \/ SlotRegExpAutoMerge \/ SaveDocument => AreKept
      /\ \A f, l : SlotSplitDiff(f, l) \/ SlotJoinDiffs(f, l) => AreKept
  <2> HIDE DEF solved, white
  <2> QED BY DEF ChooseGlobal, ChooseCurrent, AutoSolve, Unsolve, Decline, SlotRegExpAutoMerge,
                 SaveDocument, SlotSplitDiff, SlotJoinDiffs
<1>3. /\ \A p, x, c : Type(p, x, c) => AreKept
      /\ \A p, x : DeleteCharacter(p, x) \/ Return(p, x) => AreKept
      /\ \A p, q : JoinLines(p, q) => AreKept
      /\ \A p : RemoveLine(p) => AreKept
      /\ \A p, x, clip : Paste(p, x, clip) => AreKept
  <2> HIDE DEF solved, white
  <2> QED BY DEF Type, DeleteCharacter, Return, JoinLines, RemoveLine, Paste
<1>4. \A p, x, q, y : DeleteSelection(p, x, q, y) => AreKept
  <2>1. \A p, x, q, y : DeleteSelection(p, x, q, y) => last' = "erase"
    BY SMTT(30) DEF DeleteSelection
  <2> HIDE DEF solved, white
  <2> QED BY <2>1
<1>5. IInv /\ Next => AreKept
  <2> HIDE DEF AreKept
  <2>1. Keys => AreKept
    BY <1>3, <1>4 DEF Keys
  <2>2. Regroup => AreKept
    BY <1>2 DEF Regroup
  <2>3. IInv /\ Choosing => AreKept
    BY <1>1, <1>2 DEF Choosing
  <2> QED BY <1>2, <2>1, <2>2, <2>3 DEF Next
<1>6. IInv /\ [Next]_vars => [AreKept]_vars
  <2> HIDE DEF AreKept
  <2> QED BY <1>5
<1> QED BY <1>6, Invariance, PTL DEF Spec, SolvedBlocksAreKept

-----------------------------------------------------------------------------
(* The automatic merge. *)

\* What mergeOneLine() makes of a row is what the three inputs agree on.
LEMMA RowIsMerged ==
    ASSUME scenario \in Scenarios, three, NEW k \in 1..Len(rows)
    PROVE  LET d == MergeOneLine(rows[k], three)
           IN /\ Clashing(k) <=> d.src = "None"
              /\ ~Clashing(k) => Agreed(k) = IF d.removed THEN <<>> ELSE Says(k, d.src)
<1> DEFINE row == rows[k]
           has == DOMAIN row
           d == MergeThree(row)
           a == Says(k, "A")
           b == Says(k, "B")
           c == Says(k, "C")
<1>1. MergeOneLine(row, three) = d /\ has # {} /\ has \subseteq Sides
  BY ScenarioWell DEF MergeOneLine, RowList
<1>2. /\ \A s, t \in has : Says(k, s) = Says(k, t) <=> row[s] = row[t]
      /\ \A s \in has : Says(k, s) # <<>>
      /\ \A s : s \notin has => Says(k, s) = <<>>
  BY DEF Says
<1>3. Clashing(k) <=> a # b /\ b # c /\ a # c
  BY DEF Clashing, Sides
<1>4. Agreed(k) = IF a = b THEN c ELSE IF a = c THEN b ELSE c
  BY DEF Agreed
<1>5. /\ FineDiff(row, "A", "B") <=> {"A", "B"} \subseteq has /\ a # b
      /\ FineDiff(row, "B", "C") <=> {"B", "C"} \subseteq has /\ b # c
      /\ FineDiff(row, "A", "C") <=> {"A", "C"} \subseteq has /\ a # c
  BY <1>2 DEF FineDiff
<1>6. /\ Clash.src = "None"
      /\ \A s \in Sides : Take(s).src = s /\ Take(s).removed = FALSE
      /\ \A s \in Sides : Drop(s).src = s /\ Drop(s).removed = TRUE
      /\ LET e == [Take("C") EXCEPT !.alike = TRUE] IN e.src = "C" /\ e.removed = FALSE
  BY DEF Clash, Take, Drop, Sides
<1> DEFINE Right == /\ Clashing(k) <=> d.src = "None"
                    /\ ~Clashing(k) => Agreed(k) = IF d.removed THEN <<>> ELSE Says(k, d.src)
<1> SUFFICES Right
  BY <1>1
<1> HIDE DEF a, b, c, row
<1>7. CASE has = Sides
  <2>1. d = IF a = b /\ b = c /\ a = c THEN Take("A")
            ELSE IF a = b /\ b # c /\ a # c THEN Take("C")
            ELSE IF a # b /\ b # c /\ a = c THEN Take("B")
            ELSE IF a # b /\ b = c /\ a # c THEN Take("C")
            ELSE Clash
    <3>1. /\ FineDiff(row, "A", "B") <=> a # b
          /\ FineDiff(row, "B", "C") <=> b # c
          /\ FineDiff(row, "A", "C") <=> a # c
      BY <1>5, <1>7 DEF Sides
    <3>2. /\ has # {"A", "B"} /\ has # {"A", "C"} /\ has # {"B", "C"} /\ has # {"A"}
      <4>1. "A" \in has /\ "B" \in has /\ "C" \in has
        BY <1>7 DEF Sides
      <4> HIDE DEF has
      <4> QED BY <4>1
    <3> HIDE DEF has
    <3>3. d = CASE has = Sides -> CASE a = b /\ b = c /\ a = c -> Take("A")
                                    [] a = b /\ b # c /\ a # c -> Take("C")
                                    [] a # b /\ b # c /\ a = c -> Take("B")
                                    [] a # b /\ b = c /\ a # c -> Take("C")
                                    [] OTHER -> Clash
      BY <1>7, <3>1, <3>2 DEF MergeThree, has
    <3> QED BY <1>7, <3>3
  <2> QED BY <1>3, <1>4, <1>6, <2>1 DEF Sides, a, b, c
<1>8. CASE has = {"A", "B"}
  <2>1. d = IF a # b THEN Clash ELSE Drop("C")
    <3>1. FineDiff(row, "A", "B") <=> a # b
      BY <1>5, <1>8
    <3>2. has # Sides /\ has # {"A", "C"} /\ has # {"B", "C"} /\ has # {"A"}
      <4>1. "B" \in has /\ "C" \notin has
        BY <1>8
      <4> HIDE DEF has
      <4> QED BY <4>1 DEF Sides
    <3> QED BY <1>8, <3>1, <3>2 DEF MergeThree
  <2>2. c = <<>> /\ a # <<>> /\ b # <<>>
    BY <1>2, <1>8 DEF a, b, c
  <2> QED BY <1>3, <1>4, <1>6, <2>1, <2>2 DEF Sides
<1>9. CASE has = {"A", "C"}
  <2>1. d = IF a # c THEN Clash ELSE Drop("B")
    BY <1>5, <1>9 DEF MergeThree, Sides
  <2>2. b = <<>> /\ a # <<>> /\ c # <<>>
    BY <1>2, <1>9 DEF a, b, c
  <2> QED BY <1>3, <1>4, <1>6, <2>1, <2>2 DEF Sides
<1>10. CASE has = {"B", "C"}
  <2>1. d = IF b # c THEN Clash ELSE [Take("C") EXCEPT !.alike = TRUE]
    BY <1>5, <1>10 DEF MergeThree, Sides
  <2>2. a = <<>> /\ b # <<>> /\ c # <<>>
    BY <1>2, <1>10 DEF a, b, c
  <2> QED BY <1>3, <1>4, <1>6, <2>1, <2>2 DEF Sides, c
<1>11. CASE has = {"A"}
  <2>1. d = Drop("C")
    BY <1>11 DEF MergeThree, Sides
  <2>2. a # <<>> /\ b = <<>> /\ c = <<>>
    BY <1>2, <1>11 DEF a, b, c
  <2> QED BY <1>3, <1>4, <1>6, <2>1, <2>2 DEF Sides
<1>12. CASE has = {"B"} \/ has = {"C"}
  <2>1. PICK x \in has : x = CHOOSE y \in has : TRUE
    BY <1>12
  <2>2. x \in {"B", "C"} /\ has = {x}
    BY <1>12, <2>1
  <2>3. d = Take(CHOOSE y \in has : TRUE)
    <3>1. /\ has # Sides /\ has # {"A", "B"} /\ has # {"A", "C"} /\ has # {"B", "C"}
          /\ has # {"A"}
      BY <1>12 DEF Sides
    <3> QED BY <3>1 DEF MergeThree
  <2>4. d = Take(x)
    BY <2>1, <2>3, Zenon
  <2>5. d.src = x /\ d.removed = FALSE
    BY <1>6, <2>2, <2>4 DEF Sides
  <2> HIDE DEF d
  <2>6. CASE x = "B"
    <3>1. a = <<>> /\ c = <<>> /\ b # <<>>
      BY <1>2, <2>2, <2>6 DEF a, b, c
    <3> QED BY <1>3, <1>4, <2>5, <2>6, <3>1 DEF b
  <2>7. CASE x = "C"
    <3>1. a = <<>> /\ b = <<>> /\ c # <<>>
      BY <1>2, <2>2, <2>7 DEF a, b, c
    <3> QED BY <1>3, <1>4, <2>5, <2>7, <3>1 DEF c
  <2> QED BY <2>2, <2>6, <2>7
<1>13. \/ has = Sides \/ has = {"A", "B"} \/ has = {"A", "C"} \/ has = {"B", "C"}
       \/ has = {"A"} \/ has = {"B"} \/ has = {"C"}
  <2> HIDE DEF has
  <2> QED BY <1>1 DEF Sides
<1> QED BY <1>7, <1>8, <1>9, <1>10, <1>11, <1>12, <1>13

LEMMA RowHasLine ==
    ASSUME scenario \in Scenarios, NEW k \in 1..Len(rows)
    PROVE  LET l == RowLine(rows, three, k)
           IN /\ IsConflict(l) <=> MergeOneLine(rows[k], three).src = "None"
              /\ RowTexts(rows, three)[k] = LineText(rows, l)
<1>1. RowList(rows, three, Char)
  BY ScenarioWell
<1> QED BY <1>1, RowLineWell

LEMMA RowText ==
    ASSUME scenario \in Scenarios, three, NEW k \in 1..Len(rows)
    PROVE  RowTexts(rows, three)[k] = IF Clashing(k) THEN <<>> ELSE Agreed(k)
<1> DEFINE d == MergeOneLine(rows[k], three)
           l == RowLine(rows, three, k)
<1>1. RowList(rows, three, Char) /\ k \in DOMAIN rows
  BY ScenarioWell
<1>2. /\ d.removed => d.src \notin DOMAIN rows[k]
      /\ ~d.removed => d.src \in DOMAIN rows[k] \cup {"None"}
      /\ d = Clash <=> d.src = "None"
  BY <1>1, MergeOneLineWell DEF RowList
<1>3. /\ IsConflict(l) <=> d.src = "None"
      /\ RowTexts(rows, three)[k] = LineText(rows, l)
  BY RowHasLine
<1>4. /\ Clashing(k) <=> d.src = "None"
      /\ ~Clashing(k) => Agreed(k) = IF d.removed THEN <<>> ELSE Says(k, d.src)
  BY RowIsMerged
<1>5. l = SourceLine(k, d.src, d.removed)
  BY DEF RowLine
<1> HIDE DEF d, l
<1>6. l.row = k /\ l.src = d.src /\ l.changed = FALSE
  BY <1>5 DEF SourceLine, Line
<1>7. l.removed = d.removed
  BY <1>5 DEF SourceLine, Line
<1>8. CASE d.src = "None" \/ d.removed
  <2>1. LineText(rows, l) = <<>>
    BY <1>3, <1>7, <1>8 DEF LineText
  <2> QED BY <1>3, <1>4, <1>8, <2>1
<1>9. CASE d.src # "None" /\ ~d.removed
  <2>1. d.src \in DOMAIN rows[k]
    BY <1>2, <1>9
  <2>2. GetString(rows, l) = rows[k][d.src]
    <3>1. HasSource(rows, l)
      BY <1>1, <1>6, <1>9, <2>1 DEF HasSource
    <3> QED BY <1>6, <1>7, <1>9, <3>1 DEF GetString
  <2>3. LineText(rows, l) = <<rows[k][d.src]>>
    BY <1>3, <1>7, <1>9, <2>2 DEF LineText
  <2>4. Says(k, d.src) = <<rows[k][d.src]>>
    BY <2>1 DEF Says
  <2> QED BY <1>3, <1>4, <1>9, <2>3, <2>4
<1> QED BY <1>8, <1>9

\* What AutoMergeIsThreeWay says of a list of blocks.
IsThreeWay(bs) ==
    LET ls == Lines(bs)
    IN /\ \A j \in DOMAIN bs : \A k \in Range(RowsOf(bs[j])) :
              Clashing(k) <=> IsConflict(bs[j].lines[1])
       /\ FlattenSeq([i \in DOMAIN ls |-> FileLine(ls[i])])
            = FlattenSeq([k \in Numbers |-> IF Clashing(k) THEN <<>> ELSE Agreed(k)])

LEMMA AutoSolvedIsThreeWay ==
    ASSUME scenario \in Scenarios, three, scenario.white = "None", ~scenario.atStart
    PROVE  IsThreeWay(AutoSolved)
<1> DEFINE bs == BuildFromDiff3(rows, three)
           cs == WithoutEmpty(bs)
           n == Len(rows)
           m == Len(bs)
           B == BlockTexts(rows, Char)
           R == RowTexts(rows, three)
           G == LineTexts(rows, Char)
           ls == Lines(cs)
<1>1. RowList(rows, three, Char) /\ n \in Nat \ {0} /\ Numbers = 1..n
  BY ScenarioWell DEF Numbers
<1>2. AutoSolved = cs
  BY DEF AutoSolved
<1>3. FairList(rows, three, Char, bs, n)
  BY <1>1, BuildFair
<1>4. /\ \A i \in 1..m : ClearBlock(rows, three, bs[i])
      /\ Gathered(B, bs) = Gathered(R, FirstRows(n))
  BY <1>1, BuildClear
<1>5. m \in Nat /\ DOMAIN bs = 1..m
  BY <1>3, LenProperties DEF FairList
<1>6. cs = [j \in 1..m |-> RemoveEmptySource(rows, bs[j])]
  BY <1>5 DEF WithoutEmpty
<1> HIDE DEF cs, bs, m, n
<1>7. DOMAIN cs = 1..m /\ \A j \in 1..m : cs[j] = RemoveEmptySource(rows, bs[j])
  BY <1>6
<1>8. ASSUME NEW j \in 1..m
      PROVE  /\ cs[j] \in Block(Char) /\ cs[j].first = bs[j].first /\ cs[j].len = bs[j].len
             /\ cs[j].lines[1] = bs[j].lines[1] /\ B[cs[j]] = B[bs[j]]
  <2> DEFINE b == bs[j]
  <2>1. FairBlock(rows, three, Char, b, n) /\ ClearBlock(rows, three, b)
    BY <1>3, <1>4 DEF FairList, m
  <2> HIDE DEF b
  <2>2. ShowTheSame(rows, Char, RemoveEmptySource(rows, b), b)
    BY <1>1, <2>1, RemoveEmptyClear
  <2> QED BY <1>7, <2>2 DEF ShowTheSame, b
<1>9. cs \in Seq(Block(Char))
  <2>1. cs \in [1..m -> Block(Char)]
    BY <1>6, <1>7, <1>8
  <2> QED BY <1>5, <2>1, MapSeq
<1>10. ASSUME NEW j \in DOMAIN cs, NEW k \in Range(RowsOf(cs[j]))
       PROVE  Clashing(k) <=> IsConflict(cs[j].lines[1])
  <2> DEFINE b == bs[j]
  <2>1. j \in 1..m /\ FairBlock(rows, three, Char, b, n) /\ ClearBlock(rows, three, b)
    BY <1>3, <1>4, <1>7 DEF FairList, m
  <2>2. b.first \in Nat /\ b.len \in Nat
    BY <2>1 DEF FairBlock, Block
  <2>3. PICK i \in 1..b.len : k = b.first + i - 1
    BY <1>8, <2>1 DEF RowsOf, Range
  <2>4. k \in b.first..b.first + b.len - 1
    BY <2>2, <2>3
  <2>5. k \in 1..n
    BY <1>1, <2>1, <2>2, <2>3, SMTT(30) DEF FairBlock, Fits
  <2>6. Clashing(k) <=> MergeOneLine(rows[k], three).src = "None"
    BY <2>5, RowIsMerged DEF n
  <2> HIDE DEF b
  <2>7. IsConflict(b.lines[1]) <=> MergeOneLine(rows[k], three).src = "None"
    BY <2>1, <2>4 DEF ClearBlock
  <2> QED BY <1>8, <2>1, <2>6, <2>7 DEF b
<1>11. FlattenSeq([i \in DOMAIN ls |-> FileLine(ls[i])]) = Gathered(G, ls)
  <2>1. ls \in Seq(EditLine(Char))
    BY <1>1, <1>9, TextOfBlocks DEF Lines
  <2> HIDE DEF ls
  <2>2. ASSUME NEW i \in DOMAIN ls PROVE FileLine(ls[i]) = G[ls[i]]
    <3>1. ls[i] \in EditLine(Char)
      BY <2>1
    <3> QED BY <3>1 DEF LineTexts, LineText, FileLine
  <2>3. [i \in DOMAIN ls |-> FileLine(ls[i])] = [i \in DOMAIN ls |-> G[ls[i]]]
    BY <2>2
  <2> HIDE DEF G
  <2> QED BY <2>3 DEF Gathered
<1>12. Gathered(G, ls) = Gathered(B, cs)
  BY <1>1, <1>9, TextOfBlocks DEF Lines
<1>13. Gathered(B, cs) = Gathered(B, bs)
  <2>1. [j \in DOMAIN cs |-> B[cs[j]]] = [j \in DOMAIN bs |-> B[bs[j]]]
    BY <1>5, <1>7, <1>8
  <2> QED BY <2>1 DEF Gathered
<1>14. Gathered(R, FirstRows(n))
         = FlattenSeq([k \in Numbers |-> IF Clashing(k) THEN <<>> ELSE Agreed(k)])
  <2>1. DOMAIN FirstRows(n) = 1..n /\ \A k \in 1..n : FirstRows(n)[k] = k
    BY DEF FirstRows
  <2>2. \A k \in 1..n : R[k] = IF Clashing(k) THEN <<>> ELSE Agreed(k)
    BY RowText DEF n
  <2> DEFINE f == FirstRows(n)
  <2> HIDE DEF f, R
  <2>3. [k \in DOMAIN f |-> R[f[k]]] = [k \in Numbers |-> IF Clashing(k) THEN <<>> ELSE Agreed(k)]
    BY <1>1, <2>1, <2>2 DEF f
  <2> QED BY <2>3 DEF Gathered, f
<1> HIDE DEF B, G, R
<1>15. FlattenSeq([i \in DOMAIN ls |-> FileLine(ls[i])])
         = FlattenSeq([k \in Numbers |-> IF Clashing(k) THEN <<>> ELSE Agreed(k)])
  BY <1>4, <1>11, <1>12, <1>13, <1>14, Zenon
<1>16. IsThreeWay(cs)
  BY <1>10, <1>15, Zenon DEF IsThreeWay
<1> QED BY <1>2, <1>16

\* The blocks that mergeOneLine() alone makes of the rows.
SolvedBlocks(rs, c) ==
    LET bs == BuildFromDiff3(rs, c) IN [j \in DOMAIN bs |-> RemoveEmptySource(rs, bs[j])]

LEMMA AutoSolvedBlocks ==
    scenario.white = "None" /\ ~scenario.atStart => AutoSolved = SolvedBlocks(rows, three)
  BY DEF AutoSolved, WithoutEmpty, SolvedBlocks

\* Until the user gives another command, the blocks are those of the merge.
AutoMerged ==
    /\ scenario \in Scenarios
    /\ last \in {"none", "autoSolve"} /\ scenario.white = "None" /\ ~scenario.atStart =>
          blocks = SolvedBlocks(rows, three)

LEMMA AutoMergedStep == AutoMerged /\ [Next]_vars => AutoMerged'
<1> SUFFICES ASSUME AutoMerged, [Next]_vars PROVE AutoMerged'
  OBVIOUS
<1>1. scenario' = scenario /\ SolvedBlocks(rows, three)' = SolvedBlocks(rows, three)
  <2>1. scenario' = scenario
    <3>1. \A c : Give(c) => scenario' = scenario
      BY DEF Give
    <3>2. Choosing \/ Regroup \/ SaveDocument \/ UNCHANGED vars => scenario' = scenario
      BY <3>1 DEF Choosing, Regroup, ChooseCurrent, ChooseGlobal, AutoSolve, Unsolve, Decline,
                  SlotRegExpAutoMerge, SlotSplitDiff, SlotJoinDiffs, SaveDocument, Give, vars
    <3>3. Keys => scenario' = scenario
      <4>1. /\ \A p, x : DeleteCharacter(p, x) \/ Return(p, x) => scenario' = scenario
            /\ \A p, x, c : Type(p, x, c) \/ Paste(p, x, c) => scenario' = scenario
            /\ \A p, q : JoinLines(p, q) \/ RemoveLine(p) => scenario' = scenario
        BY <3>1 DEF DeleteCharacter, Return, Type, Paste, JoinLines, RemoveLine
      <4>2. \A p, x, q, y : DeleteSelection(p, x, q, y) => scenario' = scenario
        BY <3>1, SMTT(30) DEF DeleteSelection
      <4> QED BY <4>1, <4>2 DEF Keys
    <3> QED BY <3>2, <3>3 DEF Next
  <2> QED BY <2>1 DEF rows, three
<1> DEFINE Others == {"choose", "everywhere", "unsolved", "white", "unsolve", "regExp", "split",
                      "join", "type", "delete", "removeLine", "return", "erase", "paste", "save",
                      "declined"}
<1>2. CASE UNCHANGED vars
  BY <1>1, <1>2 DEF AutoMerged, vars
<1>3. CASE AutoSolve
  BY <1>1, <1>3, AutoSolvedBlocks DEF AutoMerged, AutoSolve
<1>4. last' \in Others => AutoMerged'
  BY <1>1 DEF AutoMerged
<1>5. CASE \/ \E j \in DOMAIN blocks, s \in Inputs : ChooseCurrent(j, s)
           \/ \E s \in Inputs, w \in BOOLEAN : ChooseGlobal(s, TRUE, w)
           \/ \E s \in Inputs : ChooseGlobal(s, FALSE, FALSE)
           \/ Unsolve \/ Decline \/ SlotRegExpAutoMerge \/ Regroup \/ SaveDocument
  <2>1. last' \in Others
    BY <1>5 DEF ChooseCurrent, ChooseGlobal, Unsolve, Decline, SlotRegExpAutoMerge, Regroup,
                SlotSplitDiff, SlotJoinDiffs, SaveDocument
  <2> QED BY <1>4, <2>1
<1>6. CASE Keys
  <2>1. last' \in Others
    <3>1. /\ \A p, x : DeleteCharacter(p, x) \/ Return(p, x) => last' \in Others
          /\ \A p, x, c : Type(p, x, c) \/ Paste(p, x, c) => last' \in Others
          /\ \A p, q : JoinLines(p, q) \/ RemoveLine(p) => last' \in Others
      BY DEF DeleteCharacter, Return, Type, Paste, JoinLines, RemoveLine
    <3>2. \A p, x, q, y : DeleteSelection(p, x, q, y) => last' \in Others
      BY SMTT(30) DEF DeleteSelection
    <3> HIDE DEF Others
    <3> QED BY <1>6, <3>1, <3>2 DEF Keys
  <2> QED BY <1>4, <2>1
<1> QED BY <1>2, <1>3, <1>5, <1>6 DEF Next, Choosing

\* merge(true, Invalid) takes of every row what only one side changed, or both
\* alike, and makes a conflict of a row that all three have differently, and of
\* no other (mergeOneLine, buildFromDiff3, removeEmptySource).
THEOREM AutoMergeIsAlwaysThreeWay == Spec => []AutoMergeIsThreeWay
<1>1. Init => AutoMerged
  BY AutoSolvedBlocks DEF Init, AutoMerged
<1>2. AutoMerged => AutoMergeIsThreeWay
  <2> SUFFICES ASSUME AutoMerged, three, last \in {"none", "autoSolve"},
                      scenario.white = "None", ~scenario.atStart
               PROVE  IsThreeWay(blocks)
    BY DEF AutoMergeIsThreeWay, IsThreeWay
  <2>1. IsThreeWay(AutoSolved)
    BY AutoSolvedIsThreeWay DEF AutoMerged
  <2> QED BY <2>1, AutoSolvedBlocks DEF AutoMerged
<1> QED BY <1>1, <1>2, AutoMergedStep, PTL DEF Spec

-----------------------------------------------------------------------------
(* What the keys leave as it is. *)

LEMMA CharactersAre ==
    ASSUME scenario \in Scenarios, NEW bs \in Seq(Block(Char))
    PROVE  Characters(bs) = Gathered(OfBlocks(Strings(rows, Char), Char), bs)
<1> DEFINE G == Strings(rows, Char)
           L == EditLine(Char)
           ls == Lines(bs)
<1>1. G \in [EditLine(Char) -> Seq(Char)]
  BY ScenarioWell, StringTypes
<1>2. ls = FlattenSeq([j \in DOMAIN bs |-> bs[j].lines])
  BY DEF Lines
<1>3. ls \in Seq(L) /\ Gathered(G, ls) = Gathered(OfBlocks(G, Char), bs)
  <2> HIDE DEF G, ls
  <2> QED BY <1>1, <1>2, GatheredBlocks
<1>4. Characters(bs) = FlattenSeq([i \in DOMAIN ls |-> GetString(rows, ls[i])])
  BY DEF Characters
<1> HIDE DEF ls
<1>5. \A i \in DOMAIN ls : ls[i] \in EditLine(Char)
  <2> HIDE DEF L
  <2>1. DOMAIN ls = 1..Len(ls) /\ \A i \in 1..Len(ls) : ls[i] \in L
    BY <1>3, LenProperties, ElementOfSeq
  <2> QED BY <2>1 DEF L
<1>6. [i \in DOMAIN ls |-> GetString(rows, ls[i])] = [i \in DOMAIN ls |-> G[ls[i]]]
  BY <1>5 DEF Strings
<1> QED BY <1>3, <1>4, <1>6 DEF Gathered

\* The lines of one block, and the characters around them.
LEMMA LinesInContext ==
    ASSUME scenario \in Scenarios, NEW bs, IsResult(bs), NEW j \in 1..Len(bs)
    PROVE  \E a, z \in Seq(Char) : \A ls \in Seq(EditLine(Char)) :
              Characters([bs EXCEPT ![j].lines = ls]) = (a \o Gathered(Strings(rows, Char), ls)) \o z
<1> DEFINE B == Block(Char)
           H == OfBlocks(Strings(rows, Char), Char)
<1>1. bs \in Seq(B) /\ bs[j] \in B /\ Len(bs) \in Nat /\ DOMAIN bs = 1..Len(bs)
  BY LinesOf
<1>2. H \in [B -> Seq(Char)]
  BY ScenarioWell, StringTypes
<1>3. /\ \A x \in B : Gathered(H, <<x>>) = H[x]
      /\ \A s \in Seq(B) : \A x \in 1..Len(s) + 1 : \A y \in x - 1..Len(s) :
            \E a, z \in Seq(Char) : Frame(H, B, s, x, y, a, z)
  <2> HIDE DEF H, B
  <2>1. \A x \in B : Gathered(H, <<x>>) = H[x]
    BY ONLY <1>2, GatheredOne
  <2>2. \A s \in Seq(B) : \A x \in 1..Len(s) + 1 : \A y \in x - 1..Len(s) :
            \E a, z \in Seq(Char) : Frame(H, B, s, x, y, a, z)
    BY ONLY <1>2, GatheredPart
  <2> QED BY <2>1, <2>2
<1>4. PICK a, z \in Seq(Char) : Frame(H, B, bs, j, j, a, z)
  <2>1. j \in 1..Len(bs) + 1 /\ j \in j - 1..Len(bs)
    BY <1>1
  <2> HIDE DEF H, B
  <2> QED BY <1>1, <1>3, <2>1
<1>5. ASSUME NEW ls \in Seq(EditLine(Char))
      PROVE  Characters([bs EXCEPT ![j].lines = ls]) = (a \o Gathered(Strings(rows, Char), ls)) \o z
  <2> DEFINE e == [bs[j] EXCEPT !.lines = ls]
             r == [bs EXCEPT ![j] = e]
  <2>1. e \in Block(Char) /\ e.lines = ls
    BY <1>1 DEF Block
  <2>2. H[e] = Gathered(Strings(rows, Char), ls)
    <3> HIDE DEF e
    <3> QED BY <2>1 DEF OfBlocks
  <2>3. [bs EXCEPT ![j].lines = ls] = r
    BY <1>1
  <2> HIDE DEF e
  <2>4. e \in B
    BY <2>1
  <2> HIDE DEF B, H
  <2>5. r = Part(bs, j, j, <<e>>)
    <3>1. /\ r \in Seq(B) /\ Len(r) = Len(bs) /\ r[j] = e
          /\ \A x \in 1..Len(bs) : x # j => r[x] = bs[x]
      BY <1>1, <2>4, ExceptSeq
    <3> HIDE DEF r
    <3> QED BY <1>1, <3>1, ReplacedPart
  <2>6. r \in Seq(B) /\ <<e>> \in Seq(B)
    BY <1>1, <2>4, ExceptSeq
  <2>7. Gathered(H, r) = (a \o H[e]) \o z
    BY <1>3, <1>4, <2>4, <2>5, <2>6 DEF Frame
  <2> HIDE DEF r
  <2>8. Characters(r) = Gathered(H, r)
    BY <2>6, CharactersAre DEF B, H
  <2> QED BY <2>2, <2>3, <2>7, <2>8
<1> QED BY <1>5

\* One line, and the characters around it: what is written in its place, and
\* behind it.
InContext(bs, p, a, z) ==
    /\ Characters(bs) = (a \o GetString(rows, LineAt(bs, p))) \o z
    /\ \A t \in Seq(Char) : Characters(Write(bs, p, t)) = (a \o t) \o z
    /\ \A t, u \in Seq(Char) : Characters(Insert(Write(bs, p, t), p, u)) = (a \o (t \o u)) \o z
    /\ \A u \in Seq(Char) :
          Characters(Insert(bs, p, u)) = (a \o (GetString(rows, LineAt(bs, p)) \o u)) \o z

LEMMA StringOfWritten ==
    ASSUME NEW l \in EditLine(Char), NEW t \in Seq(Char)
    PROVE  /\ SetString(l, t) \in EditLine(Char) /\ GetString(rows, SetString(l, t)) = t
           /\ SetRemoved(l) \in EditLine(Char) /\ GetString(rows, SetRemoved(l)) = <<>>
<1>1. SetString(l, t) \in EditLine(Char) /\ SetRemoved(l) \in EditLine(Char)
  BY WrittenLine DEF Written
<1>2. SetString(l, t).changed /\ SetString(l, t).str = t
  BY DEF SetString, EditLine
<1>3. SetRemoved(l).changed /\ SetRemoved(l).str = <<>>
  BY DEF SetRemoved, EditLine
<1> QED BY <1>1, <1>2, <1>3 DEF GetString

LEMMA PositionInContext ==
    ASSUME scenario \in Scenarios, NEW bs, IsResult(bs), NEW p, At(bs, p)
    PROVE  \E a, z \in Seq(Char) : InContext(bs, p, a, z)
<1> DEFINE L == EditLine(Char)
           G == Strings(rows, Char)
           j == p[1]
           i == p[2]
           ls == bs[j].lines
           k == ls[i]
           more == Line(bs[j].first)
<1>1. /\ bs \in Seq(Block(Char)) /\ DOMAIN bs = 1..Len(bs) /\ j \in 1..Len(bs) /\ bs[j] \in Block(Char)
      /\ ls \in Seq(L) /\ i \in 1..Len(ls) /\ Len(ls) \in Nat /\ k \in L /\ more \in L
      /\ DOMAIN ls = 1..Len(ls)
  <2>1. /\ bs \in Seq(Block(Char)) /\ DOMAIN bs = 1..Len(bs) /\ j \in 1..Len(bs)
        /\ bs[j] \in Block(Char) /\ i \in 1..Len(ls) /\ Len(ls) \in Nat /\ k \in L
        /\ DOMAIN ls = 1..Len(ls)
    BY LinesOf DEF At
  <2>2. ls \in Seq(L) /\ bs[j].first \in Nat
    BY <2>1 DEF Block
  <2>3. more \in L
    BY <2>2, LineWell
  <2> QED BY <2>1, <2>2, <2>3
<1>2. G \in [L -> Seq(Char)] /\ k = LineAt(bs, p) /\ G[k] = GetString(rows, k)
  BY <1>1, ScenarioWell, StringTypes DEF Strings, LineAt
<1>3. /\ \A x \in L : Gathered(G, <<x>>) = G[x]
      /\ \A s, t \in Seq(L) : Gathered(G, s \o t) = Gathered(G, s) \o Gathered(G, t)
      /\ \A s \in Seq(L) : \A x \in 1..Len(s) + 1 : \A y \in x - 1..Len(s) :
            \E a, z \in Seq(Char) : Frame(G, L, s, x, y, a, z)
  <2> HIDE DEF G, L
  <2>1. \A x \in L : Gathered(G, <<x>>) = G[x]
    BY ONLY <1>2, GatheredOne
  <2>2. \A s, t \in Seq(L) : Gathered(G, s \o t) = Gathered(G, s) \o Gathered(G, t)
    BY ONLY <1>2, GatheredConcat
  <2>3. \A s \in Seq(L) : \A x \in 1..Len(s) + 1 : \A y \in x - 1..Len(s) :
            \E a, z \in Seq(Char) : Frame(G, L, s, x, y, a, z)
    BY ONLY <1>2, GatheredPart
  <2> QED BY <2>1, <2>2, <2>3
<1>4. PICK b, y \in Seq(Char) : \A ms \in Seq(EditLine(Char)) :
         Characters([bs EXCEPT ![j].lines = ms]) = (b \o Gathered(Strings(rows, Char), ms)) \o y
  BY <1>1, LinesInContext
<1> HIDE DEF L, G
<1>5. PICK a, z \in Seq(Char) : Frame(G, L, ls, i, i, a, z)
  <2>1. i \in 1..Len(ls) + 1 /\ i \in i - 1..Len(ls)
    BY <1>1
  <2> HIDE DEF ls, i
  <2> QED BY <1>1, <1>3, <2>1
<1> DEFINE A == b \o a
           Z == z \o y
<1>6. A \in Seq(Char) /\ Z \in Seq(Char)
  BY <1>4, <1>5, ConcatProperties
<1> HIDE DEF A, Z
\* What the list shows with other lines in the place of the one.
<1>7. ASSUME NEW m \in Seq(L), NEW ms, ms = Part(ls, i, i, m), ms \in Seq(L)
      PROVE  Characters([bs EXCEPT ![j].lines = ms]) = (A \o Gathered(G, m)) \o Z
  <2> DEFINE t == Gathered(G, m)
  <2>1. t \in Seq(Char)
    BY <1>2, GatheredType
  <2>2. Gathered(G, ms) = (a \o t) \o z
    BY <1>5, <1>7 DEF Frame
  <2>3. Characters([bs EXCEPT ![j].lines = ms]) = (b \o ((a \o t) \o z)) \o y
    BY <1>4, <1>7, <2>2 DEF L, G
  <2> HIDE DEF t
  <2>4. (b \o ((a \o t) \o z)) \o y = (A \o t) \o Z
    <3>1. SameInside(b, a, t, z, y)
      BY <1>4, <1>5, <2>1, ConcatInside
    <3> QED BY <3>1 DEF SameInside, A, Z
  <2> QED BY <2>3, <2>4 DEF t
<1>8. Characters(bs) = (A \o GetString(rows, k)) \o Z
  <2>1. ls = Part(ls, i, i, <<k>>)
    <3>1. \A x \in 1..Len(ls) : x # i => ls[x] = ls[x]
      OBVIOUS
    <3> HIDE DEF ls, i
    <3> QED BY <1>1, <3>1, ReplacedPart
  <2>2. [bs EXCEPT ![j].lines = ls] = bs
    <3>1. [bs[j] EXCEPT !.lines = bs[j].lines] = bs[j]
      BY <1>1 DEF Block
    <3>2. [bs EXCEPT ![j] = bs[j]] = bs
      <4> HIDE DEF j
      <4> QED BY <1>1, ExceptSame
    <3> QED BY <1>1, <3>1, <3>2
  <2>3. <<k>> \in Seq(L)
    BY <1>1
  <2> HIDE DEF ls, i, k
  <2> QED BY <1>1, <1>2, <1>3, <1>7, <2>1, <2>2, <2>3
<1>9. ASSUME NEW t \in Seq(Char) PROVE Characters(Write(bs, p, t)) = (A \o t) \o Z
  <2> DEFINE e == SetString(k, t)
             ms == [ls EXCEPT ![i] = e]
  <2>1. e \in L /\ G[e] = t
    BY <1>1, StringOfWritten DEF L, G, Strings
  <2>2. Write(bs, p, t) = [bs EXCEPT ![j].lines = ms]
    BY <1>1 DEF Write, Put, LineAt, Block
  <2> HIDE DEF e, ls, i
  <2>3. ms \in Seq(L) /\ Len(ms) = Len(ls) /\ ms[i] = e /\ \A x \in 1..Len(ls) : x # i => ms[x] = ls[x]
    BY <1>1, <2>1, ExceptSeq
  <2> HIDE DEF ms
  <2>4. ms = Part(ls, i, i, <<e>>)
    BY <1>1, <2>3, ReplacedPart
  <2>5. <<e>> \in Seq(L)
    BY <2>1
  <2> QED BY <1>3, <1>7, <2>1, <2>2, <2>3, <2>4, <2>5
<1>10. ASSUME NEW w \in Seq(L), Len(w) = Len(ls), \A x \in 1..Len(ls) : x # i => w[x] = ls[x],
              NEW u \in Seq(Char)
       PROVE  LET ms == InsertAt(w, i + 1, SetString(more, u))
              IN Characters([bs EXCEPT ![j].lines = ms]) = (A \o (G[w[i]] \o u)) \o Z
  <2> DEFINE e == w[i]
             f == SetString(more, u)
             m == <<e>> \o <<f>>
             ms == InsertAt(w, i + 1, f)
  <2>1. f \in L /\ G[f] = u
    BY <1>1, StringOfWritten DEF L, G, Strings
  <2> HIDE DEF f, ls, i, more
  <2>2. ms = Part(ls, i, i, m)
    <3>1. ls \in Seq(L) /\ i \in 1..Len(ls)
      BY ONLY <1>1
    <3>2. f \in L
      BY ONLY <2>1
    <3> HIDE DEF e, m, ms
    <3>3. w \in Seq(L) /\ Len(w) = Len(ls) /\ \A x \in 1..Len(ls) : x # i => w[x] = ls[x]
      BY ONLY <1>10
    <3>4. InsertAt(w, i + 1, f) = Part(ls, i, i, <<w[i]>> \o <<f>>)
      BY ONLY <3>1, <3>2, <3>3, InsertedPart, ZenonT(30)
    <3> QED BY ONLY <3>4 DEF ms, m, e
  <2>3. e \in L
    BY <1>1, <1>10, ElementOfSeq
  <2> HIDE DEF e
  <2>4. <<e>> \in Seq(L) /\ <<f>> \in Seq(L) /\ m \in Seq(L)
    BY <2>1, <2>3
  <2>5. Gathered(G, m) = G[e] \o u
    BY <1>3, <2>1, <2>3, <2>4
  <2>6. ms \in Seq(L)
    <3>1. i \in 1..Len(ls) + 1 /\ i \in i - 1..Len(ls)
      BY <1>1
    <3>2. InPlaceOf(Part(ls, i, i, m), ls, m, i, i, L)
      BY <1>1, <2>4, <3>1, InPlace DEF Part
    <3> QED BY <2>2, <3>2 DEF InPlaceOf
  <2> HIDE DEF ms, m
  <2>7. Characters([bs EXCEPT ![j].lines = ms]) = (A \o (G[e] \o u)) \o Z
    BY <1>7, <2>2, <2>4, <2>5, <2>6
  <2> QED BY <2>7 DEF ms, e, f
<1>11. ASSUME NEW t \in Seq(Char), NEW u \in Seq(Char)
       PROVE  Characters(Insert(Write(bs, p, t), p, u)) = (A \o (t \o u)) \o Z
  <2> DEFINE e == SetString(k, t)
             w == [ls EXCEPT ![i] = e]
             ms == InsertAt(w, i + 1, SetString(more, u))
  <2>1. e \in L /\ G[e] = t
    BY <1>1, StringOfWritten DEF L, G, Strings
  <2>2. Write(bs, p, t) = [bs EXCEPT ![j].lines = w]
    BY <1>1 DEF Write, Put, LineAt, Block
  <2> HIDE DEF e
  <2>3. w \in Seq(L) /\ Len(w) = Len(ls) /\ w[i] = e /\ \A x \in 1..Len(ls) : x # i => w[x] = ls[x]
    <3> HIDE DEF ls, i
    <3> QED BY <1>1, <2>1, ExceptSeq
  <2> HIDE DEF w
  <2>4. Insert(Write(bs, p, t), p, u) = [bs EXCEPT ![j].lines = ms]
    <3> DEFINE c == [bs EXCEPT ![j].lines = w]
    <3>1. /\ c[j].first = bs[j].first /\ c[j].lines = w
          /\ \A x : [c EXCEPT ![j].lines = x] = [bs EXCEPT ![j].lines = x]
      BY <1>1 DEF Block
    <3>2. Insert(c, p, u) = [c EXCEPT ![j].lines = InsertAt(c[j].lines, i + 1, SetString(Line(c[j].first), u))]
      BY <1>1 DEF Insert, Block
    <3> HIDE DEF c
    <3> QED BY <2>2, <3>1, <3>2 DEF c
  <2>5. Characters([bs EXCEPT ![j].lines = ms]) = (A \o (G[w[i]] \o u)) \o Z
    BY <1>10, <2>3
  <2> QED BY <2>1, <2>3, <2>4, <2>5
<1>12. ASSUME NEW u \in Seq(Char)
       PROVE  Characters(Insert(bs, p, u)) = (A \o (GetString(rows, k) \o u)) \o Z
  <2> DEFINE ms == InsertAt(ls, i + 1, SetString(more, u))
  <2>1. Insert(bs, p, u) = [bs EXCEPT ![j].lines = ms]
    BY <1>1 DEF Insert, Block
  <2>2. \A x \in 1..Len(ls) : x # i => ls[x] = ls[x]
    OBVIOUS
  <2>3. Characters([bs EXCEPT ![j].lines = ms]) = (A \o (G[ls[i]] \o u)) \o Z
    BY <1>1, <1>10, <2>2
  <2> QED BY <1>2, <2>1, <2>3
<1>13. InContext(bs, p, A, Z)
  BY <1>2, <1>8, <1>9, <1>11, <1>12 DEF InContext
<1> QED BY <1>6, <1>13

LEMMA CutString ==
    ASSUME NEW t \in Seq(Char), NEW x \in 0..Len(t)
    PROVE  /\ Left(t, x) \in Seq(Char) /\ Mid(t, x) \in Seq(Char)
           /\ t = Left(t, x) \o Mid(t, x)
           /\ x = Len(t) => Left(t, x) = t /\ Mid(t, x) = <<>>
           /\ x < Len(t) => /\ t[x + 1] \in Char /\ Mid(t, x + 1) \in Seq(Char)
                            /\ t = (Left(t, x) \o <<t[x + 1]>>) \o Mid(t, x + 1)
<1> DEFINE u == Left(t, x)
           v == Mid(t, x)
           i == x + 1
<1>1. Len(t) \in Nat /\ i \in 1..Len(t) + 1 /\ i - 1 = x
  BY LenProperties
<1>2. u = SubSeq(t, 1, i - 1) /\ v = SubSeq(t, i, Len(t))
  BY <1>1 DEF Left, Mid
<1> HIDE DEF u, v, i
<1>3. u \in Seq(Char) /\ v \in Seq(Char) /\ t = u \o v
  BY <1>1, <1>2, CutInTwo
<1>4. CASE x = Len(t)
  <2>1. v = <<>>
    BY <1>1, <1>2, <1>4, SubSeqProperties, EmptySeq DEF i
  <2>2. u = t
    BY <1>3, <2>1, ConcatEmptySeq
  <2> QED BY <1>1, <1>3, <1>4, <2>1, <2>2 DEF u, v
<1>5. CASE x < Len(t)
  <2>1. i \in 1..Len(t) /\ t[i] \in Char
    BY <1>1, <1>5, ElementOfSeq DEF i
  <2>2. t = Part(t, i, i, <<t[i]>>)
    <3>1. \A y \in 1..Len(t) : y # i => t[y] = t[y]
      OBVIOUS
    <3> QED BY <2>1, <3>1, ReplacedPart
  <2>3. t = (u \o <<t[i]>>) \o Mid(t, i)
    BY <1>2, <2>2 DEF Part, Mid
  <2>4. Mid(t, i) \in Seq(Char)
    <3>1. i \in 0..Len(t)
      BY <1>1, <2>1
    <3> QED BY <3>1, PartsOfString
  <2>5. /\ t[i] \in Char /\ Mid(t, i) \in Seq(Char)
        /\ t = (u \o <<t[i]>>) \o Mid(t, i)
    BY <2>1, <2>3, <2>4
  <2>6. /\ t[x + 1] \in Char /\ Mid(t, x + 1) \in Seq(Char)
        /\ t = (Left(t, x) \o <<t[x + 1]>>) \o Mid(t, x + 1)
    BY ONLY <2>5 DEF u, i
  <2>7. Left(t, x) \in Seq(Char) /\ Mid(t, x) \in Seq(Char) /\ t = Left(t, x) \o Mid(t, x)
    BY ONLY <1>3 DEF u, v
  <2>8. x # Len(t)
    BY <1>1, <1>5
  <2> QED BY ONLY <1>5, <2>6, <2>7, <2>8
<1>6. x = Len(t) \/ x < Len(t)
  BY <1>1
<1> QED BY <1>4, <1>5, <1>6

LEMMA TypeAddsOne ==
    ASSUME IInv, NEW p \in Positions, NEW x \in Columns(p), NEW c \in Char, Type(p, x, c)
    PROVE  OneMore(Characters(blocks'), Characters(blocks))
<1> DEFINE u == Left(String(p), x)
           v == Mid(String(p), x)
           o == <<c>>
           t == (u \o o) \o v
<1>1. /\ At(blocks, p) /\ String(p) \in Seq(Char) /\ IsResult(blocks) /\ scenario \in Scenarios
      /\ x \in 0..Len(String(p))
  BY PositionsAreAt DEF IInv, Columns
<1>2. u \in Seq(Char) /\ v \in Seq(Char) /\ String(p) = u \o v /\ o \in Seq(Char)
  <2> DEFINE s == String(p)
  <2>1. s \in Seq(Char) /\ x \in 0..Len(s)
    BY <1>1
  <2> HIDE DEF s
  <2>2. Left(s, x) \in Seq(Char) /\ Mid(s, x) \in Seq(Char) /\ s = Left(s, x) \o Mid(s, x)
    BY ONLY <2>1, CutString
  <2> QED BY <2>2 DEF s
<1>3. blocks' = Write(blocks, p, t)
  BY DEF Type
<1>4. PICK a, z \in Seq(Char) : InContext(blocks, p, a, z)
  BY <1>1, PositionInContext
<1> HIDE DEF u, v, o
<1>5. t \in Seq(Char)
  BY <1>2, ConcatProperties
<1> HIDE DEF t
<1>6. /\ Characters(blocks) = (a \o (u \o v)) \o z
      /\ Characters(blocks') = (a \o t) \o z
  BY <1>2, <1>3, <1>4, <1>5 DEF InContext, String
<1>7. OneMore((a \o ((u \o <<c>>) \o v)) \o z, (a \o (u \o v)) \o z)
  BY <1>2, <1>4, OneInside
<1> QED BY <1>6, <1>7 DEF t, o

LEMMA PasteAddsOne ==
    ASSUME IInv, NEW p \in Positions, NEW x \in Columns(p), NEW c \in Char,
           NEW clip \in {<<<<c>>>>, <<<<c>>, <<>>>>}, Paste(p, x, clip)
    PROVE  OneMore(Characters(blocks'), Characters(blocks))
<1> DEFINE u == Left(String(p), x)
           v == Mid(String(p), x)
           o == <<c>>
           h == <<>>
           uo == u \o o
           one == uo \o v
           tail == h \o v
<1>1. /\ At(blocks, p) /\ String(p) \in Seq(Char) /\ IsResult(blocks) /\ scenario \in Scenarios
      /\ x \in 0..Len(String(p))
  BY PositionsAreAt DEF IInv, Columns
<1>2. u \in Seq(Char) /\ v \in Seq(Char) /\ String(p) = u \o v /\ o \in Seq(Char) /\ h \in Seq(Char)
  <2> DEFINE s == String(p)
  <2>1. s \in Seq(Char) /\ x \in 0..Len(s)
    BY <1>1
  <2> HIDE DEF s
  <2>2. Left(s, x) \in Seq(Char) /\ Mid(s, x) \in Seq(Char) /\ s = Left(s, x) \o Mid(s, x)
    BY ONLY <2>1, CutString
  <2> QED BY <2>2, EmptySeq DEF s
<1>3. \/ blocks' = Write(blocks, p, one)
      \/ blocks' = Insert(Write(blocks, p, uo), p, tail)
  <2>1. clip = <<o>> \/ clip = <<o, h>>
    OBVIOUS
  <2>2. blocks' = IF Len(clip) = 1 THEN Write(blocks, p, (u \o clip[1]) \o v)
                  ELSE Insert(Write(blocks, p, u \o clip[1]), p, clip[2] \o v)
    BY DEF Paste
  <2> HIDE DEF o, h, u, v
  <2>3. clip[1] = o /\ (clip[2] = h \/ Len(clip) = 1)
    BY <1>2, <2>1
  <2> QED BY <2>2, <2>3
<1>4. PICK a, z \in Seq(Char) : InContext(blocks, p, a, z)
  BY <1>1, PositionInContext
<1> HIDE DEF u, v, o
<1>5. tail = v
  BY <1>2, ConcatEmptySeq
<1>6. uo \in Seq(Char)
  BY <1>2, ConcatProperties
<1> HIDE DEF uo, tail
<1>7. one \in Seq(Char)
  BY <1>2, <1>6, ConcatProperties
<1> HIDE DEF one
<1>8. /\ Characters(blocks) = (a \o (u \o v)) \o z
      /\ Characters(blocks') = (a \o (uo \o v)) \o z
  <2>1. Characters(blocks) = (a \o (u \o v)) \o z
    BY <1>2, <1>4 DEF InContext, String
  <2>2. CASE blocks' = Write(blocks, p, one)
    BY <1>4, <1>7, <2>1, <2>2 DEF InContext, one
  <2>3. CASE blocks' = Insert(Write(blocks, p, uo), p, tail)
    BY <1>2, <1>4, <1>5, <1>6, <2>1, <2>3 DEF InContext
  <2> QED BY <1>3, <2>2, <2>3
<1>9. OneMore((a \o ((u \o <<c>>) \o v)) \o z, (a \o (u \o v)) \o z)
  BY <1>2, <1>4, OneInside
<1> QED BY <1>8, <1>9 DEF uo, o

LEMMA DeleteTakesOne ==
    ASSUME IInv, NEW p \in Positions, NEW x \in Columns(p), DeleteCharacter(p, x)
    PROVE  OneMore(Characters(blocks), Characters(blocks'))
<1> DEFINE s == String(p)
           c == s[x + 1]
           u == Left(s, x)
           v == Mid(s, x + 1)
           t == u \o v
<1>1. /\ At(blocks, p) /\ s \in Seq(Char) /\ IsResult(blocks) /\ scenario \in Scenarios
      /\ x \in 0..Len(s) /\ x < Len(s)
  BY PositionsAreAt DEF IInv, Columns, DeleteCharacter
<1>2. blocks' = Write(blocks, p, t)
  BY DEF DeleteCharacter
<1>3. /\ \A b : LineAt(b, p) = b[p[1]].lines[p[2]]
      /\ s = GetString(rows, LineAt(blocks, p))
  BY DEF LineAt, String
<1> HIDE DEF s
<1>4. u \in Seq(Char) /\ v \in Seq(Char) /\ c \in Char /\ s = (u \o <<c>>) \o v
  BY <1>1, CutString
<1>5. PICK a, z \in Seq(Char) : InContext(blocks, p, a, z)
  BY <1>1, PositionInContext
<1> HIDE DEF u, v, c
<1>6. t \in Seq(Char)
  BY <1>4, ConcatProperties
<1> HIDE DEF t
<1>7. /\ Characters(blocks) = (a \o ((u \o <<c>>) \o v)) \o z
      /\ Characters(blocks') = (a \o t) \o z
  BY <1>2, <1>3, <1>4, <1>5, <1>6 DEF InContext
<1>8. OneMore((a \o ((u \o <<c>>) \o v)) \o z, (a \o (u \o v)) \o z)
  BY <1>4, <1>5, OneInside
<1> QED BY <1>7, <1>8 DEF t

LEMMA LineIsWritten ==
    ASSUME scenario \in Scenarios, NEW bs, IsResult(bs), NEW p, At(bs, p), NEW t \in Seq(Char)
    PROVE  ~LineAt(Write(bs, p, t), p).removed
<1> DEFINE l == SetString(LineAt(bs, p), t)
           r == Put(bs, p, l)
<1>1. LineAt(bs, p) \in EditLine(Char)
  BY LinesOf DEF At, LineAt
<1>2. Written(l) /\ ~l.removed
  <2>1. Written(l)
    BY <1>1, WrittenLine
  <2>2. ~l.removed
    BY <1>1 DEF SetString, EditLine
  <2> QED BY <2>1, <2>2
<1>3. Write(bs, p, t) = r
  BY DEF Write
<1> HIDE DEF l
<1>4. r[p[1]].lines[p[2]] = l
  <2>1. p[1] \in 1..Len(bs) /\ p[2] \in 1..Len(bs[p[1]].lines)
    BY DEF At
  <2>2. \A j \in 1..Len(bs) : \A i \in 1..Len(bs[j].lines) :
           r[j].lines[i] = IF j = p[1] /\ i = p[2] THEN l ELSE bs[j].lines[i]
    BY <1>2, PutIsResult
  <2> QED BY <2>1, <2>2
<1> QED BY <1>2, <1>3, <1>4 DEF LineAt

LEMMA ReturnKeepsAll ==
    ASSUME IInv, NEW p \in Positions, NEW x \in Columns(p), Return(p, x)
    PROVE  Characters(blocks') = Characters(blocks)
<1> DEFINE s == String(p)
           u == Left(s, x)
           v == Mid(s, x)
           cut == IF x < Len(s) THEN Write(blocks, p, u) ELSE blocks
           l == LineAt(blocks, p)
<1>1. /\ At(blocks, p) /\ s \in Seq(Char) /\ IsResult(blocks) /\ scenario \in Scenarios
      /\ x \in 0..Len(s)
  BY PositionsAreAt DEF IInv, Columns
<1>2. blocks' = IF LineAt(cut, p).removed THEN Write(cut, p, v) ELSE Insert(cut, p, v)
  BY DEF Return
<1>3. l \in EditLine(Char) /\ s = GetString(rows, l)
  BY <1>1, LinesOf DEF At, LineAt, String
<1>4. PICK a, z \in Seq(Char) : InContext(blocks, p, a, z)
  BY <1>1, PositionInContext
<1>5. Characters(blocks) = (a \o s) \o z
  BY <1>3, <1>4 DEF InContext
<1>6. /\ \A t \in Seq(Char) : Characters(Write(blocks, p, t)) = (a \o t) \o z
      /\ \A t, w \in Seq(Char) : Characters(Insert(Write(blocks, p, t), p, w)) = (a \o (t \o w)) \o z
      /\ \A w \in Seq(Char) : Characters(Insert(blocks, p, w)) = (a \o (s \o w)) \o z
  BY <1>3, <1>4 DEF InContext
<1> HIDE DEF s
<1>7. /\ u \in Seq(Char) /\ v \in Seq(Char) /\ s = u \o v
      /\ x = Len(s) => v = <<>>
  BY <1>1, CutString
<1>8. Len(s) \in Nat /\ (x < Len(s) \/ x = Len(s))
  BY <1>1, LenProperties
<1> HIDE DEF u, v
<1>9. CASE x < Len(s)
  <2>1. cut = Write(blocks, p, u)
    BY <1>9
  <2>2. ~LineAt(Write(blocks, p, u), p).removed
    BY <1>1, <1>7, LineIsWritten
  <2> HIDE DEF cut
  <2>3. blocks' = Insert(Write(blocks, p, u), p, v)
    BY <1>2, <2>1, <2>2
  <2> QED BY <1>5, <1>6, <1>7, <2>3
<1>10. CASE x = Len(s)
  <2>1. cut = blocks /\ v = <<>>
    BY <1>7, <1>8, <1>10
  <2>2. l = LineAt(blocks, p)
    OBVIOUS
  <2> HIDE DEF cut, l
  <2>3. s \o v = s /\ v \in Seq(Char)
    BY <1>1, <1>7, <2>1, ConcatEmptySeq
  <2>4. CASE l.removed
    <3>1. s = v
      BY <1>3, <2>1, <2>4 DEF GetString, EditLine
    <3>2. blocks' = Write(blocks, p, v)
      BY <1>2, <2>1, <2>2, <2>4
    <3> QED BY <1>5, <1>6, <2>3, <3>1, <3>2
  <2>5. CASE ~l.removed
    <3>1. blocks' = Insert(blocks, p, v)
      BY <1>2, <2>1, <2>2, <2>5
    <3> QED BY <1>5, <1>6, <2>3, <3>1
  <2> QED BY <2>4, <2>5
<1> QED BY <1>8, <1>9, <1>10

LEMMA SplitKeepsAll ==
    ASSUME IInv, NEW f \in Numbers, NEW l \in f..Len(rows), SlotSplitDiff(f, l)
    PROVE  Characters(blocks') = Characters(blocks)
<1> DEFINE n == Len(rows)
           once == SplitAt(blocks, l + 1)
           twice == SplitAt(once, f)
           H == OfBlocks(Strings(rows, Char), Char)
<1>1. /\ n \in Nat /\ Numbers = 1..n /\ scenario \in Scenarios /\ RowList(rows, three, Char)
      /\ FairList(rows, three, Char, blocks, n) /\ NoEmptyList(rows, blocks)
  BY ScenarioWell DEF IInv, IsResult, Result, Numbers
<1>2. f \in 1..n /\ l \in f..n /\ l + 1 \in 1..n + 1 /\ f \in 1..n + 1
  BY <1>1
<1> HIDE DEF n
<1>3. FairList(rows, three, Char, once, n) /\ NoEmptyList(rows, once)
  BY <1>1, <1>2, SplitAtFair
<1>4. Gathered(H, once) = Gathered(H, blocks)
  <2>1. /\ RowList(rows, three, Char) /\ n \in Nat /\ FairList(rows, three, Char, blocks, n)
        /\ l + 1 \in 1..n + 1
    BY <1>1, <1>2
  <2> QED BY ONLY <2>1, SplitAtText
<1> HIDE DEF once
<1>5. FairList(rows, three, Char, twice, n) /\ NoEmptyList(rows, twice)
  BY <1>1, <1>2, <1>3, SplitAtFair
<1>6. Gathered(H, twice) = Gathered(H, once)
  <2>1. /\ RowList(rows, three, Char) /\ n \in Nat /\ FairList(rows, three, Char, once, n)
        /\ f \in 1..n + 1
    BY <1>1, <1>2, <1>3
  <2> QED BY ONLY <2>1, SplitAtText
<1>7. blocks' = twice
  BY DEF SlotSplitDiff, once
<1> HIDE DEF twice, H
<1>8. blocks \in Seq(Block(Char)) /\ twice \in Seq(Block(Char))
  BY <1>1, <1>5 DEF FairList
<1>9. Characters(blocks) = Gathered(H, blocks) /\ Characters(twice) = Gathered(H, twice)
  BY <1>1, <1>8, CharactersAre DEF H
<1> QED BY <1>4, <1>6, <1>7, <1>9

\* Lists of blocks that show the same block by block.
LEMMA SameCharacters ==
    ASSUME scenario \in Scenarios, NEW bs \in Seq(Block(Char)), NEW r \in Seq(Block(Char)),
           Len(r) = Len(bs),
           LET H == OfBlocks(Strings(rows, Char), Char) IN \A x \in 1..Len(bs) : H[r[x]] = H[bs[x]]
    PROVE  Characters(r) = Characters(bs)
<1> DEFINE H == OfBlocks(Strings(rows, Char), Char)
<1>1. DOMAIN r = DOMAIN bs /\ DOMAIN bs = 1..Len(bs)
  BY LenProperties
<1>2. \A x \in 1..Len(bs) : H[r[x]] = H[bs[x]]
  OBVIOUS
<1> HIDE DEF H
<1>3. [x \in DOMAIN r |-> H[r[x]]] = [x \in DOMAIN bs |-> H[bs[x]]]
  BY <1>1, <1>2
<1>4. Gathered(H, r) = Gathered(H, bs)
  BY <1>3 DEF Gathered
<1>5. Characters(r) = Gathered(H, r) /\ Characters(bs) = Gathered(H, bs)
  BY CharactersAre DEF H
<1> QED BY <1>4, <1>5

\* r is bs with the line l at p, seen from its block.
HasPut(r, bs, p, l) ==
    /\ r \in Seq(Block(Char)) /\ Len(r) = Len(bs)
    /\ \A x \in 1..Len(bs) : x # p[1] => r[x] = bs[x]
    /\ bs[p[1]].lines \in Seq(EditLine(Char)) /\ r[p[1]].lines \in Seq(EditLine(Char))
    /\ Len(r[p[1]].lines) = Len(bs[p[1]].lines)
    /\ r[p[1]].lines[p[2]] = l
    /\ \A x \in 1..Len(bs[p[1]].lines) : x # p[2] => r[p[1]].lines[x] = bs[p[1]].lines[x]

LEMMA PutInBlock ==
    ASSUME NEW bs, bs \in Seq(Block(Char)), NEW p, At(bs, p), NEW l \in EditLine(Char)
    PROVE  HasPut(Put(bs, p, l), bs, p, l)
<1> DEFINE B == Block(Char)
           L == EditLine(Char)
           j == p[1]
           i == p[2]
           ls == bs[j].lines
           new == [ls EXCEPT ![i] = l]
           e == [bs[j] EXCEPT !.lines = new]
           r == [bs EXCEPT ![j] = e]
<1>1. /\ j \in 1..Len(bs) /\ DOMAIN bs = 1..Len(bs) /\ bs[j] \in B
      /\ i \in 1..Len(ls)
  BY LenProperties, ElementOfSeq DEF At
<1>2. ls \in Seq(L)
  BY <1>1 DEF Block
<1>3. Put(bs, p, l) = r
  BY <1>1 DEF Put, Block
<1>4. /\ new \in Seq(L) /\ Len(new) = Len(ls) /\ new[i] = l
      /\ \A x \in 1..Len(ls) : x # i => new[x] = ls[x]
  <2> HIDE DEF ls, i
  <2> QED BY <1>1, <1>2, ExceptSeq
<1> HIDE DEF new
<1>5. e \in B /\ e.lines = new
  BY <1>1, <1>4 DEF Block
<1> HIDE DEF e
<1>6. r \in Seq(B) /\ Len(r) = Len(bs) /\ r[j] = e /\ \A x \in 1..Len(bs) : x # j => r[x] = bs[x]
  <2> HIDE DEF B, j
  <2> QED BY <1>1, <1>5, ExceptSeq DEF B
<1> HIDE DEF r
<1> QED BY <1>2, <1>3, <1>4, <1>5, <1>6 DEF HasPut

\* A line that goes, seen from its block.
LEMMA RemovedInBlock ==
    ASSUME NEW bs, bs \in Seq(Block(Char)), NEW p, At(bs, p), Len(bs[p[1]].lines) > 1
    PROVE  LET r == Erase(bs, p)
           IN /\ DOMAIN r = DOMAIN bs
              /\ \A x \in 1..Len(bs) : x # p[1] => r[x] = bs[x]
              /\ r[p[1]].lines = RemoveAt(bs[p[1]].lines, p[2])
<1> DEFINE j == p[1]
           ls == bs[j].lines
           new == RemoveAt(ls, p[2])
           e == [bs[j] EXCEPT !.lines = new]
           r == [bs EXCEPT ![j] = e]
<1>1. j \in 1..Len(bs) /\ DOMAIN bs = 1..Len(bs) /\ bs[j] \in Block(Char)
  BY LenProperties, ElementOfSeq DEF At
<1>2. Erase(bs, p) = r
  BY <1>1 DEF Erase, Block
<1> HIDE DEF new
<1>3. e.lines = new
  BY <1>1 DEF Block
<1> HIDE DEF e
<1>4. DOMAIN r = DOMAIN bs /\ r[j] = e /\ \A x \in 1..Len(bs) : x # j => r[x] = bs[x]
  BY <1>1
<1> QED BY <1>2, <1>3, <1>4 DEF new

\* A line that follows another in a later block is its first, the other one is
\* the last of its own, and the blocks between them have none.
LEMMA FollowingBlocks ==
    ASSUME IInv, NEW p \in Positions, NEW q \in Positions, Following(p, q), p[1] # q[1]
    PROVE  /\ p[1] < q[1] /\ q[2] = 1 /\ p[2] = Len(blocks[p[1]].lines)
           /\ \A x \in p[1] + 1..q[1] - 1 : blocks[x].lines = <<>>
<1>1. /\ Len(blocks) \in Nat
      /\ \A j \in 1..Len(blocks) : /\ blocks[j].lines \in Seq(EditLine(Char))
                                   /\ Len(blocks[j].lines) \in Nat
  <2>1. IsResult(blocks)
    BY DEF IInv
  <2>2. /\ Len(blocks) \in Nat
        /\ \A j \in 1..Len(blocks) : blocks[j] \in Block(Char) /\ Len(blocks[j].lines) \in Nat
    BY <2>1, LinesOf
  <2> QED BY <2>2 DEF Block
<1>2. \A j \in 1..Len(blocks) : \A i \in 1..Len(blocks[j].lines) : <<j, i>> \in Positions
  BY LinesArePositions
<1>3. /\ p[1] \in 1..Len(blocks) /\ p[2] \in 1..Len(blocks[p[1]].lines)
      /\ q[1] \in 1..Len(blocks) /\ q[2] \in 1..Len(blocks[q[1]].lines)
  BY PositionsAreAt DEF At
<1>4. Before(p, q) /\ ~\E r \in Positions : Before(p, r) /\ Before(r, q)
  BY DEF Following
<1>5. p[1] < q[1]
  BY <1>4 DEF Before
<1>6. q[2] = 1
  BY FollowingWell
<1>7. p[2] = Len(blocks[p[1]].lines)
  <2> DEFINE n == Len(blocks[p[1]].lines)
             r == <<p[1], n>>
  <2>1. n \in Nat /\ n \in 1..n /\ p[2] \in 1..n
    BY <1>1, <1>3
  <2>2. r \in Positions /\ r[1] = p[1] /\ r[2] = n
    BY <1>2, <1>3, <2>1
  <2> HIDE DEF n, r
  <2>3. p[2] < n => Before(p, r) /\ Before(r, q)
    BY <1>5, <2>2 DEF Before
  <2> QED BY <1>4, <2>1, <2>2, <2>3 DEF n
<1>8. ASSUME NEW x \in p[1] + 1..q[1] - 1 PROVE blocks[x].lines = <<>>
  <2> DEFINE r == <<x, 1>>
  <2>1. x \in 1..Len(blocks) /\ p[1] < x /\ x < q[1]
    BY <1>1, <1>3, SMTT(30)
  <2>2. Len(blocks[x].lines) \in Nat /\ blocks[x].lines \in Seq(EditLine(Char))
    BY <1>1, <2>1
  <2>3. Len(blocks[x].lines) # 0 => r \in Positions
    BY <1>2, <2>1, <2>2
  <2>4. Before(p, r) /\ Before(r, q)
    BY <2>1 DEF Before
  <2>5. Len(blocks[x].lines) = 0
    BY <1>4, <2>3, <2>4
  <2> QED BY <2>2, <2>5, EmptySeq
<1> QED BY <1>5, <1>6, <1>7, <1>8

\* Joining two lines of one block.
LEMMA JoinInBlock ==
    ASSUME IInv, NEW p \in Positions, NEW q \in Positions, JoinLines(p, q), p[1] = q[1]
    PROVE  Characters(blocks') = Characters(blocks)
<1> DEFINE L == EditLine(Char)
           G == Strings(rows, Char)
           H == OfBlocks(G, Char)
           j == p[1]
           i == p[2]
           ls == blocks[j].lines
           l == SetString(ls[i], String(p) \o String(q))
           w == Put(blocks, p, l)
           ms == w[j].lines
           r == Erase(w, q)
<1>1. /\ At(blocks, p) /\ At(blocks, q) /\ IsResult(blocks) /\ scenario \in Scenarios
      /\ String(p) \in Seq(Char) /\ String(q) \in Seq(Char)
      /\ i \in Nat /\ q[2] \in Nat /\ j \in Nat
  BY PositionsAreAt DEF IInv
<1>2. q[2] = i + 1
  <2>1. Before(p, q) /\ Following(p, q)
    BY DEF JoinLines, Following
  <2>2. i < q[2]
    BY <1>1, <2>1 DEF Before
  <2>3. q[2] = 1 \/ q[2] = i + 1
    BY <2>1, FollowingWell
  <2>4. i \in 1..Len(ls)
    BY <1>1 DEF At
  <2> QED BY <1>1, <2>2, <2>3, <2>4
<1>3. /\ i \in 1..Len(ls) /\ i + 1 \in 1..Len(ls) /\ Len(ls) \in Nat /\ j \in 1..Len(blocks)
      /\ ls[i] \in L /\ ls[i + 1] \in L
  BY <1>1, <1>2, LinesOf DEF At
<1>4. G \in [L -> Seq(Char)]
  BY <1>1, ScenarioWell, StringTypes
<1>5. G[ls[i]] = String(p) /\ G[ls[i + 1]] = String(q)
  BY <1>2, <1>3 DEF Strings, String, LineAt
<1>6. l \in L /\ G[l] = G[ls[i]] \o G[ls[i + 1]]
  <2> DEFINE t == String(p) \o String(q)
  <2>1. t \in Seq(Char)
    BY <1>1, ConcatProperties
  <2>2. SetString(ls[i], t) \in EditLine(Char) /\ GetString(rows, SetString(ls[i], t)) = t
    BY <1>3, <2>1, StringOfWritten
  <2>3. G[l] = t
    BY <2>2 DEF Strings
  <2> QED BY <1>5, <2>2, <2>3
<1>7. blocks' = r
  BY DEF JoinLines, Write, LineAt
<1>8. blocks \in Seq(Block(Char)) /\ r \in Seq(Block(Char))
  <2>1. IsResult(blocks')
    BY JoinLinesIsResult
  <2>2. blocks' \in Seq(Block(Char))
    BY <2>1, LinesOf
  <2> QED BY <1>1, <1>7, <2>2, LinesOf
<1> HIDE DEF l
<1>9. /\ w \in Seq(Block(Char)) /\ Len(w) = Len(blocks)
      /\ \A x \in 1..Len(blocks) : x # j => w[x] = blocks[x]
      /\ ls \in Seq(L) /\ ms \in Seq(L) /\ Len(ms) = Len(ls)
      /\ ms[i] = l
      /\ \A x \in 1..Len(ls) : x # i => ms[x] = ls[x]
  <2>1. blocks \in Seq(Block(Char)) /\ At(blocks, p) /\ l \in EditLine(Char)
    BY <1>1, <1>6, <1>8
  <2>2. HasPut(w, blocks, p, l)
    BY ONLY <2>1, PutInBlock DEF w
  <2> QED BY ONLY <2>2 DEF HasPut
<1> HIDE DEF w
<1>10. /\ DOMAIN r = DOMAIN w
       /\ \A x \in 1..Len(w) : x # j => r[x] = w[x]
       /\ r[j].lines = RemoveAt(ms, i + 1)
  <2>1. At(w, q) /\ Len(w[q[1]].lines) > 1
    BY <1>2, <1>3, <1>9 DEF At
  <2> QED BY <1>2, <1>9, <2>1, RemovedInBlock
<1> HIDE DEF r
<1>11. Gathered(G, RemoveAt(ms, i + 1)) = Gathered(G, ls)
  <2>1. i \in 1..Len(ls) - 1
    BY <1>3
  <2>2. G[ms[i]] = G[ls[i]] \o G[ls[i + 1]]
    BY ONLY <1>6, <1>9
  <2>3. G \in [L -> Seq(Char)] /\ ls \in Seq(L) /\ ms \in Seq(L) /\ Len(ms) = Len(ls)
    BY ONLY <1>4, <1>9
  <2>4. \A x \in 1..Len(ls) : x # i => ms[x] = ls[x]
    BY ONLY <1>9
  <2> HIDE DEF G, L, ls, ms, i
  <2> QED BY ONLY <2>1, <2>2, <2>3, <2>4, OneJoined, ZenonT(30)
<1>12. Len(r) = Len(blocks)
  BY <1>8, <1>9, <1>10, LenProperties
<1>13. \A x \in 1..Len(blocks) : r[x] \in Block(Char) /\ blocks[x] \in Block(Char)
  BY <1>8, <1>12, ElementOfSeq
<1> HIDE DEF G
<1>14. \A b \in Block(Char) : H[b] = Gathered(G, b.lines)
  BY DEF OfBlocks
<1> HIDE DEF H, ms
<1>15. \A x \in 1..Len(blocks) : H[r[x]] = H[blocks[x]]
  BY <1>9, <1>10, <1>11, <1>13, <1>14
<1>16. Characters(r) = Characters(blocks)
  BY <1>1, <1>8, <1>12, <1>15, SameCharacters DEF H, G
<1> QED BY <1>7, <1>16

\* Joining the last line of a block and the first one of a later block.
LEMMA JoinTwoBlocks ==
    ASSUME IInv, NEW p \in Positions, NEW q \in Positions, JoinLines(p, q), p[1] # q[1]
    PROVE  Characters(blocks') = Characters(blocks)
<1> DEFINE L == EditLine(Char)
           G == Strings(rows, Char)
           H == OfBlocks(G, Char)
           j == p[1]
           k == q[1]
           i == p[2]
           ls == blocks[j].lines
           ms == blocks[k].lines
           s == String(p)
           t == String(q)
           l == SetString(ls[i], s \o t)
           w == Put(blocks, p, l)
           r == Erase(w, q)
<1>1. /\ At(blocks, p) /\ At(blocks, q) /\ IsResult(blocks) /\ scenario \in Scenarios
      /\ s \in Seq(Char) /\ t \in Seq(Char)
  BY PositionsAreAt DEF IInv
<1>2. /\ j < k /\ q[2] = 1 /\ i = Len(ls)
      /\ \A x \in j + 1..k - 1 : blocks[x].lines = <<>>
  <2>1. Following(p, q)
    BY DEF JoinLines
  <2> QED BY <2>1, FollowingBlocks
<1>3. /\ j \in 1..Len(blocks) /\ k \in 1..Len(blocks) /\ i \in 1..Len(ls) /\ 1 \in 1..Len(ms)
      /\ Len(ls) \in Nat /\ Len(ms) \in Nat /\ Len(blocks) \in Nat
      /\ ls[i] \in L /\ ms[1] \in L
  <2>1. \A x \in 1..Len(blocks) :
           /\ Len(blocks[x].lines) \in Nat
           /\ \A y \in 1..Len(blocks[x].lines) : blocks[x].lines[y] \in L
    BY <1>1, LinesOf
  <2>2. Len(blocks) \in Nat
    BY <1>1, LinesOf
  <2> QED BY <1>1, <1>2, <2>1, <2>2 DEF At
<1>4. G \in [L -> Seq(Char)] /\ H \in [Block(Char) -> Seq(Char)]
  BY <1>1, ScenarioWell, StringTypes
<1>5. G[ls[i]] = s /\ G[ms[1]] = t
  BY <1>2, <1>3 DEF Strings, String, LineAt
<1>6. blocks' = r
  BY DEF JoinLines, Write, LineAt
<1>7. blocks \in Seq(Block(Char)) /\ r \in Seq(Block(Char))
  <2>1. IsResult(blocks')
    BY JoinLinesIsResult
  <2>2. blocks' \in Seq(Block(Char))
    BY <2>1, LinesOf
  <2> QED BY <1>1, <1>6, <2>2, LinesOf
<1> HIDE DEF s, t
<1>8. l \in L /\ G[l] = s \o t
  <2>1. s \o t \in Seq(Char)
    BY <1>1, ConcatProperties
  <2>2. SetString(ls[i], s \o t) \in EditLine(Char) /\ GetString(rows, SetString(ls[i], s \o t)) = s \o t
    BY <1>3, <2>1, StringOfWritten
  <2> QED BY <2>2 DEF Strings
<1> HIDE DEF l
<1>9. /\ w \in Seq(Block(Char)) /\ Len(w) = Len(blocks)
      /\ \A x \in 1..Len(blocks) : x # j => w[x] = blocks[x]
      /\ ls \in Seq(L) /\ w[j].lines \in Seq(L) /\ Len(w[j].lines) = Len(ls)
      /\ w[j].lines[i] = l
      /\ \A x \in 1..Len(ls) : x # i => w[j].lines[x] = ls[x]
  <2>1. blocks \in Seq(Block(Char)) /\ At(blocks, p) /\ l \in EditLine(Char)
    BY <1>1, <1>7, <1>8
  <2>2. HasPut(w, blocks, p, l)
    BY ONLY <2>1, PutInBlock DEF w
  <2> QED BY ONLY <2>2 DEF HasPut
<1> HIDE DEF w
<1>10. w[k] = blocks[k] /\ At(w, q) /\ ms \in Seq(L)
  <2>1. w[k] = blocks[k]
    BY <1>2, <1>3, <1>9
  <2>2. blocks[k] \in Block(Char)
    BY <1>3, <1>7, ElementOfSeq
  <2> QED BY <1>2, <1>3, <1>9, <2>1, <2>2 DEF At, Block
\* What is left of the later block.
<1>11. PICK z \in Seq(Char) :
          /\ Gathered(G, ms) = G[ms[1]] \o z
          /\ Gathered(G, RemoveAt(ms, 1)) = z
          /\ \A v \in Seq(L) : SameBut(v, ms, {1}) => Gathered(G, v) = G[v[1]] \o z
  <2>1. ms # <<>>
    BY <1>3
  <2> HIDE DEF G, L, ms
  <2>2. G \in [L -> Seq(Char)] /\ ms \in Seq(L) /\ ms # <<>>
    BY <1>4, <1>10, <2>1
  <2>3. BehindFirst(G, L, Char, ms)
    BY ONLY <2>2, FirstLeft
  <2> QED BY <2>3 DEF BehindFirst
<1>12. /\ DOMAIN r = DOMAIN w /\ \A x \in 1..Len(w) : x # k => r[x] = w[x]
       /\ Gathered(G, r[k].lines) = z
  <2>1. CASE Len(ms) > 1
    <3>1. /\ DOMAIN r = DOMAIN w /\ \A x \in 1..Len(w) : x # k => r[x] = w[x]
          /\ r[k].lines = RemoveAt(w[k].lines, q[2])
      BY <1>9, <1>10, <2>1, RemovedInBlock
    <3> HIDE DEF r
    <3> QED BY <1>2, <1>10, <1>11, <3>1
  <2>2. CASE ~(Len(ms) > 1)
    <3> DEFINE e == SetRemoved(ms[1])
               v == Put(w, q, e)
    <3>1. r = v
      BY <1>2, <1>10, <2>2 DEF Erase, LineAt
    <3>2. e \in L /\ G[e] = <<>>
      <4>1. <<>> \in Seq(Char)
        BY EmptySeq
      <4>2. SetRemoved(ms[1]) \in EditLine(Char) /\ GetString(rows, SetRemoved(ms[1])) = <<>>
        BY <1>3, <4>1, StringOfWritten
      <4> QED BY <4>2 DEF Strings
    <3> HIDE DEF e
    <3>3. /\ v \in Seq(Block(Char)) /\ Len(v) = Len(w)
          /\ \A x \in 1..Len(w) : x # k => v[x] = w[x]
          /\ v[k].lines \in Seq(L) /\ Len(v[k].lines) = Len(ms)
          /\ v[k].lines[1] = e
          /\ \A x \in 1..Len(ms) : x # 1 => v[k].lines[x] = ms[x]
      <4>1. w \in Seq(Block(Char)) /\ At(w, q) /\ e \in EditLine(Char)
        BY <1>9, <1>10, <3>2
      <4>2. HasPut(v, w, q, e)
        BY ONLY <4>1, PutInBlock
      <4> HIDE DEF v
      <4> QED BY ONLY <1>2, <1>10, <4>2 DEF HasPut
    <3> HIDE DEF v
    <3>4. Gathered(G, v[k].lines) = <<>> \o z
      <4>1. SameBut(v[k].lines, ms, {1})
        BY <3>3 DEF SameBut
      <4> QED BY <1>11, <3>2, <3>3, <4>1
    <3>5. <<>> \o z = z
      BY <1>11, ConcatEmptySeq
    <3>6. DOMAIN v = DOMAIN w
      BY <1>9, <3>3, LenProperties
    <3> QED BY <3>1, <3>3, <3>4, <3>5, <3>6
  <2> QED BY <2>1, <2>2
<1> HIDE DEF r
<1>13. Len(r) = Len(blocks)
  BY <1>7, <1>9, <1>12, LenProperties
<1>14. r[j] = w[j] /\ \A x \in 1..Len(blocks) : x \notin {j, k} => r[x] = blocks[x]
  BY <1>2, <1>3, <1>9, <1>12
\* What is in front of the line of the earlier block.
<1>15. PICK a \in Seq(Char) :
          Gathered(G, ls) = a \o G[ls[i]] /\ Gathered(G, w[j].lines) = a \o G[l]
  <2> DEFINE v == w[j].lines
  <2>1. ls # <<>> /\ v \in Seq(L) /\ SameBut(v, ls, {Len(ls)})
    BY <1>2, <1>3, <1>9 DEF SameBut
  <2>2. v[Len(ls)] = l /\ ls[Len(ls)] = ls[i]
    BY <1>2, <1>9
  <2> HIDE DEF G, L, ls, v
  <2>3. G \in [L -> Seq(Char)] /\ ls \in Seq(L) /\ ls # <<>> /\ v \in Seq(L) /\ SameBut(v, ls, {Len(ls)})
    BY <1>4, <1>9, <2>1
  <2>4. InFrontOfLast(G, Char, ls, v)
    BY ONLY <2>3, LastReplaced
  <2> QED BY <2>2, <2>4 DEF InFrontOfLast, v
<1>16. \A x \in 1..Len(blocks) : r[x] \in Block(Char) /\ blocks[x] \in Block(Char)
  BY <1>7, <1>13, ElementOfSeq
<1> HIDE DEF G
<1>17. \A b \in Block(Char) : H[b] = Gathered(G, b.lines)
  BY DEF OfBlocks
<1> HIDE DEF H
<1>18. H[r[j]] \o H[r[k]] = H[blocks[j]] \o H[blocks[k]]
  <2>1. H[r[j]] = a \o (s \o t) /\ H[r[k]] = z
    BY <1>3, <1>8, <1>12, <1>14, <1>15, <1>16, <1>17
  <2>2. H[blocks[j]] = a \o s /\ H[blocks[k]] = t \o z
    BY <1>3, <1>5, <1>11, <1>15, <1>16, <1>17
  <2>3. (a \o (s \o t)) \o z = (a \o s) \o (t \o z)
    <3>1. \A b, c, d \in Seq(Char) : (b \o c) \o d = b \o (c \o d)
      BY ONLY ConcatAssociative, SMTT(30)
    <3>2. a \o s \in Seq(Char)
      BY <1>1, <1>15, ConcatProperties
    <3>3. a \o (s \o t) = (a \o s) \o t
      BY <1>1, <1>15, <3>1
    <3>4. ((a \o s) \o t) \o z = (a \o s) \o (t \o z)
      <4> DEFINE b == a \o s
      <4> HIDE DEF b
      <4>1. b \in Seq(Char)
        BY <3>2 DEF b
      <4>2. (b \o t) \o z = b \o (t \o z)
        BY <1>1, <1>11, <3>1, <4>1
      <4> QED BY <4>2 DEF b
    <3> QED BY <3>3, <3>4
  <2> QED BY <2>1, <2>2, <2>3
<1>19. \A x \in j + 1..k - 1 : H[blocks[x]] = <<>>
  <2>1. ASSUME NEW x \in j + 1..k - 1 PROVE H[blocks[x]] = <<>>
    <3>1. x \in 1..Len(blocks) /\ blocks[x].lines = <<>>
      BY <1>2, <1>3, SMTT(30)
    <3>2. H[blocks[x]] = Gathered(G, <<>>)
      BY <1>16, <1>17, <3>1
    <3> QED BY <3>2, GatheredNone
  <2> QED BY <2>1
<1>20. Gathered(H, r) = Gathered(H, blocks)
  <2> DEFINE B == Block(Char)
  <2>1. blocks \in Seq(B) /\ r \in Seq(B)
    BY <1>7
  <2>2. j \in 1..Len(blocks) /\ k \in j + 1..Len(blocks)
    BY <1>2, <1>3
  <2>3. H \in [B -> Seq(Char)]
    BY <1>4
  <2> HIDE DEF B, j, k
  <2>4. Moves(H, B, Char, blocks, r, j, k)
    BY <1>13, <1>14, <1>18, <1>19, <2>1, <2>2, <2>3 DEF Moves, SameBut
  <2> QED BY ONLY <2>4, MovedBack
<1>21. Characters(r) = Gathered(H, r) /\ Characters(blocks) = Gathered(H, blocks)
  BY <1>1, <1>7, CharactersAre DEF H, G
<1> QED BY <1>6, <1>20, <1>21

LEMMA KeysKeepTheRest ==
    ASSUME IInv, NEW p \in Positions
    PROVE  /\ \A x \in Columns(p) : \A c \in Typed :
                 Type(p, x, c) => OneMore(Characters(blocks'), Characters(blocks))
           /\ \A x \in Columns(p) : \A c \in Typed : \A clip \in {<<<<c>>>>, <<<<c>>, <<>>>>} :
                 Paste(p, x, clip) => OneMore(Characters(blocks'), Characters(blocks))
           /\ \A x \in Columns(p) :
                 /\ DeleteCharacter(p, x) => OneMore(Characters(blocks), Characters(blocks'))
                 /\ Return(p, x) => Characters(blocks') = Characters(blocks)
           /\ \A q \in Positions : JoinLines(p, q) => Characters(blocks') = Characters(blocks)
<1>1. \A c \in Typed : c \in Char
  BY ScenarioAssumption
<1>2. ASSUME NEW x \in Columns(p), NEW c \in Typed, Type(p, x, c)
      PROVE  OneMore(Characters(blocks'), Characters(blocks))
  BY <1>1, <1>2, TypeAddsOne
<1>3. ASSUME NEW x \in Columns(p), NEW c \in Typed, NEW clip \in {<<<<c>>>>, <<<<c>>, <<>>>>},
             Paste(p, x, clip)
      PROVE  OneMore(Characters(blocks'), Characters(blocks))
  BY <1>1, <1>3, PasteAddsOne
<1>4. ASSUME NEW x \in Columns(p), DeleteCharacter(p, x)
      PROVE  OneMore(Characters(blocks), Characters(blocks'))
  BY <1>4, DeleteTakesOne
<1>5. ASSUME NEW x \in Columns(p), Return(p, x)
      PROVE  Characters(blocks') = Characters(blocks)
  BY <1>5, ReturnKeepsAll
<1>6. ASSUME NEW q \in Positions, JoinLines(p, q)
      PROVE  Characters(blocks') = Characters(blocks)
  BY <1>6, JoinInBlock, JoinTwoBlocks
<1> QED BY <1>2, <1>3, <1>4, <1>5, <1>6

\* A key of the editor adds or takes the one character it is for, and breaking
\* a line, joining two (also those of two blocks) and splitting a block keep all
\* of them.
THEOREM TheRestStays == Spec => EditingKeepsTheRest
<1> DEFINE RestIsKept ==
               LET old == Characters(blocks)
                   new == Characters(blocks')
               IN /\ last' \in {"return", "split"} => new = old
                  /\ last' \in {"type", "paste"} => \E i \in DOMAIN new : RemoveAt(new, i) = old
                  /\ last' = "delete" => new = old \/ \E i \in DOMAIN old : RemoveAt(old, i) = new
           Same == Characters(blocks') = Characters(blocks)
           Added == OneMore(Characters(blocks'), Characters(blocks))
           Taken == OneMore(Characters(blocks), Characters(blocks'))
<1>1. /\ last' \in {"type", "paste"} /\ Added => RestIsKept
      /\ last' = "delete" /\ (Taken \/ Same) => RestIsKept
      /\ last' \in {"return", "split"} /\ Same => RestIsKept
      /\ last' \notin {"return", "split", "type", "paste", "delete"} => RestIsKept
  BY DEF OneMore
<1> HIDE DEF RestIsKept, Same, Added, Taken
<1>2. /\ \A j, s : ChooseCurrent(j, s) => last' = "choose"
      /\ AutoSolve => last' = "autoSolve"
      /\ Unsolve => last' = "unsolve"
      /\ Decline => last' = "declined"
      /\ SlotRegExpAutoMerge => last' = "regExp"
      /\ SaveDocument => last' = "save"
  BY DEF ChooseGlobal, ChooseCurrent, AutoSolve, Unsolve, Decline, SlotRegExpAutoMerge,
         SaveDocument
<1>3. /\ \A s, c, w : ChooseGlobal(s, c, w) =>
            last' \notin {"return", "split", "type", "paste", "delete"}
      /\ \A f, l : SlotJoinDiffs(f, l) => last' = "join"
      /\ \A f, l : SlotSplitDiff(f, l) => last' = "split"
      /\ \A p : RemoveLine(p) => last' = "removeLine"
      /\ \A p, x, c : Type(p, x, c) => last' = "type"
      /\ \A p, x : DeleteCharacter(p, x) => last' = "delete"
      /\ \A p, x : Return(p, x) => last' = "return"
      /\ \A p, q : JoinLines(p, q) => last' = "delete"
      /\ \A p, x, clip : Paste(p, x, clip) => last' = "paste"
  BY DEF ChooseGlobal, SlotJoinDiffs, SlotSplitDiff, RemoveLine, Type, DeleteCharacter, Return,
         JoinLines, Paste
<1>4. \A p, x, q, y : DeleteSelection(p, x, q, y) => last' = "erase"
  BY SMTT(30) DEF DeleteSelection
<1>5. Choosing => RestIsKept
  BY <1>1, <1>2, <1>3 DEF Choosing
<1>6. IInv /\ Regroup => RestIsKept
  <2> SUFFICES ASSUME IInv, NEW f \in Numbers, NEW l \in f..Len(rows),
                      SlotSplitDiff(f, l) \/ SlotJoinDiffs(f, l)
               PROVE  RestIsKept
    BY DEF Regroup
  <2>1. SlotSplitDiff(f, l) => Same
    BY SplitKeepsAll DEF Same
  <2> QED BY <1>1, <1>3, <2>1
<1>7. IInv /\ Keys => RestIsKept
  <2> SUFFICES ASSUME IInv, NEW p \in Positions,
                      \/ \E x \in Columns(p) :
                             \/ DeleteCharacter(p, x) \/ Return(p, x)
                             \/ \E c \in Typed :
                                    \/ Type(p, x, c)
                                    \/ \E clip \in {<<<<c>>>>, <<<<c>>, <<>>>>} : Paste(p, x, clip)
                             \/ \E q \in Positions : \E y \in Columns(q) : DeleteSelection(p, x, q, y)
                      \/ \E q \in Positions : JoinLines(p, q)
                      \/ RemoveLine(p)
               PROVE  RestIsKept
    BY DEF Keys
  <2>1. /\ \A x \in Columns(p) : \A c \in Typed : Type(p, x, c) => Added
        /\ \A x \in Columns(p) : \A c \in Typed : \A clip \in {<<<<c>>>>, <<<<c>>, <<>>>>} :
              Paste(p, x, clip) => Added
        /\ \A x \in Columns(p) : (DeleteCharacter(p, x) => Taken) /\ (Return(p, x) => Same)
        /\ \A q \in Positions : JoinLines(p, q) => Same
    BY KeysKeepTheRest DEF Added, Taken, Same
  <2> QED BY <1>1, <1>3, <1>4, <2>1
<1>8. IInv /\ [Next]_vars => [RestIsKept]_vars
  <2>1. SaveDocument => RestIsKept
    BY <1>1, <1>2
  <2> QED BY <1>5, <1>6, <1>7, <2>1 DEF Next
<1> QED BY <1>8, Invariance, PTL DEF Spec, EditingKeepsTheRest, RestIsKept
=============================================================================
