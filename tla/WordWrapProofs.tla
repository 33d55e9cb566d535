--------------------------- MODULE WordWrapProofs ---------------------------
(* What a window with word wrap shows, and the row at its top, proved for    *)
(* every text and every width.                                               *)
EXTENDS WordWrap, FiniteSetTheorems, ListLemmas

(* The rows of a runnable. *)

LEMMA Multiples ==
    ASSUME NEW k \in Int, NEW j \in Int, NEW n \in Nat, k <= j
    PROVE  k * n \in Int /\ k * n <= j * n /\ (k + 1) * n = k * n + n
<1>1. PICK d \in Nat : j = k + d
  <2>1. j - k \in Nat /\ j = k + (j - k)
    OBVIOUS
  <2> QED BY <2>1
<1>2. (k + d) * n = k * n + d * n
  OBVIOUS
<1>3. d * n >= 0 /\ d * n \in Int /\ k * n \in Int
  OBVIOUS
<1> QED BY <1>1, <1>2, <1>3

\* The quotient is between its neighbours.
LEMMA Quotient ==
    ASSUME NEW x \in Nat, NEW n \in Nat \ {0}
    PROVE  LET q == x \div n IN q \in Nat /\ q * n <= x /\ x < (q + 1) * n
OBVIOUS

\* Runnable k works on m rows, from the one behind those of the runnables before.
IsRun(k, m) ==
    /\ m \in Nat \ {0} /\ k * s_linesPerRunnable \in Nat
    /\ k * s_linesPerRunnable + m <= Rows
    /\ RowsOfRunnable(k) = k * s_linesPerRunnable..k * s_linesPerRunnable + m - 1
    /\ Cardinality(RowsOfRunnable(k)) = m

LEMMA RunnableWorks ==
    /\ RunnablesOfWindow \in Nat \ {0}
    /\ \A k \in 0..RunnablesOfWindow - 1 : \E m : IsRun(k, m)
<1> DEFINE n == s_linesPerRunnable
           q == RunnablesOfWindow
<1>1. n \in Nat \ {0} /\ Rows \in Nat \ {0}
  BY RowsAssumption
<1>2. q \in Nat /\ q * n <= Rows + n - 1 /\ Rows + n - 1 < (q + 1) * n
  BY <1>1, Quotient DEF RunnablesOfWindow
<1> HIDE DEF n, q
<1>3. q # 0
  BY <1>1, <1>2
<1>4. ASSUME NEW k \in 0..q - 1
      PROVE  \E m : /\ m \in Nat \ {0} /\ k * n \in Nat /\ k * n + m <= Rows
                    /\ (k * n)..(AtMost((k + 1) * n, Rows) - 1) = k * n..k * n + m - 1
  <2>1. k \in Nat /\ k + 1 <= q /\ q \in Int
    BY <1>2
  <2>2. k * n \in Nat
    BY <1>1, <2>1
  <2>3. (k + 1) * n <= q * n /\ (k + 1) * n = k * n + n
    BY <1>1, <2>1, Multiples
  <2>4. k * n < Rows
    BY <1>1, <1>2, <2>2, <2>3
  <2> DEFINE b == AtMost((k + 1) * n, Rows)
             m == b - k * n
  <2>5. b \in Nat /\ k * n < b /\ b <= Rows
    BY <1>1, <2>2, <2>3, <2>4 DEF AtMost
  <2> HIDE DEF b
  <2>6. m \in Nat \ {0} /\ k * n + m = b
    BY <2>2, <2>5
  <2> HIDE DEF m
  <2> QED BY <2>2, <2>5, <2>6 DEF b
<1>5. ASSUME NEW k \in 0..q - 1 PROVE \E m : IsRun(k, m)
  <2>1. PICK m : /\ m \in Nat \ {0} /\ k * n \in Nat /\ k * n + m <= Rows
                 /\ RowsOfRunnable(k) = k * n..k * n + m - 1
    BY <1>4 DEF RowsOfRunnable, n
  <2>2. Cardinality(k * n..k * n + m - 1) = m
    BY <2>1, FS_Interval
  <2> QED BY <2>1, <2>2 DEF IsRun, n
<1> QED BY <1>2, <1>3, <1>5 DEF q

\* Every row has its runnable, and only one.
LEMMA RunnableOfRow ==
    ASSUME NEW row \in Row
    PROVE  \E k \in 0..RunnablesOfWindow - 1 :
               /\ row \in RowsOfRunnable(k)
               /\ \A j \in 0..RunnablesOfWindow - 1 : row \in RowsOfRunnable(j) => j = k
<1> DEFINE n == s_linesPerRunnable
           q == RunnablesOfWindow
           k == row \div n
<1>1. n \in Nat \ {0} /\ Rows \in Nat \ {0} /\ row \in Nat /\ row < Rows
  BY RowsAssumption DEF Row
<1>2. q \in Nat /\ q * n <= Rows + n - 1 /\ Rows + n - 1 < (q + 1) * n
  BY <1>1, Quotient DEF RunnablesOfWindow
<1>3. k \in Nat /\ k * n <= row /\ row < (k + 1) * n
  BY <1>1, Quotient
<1> HIDE DEF n, q, k
<1>4. k <= q - 1
  <2>1. (q + 1) * n = q * n + n /\ q * n \in Int
    BY <1>1, <1>2, Multiples
  <2>2. Rows <= q * n
    BY <1>1, <1>2, <2>1
  <2>3. CASE q <= k
    <3>1. q * n <= k * n
      BY <1>1, <1>2, <1>3, <2>3, Multiples
    <3> QED BY <1>1, <1>2, <1>3, <2>1, <2>2, <3>1
  <2> QED BY <1>2, <1>3, <2>3
<1>5. \A j \in Nat : row \in RowsOfRunnable(j) <=> j * n <= row /\ row < (j + 1) * n
  <2> SUFFICES ASSUME NEW j \in Nat
               PROVE  row \in RowsOfRunnable(j) <=> j * n <= row /\ row < (j + 1) * n
    OBVIOUS
  <2>1. j * n \in Int /\ (j + 1) * n \in Int
    BY <1>1
  <2>2. RowsOfRunnable(j) = (j * n)..(AtMost((j + 1) * n, Rows) - 1)
    BY DEF RowsOfRunnable, n
  <2> DEFINE x == j * n
             y == (j + 1) * n
  <2>3. x \in Int /\ y \in Int /\ RowsOfRunnable(j) = x..(AtMost(y, Rows) - 1)
    BY <2>1, <2>2
  <2> HIDE DEF x, y
  <2>4. row \in RowsOfRunnable(j) <=> x <= row /\ row < y
    BY <1>1, <2>3 DEF AtMost
  <2> QED BY <2>4 DEF x, y
<1>6. ASSUME NEW j \in Nat, j * n <= row /\ row < (j + 1) * n PROVE j = k
  <2>1. CASE j < k
    <3>1. (j + 1) * n <= k * n
      BY <1>1, <1>3, <2>1, Multiples
    <3> QED BY <1>1, <1>3, <1>6, <3>1
  <2>2. CASE k < j
    <3>1. (k + 1) * n <= j * n
      BY <1>1, <1>3, <2>2, Multiples
    <3> QED BY <1>1, <1>3, <1>6, <3>1
  <2> QED BY <1>3, <2>1, <2>2
<1>7. k \in 0..q - 1 /\ \A j \in 0..q - 1 : j \in Nat
  BY <1>2, <1>3, <1>4
<1> QED BY <1>3, <1>5, <1>6, <1>7 DEF q

-----------------------------------------------------------------------------
(* The lines of a row. *)

\* A screen line: a piece of a row.
EntryType == [row : Row, offset : Int, length : Int]
Lines == Seq(EntryType)

\* What a line adds to those of a row.
Picked(row) == [e \in EntryType |-> IF e.row = row THEN <<e>> ELSE <<>>]

LEMMA PickedType == ASSUME NEW row PROVE Picked(row) \in [EntryType -> Lines]
<1>1. <<>> \in Lines /\ \A e \in EntryType : <<e>> \in Lines
  <2> HIDE DEF EntryType
  <2> QED BY EmptySeq DEF Lines
<1> HIDE DEF Lines, EntryType
<1> QED BY <1>1 DEF Picked

\* The function OfRow() is defined by.
IsOfRow(f, s, row) ==
    f = [k \in 0..Len(s) |->
            IF k = 0 THEN <<>> ELSE IF s[k].row = row THEN Append(f[k - 1], s[k]) ELSE f[k - 1]]

LEMMA OfRowByFunction ==
    ASSUME NEW s \in Lines, NEW row
    PROVE  \E f : IsOfRow(f, s, row) /\ OfRow(s, row) = f[Len(s)]
<1> DEFINE n == Len(s)
           G == [p \in Lines \X (1..n) |-> IF s[p[2]].row = row THEN Append(p[1], s[p[2]]) ELSE p[1]]
<1>1. n \in Nat /\ <<>> \in Lines /\ \A k \in 1..n : s[k] \in EntryType
  BY LenProperties, ElementOfSeq, EmptySeq DEF Lines
<1>2. \A x \in Lines, k \in 1..n : /\ G[<<x, k>>] = IF s[k].row = row THEN Append(x, s[k]) ELSE x
                                   /\ G[<<x, k>>] \in Lines
  <2> SUFFICES ASSUME NEW x \in Lines, NEW k \in 1..n
               PROVE  /\ G[<<x, k>>] = IF s[k].row = row THEN Append(x, s[k]) ELSE x
                      /\ G[<<x, k>>] \in Lines
    OBVIOUS
  <2> HIDE DEF n, EntryType
  <2>1. G[<<x, k>>] = IF s[k].row = row THEN Append(x, s[k]) ELSE x
    OBVIOUS
  <2>2. Append(x, s[k]) \in Lines
    BY <1>1, AppendProperties DEF Lines
  <2> HIDE DEF G
  <2> QED BY <2>1, <2>2
<1> HIDE DEF G
<1>3. PICK g : /\ g = [k \in 0..n |-> IF k = 0 THEN <<>> ELSE G[<<g[k - 1], k>>]]
               /\ g \in [0..n -> Lines]
  <2> HIDE DEF n, Lines
  <2> QED BY <1>1, <1>2, RecursionExists
<1>4. IsOfRow(g, s, row)
  <2> DEFINE h(k) == IF k = 0 THEN <<>> ELSE IF s[k].row = row THEN Append(g[k - 1], s[k]) ELSE g[k - 1]
  <2>1. ASSUME NEW k \in 0..n PROVE g[k] = h(k)
    <3>1. CASE k = 0
      BY <1>3, <3>1
    <3>2. CASE k # 0
      <4>1. k \in 1..n /\ k - 1 \in 0..n
        BY <1>1, <3>2
      <4>2. g[k] = G[<<g[k - 1], k>>] /\ g[k - 1] \in Lines
        BY <1>3, <4>1, <3>2
      <4> HIDE DEF n, Lines
      <4> QED BY <1>2, <4>1, <4>2, <3>2
    <3> QED BY <3>1, <3>2
  <2>2. g = [k \in 0..n |-> g[k]]
    BY <1>3
  <2>3. g = [k \in 0..n |-> h(k)]
    <3> HIDE DEF h, n
    <3> QED BY <2>1, <2>2
  <2> QED BY <2>3 DEF IsOfRow
<1> DEFINE F == CHOOSE f : f = [k \in 0..Len(s) |->
                   IF k = 0 THEN <<>> ELSE IF s[k].row = row THEN Append(f[k - 1], s[k]) ELSE f[k - 1]]
<1>5. IsOfRow(F, s, row)
  BY <1>4 DEF IsOfRow
<1>6. OfRow(s, row) = F[Len(s)]
  BY DEF OfRow
<1> HIDE DEF F
<1> QED BY <1>5, <1>6

\* The lines of a row are gathered.
LEMMA OfRowGathered ==
    ASSUME NEW s \in Lines, NEW row
    PROVE  OfRow(s, row) = Gathered(Picked(row), s)
<1> DEFINE n == Len(s)
           G == Picked(row)
           r == [i \in DOMAIN s |-> G[s[i]]]
<1>1. PICK f : IsOfRow(f, s, row) /\ OfRow(s, row) = f[n]
  BY OfRowByFunction
<1>2. n \in Nat /\ \A k \in 1..n : s[k] \in EntryType
  BY LenProperties, ElementOfSeq DEF Lines
<1>3. \A k \in 0..n : f[k] = IF k = 0 THEN <<>>
                             ELSE IF s[k].row = row THEN Append(f[k - 1], s[k]) ELSE f[k - 1]
  BY <1>1 DEF IsOfRow
<1>4. G \in [EntryType -> Lines] /\ \A e \in EntryType : G[e] = IF e.row = row THEN <<e>> ELSE <<>>
  BY PickedType DEF Picked
<1> HIDE DEF G
<1>5. r \in Seq(Lines) /\ Len(r) = n /\ \A i \in 1..n : r[i] = G[s[i]]
  <2>1. DOMAIN s = 1..n
    BY LenProperties DEF Lines
  <2>2. r = [i \in 1..n |-> G[s[i]]]
    BY <2>1
  <2>3. \A i \in 1..n : G[s[i]] \in Lines
    BY <1>2, <1>4
  <2>4. r \in [1..n -> Lines] /\ \A i \in 1..n : r[i] = G[s[i]]
    BY <2>2, <2>3
  <2> HIDE DEF r
  <2>5. r \in Seq(Lines) /\ Len(r) = n
    <3> HIDE DEF Lines, n
    <3> QED BY <1>2, <2>4, MapSeq
  <2> QED BY <2>4, <2>5
<1>6. Gathered(Picked(row), s) = FlattenSeq(r)
  BY DEF Gathered, G
<1> HIDE DEF r
<1>7. CASE n = 0
  <2>1. f[0] = <<>> /\ s = <<>>
    <3> HIDE DEF EntryType
    <3> QED BY <1>2, <1>3, <1>7, EmptySeq DEF Lines
  <2> QED BY <1>1, <1>7, <2>1, GatheredNone
<1>8. CASE n # 0
  <2>1. PICK g : IsFlatten(g, r, n) /\ FlattenSeq(r) = g[n]
    BY <1>2, <1>5, <1>8, FlattenByFunction
  <2>2. g[1] = r[1] /\ \A i \in 1..n - 1 : g[i + 1] = g[i] \o r[i + 1]
    BY <1>2, <1>8, <2>1, FlattenAt
  <2> DEFINE T == {k \in Nat : k \in 1..n => f[k] = g[k] /\ g[k] \in Lines}
  <2>3. 0 \in T
    BY <1>2
  <2>4. ASSUME NEW k \in Nat, k \in T PROVE k + 1 \in T
    <3> SUFFICES ASSUME k + 1 \in 1..n PROVE f[k + 1] = g[k + 1] /\ g[k + 1] \in Lines
      OBVIOUS
    <3> DEFINE x == s[k + 1]
    <3>1. k + 1 \in 0..n /\ k + 1 # 0 /\ (k + 1) - 1 = k /\ (k # 0 => k \in 1..n /\ k \in 1..n - 1)
      BY <1>2
    <3>2. x \in EntryType /\ r[k + 1] = G[x] /\ G[x] \in Lines /\ G[x] = IF x.row = row THEN <<x>> ELSE <<>>
      BY <1>2, <1>4, <1>5
    <3>3. f[k + 1] = IF x.row = row THEN Append(f[k], x) ELSE f[k]
      BY <1>3, <3>1
    <3> HIDE DEF x
    <3>4. CASE k = 0
      <4>1. f[k] = <<>> /\ g[k + 1] = G[x]
        BY <1>2, <1>3, <2>2, <3>2, <3>4
      <4>2. Append(<<>>, x) = <<x>>
        OBVIOUS
      <4> QED BY <3>2, <3>3, <4>1, <4>2
    <3>5. CASE k # 0
      <4>1. f[k] = g[k] /\ g[k] \in Lines
        BY <2>4, <3>1, <3>5
      <4>2. g[k + 1] = g[k] \o G[x]
        BY <2>2, <3>1, <3>2, <3>5
      <4> HIDE DEF EntryType
      <4>3. Append(g[k], x) = g[k] \o <<x>> /\ g[k] \o <<>> = g[k] /\ g[k] \o G[x] \in Lines
        BY <3>2, <4>1, ConcatProperties DEF Lines
      <4> QED BY <3>2, <3>3, <4>1, <4>2, <4>3
    <3> QED BY <3>4, <3>5
  <2>5. \A k \in Nat : k \in T
    <3> HIDE DEF T
    <3> QED BY <2>3, <2>4, SetInduction
  <2>6. n \in Nat /\ n \in 1..n
    BY <1>2, <1>8
  <2>7. f[n] = g[n]
    BY <2>5, <2>6
  <2> QED BY <1>1, <1>6, <2>1, <2>7
<1> QED BY <1>7, <1>8

\* When only one member gives anything, it gives everything.
OnlyGives(G, s, i) == i \in 1..Len(s) /\ \A j \in 1..Len(s) : j # i => G[s[j]] = <<>>

LEMMA OneGives ==
    ASSUME NEW S, NEW T, NEW G \in [S -> Seq(T)], NEW s \in Seq(S), NEW i, OnlyGives(G, s, i)
    PROVE  Gathered(G, s) = G[s[i]]
<1>0. i \in 1..Len(s) /\ \A j \in 1..Len(s) : j # i => G[s[j]] = <<>>
  BY DEF OnlyGives
<1> DEFINE u == SubSeq(s, 1, i - 1)
           v == SubSeq(s, i, Len(s))
           w == SubSeq(v, 1, 1)
           z == SubSeq(v, 2, Len(v))
<1>1. Len(s) \in Nat /\ i \in 1..Len(s) + 1 /\ i \in 1..Len(s)
  BY <1>0, LenProperties
<1>2. u \in Seq(S) /\ v \in Seq(S) /\ s = u \o v
  BY <1>1, CutInTwo
<1>3. /\ Len(u) = i - 1 /\ \A x \in 1..i - 1 : u[x] = s[x]
      /\ Len(v) = Len(s) - i + 1 /\ \A x \in 1..Len(s) - i + 1 : v[x] = s[i + x - 1]
  BY <1>1, SubSeqProperties
<1>4. w \in Seq(S) /\ z \in Seq(S) /\ v = w \o z
  <2>1. 2 \in 1..Len(v) + 1 /\ 2 - 1 = 1
    BY <1>1, <1>3
  <2> HIDE DEF u, v
  <2> QED BY <1>2, <2>1, CutInTwo
<1>5. w = <<s[i]>> /\ s[i] \in S
  <2>1. v[1] = s[i] /\ Len(v) \in Nat \ {0} /\ i \in Int /\ i + 1 - 1 = i
    <3> HIDE DEF v
    <3>1. 1 \in 1..Len(s) - i + 1 /\ i + 1 - 1 = i
      BY <1>1
    <3> QED BY <1>1, <1>3, <3>1
  <2>2. s[i] \in S
    BY <1>0, ElementOfSeq
  <2> HIDE DEF u, v
  <2>3. Len(w) = 1 /\ w[1] = s[i]
    <3>1. \A x \in 1..1 : v[x] \in S
      BY <2>1, <2>2
    <3>2. Len(w) = 1 - 1 + 1 /\ \A x \in 1..1 - 1 + 1 : w[x] = v[1 + x - 1]
      BY <3>1, SubSeqProperties
    <3> HIDE DEF w
    <3> QED BY <2>1, <3>2
  <2>4. w = <<w[1]>>
    <3> HIDE DEF w
    <3> QED BY <1>4, <2>3
  <2> QED BY <2>2, <2>3, <2>4
<1>6. \A x \in 1..Len(u) : G[u[x]] = <<>>
  BY <1>0, <1>1, <1>3
<1>7. \A x \in 1..Len(z) : G[z[x]] = <<>>
  <2>1. Len(z) = Len(v) - 1 /\ \A x \in 1..Len(v) - 1 : z[x] = v[x + 1]
    <3>1. Len(v) \in Nat \ {0}
      BY <1>1, <1>3
    <3> HIDE DEF v
    <3>2. /\ Len(z) = Len(v) - 2 + 1
          /\ \A x \in 1..Len(v) - 2 + 1 : z[x] = v[2 + x - 1]
      <4>1. 2 \in Int /\ Len(v) \in Int /\ \A x \in 2..Len(v) : v[x] \in S
        BY <1>2, <3>1, ElementOfSeq
      <4>2. /\ Len(z) = IF 2 <= Len(v) THEN Len(v) - 2 + 1 ELSE 0
            /\ \A x \in 1..Len(v) - 2 + 1 : z[x] = v[2 + x - 1]
        BY <4>1, SubSeqProperties
      <4>3. \A l \in Nat \ {0} : 2 <= l \/ l - 2 + 1 = 0
        OBVIOUS
      <4> HIDE DEF z
      <4> QED BY <3>1, <4>2, <4>3
    <3>3. Len(v) - 2 + 1 = Len(v) - 1 /\ \A x \in Int : 2 + x - 1 = x + 1
      BY <3>1
    <3> HIDE DEF z
    <3> QED BY <3>2, <3>3
  <2>2. ASSUME NEW x \in 1..Len(z) PROVE G[z[x]] = <<>>
    <3>1. x \in 1..Len(v) - 1 /\ x + 1 \in 1..Len(s) - i + 1 /\ x + i \in 1..Len(s) /\ x + i # i
          /\ i + (x + 1) - 1 = x + i
      BY <1>1, <1>3, <2>1
    <3>2. z[x] = s[x + i]
      BY <1>3, <2>1, <3>1
    <3> QED BY <1>0, <3>1, <3>2
  <2> QED BY <2>2
<1> HIDE DEF u, v, w, z
<1>8. Gathered(G, u) = <<>> /\ Gathered(G, z) = <<>>
  BY <1>2, <1>4, <1>6, <1>7, GatheredNothing
<1>9. Gathered(G, s) = Gathered(G, u) \o (Gathered(G, w) \o Gathered(G, z))
  <2>1. Concatenates(G, S)
    BY GatheredConcatenates
  <2>2. \A p, q \in Seq(S) : Gathered(G, p \o q) = Gathered(G, p) \o Gathered(G, q)
    BY <2>1 DEF Concatenates
  <2>3. Gathered(G, s) = Gathered(G, u) \o Gathered(G, v)
    BY <1>2, <2>2
  <2>4. Gathered(G, v) = Gathered(G, w) \o Gathered(G, z)
    BY <1>4, <2>2
  <2> QED BY <2>3, <2>4
<1>10. Gathered(G, w) = G[s[i]] /\ G[s[i]] \in Seq(T)
  BY <1>5, GatheredOne
<1> QED BY <1>8, <1>9, <1>10, ConcatEmptySeq

\* The screen lines whose row is one of rows.
LinesIn(inside) == {e \in EntryType : e.row \in inside}

LEMMA LinesAreTyped == ASSUME NEW inside PROVE Seq(LinesIn(inside)) \subseteq Lines
<1> SUFFICES ASSUME NEW s \in Seq(LinesIn(inside)) PROVE s \in Seq(EntryType)
  BY DEF Lines
<1>1. LinesIn(inside) \subseteq EntryType
  BY DEF LinesIn
<1> HIDE DEF EntryType, LinesIn
<1> QED BY <1>1

LEMMA OfRowType ==
    ASSUME NEW s \in Lines, NEW row
    PROVE  OfRow(s, row) \in Seq(LinesIn({row}))
<1> DEFINE S == LinesIn({row})
<1>1. \A e \in EntryType : e.row = row => e \in S
  BY DEF LinesIn
<1>2. Picked(row) \in [EntryType -> Seq(S)]
  <2>1. <<>> \in Seq(S)
    OBVIOUS
  <2>2. \A e \in EntryType : e.row = row => <<e>> \in Seq(S)
    <3> HIDE DEF S, EntryType
    <3> QED BY <1>1
  <2> HIDE DEF S, EntryType
  <2> QED BY <2>1, <2>2 DEF Picked
<1> HIDE DEF S, EntryType
<1>3. Gathered(Picked(row), s) \in Seq(S)
  BY <1>2, GatheredType DEF Lines
<1> QED BY <1>3, OfRowGathered DEF S

\* The lines of a row are all of those that are of no other.
LEMMA OfRowAll ==
    ASSUME NEW row
    PROVE  \A s \in Seq(LinesIn({row})) : OfRow(s, row) = s
<1> DEFINE S == LinesIn({row})
           G == Picked(row)
           T == {n \in Nat : \A s \in Seq(S) : Len(s) = n => Gathered(G, s) = s}
<1>1. G \in [EntryType -> Seq(EntryType)] /\ (\A e \in S : G[e] = <<e>>) /\ S \subseteq EntryType
  BY PickedType DEF Picked, LinesIn, Lines
<1> HIDE DEF G
<1>2. 0 \in T
  <2>1. ASSUME NEW s \in Seq(S), Len(s) = 0 PROVE s = <<>>
    <3> HIDE DEF S
    <3> QED BY <2>1, EmptySeq
  <2> QED BY <2>1, GatheredNone
<1> HIDE DEF S, EntryType
<1>3. ASSUME NEW n \in Nat, n \in T PROVE n + 1 \in T
  <2> SUFFICES ASSUME NEW s \in Seq(S), Len(s) = n + 1 PROVE Gathered(G, s) = s
    OBVIOUS
  <2>1. PICK r \in Seq(S), x \in S :
           s = Append(r, x) /\ Len(r) = n /\ s[n + 1] = x /\ \A i \in 1..n : r[i] = s[i]
    BY FrontAndLast
  <2>2. Gathered(G, r) = r
    BY <1>3, <2>1
  <2>3. r \in Seq(EntryType) /\ x \in EntryType
    BY <1>1
  <2>4. Gathered(G, Append(r, x)) = Gathered(G, r) \o G[x]
    BY <1>1, <2>3, GatheredAppend
  <2>5. Append(r, x) = r \o <<x>>
    BY ONLY r \in Seq(S), x \in S
  <2> QED BY <1>1, <2>1, <2>2, <2>4, <2>5
<1>4. \A n \in Nat : n \in T
  <2> HIDE DEF T
  <2> QED BY <1>2, <1>3, SetInduction
<1>5. ASSUME NEW s \in Seq(S) PROVE OfRow(s, row) = s
  <2>1. Len(s) \in Nat /\ s \in Lines
    BY LenProperties, LinesAreTyped DEF S
  <2> QED BY <1>4, <2>1, OfRowGathered DEF G
<1> QED BY <1>5 DEF S

LEMMA OfRowNone ==
    ASSUME NEW row, NEW inside, row \notin inside
    PROVE  \A s \in Seq(LinesIn(inside)) : OfRow(s, row) = <<>>
<1> SUFFICES ASSUME NEW s \in Seq(LinesIn(inside)) PROVE OfRow(s, row) = <<>>
  OBVIOUS
<1>1. s \in Lines
  BY LinesAreTyped
<1>2. \A i \in 1..Len(s) : Picked(row)[s[i]] = <<>>
  <2>1. \A e \in LinesIn(inside) : Picked(row)[e] = <<>>
    BY DEF LinesIn, Picked
  <2> HIDE DEF LinesIn
  <2> QED BY <2>1, ElementOfSeq
<1>3. Gathered(Picked(row), s) = <<>>
  <2>1. Picked(row) \in [EntryType -> Seq(EntryType)] /\ s \in Seq(EntryType)
    BY <1>1, PickedType DEF Lines
  <2> HIDE DEF EntryType
  <2> QED BY <1>2, <2>1, GatheredNothing
<1> QED BY <1>1, <1>3, OfRowGathered

\* When one part has all lines of a row, they are those of the whole.
LEMMA OneHasRow ==
    ASSUME NEW row, NEW ss \in Seq(Lines), NEW i \in 1..Len(ss),
           \A j \in 1..Len(ss) : j # i => OfRow(ss[j], row) = <<>>
    PROVE  FlattenSeq(ss) \in Lines /\ OfRow(FlattenSeq(ss), row) = OfRow(ss[i], row)
<1> DEFINE G == Picked(row)
           H == EachGathered(G, EntryType)
<1>1. G \in [EntryType -> Seq(EntryType)] /\ ss \in Seq(Seq(EntryType))
  BY PickedType DEF Lines
<1>2. \A s \in Lines : H[s] = OfRow(s, row) /\ OfRow(s, row) \in Seq(EntryType)
  <2> SUFFICES ASSUME NEW s \in Lines PROVE H[s] = OfRow(s, row) /\ OfRow(s, row) \in Seq(EntryType)
    OBVIOUS
  <2>1. H[s] = Gathered(G, s)
    BY DEF EachGathered, Lines
  <2>2. OfRow(s, row) \in Lines
    BY OfRowType, LinesAreTyped
  <2> QED BY <2>1, <2>2, OfRowGathered DEF Lines
<1>3. H \in [Seq(EntryType) -> Seq(EntryType)]
  <2>1. H = [s \in Seq(EntryType) |-> H[s]]
    BY DEF EachGathered
  <2> HIDE DEF H, EntryType
  <2> QED BY <1>2, <2>1 DEF Lines
<1> HIDE DEF G, H, EntryType
<1>4. \A j \in 1..Len(ss) : ss[j] \in Lines
  BY ElementOfSeq
<1>5. \A j \in 1..Len(ss) : j # i => H[ss[j]] = <<>>
  BY <1>2, <1>4
<1>6. Gathered(H, ss) = H[ss[i]]
  <2> DEFINE U == Seq(EntryType)
  <2>1. H \in [U -> Seq(EntryType)] /\ ss \in Seq(U)
    BY <1>1, <1>3
  <2> HIDE DEF U
  <2>2. OnlyGives(H, ss, i)
    BY <1>5 DEF OnlyGives
  <2> QED BY <2>1, <2>2, OneGives
<1>7. FlattenSeq(ss) \in Seq(EntryType)
  BY <1>1, FlattenType
<1>8. Gathered(G, FlattenSeq(ss)) = Gathered(H, ss)
  BY <1>1, GatheredFlatten DEF H
<1>9. OfRow(FlattenSeq(ss), row) = Gathered(G, FlattenSeq(ss))
  BY <1>7, OfRowGathered DEF G, Lines
<1> QED BY <1>2, <1>4, <1>6, <1>7, <1>8, <1>9 DEF Lines

-----------------------------------------------------------------------------
(* What the runnables leave. *)

\* A row has at least one line, and every line of it is of this row.
LEMMA PiecesType ==
    ASSUME NEW w \in Wins, NEW row \in Row, NEW n \in Nat \ {0}
    PROVE  /\ Pieces(w, row, n) \in Seq(LinesIn({row}))
           /\ Len(Pieces(w, row, n)) \in Nat \ {0}
<1> DEFINE l == Length(w, row)
           m == AtLeast(1, (l + n - 1) \div n)
           piece(j) == [row |-> row, offset |-> (j - 1) * n, length |-> AtMost(n, l - (j - 1) * n)]
<1>1. l \in Nat
  <2>1. row \in Int /\ row + 1 \in 1..Rows
    BY RowsAssumption DEF Row
  <2>2. TextLength[w][row + 1] \in Nat \cup {-1}
    BY <2>1, RowsAssumption
  <2> QED BY <2>2 DEF Length, AtLine, AtLeast
<1> HIDE DEF l
<1>2. l + n - 1 \in Nat
  BY <1>1
<1>3. (l + n - 1) \div n \in Nat
  BY <1>2, Quotient
<1>4. m \in Nat \ {0}
  BY <1>3 DEF AtLeast
<1>5. ASSUME NEW j \in 1..m PROVE piece(j) \in LinesIn({row})
  <2> HIDE DEF m
  <2>1. j \in Int
    BY <1>4
  <2>2. (j - 1) * n \in Int
    BY <2>1
  <2> DEFINE o == (j - 1) * n
  <2>3. o \in Int /\ l - o \in Int
    BY <1>1, <2>2
  <2> HIDE DEF o
  <2>4. AtMost(n, l - o) \in Int
    BY <2>3 DEF AtMost
  <2>5. [row |-> row, offset |-> o, length |-> AtMost(n, l - o)] \in EntryType
    BY <2>3, <2>4 DEF EntryType
  <2> QED BY <2>5 DEF LinesIn, o
<1>6. Pieces(w, row, n) = [j \in 1..m |-> piece(j)]
  BY DEF Pieces, l
<1> HIDE DEF m, piece
<1>7. [j \in 1..m |-> piece(j)] \in [1..m -> LinesIn({row})]
  BY <1>5
<1>8. Pieces(w, row, n) \in Seq(LinesIn({row})) /\ Len(Pieces(w, row, n)) = m
  BY <1>4, <1>6, <1>7, MapSeq
<1> QED BY <1>4, <1>8

\* The cache of a runnable: the lines of its rows.
IsCache(w, k, n) ==
    LET cache == WrapLineCache(w, k, n)
    IN /\ cache \in Seq(LinesIn(RowsOfRunnable(k)))
       /\ \A row \in RowsOfRunnable(k) : row \in Row /\ OfRow(cache, row) = Pieces(w, row, n)

LEMMA CacheOfRows ==
    ASSUME NEW w \in Wins, NEW k \in 0..RunnablesOfWindow - 1, NEW n \in Nat \ {0}
    PROVE  IsCache(w, k, n)
<1> DEFINE first == k * s_linesPerRunnable
           inside == RowsOfRunnable(k)
<1>1. PICK m : IsRun(k, m)
  BY RunnableWorks
<1> DEFINE part(i) == Pieces(w, first + i - 1, n)
           ss == [i \in 1..m |-> part(i)]
<1>2. WrapLineCache(w, k, n) = FlattenSeq(ss)
  BY <1>1 DEF WrapLineCache, IsRun
<1>3. m \in Nat \ {0} /\ first \in Nat /\ first + m <= Rows /\ inside = first..first + m - 1 /\ Rows \in Nat
  BY <1>1, RowsAssumption DEF IsRun
<1> HIDE DEF first, inside
<1>4. \A row \in inside : row \in Row /\ row - first + 1 \in 1..m /\ first + (row - first + 1) - 1 = row
  BY <1>3 DEF Row
<1>5. \A i \in 1..m : first + i - 1 \in inside
  BY <1>3
<1>6. \A i \in 1..m : part(i) \in Seq(LinesIn({first + i - 1}))
  BY <1>4, <1>5, PiecesType
<1>7. \A i \in 1..m : part(i) \in Seq(LinesIn(inside)) /\ part(i) \in Lines
  <2> SUFFICES ASSUME NEW i \in 1..m PROVE part(i) \in Seq(LinesIn(inside)) /\ part(i) \in Lines
    OBVIOUS
  <2>1. LinesIn({first + i - 1}) \subseteq LinesIn(inside)
    BY <1>5 DEF LinesIn
  <2>2. part(i) \in Seq(LinesIn({first + i - 1}))
    BY <1>6
  <2> HIDE DEF part, LinesIn
  <2>3. part(i) \in Seq(LinesIn(inside))
    BY <2>1, <2>2
  <2> QED BY <2>3, LinesAreTyped
<1>8. ss \in Seq(Seq(LinesIn(inside))) /\ ss \in Seq(Lines) /\ Len(ss) = m
  <2> DEFINE U == Seq(LinesIn(inside))
  <2>1. ss \in [1..m -> U] /\ ss \in [1..m -> Lines]
    BY <1>7
  <2> HIDE DEF ss, U
  <2>2. ss \in Seq(U) /\ ss \in Seq(Lines) /\ Len(ss) = m
    BY <1>3, <2>1, MapSeq
  <2> QED BY <2>2 DEF U
<1>9. FlattenSeq(ss) \in Seq(LinesIn(inside))
  <2> HIDE DEF ss
  <2> QED BY <1>8, FlattenType
<1>10. ASSUME NEW row \in inside PROVE OfRow(FlattenSeq(ss), row) = Pieces(w, row, n)
  <2> DEFINE i == row - first + 1
  <2>1. i \in 1..m /\ ss[i] = Pieces(w, row, n) /\ first + i - 1 = row /\ row \in Row
    BY <1>4
  <2>2. ASSUME NEW j \in 1..m, j # i PROVE OfRow(ss[j], row) = <<>>
    <3>1. row # first + j - 1
      BY <1>3, <1>4, <2>2
    <3>2. row \notin {first + j - 1} /\ ss[j] \in Seq(LinesIn({first + j - 1}))
      BY <1>6, <3>1
    <3> HIDE DEF ss
    <3> QED BY <3>2, OfRowNone
  <2>3. OfRow(ss[i], row) = ss[i]
    <3>1. ss[i] \in Seq(LinesIn({row}))
      BY <1>6, <2>1
    <3> HIDE DEF ss, i
    <3> QED BY <3>1, OfRowAll
  <2> HIDE DEF ss, i
  <2>4. OfRow(FlattenSeq(ss), row) = OfRow(ss[i], row)
    BY <1>8, <2>1, <2>2, OneHasRow
  <2> QED BY <2>1, <2>3, <2>4
<1> HIDE DEF ss
<1> QED BY <1>2, <1>4, <1>9, <1>10 DEF IsCache, inside

\* When all runnables of a window have run, its rows are what they should be.
LEMMA EntriesAreThePieces ==
    ASSUME NEW w \in Wins, NEW n \in Nat \ {0}, NEW caches \in Seq(Lines),
           Len(caches) = RunnablesOfWindow,
           \A k \in 1..RunnablesOfWindow : caches[k] = WrapLineCache(w, k - 1, n),
           NEW row \in Row
    PROVE  EntriesOf(caches, row) = Pieces(w, row, n)
<1>1. PICK k \in 0..RunnablesOfWindow - 1 :
         /\ row \in RowsOfRunnable(k)
         /\ \A j \in 0..RunnablesOfWindow - 1 : row \in RowsOfRunnable(j) => j = k
  BY RunnableOfRow
<1> DEFINE i == k + 1
<1>2. RunnablesOfWindow \in Nat \ {0}
  BY RunnableWorks
<1>3. i \in 1..Len(caches) /\ i - 1 = k /\ caches[i] = WrapLineCache(w, k, n)
  BY <1>2
<1>4. ASSUME NEW j \in 1..Len(caches), j # i PROVE OfRow(caches[j], row) = <<>>
  <2>1. j - 1 \in 0..RunnablesOfWindow - 1 /\ j - 1 # k
    BY <1>2, <1>3, <1>4
  <2>2. row \notin RowsOfRunnable(j - 1)
    BY <1>1, <2>1
  <2>3. caches[j] \in Seq(LinesIn(RowsOfRunnable(j - 1)))
    <3>1. caches[j] = WrapLineCache(w, j - 1, n)
      BY <1>2
    <3> QED BY <2>1, <3>1, CacheOfRows DEF IsCache
  <2> QED BY <2>2, <2>3, OfRowNone
<1>5. OfRow(caches[i], row) = Pieces(w, row, n)
  BY <1>1, <1>3, CacheOfRows DEF IsCache
<1> HIDE DEF i
<1>6. OfRow(FlattenSeq(caches), row) = OfRow(caches[i], row)
  BY <1>3, <1>4, OneHasRow
<1> QED BY <1>5, <1>6 DEF EntriesOf

-----------------------------------------------------------------------------
(* Where each row begins. *)

\* s is the first k of the parts ss behind each other; the i-th ends at sum[i].
IsJoined(s, ss, sum, k, S) ==
    /\ s \in Seq(S) /\ Len(s) = sum[k] /\ sum[k] \in Nat
    /\ \A i \in 1..k, j \in Nat : j \in 1..Len(ss[i]) =>
          /\ sum[i - 1] \in Nat /\ sum[i - 1] + j \in 1..sum[k]
          /\ s[sum[i - 1] + j] = ss[i][j]
    /\ \A x \in 1..sum[k] : \E i \in 1..k : \E j \in 1..Len(ss[i]) : x = sum[i - 1] + j

LEMMA JoinOneMore ==
    ASSUME NEW S, NEW ss \in Seq(Seq(S)), NEW sum, NEW k \in Nat, k + 1 \in 1..Len(ss), NEW s,
           IsJoined(s, ss, sum, k, S), sum[k + 1] = sum[k] + Len(ss[k + 1])
    PROVE  IsJoined(s \o ss[k + 1], ss, sum, k + 1, S)
<1> DEFINE t == ss[k + 1]
           r == s \o t
           a == sum[k]
           b == sum[k + 1]
<1>1. t \in Seq(S) /\ Len(t) \in Nat
  <2>1. t \in Seq(S)
    BY ElementOfSeq
  <2> QED BY <2>1, LenProperties
<1>2. s \in Seq(S) /\ Len(s) = a /\ a \in Nat
  BY DEF IsJoined
<1>3. /\ r \in Seq(S) /\ Len(r) = a + Len(t)
      /\ \A x \in 1..a : r[x] = s[x]
      /\ \A x \in 1..Len(t) : r[a + x] = t[x]
  <2> HIDE DEF t, a
  <2>1. s \in Seq(S) /\ t \in Seq(S)
    BY <1>1, <1>2
  <2>2. /\ r \in Seq(S) /\ Len(r) = Len(s) + Len(t)
        /\ \A x \in 1..Len(s) : r[x] = s[x]
        /\ \A x \in 1..Len(t) : r[Len(s) + x] = t[x]
    BY <2>1, ConcatParts
  <2> HIDE DEF r
  <2> QED BY <1>2, <2>2
<1>4. b = a + Len(t) /\ b \in Nat
  BY <1>1, <1>2
<1>5. ASSUME NEW i \in 1..k + 1, NEW j \in Nat, j \in 1..Len(ss[i])
      PROVE  sum[i - 1] \in Nat /\ sum[i - 1] + j \in 1..b /\ r[sum[i - 1] + j] = ss[i][j]
  <2>1. CASE i = k + 1
    <3>1. i - 1 = k /\ j \in 1..Len(t)
      BY <1>5, <2>1
    <3>2. sum[i - 1] = a /\ ss[i][j] = t[j]
      BY <2>1, <3>1
    <3>3. a + j \in 1..b
      BY <1>1, <1>2, <1>4, <3>1
    <3> HIDE DEF a, b, t, r
    <3> QED BY <1>2, <1>3, <3>1, <3>2, <3>3
  <2>2. CASE i # k + 1
    <3>1. i \in 1..k
      BY <2>2
    <3>2. sum[i - 1] \in Nat /\ sum[i - 1] + j \in 1..a /\ s[sum[i - 1] + j] = ss[i][j]
      BY <1>5, <3>1 DEF IsJoined
    <3> HIDE DEF a, b, t, r
    <3>3. \A x \in 1..a : x \in 1..b
      BY <1>1, <1>2, <1>4
    <3> QED BY <1>3, <3>2, <3>3
  <2> QED BY <2>1, <2>2
<1>6. ASSUME NEW x \in 1..b
      PROVE  \E i \in 1..k + 1 : \E j \in 1..Len(ss[i]) : x = sum[i - 1] + j
  <2>1. CASE x <= a
    <3>1. x \in 1..a
      BY <1>2, <1>4, <2>1
    <3>2. PICK i \in 1..k : \E j \in 1..Len(ss[i]) : x = sum[i - 1] + j
      BY <3>1 DEF IsJoined
    <3>3. i \in 1..k + 1
      OBVIOUS
    <3> QED BY <3>2, <3>3
  <2>2. CASE ~(x <= a)
    <3> DEFINE j == x - a
    <3>1. j \in 1..Len(t) /\ x = a + j
      BY <1>1, <1>2, <1>4, <2>2
    <3>2. k + 1 \in 1..k + 1 /\ (k + 1) - 1 = k
      OBVIOUS
    <3> HIDE DEF j
    <3> QED BY <3>1, <3>2
  <2> QED BY <2>1, <2>2
<1> HIDE DEF a, b, r
<1> QED BY <1>3, <1>4, <1>5, <1>6 DEF IsJoined, b, r, t

LEMMA JoinedFlatten ==
    ASSUME NEW S, NEW ss \in Seq(Seq(S)), NEW sum, Len(ss) # 0, sum[0] = 0,
           \A k \in 1..Len(ss) : sum[k] = sum[k - 1] + Len(ss[k])
    PROVE  IsJoined(FlattenSeq(ss), ss, sum, Len(ss), S)
<1> DEFINE n == Len(ss)
<1>1. n \in Nat \ {0}
  BY LenProperties
<1>2. PICK g : IsFlatten(g, ss, n) /\ FlattenSeq(ss) = g[n]
  BY <1>1, FlattenByFunction
<1>3. g[1] = ss[1] /\ \A i \in 1..n - 1 : g[i + 1] = g[i] \o ss[i + 1]
  BY <1>1, <1>2, FlattenAt
<1> DEFINE T == {k \in Nat : k \in 1..n => IsJoined(g[k], ss, sum, k, S)}
<1>4. 0 \in T
  BY <1>1
<1>5. ASSUME NEW k \in Nat, k \in T PROVE k + 1 \in T
  <2> SUFFICES ASSUME k + 1 \in 1..n PROVE IsJoined(g[k + 1], ss, sum, k + 1, S)
    OBVIOUS
  <2>1. sum[k + 1] = sum[k] + Len(ss[k + 1])
    <3>1. (k + 1) - 1 = k
      OBVIOUS
    <3> QED BY <3>1
  <2>2. CASE k = 0
    <3>1. IsJoined(<<>>, ss, sum, 0, S)
      BY EmptySeq DEF IsJoined
    <3>2. IsJoined(<<>> \o ss[0 + 1], ss, sum, 0 + 1, S)
      BY <2>1, <2>2, <3>1, JoinOneMore
    <3>3. ss[1] \in Seq(S)
      BY <1>1, ElementOfSeq
    <3>4. <<>> \o ss[1] = ss[1]
      BY <3>3, ConcatEmptySeq
    <3> QED BY <1>3, <2>2, <3>2, <3>4
  <2>3. CASE k # 0
    <3>1. k \in 1..n /\ k \in 1..n - 1
      BY <1>1, <2>3
    <3>2. IsJoined(g[k], ss, sum, k, S)
      BY <1>5, <3>1
    <3>3. IsJoined(g[k] \o ss[k + 1], ss, sum, k + 1, S)
      BY <2>1, <3>2, JoinOneMore
    <3> QED BY <1>3, <3>1, <3>3
  <2> QED BY <2>2, <2>3
<1>6. \A k \in Nat : k \in T
  <2> HIDE DEF T
  <2> QED BY <1>4, <1>5, SetInduction
<1>7. n \in Nat /\ n \in 1..n
  BY <1>1
<1> QED BY <1>2, <1>6, <1>7

\* Every row gets what the window has of it, and as many lines as were counted.
LinesOfRow(caches, counts, row) ==
    LET own == EntriesOf(caches, row)
    IN [j \in 1..counts[row] |->
           IF j <= Len(own) THEN own[j] ELSE [row |-> row, offset |-> 0, length |-> 0]]

BeginsWith(r, own, n) == \A j \in 1..n : j <= Len(own) => r[j] = own[j]

LEMMA RowIsFilled ==
    ASSUME NEW caches \in Seq(Lines), NEW counts \in [Row -> Nat \ {0}], NEW row \in Row
    PROVE  LET own == EntriesOf(caches, row)
               r == LinesOfRow(caches, counts, row)
           IN /\ own \in Seq(LinesIn({row})) /\ r \in Seq(LinesIn({row}))
              /\ Len(r) = counts[row] /\ counts[row] \in Nat \ {0}
              /\ BeginsWith(r, own, counts[row])
<1> DEFINE own == EntriesOf(caches, row)
           n == counts[row]
           line(j) == IF j <= Len(own) THEN own[j] ELSE [row |-> row, offset |-> 0, length |-> 0]
<1>1. own \in Seq(LinesIn({row})) /\ Len(own) \in Nat
  <2>1. FlattenSeq(caches) \in Lines
    <3> HIDE DEF EntryType
    <3> QED BY FlattenType DEF Lines
  <2>2. own \in Seq(LinesIn({row}))
    BY <2>1, OfRowType DEF EntriesOf
  <2> HIDE DEF own
  <2> QED BY <2>2, LenProperties
<1>2. n \in Nat \ {0}
  OBVIOUS
<1>3. [row |-> row, offset |-> 0, length |-> 0] \in LinesIn({row})
  BY DEF LinesIn, EntryType
<1> HIDE DEF own, n
<1>4. \A j \in 1..n : line(j) \in LinesIn({row})
  <2> SUFFICES ASSUME NEW j \in 1..n, j <= Len(own) PROVE own[j] \in LinesIn({row})
    BY <1>3
  <2>1. j \in 1..Len(own)
    BY <1>1, <1>2
  <2> QED BY <1>1, <2>1, ElementOfSeq
<1>5. [j \in 1..n |-> line(j)] \in [1..n -> LinesIn({row})]
  BY <1>4
<1> DEFINE r == [j \in 1..n |-> line(j)]
<1>6. LinesOfRow(caches, counts, row) = r
  BY DEF LinesOfRow, own, n
<1>7. \A j \in 1..n : j <= Len(own) => r[j] = own[j]
  OBVIOUS
<1> HIDE DEF r
<1>8. r \in Seq(LinesIn({row})) /\ Len(r) = n
  BY <1>2, <1>5, MapSeq DEF r
<1>9. BeginsWith(r, own, n)
  BY <1>7 DEF BeginsWith, r
<1> QED BY <1>1, <1>2, <1>6, <1>8, <1>9 DEF own, n

\* Row follows row.
IsSum(sum, counts) ==
    /\ sum \in [0..Rows -> Nat] /\ sum[0] = 0
    /\ \A row \in 1..Rows : sum[row] = sum[row - 1] + counts[row - 1]

LEMMA SumsAreSums ==
    ASSUME NEW counts \in [Row -> Nat \ {0}]
    PROVE  IsSum(SumLinesNeeded(counts), counts)
<1> DEFINE G == [p \in Nat \X (1..Rows) |-> p[1] + counts[p[2] - 1]]
<1>1. Rows \in Nat /\ \A row \in 1..Rows : row - 1 \in Row /\ row \in 0..Rows /\ row - 1 \in 0..Rows /\ row # 0
  BY RowsAssumption DEF Row
<1>2. \A x \in Nat, k \in 1..Rows : G[<<x, k>>] = x + counts[k - 1] /\ G[<<x, k>>] \in Nat
  <2> SUFFICES ASSUME NEW x \in Nat, NEW k \in 1..Rows
               PROVE  G[<<x, k>>] = x + counts[k - 1] /\ G[<<x, k>>] \in Nat
    OBVIOUS
  <2>1. counts[k - 1] \in Nat
    BY <1>1
  <2>2. G[<<x, k>>] = x + counts[k - 1]
    OBVIOUS
  <2> HIDE DEF G
  <2> QED BY <2>1, <2>2
<1> HIDE DEF G
<1>3. PICK g : /\ g = [k \in 0..Rows |-> IF k = 0 THEN 0 ELSE G[<<g[k - 1], k>>]]
               /\ g \in [0..Rows -> Nat]
  <2> DEFINE N == Nat
  <2>1. 0 \in N /\ Rows \in Nat /\ \A x \in N, k \in 1..Rows : G[<<x, k>>] \in N
    BY <1>1, <1>2
  <2> HIDE DEF N
  <2>2. \E g : /\ g = [k \in 0..Rows |-> IF k = 0 THEN 0 ELSE G[<<g[k - 1], k>>]]
              /\ g \in [0..Rows -> N]
    BY <2>1, RecursionExists
  <2> QED BY <2>2 DEF N
<1> DEFINE Is(f) == f = [row \in 0..Rows |-> IF row = 0 THEN 0 ELSE f[row - 1] + counts[row - 1]]
<1>4. Is(g)
  <2> DEFINE h(k) == IF k = 0 THEN 0 ELSE g[k - 1] + counts[k - 1]
  <2>1. ASSUME NEW k \in 0..Rows PROVE g[k] = h(k)
    <3>1. CASE k = 0
      BY <1>3, <3>1
    <3>2. CASE k # 0
      <4>1. k \in 1..Rows /\ k - 1 \in 0..Rows
        BY <1>1, <3>2
      <4>2. g[k] = G[<<g[k - 1], k>>] /\ g[k - 1] \in Nat
        BY <1>3, <4>1, <3>2
      <4> QED BY <1>2, <4>1, <4>2, <3>2
    <3> QED BY <3>1, <3>2
  <2>2. g = [k \in 0..Rows |-> g[k]]
    BY <1>3
  <2> HIDE DEF h
  <2>3. g = [k \in 0..Rows |-> h(k)]
    BY <2>1, <2>2
  <2> QED BY <2>3 DEF h
<1> DEFINE f == SumLinesNeeded(counts)
<1>5. Is(f)
  BY <1>4 DEF SumLinesNeeded
<1> HIDE DEF f
<1>6. /\ f = [k \in 0..Rows |-> f[k]]
      /\ \A k \in 0..Rows : f[k] = IF k = 0 THEN 0 ELSE f[k - 1] + counts[k - 1]
  BY <1>5
<1> DEFINE T == {k \in Nat : k \in 0..Rows => f[k] \in Nat}
<1>7. 0 \in T
  BY <1>1, <1>6
<1>8. ASSUME NEW k \in Nat, k \in T PROVE k + 1 \in T
  <2> SUFFICES ASSUME k + 1 \in 0..Rows PROVE f[k + 1] \in Nat
    OBVIOUS
  <2>1. k \in 0..Rows /\ k + 1 # 0 /\ (k + 1) - 1 = k /\ k \in Row
    BY <1>1 DEF Row
  <2>2. f[k + 1] = f[k] + counts[k]
    BY <1>6, <2>1
  <2>3. f[k] \in Nat /\ counts[k] \in Nat
    BY <1>8, <2>1
  <2> QED BY <2>2, <2>3
<1>9. \A k \in Nat : k \in T
  <2> HIDE DEF T
  <2> QED BY <1>7, <1>8, SetInduction
<1>10. \A k \in 0..Rows : f[k] \in Nat
  BY <1>9
<1>11. f \in [0..Rows -> Nat]
  BY <1>6, <1>10
<1>12. \A k \in 1..Rows : f[k] = f[k - 1] + counts[k - 1]
  BY <1>1, <1>6
<1>13. f[0] = 0
  <2>1. 0 \in 0..Rows
    BY <1>1
  <2> QED BY <1>6, <2>1
<1>14. IsSum(f, counts)
  BY <1>11, <1>12, <1>13 DEF IsSum
<1> QED BY <1>14 DEF f

\* What Diff3WrapLines() makes of the caches.
ShowsRows(vec, sum, caches, counts) ==
    /\ vec \in Lines /\ Len(vec) = sum[Rows]
    /\ \A row \in Row :
          LET r == LinesOfRow(caches, counts, row)
          IN /\ r \in Seq(LinesIn({row})) /\ Len(r) = counts[row]
             /\ OfRow(vec, row) = r
             /\ \A j \in 1..counts[row] : sum[row] + j \in 1..Len(vec) /\ vec[sum[row] + j] = r[j]
    /\ \A x \in 1..Len(vec) : \E row \in Row : \E j \in 1..counts[row] : x = sum[row] + j

LEMMA AllRowsAreShown ==
    ASSUME NEW caches \in Seq(Lines), NEW counts \in [Row -> Nat \ {0}]
    PROVE  ShowsRows(Diff3WrapLines(caches, counts), SumLinesNeeded(counts), caches, counts)
<1> DEFINE part(row) == LinesOfRow(caches, counts, row)
           ss == [i \in 1..Rows |-> part(i - 1)]
           vec == FlattenSeq(ss)
           sum == SumLinesNeeded(counts)
<1>1. Rows \in Nat \ {0} /\ \A i \in 1..Rows : i - 1 \in Row
  BY RowsAssumption DEF Row
<1>2. \A row \in Row : row + 1 \in 1..Rows /\ (row + 1) - 1 = row /\ row \in 0..Rows
  BY <1>1 DEF Row
<1>3. Diff3WrapLines(caches, counts) = vec
  BY DEF Diff3WrapLines, LinesOfRow
<1>4. \A row \in Row : /\ part(row) \in Seq(LinesIn({row})) /\ part(row) \in Lines
                       /\ Len(part(row)) = counts[row] /\ counts[row] \in Nat
  <2> SUFFICES ASSUME NEW row \in Row
               PROVE  /\ part(row) \in Seq(LinesIn({row})) /\ part(row) \in Lines
                      /\ Len(part(row)) = counts[row] /\ counts[row] \in Nat
    OBVIOUS
  <2>1. part(row) \in Seq(LinesIn({row})) /\ Len(part(row)) = counts[row] /\ counts[row] \in Nat \ {0}
    BY RowIsFilled
  <2> HIDE DEF part
  <2> QED BY <2>1, LinesAreTyped
<1> HIDE DEF part
<1>5. ss \in Seq(Lines) /\ Len(ss) = Rows /\ \A i \in 1..Rows : ss[i] = part(i - 1)
  <2>1. ss \in [1..Rows -> Lines]
    BY <1>1, <1>4
  <2>2. \A i \in 1..Rows : ss[i] = part(i - 1)
    OBVIOUS
  <2> HIDE DEF ss
  <2> QED BY <1>1, <2>1, <2>2, MapSeq
<1>6. IsSum(sum, counts)
  BY SumsAreSums
<1> HIDE DEF ss, sum
<1>7. IsJoined(vec, ss, sum, Rows, EntryType)
  <2>1. \A k \in 1..Len(ss) : sum[k] = sum[k - 1] + Len(ss[k])
    BY <1>1, <1>4, <1>5, <1>6 DEF IsSum
  <2>2. ss \in Seq(Seq(EntryType)) /\ Len(ss) # 0 /\ sum[0] = 0
    BY <1>1, <1>5, <1>6 DEF Lines, IsSum
  <2> HIDE DEF EntryType
  <2>3. IsJoined(FlattenSeq(ss), ss, sum, Len(ss), EntryType)
    BY <2>1, <2>2, JoinedFlatten
  <2> QED BY <1>5, <2>3
<1>8. vec \in Lines /\ Len(vec) = sum[Rows]
  BY <1>7 DEF IsJoined, Lines
<1>9. ASSUME NEW row \in Row PROVE OfRow(vec, row) = part(row)
  <2> DEFINE i == row + 1
  <2>1. i \in 1..Len(ss) /\ ss[i] = part(row)
    BY <1>2, <1>5
  <2>2. ASSUME NEW j \in 1..Len(ss), j # i PROVE OfRow(ss[j], row) = <<>>
    <3>1. j \in 1..Rows /\ j - 1 \in Row /\ j - 1 # row
      BY <1>1, <1>2, <1>5, <2>2 DEF Row
    <3>2. row \notin {j - 1} /\ ss[j] \in Seq(LinesIn({j - 1}))
      BY <1>4, <1>5, <3>1
    <3> QED BY <3>2, OfRowNone
  <2> HIDE DEF i
  <2>3. OfRow(vec, row) = OfRow(ss[i], row)
    BY <1>5, <2>1, <2>2, OneHasRow
  <2>4. OfRow(part(row), row) = part(row)
    BY <1>4, OfRowAll
  <2> QED BY <2>1, <2>3, <2>4
<1>10. ASSUME NEW row \in Row, NEW j \in 1..counts[row]
       PROVE  sum[row] + j \in 1..Len(vec) /\ vec[sum[row] + j] = part(row)[j]
  <2>1. row + 1 \in 1..Rows /\ (row + 1) - 1 = row /\ ss[row + 1] = part(row)
    BY <1>2, <1>5
  <2>2. j \in Nat /\ j \in 1..Len(ss[row + 1])
    <3>1. Len(part(row)) = counts[row] /\ counts[row] \in Nat
      BY <1>4
    <3> HIDE DEF vec
    <3> QED BY <2>1, <3>1
  <2> HIDE DEF vec
  <2> QED BY <1>7, <1>8, <2>1, <2>2 DEF IsJoined
<1>11. ASSUME NEW x \in 1..Len(vec)
       PROVE  \E row \in Row : \E j \in 1..counts[row] : x = sum[row] + j
  <2>1. PICK i \in 1..Rows : \E j \in 1..Len(ss[i]) : x = sum[i - 1] + j
    BY <1>7, <1>8 DEF IsJoined
  <2>2. i - 1 \in Row /\ Len(ss[i]) = counts[i - 1]
    BY <1>1, <1>4, <1>5
  <2> QED BY <2>1, <2>2
<1> HIDE DEF vec
<1> QED BY <1>3, <1>4, <1>8, <1>9, <1>10, <1>11 DEF ShowsRows, part, sum

-----------------------------------------------------------------------------
(* The invariant. *)

WinType == [wrap : BOOLEAN, vec : Lines, caches : Seq(Lines), measured : BOOLEAN, updates : BOOLEAN]
RunnableType == Wins \X (0..RunnablesOfWindow - 1)

TypeOK ==
    /\ wordWrapOn \in BOOLEAN /\ posted \in BOOLEAN /\ hung \in BOOLEAN
    /\ width \in Widths /\ m_firstD3LIdx \in Nat \cup {-1}
    /\ runnables \in Seq(RunnableType) /\ maxRunnables \in Nat
    /\ needed \in [Row -> Nat \ {0}] /\ sums \in [0..Rows -> Nat]
    /\ win \in [Wins -> WinType]
    /\ top \in Nat

\* A request is in the queue, or runnables are running.
Control ==
    /\ maxRunnables > 0 <=> runnables # <<>>
    /\ posted <=> runnables # <<>> \/ queue # <<>>
    /\ queue \in {<<>>, <<"recalc">>, <<"finish">>}
    /\ runnables # <<>> => queue = <<>>
    /\ runnables # <<>> \/ queue = <<"finish">> => m_firstD3LIdx \in Nat

\* The k-th runnable of a window has run with the width n.
IsFilled(w, k, n) ==
    /\ win[w].caches[k] = WrapLineCache(w, k - 1, n)
    /\ \A row \in RowsOfRunnable(k - 1) : needed[row] >= Len(Pieces(w, row, n))

\* All have, or are still to run.
IsWrapped(n) ==
    \A w \in Wins :
        /\ win[w].wrap /\ Len(win[w].caches) = RunnablesOfWindow
        /\ \A k \in 1..RunnablesOfWindow : <<w, k - 1>> \in Range(runnables) \/ IsFilled(w, k, n)

\* They wrap with the width the windows have, unless one got another behind the
\* last of them.
Wrapping ==
    wordWrapOn /\ ~cancelled /\ (runnables # <<>> \/ queue = <<"finish">>) =>
        \E n \in Widths : (n = width \/ (dropped /\ runnables = <<>>)) /\ IsWrapped(n)

Wrapped ==
    wordWrapOn /\ ~posted =>
        /\ \E n \in Widths : (n = width \/ dropped) /\ IsWrapped(n)
        /\ \A w \in Wins : win[w].vec = Diff3WrapLines(win[w].caches, needed)
        /\ sums = SumLinesNeeded(needed)

\* The row at the top is that of the first line, or the one that was asked for.
TopKnown ==
    /\ ~posted \/ m_firstD3LIdx = -1 => topRow = LineToRow(win[SelWin].wrap, win[SelWin].vec, top)
    /\ posted /\ ~stale /\ m_firstD3LIdx # -1 => topRow = m_firstD3LIdx

Running == Control /\ Wrapping /\ Wrapped /\ TopKnown
IInv == TypeOK /\ (~hung => Running)

-----------------------------------------------------------------------------
(* Every step keeps it. *)

LEMMA InitIsTyped == ASSUME Init PROVE TypeOK
<1>1. Rows \in Nat \ {0} /\ \A row \in Row : 1 \in Nat \ {0}
  BY RowsAssumption
<1>2. needed \in [Row -> Nat \ {0}] /\ sums \in [0..Rows -> Nat]
  BY <1>1 DEF Init
<1>3. win \in [Wins -> WinType]
  <2>1. <<>> \in Lines /\ <<>> \in Seq(Lines)
    BY EmptySeq DEF Lines
  <2> HIDE DEF Lines
  <2>2. FreshWindow \in WinType
    BY <2>1 DEF FreshWindow, WinType
  <2> QED BY <2>2 DEF Init
<1>4. runnables \in Seq(RunnableType)
  BY EmptySeq DEF Init
<1> QED BY <1>2, <1>3, <1>4 DEF Init, TypeOK

LEMMA InitKeeps == ASSUME Init PROVE IInv
<1>1. TypeOK
  BY InitIsTyped
<1>2. Control
  BY DEF Init, Control
<1>3. Wrapping /\ Wrapped
  BY DEF Init, Wrapping, Wrapped
<1>4. TopKnown
  <2>1. ~win[SelWin].wrap
    BY WindowsAssumption DEF Init, FreshWindow
  <2> QED BY <2>1 DEF Init, TopKnown, LineToRow
<1> QED BY <1>1, <1>2, <1>3, <1>4 DEF IInv, Running

LEMMA QueueIsOne ==
    /\ <<"recalc">> # <<>> /\ <<"finish">> # <<>> /\ <<"recalc">> # <<"finish">>
    /\ Head(<<"recalc">>) = "recalc" /\ Head(<<"finish">>) = "finish"
    /\ Tail(<<"recalc">>) = <<>> /\ Tail(<<"finish">>) = <<>>
    /\ Append(<<>>, "recalc") = <<"recalc">> /\ Append(<<>>, "finish") = <<"finish">>
    /\ "recalc" \in Range(<<"recalc">>) /\ "recalc" \notin Range(<<"finish">>)
<1>1. <<"recalc">>[1] = "recalc" /\ <<"finish">>[1] = "finish" /\ "recalc" # "finish"
  OBVIOUS
<1>2. <<"recalc">> # <<"finish">>
  BY <1>1
<1>3. "recalc" \in Range(<<"recalc">>) /\ "recalc" \notin Range(<<"finish">>)
  BY DEF Range
<1> QED BY <1>2, <1>3

\* A request that is posted while no runnable runs.
LEMMA PostKeeps ==
    ASSUME IInv, ~hung, maxRunnables = 0, PostRecalcWordWrap,
           wordWrapOn' \in BOOLEAN, width' \in Widths, posted => wordWrapOn' = wordWrapOn,
           UNCHANGED <<runnables, maxRunnables, cancelled, shown, topRow>>
    PROVE  IInv'
<1> USE DEF shown
<1>1. TypeOK /\ Control /\ Wrapping /\ TopKnown
  BY DEF IInv, Running
<1>2. runnables = <<>>
  BY <1>1 DEF Control
<1>3. CASE posted
  <2>1. /\ dropped' = (dropped \/ "recalc" \notin Range(queue))
        /\ UNCHANGED <<posted, m_firstD3LIdx, queue, hung, stale, wordWrapOn>>
    BY <1>3 DEF PostRecalcWordWrap
  <2>2. TypeOK' /\ Control' /\ TopKnown'
    BY <1>1, <2>1 DEF TypeOK, Control, TopKnown
  <2>3. Wrapped'
    BY <1>3, <2>1 DEF Wrapped
  <2>4. Wrapping'
    <3> SUFFICES ASSUME wordWrapOn, ~cancelled, queue = <<"finish">>
                 PROVE  Wrapping'
      BY <1>2, <2>1 DEF Wrapping
    <3>1. PICK n \in Widths : IsWrapped(n)
      BY <1>1 DEF Wrapping
    <3>2. dropped'
      BY <2>1, QueueIsOne
    <3>3. IsWrapped(n)'
      BY <3>1 DEF IsWrapped, IsFilled
    <3> QED BY <1>2, <3>1, <3>2, <3>3 DEF Wrapping
  <2> QED BY <2>1, <2>2, <2>3, <2>4 DEF IInv, Running
<1>4. CASE ~posted
  <2>1. queue = <<>>
    BY <1>1, <1>4 DEF Control
  <2>2. /\ posted' = TRUE /\ m_firstD3LIdx' = -1 /\ queue' = <<"recalc">>
        /\ UNCHANGED hung
    BY <1>4, <2>1, QueueIsOne DEF PostRecalcWordWrap, ForgetTopRow
  <2>3. TypeOK'
    BY <1>1, <2>2 DEF TypeOK
  <2>4. Control' /\ Wrapping' /\ Wrapped'
    BY <1>2, <2>2, QueueIsOne DEF Control, Wrapping, Wrapped
  <2>5. TopKnown'
    BY <1>1, <1>4, <2>2 DEF TopKnown
  <2> QED BY <2>2, <2>3, <2>4, <2>5 DEF IInv, Running
<1> QED BY <1>3, <1>4

LEMMA ResizeKeeps == ASSUME IInv, NEW n \in Widths, Resize(n) PROVE IInv'
<1>1. ~hung /\ PostRecalcWordWrap /\ width' = n
      /\ UNCHANGED <<wordWrapOn, runnables, maxRunnables, cancelled, shown, topRow>>
  BY DEF Resize
<1>2. TypeOK
  BY DEF IInv
<1>3. CASE maxRunnables > 0
  <2>1. hung' = TRUE /\ UNCHANGED <<posted, m_firstD3LIdx>>
    BY <1>3 DEF Resize, PostRecalcWordWrap
  <2>2. TypeOK'
    BY <1>1, <1>2, <2>1 DEF TypeOK, shown
  <2> QED BY <2>1, <2>2 DEF IInv
<1>4. CASE ~(maxRunnables > 0)
  <2>1. maxRunnables = 0 /\ wordWrapOn' \in BOOLEAN
    BY <1>1, <1>2, <1>4 DEF TypeOK
  <2> QED BY <1>1, <2>1, PostKeeps
<1> QED BY <1>3, <1>4

LEMMA NotPosted == ASSUME IInv, Input PROVE ~posted /\ ~hung /\ maxRunnables = 0 /\ runnables = <<>> /\ queue = <<>>
<1>1. ~hung /\ runnables = <<>> /\ queue = <<>>
  BY DEF Input, Idle
<1>2. Control /\ maxRunnables \in Nat
  BY <1>1 DEF IInv, Running, TypeOK
<1> QED BY <1>1, <1>2 DEF Control

LEMMA ToggledKeeps == ASSUME IInv, SlotWordWrapToggled PROVE IInv'
<1>1. /\ Input /\ PostRecalcWordWrap /\ wordWrapOn' = ~wordWrapOn
      /\ UNCHANGED <<width, runnables, maxRunnables, cancelled, shown, topRow>>
  BY DEF SlotWordWrapToggled
<1>2. wordWrapOn' \in BOOLEAN /\ width' \in Widths
  BY <1>1 DEF IInv, TypeOK
<1> QED BY <1>1, <1>2, NotPosted, PostKeeps

LEMMA CancelKeeps == ASSUME IInv, Cancel PROVE IInv'
<1>1. /\ cancelled' = TRUE /\ ~hung
      /\ UNCHANGED <<wordWrapOn, width, posted, m_firstD3LIdx, queue, runnables, maxRunnables, shown, hung, history>>
  BY DEF Cancel
<1>2. TypeOK /\ Control /\ Wrapped /\ TopKnown
  BY <1>1 DEF IInv, Running
<1>3. TypeOK' /\ Control' /\ TopKnown' /\ Wrapping'
  BY <1>1, <1>2 DEF TypeOK, Control, TopKnown, Wrapping, shown, history
<1>4. Wrapped'
  BY <1>1, <1>2 DEF Wrapped, IsWrapped, IsFilled, shown, history
<1> QED BY <1>3, <1>4 DEF IInv, Running

LEMMA SelectKeeps == ASSUME IInv, NEW a, NEW b, Select(a, b) PROVE IInv'
<1>1. /\ Input
      /\ UNCHANGED <<wordWrapOn, width, posted, m_firstD3LIdx, queue, runnables, maxRunnables, cancelled,
                     needed, sums, win, top, hung, topRow, dropped, stale>>
  BY DEF Select
<1>2. TypeOK /\ Control /\ Wrapping /\ Wrapped /\ TopKnown
  BY <1>1, NotPosted DEF IInv, Running
<1>3. TypeOK' /\ Control' /\ TopKnown'
  BY <1>1, <1>2 DEF TypeOK, Control, TopKnown
<1>4. Wrapped' /\ Wrapping'
  BY <1>1, <1>2 DEF Wrapped, Wrapping, IsWrapped, IsFilled
<1> QED BY <1>3, <1>4 DEF IInv, Running

LEMMA ScrollKeeps == ASSUME IInv, NEW line \in 0..MaxTop(NofLines), Scroll(line) PROVE IInv'
<1>1. /\ Input /\ top' = line /\ topRow' = LineToRow(win[SelWin].wrap, win[SelWin].vec, line)
      /\ UNCHANGED <<wordWrapOn, width, posted, m_firstD3LIdx, queue, runnables, maxRunnables, cancelled,
                     needed, sums, win, hung, dropped, stale>>
  BY DEF Scroll
<1>2. TypeOK /\ Control /\ Wrapping /\ Wrapped /\ TopKnown /\ ~posted
  BY <1>1, NotPosted DEF IInv, Running
<1>3. line \in Nat
  <2>1. Rows \in Nat /\ m_DTWHeight \in Nat
    BY RowsAssumption, WindowsAssumption
  <2>2. NofLines \in Nat
    BY <1>2, <2>1 DEF NofLines, TypeOK
  <2>3. MaxTop(NofLines) \in Nat
    BY <2>1, <2>2 DEF MaxTop, AtLeast
  <2> QED BY <2>3
<1>4. TypeOK' /\ Control' /\ TopKnown'
  BY <1>1, <1>2, <1>3 DEF TypeOK, Control, TopKnown
<1>5. Wrapped' /\ Wrapping'
  BY <1>1, <1>2 DEF Wrapped, Wrapping, IsWrapped, IsFilled
<1> QED BY <1>4, <1>5 DEF IInv, Running

\* Which row a line on the screen belongs to.
LEMMA LineToRowType ==
    ASSUME NEW wrap \in BOOLEAN, NEW vec \in Lines, NEW line \in Nat
    PROVE  LineToRow(wrap, vec, line) \in Nat
<1>1. CASE wrap /\ vec # <<>>
  <2>1. Len(vec) \in Nat \ {0}
    <3> HIDE DEF EntryType
    <3> QED BY <1>1, EmptySeq DEF Lines
  <2> DEFINE i == AtMost(line, Len(vec) - 1) + 1
  <2>2. i \in 1..Len(vec)
    BY <2>1 DEF AtMost
  <2> HIDE DEF i
  <2>3. vec[i] \in EntryType
    BY <2>2, ElementOfSeq DEF Lines
  <2>4. vec[i].row \in Nat
    BY <2>3, RowsAssumption DEF EntryType, Row
  <2> QED BY <1>1, <2>4 DEF LineToRow, AtLine, i
<1>2. CASE ~(wrap /\ vec # <<>>)
  BY <1>2 DEF LineToRow
<1> QED BY <1>1, <1>2

\* The runnables of all windows.
AllRunnables == FlattenSeq([i \in 1..Cardinality(Wins) |-> RunnablesOf(SetToSeq(Wins)[i])])

LEMMA WindowsInOrder ==
    LET order == SetToSeq(Wins)
    IN /\ Cardinality(Wins) \in Nat \ {0}
       /\ order \in [1..Cardinality(Wins) -> Wins]
       /\ \A w \in Wins : \E i \in 1..Cardinality(Wins) : order[i] = w
<1> DEFINE n == Cardinality(Wins)
           I == 1..n
           P(f) == f \in [I -> Wins] /\ IsInjective(f)
<1>1. n \in Nat /\ IsFiniteSet(Wins)
  BY RowsAssumption, FS_CardinalityType
<1>2. n # 0
  BY <1>1, WindowsAssumption, FS_EmptySet
<1>3. IsFiniteSet(I) /\ Cardinality(I) = n
  BY <1>1, FS_Interval
<1> HIDE DEF n, I
<1>4. PICK b : b \in Bijection(I, Wins)
  <2>1. ExistsBijection(I, Wins)
    BY <1>1, <1>3, FS_SameCardinalityBij DEF n
  <2> QED BY <2>1 DEF ExistsBijection
<1>5. P(b)
  BY <1>4 DEF Bijection, Injection, IsInjective
<1> DEFINE order == SetToSeq(Wins)
<1>6. P(order)
  BY <1>5 DEF SetToSeq, n, I
<1> HIDE DEF order
<1>7. order \in Injection(I, Wins)
  BY <1>6 DEF Injection, IsInjective
<1>8. order \in Surjection(I, Wins)
  BY <1>1, <1>3, <1>7, FS_Injection DEF n
<1>9. \A w \in Wins : \E i \in I : order[i] = w
  BY <1>8 DEF Surjection
<1> QED BY <1>1, <1>2, <1>6, <1>9 DEF n, I, order

\* What a part has, the whole has.
LEMMA FlattenHas ==
    ASSUME NEW S, NEW ss \in Seq(Seq(S)), NEW i \in 1..Len(ss), NEW j \in 1..Len(ss[i])
    PROVE  ss[i][j] \in Range(FlattenSeq(ss))
<1> DEFINE n == Len(ss)
           N == Nat
           G == [p \in N \X (1..n) |-> p[1] + Len(ss[p[2]])]
<1>1. n \in Nat /\ \A k \in 1..n : Len(ss[k]) \in Nat
  BY LenProperties, ElementOfSeq
<1>2. \A x \in N, k \in 1..n : G[<<x, k>>] = x + Len(ss[k]) /\ G[<<x, k>>] \in N
  <2> SUFFICES ASSUME NEW x \in N, NEW k \in 1..n
               PROVE  G[<<x, k>>] = x + Len(ss[k]) /\ G[<<x, k>>] \in N
    OBVIOUS
  <2>1. Len(ss[k]) \in Nat /\ x \in Nat
    BY <1>1
  <2>2. G[<<x, k>>] = x + Len(ss[k])
    OBVIOUS
  <2> HIDE DEF G
  <2> QED BY <2>1, <2>2
<1>3. 0 \in N
  OBVIOUS
<1> HIDE DEF N, n, G
<1>4. PICK sum : /\ sum = [k \in 0..n |-> IF k = 0 THEN 0 ELSE G[<<sum[k - 1], k>>]]
                 /\ sum \in [0..n -> N]
  BY <1>1, <1>2, <1>3, RecursionExists
<1>5. sum[0] = 0
  <2>1. 0 \in 0..n
    BY <1>1
  <2> QED BY <1>4, <2>1
<1>6. \A k \in 1..n : sum[k] = sum[k - 1] + Len(ss[k])
  <2> SUFFICES ASSUME NEW k \in 1..n PROVE sum[k] = sum[k - 1] + Len(ss[k])
    OBVIOUS
  <2>1. k \in 0..n /\ k - 1 \in 0..n /\ k # 0
    BY <1>1
  <2>2. sum[k] = G[<<sum[k - 1], k>>] /\ sum[k - 1] \in N
    BY <1>4, <2>1
  <2> QED BY <1>2, <2>2
<1>7. n # 0
  BY <1>1 DEF n
<1>8. IsJoined(FlattenSeq(ss), ss, sum, n, S)
  BY <1>5, <1>6, <1>7, JoinedFlatten DEF n
<1>9. j \in Nat /\ i \in 1..n
  BY <1>1 DEF n
<1> DEFINE s == FlattenSeq(ss)
           x == sum[i - 1] + j
<1> HIDE DEF s
<1>10. x \in 1..Len(s) /\ s[x] = ss[i][j] /\ s \in Seq(S)
  BY <1>8, <1>9 DEF IsJoined, s
<1> HIDE DEF x
<1>11. DOMAIN s = 1..Len(s)
  BY <1>10, LenProperties
<1>12. s[x] \in Range(s)
  BY <1>10, <1>11 DEF Range
<1> QED BY <1>10, <1>12 DEF s

LEMMA RunnablesOfAll ==
    ASSUME TypeOK
    PROVE  /\ AllRunnables \in Seq(RunnableType)
           /\ wordWrapOn => \A w \in Wins, k \in 1..RunnablesOfWindow : <<w, k - 1>> \in Range(AllRunnables)
<1> DEFINE order == SetToSeq(Wins)
           n == Cardinality(Wins)
           ss == [i \in 1..n |-> RunnablesOf(order[i])]
<1>1. /\ n \in Nat \ {0} /\ order \in [1..n -> Wins]
      /\ \A w \in Wins : \E i \in 1..n : order[i] = w
  BY WindowsInOrder
<1>2. RunnablesOfWindow \in Nat \ {0}
  BY RunnableWorks
<1>3. ASSUME NEW w \in Wins PROVE RunnablesOf(w) \in Seq(RunnableType)
  <2> DEFINE r == [k \in 1..RunnablesOfWindow |-> <<w, k - 1>>]
  <2>1. \A k \in 1..RunnablesOfWindow : k - 1 \in 0..RunnablesOfWindow - 1
    BY <1>2
  <2>2. r \in [1..RunnablesOfWindow -> RunnableType]
    BY <2>1 DEF RunnableType
  <2> HIDE DEF r
  <2>3. r \in Seq(RunnableType)
    BY <1>2, <2>2, MapSeq
  <2>4. <<>> \in Seq(RunnableType)
    BY EmptySeq
  <2> QED BY <2>3, <2>4 DEF RunnablesOf, r
<1> HIDE DEF order, n
<1>4. ss \in Seq(Seq(RunnableType)) /\ Len(ss) = n /\ \A i \in 1..n : ss[i] = RunnablesOf(order[i])
  <2> DEFINE U == Seq(RunnableType)
  <2>1. ss \in [1..n -> U] /\ \A i \in 1..n : ss[i] = RunnablesOf(order[i])
    BY <1>1, <1>3
  <2> HIDE DEF ss, U
  <2>2. ss \in Seq(U) /\ Len(ss) = n
    BY <1>1, <2>1, MapSeq
  <2> QED BY <2>1, <2>2 DEF U
<1>5. AllRunnables = FlattenSeq(ss)
  BY DEF AllRunnables, order, n
<1> HIDE DEF ss
<1>6. AllRunnables \in Seq(RunnableType)
  BY <1>4, <1>5, FlattenType
<1>7. ASSUME wordWrapOn, NEW w \in Wins, NEW k \in 1..RunnablesOfWindow
      PROVE  <<w, k - 1>> \in Range(AllRunnables)
  <2>1. PICK i \in 1..n : order[i] = w
    BY <1>1
  <2>2. ss[i] = [j \in 1..RunnablesOfWindow |-> <<w, j - 1>>]
    BY <1>4, <1>7, <2>1 DEF RunnablesOf
  <2>3. Len(ss[i]) = RunnablesOfWindow /\ ss[i][k] = <<w, k - 1>>
    BY <1>2, <2>2
  <2>4. ss[i][k] \in Range(FlattenSeq(ss))
    BY <1>4, <2>3, FlattenHas
  <2> QED BY <1>5, <2>3, <2>4
<1> QED BY <1>6, <1>7
\* recalcWordWrap() leaves everything to be wrapped, and knows the row at the top.
LEMMA RecalcBegins ==
    ASSUME IInv, ~hung, RecalcWordWrap, width' \in Widths, UNCHANGED <<wordWrapOn, hung, top>>
    PROVE  /\ TypeOK' /\ posted' /\ m_firstD3LIdx' \in Nat
           /\ maxRunnables' > 0 <=> runnables' # <<>>
           /\ posted /\ ~stale => m_firstD3LIdx' = topRow
           /\ wordWrapOn => runnables' # <<>> /\ \A n \in Widths : IsWrapped(n)'
<1>1. TypeOK /\ Control /\ TopKnown
  BY DEF IInv, Running
<1>2. runnables' = AllRunnables /\ maxRunnables' = Len(AllRunnables) /\ posted' = TRUE
  BY DEF RecalcWordWrap, AllRunnables
<1>3. /\ AllRunnables \in Seq(RunnableType)
      /\ wordWrapOn => \A w \in Wins, k \in 1..RunnablesOfWindow : <<w, k - 1>> \in Range(AllRunnables)
  BY <1>1, RunnablesOfAll
<1>4. Len(AllRunnables) \in Nat /\ (Len(AllRunnables) > 0 <=> AllRunnables # <<>>)
  <2>1. Len(AllRunnables) \in Nat
    BY <1>3, LenProperties
  <2>2. AllRunnables # <<>> => Len(AllRunnables) \in Nat \ {0}
    BY <1>3, EmptySeq
  <2>3. Len(<<>>) = 0
    BY EmptySeq
  <2> QED BY <2>1, <2>2, <2>3
<1>5. SelWin \in Wins /\ win[SelWin] \in WinType /\ RunnablesOfWindow \in Nat \ {0}
  BY <1>1, WindowsAssumption, RunnableWorks DEF TypeOK
<1>6. LineToRow(win[SelWin].wrap, win[SelWin].vec, top) \in Nat
  BY <1>1, <1>5, LineToRowType DEF TypeOK, WinType
<1>7. m_firstD3LIdx' = IF m_firstD3LIdx < 0 THEN LineToRow(win[SelWin].wrap, win[SelWin].vec, top) ELSE m_firstD3LIdx
  BY DEF RecalcWordWrap
<1>8. m_firstD3LIdx \in Nat \cup {-1}
  BY <1>1 DEF TypeOK
<1>9. m_firstD3LIdx' \in Nat
  BY <1>6, <1>7, <1>8
<1>10. posted /\ ~stale => m_firstD3LIdx' = topRow
  <2>1. CASE m_firstD3LIdx = -1
    BY <1>1, <1>7, <2>1 DEF TopKnown
  <2>2. CASE m_firstD3LIdx # -1
    <3>1. m_firstD3LIdx \in Nat
      BY <1>8, <2>2
    <3> QED BY <1>1, <1>7, <2>2, <3>1 DEF TopKnown
  <2> QED BY <2>1, <2>2
<1>11. needed' \in [Row -> Nat \ {0}]
  BY <1>1 DEF RecalcWordWrap, TypeOK
<1>12. sums' \in [0..Rows -> Nat]
  <2>1. sums' = IF wordWrapOn THEN SumLinesNeeded(needed') ELSE sums
    BY DEF RecalcWordWrap
  <2> QED BY <1>1, <1>11, <2>1, SumsAreSums DEF TypeOK, IsSum
<1>13. win' = [w \in Wins |-> Prepared(w)]
  BY DEF RecalcWordWrap
<1>14. ASSUME NEW w \in Wins
       PROVE  /\ Prepared(w) \in WinType
              /\ wordWrapOn => Prepared(w).wrap /\ Len(Prepared(w).caches) = RunnablesOfWindow
  <2>1. win[w] \in WinType
    BY <1>1 DEF TypeOK
  <2> DEFINE cs == [k \in 1..RunnablesOfWindow |-> <<>>]
  <2>2. <<>> \in Lines /\ <<>> \in Seq(Lines)
    BY EmptySeq DEF Lines
  <2> HIDE DEF Lines
  <2>3. cs \in [1..RunnablesOfWindow -> Lines]
    BY <2>2
  <2> HIDE DEF cs
  <2>4. cs \in Seq(Lines) /\ Len(cs) = RunnablesOfWindow
    BY <1>5, <2>3, MapSeq
  <2>5. CASE wordWrapOn
    <3>1. Prepared(w) = [win[w] EXCEPT !.wrap = TRUE, !.vec = <<>>, !.updates = FALSE, !.caches = cs]
      BY <2>5 DEF Prepared, cs
    <3> QED BY <2>1, <2>2, <2>4, <3>1 DEF WinType
  <2>6. CASE ~wordWrapOn
    BY <2>1, <2>2, <2>6 DEF Prepared, WinType
  <2> QED BY <2>5, <2>6
<1>15. win' \in [Wins -> WinType]
  BY <1>13, <1>14
<1>16. TypeOK'
  BY <1>1, <1>2, <1>3, <1>4, <1>9, <1>11, <1>12, <1>15 DEF TypeOK
<1>17. ASSUME wordWrapOn PROVE runnables' # <<>> /\ \A n \in Widths : IsWrapped(n)'
  <2>1. \A w \in Wins, k \in 1..RunnablesOfWindow : <<w, k - 1>> \in Range(AllRunnables)
    BY <1>3, <1>17
  <2>2. AllRunnables # <<>>
    <3>1. <<SelWin, 1 - 1>> \in Range(AllRunnables)
      BY <1>5, <2>1
    <3>2. Range(<<>>) = {}
      BY DEF Range
    <3> QED BY <3>1, <3>2
  <2>3. \A w \in Wins : win'[w].wrap /\ Len(win'[w].caches) = RunnablesOfWindow
    BY <1>13, <1>14, <1>17
  <2> QED BY <1>2, <2>1, <2>2, <2>3 DEF IsWrapped
<1> QED BY <1>2, <1>4, <1>9, <1>10, <1>16, <1>17

LEMMA SlotRecalcKeeps == ASSUME IInv, SlotRecalcWordWrap PROVE IInv'
<1>1. /\ ~hung /\ runnables = <<>> /\ queue # <<>> /\ Head(queue) = "recalc" /\ RecalcWordWrap
      /\ queue' = Tail(queue) \o (IF runnables' = <<>> THEN <<"finish">> ELSE <<>>)
      /\ dropped' = FALSE
      /\ UNCHANGED <<wordWrapOn, width, top, hung, chosen, topRow, stale>>
  BY DEF SlotRecalcWordWrap, Idle
<1>2. TypeOK /\ Control
  BY <1>1 DEF IInv, Running
<1>3. queue = <<"recalc">> /\ posted
  <2>1. Head(queue) # "finish"
    BY <1>1
  <2> QED BY <1>1, <1>2, <2>1, QueueIsOne DEF Control
<1>4. queue' = IF runnables' = <<>> THEN <<"finish">> ELSE <<>>
  <2>1. Tail(queue) = <<>>
    BY <1>3, QueueIsOne
  <2>2. <<>> \o <<"finish">> = <<"finish">> /\ <<>> \o <<>> = <<>>
    OBVIOUS
  <2> QED BY <1>1, <2>1, <2>2
<1>5. width' \in Widths
  BY <1>1, <1>2 DEF TypeOK
<1>6. /\ TypeOK' /\ posted' /\ m_firstD3LIdx' \in Nat
      /\ maxRunnables' > 0 <=> runnables' # <<>>
      /\ posted /\ ~stale => m_firstD3LIdx' = topRow
      /\ wordWrapOn => runnables' # <<>> /\ \A n \in Widths : IsWrapped(n)'
  BY <1>1, <1>5, RecalcBegins
<1>7. Control'
  BY <1>4, <1>6, QueueIsOne DEF Control
<1>8. Wrapping'
  BY <1>1, <1>5, <1>6 DEF Wrapping
<1>9. Wrapped' /\ TopKnown'
  BY <1>1, <1>3, <1>6 DEF Wrapped, TopKnown
<1> QED BY <1>6, <1>7, <1>8, <1>9 DEF IInv, Running

LEMMA LineNumbersKeep == ASSUME IInv, SlotShowLineNumbersToggled PROVE IInv'
<1>1. /\ Input /\ width' \in Widths
      /\ UNCHANGED <<wordWrapOn, queue, top, hung, chosen, topRow>>
  BY DEF SlotShowLineNumbersToggled
<1>2. ~posted /\ ~hung /\ maxRunnables = 0 /\ runnables = <<>> /\ queue = <<>>
  BY <1>1, NotPosted
<1>3. TypeOK /\ Control /\ TopKnown
  BY <1>2 DEF IInv, Running
<1>4. CASE wordWrapOn
  <2>1. RecalcWordWrap /\ stale' = TRUE
    BY <1>4 DEF SlotShowLineNumbersToggled
  <2>2. /\ TypeOK' /\ posted' /\ m_firstD3LIdx' \in Nat
        /\ maxRunnables' > 0 <=> runnables' # <<>>
        /\ runnables' # <<>> /\ \A n \in Widths : IsWrapped(n)'
    BY <1>1, <1>2, <1>4, <2>1, RecalcBegins
  <2>3. Control'
    BY <1>1, <1>2, <2>2, QueueIsOne DEF Control
  <2>4. Wrapping'
    BY <1>1, <2>2 DEF Wrapping
  <2>5. Wrapped' /\ TopKnown'
    BY <2>1, <2>2 DEF Wrapped, TopKnown
  <2> QED BY <2>2, <2>3, <2>4, <2>5 DEF IInv, Running
<1>5. CASE ~wordWrapOn
  <2>1. UNCHANGED <<posted, enabled, cancelled, m_firstD3LIdx, selection, needed, sums, win, runnables,
                    maxRunnables, stale, dropped>>
    BY <1>5 DEF SlotShowLineNumbersToggled
  <2>2. TypeOK' /\ Control' /\ TopKnown'
    BY <1>1, <1>3, <2>1 DEF TypeOK, Control, TopKnown
  <2>3. Wrapping' /\ Wrapped'
    BY <1>1, <1>5 DEF Wrapping, Wrapped
  <2> QED BY <2>2, <2>3 DEF IInv, Running
<1>6. wordWrapOn \in BOOLEAN
  BY <1>3 DEF TypeOK
<1> QED BY <1>4, <1>5, <1>6

\* A list is its head and its tail.
LEMMA HeadAndTail ==
    ASSUME NEW S, NEW s \in Seq(S), s # <<>>
    PROVE  /\ Head(s) \in S /\ Tail(s) \in Seq(S) /\ Len(s) \in Nat \ {0}
           /\ Len(s) = 1 <=> Tail(s) = <<>>
           /\ \A x \in Range(s) : x = Head(s) \/ x \in Range(Tail(s))
<1>1. Len(s) \in Nat \ {0} /\ DOMAIN s = 1..Len(s)
  BY EmptySeq, LenProperties
<1>2. Head(s) \in S /\ Head(s) = s[1]
  BY <1>1, ElementOfSeq
<1> DEFINE t == Tail(s)
<1>3. t \in Seq(S) /\ Len(t) = Len(s) - 1 /\ \A i \in 1..Len(s) - 1 : t[i] = s[i + 1]
  BY <1>1
<1> HIDE DEF t
<1>4. DOMAIN t = 1..Len(t)
  BY <1>3, LenProperties
<1>5. Len(s) = 1 <=> t = <<>>
  <2>1. t # <<>> => Len(t) \in Nat \ {0}
    BY <1>3, EmptySeq
  <2>2. Len(<<>>) = 0
    BY EmptySeq
  <2> QED BY <1>1, <1>3, <2>1, <2>2
<1>6. ASSUME NEW x \in Range(s) PROVE x = Head(s) \/ x \in Range(t)
  <2>1. PICK i \in 1..Len(s) : x = s[i]
    BY <1>1 DEF Range
  <2>2. CASE i = 1
    BY <1>2, <2>1, <2>2
  <2>3. CASE i # 1
    <3>1. i - 1 \in 1..Len(s) - 1 /\ (i - 1) + 1 = i
      BY <1>1, <2>3
    <3>2. x = t[i - 1] /\ i - 1 \in DOMAIN t
      BY <1>3, <1>4, <2>1, <3>1
    <3> QED BY <3>2 DEF Range
  <2> QED BY <2>2, <2>3
<1> QED BY <1>1, <1>2, <1>3, <1>5, <1>6 DEF t

LEMMA CountedType ==
    ASSUME TypeOK, NEW cache \in Lines, NEW w
    PROVE  \A row \in Row : /\ Counted(w, cache)[row] \in Nat \ {0}
                            /\ Counted(w, cache)[row] >= needed[row]
                            /\ Counted(w, cache)[row] >= Len(OfRow(cache, row))
<1> SUFFICES ASSUME NEW row \in Row
             PROVE  /\ Counted(w, cache)[row] \in Nat \ {0}
                    /\ Counted(w, cache)[row] >= needed[row]
                    /\ Counted(w, cache)[row] >= Len(OfRow(cache, row))
  OBVIOUS
<1>1. OfRow(cache, row) \in Seq(LinesIn({row}))
  BY OfRowType
<1>2. Len(OfRow(cache, row)) \in Nat
  BY <1>1, LenProperties
<1>3. needed[row] \in Nat \ {0}
  BY DEF TypeOK
<1>4. Counted(w, cache)[row] = AtLeast(needed[row], Len(OfRow(cache, row)))
  BY DEF Counted, LinesNeeded
<1> QED BY <1>2, <1>3, <1>4 DEF AtLeast

\* One runnable has run, or was cancelled.
LEMMA RunKeeps == ASSUME IInv, Run PROVE IInv'
<1>1. /\ runnables # <<>> /\ ~hung /\ runnables' = Tail(runnables)
      /\ queue' = IF Len(runnables) = 1 THEN Append(queue, "finish") ELSE queue
      /\ maxRunnables' = IF Len(runnables) = 1 THEN 0 ELSE maxRunnables
      /\ UNCHANGED <<wordWrapOn, width, posted, m_firstD3LIdx, cancelled, enabled, sums, selection, top, hung>>
      /\ UNCHANGED <<chosen, topRow, dropped, stale>>
  BY DEF Run, history
<1>2. TypeOK /\ Control /\ Wrapping /\ TopKnown
  BY <1>1 DEF IInv, Running
<1>3. /\ Head(runnables) \in RunnableType /\ Tail(runnables) \in Seq(RunnableType)
      /\ Len(runnables) = 1 <=> Tail(runnables) = <<>>
      /\ \A x \in Range(runnables) : x = Head(runnables) \/ x \in Range(Tail(runnables))
  BY <1>1, <1>2, HeadAndTail DEF TypeOK
<1> DEFINE w == Head(runnables)[1]
           k == Head(runnables)[2]
           cache == WrapLineCache(w, k, width)
<1>4. w \in Wins /\ k \in 0..RunnablesOfWindow - 1 /\ Head(runnables) = <<w, k>>
  BY <1>3 DEF RunnableType
<1>5. /\ cancelled => UNCHANGED <<win, needed>>
      /\ ~cancelled /\ win[w].wrap =>
            /\ win' = [win EXCEPT ![w].caches[k + 1] = cache]
            /\ needed' = [row \in Row |-> IF row \in RowsOfRunnable(k) THEN Counted(w, cache)[row] ELSE needed[row]]
      /\ ~cancelled /\ ~win[w].wrap => win' = [win EXCEPT ![w].measured = TRUE] /\ UNCHANGED needed
  BY DEF Run
<1> HIDE DEF w, k
<1>6. width \in Nat \ {0} /\ width \in Widths
  BY <1>2, WindowsAssumption DEF TypeOK
<1>7. /\ cache \in Lines
      /\ \A row \in RowsOfRunnable(k) : row \in Row /\ OfRow(cache, row) = Pieces(w, row, width)
  <2>1. IsCache(w, k, width)
    BY <1>4, <1>6, CacheOfRows
  <2> QED BY <2>1, LinesAreTyped DEF IsCache
<1> HIDE DEF cache
<1>8. \A row \in Row : /\ Counted(w, cache)[row] \in Nat \ {0}
                       /\ Counted(w, cache)[row] >= needed[row]
                       /\ Counted(w, cache)[row] >= Len(OfRow(cache, row))
  BY <1>2, <1>7, CountedType
<1>9. needed \in [Row -> Nat \ {0}] /\ win \in [Wins -> WinType]
  BY <1>2 DEF TypeOK
<1>10. needed' \in [Row -> Nat \ {0}] /\ \A row \in Row : needed'[row] >= needed[row]
  <2>1. CASE ~cancelled /\ win[w].wrap
    BY <1>5, <1>8, <1>9, <2>1
  <2>2. CASE cancelled \/ ~win[w].wrap
    <3>1. needed' = needed
      BY <1>5, <2>2
    <3> QED BY <1>9, <3>1
  <2> QED BY <2>1, <2>2
<1>11. /\ win' \in [Wins -> WinType]
       /\ \A v \in Wins : win'[v].wrap = win[v].wrap /\ win'[v].vec = win[v].vec
  <2>1. CASE ~cancelled /\ win[w].wrap
    <3> DEFINE c == [win[w].caches EXCEPT ![k + 1] = cache]
    <3>1. win[w] \in WinType /\ win[w].caches \in Seq(Lines)
      BY <1>4, <1>9 DEF WinType
    <3>2. c \in Seq(Lines)
      <4> DEFINE d == win[w].caches
      <4> HIDE DEF Lines
      <4>1. Len(d) \in Nat /\ d \in [1..Len(d) -> Lines]
        BY <3>1, LenProperties
      <4> HIDE DEF d
      <4>2. [d EXCEPT ![k + 1] = cache] \in [1..Len(d) -> Lines]
        BY <1>7, <4>1
      <4>3. [d EXCEPT ![k + 1] = cache] \in Seq(Lines)
        BY <4>1, <4>2, MapSeq
      <4> QED BY <4>3 DEF d
    <3>3. win' = [win EXCEPT ![w] = [win[w] EXCEPT !.caches = c]]
      BY <1>5, <2>1
    <3> HIDE DEF c
    <3>4. [win[w] EXCEPT !.caches = c] \in WinType
      BY <3>1, <3>2 DEF WinType
    <3>5. [win[w] EXCEPT !.caches = c].wrap = win[w].wrap /\ [win[w] EXCEPT !.caches = c].vec = win[w].vec
      BY <3>1 DEF WinType
    <3> QED BY <1>4, <1>9, <3>3, <3>4, <3>5
  <2>2. CASE ~cancelled /\ ~win[w].wrap
    <3>1. win[w] \in WinType
      BY <1>4, <1>9
    <3>2. win' = [win EXCEPT ![w] = [win[w] EXCEPT !.measured = TRUE]]
      BY <1>5, <2>2
    <3>3. /\ [win[w] EXCEPT !.measured = TRUE] \in WinType
          /\ [win[w] EXCEPT !.measured = TRUE].wrap = win[w].wrap
          /\ [win[w] EXCEPT !.measured = TRUE].vec = win[w].vec
      BY <3>1 DEF WinType
    <3> QED BY <1>4, <1>9, <3>2, <3>3
  <2>3. CASE cancelled
    BY <1>5, <1>9, <2>3
  <2> QED BY <2>1, <2>2, <2>3
<1>12. TypeOK'
  BY <1>1, <1>2, <1>3, <1>10, <1>11 DEF TypeOK
<1>13. queue = <<>> /\ posted /\ m_firstD3LIdx \in Nat /\ maxRunnables > 0
  BY <1>1, <1>2 DEF Control
<1>14. Control'
  BY <1>1, <1>3, <1>13, QueueIsOne DEF Control
<1>15. Wrapped' /\ TopKnown'
  BY <1>1, <1>2, <1>13 DEF Wrapped, TopKnown
<1>16. Wrapping'
  <2> SUFFICES ASSUME wordWrapOn, ~cancelled PROVE IsWrapped(width)'
    BY <1>1, <1>6 DEF Wrapping
  <2>1. IsWrapped(width)
    BY <1>1, <1>2 DEF Wrapping
  <2>2. win[w].wrap
    BY <1>4, <2>1 DEF IsWrapped
  <2>3. /\ win' = [win EXCEPT ![w].caches[k + 1] = cache]
        /\ \A row \in RowsOfRunnable(k) : needed'[row] >= Len(Pieces(w, row, width))
    <3>1. needed' = [row \in Row |-> IF row \in RowsOfRunnable(k) THEN Counted(w, cache)[row] ELSE needed[row]]
      BY <1>5, <2>2
    <3> QED BY <1>5, <1>7, <1>8, <2>2, <3>1
  <2>4. ASSUME NEW v \in Wins
        PROVE  /\ win'[v].wrap /\ Len(win'[v].caches) = RunnablesOfWindow
               /\ \A i \in 1..RunnablesOfWindow :
                     /\ (v # w \/ i # k + 1) => win'[v].caches[i] = win[v].caches[i]
                     /\ v = w /\ i = k + 1 => win'[v].caches[i] = cache
    <3>1. win[v].wrap /\ Len(win[v].caches) = RunnablesOfWindow /\ win[v] \in WinType /\ win[w] \in WinType
      BY <1>4, <1>9, <2>1 DEF IsWrapped
    <3>2. CASE v # w
      <4>1. win'[v] = win[v]
        BY <1>9, <2>3, <3>2
      <4> QED BY <3>1, <3>2, <4>1
    <3>3. CASE v = w
      <4> DEFINE d == win[w].caches
                 c == [d EXCEPT ![k + 1] = cache]
      <4>1. d \in Seq(Lines) /\ Len(d) = RunnablesOfWindow /\ RunnablesOfWindow \in Nat
        BY <3>1, <3>3, RunnableWorks DEF WinType
      <4>2. DOMAIN d = 1..RunnablesOfWindow /\ k + 1 \in 1..RunnablesOfWindow
        BY <1>4, <4>1, LenProperties
      <4>3. win'[w] = [win[w] EXCEPT !.caches = c]
        BY <1>4, <1>9, <2>3
      <4>4. win'[w].caches = c
        BY <3>1, <4>3 DEF WinType
      <4> HIDE DEF d
      <4>5. Len(c) = Len(d) /\ c[k + 1] = cache /\ \A i \in 1..RunnablesOfWindow : i # k + 1 => c[i] = d[i]
        BY <1>7, <4>1, <4>2
      <4> HIDE DEF c
      <4> QED BY <1>11, <3>1, <3>3, <4>1, <4>4, <4>5 DEF d
    <3> QED BY <3>2, <3>3
  <2>5. ASSUME NEW v \in Wins, NEW i \in 1..RunnablesOfWindow
        PROVE  <<v, i - 1>> \in Range(runnables') \/ IsFilled(v, i, width)'
    <3>1. RunnablesOfWindow \in Nat /\ i - 1 \in 0..RunnablesOfWindow - 1
      BY RunnableWorks
    <3>2. CASE v = w /\ i = k + 1
      <4>1. i - 1 = k /\ win'[v].caches[i] = WrapLineCache(w, k, width)
        BY <1>4, <2>4, <3>2 DEF cache
      <4> QED BY <1>1, <2>3, <3>2, <4>1 DEF IsFilled
    <3>3. CASE ~(v = w /\ i = k + 1)
      <4>1. <<v, i - 1>> # Head(runnables)
        BY <1>4, <3>1, <3>3
      <4>2. CASE <<v, i - 1>> \in Range(runnables)
        BY <1>1, <1>3, <4>1, <4>2
      <4>3. CASE <<v, i - 1>> \notin Range(runnables)
        <5>1. IsFilled(v, i, width)
          BY <2>1, <4>3 DEF IsWrapped
        <5>2. win'[v].caches[i] = WrapLineCache(v, i - 1, width)
          BY <2>4, <3>3, <5>1 DEF IsFilled
        <5>3. ASSUME NEW row \in RowsOfRunnable(i - 1) PROVE needed'[row] >= Len(Pieces(v, row, width))
          <6>1. IsCache(v, i - 1, width)
            BY <1>6, <3>1, CacheOfRows
          <6>2. row \in Row
            BY <6>1 DEF IsCache
          <6>3. needed[row] >= Len(Pieces(v, row, width)) /\ Len(Pieces(v, row, width)) \in Nat
            BY <1>6, <5>1, <6>2, PiecesType DEF IsFilled
          <6>4. needed'[row] >= needed[row] /\ needed'[row] \in Nat /\ needed[row] \in Nat
            BY <1>9, <1>10, <6>2
          <6> QED BY <6>3, <6>4
        <5> QED BY <1>1, <5>2, <5>3 DEF IsFilled
      <4> QED BY <4>2, <4>3
    <3> QED BY <3>2, <3>3
  <2> QED BY <1>1, <2>4, <2>5 DEF IsWrapped
<1> QED BY <1>12, <1>14, <1>15, <1>16 DEF IInv, Running

\* slotFinishRecalcWordWrap() when nobody cancelled.
FinishedWell ==
    /\ posted' = FALSE /\ queue' = <<>>
    /\ sums' = (IF wordWrapOn THEN SumLinesNeeded(needed) ELSE sums)
    /\ win' = [w \in Wins |-> Finished(w)]
    /\ top' = AtMost(RowToLine(wordWrapOn, sums', m_firstD3LIdx), MaxTop(NofLines'))
    /\ topRow' = LineToRow(wordWrapOn, win'[SelWin].vec, top')
    /\ UNCHANGED <<wordWrapOn, width, m_firstD3LIdx, runnables, maxRunnables, cancelled, needed, hung, dropped, stale>>

LEMMA FinishCases ==
    ASSUME IInv, SlotFinishRecalcWordWrap
    PROVE  /\ TypeOK /\ Running /\ ~hung /\ runnables = <<>> /\ queue = <<"finish">> /\ posted
           /\ m_firstD3LIdx \in Nat
           /\ \/ wordWrapOn /\ cancelled /\ WrapCancelled
              \/ ~(wordWrapOn /\ cancelled) /\ FinishedWell
<1>1. ~hung /\ runnables = <<>> /\ queue # <<>> /\ Head(queue) = "finish"
  BY DEF SlotFinishRecalcWordWrap, Idle
<1>2. TypeOK /\ Running
  BY <1>1 DEF IInv
<1>3. Head(queue) # "recalc"
  BY <1>1
<1>4. queue = <<"finish">> /\ posted /\ m_firstD3LIdx \in Nat
  BY <1>1, <1>2, <1>3, QueueIsOne DEF Running, Control
<1>5. Tail(queue) = <<>>
  BY <1>4, QueueIsOne
<1>6. CASE wordWrapOn /\ cancelled
  BY <1>1, <1>2, <1>4, <1>6 DEF SlotFinishRecalcWordWrap
<1>7. CASE ~(wordWrapOn /\ cancelled)
  <2>1. FinishedWell
    BY <1>5, <1>7 DEF SlotFinishRecalcWordWrap, FinishedWell
  <2> QED BY <1>1, <1>2, <1>4, <1>7, <2>1
<1> QED BY <1>6, <1>7

LEMMA CancelledKeeps ==
    ASSUME IInv, SlotFinishRecalcWordWrap, wordWrapOn /\ cancelled
    PROVE  IInv' /\ posted'
<1>1. /\ TypeOK /\ Control /\ TopKnown /\ ~hung /\ runnables = <<>> /\ queue = <<"finish">> /\ posted
      /\ m_firstD3LIdx \in Nat /\ WrapCancelled
  BY FinishCases DEF Running
<1>2. /\ wordWrapOn' = FALSE /\ queue' = <<"recalc">>
      /\ UNCHANGED <<posted, sums, win, selection, top, enabled, topRow>>
  BY <1>1, QueueIsOne DEF WrapCancelled
<1>3. UNCHANGED <<width, m_firstD3LIdx, runnables, maxRunnables, cancelled, needed, hung, chosen, dropped, stale>>
  BY DEF SlotFinishRecalcWordWrap
<1>4. TypeOK' /\ TopKnown'
  BY <1>1, <1>2, <1>3 DEF TypeOK, TopKnown
<1>5. Control' /\ Wrapping' /\ Wrapped'
  BY <1>1, <1>2, <1>3, QueueIsOne DEF Control, Wrapping, Wrapped
<1> QED BY <1>1, <1>2, <1>4, <1>5 DEF IInv, Running

\* The lines of the windows after slotFinishRecalcWordWrap().
LEMMA FinishedWindows ==
    ASSUME TypeOK, FinishedWell, NEW w \in Wins
    PROVE  /\ win'[w] \in WinType /\ win'[w].wrap = wordWrapOn /\ win'[w].caches = win[w].caches
           /\ wordWrapOn => win'[w].vec = Diff3WrapLines(win[w].caches, needed)
<1>1. win[w] \in WinType /\ win[w].caches \in Seq(Lines) /\ needed \in [Row -> Nat \ {0}] /\ wordWrapOn \in BOOLEAN
  BY DEF TypeOK, WinType
<1>2. win'[w] = Finished(w)
  BY DEF FinishedWell
<1>3. CASE wordWrapOn
  <2> DEFINE vec == Diff3WrapLines(win[w].caches, needed)
  <2>1. vec \in Lines
    BY <1>1, AllRowsAreShown DEF ShowsRows
  <2>2. Finished(w) = [win[w] EXCEPT !.wrap = TRUE, !.updates = TRUE, !.vec = vec]
    BY <1>3 DEF Finished
  <2> HIDE DEF vec
  <2>3. win'[w] \in WinType /\ win'[w].wrap /\ win'[w].caches = win[w].caches /\ win'[w].vec = vec
    BY <1>1, <1>2, <2>1, <2>2 DEF WinType
  <2> QED BY <1>3, <2>3 DEF vec
<1>4. CASE ~wordWrapOn
  BY <1>1, <1>2, <1>4 DEF Finished, WinType
<1> QED BY <1>1, <1>3, <1>4

LEMMA FinishKeeps == ASSUME IInv, SlotFinishRecalcWordWrap PROVE IInv'
<1>1. CASE wordWrapOn /\ cancelled
  BY <1>1, CancelledKeeps
<1>2. CASE ~(wordWrapOn /\ cancelled)
  <2>1. /\ TypeOK /\ Control /\ Wrapping /\ ~hung /\ runnables = <<>> /\ queue = <<"finish">> /\ posted
        /\ m_firstD3LIdx \in Nat /\ FinishedWell
    BY <1>2, FinishCases DEF Running
  <2>2. /\ posted' = FALSE /\ queue' = <<>>
        /\ UNCHANGED <<wordWrapOn, width, m_firstD3LIdx, runnables, maxRunnables, cancelled, needed, hung, dropped, stale>>
        /\ sums' = (IF wordWrapOn THEN SumLinesNeeded(needed) ELSE sums)
        /\ top' = AtMost(RowToLine(wordWrapOn, sums', m_firstD3LIdx), MaxTop(NofLines'))
        /\ topRow' = LineToRow(wordWrapOn, win'[SelWin].vec, top')
    BY <2>1 DEF FinishedWell
  <2>3. \A w \in Wins : /\ win'[w] \in WinType /\ win'[w].wrap = wordWrapOn /\ win'[w].caches = win[w].caches
                        /\ wordWrapOn => win'[w].vec = Diff3WrapLines(win[w].caches, needed)
    BY <2>1, FinishedWindows
  <2>4. win' \in [Wins -> WinType]
    <3>1. win' = [w \in Wins |-> win'[w]]
      BY <2>1 DEF FinishedWell
    <3> QED BY <2>3, <3>1
  <2>5. sums' \in [0..Rows -> Nat]
    BY <2>1, <2>2, SumsAreSums DEF TypeOK, IsSum
  <2>6. top' \in Nat
    <3>1. Rows \in Nat \ {0} /\ m_DTWHeight \in Nat
      BY RowsAssumption, WindowsAssumption
    <3>2. AtMost(m_firstD3LIdx, Rows - 1) \in 0..Rows
      BY <2>1, <3>1 DEF AtMost
    <3>3. RowToLine(wordWrapOn, sums', m_firstD3LIdx) \in Nat
      BY <2>1, <2>5, <3>2 DEF RowToLine
    <3>4. NofLines' \in Nat
      BY <2>5, <3>1 DEF NofLines
    <3>5. MaxTop(NofLines') \in Nat
      <4>1. \A x \in Nat : MaxTop(x) \in Nat
        BY <3>1 DEF MaxTop, AtLeast
      <4> QED BY <3>4, <4>1
    <3> QED BY <2>2, <3>3, <3>5 DEF AtMost
  <2>7. TypeOK'
    BY <2>1, <2>2, <2>4, <2>5, <2>6 DEF TypeOK
  <2>8. Control' /\ Wrapping'
    BY <2>1, <2>2, QueueIsOne DEF Control, Wrapping
  <2>9. TopKnown'
    <3>1. win'[SelWin].wrap = wordWrapOn
      BY <2>3, WindowsAssumption
    <3> QED BY <2>2, <3>1 DEF TopKnown
  <2>10. Wrapped'
    <3> SUFFICES ASSUME wordWrapOn PROVE Wrapped'
      BY <2>2 DEF Wrapped
    <3>1. PICK n \in Widths : (n = width \/ dropped) /\ IsWrapped(n)
      BY <1>2, <2>1 DEF Wrapping
    <3>2. IsWrapped(n)'
      BY <2>2, <2>3, <3>1 DEF IsWrapped, IsFilled
    <3>3. \A w \in Wins : win'[w].vec = Diff3WrapLines(win'[w].caches, needed')
      BY <2>2, <2>3
    <3>4. sums' = SumLinesNeeded(needed')
      BY <2>2
    <3> QED BY <2>2, <3>1, <3>2, <3>3, <3>4 DEF Wrapped
  <2> QED BY <2>7, <2>8, <2>9, <2>10 DEF IInv, Running
<1> QED BY <1>1, <1>2

LEMMA StutterKeeps == ASSUME IInv, UNCHANGED vars PROVE IInv'
<1>1. UNCHANGED <<wordWrapOn, width, posted, m_firstD3LIdx, queue, runnables, maxRunnables, cancelled, needed,
                  sums, win, top, hung, topRow, dropped, stale>>
  BY DEF vars
<1>2. TypeOK => TypeOK'
  BY <1>1 DEF TypeOK
<1>3. Running => Running'
  BY <1>1 DEF Running, Control, Wrapping, Wrapped, TopKnown, IsWrapped, IsFilled
<1> QED BY <1>1, <1>2, <1>3 DEF IInv

LEMMA StepKeeps == ASSUME IInv, [Next]_vars PROVE IInv'
<1>1. CASE \E n \in Widths : Resize(n)
  BY <1>1, ResizeKeeps
<1>2. CASE SlotWordWrapToggled
  BY <1>2, ToggledKeeps
<1>3. CASE SlotShowLineNumbersToggled
  BY <1>3, LineNumbersKeep
<1>4. CASE Cancel
  BY <1>4, CancelKeeps
<1>5. CASE SlotRecalcWordWrap
  BY <1>5, SlotRecalcKeeps
<1>6. CASE Run
  BY <1>6, RunKeeps
<1>7. CASE SlotFinishRecalcWordWrap
  BY <1>7, FinishKeeps
<1>8. CASE \E a, b \in Positions : Select(a, b)
  BY <1>8, SelectKeeps
<1>9. CASE \E line \in 0..MaxTop(NofLines) : Scroll(line)
  BY <1>9, ScrollKeeps
<1>10. CASE UNCHANGED vars
  BY <1>10, StutterKeeps
<1> QED BY <1>1, <1>2, <1>3, <1>4, <1>5, <1>6, <1>7, <1>8, <1>9, <1>10 DEF Next

\* The invariant holds from the first step on.
THEOREM WrapInvariant == Spec => []IInv
<1>1. Init => IInv
  BY InitKeeps
<1>2. IInv /\ [Next]_vars => IInv'
  BY StepKeeps
<1> QED BY <1>1, <1>2, PTL DEF Spec

-----------------------------------------------------------------------------
(* What the windows show. *)

LEMMA PrefixByElements ==
    ASSUME NEW S, NEW s \in Seq(S), NEW t \in Seq(S), Len(s) <= Len(t), Len(s) # 0,
           \A j \in 1..Len(s) : t[j] = s[j]
    PROVE  IsPrefix(s, t)
<1> DEFINE n == Len(s)
<1>1. n \in Nat \ {0} /\ Len(t) \in Nat /\ n <= Len(t)
  BY LenProperties
<1>2. \A j \in 1..n : s[j] \in S /\ t[j] \in S
  BY ElementOfSeq
<1> HIDE DEF n
<1>3. /\ SubSeq(s, 1, n) \in Seq(S) /\ Len(SubSeq(s, 1, n)) = n
      /\ \A j \in 1..n : SubSeq(s, 1, n)[j] = s[j]
  <2>1. n - 1 + 1 = n /\ 1 <= n /\ \A j \in 1..n : 1 + j - 1 = j
    BY <1>1
  <2>2. /\ SubSeq(s, 1, n) \in Seq(S)
        /\ Len(SubSeq(s, 1, n)) = IF 1 <= n THEN n - 1 + 1 ELSE 0
        /\ \A j \in 1..n - 1 + 1 : SubSeq(s, 1, n)[j] = s[1 + j - 1]
    BY <1>1, <1>2, SubSeqProperties
  <2> QED BY <2>1, <2>2
<1>4. /\ SubSeq(t, 1, n) \in Seq(S) /\ Len(SubSeq(t, 1, n)) = n
      /\ \A j \in 1..n : SubSeq(t, 1, n)[j] = t[j]
  <2>1. n - 1 + 1 = n /\ 1 <= n /\ \A j \in 1..n : 1 + j - 1 = j
    BY <1>1
  <2>2. /\ SubSeq(t, 1, n) \in Seq(S)
        /\ Len(SubSeq(t, 1, n)) = IF 1 <= n THEN n - 1 + 1 ELSE 0
        /\ \A j \in 1..n - 1 + 1 : SubSeq(t, 1, n)[j] = t[1 + j - 1]
    BY <1>1, <1>2, SubSeqProperties
  <2> QED BY <2>1, <2>2
<1> DEFINE u == SubSeq(s, 1, n)
           v == SubSeq(t, 1, n)
<1>5. u \in Seq(S) /\ v \in Seq(S) /\ Len(u) = Len(v) /\ \A j \in 1..Len(u) : u[j] = v[j]
  BY <1>3, <1>4 DEF n
<1> HIDE DEF u, v
<1>6. u = v
  BY <1>5, SeqEqual
<1> QED BY <1>1, <1>6 DEF IsPrefix, u, v, n

\* The lines of a row begin where the rows above it end.
LEMMA RowOfLine ==
    ASSUME NEW vec, NEW sum, NEW caches, NEW counts, ShowsRows(vec, sum, caches, counts),
           NEW row \in Row, NEW j \in 1..counts[row]
    PROVE  vec[sum[row] + j].row = row
<1> DEFINE r == LinesOfRow(caches, counts, row)
<1>1. r \in Seq(LinesIn({row})) /\ Len(r) = counts[row] /\ vec[sum[row] + j] = r[j]
  BY DEF ShowsRows
<1> HIDE DEF r
<1>2. r[j] \in LinesIn({row})
  BY <1>1, ElementOfSeq
<1> QED BY <1>1, <1>2 DEF LinesIn

\* In state where nothing is asked for, all windows have their lines.
LEMMA WindowsAreWrapped ==
    ASSUME IInv, Settled, wordWrapOn
    PROVE  /\ TypeOK
           /\ \A w \in Wins : ShowsRows(win[w].vec, sums, win[w].caches, needed)
           /\ dropped \/ \A w \in Wins, row \in Row :
                            /\ EntriesOf(win[w].caches, row) = Pieces(w, row, width)
                            /\ Len(Pieces(w, row, width)) <= needed[row]
<1>1. ~posted /\ runnables = <<>> /\ ~hung
  BY DEF Settled, Idle
<1>2. TypeOK /\ Wrapped
  BY <1>1 DEF IInv, Running
<1>3. \A w \in Wins : win[w].caches \in Seq(Lines)
  BY <1>2 DEF TypeOK, WinType
<1>4. \A w \in Wins : ShowsRows(win[w].vec, sums, win[w].caches, needed)
  <2>1. sums = SumLinesNeeded(needed) /\ \A w \in Wins : win[w].vec = Diff3WrapLines(win[w].caches, needed)
    BY <1>1, <1>2 DEF Wrapped
  <2>2. needed \in [Row -> Nat \ {0}]
    BY <1>2 DEF TypeOK
  <2> QED BY <1>3, <2>1, <2>2, AllRowsAreShown
<1>5. ASSUME ~dropped, NEW w \in Wins, NEW row \in Row
      PROVE  /\ EntriesOf(win[w].caches, row) = Pieces(w, row, width)
             /\ Len(Pieces(w, row, width)) <= needed[row]
  <2>1. width \in Nat \ {0} /\ IsWrapped(width)
    BY <1>1, <1>2, <1>5, WindowsAssumption DEF Wrapped, TypeOK
  <2>2. Len(win[w].caches) = RunnablesOfWindow /\ \A k \in 1..RunnablesOfWindow : IsFilled(w, k, width)
    <3>1. Range(runnables) = {}
      BY <1>1 DEF Range
    <3> QED BY <2>1, <3>1 DEF IsWrapped
  <2>3. \A k \in 1..RunnablesOfWindow : win[w].caches[k] = WrapLineCache(w, k - 1, width)
    BY <2>2 DEF IsFilled
  <2>4. EntriesOf(win[w].caches, row) = Pieces(w, row, width)
    BY <1>3, <2>1, <2>2, <2>3, EntriesAreThePieces
  <2>5. PICK k \in 0..RunnablesOfWindow - 1 : row \in RowsOfRunnable(k)
    BY RunnableOfRow
  <2>6. k + 1 \in 1..RunnablesOfWindow /\ (k + 1) - 1 = k
    BY RunnableWorks
  <2>7. needed[row] >= Len(Pieces(w, row, width))
    BY <2>2, <2>5, <2>6 DEF IsFilled
  <2>8. needed[row] \in Nat /\ Len(Pieces(w, row, width)) \in Nat
    BY <1>2, <2>1, PiecesType DEF TypeOK
  <2> QED BY <2>4, <2>7, <2>8
<1> QED BY <1>2, <1>4, <1>5

LEMMA ShownByInvariant == ASSUME IInv PROVE LinesShowTheText
<1> SUFFICES ASSUME Settled, wordWrapOn, NEW w \in Wins
    PROVE /\ [i \in DOMAIN win[w].vec |-> win[w].vec[i].row] = [i \in DOMAIN win[SelWin].vec |-> win[SelWin].vec[i].row]
          /\ \A row \in Row : LET of == OfRow(win[w].vec, row)
                              IN IF dropped THEN Len(of) >= 1
                                 ELSE IsPrefix(Pieces(w, row, width), of) /\ win[w].vec[sums[row] + 1] = of[1]
  BY DEF LinesShowTheText
<1>1. /\ TypeOK /\ \A v \in Wins : ShowsRows(win[v].vec, sums, win[v].caches, needed)
      /\ dropped \/ \A v \in Wins, row \in Row :
                       /\ EntriesOf(win[v].caches, row) = Pieces(v, row, width)
                       /\ Len(Pieces(v, row, width)) <= needed[row]
  BY WindowsAreWrapped
<1>2. needed \in [Row -> Nat \ {0}]
  BY <1>1 DEF TypeOK
<1>3. [i \in DOMAIN win[w].vec |-> win[w].vec[i].row] = [i \in DOMAIN win[SelWin].vec |-> win[SelWin].vec[i].row]
  <2> DEFINE a == win[w].vec
             b == win[SelWin].vec
  <2>1. ShowsRows(a, sums, win[w].caches, needed) /\ ShowsRows(b, sums, win[SelWin].caches, needed)
    BY <1>1, WindowsAssumption
  <2> HIDE DEF a, b
  <2>2. DOMAIN a = 1..sums[Rows] /\ DOMAIN b = 1..sums[Rows] /\ Len(a) = sums[Rows]
    <3>1. a \in Lines /\ b \in Lines /\ Len(a) = sums[Rows] /\ Len(b) = sums[Rows]
      BY <2>1 DEF ShowsRows
    <3> HIDE DEF EntryType
    <3> QED BY <3>1, LenProperties DEF Lines
  <2>3. ASSUME NEW i \in 1..sums[Rows] PROVE a[i].row = b[i].row
    <3>1. PICK row \in Row : \E j \in 1..needed[row] : i = sums[row] + j
      BY <2>1, <2>2 DEF ShowsRows
    <3>2. PICK j \in 1..needed[row] : i = sums[row] + j
      BY <3>1
    <3> QED BY <2>1, <3>2, RowOfLine
  <2>4. [i \in DOMAIN a |-> a[i].row] = [i \in DOMAIN b |-> b[i].row]
    BY <2>2, <2>3
  <2> QED BY <2>4 DEF a, b
<1>4. ASSUME NEW row \in Row
      PROVE  LET of == OfRow(win[w].vec, row)
             IN IF dropped THEN Len(of) >= 1
                ELSE IsPrefix(Pieces(w, row, width), of) /\ win[w].vec[sums[row] + 1] = of[1]
  <2> DEFINE of == OfRow(win[w].vec, row)
             r == LinesOfRow(win[w].caches, needed, row)
             p == Pieces(w, row, width)
  <2>1. /\ of = r /\ r \in Seq(LinesIn({row})) /\ Len(r) = needed[row]
        /\ \A j \in 1..needed[row] : win[w].vec[sums[row] + j] = r[j]
    BY <1>1 DEF ShowsRows
  <2>2. needed[row] \in Nat \ {0}
    BY <1>2
  <2>3. ASSUME ~dropped PROVE IsPrefix(p, of) /\ win[w].vec[sums[row] + 1] = of[1]
    <3>1. EntriesOf(win[w].caches, row) = p /\ Len(p) <= needed[row]
      BY <1>1, <2>3
    <3>2. win[w].caches \in Seq(Lines) /\ width \in Nat \ {0}
      BY <1>1, WindowsAssumption DEF TypeOK, WinType
    <3>3. p \in Seq(LinesIn({row})) /\ Len(p) \in Nat \ {0}
      BY <3>2, PiecesType
    <3>4. \A j \in 1..needed[row] : j <= Len(p) => r[j] = p[j]
      <4> DEFINE cs == win[w].caches
      <4>0. cs \in Seq(Lines)
        BY <3>2
      <4> HIDE DEF cs
      <4>1. BeginsWith(r, EntriesOf(cs, row), needed[row])
        BY <1>2, <4>0, RowIsFilled DEF cs
      <4> HIDE DEF r, p
      <4> QED BY <3>1, <4>1 DEF BeginsWith, cs
    <3> HIDE DEF of, r, p
    <3>5. \A j \in 1..Len(p) : r[j] = p[j]
      BY <2>2, <3>1, <3>3, <3>4
    <3>6. IsPrefix(p, r)
      BY <2>1, <3>1, <3>3, <3>5, PrefixByElements
    <3>7. 1 \in 1..needed[row]
      BY <2>2
    <3> QED BY <2>1, <3>6, <3>7
  <2> QED BY <2>1, <2>2, <2>3
<1> QED BY <1>3, <1>4

\* All windows break the rows into the same lines, and those of a row are its
\* text in the width of the window (slotFinishRecalcWordWrap()), whatever the
\* rows are and however often and in which order it is asked for.
THEOREM LinesAreShown == Spec => []LinesShowTheText
<1>1. IInv => LinesShowTheText
  BY ShownByInvariant
<1> QED BY <1>1, WrapInvariant, PTL

LEMMA RowIsKept ==
    ASSUME IInv, SlotFinishRecalcWordWrap, ~posted', ~stale
    PROVE  topRow' \in {topRow, AtMost(topRow, Rows - 1)} \/ top' = MaxTop(NofLines')
<1>1. ~(wordWrapOn /\ cancelled)
  BY CancelledKeeps
<1>2. TypeOK /\ TopKnown /\ posted /\ m_firstD3LIdx \in Nat /\ FinishedWell
  BY <1>1, FinishCases DEF Running
<1>3. topRow = m_firstD3LIdx
  BY <1>2 DEF TopKnown
<1> DEFINE m == topRow
           b == AtMost(m, Rows - 1)
           s == RowToLine(wordWrapOn, sums', m)
<1>4. /\ top' = AtMost(s, MaxTop(NofLines'))
      /\ topRow' = LineToRow(wordWrapOn, win'[SelWin].vec, top')
      /\ sums' = (IF wordWrapOn THEN SumLinesNeeded(needed) ELSE sums)
  BY <1>2, <1>3 DEF FinishedWell
<1>5. top' = s \/ top' = MaxTop(NofLines')
  BY <1>4 DEF AtMost
<1>6. m \in Nat /\ b \in Row /\ b \in 0..Rows
  BY <1>2, <1>3, RowsAssumption DEF Row, AtMost
<1>7. ASSUME top' = s PROVE topRow' \in {m, b}
  <2>1. CASE wordWrapOn
    <3> DEFINE vec == win'[SelWin].vec
               caches == win[SelWin].caches
    <3>1. SelWin \in Wins /\ caches \in Seq(Lines) /\ needed \in [Row -> Nat \ {0}]
      BY <1>2, WindowsAssumption DEF TypeOK, WinType
    <3>2. vec = Diff3WrapLines(caches, needed) /\ sums' = SumLinesNeeded(needed)
      BY <1>2, <1>4, <2>1, <3>1, FinishedWindows
    <3>3. ShowsRows(vec, sums', caches, needed)
      BY <3>1, <3>2, AllRowsAreShown
    <3>4. s = sums'[b]
      BY <2>1 DEF RowToLine
    <3> HIDE DEF vec, caches, s, b
    <3>5. 1 \in 1..needed[b] /\ b \in Row
      BY <1>6, <3>1
    <3>6. s + 1 \in 1..Len(vec) /\ vec[s + 1].row = b
      <4>1. vec[sums'[b] + 1].row = b
        BY <3>3, <3>5, RowOfLine
      <4>2. sums'[b] + 1 \in 1..Len(vec)
        BY <3>3, <3>5 DEF ShowsRows
      <4> QED BY <3>4, <4>1, <4>2
    <3>7. vec \in Lines /\ s \in Nat /\ Len(vec) \in Nat
      <4>1. vec \in Lines
        BY <3>3 DEF ShowsRows
      <4>2. s \in Nat
        BY <1>6, <3>1, <3>2, <3>4, SumsAreSums DEF IsSum
      <4> HIDE DEF EntryType
      <4> QED BY <4>1, <4>2, LenProperties DEF Lines
    <3>8. vec # <<>> /\ AtMost(s, Len(vec) - 1) = s
      <4>1. Len(<<>>) = 0
        BY EmptySeq
      <4> QED BY <3>6, <3>7, <4>1 DEF AtMost
    <3>9. LineToRow(TRUE, vec, s) = vec[s + 1].row
      BY <3>8 DEF LineToRow, AtLine
    <3> QED BY <1>4, <1>7, <2>1, <3>6, <3>9 DEF vec
  <2>2. CASE ~wordWrapOn
    BY <1>4, <1>7, <2>2 DEF LineToRow, RowToLine
  <2>3. wordWrapOn \in BOOLEAN
    BY <1>2 DEF TypeOK
  <2> QED BY <2>1, <2>2, <2>3
<1> QED BY <1>5, <1>7

\* The row at the top of the windows is there again when they have been wrapped
\* anew, or the text ends with the window (m_firstD3LIdx, setFirstLine()).  It
\* says so of the wraps that were requested; the one that changing the line
\* numbers begins goes to the row of an earlier request (stale).
THEOREM TopRowStays == Spec => TopRowKept
<1> DEFINE IsKept ==
               posted /\ ~posted' /\ ~stale =>
                   topRow' \in {topRow, AtMost(topRow, Rows - 1)} \/ top' = MaxTop(NofLines')
<1>1. IInv /\ [Next]_vars => [IsKept]_vars
  <2> SUFFICES ASSUME IInv, Next, posted, ~posted' PROVE IsKept
    OBVIOUS
  <2>1. PostRecalcWordWrap => posted'
    BY DEF PostRecalcWordWrap
  <2>2. RecalcWordWrap => posted'
    BY DEF RecalcWordWrap
  <2>3. (\E n \in Widths : Resize(n)) \/ SlotWordWrapToggled => posted'
    BY <2>1 DEF Resize, SlotWordWrapToggled
  <2>4. Cancel \/ Run \/ (\E a, b \in Positions : Select(a, b)) \/ (\E line \in 0..MaxTop(NofLines) : Scroll(line)) => posted'
    BY DEF Cancel, Run, Select, Scroll
  <2>5. SlotRecalcWordWrap \/ SlotShowLineNumbersToggled => posted'
    BY <2>2 DEF SlotRecalcWordWrap, SlotShowLineNumbersToggled
  <2>6. SlotFinishRecalcWordWrap
    BY <2>3, <2>4, <2>5 DEF Next
  <2> QED BY <2>6, RowIsKept
<1> QED BY <1>1, WrapInvariant, PTL DEF Spec, TopRowKept
=============================================================================
