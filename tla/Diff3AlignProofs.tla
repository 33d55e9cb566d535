-------------------------- MODULE Diff3AlignProofs --------------------------
(* Proofs about Diff3Align, for files of any length and any list of manual   *)
(* alignments: every line has its row, and equal lines that share one are    *)
(* flagged.                                                                  *)
EXTENDS Diff3Align, ListLemmas

(* Lines of a side in a part of the rows. *)

\* c counts the lines of s in the rows from i to j, which come in their order.
Counts(c, rs, s, i, j) ==
    /\ c \in [i - 1..j -> Nat]
    /\ \A k \in i..j : IF rs[k].at[s] = NoLine THEN c[k] = c[k - 1]
                       ELSE c[k] = c[k - 1] + 1 /\ rs[k].at[s] = c[k]

\* The rows from i to j hold the lines of s behind m up to n, in order.
LinesIn(rs, s, i, j, m, n) ==
    \E c : Counts(c, rs, s, i, j) /\ c[i - 1] = m /\ c[j] = n

LEMMA LinesJoined ==
    ASSUME NEW rs, NEW s, NEW i \in Nat \ {0}, NEW j \in Nat, NEW k \in Nat, i <= j + 1, j <= k,
           NEW m, NEW p, NEW n, LinesIn(rs, s, i, j, m, p), LinesIn(rs, s, j + 1, k, p, n)
    PROVE  LinesIn(rs, s, i, k, m, n)
<1>1. PICK c : Counts(c, rs, s, i, j) /\ c[i - 1] = m /\ c[j] = p
  BY DEF LinesIn
<1>2. PICK d : Counts(d, rs, s, j + 1, k) /\ d[j] = p /\ d[k] = n
  BY DEF LinesIn
<1> DEFINE e == [x \in i - 1..k |-> IF x <= j THEN c[x] ELSE d[x]]
<1>3. /\ e \in [i - 1..k -> Nat]
      /\ \A x \in i - 1..j : e[x] = c[x]
      /\ \A x \in j..k : e[x] = d[x]
  BY <1>1, <1>2 DEF Counts
<1> HIDE DEF e
<1>4. ASSUME NEW x \in i..k
      PROVE  IF rs[x].at[s] = NoLine THEN e[x] = e[x - 1]
             ELSE e[x] = e[x - 1] + 1 /\ rs[x].at[s] = e[x]
  <2>1. CASE x <= j
    <3>1. x \in i..j /\ x \in i - 1..j /\ x - 1 \in i - 1..j
      BY <2>1
    <3> QED BY <1>1, <1>3, <3>1 DEF Counts
  <2>2. CASE x > j
    <3>1. x \in j + 1..k /\ x \in j..k /\ x - 1 \in j..k
      BY <2>2
    <3> QED BY <1>2, <1>3, <3>1 DEF Counts
  <2> QED BY <2>1, <2>2
<1>5. e[i - 1] = m /\ e[k] = n
  <2>1. i - 1 \in i - 1..j /\ k \in j..k
    OBVIOUS
  <2> QED BY <1>1, <1>2, <1>3, <2>1
<1>6. Counts(e, rs, s, i, k)
  BY <1>3, <1>4 DEF Counts
<1> QED BY <1>5, <1>6 DEF LinesIn

LEMMA LinesParted ==
    ASSUME NEW rs, NEW s, NEW i \in Nat \ {0}, NEW j \in Nat, NEW k \in Nat, i <= j + 1, j <= k,
           NEW m, NEW n, LinesIn(rs, s, i, k, m, n)
    PROVE  \E p \in Nat : LinesIn(rs, s, i, j, m, p) /\ LinesIn(rs, s, j + 1, k, p, n)
<1>1. PICK c : Counts(c, rs, s, i, k) /\ c[i - 1] = m /\ c[k] = n
  BY DEF LinesIn
<1> DEFINE d == [x \in i - 1..j |-> c[x]]
           e == [x \in (j + 1) - 1..k |-> c[x]]
<1>2. /\ c[j] \in Nat
      /\ d \in [i - 1..j -> Nat] /\ \A x \in i - 1..j : d[x] = c[x]
      /\ e \in [(j + 1) - 1..k -> Nat] /\ \A x \in j..k : e[x] = c[x]
  BY <1>1 DEF Counts
<1> HIDE DEF d, e
<1>3. Counts(d, rs, s, i, j) /\ d[i - 1] = m /\ d[j] = c[j]
  <2>1. \A x \in i..j : x \in i..k /\ x \in i - 1..j /\ x - 1 \in i - 1..j
    OBVIOUS
  <2>2. i - 1 \in i - 1..j /\ j \in i - 1..j
    OBVIOUS
  <2> QED BY <1>1, <1>2, <2>1, <2>2 DEF Counts
<1>4. Counts(e, rs, s, j + 1, k) /\ e[(j + 1) - 1] = c[j] /\ e[k] = n
  <2>1. \A x \in j + 1..k : x \in i..k /\ x \in j..k /\ x - 1 \in j..k
    OBVIOUS
  <2>2. (j + 1) - 1 = j /\ j \in j..k /\ k \in j..k
    OBVIOUS
  <2> QED BY <1>1, <1>2, <2>1, <2>2 DEF Counts
<1> QED BY <1>2, <1>3, <1>4 DEF LinesIn

\* Rows of another list, farther down or up by d, that hold the same lines of s.
LEMMA LinesMoved ==
    ASSUME NEW rs, NEW q, NEW s, NEW i \in Nat \ {0}, NEW j \in Nat, i <= j + 1,
           NEW m, NEW n, LinesIn(rs, s, i, j, m, n),
           NEW d \in Int, i + d \in Nat \ {0},
           \A k \in i..j : q[k + d].at[s] = rs[k].at[s]
    PROVE  LinesIn(q, s, i + d, j + d, m, n)
<1>1. PICK c : Counts(c, rs, s, i, j) /\ c[i - 1] = m /\ c[j] = n
  BY DEF LinesIn
<1> DEFINE e == [x \in (i + d) - 1..j + d |-> c[x - d]]
<1>2. ASSUME NEW x \in (i + d) - 1..j + d PROVE x - d \in i - 1..j
  OBVIOUS
<1>3. e \in [(i + d) - 1..j + d -> Nat]
  BY <1>1, <1>2 DEF Counts
<1>4. \A x \in i - 1..j : x + d \in (i + d) - 1..j + d /\ (x + d) - d = x
  OBVIOUS
<1>5. \A x \in (i + d) - 1..j + d : e[x] = c[x - d]
  OBVIOUS
<1> HIDE DEF e
<1>6. ASSUME NEW x \in i + d..j + d
      PROVE  IF q[x].at[s] = NoLine THEN e[x] = e[x - 1]
             ELSE e[x] = e[x - 1] + 1 /\ q[x].at[s] = e[x]
  <2> DEFINE k == x - d
  <2>1. k \in i..j /\ k + d = x /\ k - 1 = (x - 1) - d
        /\ x \in (i + d) - 1..j + d /\ x - 1 \in (i + d) - 1..j + d
    OBVIOUS
  <2>2. q[x].at[s] = rs[k].at[s] /\ e[x] = c[k] /\ e[x - 1] = c[k - 1]
    BY <1>5, <2>1
  <2> HIDE DEF k
  <2> QED BY <1>1, <2>1, <2>2 DEF Counts
<1>7. e[(i + d) - 1] = m /\ e[j + d] = n
  <2>1. (i + d) - 1 = (i - 1) + d /\ i - 1 \in i - 1..j /\ j \in i - 1..j
    OBVIOUS
  <2> QED BY <1>1, <1>4, <1>5, <2>1
<1> QED BY <1>3, <1>6, <1>7 DEF LinesIn, Counts

\* Rows without a line of s.
LEMMA LinesNone ==
    ASSUME NEW rs, NEW s, NEW i \in Nat \ {0}, NEW j \in Nat, i <= j + 1,
           \A k \in i..j : rs[k].at[s] = NoLine, NEW m \in Nat
    PROVE  LinesIn(rs, s, i, j, m, m)
<1> DEFINE c == [x \in i - 1..j |-> m]
<1>1. Counts(c, rs, s, i, j)
  BY DEF Counts
<1>2. c[i - 1] = m /\ c[j] = m
  OBVIOUS
<1> QED BY <1>1, <1>2 DEF LinesIn

\* Rows that hold one line of s each.
LEMMA LinesEach ==
    ASSUME NEW rs, NEW s, NEW i \in Nat \ {0}, NEW j \in Nat, i <= j + 1, NEW m \in Nat,
           \A k \in i..j : rs[k].at[s] = m + k - i + 1
    PROVE  LinesIn(rs, s, i, j, m, m + j - i + 1)
<1> DEFINE c == [x \in i - 1..j |-> m + x - i + 1]
<1>1. c \in [i - 1..j -> Nat]
  OBVIOUS
<1>2. \A x \in i - 1..j : c[x] = m + x - i + 1
  OBVIOUS
<1> HIDE DEF c
<1>3. ASSUME NEW k \in i..j PROVE rs[k].at[s] # NoLine /\ c[k] = c[k - 1] + 1 /\ rs[k].at[s] = c[k]
  <2>1. k \in i - 1..j /\ k - 1 \in i - 1..j
    OBVIOUS
  <2> QED BY <1>2, <2>1 DEF NoLine
<1>4. Counts(c, rs, s, i, j)
  BY <1>1, <1>3 DEF Counts
<1>5. c[i - 1] = m /\ c[j] = m + j - i + 1
  BY <1>2
<1> QED BY <1>4, <1>5 DEF LinesIn

\* What is held does not depend on the way to count, and goes up.
LEMMA LinesWell ==
    ASSUME NEW rs, NEW s, NEW i \in Nat \ {0}, NEW j \in Nat, i <= j + 1,
           NEW m, NEW n, LinesIn(rs, s, i, j, m, n)
    PROVE  /\ m \in Nat /\ n \in Nat /\ m <= n
           /\ \A p : LinesIn(rs, s, i, j, m, p) => p = n
<1>1. PICK c : Counts(c, rs, s, i, j) /\ c[i - 1] = m /\ c[j] = n
  BY DEF LinesIn
<1>2. c \in [i - 1..j -> Nat] /\ i - 1 \in i - 1..j /\ j \in i - 1..j
  BY <1>1 DEF Counts
<1>3. m \in Nat /\ n \in Nat
  BY <1>1, <1>2
<1> DEFINE P == {x \in Nat : x <= j - i + 1 => c[i - 1 + x] >= m}
<1>4. 0 \in P
  <2>1. i - 1 + 0 = i - 1
    OBVIOUS
  <2> QED BY <1>1, <1>3, <2>1
<1>5. ASSUME NEW x \in Nat, x \in P PROVE x + 1 \in P
  <2> SUFFICES ASSUME x + 1 <= j - i + 1 PROVE c[i - 1 + (x + 1)] >= m
    OBVIOUS
  <2> DEFINE k == i - 1 + (x + 1)
  <2>1. k \in i..j /\ k - 1 = i - 1 + x /\ k \in i - 1..j /\ k - 1 \in i - 1..j
    OBVIOUS
  <2>2. c[k - 1] >= m
    BY <1>5, <2>1
  <2>3. c[k] = c[k - 1] \/ c[k] = c[k - 1] + 1
    BY <1>1, <2>1 DEF Counts
  <2> QED BY <1>2, <1>3, <2>1, <2>2, <2>3
<1>6. m <= n
  <2> HIDE DEF P
  <2>1. \A x \in Nat : x \in P
    BY <1>4, <1>5, SetInduction
  <2>2. j - i + 1 \in Nat /\ i - 1 + (j - i + 1) = j
    OBVIOUS
  <2> QED BY <1>1, <2>1, <2>2 DEF P
<1>7. ASSUME NEW p, LinesIn(rs, s, i, j, m, p) PROVE p = n
  <2>1. PICK d : Counts(d, rs, s, i, j) /\ d[i - 1] = m /\ d[j] = p
    BY <1>7 DEF LinesIn
  <2>2. d \in [i - 1..j -> Nat]
    BY <2>1 DEF Counts
  <2> DEFINE Q == {x \in Nat : x <= j - i + 1 => c[i - 1 + x] = d[i - 1 + x]}
  <2>3. 0 \in Q
    <3>1. i - 1 + 0 = i - 1
      OBVIOUS
    <3> QED BY <1>1, <2>1, <3>1
  <2>4. ASSUME NEW x \in Nat, x \in Q PROVE x + 1 \in Q
    <3> SUFFICES ASSUME x + 1 <= j - i + 1 PROVE c[i - 1 + (x + 1)] = d[i - 1 + (x + 1)]
      OBVIOUS
    <3> DEFINE k == i - 1 + (x + 1)
    <3>1. k \in i..j /\ k - 1 = i - 1 + x
      OBVIOUS
    <3>2. c[k - 1] = d[k - 1]
      BY <2>4, <3>1
    <3> QED BY <1>1, <2>1, <3>1, <3>2 DEF Counts
  <2> HIDE DEF Q
  <2>5. \A x \in Nat : x \in Q
    BY <2>3, <2>4, SetInduction
  <2>6. j - i + 1 \in Nat /\ i - 1 + (j - i + 1) = j
    OBVIOUS
  <2> QED BY <1>1, <2>1, <2>5, <2>6 DEF Q
<1> QED BY <1>3, <1>6, <1>7

\* Rows of another list that hold the same lines of s.
LEMMA LinesSame ==
    ASSUME NEW rs, NEW q, NEW s, NEW i \in Nat \ {0}, NEW j \in Nat,
           NEW m, NEW n, LinesIn(rs, s, i, j, m, n),
           \A k \in i..j : q[k].at[s] = rs[k].at[s]
    PROVE  LinesIn(q, s, i, j, m, n)
BY DEF LinesIn, Counts

\* Row x is the first from k on with line l, the lines behind m being there.
FirstWith(rs, s, k, x, m, l) ==
    /\ rs[x].at[s] = l
    /\ LinesIn(rs, s, k, x - 1, m, l - 1) /\ LinesIn(rs, s, k, x, m, l)
    /\ \A y \in k..x - 1 : rs[y].at[s] # l
    /\ l = m + 1 => \A y \in k..x - 1 : rs[y].at[s] = NoLine

\* The row that holds a line, when the rows before k hold fewer.
LEMMA LinesFound ==
    ASSUME NEW rs, NEW s, NEW k \in Nat \ {0}, NEW j \in Nat, k <= j + 1, NEW m \in Nat, NEW n \in Nat,
           LinesIn(rs, s, k, j, m, n), NEW l \in m + 1..n
    PROVE  \E x \in k..j : FirstWith(rs, s, k, x, m, l)
<1>1. PICK c : Counts(c, rs, s, k, j) /\ c[k - 1] = m /\ c[j] = n
  BY DEF LinesIn
<1> DEFINE I == {x \in k..j : c[x] >= l}
           x == Min(I)
<1>2. c \in [k - 1..j -> Nat]
  BY <1>1 DEF Counts
<1>3. j \in I /\ I \subseteq Nat
  <2>1. j # k - 1
    BY <1>1
  <2> QED BY <1>1, <2>1
<1>4. x \in I /\ \A y \in I : x <= y
  <2> HIDE DEF I
  <2> QED BY <1>3, MinWell
<1> HIDE DEF x
<1>5. x \in k..j /\ c[x] >= l /\ x - 1 \in k - 1..j
  BY <1>4
<1>6. c[x - 1] < l
  <2>1. CASE x = k
    BY <1>1, <2>1
  <2>2. CASE x # k
    <3>1. x - 1 \in k..j /\ x - 1 < x /\ x - 1 \in k - 1..j
      BY <1>5, <2>2
    <3> QED BY <1>2, <1>4, <3>1
  <2> QED BY <2>1, <2>2
<1>7. c[x] = l /\ c[x - 1] = l - 1 /\ rs[x].at[s] = l
  <2>1. c[x - 1] \in Nat /\ c[x] \in Nat
    BY <1>2, <1>5
  <2>2. IF rs[x].at[s] = NoLine THEN c[x] = c[x - 1]
        ELSE c[x] = c[x - 1] + 1 /\ rs[x].at[s] = c[x]
    BY <1>1, <1>5 DEF Counts
  <2> QED BY <1>5, <1>6, <2>1, <2>2
<1>8. LinesIn(rs, s, k, x - 1, m, l - 1) /\ LinesIn(rs, s, k, x, m, l)
  <2> DEFINE d == [y \in k - 1..x |-> c[y]]
             e == [y \in k - 1..x - 1 |-> c[y]]
  <2>2. /\ \A y \in k..x : y \in k - 1..x /\ y - 1 \in k - 1..x /\ y \in k..j
        /\ \A y \in k..x - 1 : y \in k - 1..x - 1 /\ y - 1 \in k - 1..x - 1 /\ y \in k..j
        /\ k - 1 \in k - 1..x /\ x \in k - 1..x /\ k - 1 \in k - 1..x - 1 /\ x - 1 \in k - 1..x - 1
    BY <1>5
  <2>3. d \in [k - 1..x -> Nat] /\ e \in [k - 1..x - 1 -> Nat]
    BY <1>2, <1>5
  <2>4. (\A y \in k - 1..x : d[y] = c[y]) /\ (\A y \in k - 1..x - 1 : e[y] = c[y])
    OBVIOUS
  <2> HIDE DEF d, e
  <2>5. Counts(d, rs, s, k, x)
    BY <1>1, <2>2, <2>3, <2>4 DEF Counts
  <2>6. Counts(e, rs, s, k, x - 1)
    BY <1>1, <2>2, <2>3, <2>4 DEF Counts
  <2>7. d[k - 1] = m /\ d[x] = l /\ e[k - 1] = m /\ e[x - 1] = l - 1
    BY <1>1, <1>7, <2>2, <2>4
  <2> QED BY <2>5, <2>6, <2>7 DEF LinesIn
<1>9. ASSUME NEW y \in k..x - 1 PROVE rs[y].at[s] # l
  <2>1. y \in k..j /\ y \in k - 1..j /\ ~(c[y] >= l)
    BY <1>4, <1>5
  <2>2. c[y] \in Nat /\ l \in Nat \ {0}
    BY <1>2, <2>1
  <2>3. rs[y].at[s] = NoLine \/ rs[y].at[s] = c[y]
    BY ONLY <1>1, <2>1 DEF Counts
  <2> QED BY ONLY <2>1, <2>2, <2>3 DEF NoLine
<1>10. ASSUME l = m + 1, NEW y \in k..x - 1 PROVE rs[y].at[s] = NoLine
  <2>1. PICK p \in Nat : LinesIn(rs, s, k, y - 1, m, p) /\ LinesIn(rs, s, y - 1 + 1, x - 1, p, l - 1)
    <3>1. k <= y - 1 + 1 /\ y - 1 <= x - 1 /\ y - 1 \in Nat /\ x - 1 \in Nat
      BY <1>5
    <3> QED BY <1>8, <3>1, LinesParted
  <2>2. PICK q \in Nat : LinesIn(rs, s, y, y, p, q) /\ LinesIn(rs, s, y + 1, x - 1, q, l - 1)
    <3>1. y - 1 + 1 = y /\ y <= y + 1 /\ y <= x - 1 /\ y \in Nat \ {0} /\ x - 1 \in Nat
      BY <1>5
    <3> QED BY <2>1, <3>1, LinesParted
  <2>3. m <= p /\ p <= q /\ q <= l - 1
    <3>1. /\ k \in Nat \ {0} /\ y - 1 \in Nat /\ k <= y - 1 + 1
          /\ y \in Nat \ {0} /\ y \in Nat /\ y <= y + 1
          /\ y + 1 \in Nat \ {0} /\ x - 1 \in Nat /\ y + 1 <= x - 1 + 1
      BY <1>5
    <3>2. m <= p
      BY <2>1, <3>1, LinesWell
    <3>3. p <= q
      BY <2>2, <3>1, LinesWell
    <3>4. q <= l - 1
      BY <2>2, <3>1, LinesWell
    <3> QED BY <3>2, <3>3, <3>4
  <2>4. p = q
    BY <1>10, <2>3
  <2>5. PICK d : Counts(d, rs, s, y, y) /\ d[y - 1] = p /\ d[y] = q
    BY <2>2 DEF LinesIn
  <2>6. y \in y..y
    BY <1>5
  <2> QED BY <2>4, <2>5, <2>6 DEF Counts
<1> QED BY <1>5, <1>7, <1>8, <1>9, <1>10 DEF FirstWith

LEMMA Inserted ==
    ASSUME NEW S, NEW rs \in Seq(S), NEW new \in Seq(S), NEW i \in 1..Len(rs) + 1
    PROVE  InPlaceOf(InsertRows(rs, i, new), rs, new, i, i - 1, S)
<1>1. Len(rs) \in Nat /\ i - 1 \in i - 1..Len(rs) /\ i - 1 + 1 = i
  BY LenProperties
<1> QED BY <1>1, InPlace DEF InsertRows

\* Lines of s in rows that are put before row i.
LEMMA LinesInserted ==
    ASSUME NEW S, NEW rs \in Seq(S), NEW new \in Seq(S), NEW i \in 1..Len(rs) + 1, NEW s,
           NEW l, NEW m, NEW p, NEW n, LinesIn(rs, s, 1, i - 1, l, m),
           LinesIn(new, s, 1, Len(new), m, p), LinesIn(rs, s, i, Len(rs), p, n)
    PROVE  LET r == InsertRows(rs, i, new)
           IN /\ LinesIn(r, s, 1, i - 1, l, m)
              /\ LinesIn(r, s, 1, i - 1 + Len(new), l, p)
              /\ LinesIn(r, s, 1, Len(r), l, n)
<1> DEFINE r == InsertRows(rs, i, new)
<1>1. InPlaceOf(r, rs, new, i, i - 1, S)
  BY Inserted
<1>2. Len(rs) \in Nat /\ Len(new) \in Nat
  BY LenProperties
<1> HIDE DEF r
<1>3. Len(r) = Len(rs) + Len(new)
  BY <1>1, <1>2 DEF InPlaceOf
<1>4. LinesIn(r, s, 1, i - 1, l, m)
  <2>1. \A k \in 1..i - 1 : r[k].at[s] = rs[k].at[s]
    BY <1>1 DEF InPlaceOf
  <2> QED BY <1>2, <2>1, LinesSame
<1>5. LinesIn(r, s, i, i - 1 + Len(new), m, p)
  <2>1. \A k \in 1..Len(new) : r[k + (i - 1)].at[s] = new[k].at[s]
    <3>1. \A k \in 1..Len(new) : k + (i - 1) \in Int /\ k + (i - 1) = i - 1 + k
      BY <1>2
    <3> QED BY <1>1, <3>1 DEF InPlaceOf
  <2>2. i - 1 \in Int /\ 1 + (i - 1) \in Nat \ {0} /\ 1 <= Len(new) + 1 /\ 1 \in Nat \ {0}
    BY <1>2
  <2>3. LinesIn(r, s, 1 + (i - 1), Len(new) + (i - 1), m, p)
    BY <1>2, <2>1, <2>2, LinesMoved
  <2>4. 1 + (i - 1) = i /\ Len(new) + (i - 1) = i - 1 + Len(new)
    BY <1>2
  <2> QED BY <2>3, <2>4
<1>6. LinesIn(r, s, i - 1 + Len(new) + 1, Len(r), p, n)
  <2> DEFINE d == Len(new)
  <2>1. \A k \in i..Len(rs) : r[k + d].at[s] = rs[k].at[s]
    <3>1. \A k \in i..Len(rs) : /\ k \in i - 1 + 1..Len(rs) /\ k + d \in Int
                                /\ k + d = i - 1 + d + k - (i - 1)
      BY <1>2
    <3> QED BY <1>1, <3>1 DEF InPlaceOf
  <2>2. i \in Nat \ {0} /\ i <= Len(rs) + 1 /\ d \in Int /\ i + d \in Nat \ {0}
    BY <1>2
  <2>3. LinesIn(r, s, i + d, Len(rs) + d, p, n)
    BY <1>2, <2>1, <2>2, LinesMoved
  <2>4. i + d = i - 1 + Len(new) + 1 /\ Len(rs) + d = Len(r)
    BY <1>2, <1>3
  <2> QED BY <2>3, <2>4
<1>7. LinesIn(r, s, 1, i - 1 + Len(new), l, p)
  <2>1. /\ 1 \in Nat \ {0} /\ i - 1 \in Nat /\ i - 1 + Len(new) \in Nat
        /\ 1 <= i - 1 + 1 /\ i - 1 <= i - 1 + Len(new) /\ i - 1 + 1 = i
    BY <1>2
  <2> QED BY <1>4, <1>5, <2>1, LinesJoined
<1>8. LinesIn(r, s, 1, Len(r), l, n)
  <2>1. /\ 1 \in Nat \ {0} /\ i - 1 + Len(new) \in Nat /\ Len(r) \in Nat
        /\ 1 <= i - 1 + Len(new) + 1 /\ i - 1 + Len(new) <= Len(r)
    BY <1>2, <1>3
  <2> QED BY <1>6, <1>7, <2>1, LinesJoined
<1> QED BY <1>4, <1>7, <1>8 DEF r

\* Rows of which only some are kept: the others hold no line of s.
LEMMA LinesKept ==
    ASSUME NEW S, NEW rs \in Seq(S), NEW s, NEW i \in Nat \ {0}, NEW j \in Nat,
           i <= j + 1, j <= Len(rs), NEW m, NEW n, LinesIn(rs, s, i, j, m, n),
           NEW K \in SUBSET (i..j), \A k \in i..j : k \notin K => rs[k].at[s] = NoLine
    PROVE  LinesIn(Kept(rs, K), s, 1, Len(Kept(rs, K)), m, n)
<1>1. PICK c : Counts(c, rs, s, i, j) /\ c[i - 1] = m /\ c[j] = n
  BY DEF LinesIn
<1>2. c \in [i - 1..j -> Nat] /\ m \in Nat /\ Len(rs) \in Nat
  <2>1. i - 1 \in i - 1..j
    OBVIOUS
  <2> QED BY <1>1, <2>1, LenProperties DEF Counts
<1> DEFINE v(l) == IF l < i THEN m ELSE IF l > j THEN n ELSE c[l]
           Fine(q) == LinesIn(Kept(q, K), s, 1, Len(Kept(q, K)), m, v(Len(q)))
           P == {l \in Nat : \A q \in Seq(S) :
                    Len(q) = l /\ l <= Len(rs) /\ (\A k \in 1..l : q[k] = rs[k]) => Fine(q)}
<1>3. 0 \in P
  <2> SUFFICES ASSUME NEW q \in Seq(S), Len(q) = 0 PROVE Fine(q)
    OBVIOUS
  <2>1. q = <<>> /\ Kept(q, K) = <<>> /\ Len(<<>>) = 0
    BY EmptySeq, KeptNone
  <2>2. v(0) = m
    OBVIOUS
  <2>3. LinesIn(<<>>, s, 1, 0, m, m)
    BY <1>2, LinesNone
  <2> QED BY <2>1, <2>2, <2>3
<1>4. ASSUME NEW l \in Nat, l \in P PROVE l + 1 \in P
  <2> SUFFICES ASSUME NEW q \in Seq(S), Len(q) = l + 1, l + 1 <= Len(rs),
                      \A k \in 1..l + 1 : q[k] = rs[k]
               PROVE  Fine(q)
    OBVIOUS
  <2>0. \E r \in Seq(S), x \in S :
           q = Append(r, x) /\ Len(r) = l /\ q[l + 1] = x /\ \A k \in 1..l : r[k] = q[k]
    BY ONLY q \in Seq(S), l \in Nat, Len(q) = l + 1, FrontAndLast
  <2>1. PICK r \in Seq(S), x \in S :
           q = Append(r, x) /\ Len(r) = l /\ q[l + 1] = x /\ \A k \in 1..l : r[k] = q[k]
    BY ONLY <2>0
  <2> DEFINE z == Kept(r, K)
  <2>2. LinesIn(z, s, 1, Len(z), m, v(l))
    <3>1. l <= Len(rs) /\ \A k \in 1..l : r[k] = rs[k]
      BY ONLY <2>1, l \in Nat, Len(rs) \in Nat, l + 1 <= Len(rs), \A k \in 1..l + 1 : q[k] = rs[k]
    <3>2. Fine(r)
      BY ONLY <1>4, <2>1, <3>1
    <3> QED BY ONLY <2>1, <3>2
  <2>3. z \in Seq(S) /\ Len(z) \in Nat
    <3>1. K \subseteq Int
      OBVIOUS
    <3>2. KeptWell(r, K, S)
      BY <2>1, <3>1, KeptElements
    <3> QED BY <3>2, LenProperties DEF KeptWell
  <2>4. Kept(q, K) = IF l + 1 \in K THEN Append(z, x) ELSE z
    BY <2>1, KeptAppend
  <2>5. x = rs[l + 1]
    BY <2>1
  <2> HIDE DEF P, z
  <2>6. CASE l + 1 \notin K
    <3>1. v(l + 1) = v(l)
      <4>1. CASE l + 1 \in i..j
        <5>1. rs[l + 1].at[s] = NoLine /\ c[l + 1] = c[l + 1 - 1] /\ l + 1 - 1 = l
          BY <1>1, <2>6, <4>1 DEF Counts
        <5>2. CASE l + 1 = i
          <6>1. c[l] = m /\ v(l) = m /\ v(l + 1) = c[l + 1]
            BY <1>1, <4>1, <5>2
          <6> QED BY <5>1, <6>1
        <5>3. CASE l + 1 > i
          <6>1. v(l) = c[l] /\ v(l + 1) = c[l + 1]
            BY <4>1, <5>3
          <6> QED BY <5>1, <6>1
        <5> QED BY <4>1, <5>2, <5>3
      <4>2. CASE l + 1 < i
        BY <4>2
      <4>3. CASE l + 1 > j /\ l + 1 >= i
        <5>1. CASE l = j
          <6>1. v(l + 1) = n
            BY <4>3
          <6>2. v(l) = n
            <7>1. CASE l < i
              <8>1. l = i - 1
                BY <4>3, <7>1
              <8> QED BY <1>1, <5>1, <7>1, <8>1
            <7>2. CASE ~(l < i)
              BY <1>1, <5>1, <7>2
            <7> QED BY <7>1, <7>2
          <6> QED BY <6>1, <6>2
        <5>2. CASE l # j
          <6>1. ~(l < i) /\ l > j
            BY <4>3, <5>2
          <6> QED BY <4>3, <6>1
        <5> QED BY <5>1, <5>2
      <4> QED BY <4>1, <4>2, <4>3
    <3> HIDE DEF v
    <3> QED BY <2>1, <2>2, <2>4, <2>6, <3>1
  <2>7. CASE l + 1 \in K
    <3>1. l + 1 \in i..j /\ l + 1 - 1 = l
      BY <2>7
    <3>2. v(l + 1) = c[l + 1] /\ v(l) = c[l]
      <4>1. CASE l + 1 = i
        BY <1>1, <3>1, <4>1
      <4>2. CASE l + 1 # i
        BY <3>1, <4>2
      <4> QED BY <4>1, <4>2
    <3>3. IF x.at[s] = NoLine THEN c[l + 1] = c[l] ELSE c[l + 1] = c[l] + 1 /\ x.at[s] = c[l + 1]
      BY <1>1, <2>5, <3>1 DEF Counts
    <3>4. /\ Append(z, x) \in Seq(S) /\ Len(Append(z, x)) = Len(z) + 1
          /\ \A k \in 1..Len(z) : Append(z, x)[k] = z[k]
          /\ Append(z, x)[Len(z) + 1] = x
      BY <2>1, <2>3, AppendProperties
    <3> DEFINE w == Append(z, x)
               h == Len(z) + 1
    <3> HIDE DEF w
    <3>5. c[l] \in Nat /\ c[l + 1] \in Nat
      BY <1>2, <3>1
    <3>6. LinesIn(w, s, h, h, c[l], c[l + 1])
      <4>1. h \in Nat \ {0} /\ h <= h + 1 /\ h \in Nat
        BY <2>3
      <4>2. \A k \in h..h : w[k] = x
        BY <2>3, <3>4 DEF w
      <4>3. CASE x.at[s] = NoLine
        <5>1. \A k \in h..h : w[k].at[s] = NoLine
          BY <4>2, <4>3
        <5> QED BY <3>3, <3>5, <4>1, <4>3, <5>1, LinesNone
      <4>4. CASE x.at[s] # NoLine
        <5>1. \A k \in h..h : w[k].at[s] = c[l] + k - h + 1
          BY <2>3, <3>3, <3>5, <4>2, <4>4
        <5>2. LinesIn(w, s, h, h, c[l], c[l] + h - h + 1)
          BY <3>5, <4>1, <5>1, LinesEach
        <5>3. c[l] + h - h + 1 = c[l + 1]
          BY <2>3, <3>3, <3>5, <4>4
        <5> QED BY <5>2, <5>3
      <4> QED BY <4>3, <4>4
    <3>7. LinesIn(w, s, 1, Len(z), m, c[l])
      <4>1. \A k \in 1..Len(z) : w[k].at[s] = z[k].at[s]
        BY <3>4 DEF w
      <4>2. LinesIn(z, s, 1, Len(z), m, c[l])
        BY <2>2, <3>2
      <4> QED BY <2>3, <4>1, <4>2, LinesSame
    <3>8. LinesIn(w, s, 1, h, m, c[l + 1])
      BY <2>3, <3>6, <3>7, LinesJoined
    <3>9. Kept(q, K) = w /\ Len(w) = h
      BY <2>4, <2>7, <3>4 DEF w
    <3> HIDE DEF v, h
    <3> QED BY <2>1, <3>2, <3>8, <3>9
  <2> QED BY <2>6, <2>7
<1>5. \A l \in Nat : l \in P
  <2> HIDE DEF P
  <2> QED BY <1>3, <1>4, SetInduction
<1>6. LinesIn(Kept(rs, K), s, 1, Len(Kept(rs, K)), m, v(Len(rs)))
  BY <1>2, <1>5
<1>7. v(Len(rs)) = n
  BY <1>1, <1>2
<1> HIDE DEF v
<1> QED BY <1>6, <1>7

LEMMA NumbersAppended ==
    ASSUME NEW n \in Nat
    PROVE  Append([k \in 1..n |-> k], n + 1) = [k \in 1..n + 1 |-> k]
<1> DEFINE w == [k \in 1..n |-> k]
           u == [k \in 1..n + 1 |-> k]
<1>1. w \in [1..n -> Nat] /\ u \in [1..n + 1 -> Nat] /\ n + 1 \in Nat
  OBVIOUS
<1>2. (\A k \in 1..n : w[k] = k) /\ (\A k \in 1..n + 1 : u[k] = k)
  OBVIOUS
<1> HIDE DEF w, u
<1>3. w \in Seq(Nat) /\ Len(w) = n
  BY <1>1, MapSeq
<1>4. u \in Seq(Nat) /\ Len(u) = n + 1
  BY <1>1, MapSeq
<1>5. /\ Append(w, n + 1) \in Seq(Nat) /\ Len(Append(w, n + 1)) = n + 1
      /\ \A k \in 1..n : Append(w, n + 1)[k] = w[k]
      /\ Append(w, n + 1)[n + 1] = n + 1
  BY <1>1, <1>3, AppendProperties
<1>6. \A k \in 1..n + 1 : Append(w, n + 1)[k] = u[k]
  BY <1>2, <1>5
<1> QED BY <1>4, <1>5, <1>6, SeqEqual DEF w, u

\* What LinesOf() reads off the rows.
LEMMA KeptNumbers ==
    ASSUME NEW N \in Nat, NEW c \in [0..N -> Nat], c[0] = 0, NEW K,
           NEW a \in Seq(Nat), Len(a) = N, \A k \in 1..N : k \in K <=> a[k] # NoLine,
           \A k \in 1..N : IF a[k] = NoLine THEN c[k] = c[k - 1]
                           ELSE c[k] = c[k - 1] + 1 /\ a[k] = c[k]
    PROVE  Kept(a, K) = [k \in 1..c[N] |-> k]
<1> DEFINE P == {l \in Nat : \A q \in Seq(Nat) :
                    Len(q) = l /\ l <= N /\ (\A k \in 1..l : q[k] = a[k]) =>
                        Kept(q, K) = [k \in 1..c[l] |-> k]}
<1>1. 0 \in P
  <2> SUFFICES ASSUME NEW q \in Seq(Nat), Len(q) = 0 PROVE Kept(q, K) = [k \in 1..c[0] |-> k]
    OBVIOUS
  <2>1. q = <<>> /\ Kept(q, K) = <<>>
    BY EmptySeq, KeptNone
  <2>2. [k \in 1..0 |-> k] = <<>>
    OBVIOUS
  <2> QED BY <2>1, <2>2
<1>2. ASSUME NEW l \in Nat, l \in P PROVE l + 1 \in P
  <2> SUFFICES ASSUME NEW q \in Seq(Nat), Len(q) = l + 1, l + 1 <= N,
                      \A k \in 1..l + 1 : q[k] = a[k]
               PROVE  Kept(q, K) = [k \in 1..c[l + 1] |-> k]
    OBVIOUS
  <2>0. \E r \in Seq(Nat), x \in Nat :
           q = Append(r, x) /\ Len(r) = l /\ q[l + 1] = x /\ \A k \in 1..l : r[k] = q[k]
    BY ONLY q \in Seq(Nat), l \in Nat, Len(q) = l + 1, FrontAndLast
  <2>1. PICK r \in Seq(Nat), x \in Nat :
           q = Append(r, x) /\ Len(r) = l /\ q[l + 1] = x /\ \A k \in 1..l : r[k] = q[k]
    BY ONLY <2>0
  <2>2. Kept(r, K) = [k \in 1..c[l] |-> k]
    <3>1. r \in Seq(Nat) /\ Len(r) = l /\ l <= N /\ \A k \in 1..l : r[k] = a[k]
      BY <2>1
    <3> QED BY <1>2, <3>1
  <2>3. Kept(q, K) = IF l + 1 \in K THEN Append(Kept(r, K), x) ELSE Kept(r, K)
    BY <2>1, KeptAppend
  <2> HIDE DEF P
  <2>4. l + 1 \in 1..N /\ l + 1 - 1 = l /\ x = a[l + 1] /\ c[l] \in Nat
    BY <2>1
  <2>5. IF a[l + 1] = NoLine THEN c[l + 1] = c[l + 1 - 1]
        ELSE c[l + 1] = c[l + 1 - 1] + 1 /\ a[l + 1] = c[l + 1]
    BY <2>4
  <2>6. l + 1 \in K <=> a[l + 1] # NoLine
    BY <2>4
  <2>7. CASE x = NoLine
    <3>1. c[l + 1] = c[l] /\ l + 1 \notin K
      BY <2>4, <2>5, <2>6, <2>7
    <3> QED BY <2>2, <2>3, <3>1
  <2>8. CASE x # NoLine
    <3>1. c[l + 1] = c[l] + 1 /\ x = c[l] + 1 /\ l + 1 \in K
      BY <2>4, <2>5, <2>6, <2>8
    <3>2. Append([k \in 1..c[l] |-> k], c[l] + 1) = [k \in 1..c[l] + 1 |-> k]
      BY ONLY <2>4, NumbersAppended
    <3> QED BY <2>2, <2>3, <3>1, <3>2
  <2> QED BY <2>7, <2>8
<1>3. \A l \in Nat : l \in P
  <2> HIDE DEF P
  <2> QED BY <1>1, <1>2, SetInduction
<1> QED BY <1>3

LEMMA LinesComplete ==
    ASSUME NEW S, NEW rs \in Seq(S), NEW s, NEW n, LinesIn(rs, s, 1, Len(rs), 0, n)
    PROVE  Kept([k \in DOMAIN rs |-> rs[k].at[s]], {k \in DOMAIN rs : Holds(rs[k], s)})
              = [k \in 1..n |-> k]
<1>1. PICK c : Counts(c, rs, s, 1, Len(rs)) /\ c[1 - 1] = 0 /\ c[Len(rs)] = n
  BY DEF LinesIn
<1> DEFINE N == Len(rs)
           a == [k \in DOMAIN rs |-> rs[k].at[s]]
           K == {k \in DOMAIN rs : Holds(rs[k], s)}
<1>2. N \in Nat /\ DOMAIN rs = 1..N /\ 1 - 1 = 0
  BY LenProperties
<1>3. c \in [0..N -> Nat] /\ c[0] = 0 /\ c[N] = n
  BY <1>1, <1>2 DEF Counts
<1>4. \A k \in 1..N : k \in 0..N /\ k - 1 \in 0..N
  BY <1>2
<1>5. \A k \in 1..N : IF rs[k].at[s] = NoLine THEN c[k] = c[k - 1]
                      ELSE c[k] = c[k - 1] + 1 /\ rs[k].at[s] = c[k]
  BY <1>1 DEF Counts
<1>6. \A k \in 1..N : rs[k].at[s] \in Nat
  <2> SUFFICES ASSUME NEW k \in 1..N PROVE rs[k].at[s] \in Nat
    OBVIOUS
  <2>1. c[k] \in Nat
    BY <1>3, <1>4
  <2> QED BY <1>5, <2>1 DEF NoLine
<1>7. a \in Seq(Nat) /\ Len(a) = N
  <2>1. a \in [1..N -> Nat]
    BY <1>2, <1>6
  <2> HIDE DEF a
  <2> QED BY ONLY <1>2, <2>1, MapSeq
<1>8. /\ \A k \in 1..N : k \in K <=> a[k] # NoLine
      /\ \A k \in 1..N : IF a[k] = NoLine THEN c[k] = c[k - 1]
                         ELSE c[k] = c[k - 1] + 1 /\ a[k] = c[k]
  BY <1>2, <1>5 DEF Holds
<1> HIDE DEF a, K, N
<1>9. Kept(a, K) = [k \in 1..c[N] |-> k]
  BY ONLY <1>2, <1>3, <1>7, <1>8, KeptNumbers
<1> QED BY <1>3, <1>9 DEF a, K

-----------------------------------------------------------------------------
(* Rows and what moves between them. *)

RowType == [at : [Sides -> Nat], eq : SUBSET Pairs]

LEMMA RowMade ==
    ASSUME NEW a \in Nat, NEW b \in Nat, NEW c \in Nat, NEW eq \in SUBSET Pairs
    PROVE  /\ Row(a, b, c, eq) \in RowType /\ Row(a, b, c, eq).eq = eq
           /\ Row(a, b, c, eq).at["A"] = a /\ Row(a, b, c, eq).at["B"] = b
           /\ Row(a, b, c, eq).at["C"] = c
BY DEF Row, RowType, Sides

LEMMA RowParted ==
    ASSUME NEW row \in RowType, NEW S \in SUBSET Sides
    PROVE  /\ Without(row, S) \in RowType /\ Only(row, S) \in RowType
           /\ \A s \in Sides : Without(row, S).at[s] = IF s \in S THEN NoLine ELSE row.at[s]
           /\ \A s \in Sides : Only(row, S).at[s] = IF s \in S THEN row.at[s] ELSE NoLine
BY DEF Without, Only, RowType, NoLine

LEMMA FirstOf ==
    ASSUME NEW n \in Nat, NEW k \in Nat \ {0}, k <= n + 1, NEW I \in SUBSET (k..n)
    PROVE  LET x == IF I = {} THEN n + 1 ELSE Min(I)
           IN x \in k..n + 1 /\ (x <= n => x \in I) /\ \A y \in k..x - 1 : y \notin I
<1>1. CASE I = {}
  BY <1>1
<1>2. CASE I # {}
  <2>1. I \subseteq Nat
    OBVIOUS
  <2> DEFINE x == Min(I)
  <2>2. x \in I /\ \A y \in I : x <= y
    BY <1>2, <2>1, MinWell
  <2> HIDE DEF x
  <2>3. x \in k..n
    BY <2>2
  <2>4. \A y \in k..x - 1 : y \notin I
    BY <2>2, <2>3
  <2> QED BY <1>2, <2>2, <2>3, <2>4 DEF x
<1> QED BY <1>1, <1>2

LEMMA RowOfLineWell ==
    ASSUME NEW rs, Len(rs) \in Nat, NEW k \in Nat \ {0}, k <= Len(rs) + 1, NEW s, NEW l
    PROVE  LET x == RowOfLine(rs, k, s, l)
           IN /\ x \in k..Len(rs) + 1 /\ (x <= Len(rs) => rs[x].at[s] = l)
              /\ \A y \in k..x - 1 : rs[y].at[s] # l
<1> DEFINE I == {j \in k..Len(rs) : rs[j].at[s] = l}
           x == IF I = {} THEN Len(rs) + 1 ELSE Min(I)
<1>1. RowOfLine(rs, k, s, l) = x
  BY DEF RowOfLine, Find
<1>2. x \in k..Len(rs) + 1 /\ (x <= Len(rs) => x \in I) /\ \A y \in k..x - 1 : y \notin I
  <2>1. I \in SUBSET (k..Len(rs))
    OBVIOUS
  <2> HIDE DEF I
  <2> QED BY <2>1, FirstOf
<1>3. \A y \in k..x - 1 : y \in k..Len(rs)
  BY <1>2
<1> QED BY <1>1, <1>2, <1>3

LEMMA LinesAppended ==
    ASSUME NEW S, NEW rs \in Seq(S), NEW q \in Seq(S), NEW s, NEW l, NEW m, NEW n,
           LinesIn(rs, s, 1, Len(rs), l, m), LinesIn(q, s, 1, Len(q), m, n)
    PROVE  LinesIn(rs \o q, s, 1, Len(rs \o q), l, n)
<1> DEFINE r == rs \o q
           d == Len(rs)
<1>1. /\ r \in Seq(S) /\ Len(r) = d + Len(q)
      /\ \A x \in 1..d : r[x] = rs[x]
      /\ \A x \in 1..Len(q) : r[d + x] = q[x]
  BY ConcatParts
<1>2. d \in Nat /\ Len(q) \in Nat
  BY LenProperties
<1> HIDE DEF r
<1>3. LinesIn(r, s, 1, d, l, m)
  <2>1. \A x \in 1..d : r[x].at[s] = rs[x].at[s]
    BY <1>1
  <2> QED BY <1>2, <2>1, LinesSame
<1>4. LinesIn(r, s, d + 1, Len(r), m, n)
  <2>1. \A x \in 1..Len(q) : r[x + d].at[s] = q[x].at[s]
    <3>1. \A x \in 1..Len(q) : x + d = d + x
      BY <1>2
    <3> QED BY <1>1, <3>1
  <2>2. 1 \in Nat \ {0} /\ 1 <= Len(q) + 1 /\ d \in Int /\ 1 + d \in Nat \ {0}
    BY <1>2
  <2>3. LinesIn(r, s, 1 + d, Len(q) + d, m, n)
    BY <1>2, <2>1, <2>2, LinesMoved
  <2>4. 1 + d = d + 1 /\ Len(q) + d = Len(r)
    BY <1>1, <1>2
  <2> QED BY <2>3, <2>4
<1>5. LinesIn(r, s, 1, Len(r), l, n)
  <2>1. 1 \in Nat \ {0} /\ Len(r) \in Nat /\ 1 <= d + 1 /\ d <= Len(r)
    BY <1>1, <1>2
  <2> QED BY <1>2, <1>3, <1>4, <2>1, LinesJoined
<1> QED BY <1>5 DEF r

-----------------------------------------------------------------------------
(* calcDiff3LineListUsingAB(). *)

DiffType == [eq : {0, 1}, d1 : Nat, d2 : Nat]

\* The rows AddPair() adds: of lines that are equal and of lines that differ.
EqualRows(d, a, b) == [k \in 1..d.eq |-> Row(a + k, b + k, NoLine, {AB})]
LoneOr(n, k, d) == IF k <= d THEN n + k ELSE NoLine
LoneRows(d, a, b) ==
    [k \in 1..Max({d.d1, d.d2}) |->
        Row(LoneOr(a + d.eq, k, d.d1), LoneOr(b + d.eq, k, d.d2), NoLine, {})]

LEMMA MaxOfTwo ==
    ASSUME NEW x \in Nat, NEW y \in Nat
    PROVE  Max({x, y}) \in {x, y} /\ x <= Max({x, y}) /\ y <= Max({x, y})
BY DEF Max

\* A side of lone rows: first its lines, then nothing.
LEMMA LoneLines ==
    ASSUME NEW rs, NEW s, NEW n \in Nat, NEW d \in 0..n, NEW m \in Nat,
           \A k \in 1..n : rs[k].at[s] = LoneOr(m, k, d)
    PROVE  LinesIn(rs, s, 1, n, m, m + d)
<1>1. LinesIn(rs, s, 1, d, m, m + d - 1 + 1)
  <2>1. \A k \in 1..d : rs[k].at[s] = m + k - 1 + 1
    BY DEF LoneOr
  <2>2. 1 \in Nat \ {0} /\ d \in Nat /\ 1 <= d + 1
    OBVIOUS
  <2> QED BY <2>1, <2>2, LinesEach
<1>2. LinesIn(rs, s, d + 1, n, m + d, m + d)
  <2>1. \A k \in d + 1..n : rs[k].at[s] = NoLine
    BY DEF LoneOr
  <2>2. d + 1 \in Nat \ {0} /\ d + 1 <= n + 1 /\ m + d \in Nat
    OBVIOUS
  <2> QED BY <2>1, <2>2, LinesNone
<1>3. m + d - 1 + 1 = m + d
  OBVIOUS
<1>4. 1 \in Nat \ {0} /\ d \in Nat /\ 1 <= d + 1 /\ d <= n
  OBVIOUS
<1> QED BY <1>1, <1>2, <1>3, <1>4, LinesJoined

LEMMA PairAdded ==
    ASSUME NEW rs, NEW d \in DiffType, NEW a \in Nat, NEW b \in Nat,
           NEW T \in SUBSET RowType, rs \in Seq(T),
           \A k \in 1..d.eq : Row(a + k, b + k, NoLine, {AB}) \in T,
           \A k \in 1..Max({d.d1, d.d2}) :
               Row(LoneOr(a + d.eq, k, d.d1), LoneOr(b + d.eq, k, d.d2), NoLine, {}) \in T,
           LinesIn(rs, "A", 1, Len(rs), 0, a), LinesIn(rs, "B", 1, Len(rs), 0, b)
    PROVE  LET r == AddPair(rs, d, a, b)
           IN /\ r \in Seq(T)
              /\ LinesIn(r, "A", 1, Len(r), 0, a + d.eq + d.d1)
              /\ LinesIn(r, "B", 1, Len(r), 0, b + d.eq + d.d2)
<1> DEFINE e == EqualRows(d, a, b)
           o == LoneRows(d, a, b)
           n == Max({d.d1, d.d2})
<1>1. d.eq \in Nat /\ d.d1 \in Nat /\ d.d2 \in Nat /\ d.eq \in {0, 1}
  BY DEF DiffType
<1>2. n \in Nat /\ d.d1 \in 0..n /\ d.d2 \in 0..n
  BY <1>1, MaxOfTwo
<1>3. AddPair(rs, d, a, b) = (rs \o e) \o o
  BY DEF AddPair, EqualRows, LoneRows, LoneOr
<1>4. e \in Seq(T) /\ Len(e) = d.eq
  <2>1. e \in [1..d.eq -> T]
    BY DEF EqualRows
  <2> HIDE DEF e
  <2> QED BY ONLY <1>1, <2>1, MapSeq
<1>5. o \in Seq(T) /\ Len(o) = n
  <2>1. o \in [1..n -> T]
    BY DEF LoneRows
  <2> HIDE DEF o, n
  <2> QED BY ONLY <1>2, <2>1, MapSeq
<1>6. \A k \in 1..d.eq : e[k].at["A"] = a + k /\ e[k].at["B"] = b + k
  BY DEF EqualRows, Row
<1>7. \A k \in 1..n : /\ o[k].at["A"] = LoneOr(a + d.eq, k, d.d1)
                      /\ o[k].at["B"] = LoneOr(b + d.eq, k, d.d2)
  BY DEF LoneRows, Row
<1> HIDE DEF e, o, n
<1>8. LinesIn(e, "A", 1, Len(e), a, a + d.eq) /\ LinesIn(e, "B", 1, Len(e), b, b + d.eq)
  <2>1. \A k \in 1..d.eq : /\ e[k].at["A"] = LoneOr(a, k, d.eq)
                           /\ e[k].at["B"] = LoneOr(b, k, d.eq)
    BY <1>1, <1>6 DEF LoneOr
  <2>2. d.eq \in 0..d.eq
    BY <1>1
  <2> QED BY <1>1, <1>4, <2>1, <2>2, LoneLines
<1>9. /\ LinesIn(o, "A", 1, Len(o), a + d.eq, a + d.eq + d.d1)
      /\ LinesIn(o, "B", 1, Len(o), b + d.eq, b + d.eq + d.d2)
  <2>1. a + d.eq \in Nat /\ b + d.eq \in Nat
    BY <1>1
  <2> QED BY <1>2, <1>5, <1>7, <2>1, LoneLines
<1>10. rs \o e \in Seq(T) /\ (rs \o e) \o o \in Seq(T)
  BY <1>4, <1>5, ConcatProperties
<1>11. /\ LinesIn(rs \o e, "A", 1, Len(rs \o e), 0, a + d.eq)
       /\ LinesIn(rs \o e, "B", 1, Len(rs \o e), 0, b + d.eq)
  BY <1>4, <1>8, LinesAppended
<1>12. LET r == (rs \o e) \o o
       IN /\ LinesIn(r, "A", 1, Len(r), 0, a + d.eq + d.d1)
          /\ LinesIn(r, "B", 1, Len(r), 0, b + d.eq + d.d2)
  BY <1>5, <1>9, <1>10, <1>11, LinesAppended
<1> QED BY <1>3, <1>10, <1>12

-----------------------------------------------------------------------------
(* calcDiff3LineListUsingAC(). *)

\* The rows of rs with a line c of C joined to line a of A, and where to go on.
ThirdFits(rs, pos, n, nb, m, c) ==
    /\ pos \in 1..Len(rs) + 1
    /\ LinesIn(rs, "A", 1, Len(rs), 0, n) /\ LinesIn(rs, "A", 1, pos - 1, 0, m)
    /\ LinesIn(rs, "B", 1, Len(rs), 0, nb)
    /\ LinesIn(rs, "C", 1, pos - 1, 0, c)
    /\ \A k \in pos..Len(rs) : rs[k].at["C"] = NoLine

LEMMA ThirdJoined ==
    ASSUME NEW T \in SUBSET RowType, NEW rs \in Seq(T), NEW pos, NEW n \in Nat, NEW nb, NEW a \in 0..n - 1,
           NEW m \in 0..a, NEW c \in Nat, ThirdFits(rs, pos, n, nb, m, c),
           \A row \in T : row.at["A"] = a + 1 /\ row.at["C"] = NoLine => JoinC(row, c + 1) \in T
    PROVE  LET found == RowOfLine(rs, pos, "A", a + 1)
               w == [rs EXCEPT ![found] = JoinC(@, c + 1)]
           IN w \in Seq(T) /\ ThirdFits(w, found + 1, n, nb, a + 1, c + 1)
<1> DEFINE found == RowOfLine(rs, pos, "A", a + 1)
           j == JoinC(rs[found], c + 1)
           w == [rs EXCEPT ![found] = j]
<1>1. Len(rs) \in Nat /\ pos \in Nat \ {0} /\ pos <= Len(rs) + 1 /\ pos - 1 \in Nat
  BY LenProperties DEF ThirdFits
<1>2. /\ found \in pos..Len(rs) + 1 /\ (found <= Len(rs) => rs[found].at["A"] = a + 1)
      /\ \A y \in pos..found - 1 : rs[y].at["A"] # a + 1
  BY ONLY <1>1, RowOfLineWell, rs \in Seq(RowType)
<1>3. LinesIn(rs, "A", pos, Len(rs), m, n)
  <2>1. PICK p \in Nat : LinesIn(rs, "A", 1, pos - 1, 0, p)
                         /\ LinesIn(rs, "A", pos - 1 + 1, Len(rs), p, n)
    <3>1. 1 <= pos - 1 + 1 /\ pos - 1 <= Len(rs) /\ 1 \in Nat \ {0}
      BY <1>1
    <3>2. LinesIn(rs, "A", 1, Len(rs), 0, n)
      BY DEF ThirdFits
    <3> QED BY <1>1, <3>1, <3>2, LinesParted
  <2>2. p = m
    <3>1. LinesIn(rs, "A", 1, pos - 1, 0, m) /\ 1 <= pos - 1 + 1 /\ 1 \in Nat \ {0}
      BY <1>1 DEF ThirdFits
    <3> QED BY <1>1, <2>1, <3>1, LinesWell
  <2>3. pos - 1 + 1 = pos
    BY <1>1
  <2> QED BY <2>1, <2>2, <2>3
<1>4. PICK x \in pos..Len(rs) : FirstWith(rs, "A", pos, x, m, a + 1)
  <2>1. a + 1 \in m + 1..n /\ m \in Nat
    OBVIOUS
  <2> QED BY <1>1, <1>3, <2>1, LinesFound
<1>5. found = x
  <2>1. CASE found < x
    <3>1. found \in pos..x - 1 /\ found <= Len(rs)
      BY <1>1, <1>2, <2>1
    <3> QED BY <1>2, <1>4, <3>1 DEF FirstWith
  <2>2. CASE found > x
    <3>1. x \in pos..found - 1
      BY <1>1, <1>2, <2>2
    <3> QED BY <1>2, <1>4, <3>1 DEF FirstWith
  <2> QED BY <1>1, <1>2, <2>1, <2>2
<1> HIDE DEF found
<1>6. found \in 1..Len(rs) /\ rs[found] \in T /\ rs[found].at["C"] = NoLine
  <2>1. found \in 1..Len(rs) /\ found \in pos..Len(rs)
    BY <1>1, <1>5
  <2> QED BY <2>1, ElementOfSeq DEF ThirdFits
<1>7. j \in T
  BY <1>4, <1>5, <1>6 DEF FirstWith
<1>8. j.at["A"] = rs[found].at["A"] /\ j.at["B"] = rs[found].at["B"] /\ j.at["C"] = c + 1
  <2>1. rs[found] \in RowType
    BY <1>6
  <2> QED BY <2>1 DEF JoinC, RowType, Sides
<1> HIDE DEF j
<1>9. /\ w \in Seq(T) /\ Len(w) = Len(rs) /\ w[found] = j
      /\ \A k \in 1..Len(rs) : k # found => w[k] = rs[k]
  BY <1>6, <1>7, ExceptSeq
<1> HIDE DEF w
<1>10. \A k \in 1..Len(rs) : w[k].at["A"] = rs[k].at["A"] /\ w[k].at["B"] = rs[k].at["B"]
  BY <1>8, <1>9
<1>11. LinesIn(w, "A", 1, Len(w), 0, n) /\ LinesIn(w, "B", 1, Len(w), 0, nb)
  <2>1. /\ LinesIn(rs, "A", 1, Len(rs), 0, n) /\ LinesIn(rs, "B", 1, Len(rs), 0, nb)
        /\ 1 \in Nat \ {0}
    BY DEF ThirdFits
  <2>2. LinesIn(w, "A", 1, Len(rs), 0, n) /\ LinesIn(w, "B", 1, Len(rs), 0, nb)
    BY <1>1, <1>10, <2>1, LinesSame
  <2> QED BY <1>9, <2>2
<1>12. LinesIn(w, "A", 1, found, 0, a + 1)
  <2>1. LinesIn(rs, "A", 1, found, 0, a + 1)
    <3>1. LinesIn(rs, "A", 1, pos - 1, 0, m) /\ LinesIn(rs, "A", pos - 1 + 1, found, m, a + 1)
      <4>1. pos - 1 + 1 = pos
        BY <1>1
      <4> QED BY <1>4, <1>5, <4>1 DEF ThirdFits, FirstWith
    <3>2. 1 \in Nat \ {0} /\ 1 <= pos - 1 + 1 /\ pos - 1 <= found /\ found \in Nat
      BY <1>1, <1>5
    <3> QED BY <1>1, <3>1, <3>2, LinesJoined
  <2>2. \A k \in 1..found : w[k].at["A"] = rs[k].at["A"]
    BY <1>6, <1>10
  <2>3. found \in Nat /\ 1 \in Nat \ {0}
    BY <1>6
  <2> QED BY <2>1, <2>2, <2>3, LinesSame
<1>13. LinesIn(w, "C", 1, found, 0, c + 1)
  <2>1. LinesIn(w, "C", 1, pos - 1, 0, c)
    <3>1. \A k \in 1..pos - 1 : w[k].at["C"] = rs[k].at["C"]
      BY <1>1, <1>5, <1>9
    <3> QED BY <1>1, <3>1, LinesSame DEF ThirdFits
  <2>2. LinesIn(w, "C", pos, found - 1, c, c)
    <3>1. \A k \in pos..found - 1 : w[k].at["C"] = NoLine
      <4> SUFFICES ASSUME NEW k \in pos..found - 1 PROVE w[k].at["C"] = NoLine
        OBVIOUS
      <4>1. k \in 1..Len(rs) /\ k # found /\ k \in pos..Len(rs)
        BY <1>1, <1>5
      <4> QED BY <1>9, <4>1 DEF ThirdFits
    <3>2. found - 1 \in Nat /\ pos <= found - 1 + 1
      BY <1>1, <1>5
    <3> QED BY <1>1, <3>1, <3>2, LinesNone
  <2>3. LinesIn(w, "C", found, found, c, c + 1)
    <3>1. \A k \in found..found : w[k].at["C"] = c + k - found + 1
      BY <1>6, <1>8, <1>9
    <3>2. found \in Nat \ {0} /\ found \in Nat /\ found <= found + 1
      BY <1>6
    <3>3. LinesIn(w, "C", found, found, c, c + found - found + 1)
      BY <3>1, <3>2, LinesEach
    <3>4. c + found - found + 1 = c + 1
      BY <1>6
    <3> QED BY <3>3, <3>4
  <2>4. LinesIn(w, "C", 1, found - 1, 0, c)
    <3>1. /\ 1 \in Nat \ {0} /\ 1 <= pos - 1 + 1 /\ pos - 1 <= found - 1 /\ found - 1 \in Nat
          /\ pos - 1 + 1 = pos
      BY <1>1, <1>5
    <3> QED BY <1>1, <2>1, <2>2, <3>1, LinesJoined
  <2>5. /\ 1 \in Nat \ {0} /\ found - 1 \in Nat /\ found \in Nat /\ 1 <= found - 1 + 1
        /\ found - 1 <= found /\ found - 1 + 1 = found
    BY <1>6
  <2> QED BY <2>3, <2>4, <2>5, LinesJoined
<1>14. \A k \in found + 1..Len(w) : w[k].at["C"] = NoLine
  <2> SUFFICES ASSUME NEW k \in found + 1..Len(w) PROVE w[k].at["C"] = NoLine
    OBVIOUS
  <2>1. k \in 1..Len(rs) /\ k # found /\ k \in pos..Len(rs)
    BY <1>1, <1>5, <1>9
  <2> QED BY <1>9, <2>1 DEF ThirdFits
<1>15. found + 1 \in 1..Len(w) + 1 /\ found + 1 - 1 = found
  BY <1>6, <1>9
<1>16. ThirdFits(w, found + 1, n, nb, a + 1, c + 1)
  <2> DEFINE h == found + 1
  <2>1. LinesIn(w, "A", 1, h - 1, 0, a + 1) /\ LinesIn(w, "C", 1, h - 1, 0, c + 1)
    <3>1. h - 1 = found
      BY <1>6
    <3> HIDE DEF h
    <3> QED BY <1>12, <1>13, <3>1
  <2>2. h \in 1..Len(w) + 1 /\ \A k \in h..Len(w) : w[k].at["C"] = NoLine
    BY <1>14, <1>15
  <2> HIDE DEF h
  <2>3. ThirdFits(w, h, n, nb, a + 1, c + 1)
    BY <1>11, <2>1, <2>2 DEF ThirdFits
  <2> QED BY <2>3 DEF h
<1> QED BY <1>9, <1>16 DEF w, j, found

\* Rows for more lines of C before row h.
LEMMA ThirdLone ==
    ASSUME NEW T \in SUBSET RowType, NEW rs \in Seq(T), NEW h, NEW n, NEW nb, NEW m \in Nat, NEW c \in Nat,
           ThirdFits(rs, h, n, nb, m, c), NEW d \in Nat,
           \A k \in 1..d : Row(NoLine, NoLine, c + k, {}) \in T
    PROVE  LET lone == [k \in 1..d |-> Row(NoLine, NoLine, c + k, {})]
               r == InsertRows(rs, h, lone)
           IN r \in Seq(T) /\ ThirdFits(r, h + d, n, nb, m, c + d)
<1> DEFINE lone == [k \in 1..d |-> Row(NoLine, NoLine, c + k, {})]
           r == InsertRows(rs, h, lone)
<1>1. Len(rs) \in Nat /\ h \in 1..Len(rs) + 1
  BY LenProperties DEF ThirdFits
<1>2. /\ \A k \in 1..d : /\ lone[k].at["A"] = NoLine /\ lone[k].at["B"] = NoLine
                         /\ lone[k].at["C"] = c + k
      /\ lone \in [1..d -> T]
  BY DEF Row
<1> HIDE DEF lone
<1>3. lone \in Seq(T) /\ Len(lone) = d
  BY ONLY <1>2, d \in Nat, MapSeq
<1>4. InPlaceOf(r, rs, lone, h, h - 1, T)
  BY <1>1, <1>3, Inserted
<1>5. ASSUME NEW s, NEW l, NEW p \in Nat, NEW q, s \in {"A", "B"},
             LinesIn(rs, s, 1, Len(rs), 0, q), LinesIn(rs, s, 1, h - 1, 0, p)
      PROVE  LinesIn(r, s, 1, Len(r), 0, q) /\ LinesIn(r, s, 1, h + d - 1, 0, p)
  <2>1. LinesIn(lone, s, 1, Len(lone), p, p)
    <3>1. 1 \in Nat \ {0} /\ 1 <= d + 1 /\ \A k \in 1..d : lone[k].at[s] = NoLine
      BY <1>2, <1>5
    <3> QED BY <1>3, <3>1, LinesNone
  <2>2. LinesIn(rs, s, h, Len(rs), p, q)
    <3>1. 1 \in Nat \ {0} /\ h - 1 \in Nat /\ 1 <= h - 1 + 1 /\ h - 1 <= Len(rs) /\ h - 1 + 1 = h
      BY <1>1
    <3>2. PICK o \in Nat : LinesIn(rs, s, 1, h - 1, 0, o) /\ LinesIn(rs, s, h - 1 + 1, Len(rs), o, q)
      BY <1>1, <1>5, <3>1, LinesParted
    <3>3. o = p
      BY <1>5, <3>1, <3>2, LinesWell
    <3> QED BY <3>1, <3>2, <3>3
  <2>3. LinesIn(r, s, 1, Len(r), 0, q) /\ LinesIn(r, s, 1, h - 1 + Len(lone), 0, p)
    BY <1>1, <1>3, <1>5, <2>1, <2>2, LinesInserted
  <2>4. h - 1 + Len(lone) = h + d - 1
    BY <1>1, <1>3
  <2> QED BY <2>3, <2>4
<1>6. LinesIn(r, "A", 1, Len(r), 0, n) /\ LinesIn(r, "A", 1, h + d - 1, 0, m)
  BY <1>5 DEF ThirdFits
<1>7. LinesIn(r, "B", 1, Len(r), 0, nb)
  <2>1. 1 \in Nat \ {0} /\ h - 1 \in Nat /\ 1 <= h - 1 + 1 /\ h - 1 <= Len(rs)
    BY <1>1
  <2>2. LinesIn(rs, "B", 1, Len(rs), 0, nb)
    BY DEF ThirdFits
  <2>3. PICK p \in Nat : LinesIn(rs, "B", 1, h - 1, 0, p) /\ LinesIn(rs, "B", h - 1 + 1, Len(rs), p, nb)
    BY <1>1, <2>1, <2>2, LinesParted
  <2> QED BY <1>5, <2>2, <2>3
<1>8. LinesIn(r, "C", 1, h + d - 1, 0, c + d)
  <2>1. LinesIn(r, "C", 1, h - 1, 0, c)
    <3>1. \A k \in 1..h - 1 : r[k].at["C"] = rs[k].at["C"]
      BY <1>4 DEF InPlaceOf
    <3>2. 1 \in Nat \ {0} /\ h - 1 \in Nat
      BY <1>1
    <3> QED BY <3>1, <3>2, LinesSame DEF ThirdFits
  <2>2. LinesIn(r, "C", h, h + d - 1, c, c + d)
    <3>1. \A k \in h..h + d - 1 : r[k].at["C"] = c + k - h + 1
      <4> SUFFICES ASSUME NEW k \in h..h + d - 1 PROVE r[k].at["C"] = c + k - h + 1
        OBVIOUS
      <4>1. k - h + 1 \in 1..d /\ k = h - 1 + (k - h + 1) /\ k \in Int
        BY <1>1
      <4>2. r[k] = lone[k - h + 1]
        BY <1>3, <1>4, <4>1 DEF InPlaceOf
      <4>3. lone[k - h + 1].at["C"] = c + (k - h + 1)
        BY <1>2, <4>1
      <4> QED BY <1>1, <4>2, <4>3
    <3>2. h \in Nat \ {0} /\ h + d - 1 \in Nat /\ h <= h + d - 1 + 1
      BY <1>1
    <3>3. LinesIn(r, "C", h, h + d - 1, c, c + (h + d - 1) - h + 1)
      BY <3>1, <3>2, LinesEach
    <3>4. c + (h + d - 1) - h + 1 = c + d
      BY <1>1
    <3> QED BY <3>3, <3>4
  <2>3. /\ 1 \in Nat \ {0} /\ h - 1 \in Nat /\ h + d - 1 \in Nat /\ 1 <= h - 1 + 1
        /\ h - 1 <= h + d - 1 /\ h - 1 + 1 = h
    BY <1>1
  <2> QED BY <2>1, <2>2, <2>3, LinesJoined
<1>9. Len(r) = Len(rs) + d /\ r \in Seq(T)
  BY <1>1, <1>3, <1>4 DEF InPlaceOf
<1>10. ASSUME NEW k \in h + d..Len(r) PROVE r[k].at["C"] = NoLine
  <2>1. /\ k - d \in h - 1 + 1..Len(rs) /\ k = h - 1 + d + (k - d) - (h - 1) /\ k \in Int
        /\ k - d \in h..Len(rs)
    BY <1>1, <1>9
  <2>2. r[k] = rs[k - d]
    BY <1>3, <1>4, <2>1 DEF InPlaceOf
  <2> QED BY <2>1, <2>2 DEF ThirdFits
<1> HIDE DEF r
<1>11. ThirdFits(r, h + d, n, nb, m, c + d)
  <2> DEFINE g == h + d
  <2>1. g \in 1..Len(r) + 1
    BY <1>1, <1>9
  <2>2. LinesIn(r, "A", 1, g - 1, 0, m) /\ LinesIn(r, "C", 1, g - 1, 0, c + d)
    <3>1. g - 1 = h + d - 1
      BY <1>1
    <3> HIDE DEF g
    <3> QED BY <1>6, <1>8, <3>1
  <2>3. \A k \in g..Len(r) : r[k].at["C"] = NoLine
    BY <1>10
  <2> HIDE DEF g
  <2>4. ThirdFits(r, g, n, nb, m, c + d)
    BY <1>6, <1>7, <2>1, <2>2, <2>3 DEF ThirdFits
  <2> QED BY <2>4 DEF g
<1> QED BY <1>9, <1>11 DEF r, lone

LEMMA ThirdAdded ==
    ASSUME NEW T \in SUBSET RowType, NEW rs \in Seq(T), NEW h, NEW n \in Nat, NEW nb,
           NEW a \in Nat, NEW m \in 0..a, NEW c \in Nat, ThirdFits(rs, h, n, nb, m, c),
           NEW d \in DiffType, d.eq = 1 => a + 1 <= n,
           d.eq = 1 => \A row \in T :
              row.at["A"] = a + 1 /\ row.at["C"] = NoLine => JoinC(row, c + 1) \in T,
           \A k \in 1..d.d2 : Row(NoLine, NoLine, c + d.eq + k, {}) \in T
    PROVE  LET t == AddThird(rs, h, d, a, c)
           IN /\ t.rows \in Seq(T)
              /\ \E p \in 0..a + d.eq + d.d1 : ThirdFits(t.rows, t.here, n, nb, p, c + d.eq + d.d2)
<1>1. d.eq \in {0, 1} /\ d.d1 \in Nat /\ d.d2 \in Nat
  BY DEF DiffType
<1> DEFINE found == RowOfLine(rs, h, "A", a + 1)
           w == [rs EXCEPT ![found] = JoinC(@, c + 1)]
           lone == [k \in 1..d.d2 |-> Row(NoLine, NoLine, c + d.eq + k, {})]
           place == IF d.eq = 0 THEN h ELSE found + 1
           joined == IF d.eq = 0 THEN rs ELSE w
           p == IF d.eq = 0 THEN m ELSE a + 1
           t == AddThird(rs, h, d, a, c)
<1>2. t.rows = InsertRows(joined, place, lone) /\ t.here = place + d.d2
  BY DEF AddThird
<1>3. joined \in Seq(T) /\ ThirdFits(joined, place, n, nb, p, c + d.eq)
  <2>1. CASE d.eq = 0
    <3>1. joined = rs /\ place = h /\ p = m /\ c + d.eq = c
      BY <2>1
    <3> HIDE DEF joined, place, p
    <3> QED BY <3>1
  <2>2. CASE d.eq = 1
    <3>1. joined = w /\ place = found + 1 /\ p = a + 1 /\ c + d.eq = c + 1
      BY <2>2
    <3>2. a \in 0..n - 1
      BY <2>2
    <3>3. w \in Seq(T) /\ ThirdFits(w, found + 1, n, nb, a + 1, c + 1)
      BY <2>2, <3>2, ThirdJoined
    <3> HIDE DEF joined, place, p, w, found
    <3> QED BY <3>1, <3>3
  <2> QED BY <1>1, <2>1, <2>2
<1>4. p \in 0..a + d.eq + d.d1 /\ p \in Nat /\ c + d.eq \in Nat
  BY <1>1
<1> HIDE DEF joined, place, p
<1>5. LET r == InsertRows(joined, place, lone)
      IN r \in Seq(T) /\ ThirdFits(r, place + d.d2, n, nb, p, c + d.eq + d.d2)
  BY <1>1, <1>3, <1>4, ThirdLone
<1> HIDE DEF lone, t
<1> QED BY <1>2, <1>4, <1>5 DEF t

-----------------------------------------------------------------------------
(* calcDiff3LineListTrim(). *)

\* A line of s goes up over rows that hold none.
LEMMA LinesUp ==
    ASSUME NEW q, NEW r, NEW s, NEW N \in Nat, NEW to \in 1..N, NEW from \in to + 1..N,
           NEW l, NEW n, LinesIn(q, s, 1, N, l, n),
           \A k \in (1..N) \ {to, from} : r[k].at[s] = q[k].at[s],
           r[to].at[s] = q[from].at[s], r[from].at[s] = NoLine,
           \A k \in to..from - 1 : q[k].at[s] = NoLine
    PROVE  LinesIn(r, s, 1, N, l, n)
<1>1. PICK c : Counts(c, q, s, 1, N) /\ c[1 - 1] = l /\ c[N] = n
  BY DEF LinesIn
<1>2. c \in [0..N -> Nat] /\ \A k \in 1..N : k \in 0..N /\ k - 1 \in 0..N
  BY <1>1 DEF Counts
<1> DEFINE e == [k \in 0..N |-> IF k \in to..from - 1 THEN c[from] ELSE c[k]]
<1>3. e \in [0..N -> Nat] /\ \A k \in 0..N : e[k] = IF k \in to..from - 1 THEN c[from] ELSE c[k]
  BY <1>2
<1> HIDE DEF e
<1> DEFINE Same == {x \in Nat : to + x <= from - 1 => c[to + x] = c[to - 1]}
<1>4. 0 \in Same
  <2>1. to \in 1..N /\ to \in to..from - 1 /\ to + 0 = to
    OBVIOUS
  <2>2. q[to].at[s] = NoLine
    BY <2>1
  <2>3. c[to] = c[to - 1]
    BY <1>1, <2>1, <2>2 DEF Counts
  <2> QED BY <2>1, <2>3
<1>5. ASSUME NEW x \in Nat, x \in Same PROVE x + 1 \in Same
  <2> SUFFICES ASSUME to + (x + 1) <= from - 1 PROVE c[to + (x + 1)] = c[to - 1]
    OBVIOUS
  <2> DEFINE k == to + (x + 1)
  <2>1. k \in 1..N /\ k \in to..from - 1 /\ k - 1 = to + x
    OBVIOUS
  <2>2. c[k - 1] = c[to - 1]
    BY <1>5, <2>1
  <2> HIDE DEF k
  <2>3. q[k].at[s] = NoLine
    BY <2>1
  <2>4. c[k] = c[k - 1]
    BY <1>1, <2>1, <2>3 DEF Counts
  <2> QED BY <2>2, <2>4 DEF k
<1>6. \A k \in to..from - 1 : c[k] = c[to - 1]
  <2> HIDE DEF Same
  <2>1. \A x \in Nat : x \in Same
    BY <1>4, <1>5, SetInduction
  <2> SUFFICES ASSUME NEW k \in to..from - 1 PROVE c[k] = c[to - 1]
    OBVIOUS
  <2>2. k - to \in Nat /\ to + (k - to) = k
    OBVIOUS
  <2> QED BY <2>1, <2>2 DEF Same
<1>7. c[from - 1] = c[to - 1]
  BY <1>6
<1>8. ASSUME NEW k \in 1..N
      PROVE  IF r[k].at[s] = NoLine THEN e[k] = e[k - 1]
             ELSE e[k] = e[k - 1] + 1 /\ r[k].at[s] = e[k]
  <2>1. IF q[k].at[s] = NoLine THEN c[k] = c[k - 1]
        ELSE c[k] = c[k - 1] + 1 /\ q[k].at[s] = c[k]
    BY <1>1 DEF Counts
  <2>2. IF q[from].at[s] = NoLine THEN c[from] = c[from - 1]
        ELSE c[from] = c[from - 1] + 1 /\ q[from].at[s] = c[from]
    BY <1>1 DEF Counts
  <2>3. k \in 0..N /\ k - 1 \in 0..N
    BY <1>2
  <2>4. CASE k = to
    <3>1. to \in to..from - 1 /\ to - 1 \notin to..from - 1 /\ to \in 0..N /\ to - 1 \in 0..N
      OBVIOUS
    <3>2. e[k] = c[from] /\ e[k - 1] = c[to - 1]
      BY <1>3, <2>4, <3>1
    <3> QED BY <1>7, <2>2, <2>4, <3>2
  <2>5. CASE k = from
    <3>1. e[k] = c[from] /\ e[k - 1] = c[from]
      BY <1>3, <2>3, <2>5
    <3> QED BY <2>5, <3>1
  <2>6. CASE k \in to + 1..from - 1
    <3>1. e[k] = c[from] /\ e[k - 1] = c[from]
      BY <1>3, <2>3, <2>6
    <3>2. r[k].at[s] = NoLine
      BY <2>6
    <3> QED BY <3>1, <3>2
  <2>7. CASE k < to \/ k > from
    <3>1. e[k] = c[k] /\ e[k - 1] = c[k - 1]
      <4>1. k \notin to..from - 1 /\ k - 1 \notin to..from - 1
        BY ONLY <1>2, <2>7, k \in 1..N
      <4> QED BY ONLY <1>3, <2>3, <4>1
    <3>2. r[k].at[s] = q[k].at[s]
      BY <2>7
    <3> QED BY <2>1, <3>1, <3>2
  <2> QED BY <2>4, <2>5, <2>6, <2>7
<1>9. e[0] = l /\ e[N] = n
  <2>1. c[0] = l
    BY <1>1
  <2>2. 0 \notin to..from - 1 /\ N \notin to..from - 1 /\ 0 \in 0..N /\ N \in 0..N
    OBVIOUS
  <2> QED BY <1>1, <1>3, <2>1, <2>2
<1>10. Counts(e, r, s, 1, N) /\ e[1 - 1] = l /\ e[N] = n
  BY <1>3, <1>8, <1>9 DEF Counts
<1> QED BY <1>10 DEF LinesIn

\* The two other sides of a side.
LEMMA ThreeSides ==
    ASSUME NEW s \in Sides
    PROVE  LET u == Partner(s)
               v == Third(s)
           IN /\ u \in Sides /\ v \in Sides /\ u # s /\ v # s /\ u # v
              /\ \A x \in Sides : x = s \/ x = u \/ x = v
              /\ Others(s) = {u, v} /\ PairsOf(s) = {{s, u}, {s, v}}
              /\ {s, u} \in Pairs /\ {s, v} \in Pairs /\ {u, v} \in Pairs
<1>1. CASE s = "A"
  BY <1>1 DEF Sides, Partner, Third, Others, PairsOf, Pairs, AB, AC, BC
<1>2. CASE s = "B"
  BY <1>2 DEF Sides, Partner, Third, Others, PairsOf, Pairs, AB, AC, BC
<1>3. CASE s = "C"
  BY <1>3 DEF Sides, Partner, Third, Others, PairsOf, Pairs, AB, AC, BC
<1> QED BY <1>1, <1>2, <1>3 DEF Sides

\* w is rs with the lines of S moved from one row to another.
Moved(w, rs, S, from, to, lost, gained) ==
    /\ w \in Seq(RowType) /\ Len(w) = Len(rs)
    /\ \A k \in 1..Len(rs) : k \notin {to, from} => w[k] = rs[k]
    /\ \A s \in Sides : w[to].at[s] = IF s \in S THEN rs[from].at[s] ELSE rs[to].at[s]
    /\ \A s \in Sides : w[from].at[s] = IF s \in S THEN NoLine ELSE rs[from].at[s]
    /\ w[to].eq = rs[to].eq \cup gained /\ w[from].eq = rs[from].eq \ lost

LEMMA MoveWell ==
    ASSUME NEW rs \in Seq(RowType), NEW S, NEW to \in 1..Len(rs), NEW from \in 1..Len(rs), from # to,
           NEW lost, NEW gained \in SUBSET Pairs
    PROVE  Moved(Move(rs, S, from, to, lost, gained), rs, S, from, to, lost, gained)
<1> DEFINE x == [at |-> [s \in Sides |-> IF s \in S THEN rs[from].at[s] ELSE rs[to].at[s]],
                 eq |-> rs[to].eq \cup gained]
           y == [at |-> [s \in Sides |-> IF s \in S THEN NoLine ELSE rs[from].at[s]],
                 eq |-> rs[from].eq \ lost]
           u == [rs EXCEPT ![to] = x]
           w == Move(rs, S, from, to, lost, gained)
<1>1. rs[to] \in RowType /\ rs[from] \in RowType
  BY ElementOfSeq
<1>2. x \in RowType /\ y \in RowType
  BY <1>1 DEF RowType, NoLine
<1>3. /\ u \in Seq(RowType) /\ Len(u) = Len(rs) /\ u[to] = x
      /\ \A k \in 1..Len(rs) : k # to => u[k] = rs[k]
  <2> HIDE DEF x
  <2> QED BY <1>2, ExceptSeq
<1>4. w = [u EXCEPT ![from] = y]
  <2>1. u[from] = rs[from]
    BY <1>3
  <2>2. w = [u EXCEPT ![from] = [at |-> [s \in Sides |-> IF s \in S THEN NoLine ELSE @.at[s]],
                                 eq |-> @.eq \ lost]]
    BY DEF Move
  <2> HIDE DEF u, w
  <2> QED BY <2>1, <2>2
<1>5. /\ w \in Seq(RowType) /\ Len(w) = Len(rs) /\ w[from] = y
      /\ \A k \in 1..Len(rs) : k # from => w[k] = u[k]
  <2> HIDE DEF x, y, u, w
  <2> QED BY <1>2, <1>3, <1>4, ExceptSeq
<1>6. w[to] = x /\ w[from] = y /\ \A k \in 1..Len(rs) : k \notin {to, from} => w[k] = rs[k]
  <2> HIDE DEF x, y, u, w
  <2> QED BY <1>3, <1>5
<1>7. /\ \A s \in Sides : x.at[s] = IF s \in S THEN rs[from].at[s] ELSE rs[to].at[s]
      /\ \A s \in Sides : y.at[s] = IF s \in S THEN NoLine ELSE rs[from].at[s]
      /\ x.eq = rs[to].eq \cup gained /\ y.eq = rs[from].eq \ lost
  OBVIOUS
<1> HIDE DEF x, y, u, w
<1>8. Moved(w, rs, S, from, to, lost, gained)
  BY <1>5, <1>6, <1>7 DEF Moved
<1> QED BY <1>8 DEF w

\* The pairs of a row are those whose lines are there and have the same text.
Alike(row, f, s, t) ==
    row.at[s] # NoLine /\ row.at[t] # NoLine /\ f[s][row.at[s]] = f[t][row.at[t]]
Exact(row, f) == \A s, t \in Sides : s # t => ({s, t} \in row.eq <=> Alike(row, f, s, t))
AllExact(rs, f) == \A k \in 1..Len(rs) : Exact(rs[k], f)

\* Before row line is looked at, the rows from cur[s] on above it hold no line of s.
TrimWell(t, line) ==
    /\ t.rows \in Seq(RowType) /\ line \in 1..Len(t.rows) + 1
    /\ \A s \in Sides : t.cur[s] \in 1..line
    /\ \A s \in Sides : \A k \in t.cur[s]..line - 1 : t.rows[k].at[s] = NoLine

KeepsLines(rs, w) ==
    \A s \in Sides : \A n : LinesIn(rs, s, 1, Len(rs), 0, n) => LinesIn(w, s, 1, Len(w), 0, n)

\* What a move in row line does to the rows of t, files being f.
Trims(t, u, f, line) ==
    /\ TrimWell(u, line) /\ Len(u.rows) = Len(t.rows)
    /\ KeepsLines(t.rows, u.rows)
    /\ AllExact(t.rows, f) => AllExact(u.rows, f)

LEMMA TrimsOn ==
    ASSUME NEW t, NEW u, NEW v, NEW f, NEW line, Trims(t, u, f, line), Trims(u, v, f, line)
    PROVE  Trims(t, v, f, line)
BY DEF Trims, KeepsLines

LEMMA TrimsNothing ==
    ASSUME NEW t, NEW f, NEW line, TrimWell(t, line)
    PROVE  Trims(t, t, f, line)
BY DEF Trims, KeepsLines

LEMMA LinesOverMove ==
    ASSUME NEW rs, NEW w, NEW S, NEW to \in 1..Len(rs), NEW from \in to + 1..Len(rs), NEW lost, NEW gained,
           Len(rs) \in Nat, Moved(w, rs, S, from, to, lost, gained),
           \A s \in S : \A k \in to..from - 1 : rs[k].at[s] = NoLine
    PROVE  KeepsLines(rs, w)
<1> SUFFICES ASSUME NEW s \in Sides, NEW n, LinesIn(rs, s, 1, Len(rs), 0, n)
             PROVE  LinesIn(w, s, 1, Len(rs), 0, n)
  BY DEF KeepsLines, Moved
<1>1. CASE s \in S
  <2>1. \A k \in (1..Len(rs)) \ {to, from} : w[k].at[s] = rs[k].at[s]
    BY DEF Moved
  <2>2. w[to].at[s] = rs[from].at[s] /\ w[from].at[s] = NoLine
    BY <1>1 DEF Moved
  <2>3. \A k \in to..from - 1 : rs[k].at[s] = NoLine
    BY <1>1
  <2> QED BY <2>1, <2>2, <2>3, LinesUp
<1>2. CASE s \notin S
  <2>1. \A k \in 1..Len(rs) : w[k].at[s] = rs[k].at[s]
    BY <1>2 DEF Moved
  <2>2. 1 \in Nat \ {0}
    OBVIOUS
  <2> QED BY <2>1, <2>2, LinesSame
<1> QED BY <1>1, <1>2

\* Room for the sides S is looked for below row "to" from now on.
RoomBelow(rooms, t, S, to) ==
    /\ \A s \in S : t.cur[s] <= to
    /\ \A s \in Sides : rooms[s] = IF s \in S THEN to + 1 ELSE t.cur[s]

\* Room is left below the line that went up.
LEMMA RoomLeft ==
    ASSUME NEW t, NEW line, TrimWell(t, line), line <= Len(t.rows), NEW S \in SUBSET Sides,
           NEW to \in 1..line - 1, NEW w, NEW lost, NEW gained,
           Moved(w, t.rows, S, line, to, lost, gained), NEW rooms, RoomBelow(rooms, t, S, to)
    PROVE  TrimWell([rows |-> w, cur |-> rooms], line) /\ KeepsLines(t.rows, w)
<1>1. Len(t.rows) \in Nat /\ line \in 1..Len(t.rows)
  BY LenProperties DEF TrimWell
<1>2. w \in Seq(RowType) /\ Len(w) = Len(t.rows)
  BY DEF Moved
<1>3. \A s \in Sides : rooms[s] \in 1..line
  BY <1>1 DEF TrimWell, RoomBelow
<1>4. ASSUME NEW s \in Sides, NEW k \in rooms[s]..line - 1 PROVE w[k].at[s] = NoLine
  <2>1. k \in 1..Len(t.rows) /\ k # line
    BY <1>1, <1>3
  <2>2. CASE s \in S
    <3>1. k # to /\ k \in t.cur[s]..line - 1
      BY <1>1, <2>2 DEF TrimWell, RoomBelow
    <3> QED BY <2>1, <3>1 DEF TrimWell, Moved
  <2>3. CASE s \notin S
    <3>1. k \in t.cur[s]..line - 1
      BY <2>3 DEF RoomBelow
    <3> QED BY <2>1, <2>3, <3>1 DEF TrimWell, Moved
  <2> QED BY <2>2, <2>3
<1>5. TrimWell([rows |-> w, cur |-> rooms], line)
  BY <1>1, <1>2, <1>3, <1>4 DEF TrimWell
<1>6. KeepsLines(t.rows, w)
  <2>1. to \in 1..Len(t.rows) /\ line \in to + 1..Len(t.rows)
    BY <1>1
  <2>2. \A s \in S : \A k \in to..line - 1 : t.rows[k].at[s] = NoLine
    <3> SUFFICES ASSUME NEW s \in S, NEW k \in to..line - 1 PROVE t.rows[k].at[s] = NoLine
      OBVIOUS
    <3>1. s \in Sides /\ k \in t.cur[s]..line - 1
      BY <1>1 DEF TrimWell, RoomBelow
    <3> QED BY <3>1 DEF TrimWell
  <2> QED BY <1>1, <2>1, <2>2, LinesOverMove
<1> QED BY <1>5, <1>6

\* The pairs that a line l of s gains in a row are those it is alike in.
Fair(row, f, s, l, gained) ==
    \A u \in Sides : u # s =>
        ({s, u} \in gained <=> row.at[u] # NoLine /\ f[s][l] = f[u][row.at[u]])

\* A row when s has gone, and when it has line l of s.
Loses(new, row, s) ==
    /\ \A x \in Sides : new.at[x] = IF x \in {s} THEN NoLine ELSE row.at[x]
    /\ new.eq = row.eq \ PairsOf(s)
Gains(new, row, s, l, gained) ==
    /\ \A x \in Sides : new.at[x] = IF x \in {s} THEN l ELSE row.at[x]
    /\ new.eq = row.eq \cup gained

LEMMA ExactLeft ==
    ASSUME NEW row \in RowType, NEW new, NEW f, NEW s \in Sides, Exact(row, f), Loses(new, row, s)
    PROVE  Exact(new, f)
<1> SUFFICES ASSUME NEW x \in Sides, NEW y \in Sides, x # y
             PROVE  {x, y} \in new.eq <=> Alike(new, f, x, y)
  BY DEF Exact
<1>1. {x, y} \in row.eq <=> Alike(row, f, x, y)
  BY DEF Exact
<1>2. CASE s \in {x, y}
  <2>1. {x, y} \notin new.eq
    BY <1>2 DEF Loses, RowType, PairsOf
  <2>2. ~Alike(new, f, x, y)
    BY <1>2 DEF Loses, Alike
  <2> QED BY <2>1, <2>2
<1>3. CASE s \notin {x, y}
  <2>1. {x, y} \in new.eq <=> {x, y} \in row.eq
    BY <1>3 DEF Loses, PairsOf
  <2>2. Alike(new, f, x, y) <=> Alike(row, f, x, y)
    BY <1>3 DEF Loses, Alike
  <2> QED BY <1>1, <2>1, <2>2
<1> QED BY <1>2, <1>3

LEMMA ExactGained ==
    ASSUME NEW row \in RowType, NEW new, NEW f, NEW s \in Sides, Exact(row, f), row.at[s] = NoLine,
           NEW l, l # NoLine, NEW gained \in SUBSET PairsOf(s), Fair(row, f, s, l, gained), Gains(new, row, s, l, gained)
    PROVE  Exact(new, f)
<1> SUFFICES ASSUME NEW x \in Sides, NEW y \in Sides, x # y
             PROVE  {x, y} \in new.eq <=> Alike(new, f, x, y)
  BY DEF Exact
<1>1. {x, y} \in row.eq <=> Alike(row, f, x, y)
  BY DEF Exact
<1>2. CASE s \notin {x, y}
  <2>1. {x, y} \in new.eq <=> {x, y} \in row.eq
    BY <1>2 DEF Gains, PairsOf
  <2>2. Alike(new, f, x, y) <=> Alike(row, f, x, y)
    BY <1>2 DEF Gains, Alike
  <2> QED BY <1>1, <2>1, <2>2
<1>3. ASSUME NEW u \in Sides, u # s, {x, y} = {s, u}
      PROVE  {s, u} \in new.eq <=> Alike(new, f, s, u) /\ Alike(new, f, u, s)
  <2>1. {s, u} \notin row.eq
    <3>1. {s, u} \in row.eq <=> Alike(row, f, s, u)
      BY <1>3 DEF Exact
    <3> QED BY <3>1 DEF Alike
  <2>2. {s, u} \in gained <=> row.at[u] # NoLine /\ f[s][l] = f[u][row.at[u]]
    BY <1>3 DEF Fair
  <2>3. new.at[s] = l /\ new.at[u] = row.at[u]
    BY <1>3 DEF Gains
  <2> QED BY <2>1, <2>2, <2>3 DEF Gains, Alike
<1>4. CASE x = s
  <2>1. y \in Sides /\ y # s /\ {x, y} = {s, y}
    BY <1>4
  <2>2. {s, y} \in new.eq <=> Alike(new, f, s, y) /\ Alike(new, f, y, s)
    BY <1>3, <2>1
  <2> QED BY <1>4, <2>2 DEF Alike
<1>5. CASE y = s
  <2>1. x \in Sides /\ x # s /\ {x, y} = {s, x}
    BY <1>5
  <2>2. {s, x} \in new.eq <=> Alike(new, f, s, x) /\ Alike(new, f, x, s)
    BY <1>3, <2>1
  <2> QED BY <1>5, <2>1, <2>2 DEF Alike
<1> QED BY <1>2, <1>4, <1>5

LEMMA SideMoved ==
    ASSUME NEW t, NEW f, NEW line, NEW s \in Sides, TrimWell(t, line), line <= Len(t.rows),
           line > t.cur[s], t.cur \in [Sides -> Nat], t.rows[line].at[s] # NoLine, NEW gained \in SUBSET PairsOf(s),
           AllExact(t.rows, f) => Fair(t.rows[t.cur[s]], f, s, t.rows[line].at[s], gained)
    PROVE  Trims(t, MoveSide(t, s, line, gained), f, line)
<1> DEFINE rs == t.rows
           to == t.cur[s]
           w == Move(rs, {s}, line, to, PairsOf(s), gained)
           rooms == [t.cur EXCEPT ![s] = @ + 1]
<1>1. rs \in Seq(RowType) /\ Len(rs) \in Nat /\ line \in 1..Len(rs) /\ to \in 1..line - 1
  BY LenProperties DEF TrimWell
<1>2. to \in 1..Len(rs) /\ line # to /\ gained \in SUBSET Pairs /\ {s} \in SUBSET Sides
  BY <1>1 DEF PairsOf
<1>3. Moved(w, rs, {s}, line, to, PairsOf(s), gained)
  <2> HIDE DEF rs, to
  <2> QED BY <1>1, <1>2, MoveWell
<1>4. MoveSide(t, s, line, gained) = [rows |-> w, cur |-> rooms]
  BY DEF MoveSide
<1>5. RoomBelow(rooms, t, {s}, to)
  BY <1>1 DEF RoomBelow
<1> HIDE DEF w, rooms
<1>6. TrimWell([rows |-> w, cur |-> rooms], line) /\ KeepsLines(rs, w)
  <2>1. /\ TrimWell(t, line) /\ line <= Len(t.rows) /\ {s} \in SUBSET Sides
        /\ to \in 1..line - 1
    BY <1>1
  <2>2. Moved(w, t.rows, {s}, line, to, PairsOf(s), gained)
    BY <1>3
  <2> HIDE DEF to
  <2> QED BY ONLY <1>5, <2>1, <2>2, RoomLeft
<1>7. ASSUME AllExact(rs, f) PROVE AllExact(w, f)
  <2> SUFFICES ASSUME NEW k \in 1..Len(rs) PROVE Exact(w[k], f)
    BY <1>3 DEF AllExact, Moved
  <2>1. rs[k] \in RowType /\ Exact(rs[k], f)
    BY <1>1, <1>7, ElementOfSeq DEF AllExact
  <2>2. CASE k \notin {to, line}
    <3>1. w[k] = rs[k]
      BY <1>3, <2>2 DEF Moved
    <3> QED BY <2>1, <3>1
  <2>3. CASE k = line
    <3>1. Loses(w[k], rs[k], s)
      BY <1>3, <2>3 DEF Moved, Loses
    <3>2. s \in Sides
      OBVIOUS
    <3> QED BY ONLY <2>1, <3>1, <3>2, ExactLeft
  <2>4. CASE k = to
    <3> DEFINE l == rs[line].at[s]
    <3>1. Gains(w[k], rs[k], s, l, gained)
      BY <1>3, <2>4 DEF Moved, Gains
    <3>2. rs[k].at[s] = NoLine
      BY <1>1, <2>4 DEF TrimWell
    <3>3. Fair(rs[k], f, s, l, gained) /\ l # NoLine
      BY <1>7, <2>4
    <3>4. s \in Sides /\ gained \in SUBSET PairsOf(s)
      OBVIOUS
    <3> HIDE DEF l
    <3> QED BY ONLY <2>1, <3>1, <3>2, <3>3, <3>4, ExactGained
  <2> QED BY <2>2, <2>3, <2>4
<1>8. Len(w) = Len(rs)
  BY <1>3 DEF Moved
<1> QED BY <1>4, <1>6, <1>7, <1>8 DEF Trims

\* Rows in which a line may move.
IsState(t) == t = [rows |-> t.rows, cur |-> t.cur] /\ t.cur \in [Sides -> Nat]
TrimsAt(t, line) == TrimWell(t, line) /\ line <= Len(t.rows) /\ IsState(t)

LEMMA RoomExact ==
    ASSUME NEW t, NEW f, NEW line, NEW s \in Sides, TrimsAt(t, line), line > t.cur[s], AllExact(t.rows, f)
    PROVE  LET room == t.rows[t.cur[s]]
           IN room \in RowType /\ Exact(room, f) /\ room.at[s] = NoLine
<1>1. /\ t.rows \in Seq(RowType) /\ Len(t.rows) \in Nat
      /\ t.cur[s] \in 1..Len(t.rows) /\ t.cur[s] \in t.cur[s]..line - 1
  BY LenProperties DEF TrimsAt, TrimWell
<1> QED BY <1>1, ElementOfSeq DEF TrimsAt, TrimWell, AllExact

LEMMA MatchingTrims ==
    ASSUME NEW t, NEW f, NEW list, NEW s \in Sides, NEW line, TrimsAt(t, line)
    PROVE  Trims(t, MoveMatching(t, f, list, s, line), f, line)
<1> DEFINE u == Partner(s)
           v == Third(s)
           room == t.rows[t.cur[s]]
           l == t.rows[line].at[s]
<1>1. /\ u \in Sides /\ v \in Sides /\ u # s /\ v # s /\ u # v
      /\ \A x \in Sides : x = s \/ x = u \/ x = v
      /\ Others(s) = {u, v} /\ PairsOf(s) = {{s, u}, {s, v}}
  BY ThreeSides
<1>2. CASE MoveMatching(t, f, list, s, line) = t
  BY <1>2, TrimsNothing DEF TrimsAt
<1>3. CASE /\ MoveMatching(t, f, list, s, line) = MoveSide(t, s, line, PairsOf(s))
           /\ line > t.cur[s] /\ l # NoLine /\ room.at[u] # NoLine /\ Others(s) \in room.eq
           /\ f[s][l] = f[u][room.at[u]]
  <2>1. ASSUME AllExact(t.rows, f) PROVE Fair(room, f, s, l, PairsOf(s))
    <3>1. Exact(room, f)
      BY <1>3, <2>1, RoomExact
    <3> HIDE DEF u, v, room, l
    <3>2. room.at[v] # NoLine /\ f[u][room.at[u]] = f[v][room.at[v]]
      <4>1. {u, v} \in room.eq /\ u \in Sides /\ v \in Sides /\ u # v
        BY <1>1, <1>3
      <4> QED BY <3>1, <4>1 DEF Exact, Alike
    <3> QED BY <1>1, <1>3, <3>2 DEF Fair
  <2>2. Trims(t, MoveSide(t, s, line, PairsOf(s)), f, line)
    BY <1>3, <2>1, SideMoved DEF TrimsAt, IsState
  <2> QED BY <1>3, <2>2
<1> QED BY <1>2, <1>3 DEF MoveMatching, Holds

LEMMA AloneTrims ==
    ASSUME NEW t, NEW f, NEW list, NEW s \in Sides, NEW line, TrimsAt(t, line)
    PROVE  Trims(t, MoveAlone(t, f, list, s, line), f, line)
<1> DEFINE u == Partner(s)
           v == Third(s)
           room == t.rows[t.cur[s]]
           l == t.rows[line].at[s]
           same(x) == room.at[x] # NoLine /\ f[s][l] = f[x][room.at[x]]
           first == IF same(u) THEN {{s, u}} ELSE {}
           both == {{s, u}, {u, v}} \subseteq room.eq \cup first
           second == IF both \/ same(v) THEN {{s, v}} ELSE {}
           gained == first \cup second
<1>1. /\ u \in Sides /\ v \in Sides /\ u # s /\ v # s /\ u # v
      /\ \A x \in Sides : x = s \/ x = u \/ x = v
      /\ Others(s) = {u, v} /\ PairsOf(s) = {{s, u}, {s, v}}
  BY ThreeSides
<1>2. CASE MoveAlone(t, f, list, s, line) = t
  BY <1>2, TrimsNothing DEF TrimsAt
<1>3. CASE /\ MoveAlone(t, f, list, s, line) = MoveSide(t, s, line, gained)
           /\ line > t.cur[s] /\ l # NoLine
  <2>1. ASSUME AllExact(t.rows, f) PROVE Fair(room, f, s, l, gained)
    <3>1. Exact(room, f) /\ room.at[s] = NoLine
      BY <1>3, <2>1, RoomExact
    <3>2. {s, u} \notin room.eq
      BY <1>1, <3>1 DEF Exact, Alike
    <3>3. {u, v} \in room.eq => room.at[v] # NoLine /\ f[u][room.at[u]] = f[v][room.at[v]]
      BY <1>1, <3>1 DEF Exact, Alike
    <3> HIDE DEF u, v, room, l
    <3>4. {s, u} # {s, v} /\ {s, u} # {u, v} /\ {s, v} # {u, v}
      BY <1>1
    <3>5. {s, u} \in first <=> same(u)
      OBVIOUS
    <3>6. both => same(u) /\ {u, v} \in room.eq
      BY <3>2, <3>4
    <3>7. both => same(v)
      BY <3>3, <3>6
    <3>8. {s, v} \in second <=> same(v)
      BY <3>7
    <3>9. {s, u} \in gained <=> same(u)
      BY <3>4, <3>5
    <3>10. {s, v} \in gained <=> same(v)
      BY <3>4, <3>8
    <3> HIDE DEF gained
    <3> QED BY <1>1, <3>9, <3>10 DEF Fair
  <2>2. gained \in SUBSET PairsOf(s)
    BY <1>1
  <2> HIDE DEF gained
  <2>3. Trims(t, MoveSide(t, s, line, gained), f, line)
    BY <1>3, <2>1, <2>2, SideMoved DEF TrimsAt, IsState
  <2> QED BY <1>3, <2>3
<1> QED BY <1>2, <1>3 DEF MoveAlone, Holds

\* Two equal sides x and y and the third side of MovePair().
PairOf(S, x, y, o) ==
    /\ S = {x, y} /\ x # y /\ o # x /\ o # y
    /\ x \in Sides /\ y \in Sides /\ o \in Sides
    /\ \A s \in Sides : s = x \/ s = y \/ s = o
    /\ o = InOrder(Sides \ S) /\ S \in Pairs
    /\ PairsOf(o) = {{x, o}, {y, o}}

\* A row when the lines of S have gone, and when it has those of another row.
LosesPair(new, row, S) ==
    /\ \A s \in Sides : new.at[s] = IF s \in S THEN NoLine ELSE row.at[s]
    /\ new.eq = row.eq \ {S}
GainsPair(new, row, from, S, gained) ==
    /\ \A s \in Sides : new.at[s] = IF s \in S THEN from.at[s] ELSE row.at[s]
    /\ new.eq = row.eq \cup gained

\* The row a pair leaves: {x, y} was its only pair.
LEMMA ExactWithoutPair ==
    ASSUME NEW row, NEW new, NEW f, NEW S, NEW x, NEW y, NEW o, PairOf(S, x, y, o),
           Exact(row, f), {x, o} \notin row.eq \/ {y, o} \notin row.eq, S \in row.eq,
           LosesPair(new, row, S)
    PROVE  Exact(new, f)
<1>1. /\ x \in Sides /\ y \in Sides /\ o \in Sides /\ x # y /\ o # x /\ o # y /\ S = {x, y}
      /\ \A s \in Sides : s = x \/ s = y \/ s = o
  BY DEF PairOf
<1>2. /\ {x, y} \in row.eq <=> Alike(row, f, x, y)
      /\ {x, o} \in row.eq <=> Alike(row, f, x, o)
      /\ {y, o} \in row.eq <=> Alike(row, f, y, o)
  BY <1>1 DEF Exact
<1>3. {x, o} \notin row.eq /\ {y, o} \notin row.eq
  BY <1>1, <1>2 DEF Alike
<1>4. {x, y} \notin new.eq /\ {x, o} \notin new.eq /\ {y, o} \notin new.eq
  BY <1>1, <1>3 DEF LosesPair
<1>5. new.at[x] = NoLine /\ new.at[y] = NoLine
  BY <1>1 DEF LosesPair
<1> SUFFICES ASSUME NEW s \in Sides, NEW t \in Sides, s # t
             PROVE  {s, t} \in new.eq <=> Alike(new, f, s, t)
  BY DEF Exact
<1>6. {s, t} \in {{x, y}, {x, o}, {y, o}}
  BY <1>1
<1>7. s \in {x, y} \/ t \in {x, y}
  BY <1>1
<1> QED BY <1>4, <1>5, <1>6, <1>7 DEF Alike

\* The row a pair goes to: it held neither line.
LEMMA ExactWithPair ==
    ASSUME NEW from, NEW row, NEW new, NEW f, NEW S, NEW x, NEW y, NEW o, PairOf(S, x, y, o),
           Exact(from, f), S \in from.eq, Exact(row, f), row.at[x] = NoLine, row.at[y] = NoLine,
           NEW same \in BOOLEAN, NEW gained,
           same <=> row.at[o] # NoLine /\ f[x][from.at[x]] = f[o][row.at[o]],
           gained = {S} \cup (IF same THEN PairsOf(o) ELSE {}),
           GainsPair(new, row, from, S, gained)
    PROVE  Exact(new, f)
<1>1. /\ x \in Sides /\ y \in Sides /\ o \in Sides /\ x # y /\ o # x /\ o # y /\ S = {x, y}
      /\ \A s \in Sides : s = x \/ s = y \/ s = o
      /\ PairsOf(o) = {{x, o}, {y, o}}
  BY DEF PairOf
<1>2. Alike(from, f, x, y)
  BY <1>1 DEF Exact
<1>3. {x, o} \notin row.eq /\ {y, o} \notin row.eq
  BY <1>1 DEF Exact, Alike
<1>4. new.at[x] = from.at[x] /\ new.at[y] = from.at[y] /\ new.at[o] = row.at[o]
  BY <1>1 DEF GainsPair
<1>5. {x, y} # {x, o} /\ {x, y} # {y, o} /\ {x, o} # {y, o}
  BY <1>1
<1>6. /\ {x, y} \in new.eq
      /\ {x, o} \in new.eq <=> same
      /\ {y, o} \in new.eq <=> same
  <2>1. CASE same
    <3>1. new.eq = row.eq \cup ({{x, y}} \cup {{x, o}, {y, o}})
      BY <1>1, <2>1 DEF GainsPair
    <3> QED BY <2>1, <3>1
  <2>2. CASE ~same
    <3>1. new.eq = row.eq \cup {{x, y}}
      BY <1>1, <2>2 DEF GainsPair
    <3> QED BY <1>3, <1>5, <2>2, <3>1
  <2> QED BY <2>1, <2>2
<1>7. /\ Alike(new, f, x, y) /\ Alike(new, f, y, x)
      /\ same <=> Alike(new, f, x, o)
      /\ same <=> Alike(new, f, y, o)
      /\ same <=> Alike(new, f, o, x)
      /\ same <=> Alike(new, f, o, y)
  BY <1>2, <1>4 DEF Alike
<1> SUFFICES ASSUME NEW s \in Sides, NEW t \in Sides, s # t
             PROVE  {s, t} \in new.eq <=> Alike(new, f, s, t)
  BY DEF Exact
<1>8. CASE (s = x /\ t = y) \/ (s = y /\ t = x)
  <2>1. {s, t} = {x, y}
    BY <1>8
  <2> QED BY <1>6, <1>7, <1>8, <2>1
<1>9. CASE (s = x /\ t = o) \/ (s = o /\ t = x)
  <2>1. {s, t} = {x, o}
    BY <1>9
  <2> QED BY <1>6, <1>7, <1>9, <2>1
<1>10. CASE (s = y /\ t = o) \/ (s = o /\ t = y)
  <2>1. {s, t} = {y, o}
    BY <1>10
  <2> QED BY <1>6, <1>7, <1>10, <2>1
<1>11. (s = x \/ s = y \/ s = o) /\ (t = x \/ t = y \/ t = o)
  BY <1>1
<1> QED BY <1>8, <1>9, <1>10, <1>11

LEMMA PairTrims ==
    ASSUME NEW t, NEW f, NEW list, NEW line, TrimsAt(t, line), NEW S, NEW x, NEW y, NEW o,
           PairOf(S, x, y, o), \A s \in S : line > t.cur[s], S \in t.rows[line].eq,
           {x, o} \notin t.rows[line].eq \/ {y, o} \notin t.rows[line].eq
    PROVE  Trims(t, MovePair(t, f, list, S, x, line), f, line)
<1> DEFINE rs == t.rows
           to == Max({t.cur[s] : s \in S})
           same == /\ Holds(rs[to], o)
                   /\ f[x][rs[line].at[x]] = f[o][rs[to].at[o]]
           gained == {S} \cup (IF same THEN PairsOf(o) ELSE {})
           w == Move(rs, S, line, to, {S}, gained)
           rooms == [s \in Sides |-> IF s \in S THEN to + 1 ELSE t.cur[s]]
<1>1. /\ x \in Sides /\ y \in Sides /\ o \in Sides /\ S = {x, y} /\ o = InOrder(Sides \ S)
      /\ S \in Pairs /\ S \in SUBSET Sides
  BY DEF PairOf
<1>2. /\ rs \in Seq(RowType) /\ Len(rs) \in Nat /\ line \in 1..Len(rs)
      /\ t.cur[x] \in 1..line - 1 /\ t.cur[y] \in 1..line - 1
  BY <1>1, LenProperties DEF TrimsAt, TrimWell
<1>3. to \in 1..line - 1 /\ t.cur[x] <= to /\ t.cur[y] <= to
  <2>1. {t.cur[s] : s \in S} = {t.cur[x], t.cur[y]}
    BY <1>1
  <2> DEFINE c == t.cur[x]
             d == t.cur[y]
  <2>2. c \in Nat /\ d \in Nat
    BY <1>2
  <2> HIDE DEF c, d
  <2>3. Max({c, d}) \in {c, d} /\ c <= Max({c, d}) /\ d <= Max({c, d})
    BY <2>2, MaxOfTwo
  <2> QED BY <1>2, <2>1, <2>3 DEF c, d
<1>4. \/ MovePair(t, f, list, S, x, line) = t
      \/ MovePair(t, f, list, S, x, line) = [rows |-> w, cur |-> rooms]
  BY <1>1 DEF MovePair
<1>5. CASE MovePair(t, f, list, S, x, line) = t
  BY <1>5, TrimsNothing DEF TrimsAt
<1>6. CASE MovePair(t, f, list, S, x, line) = [rows |-> w, cur |-> rooms]
  <2>1. RoomBelow(rooms, t, S, to)
    BY <1>1, <1>3 DEF RoomBelow
  <2> HIDE DEF to, rooms
  <2>2. gained \in SUBSET Pairs /\ line # to /\ to \in 1..Len(rs)
    <3>1. gained \in SUBSET Pairs
      BY <1>1 DEF PairsOf
    <3>2. line # to /\ to \in 1..Len(rs)
      BY <1>2, <1>3
    <3> QED BY <3>1, <3>2
  <2> HIDE DEF gained
  <2>3. Moved(w, rs, S, line, to, {S}, gained)
    <3> HIDE DEF rs
    <3> QED BY <1>2, <2>2, MoveWell
  <2> HIDE DEF w
  <2>4. TrimWell([rows |-> w, cur |-> rooms], line) /\ KeepsLines(rs, w)
    <3>1. TrimWell(t, line) /\ line <= Len(t.rows) /\ Moved(w, t.rows, S, line, to, {S}, gained)
      BY <2>3 DEF TrimsAt
    <3> QED BY ONLY <1>1, <1>3, <2>1, <3>1, RoomLeft
  <2>5. ASSUME AllExact(rs, f) PROVE AllExact(w, f)
    <3> SUFFICES ASSUME NEW k \in 1..Len(rs) PROVE Exact(w[k], f)
      BY <2>3 DEF AllExact, Moved
    <3>1. Exact(rs[k], f)
      BY <2>5 DEF AllExact
    <3>2. CASE k \notin {to, line}
      <4>1. w[k] = rs[k]
        BY <2>3, <3>2 DEF Moved
      <4> QED BY <3>1, <4>1
    <3>3. CASE k = line
      <4>1. LosesPair(w[k], rs[k], S)
        BY <2>3, <3>3 DEF Moved, LosesPair
      <4>2. S \in rs[k].eq /\ ({x, o} \notin rs[k].eq \/ {y, o} \notin rs[k].eq)
        BY <3>3
      <4> QED BY <3>1, <4>1, <4>2, ExactWithoutPair
    <3>4. CASE k = to
      <4>1. GainsPair(w[k], rs[k], rs[line], S, gained)
        BY <2>3, <3>4 DEF Moved, GainsPair
      <4>2. rs[k].at[x] = NoLine /\ rs[k].at[y] = NoLine
        <5>1. k \in t.cur[x]..line - 1 /\ k \in t.cur[y]..line - 1
          BY <1>2, <1>3, <3>4
        <5> QED BY <1>1, <5>1 DEF TrimsAt, TrimWell
      <4>3. Exact(rs[line], f) /\ S \in rs[line].eq
        BY <1>2, <2>5 DEF AllExact
      <4>4. /\ same \in BOOLEAN
            /\ same <=> rs[k].at[o] # NoLine /\ f[x][rs[line].at[x]] = f[o][rs[k].at[o]]
        BY <3>4 DEF Holds
      <4>5. gained = {S} \cup (IF same THEN PairsOf(o) ELSE {})
        BY DEF gained
      <4> HIDE DEF same
      <4> QED BY <3>1, <4>1, <4>2, <4>3, <4>4, <4>5, ExactWithPair
    <3> QED BY <3>2, <3>3, <3>4
  <2>6. Len(w) = Len(rs)
    BY <2>3 DEF Moved
  <2> QED BY <1>6, <2>4, <2>5, <2>6 DEF Trims
<1> QED BY <1>4, <1>5, <1>6

LEMMA PairsTrim ==
    ASSUME NEW t, NEW f, NEW list, NEW line, TrimsAt(t, line)
    PROVE  Trims(t, MovePairs(t, f, list, line), f, line)
<1>1. PairOf(AB, "A", "B", "C") /\ PairOf(AC, "A", "C", "B") /\ PairOf(BC, "B", "C", "A")
  <2>1. PairOf(AB, "A", "B", "C")
    BY DEF PairOf, Sides, AB, AC, BC, InOrder, Pairs, PairsOf
  <2>2. PairOf(AC, "A", "C", "B")
    BY DEF PairOf, Sides, AB, AC, BC, InOrder, Pairs, PairsOf
  <2>3. PairOf(BC, "B", "C", "A")
    BY DEF PairOf, Sides, AB, AC, BC, InOrder, Pairs, PairsOf
  <2> QED BY <2>1, <2>2, <2>3
<1>2. {"A", "C"} = AC /\ {"A", "B"} = AB /\ {"C", "A"} = AC
  BY DEF AC, AB
<1>3. CASE PairGoes(t, AB, "A", AC, line)
  <2>1. MovePairs(t, f, list, line) = MovePair(t, f, list, AB, "A", line)
    BY <1>3 DEF MovePairs
  <2>2. (\A s \in AB : line > t.cur[s]) /\ AB \in t.rows[line].eq /\ {"A", "C"} \notin t.rows[line].eq
    BY <1>2, <1>3 DEF PairGoes
  <2>3. Trims(t, MovePair(t, f, list, AB, "A", line), f, line)
    BY <1>1, <2>2, PairTrims
  <2> QED BY <2>1, <2>3
<1>4. CASE ~PairGoes(t, AB, "A", AC, line) /\ PairGoes(t, AC, "A", AB, line)
  <2>1. MovePairs(t, f, list, line) = MovePair(t, f, list, AC, "A", line)
    BY <1>4 DEF MovePairs
  <2>2. (\A s \in AC : line > t.cur[s]) /\ AC \in t.rows[line].eq /\ {"A", "B"} \notin t.rows[line].eq
    BY <1>2, <1>4 DEF PairGoes
  <2>3. Trims(t, MovePair(t, f, list, AC, "A", line), f, line)
    BY <1>1, <2>2, PairTrims
  <2> QED BY <2>1, <2>3
<1>5. CASE /\ ~PairGoes(t, AB, "A", AC, line) /\ ~PairGoes(t, AC, "A", AB, line)
           /\ PairGoes(t, BC, "B", AC, line)
  <2>1. MovePairs(t, f, list, line) = MovePair(t, f, list, BC, "B", line)
    BY <1>5 DEF MovePairs
  <2>2. (\A s \in BC : line > t.cur[s]) /\ BC \in t.rows[line].eq /\ {"C", "A"} \notin t.rows[line].eq
    BY <1>2, <1>5 DEF PairGoes
  <2>3. Trims(t, MovePair(t, f, list, BC, "B", line), f, line)
    BY <1>1, <2>2, PairTrims
  <2> QED BY <2>1, <2>3
<1>6. CASE /\ ~PairGoes(t, AB, "A", AC, line) /\ ~PairGoes(t, AC, "A", AB, line)
           /\ ~PairGoes(t, BC, "B", AC, line)
  <2>1. MovePairs(t, f, list, line) = t
    BY <1>6 DEF MovePairs
  <2> QED BY <2>1, TrimsNothing DEF TrimsAt
<1> QED BY <1>3, <1>4, <1>5, <1>6

\* Each move leaves rows in which the next may go on.
LEMMA TrimsAgain ==
    ASSUME NEW t, NEW u, NEW f, NEW line, Trims(t, u, f, line), TrimsAt(t, line), IsState(u)
    PROVE  TrimsAt(u, line)
BY DEF Trims, TrimsAt

LEMMA MovedState ==
    ASSUME NEW t, IsState(t), NEW f, NEW list, NEW line
    PROVE  /\ \A s \in Sides : IsState(MoveMatching(t, f, list, s, line))
           /\ \A s \in Sides : IsState(MoveAlone(t, f, list, s, line))
<1>1. ASSUME NEW s \in Sides, NEW gained PROVE IsState(MoveSide(t, s, line, gained))
  <2>1. [t.cur EXCEPT ![s] = @ + 1] \in [Sides -> Nat]
    BY DEF IsState
  <2> QED BY <2>1 DEF MoveSide, IsState
<1>2. ASSUME NEW s \in Sides PROVE IsState(MoveMatching(t, f, list, s, line))
  BY <1>1 DEF MoveMatching
<1>3. ASSUME NEW s \in Sides PROVE IsState(MoveAlone(t, f, list, s, line))
  <2>1. \E gained : MoveAlone(t, f, list, s, line) \in {t, MoveSide(t, s, line, gained)}
    BY DEF MoveAlone
  <2> QED BY <1>1, <2>1
<1> QED BY <1>2, <1>3

LEMMA MovedPairsState ==
    ASSUME NEW t, NEW f, NEW list, NEW line, TrimsAt(t, line)
    PROVE  IsState(MovePairs(t, f, list, line))
<1>1. ASSUME NEW x, NEW y, NEW probe, x \in Sides, y \in Sides
      PROVE  IsState(MovePair(t, f, list, {x, y}, probe, line))
  <2> DEFINE to == Max({t.cur[s] : s \in {x, y}})
             rooms == [s \in Sides |-> IF s \in {x, y} THEN to + 1 ELSE t.cur[s]]
             c == t.cur[x]
             d == t.cur[y]
  <2>1. t.cur \in [Sides -> Nat] /\ c \in Nat /\ d \in Nat
    BY <1>1 DEF TrimsAt, IsState
  <2>2. to \in Nat
    <3>1. {t.cur[s] : s \in {x, y}} = {c, d}
      OBVIOUS
    <3> HIDE DEF c, d
    <3>2. Max({c, d}) \in {c, d}
      BY <2>1, MaxOfTwo
    <3> QED BY <2>1, <3>1, <3>2
  <2>3. \/ MovePair(t, f, list, {x, y}, probe, line) = t
        \/ \E r : MovePair(t, f, list, {x, y}, probe, line) = [rows |-> r, cur |-> rooms]
    BY DEF MovePair
  <2> HIDE DEF to
  <2>4. rooms \in [Sides -> Nat]
    BY <2>1, <2>2
  <2> HIDE DEF rooms
  <2>5. CASE MovePair(t, f, list, {x, y}, probe, line) = t
    BY <2>5 DEF TrimsAt
  <2>6. ASSUME NEW r, MovePair(t, f, list, {x, y}, probe, line) = [rows |-> r, cur |-> rooms]
        PROVE  IsState(MovePair(t, f, list, {x, y}, probe, line))
    BY <2>4, <2>6 DEF IsState
  <2> QED BY <2>3, <2>5, <2>6
<1>2. "A" \in Sides /\ "B" \in Sides /\ "C" \in Sides
  BY DEF Sides
<1> QED BY <1>1, <1>2 DEF MovePairs, AB, AC, BC, TrimsAt

LEMMA TrimmedRow ==
    ASSUME NEW t, NEW f, NEW list, NEW line, TrimsAt(t, line)
    PROVE  LET u == Trimmed(t, f, list, line)
           IN /\ TrimWell(u, line + 1) /\ u.rows \in Seq(RowType) /\ Len(u.rows) = Len(t.rows)
              /\ u.cur \in [Sides -> Nat]
              /\ KeepsLines(t.rows, u.rows)
              /\ AllExact(t.rows, f) => AllExact(u.rows, f)
<1> DEFINE matching(x, s) == MoveMatching(x, f, list, s, line)
           alone(x, s) == MoveAlone(x, f, list, s, line)
           Good(x) == TrimsAt(x, line) /\ Trims(t, x, f, line)
           m == matching(matching(matching(t, "A"), "B"), "C")
           a == alone(alone(alone(m, "A"), "B"), "C")
           p == MovePairs(a, f, list, line)
           u == Trimmed(t, f, list, line)
<1>1. Good(t)
  BY TrimsNothing DEF TrimsAt
<1>2. ASSUME NEW x, Good(x), NEW s \in Sides PROVE Good(matching(x, s))
  <2>1. TrimsAt(x, line) /\ Trims(t, x, f, line)
    BY <1>2
  <2>2. Trims(x, matching(x, s), f, line)
    BY <2>1, MatchingTrims
  <2>3. IsState(matching(x, s))
    BY <2>1, MovedState DEF TrimsAt
  <2> HIDE DEF matching
  <2>4. TrimsAt(matching(x, s), line)
    BY <2>1, <2>2, <2>3, TrimsAgain
  <2>5. Trims(t, matching(x, s), f, line)
    BY <2>1, <2>2, TrimsOn
  <2> QED BY <2>4, <2>5
<1>3. ASSUME NEW x, Good(x), NEW s \in Sides PROVE Good(alone(x, s))
  <2>1. TrimsAt(x, line) /\ Trims(t, x, f, line)
    BY <1>3
  <2>2. Trims(x, alone(x, s), f, line)
    BY <2>1, AloneTrims
  <2>3. IsState(alone(x, s))
    BY <2>1, MovedState DEF TrimsAt
  <2> HIDE DEF alone
  <2>4. TrimsAt(alone(x, s), line)
    BY <2>1, <2>2, <2>3, TrimsAgain
  <2>5. Trims(t, alone(x, s), f, line)
    BY <2>1, <2>2, TrimsOn
  <2> QED BY <2>4, <2>5
<1>4. "A" \in Sides /\ "B" \in Sides /\ "C" \in Sides
  BY DEF Sides
<1>5. Good(m)
  <2> HIDE DEF Good, matching
  <2>1. Good(matching(t, "A"))
    BY <1>1, <1>2, <1>4
  <2>2. Good(matching(matching(t, "A"), "B"))
    BY <1>2, <1>4, <2>1
  <2> QED BY <1>2, <1>4, <2>2
<1>6. Good(a)
  <2> HIDE DEF Good, alone, m
  <2>1. Good(alone(m, "A"))
    BY <1>3, <1>4, <1>5
  <2>2. Good(alone(alone(m, "A"), "B"))
    BY <1>3, <1>4, <2>1
  <2> QED BY <1>3, <1>4, <2>2
<1> HIDE DEF m, a
<1>7. Trims(t, p, f, line)
  <2>1. Trims(a, p, f, line)
    BY <1>6, PairsTrim
  <2> HIDE DEF p
  <2> QED BY <1>6, <2>1, TrimsOn
<1> HIDE DEF p
<1>8. u = Passed(p, line)
  BY DEF Trimmed, u, p, a, m
<1>9. IsState(p)
  BY <1>6, MovedPairsState DEF p
<1> DEFINE rooms == [s \in Sides |-> IF Holds(p.rows[line], s) THEN line + 1 ELSE p.cur[s]]
<1>10. u.rows = p.rows /\ u.cur = rooms
  <2>1. u = [p EXCEPT !.cur = rooms]
    BY <1>8 DEF Passed
  <2> HIDE DEF u, rooms
  <2> QED BY <1>9, <2>1 DEF IsState
<1>11. line \in Nat \ {0} /\ Len(p.rows) \in Nat /\ line <= Len(p.rows) /\ p.rows \in Seq(RowType)
  <2>1. line \in Nat \ {0} /\ line <= Len(t.rows)
    BY LenProperties DEF TrimsAt, TrimWell
  <2> QED BY <1>7, <2>1, LenProperties DEF Trims, TrimWell
<1> HIDE DEF u
<1>12. rooms \in [Sides -> Nat]
  BY <1>9, <1>11 DEF IsState
<1>13. TrimWell(u, line + 1)
  <2>1. \A s \in Sides : p.cur[s] \in 1..line /\ \A k \in p.cur[s]..line - 1 : p.rows[k].at[s] = NoLine
    BY <1>7 DEF Trims, TrimWell
  <2>2. \A s \in Sides : u.cur[s] \in 1..line + 1
    BY <1>10, <1>11, <2>1
  <2>3. ASSUME NEW s \in Sides, NEW k \in u.cur[s]..line + 1 - 1 PROVE u.rows[k].at[s] = NoLine
    <3>1. CASE Holds(p.rows[line], s)
      BY <1>10, <1>11, <3>1
    <3>2. CASE ~Holds(p.rows[line], s)
      <4>1. k \in p.cur[s]..line
        BY <1>10, <1>11, <3>2
      <4>2. CASE k = line
        BY <1>10, <3>2, <4>2 DEF Holds
      <4>3. CASE k # line
        <5>1. k \in p.cur[s]..line - 1
          BY <1>11, <4>1, <4>3
        <5> QED BY <1>10, <2>1, <5>1
      <4> QED BY <4>2, <4>3
    <3> QED BY <3>1, <3>2
  <2> QED BY <1>10, <1>11, <2>2, <2>3 DEF TrimWell
<1> QED BY <1>7, <1>10, <1>11, <1>12, <1>13 DEF Trims, u

-----------------------------------------------------------------------------
(* correctManualDiffAlignment(). *)

\* The lines of s, if new is put before row dest of q.
Placed(q, new, dest, s, n) ==
    \E m, p \in Nat : /\ LinesIn(q, s, 1, dest - 1, 0, m) /\ LinesIn(new, s, 1, Len(new), m, p)
                      /\ LinesIn(q, s, dest, Len(q), p, n)

LEMMA PlacedInserted ==
    ASSUME NEW S, NEW q \in Seq(S), NEW new \in Seq(S), NEW dest \in 1..Len(q) + 1, NEW s, NEW n,
           Placed(q, new, dest, s, n)
    PROVE  LET r == InsertRows(q, dest, new) IN LinesIn(r, s, 1, Len(r), 0, n)
BY LinesInserted DEF Placed

\* Lines that have gone up, and those behind them.
LEMMA LinesBehind ==
    ASSUME NEW rs, NEW q, NEW s, NEW N \in Nat, NEW i \in 1..N + 1, NEW j \in i..N + 1,
           NEW p \in Nat, NEW n, LinesIn(rs, s, j, N, p, n),
           \A k \in i..j - 1 : q[k].at[s] = NoLine,
           \A k \in j..N : q[k].at[s] = rs[k].at[s]
    PROVE  LinesIn(q, s, i, N, p, n)
<1>1. LinesIn(q, s, i, j - 1, p, p)
  <2>1. i \in Nat \ {0} /\ j - 1 \in Nat /\ i <= j - 1 + 1
    OBVIOUS
  <2> QED BY <2>1, LinesNone
<1>2. LinesIn(q, s, j - 1 + 1, N, p, n)
  <2>1. j \in Nat \ {0} /\ j - 1 + 1 = j
    OBVIOUS
  <2>2. LinesIn(q, s, j, N, p, n)
    BY <2>1, LinesSame
  <2> QED BY <2>1, <2>2
<1>3. i \in Nat \ {0} /\ j - 1 \in Nat /\ i <= j - 1 + 1 /\ j - 1 <= N
  OBVIOUS
<1> QED BY <1>1, <1>2, <1>3, LinesJoined

\* The rows from i to j as rows of their own.
LEMMA LinesCopied ==
    ASSUME NEW rs, NEW new, NEW s, NEW i \in Nat \ {0}, NEW j \in Nat, i <= j + 1,
           NEW m, NEW p, LinesIn(rs, s, i, j, m, p),
           \A k \in 1..j - i + 1 : new[k].at[s] = rs[i + k - 1].at[s]
    PROVE  LinesIn(new, s, 1, j - i + 1, m, p)
<1> DEFINE d == 1 - i
<1>1. d \in Int /\ i + d = 1 /\ i + d \in Nat \ {0} /\ j + d = j - i + 1
  OBVIOUS
<1>2. \A k \in i..j : new[k + d].at[s] = rs[k].at[s]
  <2> SUFFICES ASSUME NEW k \in i..j PROVE new[k + d].at[s] = rs[k].at[s]
    OBVIOUS
  <2>1. k + d \in 1..j - i + 1 /\ i + (k + d) - 1 = k
    OBVIOUS
  <2> HIDE DEF d
  <2> QED BY <2>1
<1> HIDE DEF d
<1>3. LinesIn(new, s, i + d, j + d, m, p)
  BY <1>1, <1>2, LinesMoved
<1> QED BY <1>1, <1>3

\* Rows K without the lines of the sides S, and rows with only those of S.
SidesGone(w, rs, K, S) ==
    /\ w \in Seq(RowType) /\ Len(w) = Len(rs)
    /\ \A j \in 1..Len(rs) : \A s \in Sides :
          w[j].at[s] = IF j \in K /\ s \in S THEN NoLine ELSE rs[j].at[s]
SidesOnly(w, rs, S) ==
    /\ w \in Seq(RowType) /\ Len(w) = Len(rs)
    /\ \A j \in 1..Len(rs) : \A s \in Sides :
          w[j].at[s] = IF s \in S THEN rs[j].at[s] ELSE NoLine

LEMMA GoneWell ==
    ASSUME NEW rs \in Seq(RowType), NEW K, NEW S \in SUBSET Sides
    PROVE  SidesGone([j \in DOMAIN rs |-> IF j \in K THEN Without(rs[j], S) ELSE rs[j]], rs, K, S)
<1> DEFINE w == [j \in DOMAIN rs |-> IF j \in K THEN Without(rs[j], S) ELSE rs[j]]
<1>1. Len(rs) \in Nat /\ DOMAIN rs = 1..Len(rs)
  BY LenProperties
<1>2. ASSUME NEW j \in 1..Len(rs)
      PROVE  /\ rs[j] \in RowType /\ Without(rs[j], S) \in RowType
             /\ w[j] = IF j \in K THEN Without(rs[j], S) ELSE rs[j]
             /\ \A s \in Sides : Without(rs[j], S).at[s] = IF s \in S THEN NoLine ELSE rs[j].at[s]
  <2>1. rs[j] \in RowType
    BY ElementOfSeq
  <2>2. w[j] = IF j \in K THEN Without(rs[j], S) ELSE rs[j]
    BY <1>1
  <2> QED BY ONLY S \in SUBSET Sides, <2>1, <2>2, RowParted
<1>3. w \in [1..Len(rs) -> RowType]
  BY <1>1, <1>2
<1> HIDE DEF w
<1>4. w \in Seq(RowType) /\ Len(w) = Len(rs)
  BY ONLY <1>1, <1>3, MapSeq
<1>5. ASSUME NEW j \in 1..Len(rs), NEW s \in Sides
      PROVE  w[j].at[s] = IF j \in K /\ s \in S THEN NoLine ELSE rs[j].at[s]
  <2>1. CASE j \in K
    BY <1>2, <2>1
  <2>2. CASE j \notin K
    BY <1>2, <2>2
  <2> QED BY <2>1, <2>2
<1>6. SidesGone(w, rs, K, S)
  BY <1>4, <1>5 DEF SidesGone
<1> QED BY <1>6 DEF w

LEMMA OnlyWell ==
    ASSUME NEW rs \in Seq(RowType), NEW S \in SUBSET Sides
    PROVE  SidesOnly([j \in DOMAIN rs |-> Only(rs[j], S)], rs, S)
<1> DEFINE w == [j \in DOMAIN rs |-> Only(rs[j], S)]
<1>1. Len(rs) \in Nat /\ DOMAIN rs = 1..Len(rs)
  BY LenProperties
<1>2. ASSUME NEW j \in 1..Len(rs)
      PROVE  /\ w[j] \in RowType /\ w[j] = Only(rs[j], S)
             /\ \A s \in Sides : Only(rs[j], S).at[s] = IF s \in S THEN rs[j].at[s] ELSE NoLine
  <2>1. rs[j] \in RowType
    BY ElementOfSeq
  <2>2. w[j] = Only(rs[j], S)
    BY <1>1
  <2> QED BY ONLY S \in SUBSET Sides, <2>1, <2>2, RowParted
<1>3. w \in [1..Len(rs) -> RowType]
  BY <1>1, <1>2
<1> HIDE DEF w
<1>4. w \in Seq(RowType) /\ Len(w) = Len(rs)
  BY ONLY <1>1, <1>3, MapSeq
<1>6. SidesOnly(w, rs, S)
  BY <1>2, <1>4 DEF SidesOnly
<1> QED BY <1>6 DEF w

\* Rows K of the rows from i to j, which hold all the lines of s there.
KeepsThese(rs, s, K, i, j) ==
    /\ i \in Nat \ {0} /\ j \in Nat /\ i <= j + 1 /\ j <= Len(rs) /\ K \in SUBSET (i..j)
    /\ \A k \in i..j : k \notin K => rs[k].at[s] = NoLine

LEMMA TheseKept ==
    ASSUME NEW S, NEW rs \in Seq(S), NEW s, NEW i, NEW j, NEW K, KeepsThese(rs, s, K, i, j),
           NEW m, NEW n, LinesIn(rs, s, i, j, m, n)
    PROVE  LinesIn(Kept(rs, K), s, 1, Len(Kept(rs, K)), m, n)
BY LinesKept DEF KeepsThese

LEMMA MissingMoved ==
    ASSUME NEW q \in Seq(RowType), NEW moved \in Seq(RowType), NEW m \in Sides,
           NEW dest \in 1..Len(q), NEW k \in dest..Len(q),
           \A j \in dest..k - 1 : q[j].at[m] = NoLine
    PROVE  LET r == MoveMissing(q, m, dest, k, moved)
           IN /\ r \in Seq(RowType)
              /\ \A s \in Sides : \A n : Placed(q, moved, dest, s, n) => LinesIn(r, s, 1, Len(r), 0, n)
<1> DEFINE N == Len(q)
           stop == Find(q, k, LAMBDA row : Holds(row, m) /\ StopPair(m) \in row.eq)
           left == [j \in DOMAIN q |-> IF j \in k..stop - 1 THEN Without(q[j], {m}) ELSE q[j]]
           only == [j \in DOMAIN q |-> Only(q[j], {m})]
           K == {j \in k..stop - 1 : Holds(q[j], m)}
           up == Kept(only, K)
           new == moved \o up
           r == InsertRows(left, dest, new)
<1>1. N \in Nat /\ DOMAIN q = 1..N /\ \A j \in 1..N : q[j] \in RowType
  BY LenProperties, ElementOfSeq
<1>2. r = MoveMissing(q, m, dest, k, moved)
  BY DEF MoveMissing
<1>3. stop \in k..N + 1
  <2> DEFINE I == {j \in k..N : Holds(q[j], m) /\ StopPair(m) \in q[j].eq}
  <2>1. stop = IF I = {} THEN N + 1 ELSE Min(I)
    BY DEF Find
  <2>2. I \in SUBSET (k..N) /\ k \in Nat \ {0} /\ k <= N + 1
    BY <1>1
  <2> HIDE DEF I, stop
  <2> QED BY <1>1, <2>1, <2>2, FirstOf
<1> HIDE DEF stop
<1>4. {m} \in SUBSET Sides
  OBVIOUS
<1>5. /\ left \in Seq(RowType) /\ Len(left) = N
      /\ \A j \in 1..N, s \in Sides :
            left[j].at[s] = IF s = m /\ j \in k..stop - 1 THEN NoLine ELSE q[j].at[s]
  <2>1. SidesGone(left, q, k..stop - 1, {m})
    BY <1>4, GoneWell
  <2> QED BY <1>1, <2>1 DEF SidesGone
<1>6. /\ only \in Seq(RowType) /\ Len(only) = N
      /\ \A j \in 1..N, s \in Sides : only[j].at[s] = IF s = m THEN q[j].at[s] ELSE NoLine
  <2>1. SidesOnly(only, q, {m})
    BY <1>4, OnlyWell
  <2> QED BY <1>1, <2>1 DEF SidesOnly
<1>7. K \in SUBSET (k..stop - 1) /\ \A j \in k..stop - 1 : j \notin K => q[j].at[m] = NoLine
  BY DEF Holds
<1> HIDE DEF left, only, K
<1>8. KeptWell(only, K, RowType)
  <2>1. K \subseteq Int
    BY <1>3, <1>7
  <2> QED BY <1>6, <2>1, KeptElements
<1>9. /\ up \in Seq(RowType) /\ Len(up) \in Nat
      /\ \A x \in 1..Len(up) : \E j \in 1..N : up[x] = only[j]
  <2>1. up \in Seq(RowType) /\ Len(up) \in Nat
    BY <1>8, LenProperties DEF KeptWell
  <2>2. \A x \in 1..Len(up) : \E j \in x..N : up[x] = only[j]
    BY <1>6, <1>8 DEF KeptWell
  <2> QED BY <2>1, <2>2
<1> HIDE DEF up
<1>10. new \in Seq(RowType)
  BY <1>9, ConcatProperties
<1>11. dest \in 1..Len(left) + 1
  BY <1>1, <1>5
<1>12. ASSUME NEW s \in Sides, NEW n, Placed(q, moved, dest, s, n)
       PROVE  Placed(left, new, dest, s, n)
  <2>1. PICK a, p \in Nat : /\ LinesIn(q, s, 1, dest - 1, 0, a) /\ LinesIn(moved, s, 1, Len(moved), a, p)
                            /\ LinesIn(q, s, dest, N, p, n)
    BY <1>12 DEF Placed
  <2>2. LinesIn(left, s, 1, dest - 1, 0, a)
    <3>1. \A j \in 1..dest - 1 : left[j].at[s] = q[j].at[s]
      BY <1>1, <1>5
    <3>2. 1 \in Nat \ {0} /\ dest - 1 \in Nat
      OBVIOUS
    <3> QED BY <2>1, <3>1, <3>2, LinesSame
  <2>3. CASE s # m
    <3>1. LinesIn(up, s, 1, Len(up), p, p)
      <4>1. \A x \in 1..Len(up) : up[x].at[s] = NoLine
        BY <1>6, <1>9, <2>3
      <4>2. 1 \in Nat \ {0} /\ 1 <= Len(up) + 1
        BY <1>9
      <4> QED BY <1>9, <4>1, <4>2, LinesNone
    <3>2. LinesIn(new, s, 1, Len(new), a, p)
      BY <1>9, <2>1, <3>1, LinesAppended
    <3>3. LinesIn(left, s, dest, N, p, n)
      <4>1. \A j \in dest..N : left[j].at[s] = q[j].at[s]
        BY <1>5, <2>3
      <4>2. dest \in Nat \ {0}
        OBVIOUS
      <4> QED BY <1>1, <2>1, <4>1, <4>2, LinesSame
    <3> QED BY <1>5, <2>2, <3>2, <3>3 DEF Placed
  <2>4. CASE s = m
    <3>1. PICK o \in Nat : LinesIn(q, s, dest, k - 1, p, o) /\ LinesIn(q, s, k - 1 + 1, N, o, n)
      <4>1. dest \in Nat \ {0} /\ k - 1 \in Nat /\ dest <= k - 1 + 1 /\ k - 1 <= N
        BY <1>1
      <4> QED BY <1>1, <2>1, <4>1, LinesParted
    <3>2. o = p
      <4>1. LinesIn(q, s, dest, k - 1, p, p) /\ dest \in Nat \ {0} /\ k - 1 \in Nat /\ dest <= k - 1 + 1
        <5>1. dest \in Nat \ {0} /\ k - 1 \in Nat /\ dest <= k - 1 + 1
          OBVIOUS
        <5>2. \A j \in dest..k - 1 : q[j].at[s] = NoLine
          BY <2>4
        <5> QED BY <5>1, <5>2, LinesNone
      <4> QED BY <3>1, <4>1, LinesWell
    <3>3. LinesIn(q, s, k, N, p, n)
      <4>1. k - 1 + 1 = k
        OBVIOUS
      <4> QED BY <3>1, <3>2, <4>1
    <3>4. PICK z \in Nat : LinesIn(q, s, k, stop - 1, p, z) /\ LinesIn(q, s, stop - 1 + 1, N, z, n)
      <4>1. k \in Nat \ {0} /\ stop - 1 \in Nat /\ k <= stop - 1 + 1 /\ stop - 1 <= N
        BY <1>1, <1>3
      <4> QED BY <1>1, <3>3, <4>1, LinesParted
    <3>5. LinesIn(up, s, 1, Len(up), p, z)
      <4>1. k \in Nat \ {0} /\ stop - 1 \in Nat /\ k <= stop - 1 + 1 /\ stop - 1 <= Len(only)
        BY <1>1, <1>3, <1>6
      <4>2. LinesIn(only, s, k, stop - 1, p, z)
        <5>1. \A j \in k..stop - 1 : only[j].at[s] = q[j].at[s]
          BY <1>3, <1>6, <2>4
        <5> QED BY <3>4, <4>1, <5>1, LinesSame
      <4>3. \A j \in k..stop - 1 : j \notin K => only[j].at[s] = NoLine
        <5>1. \A j \in k..stop - 1 : only[j].at[s] = q[j].at[s]
          BY <1>3, <1>6, <2>4
        <5> QED BY <1>7, <2>4, <5>1
      <4>4. KeepsThese(only, s, K, k, stop - 1)
        BY <1>7, <4>1, <4>3 DEF KeepsThese
      <4>5. LinesIn(Kept(only, K), s, 1, Len(Kept(only, K)), p, z)
        BY ONLY <1>6, <4>2, <4>4, TheseKept
      <4> QED BY <4>5 DEF up
    <3>6. LinesIn(new, s, 1, Len(new), a, z)
      BY <1>9, <2>1, <3>5, LinesAppended
    <3>7. LinesIn(left, s, dest, N, z, n)
      <4>1. dest \in 1..N + 1 /\ stop \in dest..N + 1
        BY <1>1, <1>3
      <4>2. LinesIn(q, s, stop, N, z, n)
        <5>1. stop - 1 + 1 = stop
          BY <1>3
        <5> QED BY <3>4, <5>1
      <4>3. \A j \in dest..stop - 1 : left[j].at[s] = NoLine
        <5> SUFFICES ASSUME NEW j \in dest..stop - 1 PROVE left[j].at[s] = NoLine
          OBVIOUS
        <5>1. j \in 1..N
          BY <1>3
        <5>2. CASE j \in k..stop - 1
          BY <1>5, <2>4, <5>1, <5>2
        <5>3. CASE j \notin k..stop - 1
          <6>1. j \in dest..k - 1
            BY <1>3, <5>3
          <6> QED BY <1>5, <2>4, <5>1, <5>3, <6>1
        <5> QED BY <5>2, <5>3
      <4>4. \A j \in stop..N : left[j].at[s] = q[j].at[s]
        BY <1>3, <1>5
      <4> QED BY <1>1, <4>1, <4>2, <4>3, <4>4, LinesBehind
    <3> QED BY <1>5, <2>2, <3>6, <3>7 DEF Placed
  <2> QED BY <2>3, <2>4
<1>13. r \in Seq(RowType)
  <2>1. InPlaceOf(r, left, new, dest, dest - 1, RowType)
    <3> HIDE DEF new, r
    <3> QED BY <1>5, <1>10, <1>11, Inserted DEF r
  <2> QED BY <2>1 DEF InPlaceOf
<1>14. ASSUME NEW s \in Sides, NEW n, Placed(q, moved, dest, s, n) PROVE LinesIn(r, s, 1, Len(r), 0, n)
  <2>1. Placed(left, new, dest, s, n)
    BY <1>12, <1>14
  <2> HIDE DEF new
  <2> QED BY <1>5, <1>10, <1>11, <2>1, PlacedInserted
<1> QED BY <1>2, <1>13, <1>14

\* The line of row x goes up to row i, over rows that hold none, i to j being rows.
LEMMA LineUp ==
    ASSUME NEW q, NEW r, NEW s, NEW i \in Nat \ {0}, NEW x \in Nat, i < x, NEW j \in Nat, x <= j,
           NEW m, NEW n, LinesIn(q, s, i, j, m, n),
           \A k \in i..x - 1 : q[k].at[s] = NoLine,
           r[i].at[s] = q[x].at[s],
           \A k \in i + 1..x : r[k].at[s] = NoLine,
           \A k \in x + 1..j : r[k].at[s] = q[k].at[s]
    PROVE  LinesIn(r, s, i, j, m, n)
<1>1. PICK p \in Nat : LinesIn(q, s, i, x - 1, m, p) /\ LinesIn(q, s, x - 1 + 1, j, p, n)
  <2>1. x - 1 \in Nat /\ i <= x - 1 + 1 /\ x - 1 <= j
    OBVIOUS
  <2> QED BY <2>1, LinesParted
<1>2. m \in Nat /\ p = m
  <2>1. x - 1 \in Nat /\ i <= x - 1 + 1
    OBVIOUS
  <2>2. m \in Nat
    BY <1>1, <2>1, LinesWell
  <2>3. LinesIn(q, s, i, x - 1, m, m)
    BY <2>1, <2>2, LinesNone
  <2> QED BY <1>1, <2>1, <2>2, <2>3, LinesWell
<1>3. PICK o \in Nat : LinesIn(q, s, x, x, m, o) /\ LinesIn(q, s, x + 1, j, o, n)
  <2>1. x - 1 + 1 = x /\ x \in Nat \ {0} /\ x <= x + 1
    OBVIOUS
  <2>2. LinesIn(q, s, x, j, m, n)
    BY <1>1, <1>2, <2>1
  <2> QED BY <2>1, <2>2, LinesParted
<1>4. LinesIn(r, s, i, i, m, o)
  <2> DEFINE d == i - x
  <2>1. d \in Int /\ x + d = i /\ x + d \in Nat \ {0} /\ x \in Nat \ {0} /\ x <= x + 1
    OBVIOUS
  <2>2. \A k \in x..x : r[k + d].at[s] = q[k].at[s]
    BY <2>1
  <2> HIDE DEF d
  <2>3. LinesIn(r, s, x + d, x + d, m, o)
    BY <1>3, <2>1, <2>2, LinesMoved
  <2> QED BY <2>1, <2>3
<1>5. LinesIn(r, s, i + 1, x, o, o)
  <2>1. i + 1 \in Nat \ {0} /\ i + 1 <= x + 1
    OBVIOUS
  <2> QED BY <1>3, <2>1, LinesNone
<1>6. LinesIn(r, s, i, x, m, o)
  <2>1. i <= i + 1 /\ i <= x
    OBVIOUS
  <2> QED BY <1>4, <1>5, <2>1, LinesJoined
<1>7. LinesIn(r, s, x + 1, j, o, n)
  <2>1. x + 1 \in Nat \ {0}
    OBVIOUS
  <2> QED BY <1>3, <2>1, LinesSame
<1>8. i <= x + 1
  OBVIOUS
<1> QED BY <1>6, <1>7, <1>8, LinesJoined

LEMMA FirstSide ==
    ASSUME NEW S \in SUBSET Sides, S # {}
    PROVE  InOrder(S) \in S
BY DEF InOrder, Sides

\* The rows from dest to above found with only the lines of one side, the other
\* lines being moved to rows of their own.
Aside(kept, moved, rs, side, dest, found) ==
    /\ SidesGone(kept, rs, dest..found - 1, Others(side))
    /\ moved \in Seq(RowType) /\ Len(moved) = found - dest
    /\ \A j \in 1..found - dest : \A s \in Sides :
          moved[j].at[s] = IF s = side THEN NoLine ELSE rs[dest + j - 1].at[s]

LEMMA AsideMade ==
    ASSUME NEW rs \in Seq(RowType), NEW side \in Sides, NEW dest \in 1..Len(rs), NEW found \in dest..Len(rs) + 1
    PROVE  LET moved == [j \in 1..found - dest |-> Only(rs[dest + j - 1], Others(side))]
               kept == [j \in DOMAIN rs |->
                           IF j \in dest..found - 1 THEN Without(rs[j], Others(side)) ELSE rs[j]]
           IN Aside(kept, moved, rs, side, dest, found)
<1> DEFINE moved == [j \in 1..found - dest |-> Only(rs[dest + j - 1], Others(side))]
           kept == [j \in DOMAIN rs |->
                       IF j \in dest..found - 1 THEN Without(rs[j], Others(side)) ELSE rs[j]]
<1>1. Others(side) \in SUBSET Sides /\ \A s \in Sides : s \in Others(side) <=> s # side
  BY DEF Others
<1>2. SidesGone(kept, rs, dest..found - 1, Others(side))
  BY <1>1, GoneWell
<1>3. ASSUME NEW j \in 1..found - dest
      PROVE  /\ Only(rs[dest + j - 1], Others(side)) \in RowType
             /\ \A s \in Sides : Only(rs[dest + j - 1], Others(side)).at[s]
                                  = IF s = side THEN NoLine ELSE rs[dest + j - 1].at[s]
  <2>1. dest + j - 1 \in 1..Len(rs)
    BY LenProperties
  <2>2. rs[dest + j - 1] \in RowType
    BY <2>1, ElementOfSeq
  <2> QED BY <1>1, <2>2, RowParted
<1>4. moved \in [1..found - dest -> RowType] /\ found - dest \in Nat
  <2>1. Len(rs) \in Nat
    BY LenProperties
  <2>2. found - dest \in Nat
    BY <2>1
  <2> QED BY <1>3, <2>2
<1>5. \A j \in 1..found - dest : moved[j] = Only(rs[dest + j - 1], Others(side))
  OBVIOUS
<1> HIDE DEF moved, kept
<1>6. moved \in Seq(RowType) /\ Len(moved) = found - dest
  BY ONLY <1>4, MapSeq
<1>7. Aside(kept, moved, rs, side, dest, found)
  BY <1>2, <1>3, <1>5, <1>6 DEF Aside
<1> QED BY <1>7 DEF moved, kept

LEMMA AsidePlaced ==
    ASSUME NEW rs \in Seq(RowType), NEW side \in Sides, NEW dest \in 1..Len(rs), NEW found \in dest..Len(rs) + 1,
           NEW kept, NEW moved, Aside(kept, moved, rs, side, dest, found),
           NEW s \in Sides, NEW n, LinesIn(rs, s, 1, Len(rs), 0, n)
    PROVE  Placed(kept, moved, dest, s, n)
<1> DEFINE N == Len(rs)
<1>1. N \in Nat /\ dest \in Nat \ {0} /\ 1 \in Nat \ {0} /\ dest - 1 \in Nat /\ dest - 1 + 1 = dest
  BY LenProperties
<1>2. /\ Len(kept) = N /\ Len(moved) = found - dest
      /\ \A j \in 1..N : s = side \/ j \notin dest..found - 1 => kept[j].at[s] = rs[j].at[s]
      /\ \A j \in dest..found - 1 : j \in 1..N /\ (s # side => kept[j].at[s] = NoLine)
      /\ \A j \in 1..found - dest : moved[j].at[s] = IF s = side THEN NoLine ELSE rs[dest + j - 1].at[s]
  <2>1. s \in Others(side) <=> s # side
    BY DEF Others
  <2> QED BY <1>1, <2>1 DEF Aside, SidesGone
<1>3. PICK m \in Nat : LinesIn(rs, s, 1, dest - 1, 0, m) /\ LinesIn(rs, s, dest, N, m, n)
  <2>1. 1 <= dest - 1 + 1 /\ dest - 1 <= N
    BY <1>1
  <2> HIDE DEF N
  <2>2. LinesIn(rs, s, 1, N, 0, n)
    BY DEF N
  <2>3. \E m \in Nat : LinesIn(rs, s, 1, dest - 1, 0, m) /\ LinesIn(rs, s, dest - 1 + 1, N, m, n)
    BY ONLY <1>1, <2>1, <2>2, LinesParted
  <2> QED BY <1>1, <2>3
<1>4. LinesIn(kept, s, 1, dest - 1, 0, m)
  <2>1. \A j \in 1..dest - 1 : kept[j].at[s] = rs[j].at[s]
    BY <1>1, <1>2
  <2> QED BY <1>1, <1>3, <2>1, LinesSame
<1>5. CASE s = side
  <2>1. LinesIn(moved, s, 1, Len(moved), m, m)
    <3>1. \A j \in 1..Len(moved) : moved[j].at[s] = NoLine
      BY <1>2, <1>5
    <3>2. Len(moved) \in Nat /\ 1 <= Len(moved) + 1
      BY <1>1, <1>2
    <3> QED BY <1>1, <3>1, <3>2, LinesNone
  <2>2. LinesIn(kept, s, dest, N, m, n)
    <3>1. \A j \in dest..N : kept[j].at[s] = rs[j].at[s]
      BY <1>1, <1>2, <1>5
    <3> QED BY <1>1, <1>3, <3>1, LinesSame
  <2> QED BY <1>2, <1>4, <2>1, <2>2 DEF Placed
<1>6. CASE s # side
  <2>1. found - 1 \in Nat /\ found - 1 + 1 = found /\ dest <= found - 1 + 1 /\ found - 1 <= N
    BY <1>1
  <2>2. PICK p \in Nat : LinesIn(rs, s, dest, found - 1, m, p) /\ LinesIn(rs, s, found, N, p, n)
    <3>1. \E p \in Nat : LinesIn(rs, s, dest, found - 1, m, p) /\ LinesIn(rs, s, found - 1 + 1, N, p, n)
      BY <1>1, <1>3, <2>1, LinesParted
    <3> QED BY <2>1, <3>1
  <2>3. LinesIn(moved, s, 1, Len(moved), m, p)
    <3>1. found - 1 - dest + 1 = Len(moved)
      BY <1>1, <1>2, <2>1
    <3>2. \A j \in 1..found - 1 - dest + 1 : moved[j].at[s] = rs[dest + j - 1].at[s]
      BY <1>1, <1>2, <1>6
    <3>3. LinesIn(moved, s, 1, found - 1 - dest + 1, m, p)
      BY <1>1, <2>1, <2>2, <3>2, LinesCopied
    <3> QED BY <3>1, <3>3
  <2>4. LinesIn(kept, s, dest, N, p, n)
    <3>1. dest \in 1..N + 1 /\ found \in dest..N + 1
      BY <1>1
    <3>2. \A j \in dest..found - 1 : kept[j].at[s] = NoLine
      BY <1>2, <1>6
    <3>3. \A j \in found..N : kept[j].at[s] = rs[j].at[s]
      BY <1>1, <1>2
    <3> QED BY <1>1, <2>2, <3>1, <3>2, <3>3, LinesBehind
  <2> QED BY <1>2, <1>4, <2>3, <2>4 DEF Placed
<1> QED BY <1>5, <1>6

\* The line of "second" of row found joins row dest.
AlignedRows(kept, dest, found, second, line) ==
    [kept EXCEPT ![dest].at[second] = line, ![found] = Without(@, {second})]

LineJoined(w, kept, dest, found, second, line) ==
    /\ w \in Seq(RowType) /\ Len(w) = Len(kept)
    /\ \A j \in 1..Len(kept) : \A s \in Sides : s # second => w[j].at[s] = kept[j].at[s]
    /\ w[dest].at[second] = line /\ w[found].at[second] = NoLine
    /\ \A j \in 1..Len(kept) : j \notin {dest, found} => w[j] = kept[j]

LEMMA AlignedWell ==
    ASSUME NEW kept \in Seq(RowType), NEW dest \in 1..Len(kept), NEW found \in dest + 1..Len(kept),
           NEW second \in Sides, NEW line \in Nat
    PROVE  LineJoined(AlignedRows(kept, dest, found, second, line), kept, dest, found, second, line)
<1> DEFINE x == [kept[dest] EXCEPT !.at[second] = line]
           y == Without(kept[found], {second})
           u == [kept EXCEPT ![dest] = x]
           w == AlignedRows(kept, dest, found, second, line)
<1>1. kept[dest] \in RowType /\ kept[found] \in RowType /\ found # dest /\ found \in 1..Len(kept)
  BY ElementOfSeq
<1>2. /\ x \in RowType /\ x.at[second] = line
      /\ \A s \in Sides : s # second => x.at[s] = kept[dest].at[s]
  BY <1>1 DEF RowType
<1>3. {second} \in SUBSET Sides
  OBVIOUS
<1>4. /\ y \in RowType /\ y.at[second] = NoLine
      /\ \A s \in Sides : s # second => y.at[s] = kept[found].at[s]
  <2>1. \A s \in Sides : y.at[s] = IF s \in {second} THEN NoLine ELSE kept[found].at[s]
    BY <1>1, <1>3, RowParted
  <2>2. y \in RowType
    BY <1>1, <1>3, RowParted
  <2> HIDE DEF y
  <2> QED BY <2>1, <2>2
<1>5. /\ u \in Seq(RowType) /\ Len(u) = Len(kept) /\ u[dest] = x
      /\ \A k \in 1..Len(kept) : k # dest => u[k] = kept[k]
  <2> HIDE DEF x
  <2> QED BY <1>2, ExceptSeq
<1>6. w = [u EXCEPT ![found] = y]
  BY <1>1, <1>5 DEF AlignedRows
<1>7. /\ w \in Seq(RowType) /\ Len(w) = Len(kept) /\ w[found] = y
      /\ \A k \in 1..Len(kept) : k # found => w[k] = u[k]
  <2> HIDE DEF x, y, u, w
  <2> QED BY <1>1, <1>4, <1>5, <1>6, ExceptSeq
<1> HIDE DEF x, y, u, w
<1>8. w[dest] = x /\ w[found] = y /\ \A k \in 1..Len(kept) : k \notin {dest, found} => w[k] = kept[k]
  BY <1>1, <1>5, <1>7
<1>9. ASSUME NEW j \in 1..Len(kept), NEW s \in Sides, s # second
      PROVE  w[j].at[s] = kept[j].at[s]
  <2>1. CASE j = dest
    BY <1>2, <1>8, <1>9, <2>1
  <2>2. CASE j = found
    BY <1>4, <1>8, <1>9, <2>2
  <2>3. CASE j \notin {dest, found}
    BY <1>8, <2>3
  <2> QED BY <2>1, <2>2, <2>3
<1> QED BY <1>2, <1>4, <1>7, <1>8, <1>9 DEF w, LineJoined

LEMMA AlignedPlaced ==
    ASSUME NEW kept \in Seq(RowType), NEW moved, NEW dest \in 1..Len(kept), NEW found \in dest + 1..Len(kept),
           NEW second \in Sides, \A j \in dest..found - 1 : kept[j].at[second] = NoLine,
           NEW s \in Sides, NEW n, Placed(kept, moved, dest, s, n)
    PROVE  Placed(AlignedRows(kept, dest, found, second, kept[found].at[second]), moved, dest, s, n)
<1> DEFINE w == AlignedRows(kept, dest, found, second, kept[found].at[second])
           N == Len(kept)
<1>1. N \in Nat /\ 1 \in Nat \ {0} /\ dest \in Nat \ {0} /\ dest - 1 \in Nat /\ found \in Nat /\ dest < found /\ found <= N
  BY LenProperties
<1>2. kept[found].at[second] \in Nat
  <2>1. kept[found] \in RowType
    BY <1>1, ElementOfSeq
  <2> QED BY <2>1 DEF RowType
<1>3. /\ Len(w) = N
      /\ \A j \in 1..N : s # second => w[j].at[s] = kept[j].at[s]
      /\ w[dest].at[second] = kept[found].at[second] /\ w[found].at[second] = NoLine
      /\ \A j \in 1..N : j \notin {dest, found} => w[j] = kept[j]
  <2>1. /\ Len(w) = N
        /\ \A j \in 1..N : \A x \in Sides : x # second => w[j].at[x] = kept[j].at[x]
        /\ w[dest].at[second] = kept[found].at[second] /\ w[found].at[second] = NoLine
        /\ \A j \in 1..N : j \notin {dest, found} => w[j] = kept[j]
    <3>1. LineJoined(w, kept, dest, found, second, kept[found].at[second])
      BY <1>2, AlignedWell
    <3> HIDE DEF w
    <3> QED BY ONLY <3>1 DEF LineJoined
  <2> HIDE DEF w, N
  <2> QED BY ONLY <2>1, s \in Sides
<1> HIDE DEF w
<1>4. PICK m, p \in Nat : /\ LinesIn(kept, s, 1, dest - 1, 0, m) /\ LinesIn(moved, s, 1, Len(moved), m, p)
                         /\ LinesIn(kept, s, dest, N, p, n)
  BY DEF Placed
<1>5. LinesIn(w, s, 1, dest - 1, 0, m)
  <2>1. \A j \in 1..dest - 1 : w[j].at[s] = kept[j].at[s]
    BY <1>1, <1>3
  <2> QED BY <1>1, <1>4, <2>1, LinesSame
<1>6. LinesIn(w, s, dest, N, p, n)
  <2>1. CASE s # second
    <3>1. \A j \in dest..N : w[j].at[s] = kept[j].at[s]
      BY <1>1, <1>3, <2>1
    <3> QED BY <1>1, <1>4, <3>1, LinesSame
  <2>2. CASE s = second
    <3>1. \A k \in dest..found - 1 : kept[k].at[s] = NoLine
      BY <2>2
    <3>2. w[dest].at[s] = kept[found].at[s]
      BY <1>3, <2>2
    <3>3. \A k \in dest + 1..found : w[k].at[s] = NoLine
      <4> SUFFICES ASSUME NEW k \in dest + 1..found PROVE w[k].at[s] = NoLine
        OBVIOUS
      <4>1. CASE k = found
        BY <1>3, <2>2, <4>1
      <4>2. CASE k # found
        <5>1. k \in dest..found - 1 /\ k \in 1..N /\ k \notin {dest, found}
          BY <1>1, <4>2
        <5> QED BY <1>3, <3>1, <5>1
      <4> QED BY <4>1, <4>2
    <3>4. \A k \in found + 1..N : w[k].at[s] = kept[k].at[s]
      BY <1>1, <1>3
    <3> QED BY <1>1, <1>4, <3>1, <3>2, <3>3, <3>4, LineUp
  <2> QED BY <2>1, <2>2
<1>7. Placed(w, moved, dest, s, n)
  BY <1>3, <1>4, <1>5, <1>6 DEF Placed
<1> QED BY <1>7 DEF w

\* What Align() does with an entry.
AlignsWell(rs, w) == w \in Seq(RowType) /\ KeepsLines(rs, w)

LEMMA PlacedKeeps ==
    ASSUME NEW rs, NEW q \in Seq(RowType), NEW moved \in Seq(RowType), NEW dest \in 1..Len(q) + 1,
           \A s \in Sides : \A n : LinesIn(rs, s, 1, Len(rs), 0, n) => Placed(q, moved, dest, s, n)
    PROVE  AlignsWell(rs, InsertRows(q, dest, moved))
<1>1. InPlaceOf(InsertRows(q, dest, moved), q, moved, dest, dest - 1, RowType)
  BY Inserted
<1>2. InsertRows(q, dest, moved) \in Seq(RowType)
  BY <1>1 DEF InPlaceOf
<1>3. ASSUME NEW s \in Sides, NEW n, LinesIn(rs, s, 1, Len(rs), 0, n)
      PROVE  LinesIn(InsertRows(q, dest, moved), s, 1, Len(InsertRows(q, dest, moved)), 0, n)
  <2>1. Placed(q, moved, dest, s, n)
    BY <1>3
  <2> QED BY <2>1, PlacedInserted
<1> QED BY <1>2, <1>3 DEF AlignsWell, KeepsLines

LEMMA Aligns ==
    ASSUME NEW rs \in Seq(RowType), NEW e
    PROVE  AlignsWell(rs, Align(rs, e))
<1> DEFINE N == Len(rs)
           dest == Find(rs, 1, LAMBDA r : Starts(e, r) # {})
           side == InOrder(Starts(e, rs[dest]))
           found == Find(rs, dest, LAMBDA r : Starts(e, r) \ {side} # {})
           second == InOrder(Starts(e, rs[found]) \ {side})
           moved == [j \in 1..found - dest |-> Only(rs[dest + j - 1], Others(side))]
           kept == [j \in DOMAIN rs |->
                       IF j \in dest..found - 1 THEN Without(rs[j], Others(side)) ELSE rs[j]]
           aligned == IF found = dest THEN kept
                      ELSE [kept EXCEPT ![dest].at[second] = rs[found].at[second],
                                        ![found] = Without(@, {second})]
           missing == Sides \ Chosen(e)
<1>1. Align(rs, e) = IF dest > N THEN rs
                     ELSE IF found > N THEN InsertRows(kept, dest, moved)
                     ELSE IF missing = {} THEN InsertRows(aligned, dest, moved)
                     ELSE MoveMissing(aligned, InOrder(missing), dest, found, moved)
  BY DEF Align
<1>2. N \in Nat /\ \A j \in 1..N : rs[j] \in RowType
  BY LenProperties, ElementOfSeq
<1>3. dest \in 1..N + 1 /\ (dest <= N => Starts(e, rs[dest]) # {})
  <2> DEFINE I == {j \in 1..N : Starts(e, rs[j]) # {}}
  <2>1. dest = IF I = {} THEN N + 1 ELSE Min(I)
    BY DEF Find
  <2>2. I \in SUBSET (1..N) /\ 1 \in Nat \ {0} /\ 1 <= N + 1
    BY <1>2
  <2>3. dest \in 1..N + 1 /\ (dest <= N => dest \in I)
    <3> HIDE DEF I, dest
    <3> QED BY <1>2, <2>1, <2>2, FirstOf
  <2> HIDE DEF dest
  <2> QED BY <2>3
<1> HIDE DEF dest
<1>4. CASE dest > N
  <2>1. Align(rs, e) = rs
    BY <1>1, <1>4
  <2> QED BY <2>1 DEF AlignsWell, KeepsLines
<1>5. CASE dest <= N
  <2>1. dest \in 1..N /\ \A row : Starts(e, row) \in SUBSET Chosen(e)
    BY <1>2, <1>3, <1>5 DEF Starts
  <2>2. Chosen(e) \in SUBSET Sides
    BY DEF Chosen
  <2>3. side \in Starts(e, rs[dest]) /\ side \in Sides /\ side \in Chosen(e)
    <3>1. Starts(e, rs[dest]) \in SUBSET Sides /\ Starts(e, rs[dest]) # {}
      BY <1>3, <1>5, <2>1, <2>2
    <3>2. side \in Starts(e, rs[dest])
      BY <3>1, FirstSide
    <3> QED BY <2>1, <3>1, <3>2
  <2> HIDE DEF side
  <2>4. found \in dest..N + 1 /\ (found <= N => Starts(e, rs[found]) \ {side} # {})
    <3> DEFINE I == {j \in dest..N : Starts(e, rs[j]) \ {side} # {}}
    <3>1. found = IF I = {} THEN N + 1 ELSE Min(I)
      BY DEF Find
    <3>2. I \in SUBSET (dest..N) /\ dest \in Nat \ {0} /\ dest <= N + 1
      BY <1>2, <2>1
    <3>3. found \in dest..N + 1 /\ (found <= N => found \in I)
      <4> HIDE DEF I, found
      <4> QED BY <1>2, <3>1, <3>2, FirstOf
    <3> HIDE DEF found
    <3> QED BY <3>3
  <2> HIDE DEF found
  <2>5. Aside(kept, moved, rs, side, dest, found)
    BY ONLY rs \in Seq(RowType), <2>1, <2>3, <2>4, AsideMade
  <2> HIDE DEF kept, moved
  <2>6. /\ kept \in Seq(RowType) /\ Len(kept) = N /\ moved \in Seq(RowType)
        /\ \A j \in dest..found - 1 : \A s \in Sides : s # side => kept[j].at[s] = NoLine
        /\ \A s \in Sides : found <= N => kept[found].at[s] = rs[found].at[s]
    <3>1. \A s \in Sides : s \in Others(side) <=> s # side
      BY DEF Others
    <3>2. \A j \in dest..found - 1 : j \in 1..N
      BY <1>2, <2>1, <2>4
    <3>3. found \notin dest..found - 1 /\ (found <= N => found \in 1..N)
      BY <1>2, <2>1, <2>4
    <3> QED BY <2>5, <3>1, <3>2, <3>3 DEF Aside, SidesGone
  <2>7. \A s \in Sides : \A n : LinesIn(rs, s, 1, Len(rs), 0, n) => Placed(kept, moved, dest, s, n)
    BY ONLY rs \in Seq(RowType), <2>1, <2>3, <2>4, <2>5, AsidePlaced
  <2>8. CASE found > N
    <3>1. Align(rs, e) = InsertRows(kept, dest, moved)
      BY <1>1, <1>2, <2>1, <2>8
    <3>2. dest \in 1..Len(kept) + 1
      BY <1>2, <2>1, <2>6
    <3>3. AlignsWell(rs, InsertRows(kept, dest, moved))
      BY ONLY <2>6, <2>7, <3>2, PlacedKeeps
    <3> QED BY <3>1, <3>3
  <2>9. CASE found <= N
    <3>1. second \in Sides /\ second # side /\ second \in Chosen(e) /\ found \in dest..N
      <4>1. Starts(e, rs[found]) \ {side} \in SUBSET Sides
        BY <2>1, <2>2
      <4>2. second \in Starts(e, rs[found]) \ {side}
        BY <2>4, <2>9, <4>1, FirstSide
      <4> HIDE DEF second
      <4> QED BY <1>2, <2>1, <2>2, <2>4, <2>9, <4>2
    <3> HIDE DEF second
    <3>2. /\ aligned \in Seq(RowType) /\ Len(aligned) = N
          /\ \A j \in 1..N : \A s \in Sides : s # second => aligned[j].at[s] = kept[j].at[s]
          /\ \A s \in Sides : \A n : LinesIn(rs, s, 1, Len(rs), 0, n) => Placed(aligned, moved, dest, s, n)
      <4>1. CASE found = dest
        <5>1. aligned = kept
          BY <4>1
        <5> HIDE DEF aligned
        <5> QED BY <2>6, <2>7, <5>1
      <4>2. CASE found # dest
        <5> DEFINE w == AlignedRows(kept, dest, found, second, kept[found].at[second])
        <5>1. aligned = w
          <6>1. kept[found].at[second] = rs[found].at[second]
            BY <2>6, <2>9, <3>1
          <6> QED BY <4>2, <6>1 DEF AlignedRows
        <5>2. dest \in 1..Len(kept) /\ found \in dest + 1..Len(kept)
          BY <1>2, <2>1, <2>6, <3>1, <4>2
        <5>3. kept[found].at[second] \in Nat
          <6>1. kept[found] \in RowType
            BY <1>2, <2>1, <2>6, <3>1, ElementOfSeq
          <6> QED BY <3>1, <6>1 DEF RowType
        <5>4. /\ w \in Seq(RowType) /\ Len(w) = Len(kept)
              /\ \A j \in 1..Len(kept) : \A s \in Sides : s # second => w[j].at[s] = kept[j].at[s]
          <6>1. LineJoined(w, kept, dest, found, second, kept[found].at[second])
            BY ONLY <2>6, <3>1, <5>2, <5>3, AlignedWell
          <6> HIDE DEF w
          <6> QED BY ONLY <6>1 DEF LineJoined
        <5>5. \A j \in dest..found - 1 : kept[j].at[second] = NoLine
          BY <2>6, <3>1
        <5>6. \A s \in Sides : \A n : Placed(kept, moved, dest, s, n) => Placed(w, moved, dest, s, n)
          BY ONLY <2>6, <3>1, <5>2, <5>5, AlignedPlaced
        <5> HIDE DEF aligned, w
        <5> QED BY <2>6, <2>7, <5>1, <5>4, <5>6
      <4> QED BY <4>1, <4>2
    <3> HIDE DEF aligned
    <3>3. CASE missing = {}
      <4>1. Align(rs, e) = InsertRows(aligned, dest, moved)
        <5> HIDE DEF missing
        <5> QED BY <1>1, <1>2, <2>1, <2>9, <3>1, <3>3
      <4>2. dest \in 1..Len(aligned) + 1
        BY <1>2, <2>1, <3>2
      <4>3. AlignsWell(rs, InsertRows(aligned, dest, moved))
        BY ONLY <2>6, <3>2, <4>2, PlacedKeeps
      <4> QED BY <4>1, <4>3
    <3>4. CASE missing # {}
      <4> DEFINE m == InOrder(missing)
                 r == MoveMissing(aligned, m, dest, found, moved)
      <4>1. Align(rs, e) = r
        <5> HIDE DEF missing
        <5> QED BY <1>1, <1>2, <2>1, <2>9, <3>1, <3>4
      <4>2. m \in Sides /\ m # side /\ m # second
        <5>1. missing \in SUBSET Sides
          OBVIOUS
        <5>2. m \in missing
          BY <3>4, <5>1, FirstSide
        <5> HIDE DEF m
        <5> QED BY <2>3, <3>1, <5>2
      <4> HIDE DEF m
      <4>3. dest \in 1..Len(aligned) /\ found \in dest..Len(aligned)
        BY <2>1, <3>1, <3>2
      <4>4. \A j \in dest..found - 1 : aligned[j].at[m] = NoLine
        <5>1. \A j \in dest..found - 1 : j \in 1..N
          BY <1>2, <2>1, <2>4
        <5> QED BY <2>6, <3>2, <4>2, <5>1
      <4>5. /\ r \in Seq(RowType)
            /\ \A s \in Sides : \A n : Placed(aligned, moved, dest, s, n) => LinesIn(r, s, 1, Len(r), 0, n)
        BY ONLY <2>6, <3>2, <4>2, <4>3, <4>4, MissingMoved
      <4> HIDE DEF r
      <4> QED BY <3>2, <4>1, <4>5 DEF AlignsWell, KeepsLines
    <3> QED BY <3>3, <3>4
  <2> QED BY <1>2, <2>4, <2>8, <2>9
<1> QED BY <1>2, <1>3, <1>4, <1>5

\* Rows without lines go.
Nonempty(w, rs) ==
    \A k \in 1..Len(w) : w[k] # EmptyRow /\ \E j \in 1..Len(rs) : w[k] = rs[j]

LEMMA EmptyRemoved ==
    ASSUME NEW rs \in Seq(RowType)
    PROVE  AlignsWell(rs, RemoveEmptyRows(rs)) /\ Nonempty(RemoveEmptyRows(rs), rs)
<1> DEFINE K == {k \in DOMAIN rs : rs[k] # EmptyRow}
           w == Kept(rs, K)
<1>1. Len(rs) \in Nat /\ DOMAIN rs = 1..Len(rs)
  BY LenProperties
<1>2. /\ K \in SUBSET (1..Len(rs))
      /\ \A k \in 1..Len(rs) : k \notin K => \A s \in Sides : rs[k].at[s] = NoLine
  <2>1. \A s \in Sides : EmptyRow.at[s] = NoLine
    BY DEF EmptyRow, Row, Sides
  <2> QED BY <1>1, <2>1
<1>3. \A k \in K : rs[k] # EmptyRow
  OBVIOUS
<1> HIDE DEF K
<1>4. KeptWell(rs, K, RowType)
  <2>1. K \subseteq Int
    BY <1>1, <1>2
  <2> QED BY <2>1, KeptElements
<1>5. w \in Seq(RowType) /\ \A n \in 1..Len(w) : \E i \in n..Len(rs) : i \in K /\ w[n] = rs[i]
  BY <1>4 DEF KeptWell
<1>6. Nonempty(w, rs)
  <2> HIDE DEF w
  <2> SUFFICES ASSUME NEW n \in 1..Len(w)
               PROVE  w[n] # EmptyRow /\ \E j \in 1..Len(rs) : w[n] = rs[j]
    BY DEF Nonempty
  <2>1. PICK i \in n..Len(rs) : i \in K /\ w[n] = rs[i]
    BY <1>5
  <2> QED BY <1>2, <1>3, <2>1
<1>7. ASSUME NEW s \in Sides, NEW n, LinesIn(rs, s, 1, Len(rs), 0, n)
      PROVE  LinesIn(w, s, 1, Len(w), 0, n)
  <2>1. KeepsThese(rs, s, K, 1, Len(rs))
    BY <1>1, <1>2 DEF KeepsThese
  <2> QED BY ONLY rs \in Seq(RowType), <1>7, <2>1, TheseKept DEF w
<1>8. RemoveEmptyRows(rs) = w
  BY DEF RemoveEmptyRows, K
<1> QED BY <1>5, <1>6, <1>7, <1>8 DEF AlignsWell, KeepsLines

-----------------------------------------------------------------------------
(* calcDiff3LineListUsingBC().                                               *)

LEMMA LastOf ==
    ASSUME NEW n \in Nat, NEW I \in SUBSET (0..n), I # {}
    PROVE  Max(I) \in I
<1> DEFINE J == {n - x : x \in I}
<1>1. J \subseteq Nat /\ J # {}
  <2>1. \A x \in I : n - x \in Nat
    OBVIOUS
  <2>2. PICK x \in I : TRUE
    OBVIOUS
  <2>3. n - x \in J
    OBVIOUS
  <2> QED BY <2>1, <2>3
<1>2. Min(J) \in J /\ \A y \in J : Min(J) <= y
  BY <1>1, MinWell
<1>3. PICK x \in I : Min(J) = n - x
  BY <1>2
<1>4. \A y \in I : x >= y
  <2> SUFFICES ASSUME NEW y \in I PROVE x >= y
    OBVIOUS
  <2>1. n - y \in J
    OBVIOUS
  <2>2. n - x <= n - y
    BY <1>2, <1>3, <2>1
  <2> QED BY <2>2
<1> QED BY <1>3, <1>4 DEF Max

OtherOfBC(x) == IF x = "B" THEN "C" ELSE "B"

\* w is rs with the line of x of row "from" gone up to row "to", and the other
\* lines of x from there on, in rows K, moved to the rows "above".
WentUp(w, above, rs, x, to, from) ==
    LET y == OtherOfBC(x)
    IN /\ w \in Seq(RowType) /\ Len(w) = Len(rs) /\ above \in Seq(RowType)
       /\ \A k \in 1..Len(rs) : w[k].at[y] = rs[k].at[y]
       /\ \A k \in 1..Len(rs) : k \notin to..from => w[k].at[x] = rs[k].at[x]
       /\ w[to].at[x] = rs[from].at[x]
       /\ \A k \in to + 1..from : w[k].at[x] = NoLine
       /\ \A k \in 1..Len(above) : above[k].at[y] = NoLine
       /\ \A m, p : LinesIn(rs, x, to, from - 1, m, p) => LinesIn(above, x, 1, Len(above), m, p)

LEMMA JoinUpWell ==
    ASSUME NEW row \in RowType, NEW x \in {"B", "C"}, NEW line \in Nat
    PROVE  LET w == JoinUp(row, x, line)
           IN /\ w \in RowType /\ w.at[x] = line
              /\ \A s \in Sides : s # x => w.at[s] = row.at[s]
<1>1. x \in Sides /\ {"A", x} \in Pairs /\ BC \in Pairs
  BY DEF Sides, Pairs, AB, AC, BC
<1>2. row.at \in [Sides -> Nat] /\ row.eq \in SUBSET Pairs
  BY DEF RowType
<1>3. [row.at EXCEPT ![x] = line] \in [Sides -> Nat]
  BY <1>1, <1>2
<1> QED BY <1>1, <1>2, <1>3 DEF JoinUp, RowType

\* The lines of x in their own rows, with the lines of A they equal.
LEMMA SightWell ==
    ASSUME NEW rs \in Seq(RowType), NEW x \in {"B", "C"}, NEW last \in 0..Len(rs)
    PROVE  LET w == [k \in DOMAIN rs |-> OutOfSight(rs, x, k, last)]
           IN /\ w \in Seq(RowType) /\ Len(w) = Len(rs)
              /\ \A k \in 1..Len(rs) : w[k].at[x] = rs[k].at[x] /\ w[k].at[OtherOfBC(x)] = NoLine
<1> DEFINE w == [k \in DOMAIN rs |-> OutOfSight(rs, x, k, last)]
           y == OtherOfBC(x)
<1>1. Len(rs) \in Nat /\ DOMAIN rs = 1..Len(rs) /\ \A k \in 1..Len(rs) : rs[k] \in RowType
  BY LenProperties, ElementOfSeq
<1>2. x \in Sides /\ y \in Sides /\ x # y /\ x # "A" /\ y # "A" /\ {x} \in SUBSET Sides /\ {"A", x} \in Pairs
  BY DEF Sides, OtherOfBC, Pairs, AB, AC
<1>3. ASSUME NEW k \in 1..Len(rs)
      PROVE  LET o == OutOfSight(rs, x, k, last)
             IN o \in RowType /\ o.at[x] = rs[k].at[x] /\ o.at[y] = NoLine
  <2> DEFINE line == Only(rs[k], {x})
             o == OutOfSight(rs, x, k, last)
  <2>1. /\ line \in RowType
        /\ \A s \in Sides : line.at[s] = IF s \in {x} THEN rs[k].at[s] ELSE NoLine
    BY <1>1, <1>2, RowParted
  <2> HIDE DEF line, y
  <2>2. line.at[x] = rs[k].at[x] /\ line.at[y] = NoLine
    BY <1>2, <2>1
  <2>3. CASE last = 0
    <3>1. o = line
      BY <2>3 DEF OutOfSight, line
    <3> QED BY <2>1, <2>2, <3>1
  <2>4. CASE last # 0
    <3> DEFINE base == rs[Min({k, last})]
    <3>1. Min({k, last}) \in 1..Len(rs)
      <4>1. {k, last} \subseteq Nat /\ {k, last} # {}
        BY <1>1
      <4>2. Min({k, last}) \in {k, last}
        BY <4>1, MinWell
      <4> QED BY <1>1, <2>4, <4>2
    <3>2. base.at["A"] \in Nat /\ base.eq \in SUBSET Pairs
      BY <1>1, <3>1 DEF RowType, Sides
    <3>3. o = [at |-> [line.at EXCEPT !["A"] = base.at["A"]], eq |-> base.eq \cap {{"A", x}}]
      BY <2>4 DEF OutOfSight, line
    <3> HIDE DEF base, o
    <3>4. line.at \in [Sides -> Nat]
      BY <2>1 DEF RowType
    <3>5. o.at = [line.at EXCEPT !["A"] = base.at["A"]] /\ o.eq = base.eq \cap {{"A", x}}
      BY <3>3
    <3>6. o.at \in [Sides -> Nat] /\ o.at[x] = line.at[x] /\ o.at[y] = line.at[y]
      BY <1>2, <3>2, <3>4, <3>5
    <3>7. o \in RowType
      BY <3>2, <3>3, <3>5, <3>6 DEF RowType
    <3> QED BY <2>2, <3>6, <3>7 DEF o
  <2> QED BY <2>3, <2>4
<1>4. w \in [1..Len(rs) -> RowType]
  BY <1>1, <1>3
<1>5. \A k \in 1..Len(rs) : w[k] = OutOfSight(rs, x, k, last)
  BY <1>1
<1> HIDE DEF w
<1>6. w \in Seq(RowType) /\ Len(w) = Len(rs)
  BY ONLY <1>1, <1>4, MapSeq
<1> QED BY <1>3, <1>5, <1>6 DEF w

\* Some rows lose the lines of x and perhaps of A.
RowsLeft(rs, x, from, K, last) ==
    [k \in DOMAIN rs |->
        IF k = from THEN Without(rs[k], {x})
        ELSE IF k \notin K THEN rs[k]
        ELSE Without(rs[k], IF k <= last THEN {"A", x} ELSE {x})]

LEMMA LeftWell ==
    ASSUME NEW rs \in Seq(RowType), NEW x \in {"B", "C"}, NEW from \in 1..Len(rs), NEW K, NEW last
    PROVE  LET w == RowsLeft(rs, x, from, K, last)
           IN /\ w \in Seq(RowType) /\ Len(w) = Len(rs)
              /\ \A k \in 1..Len(rs) : /\ w[k].at[OtherOfBC(x)] = rs[k].at[OtherOfBC(x)]
                                       /\ w[k].at[x] = IF k = from \/ k \in K THEN NoLine ELSE rs[k].at[x]
<1> DEFINE w == [k \in DOMAIN rs |->
                    IF k = from THEN Without(rs[k], {x})
                    ELSE IF k \notin K THEN rs[k]
                    ELSE Without(rs[k], IF k <= last THEN {"A", x} ELSE {x})]
           y == OtherOfBC(x)
<1>1. Len(rs) \in Nat /\ DOMAIN rs = 1..Len(rs) /\ \A k \in 1..Len(rs) : rs[k] \in RowType
  BY LenProperties, ElementOfSeq
<1>2. x \in Sides /\ y \in Sides /\ x # y /\ y # "A" /\ {x} \in SUBSET Sides /\ {"A", x} \in SUBSET Sides
  BY DEF Sides, OtherOfBC
<1>3. ASSUME NEW k \in 1..Len(rs), NEW S \in {{x}, {"A", x}}
      PROVE  Without(rs[k], S) \in RowType /\ Without(rs[k], S).at[x] = NoLine
             /\ Without(rs[k], S).at[y] = rs[k].at[y]
  <2>1. S \in SUBSET Sides /\ x \in S /\ y \notin S
    BY <1>2
  <2>2. /\ Without(rs[k], S) \in RowType
        /\ \A s \in Sides : Without(rs[k], S).at[s] = IF s \in S THEN NoLine ELSE rs[k].at[s]
    BY <1>1, <2>1, RowParted
  <2> QED BY <1>2, <2>1, <2>2
<1>4. ASSUME NEW k \in 1..Len(rs)
      PROVE  /\ w[k] \in RowType /\ w[k].at[y] = rs[k].at[y]
             /\ w[k].at[x] = IF k = from \/ k \in K THEN NoLine ELSE rs[k].at[x]
  <2>1. w[k] = IF k = from THEN Without(rs[k], {x})
               ELSE IF k \notin K THEN rs[k]
               ELSE Without(rs[k], IF k <= last THEN {"A", x} ELSE {x})
    BY <1>1
  <2> HIDE DEF w, y
  <2>2. CASE k = from
    <3>1. w[k] = Without(rs[k], {x})
      BY <2>1, <2>2
    <3> QED BY <1>3, <2>2, <3>1
  <2>3. CASE k # from /\ k \notin K
    BY <1>1, <2>1, <2>3
  <2>4. CASE k # from /\ k \in K
    <3>1. PICK S \in {{x}, {"A", x}} : w[k] = Without(rs[k], S)
      BY <2>1, <2>4
    <3> QED BY <1>3, <2>4, <3>1
  <2> QED BY <2>2, <2>3, <2>4
<1>5. w \in [1..Len(rs) -> RowType]
  BY <1>1, <1>4
<1> HIDE DEF w
<1>6. w \in Seq(RowType) /\ Len(w) = Len(rs)
  BY ONLY <1>1, <1>5, MapSeq
<1> QED BY <1>4, <1>6 DEF w, RowsLeft

LEMMA MoveUpMade ==
    ASSUME NEW rs \in Seq(RowType), NEW x \in {"B", "C"}, NEW to \in 1..Len(rs), NEW from \in to + 1..Len(rs)
    PROVE  \E w, above : /\ WentUp(w, above, rs, x, to, from)
                         /\ MoveUp(rs, x, to, from) = [rows |-> InsertRows(w, to, above), by |-> Len(above)]
<1> DEFINE N == Len(rs)
           y == OtherOfBC(x)
           last == Max({0} \cup EqualsA(rs, x, to, from))
           leaving == IF Disturbing(rs, x, to, from) = {} THEN {}
                      ELSE {k \in to..from - 1 : LeavesRow(rs, x, k, last)}
           sight == [k \in DOMAIN rs |-> OutOfSight(rs, x, k, last)]
           above == Kept(sight, leaving)
           left == [k \in DOMAIN rs |->
                       IF k = from THEN Without(rs[k], {x})
                       ELSE IF k \notin leaving THEN rs[k]
                       ELSE Without(rs[k], IF k <= last THEN {"A", x} ELSE {x})]
           joined == [left EXCEPT ![to] = JoinUp(@, x, rs[from].at[x])]
<1>1. N \in Nat /\ to \in Nat \ {0} /\ from \in 1..N /\ to # from /\ from - 1 \in Nat /\ \A k \in 1..N : rs[k] \in RowType
  BY LenProperties, ElementOfSeq
<1>2. MoveUp(rs, x, to, from) = [rows |-> InsertRows(joined, to, above), by |-> Len(above)]
  BY DEF MoveUp
<1>3. last \in 0..N
  <2> DEFINE I == {0} \cup EqualsA(rs, x, to, from)
  <2>1. I \in SUBSET (0..N) /\ I # {}
    BY <1>1 DEF EqualsA
  <2>2. last = Max(I)
    OBVIOUS
  <2> HIDE DEF I, last
  <2>3. Max(I) \in I
    BY ONLY <1>1, <2>1, LastOf
  <2> QED BY <2>1, <2>2, <2>3
<1> HIDE DEF last
<1>4. /\ leaving \in SUBSET (to..from - 1)
      /\ \A k \in to..from - 1 : k \notin leaving => rs[k].at[x] = NoLine
  BY DEF Disturbing, LeavesRow, Holds
<1> HIDE DEF leaving
<1>5. /\ sight \in Seq(RowType) /\ Len(sight) = N
      /\ \A k \in 1..N : sight[k].at[x] = rs[k].at[x] /\ sight[k].at[y] = NoLine
  BY <1>3, SightWell
<1>6. /\ left \in Seq(RowType) /\ Len(left) = N
      /\ \A k \in 1..N : /\ left[k].at[y] = rs[k].at[y]
                         /\ left[k].at[x] = IF k = from \/ k \in leaving THEN NoLine ELSE rs[k].at[x]
  <2>1. from \in 1..Len(rs)
    BY <1>1
  <2>2. left = RowsLeft(rs, x, from, leaving, last)
    BY DEF RowsLeft
  <2> HIDE DEF left
  <2> QED BY <2>1, <2>2, LeftWell
<1> HIDE DEF sight, left, y
<1>7. KeptWell(sight, leaving, RowType)
  <2>1. leaving \subseteq Int
    BY <1>1, <1>4
  <2> QED BY <1>5, <2>1, KeptElements
<1>8. above \in Seq(RowType) /\ \A k \in 1..Len(above) : above[k].at[y] = NoLine
  <2>1. above \in Seq(RowType)
    BY <1>7 DEF KeptWell
  <2>2. \A k \in 1..Len(above) : \E i \in k..N : above[k] = sight[i]
    BY <1>5, <1>7 DEF KeptWell
  <2> HIDE DEF above
  <2>3. ASSUME NEW k \in 1..Len(above) PROVE above[k].at[y] = NoLine
    <3>1. PICK i \in k..N : above[k] = sight[i]
      BY <2>2
    <3>2. i \in 1..N
      BY <1>1
    <3> QED BY <1>5, <3>1, <3>2
  <2> QED BY <2>1, <2>3
<1>9. ASSUME NEW m, NEW p, LinesIn(rs, x, to, from - 1, m, p)
      PROVE  LinesIn(above, x, 1, Len(above), m, p)
  <2>1. \A k \in to..from - 1 : k \in 1..N /\ sight[k].at[x] = rs[k].at[x]
    BY <1>1, <1>5
  <2>2. LinesIn(sight, x, to, from - 1, m, p)
    BY <1>1, <1>9, <2>1, LinesSame
  <2>3. KeepsThese(sight, x, leaving, to, from - 1)
    BY <1>1, <1>4, <1>5, <2>1 DEF KeepsThese
  <2> QED BY ONLY <1>5, <2>2, <2>3, TheseKept DEF above
<1>10. /\ joined \in Seq(RowType) /\ Len(joined) = N
       /\ \A k \in 1..N : k # to => joined[k] = left[k]
       /\ joined[to].at[x] = rs[from].at[x] /\ joined[to].at[y] = left[to].at[y]
  <2> DEFINE new == JoinUp(left[to], x, rs[from].at[x])
  <2>1. rs[from].at[x] \in Nat /\ left[to] \in RowType /\ y \in Sides /\ y # x
    <3>1. rs[from] \in RowType /\ x \in Sides
      BY <1>1 DEF Sides
    <3>2. left[to] \in RowType
      BY <1>1, <1>6, ElementOfSeq
    <3> QED BY <3>1, <3>2 DEF RowType, y, OtherOfBC, Sides
  <2>2. /\ new \in RowType /\ new.at[x] = rs[from].at[x]
        /\ \A s \in Sides : s # x => new.at[s] = left[to].at[s]
    BY <2>1, JoinUpWell
  <2>3. joined = [left EXCEPT ![to] = new]
    OBVIOUS
  <2> HIDE DEF new, joined
  <2>4. to \in 1..Len(left)
    BY <1>6
  <2>5. /\ joined \in Seq(RowType) /\ Len(joined) = Len(left) /\ joined[to] = new
        /\ \A k \in 1..Len(left) : k # to => joined[k] = left[k]
    BY <1>6, <2>2, <2>3, <2>4, ExceptSeq
  <2> QED BY <1>6, <2>1, <2>2, <2>5
<1> HIDE DEF joined, above
<1>11. \A k \in 1..N : joined[k].at[y] = rs[k].at[y]
  <2> SUFFICES ASSUME NEW k \in 1..N PROVE joined[k].at[y] = rs[k].at[y]
    OBVIOUS
  <2>1. CASE k = to
    BY <1>6, <1>10, <2>1
  <2>2. CASE k # to
    BY <1>6, <1>10, <2>2
  <2> QED BY <2>1, <2>2
<1>12. \A k \in 1..N : k \notin to..from => joined[k].at[x] = rs[k].at[x]
  <2> SUFFICES ASSUME NEW k \in 1..N, k \notin to..from PROVE joined[k].at[x] = rs[k].at[x]
    OBVIOUS
  <2>1. k # to /\ k # from /\ k \notin leaving
    BY <1>1, <1>4
  <2> QED BY <1>6, <1>10, <2>1
<1>13. \A k \in to + 1..from : joined[k].at[x] = NoLine
  <2> SUFFICES ASSUME NEW k \in to + 1..from PROVE joined[k].at[x] = NoLine
    OBVIOUS
  <2>1. k \in 1..N /\ k # to /\ (k = from \/ k \in to..from - 1)
    BY <1>1
  <2>2. joined[k].at[x] = IF k = from \/ k \in leaving THEN NoLine ELSE rs[k].at[x]
    BY <1>6, <1>10, <2>1
  <2> QED BY <1>4, <2>1, <2>2
<1>14. WentUp(joined, above, rs, x, to, from)
  BY <1>8, <1>9, <1>10, <1>11, <1>12, <1>13 DEF WentUp, y
<1> QED BY <1>2, <1>14

\* The lines of x in the rows when a line has gone up, and those of the other side.
UpLines(r, rs, by, x, to, from) ==
    /\ r \in Seq(RowType) /\ by \in Nat /\ Len(r) = Len(rs) + by
    /\ \A n : LinesIn(rs, x, 1, Len(rs), 0, n) => LinesIn(r, x, 1, Len(r), 0, n)
    /\ \A l : LinesIn(rs, x, 1, from, 0, l) =>
          LinesIn(r, x, 1, to + by, 0, l) /\ LinesIn(r, x, 1, from + by, 0, l)
    /\ \A n : \A k \in to..Len(rs) :
          LinesIn(rs, OtherOfBC(x), 1, k, 0, n) => LinesIn(r, OtherOfBC(x), 1, k + by, 0, n)

LEMMA UpLinesKept ==
    ASSUME NEW rs \in Seq(RowType), NEW x \in {"B", "C"}, NEW to \in 1..Len(rs), NEW from \in to + 1..Len(rs),
           NEW w, NEW above, WentUp(w, above, rs, x, to, from)
    PROVE  UpLines(InsertRows(w, to, above), rs, Len(above), x, to, from)
<1> DEFINE N == Len(rs)
           y == OtherOfBC(x)
           r == InsertRows(w, to, above)
           by == Len(above)
<1>1. /\ N \in Nat /\ 1 \in Nat \ {0} /\ to \in Nat \ {0} /\ to - 1 \in Nat /\ to - 1 + 1 = to
      /\ from \in Nat \ {0} /\ from - 1 \in Nat /\ from - 1 + 1 = from /\ to < from /\ from <= N
  BY LenProperties
<1>2. /\ w \in Seq(RowType) /\ Len(w) = N /\ above \in Seq(RowType) /\ by \in Nat
      /\ \A k \in 1..N : w[k].at[y] = rs[k].at[y]
      /\ \A k \in 1..N : k \notin to..from => w[k].at[x] = rs[k].at[x]
      /\ w[to].at[x] = rs[from].at[x]
      /\ \A k \in to + 1..from : w[k].at[x] = NoLine
      /\ \A k \in 1..by : above[k].at[y] = NoLine
      /\ \A m, p : LinesIn(rs, x, to, from - 1, m, p) => LinesIn(above, x, 1, by, m, p)
  BY LenProperties DEF WentUp
<1>3. InPlaceOf(r, w, above, to, to - 1, RowType)
  <2>1. to \in 1..Len(w) + 1
    BY <1>1, <1>2
  <2> QED BY <1>2, <2>1, Inserted
<1> HIDE DEF r, by, y
<1>4. /\ r \in Seq(RowType) /\ Len(r) = N + by
      /\ \A k \in 1..to - 1 : r[k] = w[k]
      /\ \A k \in 1..by : r[k + (to - 1)] = above[k]
      /\ \A k \in to..N : r[k + by] = w[k]
  <2>1. r \in Seq(RowType) /\ Len(r) = to - 1 + by + N - (to - 1)
    BY <1>2, <1>3 DEF InPlaceOf, by
  <2>2. \A k \in 1..to - 1 : r[k] = w[k]
    BY <1>3 DEF InPlaceOf
  <2>3. \A k \in 1..by : r[k + (to - 1)] = above[k]
    <3> SUFFICES ASSUME NEW k \in 1..by PROVE r[k + (to - 1)] = above[k]
      OBVIOUS
    <3>1. k + (to - 1) \in Int /\ k + (to - 1) = to - 1 + k /\ k \in 1..Len(above)
      BY <1>1, <1>2 DEF by
    <3> QED BY <1>3, <3>1 DEF InPlaceOf
  <2>4. \A k \in to..N : r[k + by] = w[k]
    <3> SUFFICES ASSUME NEW k \in to..N PROVE r[k + by] = w[k]
      OBVIOUS
    <3>1. k + by \in Int /\ k + by = to - 1 + Len(above) + k - (to - 1) /\ k \in to - 1 + 1..Len(w)
      BY <1>1, <1>2 DEF by
    <3> QED BY <1>3, <3>1 DEF InPlaceOf
  <2> QED BY <1>1, <1>2, <2>1, <2>2, <2>3, <2>4
<1> HIDE DEF N
<1>5. to + by \in Nat \ {0} /\ from + by \in Nat \ {0} /\ to - 1 + by \in Nat /\ N + by \in Nat
  BY <1>1, <1>2
<1>6. ASSUME NEW s, NEW m, NEW p, LinesIn(above, s, 1, by, m, p)
      PROVE  LinesIn(r, s, to, to - 1 + by, m, p)
  <2>1. 1 <= by + 1 /\ to - 1 \in Int /\ 1 + (to - 1) = to /\ 1 + (to - 1) \in Nat \ {0} /\ by + (to - 1) = to - 1 + by
    BY <1>1, <1>2
  <2>2. \A k \in 1..by : r[k + (to - 1)].at[s] = above[k].at[s]
    BY <1>4
  <2>3. LinesIn(r, s, 1 + (to - 1), by + (to - 1), m, p)
    <3>1. 1 \in Nat \ {0} /\ by \in Nat
      BY <1>2
    <3> QED BY ONLY <1>6, <2>1, <2>2, <3>1, LinesMoved
  <2> QED BY <2>1, <2>3
\* The other side.
<1>7. ASSUME NEW n, NEW k \in to..N, LinesIn(rs, y, 1, k, 0, n)
      PROVE  LinesIn(r, y, 1, k + by, 0, n)
  <2>1. PICK m \in Nat : LinesIn(rs, y, 1, to - 1, 0, m) /\ LinesIn(rs, y, to, k, m, n)
    <3>1. k \in Nat /\ 1 <= to - 1 + 1 /\ to - 1 <= k
      BY <1>1
    <3>2. \E m \in Nat : LinesIn(rs, y, 1, to - 1, 0, m) /\ LinesIn(rs, y, to - 1 + 1, k, m, n)
      BY ONLY <1>1, <1>7, <3>1, LinesParted
    <3> QED BY <1>1, <3>2
  <2>2. LinesIn(r, y, 1, to - 1, 0, m)
    <3>1. \A j \in 1..to - 1 : r[j].at[y] = rs[j].at[y]
      BY <1>1, <1>2, <1>4
    <3> QED BY <1>1, <2>1, <3>1, LinesSame
  <2>3. LinesIn(r, y, to, to - 1 + by, m, m)
    <3>1. LinesIn(above, y, 1, by, m, m)
      <4>1. 1 <= by + 1
        BY <1>2
      <4> QED BY <1>1, <1>2, <4>1, LinesNone
    <3> QED BY <1>6, <3>1
  <2>4. LinesIn(r, y, to + by, k + by, m, n)
    <3>1. k \in Nat /\ to <= k + 1 /\ by \in Int
      BY ONLY <1>1, <1>2, k \in to..N
    <3>2. \A j \in to..k : r[j + by].at[y] = rs[j].at[y]
      BY <1>1, <1>2, <1>4
    <3> QED BY <1>1, <1>5, <2>1, <3>1, <3>2, LinesMoved
  <2>5. LinesIn(r, y, 1, to - 1 + by, 0, m)
    <3>1. 1 <= to - 1 + 1 /\ to - 1 <= to - 1 + by /\ LinesIn(r, y, to - 1 + 1, to - 1 + by, m, m)
      BY <1>1, <1>2, <2>3
    <3> QED BY ONLY <1>1, <1>5, <2>2, <3>1, LinesJoined
  <2>6. /\ 1 <= to - 1 + by + 1 /\ to - 1 + by <= k + by /\ to - 1 + by + 1 = to + by
        /\ k + by \in Nat
    <3>1. to \in Nat \ {0} /\ by \in Nat /\ k \in Nat /\ to <= k
      BY <1>1, <1>2
    <3> QED BY ONLY <3>1
  <2>7. LinesIn(r, y, to - 1 + by + 1, k + by, m, n)
    BY <2>4, <2>6
  <2> QED BY ONLY <1>1, <1>5, <2>5, <2>6, <2>7, LinesJoined
\* The side that went up, down to the row its line was in.
<1>8. ASSUME NEW l, LinesIn(rs, x, 1, from, 0, l)
      PROVE  LinesIn(r, x, 1, to + by, 0, l) /\ LinesIn(r, x, 1, from + by, 0, l)
  <2>1. PICK m \in Nat : LinesIn(rs, x, 1, to - 1, 0, m) /\ LinesIn(rs, x, to, from, m, l)
    <3>1. 1 <= to - 1 + 1 /\ to - 1 <= from /\ from \in Nat
      BY <1>1
    <3>2. \E m \in Nat : LinesIn(rs, x, 1, to - 1, 0, m) /\ LinesIn(rs, x, to - 1 + 1, from, m, l)
      BY ONLY <1>1, <1>8, <3>1, LinesParted
    <3> QED BY <1>1, <3>2
  <2>2. PICK p \in Nat : LinesIn(rs, x, to, from - 1, m, p) /\ LinesIn(rs, x, from, from, p, l)
    <3>1. to <= from - 1 + 1 /\ from - 1 <= from /\ from \in Nat
      BY <1>1
    <3>2. \E p \in Nat : LinesIn(rs, x, to, from - 1, m, p) /\ LinesIn(rs, x, from - 1 + 1, from, p, l)
      BY ONLY <1>1, <2>1, <3>1, LinesParted
    <3> QED BY <1>1, <3>2
  <2>3. LinesIn(r, x, 1, to - 1, 0, m)
    <3>1. \A j \in 1..to - 1 : r[j].at[x] = rs[j].at[x]
      BY <1>1, <1>2, <1>4
    <3> QED BY <1>1, <2>1, <3>1, LinesSame
  <2>4. LinesIn(r, x, to, to - 1 + by, m, p)
    BY <1>2, <1>6, <2>2
  <2>5. LinesIn(r, x, to + by, to + by, p, l)
    <3> DEFINE d == to + by - from
    <3>1. d \in Int /\ from + d = to + by /\ from <= from + 1 /\ from \in Nat
      BY <1>1, <1>2
    <3>2. \A j \in from..from : r[j + d].at[x] = rs[j].at[x]
      <4>1. r[to + by].at[x] = rs[from].at[x]
        <5>1. to \in to..N
          BY <1>1
        <5>2. r[to + by] = w[to]
          BY <1>4, <5>1
        <5> QED BY <1>2, <5>2
      <4> QED BY <1>1, <3>1, <4>1
    <3> HIDE DEF d
    <3>3. LinesIn(r, x, from + d, from + d, p, l)
      BY ONLY <1>1, <1>5, <2>2, <3>1, <3>2, LinesMoved
    <3> QED BY <3>1, <3>3
  <2>6. LinesIn(r, x, 1, to - 1 + by, 0, p)
    <3>1. 1 <= to - 1 + 1 /\ to - 1 <= to - 1 + by /\ LinesIn(r, x, to - 1 + 1, to - 1 + by, m, p)
      BY <1>1, <1>2, <2>4
    <3> QED BY ONLY <1>1, <1>5, <2>3, <3>1, LinesJoined
  <2>7. LinesIn(r, x, 1, to + by, 0, l)
    <3>1. /\ 1 <= to - 1 + by + 1 /\ to - 1 + by <= to + by /\ to - 1 + by + 1 = to + by /\ to + by \in Nat
      BY <1>1, <1>2
    <3>2. LinesIn(r, x, to - 1 + by + 1, to + by, p, l)
      BY <2>5, <3>1
    <3> QED BY ONLY <1>1, <1>5, <2>6, <3>1, <3>2, LinesJoined
  <2>8. LinesIn(r, x, to + by + 1, from + by, l, l)
    <3>1. to + by + 1 \in Nat \ {0} /\ from + by \in Nat /\ to + by + 1 <= from + by + 1 /\ l \in Nat
      <4>1. to + by \in Nat \ {0} /\ to + by <= to + by + 1
        BY <1>5
      <4>2. l \in Nat
        BY <2>5, <1>5, <4>1, LinesWell
      <4> QED BY <1>1, <1>2, <4>2
    <3>2. \A j \in to + by + 1..from + by : r[j].at[x] = NoLine
      <4> SUFFICES ASSUME NEW j \in to + by + 1..from + by PROVE r[j].at[x] = NoLine
        OBVIOUS
      <4>1. j - by \in to + 1..from /\ j - by \in to..N /\ j - by + by = j
        BY <1>1, <1>2
      <4>2. r[j - by + by] = w[j - by]
        BY <1>4, <4>1
      <4> QED BY <1>2, <4>1, <4>2
    <3> QED BY <3>1, <3>2, LinesNone
  <2>9. /\ 1 <= to + by + 1 /\ to + by <= from + by /\ to + by \in Nat /\ from + by \in Nat
    BY <1>1, <1>2
  <2>10. LinesIn(r, x, 1, from + by, 0, l)
    BY ONLY <1>1, <2>7, <2>8, <2>9, LinesJoined
  <2> QED BY <2>7, <2>10
<1>9. ASSUME NEW n, LinesIn(rs, x, 1, N, 0, n)
      PROVE  LinesIn(r, x, 1, Len(r), 0, n)
  <2>1. PICK l \in Nat : LinesIn(rs, x, 1, from, 0, l) /\ LinesIn(rs, x, from + 1, N, l, n)
    <3>1. 1 <= from + 1 /\ from <= N /\ from \in Nat
      BY <1>1
    <3> QED BY ONLY <1>1, <1>9, <3>1, LinesParted
  <2>2. LinesIn(r, x, 1, from + by, 0, l)
    BY <1>8, <2>1
  <2>3. LinesIn(r, x, from + by + 1, N + by, l, n)
    <3>1. from + 1 \in Nat \ {0} /\ from + 1 <= N + 1 /\ by \in Int /\ from + 1 + by \in Nat \ {0} /\ from + 1 + by = from + by + 1
      BY <1>1, <1>2
    <3>2. \A j \in from + 1..N : r[j + by].at[x] = rs[j].at[x]
      <4> SUFFICES ASSUME NEW j \in from + 1..N PROVE r[j + by].at[x] = rs[j].at[x]
        OBVIOUS
      <4>1. j \in to..N /\ j \in 1..N /\ j \notin to..from
        BY <1>1
      <4> QED BY <1>2, <1>4, <4>1
    <3>3. LinesIn(r, x, from + 1 + by, N + by, l, n)
      BY ONLY <1>1, <2>1, <3>1, <3>2, LinesMoved
    <3> QED BY <3>1, <3>3
  <2>4. 1 <= from + by + 1 /\ from + by <= N + by /\ from + by \in Nat
    BY <1>1, <1>2
  <2> QED BY <1>1, <1>4, <1>5, <2>2, <2>3, <2>4, LinesJoined
<1> QED BY <1>2, <1>4, <1>7, <1>8, <1>9 DEF UpLines, N, r, by, y

\* Rows that hold all the lines of B and C, with b lines of B in front of ib and
\* no more than c lines of C in front of ic.
BCState == [rows : Seq(RowType), ib : Nat \ {0}, ic : Nat \ {0}]
BCLines(t, nb, nc) ==
    LinesIn(t.rows, "B", 1, Len(t.rows), 0, nb) /\ LinesIn(t.rows, "C", 1, Len(t.rows), 0, nc)
BCRead(t, b, c) ==
    /\ t.ib <= Len(t.rows) + 1 /\ t.ic <= Len(t.rows) + 1
    /\ LinesIn(t.rows, "B", 1, t.ib - 1, 0, b)
    /\ \E m \in 0..c : LinesIn(t.rows, "C", 1, t.ic - 1, 0, m)
BCFits(t, nb, nc, b, c) == t \in BCState /\ BCLines(t, nb, nc) /\ BCRead(t, b, c)

\* The row that holds the next line of a side, all lines before it being there.
Ahead(x, rs, s, k, m, l) ==
    /\ x \in k..Len(rs) /\ rs[x].at[s] = l /\ LinesIn(rs, s, 1, x, 0, l)
    /\ (l = m + 1 => \A y \in k..x - 1 : rs[y].at[s] = NoLine)

LEMMA LineAhead ==
    ASSUME NEW rs \in Seq(RowType), NEW s, NEW k \in 1..Len(rs) + 1, NEW n \in Nat, NEW m \in Nat, NEW l \in m + 1..n,
           LinesIn(rs, s, 1, Len(rs), 0, n), LinesIn(rs, s, 1, k - 1, 0, m)
    PROVE  Ahead(RowOfLine(rs, k, s, l), rs, s, k, m, l)
<1> DEFINE N == Len(rs)
           x == RowOfLine(rs, k, s, l)
<1>1. N \in Nat /\ k \in Nat \ {0} /\ k <= N + 1 /\ 1 \in Nat \ {0} /\ k - 1 \in Nat /\ k - 1 + 1 = k
  BY LenProperties
<1>2. LinesIn(rs, s, k, N, m, n)
  <2>1. PICK p \in Nat : LinesIn(rs, s, 1, k - 1, 0, p) /\ LinesIn(rs, s, k - 1 + 1, N, p, n)
    <3>1. 1 <= k - 1 + 1 /\ k - 1 <= N
      BY <1>1
    <3> QED BY ONLY <1>1, <3>1, LinesIn(rs, s, 1, N, 0, n), LinesParted
  <2>2. p = m
    <3>1. 1 <= k - 1 + 1
      BY <1>1
    <3> QED BY <1>1, <2>1, <3>1, LinesWell
  <2> QED BY <1>1, <2>1, <2>2
<1>3. PICK z \in k..N : FirstWith(rs, s, k, z, m, l)
  BY <1>1, <1>2, LinesFound
<1>4. x = z
  <2>1. x \in k..N + 1 /\ (x <= N => rs[x].at[s] = l) /\ \A y \in k..x - 1 : rs[y].at[s] # l
    BY <1>1, RowOfLineWell
  <2> HIDE DEF x
  <2>2. rs[z].at[s] = l /\ \A y \in k..z - 1 : rs[y].at[s] # l
    BY <1>3 DEF FirstWith
  <2>3. ~(z < x)
    <3>1. z < x => z \in k..x - 1
      BY <1>1, <2>1
    <3> QED BY <2>1, <2>2, <3>1
  <2>4. ~(x < z)
    <3>1. x < z => x \in k..z - 1 /\ x <= N
      BY <1>1, <2>1
    <3> QED BY <2>1, <2>2, <3>1
  <2> QED BY <1>1, <2>1, <2>3, <2>4
<1> HIDE DEF x
<1>5. rs[z].at[s] = l /\ LinesIn(rs, s, k, z, m, l) /\ (l = m + 1 => \A y \in k..z - 1 : rs[y].at[s] = NoLine)
  BY <1>3 DEF FirstWith
<1>6. LinesIn(rs, s, 1, z, 0, l)
  <2>1. 1 <= k - 1 + 1 /\ k - 1 <= z /\ z \in Nat /\ LinesIn(rs, s, k - 1 + 1, z, m, l)
    BY <1>1, <1>5
  <2> QED BY <1>1, <2>1, LinesJoined
<1> QED BY <1>4, <1>5, <1>6 DEF x, Ahead

LEMMA SameLinesBC ==
    ASSUME NEW rs, NEW w, Len(w) = Len(rs), Len(rs) \in Nat, NEW s, \A k \in 1..Len(rs) : w[k].at[s] = rs[k].at[s],
           NEW i \in 0..Len(rs), NEW n, LinesIn(rs, s, 1, i, 0, n)
    PROVE  LinesIn(w, s, 1, i, 0, n)
<1>1. \A k \in 1..i : w[k].at[s] = rs[k].at[s]
  OBVIOUS
<1>2. 1 \in Nat \ {0} /\ i \in Nat
  OBVIOUS
<1> QED BY <1>1, <1>2, LinesSame

\* What is left to show of every outcome of AlignEqual.
Aligned(q, by, rs, ib, ic, nb, nc, b, c) ==
    /\ q \in Seq(RowType) /\ by \in Nat /\ Len(q) = Len(rs) + by
    /\ LinesIn(q, "B", 1, Len(q), 0, nb) /\ LinesIn(q, "C", 1, Len(q), 0, nc)
    /\ LinesIn(q, "B", 1, ib + by, 0, b + 1) /\ LinesIn(q, "C", 1, ic + by, 0, c + 1)

LEMMA AlignedFits ==
    ASSUME NEW q, NEW by, NEW rs, Len(rs) \in Nat, NEW ib \in 1..Len(rs), NEW ic \in 1..Len(rs),
           NEW nb \in Nat, NEW nc \in Nat, NEW b \in 0..nb - 1, NEW c \in 0..nc - 1, Aligned(q, by, rs, ib, ic, nb, nc, b, c)
    PROVE  BCFits([rows |-> q, ib |-> ib + by + 1, ic |-> ic + by + 1], nb, nc, b + 1, c + 1)
<1> DEFINE v == [rows |-> q, ib |-> ib + by + 1, ic |-> ic + by + 1]
<1>1. /\ q \in Seq(RowType) /\ by \in Nat /\ Len(q) = Len(rs) + by
      /\ LinesIn(q, "B", 1, Len(q), 0, nb) /\ LinesIn(q, "C", 1, Len(q), 0, nc)
      /\ LinesIn(q, "B", 1, ib + by, 0, b + 1) /\ LinesIn(q, "C", 1, ic + by, 0, c + 1)
  BY DEF Aligned
<1>2. v.rows = q /\ v.ib = ib + by + 1 /\ v.ic = ic + by + 1
  OBVIOUS
<1>3. /\ ib + by + 1 \in Nat \ {0} /\ ic + by + 1 \in Nat \ {0} /\ ib + by + 1 <= Len(q) + 1 /\ ic + by + 1 <= Len(q) + 1
      /\ ib + by + 1 - 1 = ib + by /\ ic + by + 1 - 1 = ic + by /\ c + 1 \in 0..c + 1
      /\ ib + by \in Nat /\ ic + by \in Nat /\ Len(q) \in Nat /\ by \in Nat
  <2>1. /\ by \in Nat /\ Len(q) = Len(rs) + by /\ Len(rs) \in Nat /\ c \in Nat
        /\ ib \in Nat /\ ib >= 1 /\ ib <= Len(rs) /\ ic \in Nat /\ ic >= 1 /\ ic <= Len(rs)
    BY <1>1
  <2> QED BY ONLY <2>1
<1>4. v \in BCState
  BY <1>1, <1>3 DEF BCState
<1> HIDE DEF v
<1>5. BCLines(v, nb, nc)
  BY <1>1, <1>2 DEF BCLines
<1>6. BCRead(v, b + 1, c + 1)
  <2>1. v.ib <= Len(v.rows) + 1 /\ v.ic <= Len(v.rows) + 1 /\ v.ib - 1 = ib + by /\ v.ic - 1 = ic + by
    BY ONLY <1>2, <1>3, Len(rs) \in Nat
  <2>2. LinesIn(v.rows, "B", 1, v.ib - 1, 0, b + 1) /\ LinesIn(v.rows, "C", 1, v.ic - 1, 0, c + 1)
    BY ONLY <1>1, <1>2, <2>1
  <2> QED BY ONLY <1>3, <2>1, <2>2 DEF BCRead
<1> QED BY <1>4, <1>5, <1>6 DEF BCFits, v

LEMMA EqualAligned ==
    ASSUME NEW t, NEW nb \in Nat, NEW nc \in Nat, NEW b \in 0..nb - 1, NEW c \in 0..nc - 1, BCFits(t, nb, nc, b, c)
    PROVE  BCFits(AlignEqual(t, b + 1, c + 1), nb, nc, b + 1, c + 1)
<1> DEFINE rs == t.rows
           N == Len(rs)
           ib == RowOfLine(rs, t.ib, "B", b + 1)
           ic == RowOfLine(rs, t.ic, "C", c + 1)
           after(q, by) == [rows |-> q, ib |-> ib + by + 1, ic |-> ic + by + 1]
           u == AlignEqual(t, b + 1, c + 1)
<1>1. /\ rs \in Seq(RowType) /\ N \in Nat /\ t.ib \in 1..N + 1 /\ t.ic \in 1..N + 1
      /\ LinesIn(rs, "B", 1, N, 0, nb) /\ LinesIn(rs, "C", 1, N, 0, nc)
      /\ LinesIn(rs, "B", 1, t.ib - 1, 0, b)
      /\ \E m \in 0..c : LinesIn(rs, "C", 1, t.ic - 1, 0, m)
  <2>1. rs \in Seq(RowType) /\ t.ib \in Nat \ {0} /\ t.ic \in Nat \ {0}
    BY DEF BCFits, BCState
  <2> QED BY <2>1, LenProperties, SMTT(30) DEF BCFits, BCLines, BCRead
<1>2. ib \in 1..N /\ rs[ib].at["B"] = b + 1 /\ LinesIn(rs, "B", 1, ib, 0, b + 1)
  <2>1. b + 1 \in b + 1..nb /\ b \in Nat
    OBVIOUS
  <2> HIDE DEF rs
  <2>2. Ahead(ib, rs, "B", t.ib, b, b + 1)
    BY ONLY nb \in Nat, <1>1, <2>1, LineAhead
  <2> HIDE DEF ib
  <2>4. ib \in t.ib..N /\ rs[ib].at["B"] = b + 1 /\ LinesIn(rs, "B", 1, ib, 0, b + 1)
    BY <2>2 DEF Ahead
  <2>5. ib \in 1..N
    BY ONLY <1>1, <2>4
  <2> QED BY <2>4, <2>5
<1>3. ic \in 1..N /\ rs[ic].at["C"] = c + 1 /\ LinesIn(rs, "C", 1, ic, 0, c + 1)
  <2>1. PICK m \in 0..c : LinesIn(rs, "C", 1, t.ic - 1, 0, m)
    BY <1>1
  <2>2. c + 1 \in m + 1..nc /\ m \in Nat
    OBVIOUS
  <2> HIDE DEF rs
  <2>3. Ahead(ic, rs, "C", t.ic, m, c + 1)
    BY ONLY nc \in Nat, <1>1, <2>1, <2>2, LineAhead
  <2> HIDE DEF ic
  <2>4. ic \in t.ic..N /\ rs[ic].at["C"] = c + 1 /\ LinesIn(rs, "C", 1, ic, 0, c + 1)
    BY <2>3 DEF Ahead
  <2>5. ic \in 1..N
    BY ONLY <1>1, <2>4
  <2> QED BY <2>4, <2>5
<1>4. u = IF ib = ic THEN after([rs EXCEPT ![ib].eq = @ \cup {BC}], 0)
          ELSE IF ic < ib /\ AB \notin rs[ib].eq
               THEN after(MoveUp(rs, "B", ic, ib).rows, MoveUp(rs, "B", ic, ib).by)
          ELSE IF ib < ic /\ AC \notin rs[ic].eq
               THEN after(MoveUp(rs, "C", ib, ic).rows, MoveUp(rs, "C", ib, ic).by)
          ELSE after(rs, 0)
  BY DEF AlignEqual
<1> HIDE DEF ib, ic, u
<1>5. \A q, by : Aligned(q, by, rs, ib, ic, nb, nc, b, c) => BCFits(after(q, by), nb, nc, b + 1, c + 1)
  <2> HIDE DEF rs
  <2> SUFFICES ASSUME NEW q, NEW by, Aligned(q, by, rs, ib, ic, nb, nc, b, c)
               PROVE  BCFits(after(q, by), nb, nc, b + 1, c + 1)
    OBVIOUS
  <2>1. Len(rs) \in Nat /\ ib \in 1..Len(rs) /\ ic \in 1..Len(rs)
    BY <1>1, <1>2, <1>3
  <2> QED BY <2>1, AlignedFits
<1> HIDE DEF rs, after
<1>6. CASE ib = ic
  <2> DEFINE q == [rs EXCEPT ![ib].eq = @ \cup {BC}]
             new == [rs[ib] EXCEPT !.eq = @ \cup {BC}]
  <2>1. u = after(q, 0)
    BY <1>4, <1>6
  <2>2. new \in RowType /\ new.at = rs[ib].at
    <3>1. rs[ib] \in RowType /\ BC \in Pairs
      BY <1>1, <1>2, ElementOfSeq DEF Pairs
    <3> QED BY <3>1 DEF RowType
  <2>3. q = [rs EXCEPT ![ib] = new]
    OBVIOUS
  <2> HIDE DEF q, new
  <2>4. q \in Seq(RowType) /\ Len(q) = N /\ q[ib] = new /\ \A k \in 1..N : k # ib => q[k] = rs[k]
    BY <1>1, <1>2, <2>2, <2>3, ExceptSeq
  <2>5. \A s : \A k \in 1..N : q[k].at[s] = rs[k].at[s]
    BY <2>2, <2>4
  <2>6. \A s, n : \A i \in 0..N : LinesIn(rs, s, 1, i, 0, n) => LinesIn(q, s, 1, i, 0, n)
    BY ONLY <1>1, <2>4, <2>5, SameLinesBC
  <2>7. 0 \in Nat /\ Len(q) = N + 0 /\ ib + 0 = ib /\ ic + 0 = ic /\ N \in 0..N /\ ib \in 0..N /\ ic \in 0..N
    BY <1>1, <1>2, <1>3, <2>4
  <2>8. BCFits(after(q, 0), nb, nc, b + 1, c + 1)
    <3>1. Aligned(q, 0, rs, ib, ic, nb, nc, b, c)
      BY <1>1, <1>2, <1>3, <2>4, <2>6, <2>7 DEF Aligned
    <3> QED BY <1>5, <3>1
  <2> HIDE DEF q, new
  <2> QED BY ONLY <2>1, <2>8 DEF u
<1>7. CASE ic < ib /\ AB \notin rs[ib].eq
  <2>1. ib # ic /\ ic \in 1..Len(rs) /\ ib \in ic + 1..Len(rs) /\ "B" \in {"B", "C"}
    BY <1>2, <1>3, <1>7
  <2>2. PICK w, above : /\ WentUp(w, above, rs, "B", ic, ib)
                        /\ MoveUp(rs, "B", ic, ib) = [rows |-> InsertRows(w, ic, above), by |-> Len(above)]
    BY <1>1, <2>1, MoveUpMade
  <2> DEFINE r == InsertRows(w, ic, above)
             by == Len(above)
  <2>3. UpLines(r, rs, by, "B", ic, ib)
    BY <1>1, <2>1, <2>2, UpLinesKept
  <2>4. u = after(r, by)
    BY <1>4, <1>7, <2>1, <2>2
  <2> HIDE DEF r, by
  <2>5. OtherOfBC("B") = "C" /\ ic \in ic..N /\ N \in ic..N
    BY <1>1, <1>3 DEF OtherOfBC
  <2>6. r \in Seq(RowType) /\ by \in Nat /\ Len(r) = N + by
    BY <2>3 DEF UpLines
  <2>7. LinesIn(r, "B", 1, Len(r), 0, nb) /\ LinesIn(r, "B", 1, ib + by, 0, b + 1)
    BY <1>1, <1>2, <2>3 DEF UpLines
  <2>8. LinesIn(r, "C", 1, Len(r), 0, nc) /\ LinesIn(r, "C", 1, ic + by, 0, c + 1)
    BY <1>1, <1>3, <2>3, <2>5, <2>6 DEF UpLines
  <2>9. BCFits(after(r, by), nb, nc, b + 1, c + 1)
    <3>1. Aligned(r, by, rs, ib, ic, nb, nc, b, c)
      BY <2>6, <2>7, <2>8 DEF Aligned
    <3> QED BY <1>5, <3>1
  <2> QED BY ONLY <2>4, <2>9 DEF u
<1>8. CASE ib < ic /\ AC \notin rs[ic].eq
  <2>1. ib # ic /\ ~(ic < ib) /\ ib \in 1..Len(rs) /\ ic \in ib + 1..Len(rs) /\ "C" \in {"B", "C"}
    BY <1>2, <1>3, <1>8
  <2>2. PICK w, above : /\ WentUp(w, above, rs, "C", ib, ic)
                        /\ MoveUp(rs, "C", ib, ic) = [rows |-> InsertRows(w, ib, above), by |-> Len(above)]
    BY <1>1, <2>1, MoveUpMade
  <2> DEFINE r == InsertRows(w, ib, above)
             by == Len(above)
  <2>3. UpLines(r, rs, by, "C", ib, ic)
    BY <1>1, <2>1, <2>2, UpLinesKept
  <2>4. u = after(r, by)
    BY <1>4, <1>8, <2>1, <2>2
  <2> HIDE DEF r, by
  <2>5. OtherOfBC("C") = "B" /\ ib \in ib..N /\ N \in ib..N
    BY <1>1, <1>2 DEF OtherOfBC
  <2>6. r \in Seq(RowType) /\ by \in Nat /\ Len(r) = N + by
    BY <2>3 DEF UpLines
  <2>7. LinesIn(r, "C", 1, Len(r), 0, nc) /\ LinesIn(r, "C", 1, ic + by, 0, c + 1)
    BY <1>1, <1>3, <2>3 DEF UpLines
  <2>8. LinesIn(r, "B", 1, Len(r), 0, nb) /\ LinesIn(r, "B", 1, ib + by, 0, b + 1)
    BY <1>1, <1>2, <2>3, <2>5, <2>6 DEF UpLines
  <2>9. BCFits(after(r, by), nb, nc, b + 1, c + 1)
    <3>1. Aligned(r, by, rs, ib, ic, nb, nc, b, c)
      BY <2>6, <2>7, <2>8 DEF Aligned
    <3> QED BY <1>5, <3>1
  <2> QED BY ONLY <2>4, <2>9 DEF u
<1>9. CASE ~(ib = ic) /\ ~(ic < ib /\ AB \notin rs[ib].eq) /\ ~(ib < ic /\ AC \notin rs[ic].eq)
  <2>1. u = after(rs, 0)
    BY <1>4, <1>9
  <2>2. 0 \in Nat /\ Len(rs) = N + 0 /\ ib + 0 = ib /\ ic + 0 = ic
    BY <1>1, <1>2, <1>3
  <2>3. BCFits(after(rs, 0), nb, nc, b + 1, c + 1)
    <3>1. Aligned(rs, 0, rs, ib, ic, nb, nc, b, c)
      BY <1>1, <1>2, <1>3, <2>2 DEF Aligned
    <3> QED BY <1>5, <3>1
  <2> QED BY ONLY <2>1, <2>3 DEF u
<1> QED BY ONLY <1>6, <1>7, <1>8, <1>9

\* One row more, which holds no line of s.
LEMMA LinesShifted ==
    ASSUME NEW q \in Seq(RowType), NEW i \in 1..Len(q) + 1, NEW new \in RowType, NEW s, new.at[s] = NoLine,
           NEW n, NEW k \in 0..Len(q), LinesIn(q, s, 1, k, 0, n)
    PROVE  LET r == InsertRows(q, i, <<new>>)
           IN LinesIn(r, s, 1, IF k >= i - 1 THEN k + 1 ELSE k, 0, n)
<1> DEFINE N == Len(q)
           r == InsertRows(q, i, <<new>>)
<1>1. N \in Nat /\ 1 \in Nat \ {0} /\ i \in Nat \ {0} /\ i - 1 \in Nat /\ i - 1 + 1 = i /\ i - 1 <= N /\ k \in Nat /\ k <= N
  BY LenProperties
<1>2. <<new>> \in Seq(RowType) /\ Len(<<new>>) = 1 /\ <<new>>[1] = new
  OBVIOUS
<1>3. InPlaceOf(r, q, <<new>>, i, i - 1, RowType)
  <2> HIDE DEF r
  <2> QED BY <1>2, Inserted DEF r
<1> HIDE DEF r
<1>4. (\A j \in 1..i - 1 : r[j] = q[j]) /\ r[i] = new /\ \A j \in i..N : r[j + 1] = q[j]
  <2>1. \A j \in 1..i - 1 : r[j] = q[j]
    BY <1>3 DEF InPlaceOf
  <2>2. r[i] = new
    <3>1. 1 \in 1..Len(<<new>>) /\ i \in Int /\ i = i - 1 + 1
      BY <1>1, <1>2
    <3>2. \A x \in 1..Len(<<new>>), y \in Int : y = i - 1 + x => r[y] = <<new>>[x]
      BY <1>3 DEF InPlaceOf
    <3> QED BY <1>2, <3>1, <3>2
  <2>3. \A j \in i..N : r[j + 1] = q[j]
    <3> SUFFICES ASSUME NEW j \in i..N PROVE r[j + 1] = q[j]
      OBVIOUS
    <3>1. j \in i - 1 + 1..Len(q) /\ j + 1 \in Int /\ j + 1 = i - 1 + Len(<<new>>) + j - (i - 1)
      BY <1>1, <1>2
    <3> QED BY <1>3, <3>1 DEF InPlaceOf
  <2> QED BY <2>1, <2>2, <2>3
<1>5. CASE k < i - 1
  <2>1. \A j \in 1..k : r[j].at[s] = q[j].at[s]
    BY <1>1, <1>4, <1>5
  <2>2. LinesIn(r, s, 1, k, 0, n)
    BY <1>1, <2>1, LinesSame
  <2> QED BY <1>1, <1>5, <2>2 DEF r
<1>6. CASE k >= i - 1
  <2>1. PICK m \in Nat : LinesIn(q, s, 1, i - 1, 0, m) /\ LinesIn(q, s, i, k, m, n)
    <3>1. 1 <= i - 1 + 1 /\ i - 1 <= k
      BY <1>1, <1>6
    <3>2. \E m \in Nat : LinesIn(q, s, 1, i - 1, 0, m) /\ LinesIn(q, s, i - 1 + 1, k, m, n)
      BY <1>1, <3>1, LinesParted
    <3> QED BY <1>1, <3>2
  <2>2. LinesIn(r, s, 1, i - 1, 0, m)
    <3>1. \A j \in 1..i - 1 : r[j].at[s] = q[j].at[s]
      BY <1>4
    <3> QED BY <1>1, <2>1, <3>1, LinesSame
  <2>3. LinesIn(r, s, i, i, m, m)
    <3>1. i <= i + 1 /\ \A j \in i..i : r[j].at[s] = NoLine
      BY <1>1, <1>4
    <3> QED BY <1>1, <3>1, LinesNone
  <2>4. LinesIn(r, s, i + 1, k + 1, m, n)
    <3>1. i <= k + 1 /\ 1 \in Int /\ i + 1 \in Nat \ {0}
      BY <1>1, <1>6
    <3>2. \A j \in i..k : r[j + 1].at[s] = q[j].at[s]
      BY <1>1, <1>4
    <3> QED BY <1>1, <2>1, <3>1, <3>2, LinesMoved
  <2>5. LinesIn(r, s, 1, i, 0, m)
    <3>1. 1 <= i - 1 + 1 /\ i - 1 <= i /\ LinesIn(r, s, i - 1 + 1, i, m, m)
      BY <1>1, <2>3
    <3> QED BY <1>1, <2>2, <3>1, LinesJoined
  <2>6. LinesIn(r, s, 1, k + 1, 0, n)
    <3>1. 1 <= i + 1 /\ i <= k + 1 /\ k + 1 \in Nat
      BY <1>1, <1>6
    <3> QED BY <1>1, <2>4, <2>5, <3>1, LinesJoined
  <2> QED BY <1>6, <2>6 DEF r
<1> QED BY <1>1, <1>5, <1>6

LEMMA LoneMoved ==
    ASSUME NEW t, NEW nb \in Nat, NEW nc \in Nat, NEW b \in 0..nb - 1, NEW c \in Nat, BCFits(t, nb, nc, b, c)
    PROVE  BCFits(MoveLoneB(t, b + 1), nb, nc, b + 1, c)
<1> DEFINE rs == t.rows
           N == Len(rs)
           found == RowOfLine(rs, t.ib, "B", b + 1)
           u == MoveLoneB(t, b + 1)
<1>1. /\ rs \in Seq(RowType) /\ N \in Nat /\ t.ib \in 1..N + 1 /\ t.ic \in 1..N + 1 /\ t \in BCState
      /\ LinesIn(rs, "B", 1, N, 0, nb) /\ LinesIn(rs, "C", 1, N, 0, nc)
      /\ LinesIn(rs, "B", 1, t.ib - 1, 0, b)
      /\ \E m \in 0..c : LinesIn(rs, "C", 1, t.ic - 1, 0, m)
  <2>1. rs \in Seq(RowType) /\ t.ib \in Nat \ {0} /\ t.ic \in Nat \ {0} /\ t \in BCState
    BY DEF BCFits, BCState
  <2> QED BY <2>1, LenProperties DEF BCFits, BCLines, BCRead
<1>2. PICK m \in 0..c : LinesIn(rs, "C", 1, t.ic - 1, 0, m)
  BY <1>1
<1>3. /\ found \in t.ib..N /\ rs[found].at["B"] = b + 1 /\ LinesIn(rs, "B", 1, found, 0, b + 1)
      /\ \A y \in t.ib..found - 1 : rs[y].at["B"] = NoLine
  <2>1. b + 1 \in b + 1..nb /\ b \in Nat
    OBVIOUS
  <2> HIDE DEF rs
  <2>2. Ahead(found, rs, "B", t.ib, b, b + 1)
    BY ONLY nb \in Nat, <1>1, <2>1, LineAhead
  <2> HIDE DEF found
  <2> QED BY <2>2 DEF Ahead
<1> DEFINE w == [rs EXCEPT ![found].at["B"] = NoLine]
           new == Row(NoLine, b + 1, NoLine, {})
           r == InsertRows(w, t.ib, <<new>>)
           ic == IF t.ic >= t.ib THEN t.ic + 1 ELSE t.ic
<1>4. u = IF found # t.ib /\ AB \notin rs[found].eq
          THEN [rows |-> r, ib |-> t.ib + 2, ic |-> ic]
          ELSE [t EXCEPT !.ib = found + 1]
  BY DEF MoveLoneB
<1> HIDE DEF found, u
<1>5. CASE ~(found # t.ib /\ AB \notin rs[found].eq)
  <2>1. u = [t EXCEPT !.ib = found + 1]
    BY <1>4, <1>5
  <2>2. found \in Nat /\ found <= N
    BY <1>1, <1>3
  <2>3. u.rows = rs /\ u.ib = found + 1 /\ u.ic = t.ic /\ u \in BCState
    <3>1. t = [rows |-> rs, ib |-> t.ib, ic |-> t.ic] /\ found + 1 \in Nat \ {0} /\ t.ic \in Nat \ {0}
      BY <1>1, <2>2 DEF BCState
    <3>2. u = [rows |-> rs, ib |-> found + 1, ic |-> t.ic]
      BY <2>1, <3>1
    <3> QED BY <1>1, <3>1, <3>2 DEF BCState
  <2>4. BCLines(u, nb, nc)
    BY <1>1, <2>3 DEF BCLines
  <2>5. BCRead(u, b + 1, c)
    <3>1. found + 1 - 1 = found /\ found + 1 <= N + 1
      BY <2>2
    <3> QED BY <1>1, <1>2, <1>3, <2>3, <3>1 DEF BCRead
  <2> QED BY <2>3, <2>4, <2>5 DEF BCFits, u
<1>6. CASE found # t.ib /\ AB \notin rs[found].eq
  <2>1. u = [rows |-> r, ib |-> t.ib + 2, ic |-> ic]
    BY <1>4, <1>6
  <2>2. /\ 1 \in Nat \ {0} /\ t.ib \in Nat \ {0} /\ t.ib < found /\ found <= N /\ found \in 1..N
        /\ t.ib \in 1..N /\ t.ib - 1 \in Nat /\ t.ib - 1 + 1 = t.ib /\ found \in Nat
    <3>1. found \in t.ib..N
      BY <1>3
    <3> QED BY ONLY <1>1, <1>6, <3>1, SMTT(30)
  <2>3. /\ w \in Seq(RowType) /\ Len(w) = N /\ w[found].at["B"] = NoLine
        /\ w[found].at["C"] = rs[found].at["C"]
        /\ \A k \in 1..N : k # found => w[k] = rs[k]
    <3> DEFINE x == [rs[found] EXCEPT !.at["B"] = NoLine]
    <3>1. x \in RowType /\ x.at["B"] = NoLine /\ x.at["C"] = rs[found].at["C"]
      <4>1. rs[found] \in RowType
        BY <1>1, <2>2, ElementOfSeq
      <4> QED BY <4>1 DEF RowType, Sides, NoLine
    <3>2. w = [rs EXCEPT ![found] = x]
      OBVIOUS
    <3> HIDE DEF x, w
    <3>3. w \in Seq(RowType) /\ Len(w) = N /\ w[found] = x /\ \A k \in 1..N : k # found => w[k] = rs[k]
      BY ONLY <1>1, <2>2, <3>1, <3>2, ExceptSeq
    <3> QED BY <3>1, <3>3
  <2> HIDE DEF w
  <2>4. new \in RowType /\ new.at["B"] = b + 1 /\ new.at["C"] = NoLine
    <3>1. NoLine \in Nat /\ b + 1 \in Nat /\ {} \in SUBSET Pairs
      BY DEF NoLine
    <3> QED BY <3>1, RowMade
  <2> HIDE DEF new, rs
  <2>5. /\ <<new>> \in Seq(RowType) /\ Len(<<new>>) = 1 /\ <<new>>[1] = new
        /\ t.ib \in 1..Len(w) + 1
    BY <2>2, <2>3, <2>4
  <2>6. InPlaceOf(r, w, <<new>>, t.ib, t.ib - 1, RowType)
    BY <2>3, <2>5, Inserted
  <2>7. r \in Seq(RowType) /\ Len(r) = N + 1 /\ r[t.ib + 1] = w[t.ib]
    <3>1. Len(r) = t.ib - 1 + 1 + N - (t.ib - 1) /\ r \in Seq(RowType)
      BY <2>3, <2>5, <2>6 DEF InPlaceOf
    <3>2. t.ib \in t.ib - 1 + 1..Len(w) /\ t.ib + 1 \in Int /\ t.ib + 1 = t.ib - 1 + Len(<<new>>) + t.ib - (t.ib - 1)
      BY <2>2, <2>3, <2>5
    <3>3. r[t.ib + 1] = w[t.ib]
      BY <2>6, <3>2 DEF InPlaceOf
    <3>4. t.ib - 1 + 1 + N - (t.ib - 1) = N + 1
      <4>1. t.ib \in Nat /\ N \in Nat
        BY <1>1, <2>2
      <4> QED BY ONLY <4>1
    <3> QED BY <3>1, <3>3, <3>4
  <2>8. LinesIn(w, "B", 1, t.ib - 1, 0, b)
    <3>1. \A k \in 1..t.ib - 1 : w[k].at["B"] = rs[k].at["B"]
      <4>1. \A k \in 1..t.ib - 1 : k \in 1..N /\ k # found
        BY ONLY <1>1, <2>2
      <4> QED BY ONLY <2>3, <4>1
    <3> QED BY <1>1, <2>2, <3>1, LinesSame
  <2>9. LinesIn(w, "B", t.ib, N, b + 1, nb)
    <3>1. LinesIn(rs, "B", found + 1, N, b + 1, nb)
      <4>1. 1 <= found + 1
        BY <2>2
      <4>2. PICK p \in Nat : LinesIn(rs, "B", 1, found, 0, p) /\ LinesIn(rs, "B", found + 1, N, p, nb)
        BY <1>1, <2>2, <4>1, LinesParted
      <4>3. p = b + 1
        BY <1>3, <2>2, <4>1, <4>2, LinesWell
      <4> QED BY <4>2, <4>3
    <3>2. t.ib \in 1..N + 1 /\ found + 1 \in t.ib..N + 1 /\ b + 1 \in Nat
      BY <2>2
    <3>3. \A k \in t.ib..found + 1 - 1 : w[k].at["B"] = NoLine
      <4> SUFFICES ASSUME NEW k \in t.ib..found + 1 - 1 PROVE w[k].at["B"] = NoLine
        OBVIOUS
      <4>1. CASE k = found
        BY <2>3, <4>1
      <4>2. CASE k # found
        <5>1. k \in t.ib..found - 1 /\ k \in 1..N
          BY <2>2, <4>2
        <5> QED BY <1>3, <2>3, <4>2, <5>1
      <4> QED BY <4>1, <4>2
    <3>4. \A k \in found + 1..N : w[k].at["B"] = rs[k].at["B"]
      BY <2>2, <2>3
    <3>5. LinesIn(w, "B", t.ib, found, b + 1, b + 1)
      <4>1. t.ib \in Nat \ {0} /\ found \in Nat /\ t.ib <= found + 1 /\ b + 1 \in Nat /\ found + 1 - 1 = found
        BY ONLY <1>1, <2>2, nb \in Nat, b \in 0..nb - 1
      <4> QED BY <3>3, <4>1, LinesNone
    <3>6. LinesIn(w, "B", found + 1, N, b + 1, nb)
      <4>1. found + 1 \in Nat \ {0} /\ N \in Nat
        BY <1>1, <2>2
      <4> QED BY <3>1, <3>4, <4>1, LinesSame
    <3>7. t.ib \in Nat \ {0} /\ found \in Nat /\ N \in Nat /\ t.ib <= found + 1 /\ found <= N
      BY ONLY <1>1, <2>2
    <3> QED BY ONLY <3>5, <3>6, <3>7, LinesJoined
  <2>10. LinesIn(<<new>>, "B", 1, Len(<<new>>), b, b + 1)
    <3>1. 1 \in Nat /\ 1 <= 1 + 1 /\ b \in Nat /\ \A k \in 1..1 : <<new>>[k].at["B"] = b + k - 1 + 1
      BY <2>4, <2>5
    <3>2. LinesIn(<<new>>, "B", 1, 1, b, b + 1 - 1 + 1)
      BY <2>2, <3>1, LinesEach
    <3>3. b + 1 - 1 + 1 = b + 1
      OBVIOUS
    <3> QED BY <2>5, <3>2, <3>3
  <2>11. LinesIn(r, "B", 1, t.ib - 1 + Len(<<new>>), 0, b + 1) /\ LinesIn(r, "B", 1, Len(r), 0, nb)
    BY <2>3, <2>5, <2>8, <2>9, <2>10, LinesInserted
  <2> HIDE DEF r, ic
  <2>12. LinesIn(r, "B", 1, t.ib + 1, 0, b + 1)
    <3>1. t.ib - 1 + Len(<<new>>) = t.ib
      BY <2>2, <2>5
    <3>2. LinesIn(r, "B", t.ib + 1, t.ib + 1, b + 1, b + 1)
      <4>1. t.ib \in t.ib..found - 1 /\ t.ib # found
        BY <2>2
      <4>2. w[t.ib].at["B"] = NoLine
        BY <1>3, <2>2, <2>3, <4>1
      <4>3. \A k \in t.ib + 1..t.ib + 1 : r[k].at["B"] = NoLine
        <5>1. t.ib + 1..t.ib + 1 = {t.ib + 1}
          BY <2>2
        <5> QED BY <2>7, <4>2, <5>1
      <4>4. t.ib + 1 \in Nat \ {0} /\ t.ib + 1 \in Nat /\ t.ib + 1 <= t.ib + 1 + 1 /\ b + 1 \in Nat
        BY <2>2
      <4> QED BY <4>3, <4>4, LinesNone
    <3>3. LinesIn(r, "B", 1, t.ib, 0, b + 1) /\ 1 <= t.ib + 1 /\ t.ib <= t.ib + 1 /\ t.ib \in Nat /\ t.ib + 1 \in Nat
      BY <2>2, <2>11, <3>1
    <3> QED BY <2>2, <3>2, <3>3, LinesJoined
  <2>13. \A n : \A k \in 0..N : LinesIn(rs, "C", 1, k, 0, n) => LinesIn(r, "C", 1, IF k >= t.ib - 1 THEN k + 1 ELSE k, 0, n)
    <3>1. \A k \in 1..N : w[k].at["C"] = rs[k].at["C"]
      <4> SUFFICES ASSUME NEW k \in 1..N PROVE w[k].at["C"] = rs[k].at["C"]
        OBVIOUS
      <4>1. CASE k = found
        BY <2>3, <4>1
      <4>2. CASE k # found
        BY <2>3, <4>2
      <4> QED BY <4>1, <4>2
    <3>2. \A n : \A k \in 0..N : LinesIn(rs, "C", 1, k, 0, n) => LinesIn(w, "C", 1, k, 0, n)
      BY <1>1, <2>3, <3>1, SameLinesBC
    <3> SUFFICES ASSUME NEW n, NEW k \in 0..N, LinesIn(rs, "C", 1, k, 0, n)
                 PROVE  LinesIn(r, "C", 1, IF k >= t.ib - 1 THEN k + 1 ELSE k, 0, n)
      OBVIOUS
    <3>3. LinesIn(w, "C", 1, k, 0, n) /\ k \in 0..Len(w)
      BY <2>3, <3>2
    <3> QED BY <2>3, <2>4, <2>5, <3>3, LinesShifted DEF r
  <2>14. LinesIn(r, "C", 1, Len(r), 0, nc)
    <3>1. N \in 0..N /\ N >= t.ib - 1
      BY <1>1, <2>2
    <3> QED BY <1>1, <2>7, <2>13, <3>1
  <2>15. LinesIn(r, "C", 1, ic - 1, 0, m) /\ ic \in 1..N + 2
    <3>0. t.ic \in Nat /\ t.ic >= 1 /\ t.ic <= N + 1 /\ N \in Nat /\ t.ib \in Nat
      BY <1>1, <2>2
    <3>1. t.ic - 1 \in 0..N /\ ic \in 1..N + 2
      BY ONLY <3>0 DEF ic
    <3>2. ic - 1 = IF t.ic - 1 >= t.ib - 1 THEN t.ic - 1 + 1 ELSE t.ic - 1
      BY ONLY <3>0 DEF ic
    <3> QED BY <1>2, <2>13, <3>1, <3>2
  <2>16. u.rows = r /\ u.ib = t.ib + 2 /\ u.ic = ic /\ u \in BCState
    <3>1. t.ib + 2 \in Nat \ {0} /\ ic \in Nat \ {0} /\ r \in Seq(RowType)
      <4>1. t.ib \in Nat /\ N \in Nat /\ ic \in 1..N + 2
        BY <1>1, <2>2, <2>15
      <4>2. t.ib + 2 \in Nat \ {0} /\ ic \in Nat \ {0}
        BY ONLY <4>1
      <4> QED BY <2>7, <4>2
    <3> QED BY ONLY <2>1, <3>1 DEF BCState
  <2>17. BCLines(u, nb, nc)
    BY <2>11, <2>14, <2>16 DEF BCLines
  <2>18. BCRead(u, b + 1, c)
    <3>1. t.ib + 2 - 1 = t.ib + 1 /\ t.ib + 2 <= Len(r) + 1 /\ ic <= Len(r) + 1
      <4>1. t.ib \in Nat /\ t.ib <= N /\ N \in Nat /\ ic \in 1..N + 2 /\ Len(r) = N + 1
        <5>1. ic \in 1..N + 2
          BY ONLY <2>15
        <5>2. Len(r) = N + 1
          BY ONLY <2>7
        <5> QED BY ONLY <1>1, <2>2, <5>1, <5>2
      <4> QED BY ONLY <4>1
    <3>2. m \in 0..c
      BY <1>2
    <3>3. u.ib <= Len(u.rows) + 1 /\ u.ic <= Len(u.rows) + 1 /\ u.ib - 1 = t.ib + 1 /\ u.ic - 1 = ic - 1
      <4>1. t.ib \in Nat /\ N \in Nat /\ ic \in 1..N + 2 /\ Len(r) = N + 1 /\ Len(u.rows) = Len(r)
        <5>1. ic \in 1..N + 2
          BY ONLY <2>15
        <5>2. Len(r) = N + 1 /\ u.rows = r
          BY ONLY <2>7, <2>16
        <5> QED BY ONLY <1>1, <2>2, <5>1, <5>2
      <4> QED BY ONLY <2>16, <3>1, <4>1
    <3>4. LinesIn(u.rows, "B", 1, u.ib - 1, 0, b + 1) /\ LinesIn(u.rows, "C", 1, u.ic - 1, 0, m)
      BY ONLY <2>12, <2>15, <2>16, <3>3
    <3> QED BY ONLY <3>2, <3>3, <3>4 DEF BCRead
  <2> QED BY <2>16, <2>17, <2>18 DEF BCFits, u
<1> QED BY <1>5, <1>6

\* One Diff: its equal line, then the lines of B that are not matched.
LEMMA DiffAligned ==
    ASSUME NEW t, NEW nb \in Nat, NEW nc \in Nat, NEW b \in Nat, NEW c \in Nat, NEW d \in DiffType,
           BCFits(t, nb, nc, b, c), b + d.eq + d.d1 <= nb, c + d.eq <= nc
    PROVE  BCFits(AlignDiff(t, d, b, c), nb, nc, b + d.eq + d.d1, c + d.eq + d.d2)
<1> DEFINE n == d.d1
           b0 == b + d.eq
           c0 == c + d.eq
           a == IF d.eq = 0 THEN t ELSE AlignEqual(t, b + 1, c + 1)
           G == [z \in BCState \X (1..n) |->
                    IF BCFits(z[1], nb, nc, b0 + z[2] - 1, c0) THEN MoveLoneB(z[1], b0 + z[2]) ELSE z[1]]
           Is(f) == f = [k \in 0..n |->
                           IF k > 0 THEN MoveLoneB(f[k - 1], b + d.eq + k)
                           ELSE IF d.eq = 0 THEN t ELSE AlignEqual(t, b + 1, c + 1)]
           f == CHOOSE g : Is(g)
<1>1. d.eq \in {0, 1} /\ n \in Nat /\ d.d2 \in Nat /\ b0 \in Nat /\ c0 \in Nat /\ b0 + n <= nb
  BY DEF DiffType
<1>2. BCFits(a, nb, nc, b0, c0)
  <2>1. CASE d.eq = 0
    <3>1. a = t /\ b0 = b /\ c0 = c
      BY <2>1
    <3> QED BY <3>1
  <2>2. CASE d.eq = 1
    <3>1. b \in 0..nb - 1 /\ c \in 0..nc - 1
      BY <1>1, <2>2
    <3>2. BCFits(AlignEqual(t, b + 1, c + 1), nb, nc, b + 1, c + 1)
      BY <3>1, EqualAligned
    <3>3. a = AlignEqual(t, b + 1, c + 1) /\ b0 = b + 1 /\ c0 = c + 1
      BY <2>2
    <3> QED BY <3>2, <3>3
  <2> QED BY <1>1, <2>1, <2>2
<1> HIDE DEF n, b0, c0
<1>3. ASSUME NEW x, NEW k \in 1..n, BCFits(x, nb, nc, b0 + k - 1, c0)
      PROVE  BCFits(MoveLoneB(x, b0 + k), nb, nc, b0 + k, c0)
  <2>1. b0 + k - 1 \in 0..nb - 1 /\ b0 + k - 1 + 1 = b0 + k
    BY <1>1
  <2>2. BCFits(MoveLoneB(x, b0 + k - 1 + 1), nb, nc, b0 + k - 1 + 1, c0)
    BY <1>1, <1>3, <2>1, LoneMoved
  <2> QED BY <2>1, <2>2
<1>4. \A x \in BCState, k \in 1..n :
         /\ G[<<x, k>>] = IF BCFits(x, nb, nc, b0 + k - 1, c0) THEN MoveLoneB(x, b0 + k) ELSE x
         /\ G[<<x, k>>] \in BCState
  <2> HIDE DEF G
  <2> TAKE x \in BCState, k \in 1..n
  <2>1. G[<<x, k>>] = IF BCFits(x, nb, nc, b0 + k - 1, c0) THEN MoveLoneB(x, b0 + k) ELSE x
    BY DEF G
  <2>2. BCFits(x, nb, nc, b0 + k - 1, c0) => MoveLoneB(x, b0 + k) \in BCState
    BY <1>3 DEF BCFits
  <2> QED BY <2>1, <2>2
<1> HIDE DEF G
<1>5. a \in BCState
  BY <1>2 DEF BCFits
<1>6. PICK g : /\ g = [k \in 0..n |-> IF k = 0 THEN a ELSE G[<<g[k - 1], k>>]]
               /\ g \in [0..n -> BCState]
  <2> HIDE DEF a
  <2>1. n \in Nat /\ \A x \in BCState, k \in 1..n : G[<<x, k>>] \in BCState
    BY <1>1, <1>4
  <2> QED BY ONLY <1>5, <2>1, RecursionExists
<1> HIDE DEF a
<1>7. g[0] = a /\ \A k \in 1..n : g[k] = G[<<g[k - 1], k>>] /\ g[k - 1] \in BCState
  <2>1. 0 \in 0..n /\ \A k \in 1..n : k \in 0..n /\ k - 1 \in 0..n /\ k # 0
    BY <1>1
  <2> QED BY <1>6, <2>1
<1> DEFINE T == {k \in Nat : k <= n => BCFits(g[k], nb, nc, b0 + k, c0)}
<1>8. 0 \in T
  <2>1. b0 + 0 = b0
    BY <1>1
  <2> QED BY <1>2, <1>7, <2>1
<1>9. ASSUME NEW k \in Nat, k \in T PROVE k + 1 \in T
  <2> SUFFICES ASSUME k + 1 <= n PROVE BCFits(g[k + 1], nb, nc, b0 + (k + 1), c0)
    OBVIOUS
  <2>1. k + 1 \in 1..n /\ k + 1 - 1 = k /\ k <= n /\ b0 + (k + 1) - 1 = b0 + k
    BY <1>1
  <2>2. BCFits(g[k], nb, nc, b0 + k, c0)
    BY <1>9, <2>1
  <2>3. g[k + 1] = G[<<g[k], k + 1>>] /\ g[k] \in BCState
    BY <1>7, <2>1
  <2>4. g[k + 1] = MoveLoneB(g[k], b0 + (k + 1))
    BY <1>4, <2>1, <2>2, <2>3
  <2>5. BCFits(g[k], nb, nc, b0 + (k + 1) - 1, c0)
    BY <2>1, <2>2
  <2> QED BY <1>3, <2>1, <2>4, <2>5
<1> HIDE DEF T
<1>10. \A k \in Nat : k \in T
  BY <1>8, <1>9, SetInduction
<1>11. \A k \in 0..n : BCFits(g[k], nb, nc, b0 + k, c0)
  <2> SUFFICES ASSUME NEW k \in 0..n PROVE BCFits(g[k], nb, nc, b0 + k, c0)
    OBVIOUS
  <2>1. k \in Nat /\ k <= n
    BY <1>1
  <2> QED BY <1>10, <2>1 DEF T
<1>12. Is(g)
  <2>1. \A k \in 0..n : k > 0 => g[k] = MoveLoneB(g[k - 1], b + d.eq + k)
    <3> SUFFICES ASSUME NEW k \in 0..n, k > 0 PROVE g[k] = MoveLoneB(g[k - 1], b + d.eq + k)
      OBVIOUS
    <3>1. k \in 1..n /\ k - 1 \in 0..n /\ b0 + (k - 1) = b0 + k - 1
      BY <1>1
    <3>2. BCFits(g[k - 1], nb, nc, b0 + k - 1, c0)
      <4>1. BCFits(g[k - 1], nb, nc, b0 + (k - 1), c0)
        BY <1>11, <3>1
      <4> QED BY <3>1, <4>1
    <3>3. g[k] = MoveLoneB(g[k - 1], b0 + k)
      BY <1>4, <1>7, <3>1, <3>2
    <3> QED BY <3>3 DEF b0
  <2>2. g = [k \in 0..n |-> g[k]]
    BY <1>6
  <2>3. g[0] = IF d.eq = 0 THEN t ELSE AlignEqual(t, b + 1, c + 1)
    BY <1>7 DEF a
  <2>4. \A k \in 0..n : g[k] = IF k > 0 THEN MoveLoneB(g[k - 1], b + d.eq + k)
                               ELSE IF d.eq = 0 THEN t ELSE AlignEqual(t, b + 1, c + 1)
    <3> SUFFICES ASSUME NEW k \in 0..n
                 PROVE g[k] = IF k > 0 THEN MoveLoneB(g[k - 1], b + d.eq + k)
                               ELSE IF d.eq = 0 THEN t ELSE AlignEqual(t, b + 1, c + 1)
      OBVIOUS
    <3>1. CASE k > 0
      BY <2>1, <3>1
    <3>2. CASE ~(k > 0)
      <4>1. k = 0
        BY <1>1, <3>2
      <4> QED BY <2>3, <3>2, <4>1
    <3> QED BY <3>1, <3>2
  <2> QED BY <2>2, <2>4
<1>13. Is(f)
  BY <1>12
<1>14. AlignDiff(t, d, b, c) = f[n]
  BY DEF AlignDiff, n
<1> HIDE DEF f
\* The function that AlignDiff() defines goes the same way.
<1>15. f[0] = a /\ \A k \in 1..n : f[k] = MoveLoneB(f[k - 1], b0 + k)
  <2>1. 0 \in 0..n /\ ~(0 > 0) /\ \A k \in 1..n : k \in 0..n /\ k > 0
    BY <1>1
  <2> QED BY <1>13, <2>1 DEF a, b0
<1> DEFINE U == {k \in Nat : k <= n => BCFits(f[k], nb, nc, b0 + k, c0)}
<1>16. 0 \in U
  <2>1. b0 + 0 = b0
    BY <1>1
  <2> QED BY <1>2, <1>15, <2>1
<1>17. ASSUME NEW k \in Nat, k \in U PROVE k + 1 \in U
  <2> SUFFICES ASSUME k + 1 <= n PROVE BCFits(f[k + 1], nb, nc, b0 + (k + 1), c0)
    OBVIOUS
  <2>1. k + 1 \in 1..n /\ k + 1 - 1 = k /\ k <= n /\ b0 + (k + 1) - 1 = b0 + k
    BY <1>1
  <2>2. BCFits(f[k], nb, nc, b0 + (k + 1) - 1, c0)
    BY <1>17, <2>1
  <2>3. f[k + 1] = MoveLoneB(f[k], b0 + (k + 1))
    BY <1>15, <2>1
  <2> QED BY <1>3, <2>1, <2>2, <2>3
<1> HIDE DEF U
<1>18. \A k \in Nat : k \in U
  BY <1>16, <1>17, SetInduction
<1>19. BCFits(f[n], nb, nc, b0 + n, c0)
  <2>1. n \in U /\ n <= n
    BY <1>1, <1>18
  <2> QED BY <2>1 DEF U
<1>20. BCFits(f[n], nb, nc, b + d.eq + d.d1, c + d.eq + d.d2)
  <2>1. BCRead(f[n], b0 + n, c0)
    BY <1>19 DEF BCFits
  <2>2. \A m \in 0..c0 : m \in 0..c0 + d.d2
    BY <1>1
  <2>3. BCRead(f[n], b0 + n, c0 + d.d2)
    BY <2>1, <2>2 DEF BCRead
  <2> QED BY <1>19, <2>3 DEF BCFits, b0, c0, n
<1> QED BY <1>14, <1>20

-----------------------------------------------------------------------------
(* The lists of Diffs.                                                       *)

\* The equal line of a Diff is equal, and the lines that differ do so side by side
\* when the diff tries hard.
Fits(hard, f, g, d, a, b) ==
    /\ d.eq = 1 => f[a + 1] = g[b + 1]
    /\ hard => \A j \in 1..d.d1 : j <= d.d2 => f[a + d.eq + j] # g[b + d.eq + j]

\* u and v count the lines of f and of g that the Diffs account for.
Walk(hard, u, v, ds, f, g, x, y) ==
    /\ u \in [0..Len(ds) -> 0..x] /\ v \in [0..Len(ds) -> 0..y]
    /\ \A k \in 1..Len(ds) : /\ u[k] = u[k - 1] + ds[k].eq + ds[k].d1
                             /\ v[k] = v[k - 1] + ds[k].eq + ds[k].d2
                             /\ Fits(hard, f, g, ds[k], u[k - 1], v[k - 1])

\* From lines a and b the Diffs lead to lines x and y.
Leads(hard, ds, f, g, a, b, x, y) ==
    /\ ds \in Seq(DiffType) /\ x \in Nat /\ y \in Nat
    /\ \E u, v : /\ Walk(hard, u, v, ds, f, g, x, y)
                 /\ u[0] = a /\ v[0] = b /\ u[Len(ds)] = x /\ v[Len(ds)] = y

\* The first Diff of a list, and where the others lead.
FirstLeads(hard, ds, f, g, a, b, x, y) ==
    LET d == Head(ds)
    IN /\ d \in DiffType /\ Fits(hard, f, g, d, a, b)
       /\ a \in Nat /\ b \in Nat /\ a + d.eq + d.d1 <= x /\ b + d.eq + d.d2 <= y
       /\ Leads(hard, Tail(ds), f, g, a + d.eq + d.d1, b + d.eq + d.d2, x, y)

LEMMA LeadsOn ==
    ASSUME NEW hard, NEW ds, NEW f, NEW g, NEW a, NEW b, NEW x, NEW y, Leads(hard, ds, f, g, a, b, x, y)
    PROVE  /\ ds = <<>> => a = x /\ b = y
           /\ ds # <<>> => FirstLeads(hard, ds, f, g, a, b, x, y)
           /\ a \in Nat /\ b \in Nat /\ a <= x /\ b <= y /\ x \in Nat /\ y \in Nat /\ ds \in Seq(DiffType)
<1>1. ds \in Seq(DiffType) /\ Len(ds) \in Nat /\ x \in Nat /\ y \in Nat
  BY LenProperties DEF Leads
<1>2. PICK u, v : /\ Walk(hard, u, v, ds, f, g, x, y)
                  /\ u[0] = a /\ v[0] = b /\ u[Len(ds)] = x /\ v[Len(ds)] = y
  BY DEF Leads
<1> DEFINE n == Len(ds)
<1>3. /\ \A k \in 0..n : u[k] \in 0..x /\ v[k] \in 0..y
      /\ \A k \in 1..n : /\ u[k] = u[k - 1] + ds[k].eq + ds[k].d1
                         /\ v[k] = v[k - 1] + ds[k].eq + ds[k].d2
                         /\ Fits(hard, f, g, ds[k], u[k - 1], v[k - 1])
  BY <1>2 DEF Walk
<1>4. a \in 0..x /\ b \in 0..y
  <2>1. 0 \in 0..n
    BY <1>1
  <2> QED BY <1>2, <1>3, <2>1
<1>5. ds = <<>> => a = x /\ b = y
  BY <1>2
<1>6. ASSUME ds # <<>> PROVE FirstLeads(hard, ds, f, g, a, b, x, y)
  <2> DEFINE d == Head(ds)
             t == Tail(ds)
             p == a + d.eq + d.d1
             q == b + d.eq + d.d2
             U == [k \in 0..n - 1 |-> u[k + 1]]
             V == [k \in 0..n - 1 |-> v[k + 1]]
  <2>1. /\ d = ds[1] /\ t \in Seq(DiffType) /\ Len(t) = n - 1 /\ n \in Nat \ {0}
        /\ \A k \in 1..n - 1 : t[k] = ds[k + 1]
    BY <1>1, <1>6, EmptySeq, HeadTailProperties
  <2>2. d \in DiffType
    BY <1>1, <2>1, ElementOfSeq
  <2>3. 1 \in 1..n /\ 1 - 1 = 0 /\ 1 \in 0..n
    BY <2>1
  <2>4. u[1] = p /\ v[1] = q /\ Fits(hard, f, g, d, a, b)
    BY <1>2, <1>3, <2>1, <2>3
  <2>5. p <= x /\ q <= y
    BY <1>1, <1>3, <2>3, <2>4
  <2> HIDE DEF d, t, p, q
  <2>6. \A k \in 0..n - 1 : k + 1 \in 0..n /\ U[k] = u[k + 1] /\ V[k] = v[k + 1]
    BY <2>1
  <2>7. U \in [0..n - 1 -> 0..x] /\ V \in [0..n - 1 -> 0..y]
    BY <1>3, <2>6
  <2> HIDE DEF U, V
  <2>8. \A k \in 1..Len(t) : /\ U[k] = U[k - 1] + t[k].eq + t[k].d1
                             /\ V[k] = V[k - 1] + t[k].eq + t[k].d2
                             /\ Fits(hard, f, g, t[k], U[k - 1], V[k - 1])
    <3> SUFFICES ASSUME NEW k \in 1..n - 1
                 PROVE  /\ U[k] = U[k - 1] + t[k].eq + t[k].d1
                        /\ V[k] = V[k - 1] + t[k].eq + t[k].d2
                        /\ Fits(hard, f, g, t[k], U[k - 1], V[k - 1])
      BY <2>1
    <3>1. k \in 0..n - 1 /\ k - 1 \in 0..n - 1 /\ k + 1 \in 1..n /\ k + 1 - 1 = k /\ k - 1 + 1 = k
      BY <2>1
    <3>2. t[k] = ds[k + 1] /\ U[k] = u[k + 1] /\ V[k] = v[k + 1] /\ U[k - 1] = u[k] /\ V[k - 1] = v[k]
      BY <2>1, <2>6, <3>1
    <3> QED BY <1>3, <3>1, <3>2
  <2>9. U[0] = p /\ V[0] = q /\ U[Len(t)] = x /\ V[Len(t)] = y
    <3>1. 0 \in 0..n - 1 /\ n - 1 \in 0..n - 1 /\ n - 1 + 1 = n /\ 0 + 1 = 1
      BY <2>1
    <3> QED BY <1>2, <2>1, <2>4, <2>6, <3>1
  <2>10. Walk(hard, U, V, t, f, g, x, y)
    BY <2>1, <2>7, <2>8 DEF Walk
  <2>11. Leads(hard, t, f, g, p, q, x, y)
    BY <1>1, <2>1, <2>9, <2>10 DEF Leads
  <2> QED BY <1>4, <2>2, <2>4, <2>5, <2>11 DEF FirstLeads, d, t, p, q
<1> QED BY <1>1, <1>4, <1>5, <1>6

LEMMA LeadsNowhere ==
    ASSUME NEW hard, NEW f, NEW g, NEW a \in Nat, NEW b \in Nat
    PROVE  Leads(hard, <<>>, f, g, a, b, a, b)
<1> DEFINE u == [k \in 0..0 |-> a]
           v == [k \in 0..0 |-> b]
<1>1. Walk(hard, u, v, <<>>, f, g, a, b) /\ u[0] = a /\ v[0] = b
  BY DEF Walk
<1> QED BY <1>1 DEF Leads

LEMMA LeadsJoined ==
    ASSUME NEW hard, NEW ds, NEW es, NEW f, NEW g, NEW a, NEW b, NEW p, NEW q, NEW x, NEW y,
           Leads(hard, ds, f, g, a, b, p, q), Leads(hard, es, f, g, p, q, x, y)
    PROVE  Leads(hard, ds \o es, f, g, a, b, x, y)
<1> DEFINE n == Len(ds)
           m == Len(es)
           r == ds \o es
<1>1. /\ ds \in Seq(DiffType) /\ n \in Nat /\ es \in Seq(DiffType) /\ m \in Nat
      /\ p \in Nat /\ q \in Nat /\ x \in Nat /\ y \in Nat
  BY LenProperties DEF Leads
<1>2. /\ r \in Seq(DiffType) /\ Len(r) = n + m
      /\ \A k \in 1..n : r[k] = ds[k]
      /\ \A k \in 1..m : r[n + k] = es[k]
  BY <1>1, ConcatParts
<1>3. PICK u, v : Walk(hard, u, v, ds, f, g, p, q) /\ u[0] = a /\ v[0] = b /\ u[n] = p /\ v[n] = q
  BY DEF Leads
<1>4. PICK u2, v2 : Walk(hard, u2, v2, es, f, g, x, y) /\ u2[0] = p /\ v2[0] = q /\ u2[m] = x /\ v2[m] = y
  BY DEF Leads
<1> DEFINE U == [k \in 0..n + m |-> IF k <= n THEN u[k] ELSE u2[k - n]]
           V == [k \in 0..n + m |-> IF k <= n THEN v[k] ELSE v2[k - n]]
<1>5. /\ \A k \in 0..n : u[k] \in 0..p /\ v[k] \in 0..q
      /\ \A k \in 0..m : u2[k] \in 0..x /\ v2[k] \in 0..y
  BY <1>3, <1>4 DEF Walk
<1>6. p <= x /\ q <= y
  <2>1. 0 \in 0..m
    BY <1>1
  <2> QED BY <1>1, <1>4, <1>5, <2>1
<1> HIDE DEF r
<1>7. /\ \A k \in 0..n : U[k] = u[k] /\ V[k] = v[k]
      /\ \A k \in 0..m : U[n + k] = u2[k] /\ V[n + k] = v2[k]
  <2>1. \A k \in 0..n : U[k] = u[k] /\ V[k] = v[k]
    BY <1>1
  <2>2. ASSUME NEW k \in 0..m PROVE U[n + k] = u2[k] /\ V[n + k] = v2[k]
    <3>1. n + k \in 0..n + m /\ n + k - n = k /\ (n + k <= n => k = 0 /\ n + k = n)
      BY <1>1
    <3>2. CASE k = 0
      BY <1>3, <1>4, <3>1, <3>2
    <3>3. CASE k # 0
      BY <3>1, <3>3
    <3> QED BY <3>2, <3>3
  <2> QED BY <2>1, <2>2
<1>8. U \in [0..n + m -> 0..x] /\ V \in [0..n + m -> 0..y]
  <2>1. ASSUME NEW k \in 0..n + m PROVE U[k] \in 0..x /\ V[k] \in 0..y
    <3>1. CASE k <= n
      <4>1. k \in 0..n
        BY <3>1
      <4>2. U[k] \in 0..p /\ V[k] \in 0..q
        BY <1>5, <1>7, <4>1
      <4> HIDE DEF U, V
      <4> QED BY <1>1, <1>6, <4>2
    <3>2. CASE ~(k <= n)
      <4>1. k - n \in 0..m /\ n + (k - n) = k
        BY <1>1, <3>2
      <4> HIDE DEF U, V
      <4> QED BY <1>5, <1>7, <4>1
    <3> QED BY <3>1, <3>2
  <2> QED BY <2>1
<1> HIDE DEF U, V
<1>9. ASSUME NEW k \in 1..Len(r)
      PROVE  /\ U[k] = U[k - 1] + r[k].eq + r[k].d1
             /\ V[k] = V[k - 1] + r[k].eq + r[k].d2
             /\ Fits(hard, f, g, r[k], U[k - 1], V[k - 1])
  <2>1. CASE k <= n
    <3>1. k \in 1..n /\ k \in 0..n /\ k - 1 \in 0..n
      BY <1>1, <1>2, <2>1
    <3> QED BY <1>2, <1>3, <1>7, <3>1 DEF Walk
  <2>2. CASE ~(k <= n)
    <3> DEFINE j == k - n
    <3>1. j \in 1..m /\ j \in 0..m /\ j - 1 \in 0..m /\ n + j = k /\ n + (j - 1) = k - 1
      BY <1>1, <1>2, <2>2
    <3> HIDE DEF j
    <3>2. r[k] = es[j] /\ U[k] = u2[j] /\ V[k] = v2[j] /\ U[k - 1] = u2[j - 1] /\ V[k - 1] = v2[j - 1]
      BY <1>2, <1>7, <3>1
    <3> QED BY <1>4, <3>1, <3>2 DEF Walk
  <2> QED BY <2>1, <2>2
<1>10. Walk(hard, U, V, r, f, g, x, y)
  BY <1>2, <1>8, <1>9 DEF Walk
<1>11. U[0] = a /\ V[0] = b /\ U[Len(r)] = x /\ V[Len(r)] = y
  <2>1. 0 \in 0..n /\ m \in 0..m
    BY <1>1
  <2> QED BY <1>2, <1>3, <1>4, <1>7, <2>1
<1>12. Leads(hard, r, f, g, a, b, x, y)
  BY <1>1, <1>2, <1>10, <1>11 DEF Leads
<1> QED BY <1>12 DEF r

\* Arithmetic of the lines of a Diff, a lines having been read.
Within(a, e, n, x) ==
    /\ \A j \in 1..n : a + e + j \in 1..x
    /\ \A p \in Nat : p + (a + e + n) = p + a + e + n /\ \A j \in 1..n : p + (a + e + j) = p + a + e + j

LEMMA WithinLines ==
    ASSUME NEW a \in Nat, NEW e \in Nat, NEW n \in Nat, NEW x \in Nat, a + e + n <= x
    PROVE  Within(a, e, n, x)
BY DEF Within

\* Arithmetic of the lines between two equal lines p and q.
Gap(p, q, n) ==
    /\ q - p - 1 \in Nat /\ q - 1 \in 0..n /\ p + (q - p - 1) = q - 1
    /\ \A j \in 1..q - p - 1 : p + j \in 1..n /\ p < p + j /\ p + j < q

LEMMA GapBetween ==
    ASSUME NEW n \in Nat, NEW p \in 0..n + 1, NEW q \in 0..n + 1, p < q
    PROVE  Gap(p, q, n)
BY DEF Gap

\* f is the part of F behind its first p lines.
Piece(f, F, p, n) == \A j \in 1..n : f[j] = F[p + j]

\* Diffs of two parts of the lines.
LEMMA LeadsShifted ==
    ASSUME NEW hard, NEW ds, NEW f, NEW g, NEW F, NEW G, NEW p \in Nat, NEW q \in Nat, NEW x, NEW y,
           Leads(hard, ds, f, g, 0, 0, x, y),
           Piece(f, F, p, x), Piece(g, G, q, y)
    PROVE  Leads(hard, ds, F, G, p, q, p + x, q + y)
<1> USE DEF Piece
<1> DEFINE n == Len(ds)
<1>1. ds \in Seq(DiffType) /\ n \in Nat /\ x \in Nat /\ y \in Nat
  BY LenProperties DEF Leads
<1>2. PICK u, v : Walk(hard, u, v, ds, f, g, x, y) /\ u[0] = 0 /\ v[0] = 0 /\ u[n] = x /\ v[n] = y
  BY DEF Leads
<1> DEFINE U == [k \in 0..n |-> p + u[k]]
           V == [k \in 0..n |-> q + v[k]]
<1>3. \A k \in 0..n : u[k] \in 0..x /\ v[k] \in 0..y /\ U[k] = p + u[k] /\ V[k] = q + v[k]
  BY <1>2 DEF Walk
<1>4. U \in [0..n -> 0..p + x] /\ V \in [0..n -> 0..q + y]
  BY <1>1, <1>3
<1> HIDE DEF U, V
<1>5. ASSUME NEW k \in 1..n
      PROVE  /\ U[k] = U[k - 1] + ds[k].eq + ds[k].d1
             /\ V[k] = V[k - 1] + ds[k].eq + ds[k].d2
             /\ Fits(hard, F, G, ds[k], U[k - 1], V[k - 1])
  <2> DEFINE d == ds[k]
             a == u[k - 1]
             b == v[k - 1]
  <2>1. k \in 0..n /\ k - 1 \in 0..n
    BY <1>1
  <2>2. d \in DiffType /\ d.eq \in {0, 1} /\ d.d1 \in Nat /\ d.d2 \in Nat
    <3>1. d \in DiffType
      BY <1>1, ElementOfSeq
    <3> QED BY <3>1 DEF DiffType
  <2>3. u[k] = a + d.eq + d.d1 /\ v[k] = b + d.eq + d.d2 /\ Fits(hard, f, g, d, a, b)
    BY <1>2 DEF Walk
  <2>4. a \in Nat /\ b \in Nat /\ a + d.eq + d.d1 <= x /\ b + d.eq + d.d2 <= y
    <3>1. u[k] \in 0..x /\ v[k] \in 0..y /\ a \in 0..x /\ b \in 0..y
      BY <1>3, <2>1
    <3> QED BY <1>1, <2>3, <3>1
  <2>5. U[k] = p + u[k] /\ V[k] = q + v[k] /\ U[k - 1] = p + a /\ V[k - 1] = q + b
    BY <1>3, <2>1
  <2>10. d.eq \in Nat /\ d.d1 \in Nat /\ d.d2 \in Nat /\ x \in Nat /\ y \in Nat
    BY <1>1, <2>2
  <2> HIDE DEF d, a, b
  <2>6. d.eq = 1 => F[p + a + 1] = G[q + b + 1]
    <3> SUFFICES ASSUME d.eq = 1 PROVE F[p + a + 1] = G[q + b + 1]
      OBVIOUS
    <3>1. a + 1 \in 1..x /\ b + 1 \in 1..y /\ p + (a + 1) = p + a + 1 /\ q + (b + 1) = q + b + 1
      <4>1. d.eq \in Nat /\ d.d1 \in Nat /\ d.d2 \in Nat
        BY <2>10
      <4>2. a + 1 \in 1..x /\ b + 1 \in 1..y
        BY ONLY <1>1, <2>4, <4>1, d.eq = 1
      <4> QED BY ONLY <2>4, <4>2, p \in Nat, q \in Nat
    <3>2. f[a + 1] = g[b + 1]
      BY <2>3 DEF Fits
    <3>3. f[a + 1] = F[p + (a + 1)] /\ g[b + 1] = G[q + (b + 1)]
      BY <3>1
    <3> QED BY <3>1, <3>2, <3>3
  <2>7. hard => \A j \in 1..d.d1 : j <= d.d2 => F[p + a + d.eq + j] # G[q + b + d.eq + j]
    <3> SUFFICES ASSUME hard, NEW j \in 1..d.d1, j <= d.d2 PROVE F[p + a + d.eq + j] # G[q + b + d.eq + j]
      OBVIOUS
    <3>1. /\ a + d.eq + j \in 1..x /\ b + d.eq + j \in 1..y
          /\ p + (a + d.eq + j) = p + a + d.eq + j /\ q + (b + d.eq + j) = q + b + d.eq + j
      <4>1. Within(a, d.eq, d.d1, x) /\ Within(b, d.eq, d.d2, y)
        BY <2>4, <2>10, WithinLines
      <4>2. j \in 1..d.d1 /\ j \in 1..d.d2
        BY <2>2
      <4> QED BY <4>1, <4>2 DEF Within
    <3>2. f[a + d.eq + j] # g[b + d.eq + j]
      BY <2>3 DEF Fits
    <3>3. f[a + d.eq + j] = F[p + (a + d.eq + j)] /\ g[b + d.eq + j] = G[q + (b + d.eq + j)]
      BY <3>1
    <3> QED BY <3>1, <3>2, <3>3
  <2>8. Fits(hard, F, G, d, p + a, q + b)
    BY <2>6, <2>7 DEF Fits
  <2>9. U[k] = U[k - 1] + d.eq + d.d1 /\ V[k] = V[k - 1] + d.eq + d.d2
    <3>1. u[k] = a + d.eq + d.d1 /\ v[k] = b + d.eq + d.d2
      BY <2>3
    <3>2. d.eq \in Nat /\ d.d1 \in Nat /\ d.d2 \in Nat /\ a \in Nat /\ b \in Nat
      BY <2>2, <2>4
    <3>3. p + (a + d.eq + d.d1) = p + a + d.eq + d.d1 /\ q + (b + d.eq + d.d2) = q + b + d.eq + d.d2
      <4>1. Within(a, d.eq, d.d1, x) /\ Within(b, d.eq, d.d2, y)
        BY <2>4, <2>10, WithinLines
      <4> QED BY <4>1 DEF Within
    <3> QED BY ONLY <2>5, <3>1, <3>3
  <2> QED BY <2>5, <2>8, <2>9 DEF d
<1>6. Walk(hard, U, V, ds, F, G, p + x, q + y)
  BY <1>4, <1>5 DEF Walk
<1>7. U[0] = p /\ V[0] = q /\ U[n] = p + x /\ V[n] = q + y /\ p + x \in Nat /\ q + y \in Nat
  <2>1. 0 \in 0..n /\ n \in 0..n
    BY <1>1
  <2>2. U[0] = p + 0 /\ V[0] = q + 0 /\ U[n] = p + x /\ V[n] = q + y
    BY ONLY <1>2, <1>3, <2>1
  <2>3. p + 0 = p /\ q + 0 = q /\ p + x \in Nat /\ q + y \in Nat
    BY <1>1
  <2> QED BY ONLY <2>2, <2>3
<1> QED BY <1>1, <1>6, <1>7 DEF Leads

LEMMA NextIsMore ==
    ASSUME NEW k \in Nat, NEW x \in Int, NEW y \in Int, x >= k, x < y
    PROVE  y >= k + 1
OBVIOUS

\* An increasing list has no more members than there are lines.
LEMMA IncreasingLength ==
    ASSUME NEW n1 \in Nat, NEW n2 \in Nat, NEW L \in Nat, NEW m \in [1..L -> (1..n1) \X (1..n2)], Increasing(m)
    PROVE  L <= n1 /\ L <= n2
<1> DEFINE T == {k \in Nat : k \in 1..L => m[k][1] >= k /\ m[k][2] >= k}
<1>1. \A k \in 1..L : m[k][1] \in 1..n1 /\ m[k][2] \in 1..n2
  <2> SUFFICES ASSUME NEW k \in 1..L PROVE m[k][1] \in 1..n1 /\ m[k][2] \in 1..n2
    OBVIOUS
  <2>1. m[k] \in (1..n1) \X (1..n2)
    OBVIOUS
  <2> QED BY <2>1
<1>2. \A j, k \in 1..L : j < k => m[j][1] < m[k][1] /\ m[j][2] < m[k][2]
  BY DEF Increasing
<1>3. 0 \in T
  OBVIOUS
<1>4. ASSUME NEW k \in Nat, k \in T PROVE k + 1 \in T
  <2> SUFFICES ASSUME k + 1 \in 1..L PROVE m[k + 1][1] >= k + 1 /\ m[k + 1][2] >= k + 1
    OBVIOUS
  <2>1. CASE k = 0
    BY <1>1, <2>1
  <2>2. CASE k # 0
    <3>1. k \in 1..L /\ k < k + 1
      BY <2>2
    <3>2. m[k][1] >= k /\ m[k][2] >= k
      BY <1>4, <3>1
    <3>3. m[k][1] < m[k + 1][1] /\ m[k][2] < m[k + 1][2]
      BY <1>2, <3>1
    <3>4. m[k][1] \in 1..n1 /\ m[k][2] \in 1..n2 /\ m[k + 1][1] \in 1..n1 /\ m[k + 1][2] \in 1..n2
      BY <1>1, <3>1
    <3>5. m[k][1] \in Int /\ m[k][2] \in Int /\ m[k + 1][1] \in Int /\ m[k + 1][2] \in Int
      BY <3>4
    <3> QED BY ONLY <3>2, <3>3, <3>5, k \in Nat, NextIsMore
  <2> QED BY <2>1, <2>2
<1> HIDE DEF T
<1>5. \A k \in Nat : k \in T
  BY <1>3, <1>4, SetInduction
<1>6. CASE L = 0
  BY <1>6
<1>7. CASE L # 0
  <2>1. L \in 1..L
    BY <1>7
  <2>2. m[L][1] >= L /\ m[L][2] >= L /\ m[L][1] \in 1..n1 /\ m[L][2] \in 1..n2
    BY <1>1, <1>5, <2>1 DEF T
  <2> QED BY <2>2
<1> QED BY <1>6, <1>7

\* What Common() says.
IsCommon(m, L, x, y) ==
    /\ m \in [1..L -> (1..Len(x)) \X (1..Len(y))]
    /\ \A k \in 1..L : x[m[k][1]] = y[m[k][2]]
    /\ \A j, k \in 1..L : j < k => m[j][1] < m[k][1] /\ m[j][2] < m[k][2]

LEMMA CommonWell ==
    ASSUME NEW x, NEW y, Len(x) \in Nat, Len(y) \in Nat, DOMAIN x = 1..Len(x), DOMAIN y = 1..Len(y)
    PROVE  /\ \A m \in Common(x, y) : Len(m) \in Nat /\ IsCommon(m, Len(m), x, y)
           /\ \A L \in Nat : \A m : IsCommon(m, L, x, y) => m \in Common(x, y) /\ Len(m) = L
<1> DEFINE equal == {p \in (DOMAIN x) \X (DOMAIN y) : x[p[1]] = y[p[2]]}
           N == Min({Len(x), Len(y)})
<1>1. Common(x, y) = {m \in SeqOf(equal, N) : Increasing(m)}
  BY DEF Common
<1>2. N \in {Len(x), Len(y)} /\ N <= Len(x) /\ N <= Len(y)
  <2>1. {Len(x), Len(y)} \subseteq Nat /\ {Len(x), Len(y)} # {}
    OBVIOUS
  <2>2. N \in {Len(x), Len(y)} /\ \A z \in {Len(x), Len(y)} : N <= z
    BY <2>1, MinWell
  <2> QED BY <2>2
<1>3. SeqOf(equal, N) = UNION {[1..j -> equal] : j \in 0..N}
  BY DEF SeqOf
<1> HIDE DEF N
<1>4. ASSUME NEW m \in Common(x, y) PROVE Len(m) \in Nat /\ IsCommon(m, Len(m), x, y)
  <2>1. m \in SeqOf(equal, N) /\ Increasing(m)
    BY <1>1
  <2>2. PICK j \in 0..N : m \in [1..j -> equal]
    BY <1>3, <2>1
  <2>3. j \in Nat
    BY <1>2
  <2> HIDE DEF equal
  <2>4. m \in Seq(equal) /\ Len(m) = j
    BY <2>2, <2>3, MapSeq
  <2> USE DEF equal
  <2>5. \A k \in 1..j : m[k] \in (1..Len(x)) \X (1..Len(y)) /\ x[m[k][1]] = y[m[k][2]]
    BY <2>2
  <2>6. m \in [1..j -> (1..Len(x)) \X (1..Len(y))]
    BY <2>2, <2>5
  <2>7. \A i, k \in 1..j : i < k => m[i][1] < m[k][1] /\ m[i][2] < m[k][2]
    BY <2>1, <2>2 DEF Increasing
  <2>8. IsCommon(m, j, x, y)
    BY <2>5, <2>6, <2>7 DEF IsCommon
  <2> HIDE DEF equal
  <2> QED BY <2>3, <2>4, <2>8
<1>5. ASSUME NEW L \in Nat, NEW m, IsCommon(m, L, x, y) PROVE m \in Common(x, y) /\ Len(m) = L
  <2>1. /\ m \in [1..L -> (1..Len(x)) \X (1..Len(y))]
        /\ \A k \in 1..L : x[m[k][1]] = y[m[k][2]]
        /\ \A j, k \in 1..L : j < k => m[j][1] < m[k][1] /\ m[j][2] < m[k][2]
    BY <1>5 DEF IsCommon
  <2>2. Increasing(m)
    BY <2>1 DEF Increasing
  <2>3. L <= Len(x) /\ L <= Len(y)
    BY <2>1, <2>2, IncreasingLength
  <2>4. L \in 0..N
    BY <1>2, <2>3
  <2>5. \A k \in 1..L : m[k] \in equal
    BY <2>1
  <2>6. m \in [1..L -> equal]
    BY <2>1, <2>5
  <2> HIDE DEF equal
  <2>7. m \in SeqOf(equal, N)
    BY <1>3, <2>4, <2>6
  <2>8. Len(m) = L
    BY <2>6, MapSeq
  <2> QED BY <1>1, <2>2, <2>7, <2>8
<1> QED BY <1>4, <1>5

\* What is below something is below all that this is below.
LEMMA Chained == \A p, q, s \in Int : p < q /\ q < s => p < s
OBVIOUS

\* Equal lines between the members k and k + 1 of a list may join it.
Between(m, L, k, i, j) ==
    /\ k >= 1 => m[k][1] < i /\ m[k][2] < j
    /\ k < L => i < m[k + 1][1] /\ j < m[k + 1][2]

LEMMA OneMoreCommon ==
    ASSUME NEW x, NEW y, Len(x) \in Nat, Len(y) \in Nat, NEW L \in Nat, NEW m, IsCommon(m, L, x, y),
           NEW k \in 0..L, NEW i \in 1..Len(x), NEW j \in 1..Len(y), x[i] = y[j], Between(m, L, k, i, j)
    PROVE  \E r : IsCommon(r, L + 1, x, y)
<1> DEFINE X == 1..Len(x)
           Y == 1..Len(y)
           r == [q \in 1..L + 1 |-> IF q <= k THEN m[q] ELSE IF q = k + 1 THEN <<i, j>> ELSE m[q - 1]]
<1>1. /\ m \in [1..L -> X \X Y]
      /\ \A q \in 1..L : x[m[q][1]] = y[m[q][2]]
      /\ \A a, b \in 1..L : a < b => m[a][1] < m[b][1] /\ m[a][2] < m[b][2]
  BY DEF IsCommon
<1>2. \A q \in 1..L : m[q] \in X \X Y /\ m[q][1] \in X /\ m[q][2] \in Y
  <2> SUFFICES ASSUME NEW q \in 1..L PROVE m[q] \in X \X Y /\ m[q][1] \in X /\ m[q][2] \in Y
    OBVIOUS
  <2> HIDE DEF X, Y
  <2>1. m[q] \in X \X Y
    BY <1>1
  <2> QED BY <2>1
<1>3. /\ \A q \in 1..k : r[q] = m[q] /\ q \in 1..L
      /\ r[k + 1] = <<i, j>>
      /\ \A q \in k + 2..L + 1 : r[q] = m[q - 1] /\ q - 1 \in 1..L
      /\ \A q \in 1..L + 1 : q \in 1..k \/ q = k + 1 \/ q \in k + 2..L + 1
  <2>1. ASSUME NEW q \in 1..k PROVE r[q] = m[q] /\ q \in 1..L
    <3>1. q \in 1..L /\ q \in 1..L + 1 /\ q <= k
      OBVIOUS
    <3> QED BY ONLY <3>1
  <2>2. r[k + 1] = <<i, j>>
    <3>1. k + 1 \in 1..L + 1 /\ ~ k + 1 <= k
      OBVIOUS
    <3> QED BY ONLY <3>1
  <2>3. ASSUME NEW q \in k + 2..L + 1 PROVE r[q] = m[q - 1] /\ q - 1 \in 1..L
    <3>1. q - 1 \in 1..L /\ q \in 1..L + 1 /\ ~ q <= k /\ q # k + 1
      OBVIOUS
    <3> QED BY ONLY <3>1
  <2>4. \A q \in 1..L + 1 : q \in 1..k \/ q = k + 1 \/ q \in k + 2..L + 1
    <3> HIDE DEF r, X, Y
    <3> QED OBVIOUS
  <2> HIDE DEF r, X, Y
  <2> QED BY ONLY <2>1, <2>2, <2>3, <2>4
<1>4. i \in X /\ j \in Y /\ <<i, j>> \in X \X Y /\ <<i, j>>[1] = i /\ <<i, j>>[2] = j
  OBVIOUS
<1>5. X \subseteq Int /\ Y \subseteq Int
  OBVIOUS
<1>6. \A q \in 1..L + 1 : r[q] \in X \X Y /\ x[r[q][1]] = y[r[q][2]]
  <2> SUFFICES ASSUME NEW q \in 1..L + 1 PROVE r[q] \in X \X Y /\ x[r[q][1]] = y[r[q][2]]
    OBVIOUS
  <2> HIDE DEF r, X, Y
  <2>1. CASE q \in 1..k
    BY <1>1, <1>2, <1>3, <2>1
  <2>2. CASE q = k + 1
    BY <1>3, <1>4, <2>2
  <2>3. CASE q \in k + 2..L + 1
    BY <1>1, <1>2, <1>3, <2>3
  <2> QED BY <1>3, <2>1, <2>2, <2>3
<1>7. r \in [1..L + 1 -> X \X Y]
  <2> HIDE DEF X, Y
  <2> QED BY <1>6
<1>8. /\ \A a \in 1..k : m[a][1] < i /\ m[a][2] < j
      /\ \A a \in k + 1..L : i < m[a][1] /\ j < m[a][2]
  <2>1. ASSUME NEW a \in 1..k PROVE m[a][1] < i /\ m[a][2] < j
    <3>1. k \in 1..L /\ a \in 1..L /\ k >= 1 /\ (a = k \/ a < k)
      OBVIOUS
    <3>2. m[k][1] < i /\ m[k][2] < j
      BY <3>1 DEF Between
    <3>3. a < k => m[a][1] < m[k][1] /\ m[a][2] < m[k][2]
      BY <1>1, <3>1
    <3>4. m[a][1] \in Int /\ m[a][2] \in Int /\ m[k][1] \in Int /\ m[k][2] \in Int
      BY <1>2, <1>5, <3>1
    <3>5. i \in Int /\ j \in Int
      BY <1>4, <1>5
    <3>6. CASE a = k
      BY ONLY <3>2, <3>6
    <3>7. CASE a < k
      <4>1. m[a][1] < m[k][1] /\ m[a][2] < m[k][2]
        BY ONLY <3>3, <3>7
      <4> QED BY ONLY <3>2, <3>4, <3>5, <4>1, Chained
    <3> QED BY ONLY <3>1, <3>6, <3>7
  <2>2. ASSUME NEW a \in k + 1..L PROVE i < m[a][1] /\ j < m[a][2]
    <3>1. k + 1 \in 1..L /\ a \in 1..L /\ k < L /\ (a = k + 1 \/ k + 1 < a)
      OBVIOUS
    <3>2. i < m[k + 1][1] /\ j < m[k + 1][2]
      BY <3>1 DEF Between
    <3>3. k + 1 < a => m[k + 1][1] < m[a][1] /\ m[k + 1][2] < m[a][2]
      BY <1>1, <3>1
    <3>4. m[a][1] \in Int /\ m[a][2] \in Int /\ m[k + 1][1] \in Int /\ m[k + 1][2] \in Int
      BY <1>2, <1>5, <3>1
    <3>5. i \in Int /\ j \in Int
      BY <1>4, <1>5
    <3>6. CASE a = k + 1
      BY ONLY <3>2, <3>6
    <3>7. CASE k + 1 < a
      <4>1. m[k + 1][1] < m[a][1] /\ m[k + 1][2] < m[a][2]
        BY ONLY <3>3, <3>7
      <4> QED BY ONLY <3>2, <3>4, <3>5, <4>1, Chained
    <3> QED BY ONLY <3>1, <3>6, <3>7
  <2> QED BY <2>1, <2>2
<1> HIDE DEF r, X, Y
<1>9. ASSUME NEW a \in 1..L + 1, NEW b \in 1..L + 1, a < b
      PROVE  r[a][1] < r[b][1] /\ r[a][2] < r[b][2]
  <2>1. CASE a \in 1..k /\ b \in 1..k
    BY <1>1, <1>3, <1>9, <2>1
  <2>2. CASE a \in 1..k /\ b = k + 1
    BY <1>3, <1>4, <1>8, <2>2
  <2>3. CASE a \in 1..k /\ b \in k + 2..L + 1
    <3>1. a \in 1..L /\ b - 1 \in 1..L /\ a < b - 1
      BY <2>3
    <3> QED BY <1>1, <1>3, <2>3, <3>1
  <2>4. CASE a = k + 1 /\ b \in k + 2..L + 1
    <3>1. b - 1 \in k + 1..L
      BY <2>4
    <3> QED BY <1>3, <1>4, <1>8, <2>4, <3>1
  <2>5. CASE a \in k + 2..L + 1 /\ b \in k + 2..L + 1
    <3>1. a - 1 \in 1..L /\ b - 1 \in 1..L /\ a - 1 < b - 1
      BY <1>9, <2>5
    <3> QED BY <1>1, <1>3, <2>5, <3>1
  <2>6. \/ a \in 1..k /\ b \in 1..k
        \/ a \in 1..k /\ b = k + 1
        \/ a \in 1..k /\ b \in k + 2..L + 1
        \/ a = k + 1 /\ b \in k + 2..L + 1
        \/ a \in k + 2..L + 1 /\ b \in k + 2..L + 1
    BY <1>9
  <2> QED BY <2>1, <2>2, <2>3, <2>4, <2>5, <2>6
<1>10. IsCommon(r, L + 1, x, y)
  BY <1>6, <1>7, <1>9 DEF IsCommon, X, Y
<1> QED BY <1>10

\* The places at which the Diffs of a matching begin.
Stops(m, n1, n2) == <<<<0, 0>>>> \o m \o <<<<n1 + 1, n2 + 1>>>>

\* Two lists, one behind the other.
Joined(r, S, a, b) ==
    /\ r \in Seq(S) /\ Len(r) = Len(a) + Len(b)
    /\ \A k \in 1..Len(a) : r[k] = a[k]
    /\ \A k \in 1..Len(b) : r[Len(a) + k] = b[k]

LEMMA TwoJoined ==
    ASSUME NEW S, NEW a \in Seq(S), NEW b \in Seq(S)
    PROVE  Joined(a \o b, S, a, b)
BY ConcatParts DEF Joined

LEMMA StopsWell ==
    ASSUME NEW x, NEW y, Len(x) \in Nat, Len(y) \in Nat, NEW L \in Nat, NEW m, IsCommon(m, L, x, y)
    PROVE  LET z == Stops(m, Len(x), Len(y))
           IN /\ Len(z) = L + 2
              /\ \A k \in 1..L + 2 : z[k][1] \in 0..Len(x) + 1 /\ z[k][2] \in 0..Len(y) + 1
              /\ z[1][1] = 0 /\ z[1][2] = 0 /\ z[L + 2][1] = Len(x) + 1 /\ z[L + 2][2] = Len(y) + 1
              /\ \A k \in 1..L : z[k + 1] = m[k]
              /\ \A k \in 1..L + 1 : z[k][1] < z[k + 1][1] /\ z[k][2] < z[k + 1][2]
<1> DEFINE n1 == Len(x)
           n2 == Len(y)
           P == (0..n1 + 1) \X (0..n2 + 1)
           a == <<<<0, 0>>>>
           e == <<<<n1 + 1, n2 + 1>>>>
           z == Stops(m, n1, n2)
<1>1. /\ m \in [1..L -> (1..n1) \X (1..n2)]
      /\ \A j, k \in 1..L : j < k => m[j][1] < m[k][1] /\ m[j][2] < m[k][2]
  BY DEF IsCommon
<1>2. \A k \in 1..L : m[k] \in (1..n1) \X (1..n2) /\ m[k] \in P /\ m[k][1] \in 1..n1 /\ m[k][2] \in 1..n2
  <2> SUFFICES ASSUME NEW k \in 1..L
               PROVE m[k] \in (1..n1) \X (1..n2) /\ m[k] \in P /\ m[k][1] \in 1..n1 /\ m[k][2] \in 1..n2
    OBVIOUS
  <2>1. m[k] \in (1..n1) \X (1..n2)
    BY <1>1
  <2>2. (1..n1) \X (1..n2) \subseteq P
    OBVIOUS
  <2> HIDE DEF P
  <2> QED BY <2>1, <2>2
<1>3. a \in Seq(P) /\ Len(a) = 1 /\ a[1] = <<0, 0>> /\ e \in Seq(P) /\ Len(e) = 1 /\ e[1] = <<n1 + 1, n2 + 1>>
  <2>1. <<0, 0>> \in P /\ <<n1 + 1, n2 + 1>> \in P
    OBVIOUS
  <2> HIDE DEF P
  <2> QED BY <2>1
<1>4. \A p \in P : p[1] \in 0..n1 + 1 /\ p[2] \in 0..n2 + 1
  OBVIOUS
<1> HIDE DEF P
<1>5. m \in Seq(P) /\ Len(m) = L
  <2>1. m \in [1..L -> P]
    BY <1>1, <1>2
  <2> QED BY <2>1, MapSeq
<1> DEFINE b == a \o m
<1> HIDE DEF a, e
<1>6. b \in Seq(P) /\ Len(b) = 1 + L /\ b[1] = <<0, 0>> /\ \A k \in 1..L : b[1 + k] = m[k]
  <2>1. /\ b \in Seq(P) /\ Len(b) = Len(a) + Len(m)
        /\ \A k \in 1..Len(a) : b[k] = a[k]
        /\ \A k \in 1..Len(m) : b[Len(a) + k] = m[k]
    <3>1. Joined(b, P, a, m)
      BY ONLY <1>3, <1>5, TwoJoined
    <3> HIDE DEF b
    <3> QED BY ONLY <3>1 DEF Joined
  <2> QED BY <1>3, <1>5, <2>1
<1>7. z = b \o e
  BY DEF Stops, a, e
<1> HIDE DEF b, z
<1>8. /\ z \in Seq(P) /\ Len(z) = L + 2 /\ z[1] = <<0, 0>> /\ z[L + 2] = <<n1 + 1, n2 + 1>>
      /\ \A k \in 1..L : z[k + 1] = m[k]
  <2>1. /\ z \in Seq(P) /\ Len(z) = Len(b) + Len(e)
        /\ \A k \in 1..Len(b) : z[k] = b[k]
        /\ \A k \in 1..Len(e) : z[Len(b) + k] = e[k]
    <3>1. Joined(z, P, b, e)
      BY ONLY <1>3, <1>6, <1>7, TwoJoined
    <3> QED BY ONLY <3>1 DEF Joined
  <2>2. 1 \in 1..Len(b) /\ 1 \in 1..Len(e) /\ Len(b) + 1 = L + 2
    BY <1>3, <1>6
  <2>3. z[1] = <<0, 0>> /\ z[L + 2] = <<n1 + 1, n2 + 1>>
    BY <1>3, <1>6, <2>1, <2>2
  <2>4. \A k \in 1..L : k + 1 \in 1..Len(b) /\ k + 1 = 1 + k
    BY <1>6
  <2> QED BY <1>3, <1>6, <2>1, <2>3, <2>4
<1>9. \A k \in 1..L + 2 : z[k][1] \in 0..n1 + 1 /\ z[k][2] \in 0..n2 + 1
  BY <1>4, <1>8, ElementOfSeq
<1>10. z[1][1] = 0 /\ z[1][2] = 0 /\ z[L + 2][1] = n1 + 1 /\ z[L + 2][2] = n2 + 1
  BY <1>8
<1>11. \A k \in 1..L + 1 : z[k][1] < z[k + 1][1] /\ z[k][2] < z[k + 1][2]
  <2> SUFFICES ASSUME NEW k \in 1..L + 1 PROVE z[k][1] < z[k + 1][1] /\ z[k][2] < z[k + 1][2]
    OBVIOUS
  <2>1. k # 1 => k - 1 \in 1..L /\ z[k] = m[k - 1]
    <3> SUFFICES ASSUME k # 1 PROVE k - 1 \in 1..L /\ z[k] = m[k - 1]
      OBVIOUS
    <3>1. k - 1 \in 1..L /\ k - 1 + 1 = k
      OBVIOUS
    <3> QED BY <1>8, <3>1
  <2>2. k # L + 1 => k \in 1..L /\ z[k + 1] = m[k]
    BY <1>8
  <2>3. CASE k = 1 /\ k = L + 1
    <3>1. k + 1 = L + 2
      BY <2>3
    <3> QED BY <1>10, <2>3, <3>1
  <2>4. CASE k = 1 /\ k # L + 1
    BY <1>2, <1>10, <2>2, <2>4
  <2>5. CASE k # 1 /\ k = L + 1
    <3>1. k + 1 = L + 2
      BY <2>5
    <3> QED BY <1>2, <1>10, <2>1, <2>5, <3>1
  <2>6. CASE k # 1 /\ k # L + 1
    <3>1. k - 1 < k
      OBVIOUS
    <3> QED BY <1>1, <2>1, <2>2, <2>6, <3>1
  <2> QED BY <2>3, <2>4, <2>5, <2>6
<1> QED BY <1>8, <1>9, <1>10, <1>11 DEF z

\* The list of Diffs of two sections leads from their beginnings to their ends.
LEMMA SectionLeads ==
    ASSUME NEW hard, NEW x, NEW y, Len(x) \in Nat, Len(y) \in Nat, DOMAIN x = 1..Len(x), DOMAIN y = 1..Len(y),
           NEW l \in SectionDiffs(x, y, hard)
    PROVE  Leads(hard, l, x, y, 0, 0, Len(x), Len(y))
<1> DEFINE n1 == Len(x)
           n2 == Len(y)
<1>1. PICK m \in Matchings(x, y, hard) : l = DiffListOf(m, n1, n2)
  BY DEF SectionDiffs
<1>2. m \in Common(x, y) /\ (hard => \A n \in Common(x, y) : Len(n) <= Len(m))
  BY DEF Matchings
<1> DEFINE L == Len(m)
<1>3. L \in Nat /\ IsCommon(m, L, x, y)
  BY <1>2, CommonWell
<1> HIDE DEF L
<1> DEFINE z == Stops(m, n1, n2)
<1>4. /\ Len(z) = L + 2
      /\ \A k \in 1..L + 2 : z[k][1] \in 0..n1 + 1 /\ z[k][2] \in 0..n2 + 1
      /\ z[1][1] = 0 /\ z[1][2] = 0 /\ z[L + 2][1] = n1 + 1 /\ z[L + 2][2] = n2 + 1
      /\ \A k \in 1..L : z[k + 1] = m[k]
      /\ \A k \in 1..L + 1 : z[k][1] < z[k + 1][1] /\ z[k][2] < z[k + 1][2]
  BY <1>3, StopsWell
<1>5. l = [k \in 1..Len(z) - 1 |-> [eq |-> IF k = 1 THEN 0 ELSE 1,
                                   d1 |-> z[k + 1][1] - z[k][1] - 1, d2 |-> z[k + 1][2] - z[k][2] - 1]]
  BY <1>1 DEF DiffListOf, Stops
<1> HIDE DEF z
<1>6. Len(z) - 1 = L + 1 /\ L + 1 \in Nat
  BY <1>3, <1>4
<1>7. \A k \in 1..L + 1 : /\ l[k].eq = IF k = 1 THEN 0 ELSE 1
                          /\ l[k].d1 = z[k + 1][1] - z[k][1] - 1
                          /\ l[k].d2 = z[k + 1][2] - z[k][2] - 1
                          /\ l[k] \in DiffType
  <2> SUFFICES ASSUME NEW k \in 1..L + 1
               PROVE  /\ l[k].eq = IF k = 1 THEN 0 ELSE 1
                      /\ l[k].d1 = z[k + 1][1] - z[k][1] - 1
                      /\ l[k].d2 = z[k + 1][2] - z[k][2] - 1
                      /\ l[k] \in DiffType
    OBVIOUS
  <2>1. l[k] = [eq |-> IF k = 1 THEN 0 ELSE 1,
                d1 |-> z[k + 1][1] - z[k][1] - 1, d2 |-> z[k + 1][2] - z[k][2] - 1]
    BY <1>5, <1>6
  <2>2. k \in 1..L + 2 /\ k + 1 \in 1..L + 2
    BY <1>3
  <2>3. z[k + 1][1] - z[k][1] - 1 \in Nat /\ z[k + 1][2] - z[k][2] - 1 \in Nat
    <3>1. /\ z[k][1] \in 0..n1 + 1 /\ z[k][2] \in 0..n2 + 1
          /\ z[k + 1][1] \in 0..n1 + 1 /\ z[k + 1][2] \in 0..n2 + 1
      BY <1>4, <2>2
    <3>2. z[k][1] < z[k + 1][1] /\ z[k][2] < z[k + 1][2]
      BY <1>4
    <3>3. Gap(z[k][1], z[k + 1][1], n1) /\ Gap(z[k][2], z[k + 1][2], n2)
      BY ONLY <3>1, <3>2, n1 \in Nat, n2 \in Nat, GapBetween
    <3> QED BY ONLY <3>3 DEF Gap
  <2> QED BY <2>1, <2>3 DEF DiffType
<1>8. l \in Seq(DiffType) /\ Len(l) = L + 1
  <2>1. l \in [1..L + 1 -> DiffType]
    BY <1>5, <1>6, <1>7
  <2> QED BY <1>6, <2>1, MapSeq
<1> DEFINE u == [k \in 0..L + 1 |-> IF k = 0 THEN 0 ELSE z[k + 1][1] - 1]
           v == [k \in 0..L + 1 |-> IF k = 0 THEN 0 ELSE z[k + 1][2] - 1]
<1>9. /\ u[0] = 0 /\ v[0] = 0
      /\ \A k \in 1..L + 1 : u[k] = z[k + 1][1] - 1 /\ v[k] = z[k + 1][2] - 1
      /\ u = [k \in 0..L + 1 |-> u[k]] /\ v = [k \in 0..L + 1 |-> v[k]]
  BY <1>3
<1> HIDE DEF u, v
<1>10. \A k \in 0..L + 1 : u[k] \in 0..n1 /\ v[k] \in 0..n2
  <2> SUFFICES ASSUME NEW k \in 0..L + 1 PROVE u[k] \in 0..n1 /\ v[k] \in 0..n2
    OBVIOUS
  <2>1. CASE k = 0
    BY <1>9, <2>1
  <2>2. CASE k # 0
    <3>1. k \in 1..L + 1 /\ k \in 1..L + 2 /\ k + 1 \in 1..L + 2
      BY <1>3, <2>2
    <3>2. z[k][1] \in 0..n1 + 1 /\ z[k][2] \in 0..n2 + 1 /\ z[k + 1][1] \in 0..n1 + 1 /\ z[k + 1][2] \in 0..n2 + 1
      BY <1>4, <3>1
    <3>3. z[k][1] < z[k + 1][1] /\ z[k][2] < z[k + 1][2]
      BY <1>4, <3>1
    <3>4. u[k] = z[k + 1][1] - 1 /\ v[k] = z[k + 1][2] - 1
      BY <1>9, <3>1
    <3>5. z[k + 1][1] - 1 \in 0..n1 /\ z[k + 1][2] - 1 \in 0..n2
      <4>1. Gap(z[k][1], z[k + 1][1], n1) /\ Gap(z[k][2], z[k + 1][2], n2)
        BY ONLY <3>2, <3>3, n1 \in Nat, n2 \in Nat, GapBetween
      <4> QED BY ONLY <4>1 DEF Gap
    <3> QED BY ONLY <3>4, <3>5
  <2> QED BY <2>1, <2>2
<1>11. u \in [0..L + 1 -> 0..n1] /\ v \in [0..L + 1 -> 0..n2]
  BY <1>9, <1>10
\* Where the lines that differ begin.
<1>12. \A k \in 1..L + 1 : u[k - 1] + l[k].eq = z[k][1] /\ v[k - 1] + l[k].eq = z[k][2]
  <2> SUFFICES ASSUME NEW k \in 1..L + 1 PROVE u[k - 1] + l[k].eq = z[k][1] /\ v[k - 1] + l[k].eq = z[k][2]
    OBVIOUS
  <2>1. CASE k = 1
    <3>1. k - 1 = 0 /\ l[k].eq = 0
      BY <1>7, <2>1
    <3> QED BY <1>4, <1>9, <2>1, <3>1
  <2>2. CASE k # 1
    <3>1. k - 1 \in 1..L + 1 /\ k - 1 + 1 = k /\ l[k].eq = 1 /\ k \in 1..L + 2
      <4>1. k - 1 \in 1..L + 1 /\ k - 1 + 1 = k /\ k \in 1..L + 2
        BY ONLY <1>3, <2>2, k \in 1..L + 1
      <4>2. l[k].eq = 1
        BY <1>7, <2>2
      <4> QED BY ONLY <4>1, <4>2
    <3>2. u[k - 1] = z[k][1] - 1 /\ v[k - 1] = z[k][2] - 1
      BY <1>9, <3>1
    <3>3. z[k][1] \in 0..n1 + 1 /\ z[k][2] \in 0..n2 + 1
      BY <1>4, <3>1
    <3> QED BY ONLY <3>1, <3>2, <3>3, n1 \in Nat, n2 \in Nat
  <2> QED BY <2>1, <2>2
<1>13. ASSUME NEW k \in 1..L + 1
       PROVE  u[k] = u[k - 1] + l[k].eq + l[k].d1 /\ v[k] = v[k - 1] + l[k].eq + l[k].d2
  <2>1. k \in 1..L + 2 /\ k + 1 \in 1..L + 2
    BY <1>3
  <2>2. z[k][1] \in 0..n1 + 1 /\ z[k][2] \in 0..n2 + 1 /\ z[k + 1][1] \in 0..n1 + 1 /\ z[k + 1][2] \in 0..n2 + 1
    BY <1>4, <2>1
  <2>3. /\ u[k] = z[k + 1][1] - 1 /\ v[k] = z[k + 1][2] - 1
        /\ l[k].d1 = z[k + 1][1] - z[k][1] - 1 /\ l[k].d2 = z[k + 1][2] - z[k][2] - 1
        /\ u[k - 1] + l[k].eq = z[k][1] /\ v[k - 1] + l[k].eq = z[k][2]
    BY <1>7, <1>9, <1>12
  <2>4. /\ z[k][1] + (z[k + 1][1] - z[k][1] - 1) = z[k + 1][1] - 1
        /\ z[k][2] + (z[k + 1][2] - z[k][2] - 1) = z[k + 1][2] - 1
    <3>1. z[k][1] < z[k + 1][1] /\ z[k][2] < z[k + 1][2]
      BY <1>4
    <3>2. Gap(z[k][1], z[k + 1][1], n1) /\ Gap(z[k][2], z[k + 1][2], n2)
      BY ONLY <2>2, <3>1, n1 \in Nat, n2 \in Nat, GapBetween
    <3> QED BY ONLY <3>2 DEF Gap
  <2> QED BY ONLY <2>3, <2>4
<1>14. ASSUME NEW k \in 1..L + 1 PROVE Fits(hard, x, y, l[k], u[k - 1], v[k - 1])
  <2> DEFINE d == l[k]
             a == u[k - 1]
             b == v[k - 1]
  <2>1. k \in 1..L + 2 /\ k + 1 \in 1..L + 2 /\ k - 1 \in 0..L + 1 /\ k - 1 \in 0..L
    BY <1>3
  <2>2. z[k][1] \in 0..n1 + 1 /\ z[k][2] \in 0..n2 + 1 /\ z[k + 1][1] \in 0..n1 + 1 /\ z[k + 1][2] \in 0..n2 + 1
    BY <1>4, <2>1
  <2>3. a + d.eq = z[k][1] /\ b + d.eq = z[k][2] /\ a \in 0..n1 /\ b \in 0..n2
    BY <1>10, <1>12, <2>1
  <2>4. /\ d.eq = IF k = 1 THEN 0 ELSE 1
        /\ d.d1 = z[k + 1][1] - z[k][1] - 1 /\ d.d2 = z[k + 1][2] - z[k][2] - 1
    BY <1>7
  <2> HIDE DEF d, a, b
  <2>5. d.eq = 1 => x[a + 1] = y[b + 1]
    <3> SUFFICES ASSUME d.eq = 1 PROVE x[a + 1] = y[b + 1]
      OBVIOUS
    <3>1. k # 1
      BY <2>4
    <3>2. k - 1 \in 1..L /\ k - 1 + 1 = k
      BY ONLY <1>3, <3>1, k \in 1..L + 1
    <3>3. z[k] = m[k - 1] /\ x[m[k - 1][1]] = y[m[k - 1][2]]
      <4>1. z[k - 1 + 1] = m[k - 1]
        BY <1>4, <3>2
      <4> QED BY <1>3, <3>2, <4>1 DEF IsCommon
    <3>4. a + 1 = z[k][1] /\ b + 1 = z[k][2]
      BY <2>3
    <3> QED BY <3>3, <3>4
  <2>6. hard => \A j \in 1..d.d1 : j <= d.d2 => x[a + d.eq + j] # y[b + d.eq + j]
    <3> SUFFICES ASSUME hard, NEW j \in 1..d.d1, j <= d.d2, x[a + d.eq + j] = y[b + d.eq + j] PROVE FALSE
      OBVIOUS
    <3> DEFINE i1 == z[k][1] + j
               i2 == z[k][2] + j
    <3>1. i1 \in 1..n1 /\ i2 \in 1..n2 /\ z[k][1] < i1 /\ z[k][2] < i2 /\ i1 < z[k + 1][1] /\ i2 < z[k + 1][2]
      <4>1. z[k][1] < z[k + 1][1] /\ z[k][2] < z[k + 1][2]
        BY <1>4
      <4>2. Gap(z[k][1], z[k + 1][1], n1) /\ Gap(z[k][2], z[k + 1][2], n2)
        BY ONLY <2>2, <4>1, n1 \in Nat, n2 \in Nat, GapBetween
      <4>3. d.d1 \in Nat /\ d.d2 \in Nat
        BY ONLY <2>4, <4>2 DEF Gap
      <4>4. j \in 1..d.d1 /\ j \in 1..d.d2
        BY <4>3
      <4>5. j \in 1..z[k + 1][1] - z[k][1] - 1 /\ j \in 1..z[k + 1][2] - z[k][2] - 1
        BY ONLY <2>4, <4>4
      <4> QED BY ONLY <4>2, <4>5 DEF Gap
    <3>2. x[i1] = y[i2]
      BY <2>3
    <3> HIDE DEF i1, i2
    <3>3. k - 1 >= 1 => m[k - 1][1] < i1 /\ m[k - 1][2] < i2
      <4> SUFFICES ASSUME k - 1 >= 1 PROVE m[k - 1][1] < i1 /\ m[k - 1][2] < i2
        OBVIOUS
      <4>1. k - 1 \in 1..L /\ k - 1 + 1 = k
        BY <2>1
      <4>2. z[k - 1 + 1] = m[k - 1]
        BY <1>4, <4>1
      <4>3. z[k] = m[k - 1]
        BY <4>1, <4>2
      <4> QED BY <3>1, <4>3
    <3>4. k - 1 < L => i1 < m[k - 1 + 1][1] /\ i2 < m[k - 1 + 1][2]
      <4> SUFFICES ASSUME k - 1 < L PROVE i1 < m[k - 1 + 1][1] /\ i2 < m[k - 1 + 1][2]
        OBVIOUS
      <4>1. k \in 1..L /\ k - 1 + 1 = k
        BY <1>3
      <4>2. z[k + 1] = m[k]
        BY <1>4, <4>1
      <4> QED BY <3>1, <4>1, <4>2
    <3>5. Between(m, L, k - 1, i1, i2)
      BY <3>3, <3>4 DEF Between
    <3>6. PICK r : IsCommon(r, L + 1, x, y)
      BY <1>3, <2>1, <3>1, <3>2, <3>5, OneMoreCommon
    <3>7. r \in Common(x, y) /\ Len(r) = L + 1
      BY <1>6, <3>6, CommonWell
    <3>8. L + 1 <= L
      BY <1>2, <3>7 DEF L
    <3> QED BY <1>3, <3>8
  <2> QED BY <2>5, <2>6 DEF Fits, d, a, b
<1>15. Walk(hard, u, v, l, x, y, n1, n2)
  BY <1>8, <1>11, <1>13, <1>14 DEF Walk
<1>16. u[Len(l)] = n1 /\ v[Len(l)] = n2
  <2>1. L + 1 \in 1..L + 1 /\ L + 1 + 1 = L + 2
    BY <1>3
  <2>2. u[L + 1] = z[L + 2][1] - 1 /\ v[L + 1] = z[L + 2][2] - 1
    BY ONLY <1>9, <2>1
  <2>3. n1 + 1 - 1 = n1 /\ n2 + 1 - 1 = n2
    OBVIOUS
  <2> QED BY ONLY <1>4, <1>8, <2>2, <2>3
<1> QED BY <1>8, <1>9, <1>15, <1>16 DEF Leads

\* An entry of the list of manual alignments, and the end of a section.
EntryType == [Sides -> [first : Nat, last : Nat]]
EndType == [s : Nat, t : Nat]

EndWith(ends, n1, n2) ==
    /\ ends \in Seq(EndType) /\ Len(ends) \in Nat \ {0} /\ DOMAIN ends = 1..Len(ends)
    /\ ends[Len(ends)].s = n1 /\ ends[Len(ends)].t = n2

LEMMA EndsWell ==
    ASSUME NEW list \in Seq(EntryType), NEW s \in Sides, NEW t \in Sides, NEW n1 \in Nat, NEW n2 \in Nat
    PROVE  EndWith(SectionEnds(list, s, t, n1, n2), n1, n2)
<1> DEFINE both(k) == <<[s |-> FirstLine(list[k], s) - 1, t |-> FirstLine(list[k], t) - 1],
                        [s |-> LastLine(list[k], s), t |-> LastLine(list[k], t)]>>
           part == [k \in DOMAIN list |-> IF {s, t} \subseteq Chosen(list[k]) THEN both(k) ELSE <<>>]
           z == <<[s |-> n1, t |-> n2]>>
           ends == SectionEnds(list, s, t, n1, n2)
<1>1. ends = FlattenSeq(part) \o z
  BY DEF SectionEnds
<1>2. Len(list) \in Nat /\ DOMAIN list = 1..Len(list)
  BY LenProperties
<1>3. ASSUME NEW k \in 1..Len(list), {s, t} \subseteq Chosen(list[k]) PROVE both(k) \in Seq(EndType)
  <2>1. list[k] \in EntryType
    BY ElementOfSeq
  <2>2. list[k][s] \in [first : Nat, last : Nat] /\ list[k][t] \in [first : Nat, last : Nat]
    BY <2>1 DEF EntryType
  <2>3. /\ FirstLine(list[k], s) \in Nat /\ FirstLine(list[k], t) \in Nat
        /\ LastLine(list[k], s) \in Nat /\ LastLine(list[k], t) \in Nat
    BY <2>2 DEF FirstLine, LastLine
  <2>4. FirstLine(list[k], s) # 0 /\ FirstLine(list[k], t) # 0
    BY <1>3 DEF Chosen, NoLine
  <2> DEFINE p == [s |-> FirstLine(list[k], s) - 1, t |-> FirstLine(list[k], t) - 1]
             q == [s |-> LastLine(list[k], s), t |-> LastLine(list[k], t)]
  <2>5. p \in EndType /\ q \in EndType
    BY <2>3, <2>4 DEF EndType
  <2> HIDE DEF p, q
  <2>6. <<p, q>> \in Seq(EndType)
    BY <2>5
  <2> QED BY <2>6 DEF p, q
<1> HIDE DEF both
<1>4. part \in Seq(Seq(EndType))
  <2>1. \A k \in 1..Len(list) : part[k] \in Seq(EndType)
    <3>1. <<>> \in Seq(EndType)
      BY EmptySeq
    <3> QED BY <1>2, <1>3, <3>1
  <2>2. part \in [1..Len(list) -> Seq(EndType)]
    BY <1>2, <2>1
  <2> HIDE DEF part
  <2> QED BY <1>2, <2>2, MapSeq
<1>5. FlattenSeq(part) \in Seq(EndType)
  BY <1>4, FlattenType
<1>6. z \in Seq(EndType) /\ Len(z) = 1 /\ z[1].s = n1 /\ z[1].t = n2
  BY DEF EndType
<1> DEFINE f == FlattenSeq(part)
<1> HIDE DEF f, z, ends
<1>7. /\ ends \in Seq(EndType) /\ Len(ends) = Len(f) + Len(z)
      /\ \A k \in 1..Len(z) : ends[Len(f) + k] = z[k]
  <2>1. f \in Seq(EndType) /\ ends = f \o z
    BY <1>1, <1>5 DEF f
  <2>2. Joined(ends, EndType, f, z)
    BY ONLY <1>6, <2>1, TwoJoined
  <2> QED BY ONLY <2>2 DEF Joined
<1>8. Len(f) \in Nat
  BY <1>5, LenProperties DEF f
<1>9. 1 \in 1..Len(z) /\ Len(f) + 1 = Len(ends)
  BY <1>6, <1>7, <1>8
<1>10. DOMAIN ends = 1..Len(ends)
  BY <1>7, LenProperties
<1> QED BY <1>6, <1>7, <1>8, <1>9, <1>10 DEF ends, EndWith

\* The lines of a part of a file.
LEMMA PartOfFile ==
    ASSUME NEW S, NEW F \in Seq(S), NEW a \in Nat, NEW b \in a..Len(F)
    PROVE  LET x == SubSeq(F, a + 1, b)
           IN /\ Len(x) = b - a /\ b - a \in Nat /\ DOMAIN x = 1..b - a
              /\ \A j \in 1..b - a : x[j] = F[a + j]
<1>1. Len(F) \in Nat
  BY LenProperties
<1>2. a + 1 \in 1..Len(F) + 1 /\ b \in a + 1 - 1..Len(F) /\ b - (a + 1) + 1 = b - a /\ b - a \in Nat
  BY <1>1
<1> DEFINE x == SubSeq(F, a + 1, b)
<1>3. /\ x \in Seq(S) /\ Len(x) = b - (a + 1) + 1
      /\ \A j \in 1..b - (a + 1) + 1 : x[j] = F[a + 1 + j - 1]
  BY <1>2, SubSeqProperties
<1>4. DOMAIN x = 1..Len(x)
  BY <1>3, LenProperties
<1> HIDE DEF x
<1>5. \A j \in 1..b - a : a + 1 + j - 1 = a + j
  OBVIOUS
<1> QED BY <1>2, <1>3, <1>4, <1>5 DEF x

\* Where the sections of two inputs end: none before it begins, the last with the
\* inputs.
InSections(e, n, n1, n2) ==
    /\ n \in Nat \ {0} /\ e \in [0..n -> EndType]
    /\ e[0].s = 0 /\ e[0].t = 0 /\ e[n].s = n1 /\ e[n].t = n2
    /\ \A k \in 1..n : e[k - 1].s <= e[k].s /\ e[k - 1].t <= e[k].t

LEMMA SectionsInside ==
    ASSUME NEW e, NEW n, NEW n1 \in Nat, NEW n2 \in Nat, InSections(e, n, n1, n2)
    PROVE  \A k \in 0..n : e[k].s \in 0..n1 /\ e[k].t \in 0..n2
<1>1. /\ n \in Nat \ {0} /\ e[n].s = n1 /\ e[n].t = n2
      /\ \A k \in 1..n : e[k - 1].s <= e[k].s /\ e[k - 1].t <= e[k].t
      /\ \A k \in 0..n : e[k].s \in Nat /\ e[k].t \in Nat
  BY DEF InSections, EndType
<1> DEFINE T == {j \in Nat : j <= n => e[n - j].s <= n1 /\ e[n - j].t <= n2}
<1>2. 0 \in T
  <2>1. n - 0 = n
    BY <1>1
  <2> QED BY <1>1, <2>1
<1>3. ASSUME NEW j \in Nat, j \in T PROVE j + 1 \in T
  <2> SUFFICES ASSUME j + 1 <= n PROVE e[n - (j + 1)].s <= n1 /\ e[n - (j + 1)].t <= n2
    OBVIOUS
  <2>1. n - j \in 1..n /\ n - j - 1 = n - (j + 1) /\ n - j \in 0..n /\ n - (j + 1) \in 0..n /\ j <= n
    BY <1>1
  <2>2. e[n - j].s <= n1 /\ e[n - j].t <= n2
    BY <1>3, <2>1
  <2>3. e[n - j - 1].s <= e[n - j].s /\ e[n - j - 1].t <= e[n - j].t
    BY <1>1, <2>1
  <2>4. /\ e[n - j].s \in Nat /\ e[n - j].t \in Nat
        /\ e[n - (j + 1)].s \in Nat /\ e[n - (j + 1)].t \in Nat
    BY <1>1, <2>1
  <2> QED BY <2>1, <2>2, <2>3, <2>4
<1> HIDE DEF T
<1>4. \A j \in Nat : j \in T
  BY <1>2, <1>3, SetInduction
<1> SUFFICES ASSUME NEW k \in 0..n PROVE e[k].s \in 0..n1 /\ e[k].t \in 0..n2
  OBVIOUS
<1>5. n - k \in Nat /\ n - k <= n /\ n - (n - k) = k
  BY <1>1
<1>6. e[k].s <= n1 /\ e[k].t <= n2
  BY <1>4, <1>5 DEF T
<1> QED BY <1>1, <1>6

\* Every list of x followed by every list of D.
Extended(x, D) == {q \o m : q \in x, m \in D}

\* The lists of Diffs of a section of two files, and of the first k sections.
DiffsOf(hard, F, G, x) ==
    SectionDiffs(SubSeq(F, x.from.s + 1, x.to.s), SubSeq(G, x.from.t + 1, x.to.t), hard)
Chain(hard, g, F, G, sec) ==
    g = [k \in 0..Len(sec) |-> IF k = 0 THEN {<<>>} ELSE Extended(g[k - 1], DiffsOf(hard, F, G, sec[k]))]

LEMMA ExtendedType ==
    ASSUME NEW S, NEW x \in SUBSET Seq(S), NEW D \in SUBSET Seq(S)
    PROVE  Extended(x, D) \in SUBSET Seq(S)
<1> SUFFICES ASSUME NEW r \in Extended(x, D) PROVE r \in Seq(S)
  OBVIOUS
<1>1. PICK q \in x, m \in D : r = q \o m
  BY DEF Extended
<1>2. q \in Seq(S) /\ m \in Seq(S)
  OBVIOUS
<1> QED BY <1>1, <1>2, ConcatProperties

LEMMA ChainMade ==
    ASSUME NEW hard, NEW F, NEW G, NEW sec, Len(sec) \in Nat,
           \A k \in 1..Len(sec) : DiffsOf(hard, F, G, sec[k]) \in SUBSET Seq(DiffType)
    PROVE  \E f : Chain(hard, f, F, G, sec)
<1> DEFINE n == Len(sec)
           S == SUBSET Seq(DiffType)
           D == [k \in 1..n |-> DiffsOf(hard, F, G, sec[k])]
           R == [z \in S \X (1..n) |-> Extended(z[1], D[z[2]])]
<1>1. \A k \in 1..n : D[k] = DiffsOf(hard, F, G, sec[k]) /\ D[k] \in S
  OBVIOUS
<1>2. {<<>>} \in S
  BY EmptySeq
<1> HIDE DEF D
<1>3. ASSUME NEW x \in S, NEW k \in 1..n PROVE R[<<x, k>>] = Extended(x, D[k]) /\ R[<<x, k>>] \in S
  <2>1. Extended(x, D[k]) \in S
    BY <1>1, ExtendedType
  <2> HIDE DEF S
  <2>2. R[<<x, k>>] = Extended(x, D[k])
    OBVIOUS
  <2> QED BY ONLY <2>1, <2>2
<1> HIDE DEF S, R
<1>4. PICK g : /\ g = [k \in 0..n |-> IF k = 0 THEN {<<>>} ELSE R[<<g[k - 1], k>>]]
               /\ g \in [0..n -> S]
  <2>1. n \in Nat /\ \A x \in S, k \in 1..n : R[<<x, k>>] \in S
    BY <1>3
  <2> QED BY ONLY <1>2, <2>1, RecursionExists
<1>5. ASSUME NEW k \in 0..n
      PROVE  g[k] = IF k = 0 THEN {<<>>} ELSE Extended(g[k - 1], DiffsOf(hard, F, G, sec[k]))
  <2>1. g[k] = IF k = 0 THEN {<<>>} ELSE R[<<g[k - 1], k>>]
    BY ONLY <1>4, k \in 0..n
  <2>2. CASE k = 0
    BY ONLY <2>1, <2>2
  <2>3. CASE k # 0
    <3>1. k \in 1..n /\ k - 1 \in 0..n
      BY <2>3
    <3>2. g[k - 1] \in S
      BY ONLY <1>4, <3>1
    <3>3. R[<<g[k - 1], k>>] = Extended(g[k - 1], D[k]) /\ D[k] = DiffsOf(hard, F, G, sec[k])
      BY <1>1, <1>3, <3>1, <3>2
    <3> QED BY ONLY <2>1, <2>3, <3>3
  <2> QED BY ONLY <2>2, <2>3
<1>6. g = [k \in 0..n |-> g[k]]
  BY <1>4
<1>7. [k \in 0..n |-> g[k]] = [k \in 0..n |-> IF k = 0 THEN {<<>>} ELSE Extended(g[k - 1], DiffsOf(hard, F, G, sec[k]))]
  BY ONLY <1>5
<1>8. Chain(hard, g, F, G, sec)
  BY ONLY <1>6, <1>7 DEF Chain, n
<1> QED BY <1>8

LEMMA ChainSteps ==
    ASSUME NEW hard, NEW F, NEW G, NEW sec, Len(sec) \in Nat, NEW f, Chain(hard, f, F, G, sec)
    PROVE  /\ f[0] = {<<>>}
           /\ \A k \in 1..Len(sec) : f[k] = Extended(f[k - 1], DiffsOf(hard, F, G, sec[k]))
<1>1. \A k \in 0..Len(sec) : f[k] = IF k = 0 THEN {<<>>} ELSE Extended(f[k - 1], DiffsOf(hard, F, G, sec[k]))
  BY DEF Chain
<1>2. 0 \in 0..Len(sec) /\ \A k \in 1..Len(sec) : k \in 0..Len(sec) /\ k # 0
  OBVIOUS
<1> QED BY <1>1, <1>2

\* The lists of Diffs that ManualDiffHelpList::runDiff() may return.
LEMMA RunDiffLeads ==
    ASSUME files \in [Sides -> Seq(Text)], manual \in Seq(EntryType),
           NEW s \in Sides, NEW t \in Sides, ~Throws(s, t), NEW l \in RunDiff(s, t)
    PROVE  Leads(tryHard, l, files[s], files[t], 0, 0, Size(s), Size(t))
<1> DEFINE n1 == Size(s)
           n2 == Size(t)
           ends == SectionEnds(manual, s, t, n1, n2)
           n == Len(ends)
           e == [k \in 0..n |-> IF k = 0 THEN [s |-> 0, t |-> 0] ELSE ends[k]]
           sec == Sections(s, t)
           D == [k \in 1..n |-> DiffsOf(tryHard, files[s], files[t], sec[k])]
           f == CHOOSE g : Chain(tryHard, g, files[s], files[t], sec)
<1>1. /\ files[s] \in Seq(Text) /\ files[t] \in Seq(Text) /\ n1 \in Nat /\ n2 \in Nat
      /\ Len(files[s]) = n1 /\ Len(files[t]) = n2
  <2>1. files[s] \in Seq(Text) /\ files[t] \in Seq(Text)
    OBVIOUS
  <2> QED BY <2>1, LenProperties DEF Size
<1>2. /\ ends \in Seq(EndType) /\ n \in Nat \ {0} /\ DOMAIN ends = 1..n
      /\ ends[n].s = n1 /\ ends[n].t = n2
  <2>1. EndWith(ends, n1, n2)
    BY ONLY <1>1, manual \in Seq(EntryType), s \in Sides, t \in Sides, EndsWell
  <2> HIDE DEF ends
  <2> QED BY ONLY <2>1 DEF EndWith
<1>3. RunDiff(s, t) = f[Len(sec)]
  BY DEF RunDiff, Chain, Extended, DiffsOf
<1>4. sec = [k \in DOMAIN ends |-> [from |-> IF k = 1 THEN [s |-> 0, t |-> 0] ELSE ends[k - 1], to |-> ends[k]]]
  BY DEF Sections
<1> HIDE DEF ends, n, sec, n1, n2
<1>5. /\ e[0].s = 0 /\ e[0].t = 0
      /\ \A k \in 1..n : e[k] = ends[k]
      /\ \A k \in 1..n : sec[k] = [from |-> e[k - 1], to |-> e[k]]
      /\ e = [k \in 0..n |-> e[k]]
  <2>1. e[0] = [s |-> 0, t |-> 0] /\ \A k \in 1..n : e[k] = ends[k]
    BY <1>2
  <2>2. e = [k \in 0..n |-> e[k]]
    OBVIOUS
  <2>3. ASSUME NEW k \in 1..n PROVE sec[k] = [from |-> e[k - 1], to |-> e[k]]
    <3>1. sec[k] = [from |-> IF k = 1 THEN [s |-> 0, t |-> 0] ELSE ends[k - 1], to |-> ends[k]]
      BY <1>2, <1>4
    <3>2. k # 1 => k - 1 \in 1..n
      BY <1>2
    <3> HIDE DEF e
    <3>3. CASE k = 1
      <4>1. k - 1 = 0
        BY <3>3
      <4> QED BY ONLY <2>1, <3>1, <3>3, <4>1
    <3>4. CASE k # 1
      BY ONLY <2>1, <3>1, <3>2, <3>4
    <3> QED BY ONLY <3>3, <3>4
  <2> HIDE DEF e
  <2>4. e[0].s = 0 /\ e[0].t = 0
    BY ONLY <2>1
  <2> QED BY ONLY <2>1, <2>2, <2>3, <2>4
<1>15. e[0] \in EndType
  <2>1. e[0] = [s |-> 0, t |-> 0]
    BY <1>2
  <2> QED BY ONLY <2>1 DEF EndType
<1> HIDE DEF e
<1>6. DOMAIN sec = 1..n /\ Len(sec) = n
  <2>1. DOMAIN sec = 1..n /\ sec \in [1..n -> {sec[k] : k \in 1..n}] /\ n \in Nat
    BY <1>2, <1>4
  <2>2. Len(sec) = n
    BY <2>1, MapSeq
  <2> QED BY <2>1, <2>2
<1>7. InSections(e, n, n1, n2)
  <2>1. \A k \in 1..n : e[k - 1].s <= e[k].s /\ e[k - 1].t <= e[k].t
    <3> SUFFICES ASSUME NEW k \in 1..n PROVE e[k - 1].s <= e[k].s /\ e[k - 1].t <= e[k].t
      OBVIOUS
    <3>1. ~(sec[k].to.s < sec[k].from.s \/ sec[k].to.t < sec[k].from.t)
      BY <1>6 DEF Throws, sec
    <3>2. sec[k].to = e[k] /\ sec[k].from = e[k - 1]
      <4>1. sec[k] = [from |-> e[k - 1], to |-> e[k]]
        BY ONLY <1>5, k \in 1..n
      <4> QED BY ONLY <4>1
    <3>3. e[k] \in EndType /\ e[k - 1] \in EndType
      <4>1. \A j \in 1..n : ends[j] \in EndType
        BY <1>2, ElementOfSeq DEF n
      <4>2. k = 1 \/ k - 1 \in 1..n
        BY <1>2
      <4>3. e[0] \in EndType
        BY <1>15
      <4>4. k - 1 = 0 \/ k - 1 \in 1..n
        BY ONLY <4>2
      <4> QED BY ONLY <1>5, <4>1, <4>3, <4>4, k \in 1..n
    <3> QED BY <3>1, <3>2, <3>3 DEF EndType
  <2>2. \A k \in 0..n : e[k] \in EndType
    <3>1. \A j \in 1..n : ends[j] \in EndType
      BY <1>2, ElementOfSeq DEF n
    <3>2. e[0] \in EndType
      BY <1>15
    <3>3. \A k \in 0..n : k = 0 \/ k \in 1..n
      OBVIOUS
    <3> QED BY <1>5, <3>1, <3>2, <3>3
  <2>3. e \in [0..n -> EndType]
    BY <1>5, <2>2
  <2>4. n \in 1..n
    BY <1>2
  <2> QED BY <1>2, <1>5, <2>1, <2>3, <2>4 DEF InSections
<1>8. \A k \in 0..n : e[k].s \in 0..n1 /\ e[k].t \in 0..n2
  BY <1>1, <1>7, SectionsInside
<1>9. /\ e[n].s = n1 /\ e[n].t = n2
      /\ \A k \in 1..n : e[k - 1].s <= e[k].s /\ e[k - 1].t <= e[k].t
  BY <1>7 DEF InSections
<1>10. ASSUME NEW k \in 1..n, NEW m \in D[k]
       PROVE  Leads(tryHard, m, files[s], files[t], e[k - 1].s, e[k - 1].t, e[k].s, e[k].t)
  <2> DEFINE a == e[k - 1].s
             b == e[k - 1].t
             p == e[k].s
             q == e[k].t
             x == SubSeq(files[s], a + 1, p)
             y == SubSeq(files[t], b + 1, q)
  <2>1. D[k] = SectionDiffs(x, y, tryHard)
    <3>1. sec[k].from = e[k - 1] /\ sec[k].to = e[k]
      <4>1. sec[k] = [from |-> e[k - 1], to |-> e[k]]
        BY ONLY <1>5, k \in 1..n
      <4> QED BY ONLY <4>1
    <3>2. D[k] = DiffsOf(tryHard, files[s], files[t], sec[k])
      OBVIOUS
    <3> QED BY ONLY <3>1, <3>2 DEF DiffsOf
  <2>2. k \in 0..n /\ k - 1 \in 0..n
    BY <1>2
  <2>3. a \in Nat /\ b \in Nat /\ p \in a..n1 /\ q \in b..n2
    <3>1. a \in 0..n1 /\ b \in 0..n2 /\ p \in 0..n1 /\ q \in 0..n2
      BY <1>8, <2>2
    <3>2. a <= p /\ b <= q
      BY <1>9
    <3> QED BY <3>1, <3>2
  <2> HIDE DEF a, b, p, q
  <2>4. Len(x) = p - a /\ p - a \in Nat /\ DOMAIN x = 1..p - a /\ \A j \in 1..p - a : x[j] = files[s][a + j]
    BY <1>1, <2>3, PartOfFile
  <2>5. Len(y) = q - b /\ q - b \in Nat /\ DOMAIN y = 1..q - b /\ \A j \in 1..q - b : y[j] = files[t][b + j]
    BY <1>1, <2>3, PartOfFile
  <2> HIDE DEF x, y, D
  <2>6. Leads(tryHard, m, x, y, 0, 0, p - a, q - b)
    <3>1. m \in SectionDiffs(x, y, tryHard)
      BY <1>10, <2>1
    <3>2. Leads(tryHard, m, x, y, 0, 0, Len(x), Len(y))
      BY <2>4, <2>5, <3>1, SectionLeads
    <3> QED BY <2>4, <2>5, <3>2
  <2>7. Leads(tryHard, m, files[s], files[t], a, b, a + (p - a), b + (q - b))
    <3>1. Piece(x, files[s], a, p - a) /\ Piece(y, files[t], b, q - b)
      BY ONLY <2>4, <2>5 DEF Piece
    <3> QED BY ONLY <2>3, <2>6, <3>1, LeadsShifted
  <2>8. a + (p - a) = p /\ b + (q - b) = q
    BY <1>1, <2>3
  <2> QED BY <2>7, <2>8 DEF a, b, p, q
<1> HIDE DEF f
<1>11. \A k \in 1..n : D[k] = DiffsOf(tryHard, files[s], files[t], sec[k])
  OBVIOUS
<1> HIDE DEF D
<1>12. \A k \in 1..n : D[k] \in SUBSET Seq(DiffType)
  <2> SUFFICES ASSUME NEW k \in 1..n, NEW m \in D[k] PROVE m \in Seq(DiffType)
    OBVIOUS
  <2>1. Leads(tryHard, m, files[s], files[t], e[k - 1].s, e[k - 1].t, e[k].s, e[k].t)
    BY <1>10
  <2> QED BY <2>1 DEF Leads
<1>13. Chain(tryHard, f, files[s], files[t], sec)
  <2>1. Len(sec) \in Nat /\ \A k \in 1..Len(sec) : DiffsOf(tryHard, files[s], files[t], sec[k]) \in SUBSET Seq(DiffType)
    BY <1>2, <1>6, <1>11, <1>12
  <2>2. \E g : Chain(tryHard, g, files[s], files[t], sec)
    BY ONLY <2>1, ChainMade
  <2> QED BY ONLY <2>2 DEF f
<1>17. f[0] = {<<>>} /\ \A k \in 1..n : f[k] = Extended(f[k - 1], D[k])
  <2>1. Len(sec) \in Nat
    BY <1>2, <1>6
  <2>2. /\ f[0] = {<<>>}
        /\ \A k \in 1..Len(sec) : f[k] = Extended(f[k - 1], DiffsOf(tryHard, files[s], files[t], sec[k]))
    BY ONLY <1>13, <2>1, ChainSteps
  <2> QED BY ONLY <1>6, <1>11, <2>2
<1> DEFINE T == {k \in Nat : k <= n => \A q \in f[k] : Leads(tryHard, q, files[s], files[t], 0, 0, e[k].s, e[k].t)}
<1>18. 0 \in T
  <2>1. Leads(tryHard, <<>>, files[s], files[t], 0, 0, 0, 0)
    BY LeadsNowhere
  <2> QED BY <1>5, <1>17, <2>1
<1>19. ASSUME NEW k \in Nat, k \in T PROVE k + 1 \in T
  <2> SUFFICES ASSUME k + 1 <= n, NEW r \in f[k + 1]
               PROVE  Leads(tryHard, r, files[s], files[t], 0, 0, e[k + 1].s, e[k + 1].t)
    OBVIOUS
  <2>1. k + 1 \in 1..n /\ k + 1 - 1 = k /\ k <= n
    BY <1>2
  <2>2. PICK q \in f[k], m \in D[k + 1] : r = q \o m
    <3>1. r \in Extended(f[k], D[k + 1])
      BY <1>17, <2>1
    <3> QED BY ONLY <3>1 DEF Extended
  <2>3. Leads(tryHard, q, files[s], files[t], 0, 0, e[k].s, e[k].t)
    BY <1>19, <2>1
  <2>4. Leads(tryHard, m, files[s], files[t], e[k].s, e[k].t, e[k + 1].s, e[k + 1].t)
    BY <1>10, <2>1
  <2> QED BY <2>2, <2>3, <2>4, LeadsJoined
<1> HIDE DEF T
<1>20. \A k \in Nat : k \in T
  BY <1>18, <1>19, SetInduction
<1>21. Leads(tryHard, l, files[s], files[t], 0, 0, e[n].s, e[n].t)
  <2>1. n \in T /\ n <= n /\ l \in f[n]
    BY <1>2, <1>3, <1>6, <1>20
  <2> QED BY <2>1 DEF T
<1> QED BY <1>9, <1>21 DEF n1, n2

-----------------------------------------------------------------------------
(* insertEntry().                                                            *)

LEMMA EntryChanged ==
    ASSUME NEW e \in EntryType, NEW s \in Sides, NEW range \in [first : Nat, last : Nat]
    PROVE  [e EXCEPT ![s] = range] \in EntryType /\ NewEntry(s, range) \in EntryType
<1>1. NoRange \in [first : Nat, last : Nat]
  BY DEF NoRange, NoLine
<1>2. EmptyEntry \in EntryType
  BY <1>1 DEF EmptyEntry, EntryType
<1> QED BY <1>2 DEF EntryType, NewEntry

LEMMA NewPlaceWell ==
    ASSUME NEW list \in Seq(EntryType), NEW s, NEW range
    PROVE  NewPlace(list, s, range) \in 1..Len(list) + 1
<1> DEFINE P(k) == FollowsNew(list, s, range, k)
           I == {k \in DOMAIN list : P(k)}
<1>1. Len(list) \in Nat /\ DOMAIN list = 1..Len(list)
  BY LenProperties
<1>2. CASE \E k \in DOMAIN list : P(k)
  <2>1. I \subseteq Nat /\ I # {}
    BY <1>1, <1>2
  <2> DEFINE x == Min(I)
  <2>2. x \in I /\ \A y \in I : x <= y
    BY <2>1, MinWell
  <2> HIDE DEF x
  <2>3. x \in DOMAIN list /\ P(x) /\ \A j \in 1..x - 1 : ~P(j)
    <3>1. \A j \in 1..x - 1 : j \in DOMAIN list /\ ~(x <= j)
      BY <1>1, <2>2
    <3> QED BY <2>2, <3>1
  <2> HIDE DEF P, I
  <2>4. (CHOOSE k \in DOMAIN list : P(k) /\ \A j \in 1..k - 1 : ~P(j)) \in DOMAIN list
    BY <2>3
  <2>5. NewPlace(list, s, range) = CHOOSE k \in DOMAIN list : P(k) /\ \A j \in 1..k - 1 : ~P(j)
    BY <1>2 DEF NewPlace, P
  <2> QED BY <1>1, <2>4, <2>5
<1>3. CASE ~\E k \in DOMAIN list : P(k)
  BY <1>1, <1>3 DEF NewPlace
<1> QED BY <1>2, <1>3

LEMMA WithNewType ==
    ASSUME NEW list \in Seq(EntryType), NEW s \in Sides, NEW range \in [first : Nat, last : Nat]
    PROVE  WithNew(list, s, range) \in Seq(EntryType)
<1> DEFINE place == NewPlace(list, s, range)
           goes(k) == k < place /\ FirstLine(list[k], s) # NoLine /\ Overlaps(range, list[k][s])
           kept == [k \in DOMAIN list |-> IF goes(k) THEN [list[k] EXCEPT ![s] = NoRange] ELSE list[k]]
           new == <<NewEntry(s, range)>>
<1>1. Len(list) \in Nat /\ DOMAIN list = 1..Len(list)
  BY LenProperties
<1>2. place \in 1..Len(list) + 1
  BY NewPlaceWell
<1> HIDE DEF place, goes
<1>3. NoRange \in [first : Nat, last : Nat]
  BY DEF NoRange, NoLine
<1>4. ASSUME NEW k \in 1..Len(list) PROVE kept[k] \in EntryType
  <2>1. list[k] \in EntryType
    BY ElementOfSeq
  <2>2. [list[k] EXCEPT ![s] = NoRange] \in EntryType
    BY <1>3, <2>1, EntryChanged
  <2>3. kept[k] = IF goes(k) THEN [list[k] EXCEPT ![s] = NoRange] ELSE list[k]
    BY <1>1
  <2> QED BY <2>1, <2>2, <2>3
<1>5. kept \in [1..Len(list) -> EntryType]
  BY <1>1, <1>4
<1> HIDE DEF kept
<1>6. kept \in Seq(EntryType) /\ Len(kept) = Len(list)
  BY ONLY <1>1, <1>5, MapSeq
<1>7. new \in Seq(EntryType)
  <2>1. EmptyEntry \in EntryType
    BY <1>3 DEF EmptyEntry, EntryType
  <2>2. NewEntry(s, range) \in EntryType
    BY <2>1, EntryChanged
  <2> QED BY <2>2
<1>8. InPlaceOf(SubSeq(kept, 1, place - 1) \o new \o SubSeq(kept, place - 1 + 1, Len(kept)),
                kept, new, place, place - 1, EntryType)
  <2>1. place \in 1..Len(kept) + 1 /\ place - 1 \in place - 1..Len(kept)
    BY <1>1, <1>2, <1>6
  <2> QED BY ONLY <1>6, <1>7, <2>1, InPlace
<1>9. place - 1 + 1 = place
  BY <1>1, <1>2
<1>10. WithNew(list, s, range) = SubSeq(kept, 1, place - 1) \o new \o SubSeq(kept, place, Len(kept))
  BY DEF WithNew, InsertAt, kept, goes, place, new
<1> QED BY <1>8, <1>9, <1>10 DEF InPlaceOf

LEMMA LiftType ==
    ASSUME NEW list \in Seq(EntryType), NEW k \in 1..Len(list)
    PROVE  Lift(list, k) \in Seq(EntryType) /\ Len(Lift(list, k)) = Len(list)
<1>1. Len(list) \in Nat
  BY LenProperties
<1>2. CASE k = Len(list)
  BY <1>2 DEF Lift
<1>3. CASE k # Len(list)
  <2> DEFINE u == Lifted(list[k], list[k + 1])
             l == LeftOver(list[k], list[k + 1])
             r == [list EXCEPT ![k] = u]
             w == [list EXCEPT ![k] = u, ![k + 1] = l]
  <2>1. k + 1 \in 1..Len(list)
    BY <1>1, <1>3
  <2>2. list[k] \in EntryType /\ list[k + 1] \in EntryType
    BY <2>1, ElementOfSeq
  <2>3. NoRange \in [first : Nat, last : Nat]
    BY DEF NoRange, NoLine
  <2>4. u \in EntryType /\ l \in EntryType
    BY <2>2, <2>3 DEF EntryType, Lifted, LeftOver
  <2> HIDE DEF u, l
  <2>5. r \in Seq(EntryType) /\ Len(r) = Len(list)
    BY <2>4, ExceptSeq
  <2>6. w = [r EXCEPT ![k + 1] = l]
    OBVIOUS
  <2>7. w \in Seq(EntryType) /\ Len(w) = Len(list)
    BY <2>1, <2>4, <2>5, <2>6, ExceptSeq
  <2> QED BY <1>3, <2>7 DEF Lift, u, l
<1> QED BY <1>2, <1>3

\* The list stays a list of entries.
LEMMA CompactedType ==
    ASSUME NEW list \in Seq(EntryType)
    PROVE  Compacted(list) \in Seq(EntryType)
<1> DEFINE n == Len(list)
           S == {l \in Seq(EntryType) : Len(l) = n}
           G == [z \in S \X (1..n) |-> Lift(z[1], z[2])]
           Is(f) == f = [k \in 0..Len(list) |-> IF k = 0 THEN list ELSE Lift(f[k - 1], k)]
           f == CHOOSE g : Is(g)
<1>1. n \in Nat /\ list \in S
  BY LenProperties
<1>2. \A x \in S, k \in 1..n : G[<<x, k>>] = Lift(x, k) /\ G[<<x, k>>] \in S
  <2> SUFFICES ASSUME NEW x \in S, NEW k \in 1..n
               PROVE  G[<<x, k>>] = Lift(x, k) /\ G[<<x, k>>] \in S
    OBVIOUS
  <2>1. G[<<x, k>>] = Lift(x, k)
    OBVIOUS
  <2> HIDE DEF G
  <2>2. x \in Seq(EntryType) /\ k \in 1..Len(x) /\ Len(x) = n
    OBVIOUS
  <2>3. Lift(x, k) \in Seq(EntryType) /\ Len(Lift(x, k)) = Len(x)
    BY ONLY <2>2, LiftType
  <2> QED BY <2>1, <2>2, <2>3
<1> HIDE DEF G
<1>3. PICK g : /\ g = [k \in 0..n |-> IF k = 0 THEN list ELSE G[<<g[k - 1], k>>]]
               /\ g \in [0..n -> S]
  <2> HIDE DEF S, n
  <2>1. \A x \in S, k \in 1..n : G[<<x, k>>] \in S
    BY <1>2
  <2> QED BY ONLY <1>1, <2>1, RecursionExists
<1>4. Is(g)
  <2>1. \A k \in 0..n : k # 0 => k \in 1..n /\ k - 1 \in 0..n
    BY <1>1
  <2> HIDE DEF S
  <2>2. \A k \in 0..n : g[k] = IF k = 0 THEN list ELSE Lift(g[k - 1], k)
    <3> SUFFICES ASSUME NEW k \in 0..n PROVE g[k] = IF k = 0 THEN list ELSE Lift(g[k - 1], k)
      OBVIOUS
    <3>1. g[k] = IF k = 0 THEN list ELSE G[<<g[k - 1], k>>]
      BY <1>3
    <3>2. k # 0 => k \in 1..n /\ g[k - 1] \in S
      BY <1>3, <2>1
    <3>3. k # 0 => G[<<g[k - 1], k>>] = Lift(g[k - 1], k)
      BY <1>2, <3>2
    <3> QED BY <3>1, <3>3
  <2>3. g = [k \in 0..n |-> g[k]]
    BY <1>3
  <2> QED BY <2>2, <2>3 DEF n
<1>5. Is(f)
  BY <1>4
<1> HIDE DEF f
<1> DEFINE T == {k \in Nat : k <= n => f[k] \in S}
<1>6. f[0] = list /\ \A k \in 1..n : f[k] = Lift(f[k - 1], k)
  <2>1. 0 \in 0..n /\ \A k \in 1..n : k \in 0..n /\ k # 0
    BY <1>1
  <2>2. \A k \in 0..n : f[k] = IF k = 0 THEN list ELSE Lift(f[k - 1], k)
    BY <1>5
  <2> QED BY <2>1, <2>2
<1>7. 0 \in T
  BY <1>1, <1>6
<1>8. ASSUME NEW k \in Nat, k \in T PROVE k + 1 \in T
  <2> SUFFICES ASSUME k + 1 <= n PROVE f[k + 1] \in S
    OBVIOUS
  <2>1. k + 1 \in 1..n /\ k + 1 - 1 = k /\ k <= n
    BY <1>1
  <2>2. f[k] \in S
    BY <1>8, <2>1
  <2> HIDE DEF S, n
  <2>3. f[k + 1] = Lift(f[k], k + 1)
    BY <1>6, <2>1
  <2>4. G[<<f[k], k + 1>>] = Lift(f[k], k + 1) /\ G[<<f[k], k + 1>>] \in S
    BY ONLY <1>2, <2>1, <2>2
  <2> QED BY <2>3, <2>4
<1> HIDE DEF T
<1>9. \A k \in Nat : k \in T
  BY <1>7, <1>8, SetInduction
<1>10. f[n] \in Seq(EntryType)
  BY <1>1, <1>9 DEF T
<1> DEFINE all == f[n]
           K == {k \in DOMAIN all : all[k] # EmptyEntry}
<1>11. Kept(all, K) \in Seq(EntryType)
  <2> HIDE DEF all
  <2>1. K \subseteq Int
    BY <1>10, LenProperties DEF all
  <2> HIDE DEF K
  <2>2. KeptWell(all, K, EntryType)
    BY <1>10, <2>1, KeptElements DEF all
  <2> QED BY <2>2 DEF KeptWell
<1>12. Compacted(list) = Kept(all, K)
  BY DEF Compacted, f, n
<1> QED BY <1>11, <1>12

LEMMA InsertEntryType ==
    ASSUME NEW list \in Seq(EntryType), NEW s \in Sides, NEW range \in [first : Nat, last : Nat]
    PROVE  InsertEntry(list, s, range) \in Seq(EntryType)
<1>1. WithNew(list, s, range) \in Seq(EntryType)
  BY WithNewType
<1> QED BY <1>1, CompactedType DEF InsertEntry

-----------------------------------------------------------------------------
(* Which rows the first two passes make.                                     *)

\* A row is exact when its three pairs are.
LEMMA ThreePairs ==
    ASSUME NEW row, NEW f
    PROVE  Exact(row, f) <=> /\ AB \in row.eq <=> Alike(row, f, "A", "B")
                             /\ AC \in row.eq <=> Alike(row, f, "A", "C")
                             /\ BC \in row.eq <=> Alike(row, f, "B", "C")
<1>1. /\ {"A", "B"} = AB /\ {"B", "A"} = AB /\ {"A", "C"} = AC /\ {"C", "A"} = AC
      /\ {"B", "C"} = BC /\ {"C", "B"} = BC
  BY DEF AB, AC, BC
<1>2. \A s, t \in Sides : Alike(row, f, s, t) <=> Alike(row, f, t, s)
  BY DEF Alike
<1>3. "A" \in Sides /\ "B" \in Sides /\ "C" \in Sides /\ "A" # "B" /\ "A" # "C" /\ "B" # "C"
  BY DEF Sides
<1>4. \A s \in Sides : s = "A" \/ s = "B" \/ s = "C"
  BY DEF Sides
<1>5. ASSUME Exact(row, f)
      PROVE  /\ AB \in row.eq <=> Alike(row, f, "A", "B")
             /\ AC \in row.eq <=> Alike(row, f, "A", "C")
             /\ BC \in row.eq <=> Alike(row, f, "B", "C")
  BY <1>1, <1>3, <1>5 DEF Exact
<1>6. ASSUME AB \in row.eq <=> Alike(row, f, "A", "B"), AC \in row.eq <=> Alike(row, f, "A", "C"),
             BC \in row.eq <=> Alike(row, f, "B", "C")
      PROVE  Exact(row, f)
  <2> SUFFICES ASSUME NEW s \in Sides, NEW t \in Sides, s # t
               PROVE  {s, t} \in row.eq <=> Alike(row, f, s, t)
    BY DEF Exact
  <2>1. CASE s = "A"
    BY <1>1, <1>4, <1>6, <2>1
  <2>2. CASE s = "B"
    <3>1. Alike(row, f, "B", "A") <=> Alike(row, f, "A", "B")
      BY <1>2, <1>3
    <3> QED BY <1>1, <1>4, <1>6, <2>2, <3>1
  <2>3. CASE s = "C"
    <3>1. /\ Alike(row, f, "C", "A") <=> Alike(row, f, "A", "C")
          /\ Alike(row, f, "C", "B") <=> Alike(row, f, "B", "C")
      BY <1>2, <1>3
    <3> QED BY <1>1, <1>4, <1>6, <2>3, <3>1
  <2> QED BY <1>4, <2>1, <2>2, <2>3
<1> QED BY <1>5, <1>6

\* The three pairs are three.
LEMMA PairsDiffer == AB # AC /\ AB # BC /\ AC # BC /\ AB \in Pairs /\ AC \in Pairs /\ BC \in Pairs
BY DEF AB, AC, BC, Pairs

\* The rows of A and B.
FirstRows(hard, f) == {row \in RowType : (hard => Exact(row, f)) /\ row.at["C"] = NoLine /\ row # EmptyRow}

LEMMA EqualRowExact ==
    ASSUME NEW hard, NEW f, NEW a \in Nat \ {0}, NEW b \in Nat \ {0}, f["A"][a] = f["B"][b]
    PROVE  Row(a, b, NoLine, {AB}) \in FirstRows(hard, f)
<1> DEFINE row == Row(a, b, NoLine, {AB})
<1>1. {AB} \in SUBSET Pairs /\ NoLine \in Nat
  BY PairsDiffer DEF NoLine
<1>2. /\ row \in RowType /\ row.eq = {AB}
      /\ row.at["A"] = a /\ row.at["B"] = b /\ row.at["C"] = NoLine
  BY <1>1, RowMade
<1>3. EmptyRow.at["A"] = NoLine
  BY DEF EmptyRow, Row
<1> HIDE DEF row
<1>4. Alike(row, f, "A", "B") /\ ~Alike(row, f, "A", "C") /\ ~Alike(row, f, "B", "C")
  BY <1>2 DEF Alike, NoLine
<1>5. Exact(row, f)
  BY <1>2, <1>4, PairsDiffer, ThreePairs
<1>6. row # EmptyRow
  BY <1>2, <1>3 DEF NoLine
<1> QED BY <1>2, <1>5, <1>6 DEF FirstRows, row

LEMMA LoneRowExact ==
    ASSUME NEW hard, NEW f, NEW a \in Nat, NEW b \in Nat, a # NoLine \/ b # NoLine,
           hard /\ a # NoLine /\ b # NoLine => f["A"][a] # f["B"][b]
    PROVE  Row(a, b, NoLine, {}) \in FirstRows(hard, f)
<1> DEFINE row == Row(a, b, NoLine, {})
<1>1. {} \in SUBSET Pairs /\ NoLine \in Nat
  BY DEF NoLine
<1>2. /\ row \in RowType /\ row.eq = {}
      /\ row.at["A"] = a /\ row.at["B"] = b /\ row.at["C"] = NoLine
  BY <1>1, RowMade
<1>3. EmptyRow.at["A"] = NoLine /\ EmptyRow.at["B"] = NoLine
  BY DEF EmptyRow, Row
<1> HIDE DEF row
<1>4. hard => ~Alike(row, f, "A", "B") /\ ~Alike(row, f, "A", "C") /\ ~Alike(row, f, "B", "C")
  BY <1>2 DEF Alike
<1>5. hard => Exact(row, f)
  BY <1>2, <1>4, ThreePairs
<1>6. row # EmptyRow
  BY <1>2, <1>3
<1> QED BY <1>2, <1>5, <1>6 DEF FirstRows, row

\* One Diff of A and B.
LEMMA PairExact ==
    ASSUME NEW hard, NEW f, NEW d \in DiffType, NEW a \in Nat, NEW b \in Nat, Fits(hard, f["A"], f["B"], d, a, b)
    PROVE  /\ \A k \in 1..d.eq : Row(a + k, b + k, NoLine, {AB}) \in FirstRows(hard, f)
           /\ \A k \in 1..Max({d.d1, d.d2}) :
                 Row(LoneOr(a + d.eq, k, d.d1), LoneOr(b + d.eq, k, d.d2), NoLine, {}) \in FirstRows(hard, f)
<1>1. d.eq \in {0, 1} /\ d.d1 \in Nat /\ d.d2 \in Nat
  BY DEF DiffType
<1>2. ASSUME NEW k \in 1..d.eq PROVE Row(a + k, b + k, NoLine, {AB}) \in FirstRows(hard, f)
  <2>1. d.eq = 1 /\ k = 1
    BY <1>1
  <2>2. f["A"][a + 1] = f["B"][b + 1] /\ a + 1 \in Nat \ {0} /\ b + 1 \in Nat \ {0}
    BY <2>1 DEF Fits
  <2> QED BY <2>1, <2>2, EqualRowExact
<1>3. ASSUME NEW k \in 1..Max({d.d1, d.d2})
      PROVE  Row(LoneOr(a + d.eq, k, d.d1), LoneOr(b + d.eq, k, d.d2), NoLine, {}) \in FirstRows(hard, f)
  <2> DEFINE x == LoneOr(a + d.eq, k, d.d1)
             y == LoneOr(b + d.eq, k, d.d2)
             top == Max({d.d1, d.d2})
  <2>1. top \in {d.d1, d.d2}
    BY <1>1, MaxOfTwo
  <2>2. k \in 1..d.d1 \/ k \in 1..d.d2
    BY <1>1, <2>1
  <2> HIDE DEF top
  <2>3. k \in Nat \ {0}
    BY <1>1, <2>2
  <2>4. x \in Nat /\ y \in Nat /\ (x # NoLine \/ y # NoLine)
    BY <1>1, <2>2, <2>3 DEF LoneOr, NoLine
  <2>5. ASSUME hard, x # NoLine, y # NoLine PROVE f["A"][x] # f["B"][y]
    <3>1. k \in 1..d.d1 /\ k <= d.d2 /\ x = a + d.eq + k /\ y = b + d.eq + k
      BY <1>1, <2>3, <2>5 DEF LoneOr
    <3> QED BY <2>5, <3>1 DEF Fits
  <2> HIDE DEF x, y
  <2>6. Row(x, y, NoLine, {}) \in FirstRows(hard, f)
    BY ONLY <2>4, <2>5, LoneRowExact
  <2> QED BY <2>6 DEF x, y
<1> QED BY <1>2, <1>3

\* The rows with lines of C.
ExactRows(hard, f) == {row \in RowType : (hard => Exact(row, f))}

LEMMA JoinedExact ==
    ASSUME NEW hard, NEW f, NEW row \in ExactRows(hard, f), row.at["A"] # NoLine, row.at["C"] = NoLine,
           NEW c \in Nat \ {0}, f["A"][row.at["A"]] = f["C"][c]
    PROVE  JoinC(row, c) \in ExactRows(hard, f)
<1> DEFINE w == JoinC(row, c)
<1>1. row \in RowType /\ (hard => Exact(row, f))
  BY DEF ExactRows
<1>2. /\ w.at \in [Sides -> Nat]
      /\ w.at["A"] = row.at["A"] /\ w.at["B"] = row.at["B"] /\ w.at["C"] = c
  BY <1>1 DEF RowType, JoinC, Sides
<1>3. w.eq = row.eq \cup {AC} \cup (IF AB \in row.eq THEN {BC} ELSE {})
  BY DEF JoinC
<1>4. w \in RowType
  <2>1. row.eq \in SUBSET Pairs
    BY <1>1 DEF RowType
  <2>2. w.eq \in SUBSET Pairs
    BY <1>3, <2>1, PairsDiffer
  <2>3. w = [at |-> w.at, eq |-> w.eq]
    BY DEF JoinC
  <2> HIDE DEF w
  <2> QED BY <1>2, <2>2, <2>3 DEF RowType
<1> HIDE DEF w
<1>5. ASSUME hard PROVE Exact(w, f)
  <2>1. /\ AB \in row.eq <=> Alike(row, f, "A", "B")
        /\ AC \in row.eq <=> Alike(row, f, "A", "C")
        /\ BC \in row.eq <=> Alike(row, f, "B", "C")
    BY <1>1, <1>5, ThreePairs
  <2>2. AC \notin row.eq /\ BC \notin row.eq
    BY <2>1 DEF Alike
  <2>3. (AB \in w.eq <=> AB \in row.eq) /\ AC \in w.eq /\ (BC \in w.eq <=> AB \in row.eq)
    BY <1>3, <2>2, PairsDiffer
  <2>4. Alike(w, f, "A", "B") <=> Alike(row, f, "A", "B")
    BY <1>2 DEF Alike
  <2>5. Alike(w, f, "A", "C")
    BY <1>2 DEF Alike, NoLine
  <2>6. Alike(w, f, "B", "C") <=> Alike(row, f, "A", "B")
    BY <1>2 DEF Alike, NoLine
  <2> QED BY <2>1, <2>3, <2>4, <2>5, <2>6, ThreePairs
<1> QED BY <1>4, <1>5 DEF ExactRows, w

LEMMA LoneCExact ==
    ASSUME NEW hard, NEW f, NEW c \in Nat
    PROVE  Row(NoLine, NoLine, c, {}) \in ExactRows(hard, f)
<1> DEFINE row == Row(NoLine, NoLine, c, {})
<1>1. {} \in SUBSET Pairs /\ NoLine \in Nat
  BY DEF NoLine
<1>2. row \in RowType /\ row.eq = {} /\ row.at["A"] = NoLine /\ row.at["B"] = NoLine
  BY <1>1, RowMade
<1> HIDE DEF row
<1>3. ~Alike(row, f, "A", "B") /\ ~Alike(row, f, "A", "C") /\ ~Alike(row, f, "B", "C")
  BY <1>2 DEF Alike
<1>4. Exact(row, f)
  BY <1>2, <1>3, ThreePairs
<1> QED BY <1>2, <1>4 DEF ExactRows, row

\* One Diff of A and C.
LEMMA ThirdExact ==
    ASSUME NEW hard, NEW f, NEW d \in DiffType, NEW a \in Nat, NEW c \in Nat, Fits(hard, f["A"], f["C"], d, a, c)
    PROVE  /\ d.eq = 1 => \A row \in ExactRows(hard, f) :
                 row.at["A"] = a + 1 /\ row.at["C"] = NoLine => JoinC(row, c + 1) \in ExactRows(hard, f)
           /\ \A k \in 1..d.d2 : Row(NoLine, NoLine, c + d.eq + k, {}) \in ExactRows(hard, f)
<1>1. d.eq \in {0, 1} /\ d.d1 \in Nat /\ d.d2 \in Nat
  BY DEF DiffType
<1>2. ASSUME d.eq = 1, NEW row \in ExactRows(hard, f), row.at["A"] = a + 1, row.at["C"] = NoLine
      PROVE  JoinC(row, c + 1) \in ExactRows(hard, f)
  <2>1. f["A"][row.at["A"]] = f["C"][c + 1] /\ row.at["A"] # NoLine /\ c + 1 \in Nat \ {0}
    BY <1>2 DEF Fits, NoLine
  <2> QED BY <1>2, <2>1, JoinedExact
<1>3. ASSUME NEW k \in 1..d.d2 PROVE Row(NoLine, NoLine, c + d.eq + k, {}) \in ExactRows(hard, f)
  <2>1. c + d.eq + k \in Nat
    BY <1>1
  <2> QED BY <2>1, LoneCExact
<1> QED BY <1>2, <1>3

-----------------------------------------------------------------------------
(* The inductive invariant.  Each pass says which lines its rows hold, and   *)
(* where the diffs still to be read lead to.                                 *)
TypeOK ==
    /\ files \in [Sides -> Seq(Text)]
    /\ three \in BOOLEAN /\ alignBC \in BOOLEAN /\ tryHard \in BOOLEAN /\ again \in BOOLEAN
    /\ edits \in Nat
    /\ manual \in Seq(EntryType)
    /\ phase \in {"diffAB", "addAB", "diffAC", "addAC", "manual", "trim", "diffBC", "addBC", "done", "error"}
    /\ rows \in Seq(RowType)
    /\ diffs \in Seq(DiffType)
    /\ read \in [Sides -> Nat]
    /\ here \in Nat \ {0} /\ help \in Nat \ {0}
    /\ cur \in [Sides -> Nat \ {0}]

\* The rows of A and B, and those of three inputs, before they are corrected.
Early == phase \in {"diffAB", "addAB", "diffAC", "addAC"}

\* In which order the passes run.
PassOrder ==
    /\ ~three => phase \in {"diffAB", "addAB", "done", "error"}
    /\ Early => ~again
    /\ phase = "diffBC" => again
    /\ phase = "addBC" => again /\ alignBC
    /\ again => alignBC \/ phase \in {"diffBC", "done", "error"}
    /\ phase = "diffAB" => rows = <<>>

\* The rows hold all lines of s, and the diffs left account for those not read.
Full(s) == LinesIn(rows, s, 1, Len(rows), 0, Size(s))
Leading(s, t) == Leads(tryHard, diffs, files[s], files[t], read[s], read[t], Size(s), Size(t))

ReadAB ==
    phase = "addAB" =>
        /\ Leading("A", "B")
        /\ \A s \in {"A", "B"} : LinesIn(rows, s, 1, Len(rows), 0, read[s])

NoneOfC == phase \in {"addAB", "diffAC"} => \A k \in 1..Len(rows) : rows[k].at["C"] = NoLine

ReadAC ==
    phase = "addAC" =>
        /\ Leading("A", "C")
        /\ \E m \in 0..read["A"] : ThirdFits(rows, here, Size("A"), Size("B"), m, read["C"])

StateBC == [rows |-> rows, ib |-> cur["B"], ic |-> cur["C"]]
ReadBC ==
    phase = "addBC" =>
        /\ Leading("B", "C")
        /\ BCFits(StateBC, Size("B"), Size("C"), read["B"], read["C"])

\* The pass that aligns B and C does not keep the lines of A.
Sure == IF again /\ alignBC /\ phase # "diffBC" THEN {"B", "C"} ELSE Sides

LinesThere ==
    /\ phase = "diffAC" => Full("A") /\ Full("B")
    /\ phase \in {"manual", "trim", "diffBC"} => \A s \in Sure : Full(s)
    /\ phase = "done" => \A s \in Sure \cap Shown : Full(s)

RowsNonempty ==
    phase \in {"addAB", "diffBC", "done"} => \A k \in 1..Len(rows) : rows[k] # EmptyRow

RoomFree == phase = "trim" => TrimWell([rows |-> rows, cur |-> cur], here)

\* If the diffs try hard, as long as nothing is aligned by hand, and B and C are not.
Flagged == tryHard /\ (Early \/ (manual = <<>> /\ Sure = Sides)) => AllExact(rows, files)

IInv ==
    /\ TypeOK /\ PassOrder
    /\ ReadAB /\ NoneOfC /\ ReadAC /\ ReadBC
    /\ LinesThere /\ RowsNonempty /\ RoomFree /\ Flagged

LEMMA InitHolds == Init => IInv
<1> SUFFICES ASSUME Init PROVE IInv
  OBVIOUS
<1>1. PICK x \in Scenarios : /\ files = x.files /\ three = x.three /\ alignBC = x.alignBC
                             /\ tryHard = x.tryHard /\ edits = x.edits
  BY DEF Init
<1>2. /\ manual = <<>> /\ phase = "diffAB" /\ again = FALSE /\ rows = <<>> /\ diffs = <<>>
      /\ read = Zero /\ here = 1 /\ cur = Start /\ help = 1
  BY DEF Init
<1>3. TypeOK
  <2>1. /\ x.files \in [Sides -> Seq(Text)] /\ x.three \in BOOLEAN /\ x.alignBC \in BOOLEAN
        /\ x.tryHard \in BOOLEAN /\ x.edits \in Nat
    BY ScenarioAssumption
  <2>2. /\ files \in [Sides -> Seq(Text)] /\ three \in BOOLEAN /\ alignBC \in BOOLEAN
        /\ tryHard \in BOOLEAN /\ edits \in Nat
    BY <1>1, <2>1
  <2>3. manual \in Seq(EntryType) /\ rows \in Seq(RowType) /\ diffs \in Seq(DiffType)
    BY <1>2, EmptySeq
  <2>4. /\ read \in [Sides -> Nat] /\ cur \in [Sides -> Nat \ {0}]
        /\ here \in Nat \ {0} /\ help \in Nat \ {0}
    BY <1>2 DEF Zero, Start
  <2> QED BY <1>2, <2>2, <2>3, <2>4 DEF TypeOK
<1>4. PassOrder
  BY <1>2 DEF PassOrder, Early
<1>5. ReadAB /\ NoneOfC /\ ReadAC /\ ReadBC /\ LinesThere /\ RowsNonempty /\ RoomFree
  BY <1>2 DEF ReadAB, NoneOfC, ReadAC, ReadBC, LinesThere, RowsNonempty, RoomFree
<1>6. Flagged
  <2>1. Len(rows) = 0
    BY <1>2, EmptySeq
  <2> QED BY <2>1 DEF Flagged, AllExact
<1> QED BY <1>3, <1>4, <1>5, <1>6 DEF IInv

LEMMA StutterKeeps == IInv /\ UNCHANGED vars => IInv'
BY DEF IInv, vars, TypeOK, PassOrder, ReadAB, NoneOfC, ReadAC, ReadBC, LinesThere, RowsNonempty,
       RoomFree, Flagged, Early, Sure, Full, Leading, Size, StateBC, Shown

\* The list of manual alignments changes: everything starts over.
LEMMA RestartKeeps ==
    ASSUME IInv, Restart, manual' \in Seq(EntryType), edits' \in Nat
    PROVE  IInv'
<1>1. /\ phase' = "diffAB" /\ again' = FALSE /\ rows' = <<>> /\ diffs' = <<>>
      /\ read' = Zero /\ here' = 1 /\ cur' = Start /\ help' = 1
      /\ files' = files /\ three' = three /\ alignBC' = alignBC /\ tryHard' = tryHard
  BY DEF Restart, input
<1>2. files \in [Sides -> Seq(Text)] /\ three \in BOOLEAN /\ alignBC \in BOOLEAN /\ tryHard \in BOOLEAN
  BY DEF IInv, TypeOK
<1>3. rows' \in Seq(RowType) /\ diffs' \in Seq(DiffType)
  BY <1>1, EmptySeq
<1>4. /\ read' \in [Sides -> Nat] /\ cur' \in [Sides -> Nat \ {0}]
      /\ here' \in Nat \ {0} /\ help' \in Nat \ {0}
  BY <1>1 DEF Zero, Start
<1>5. TypeOK'
  BY <1>1, <1>2, <1>3, <1>4 DEF TypeOK
<1>6. PassOrder'
  BY <1>1 DEF PassOrder, Early
<1>7. (ReadAB /\ NoneOfC /\ ReadAC /\ ReadBC /\ LinesThere /\ RowsNonempty /\ RoomFree)'
  BY <1>1 DEF ReadAB, NoneOfC, ReadAC, ReadBC, LinesThere, RowsNonempty, RoomFree
<1>8. Flagged'
  <2>1. Len(rows') = 0
    BY <1>1, EmptySeq
  <2> QED BY <2>1 DEF Flagged, AllExact
<1> QED BY <1>5, <1>6, <1>7, <1>8 DEF IInv

LEMMA UserKeeps == IInv /\ User => IInv'
<1> SUFFICES ASSUME IInv, User PROVE IInv'
  OBVIOUS
<1>1. manual \in Seq(EntryType) /\ edits \in Nat /\ files \in [Sides -> Seq(Text)]
  BY DEF IInv, TypeOK
<1>2. ASSUME NEW s \in Shown, NEW range \in Ranges(s), AddManualDiffHelp(s, range) PROVE IInv'
  <2>1. s \in Sides /\ range \in [first : Nat, last : Nat]
    <3>1. s \in Sides
      BY DEF Shown, Sides
    <3>2. Size(s) \in Nat
      BY <1>1, <3>1, LenProperties DEF Size
    <3>3. range \in [first : 1..Size(s), last : 1..Size(s)]
      BY DEF Ranges
    <3> QED BY <3>1, <3>2, <3>3
  <2>2. Restart /\ edits' \in Nat /\ manual' = InsertEntry(manual, s, range)
    BY <1>1, <1>2 DEF AddManualDiffHelp
  <2>3. manual' \in Seq(EntryType)
    BY <1>1, <2>1, <2>2, InsertEntryType
  <2> QED BY <2>2, <2>3, RestartKeeps
<1>3. ASSUME ClearManualDiffHelpList PROVE IInv'
  <2>1. Restart /\ edits' \in Nat /\ manual' = <<>>
    BY <1>1, <1>3 DEF ClearManualDiffHelpList
  <2>2. manual' \in Seq(EntryType)
    BY <2>1, EmptySeq
  <2> QED BY <2>1, <2>2, RestartKeeps
<1> QED BY <1>2, <1>3 DEF User

\* A diff of two inputs fails, or leads through both of them.
DiffBegins(s, t, next) ==
    /\ UNCHANGED <<input, edits, manual, again, rows, help>>
    /\ \/ phase' = "error" /\ UNCHANGED <<diffs, read, here, cur>>
       \/ /\ phase' = next
          /\ Leads(tryHard, diffs', files[s], files[t], 0, 0, Size(s), Size(t))
          /\ read' = Zero /\ here' = 1 /\ cur' = Start

LEMMA DiffRuns ==
    ASSUME IInv, NEW now, NEW s \in Sides, NEW t \in Sides, NEW next, Diff(now, s, t, next)
    PROVE  phase = now /\ DiffBegins(s, t, next)
<1>1. files \in [Sides -> Seq(Text)] /\ manual \in Seq(EntryType)
  BY DEF IInv, TypeOK
<1>2. phase = now /\ UNCHANGED <<input, edits, manual, again, rows, help>>
  BY DEF Diff
<1>3. CASE Throws(s, t)
  BY <1>2, <1>3 DEF Diff, DiffBegins
<1>4. CASE ~Throws(s, t)
  <2>1. phase' = next /\ diffs' \in RunDiff(s, t) /\ read' = Zero /\ here' = 1 /\ cur' = Start
    BY <1>4 DEF Diff
  <2>2. Leads(tryHard, diffs', files[s], files[t], 0, 0, Size(s), Size(t))
    BY <1>1, <1>4, <2>1, RunDiffLeads
  <2> QED BY <1>2, <2>1, <2>2 DEF DiffBegins
<1> QED BY <1>3, <1>4

\* The types are kept, whatever pass follows.
LEMMA DiffTypes ==
    ASSUME IInv, NEW s \in Sides, NEW t \in Sides, NEW next \in {"addAB", "addAC", "addBC", "done"},
           DiffBegins(s, t, next)
    PROVE  TypeOK'
<1>1. TypeOK
  BY DEF IInv
<1>2. /\ files' = files /\ three' = three /\ alignBC' = alignBC /\ tryHard' = tryHard /\ edits' = edits /\ manual' = manual
      /\ again' = again /\ rows' = rows /\ help' = help
  BY DEF DiffBegins, input
<1>3. CASE phase' = "error" /\ UNCHANGED <<diffs, read, here, cur>>
  BY <1>1, <1>2, <1>3 DEF TypeOK
<1>4. CASE /\ phase' = next /\ Leads(tryHard, diffs', files[s], files[t], 0, 0, Size(s), Size(t))
           /\ read' = Zero /\ here' = 1 /\ cur' = Start
  <2>1. /\ read' \in [Sides -> Nat] /\ cur' \in [Sides -> Nat \ {0}] /\ here' \in Nat \ {0}
    BY <1>4 DEF Zero, Start
  <2>2. diffs' \in Seq(DiffType)
    BY <1>4 DEF Leads
  <2> QED BY <1>1, <1>2, <1>4, <2>1, <2>2 DEF TypeOK
<1> QED BY <1>3, <1>4 DEF DiffBegins

\* When a diff fails nothing is known but what the rows were.
LEMMA DiffFails ==
    ASSUME IInv, NEW s \in Sides, NEW t \in Sides, NEW next \in {"addAB", "addAC", "addBC", "done"},
           DiffBegins(s, t, next), phase' = "error", phase \in {"diffAB", "diffAC", "diffBC"}
    PROVE  IInv'
<1>1. TypeOK'
  BY DiffTypes
<1>2. /\ files' = files /\ three' = three /\ alignBC' = alignBC /\ tryHard' = tryHard /\ manual' = manual
      /\ again' = again /\ rows' = rows
  BY DEF DiffBegins, input
<1>3. PassOrder'
  BY <1>2 DEF PassOrder, Early
<1>4. (ReadAB /\ NoneOfC /\ ReadAC /\ ReadBC /\ LinesThere /\ RowsNonempty /\ RoomFree)'
  BY <1>2 DEF ReadAB, NoneOfC, ReadAC, ReadBC, LinesThere, RowsNonempty, RoomFree
<1>5. Flagged'
  <2> SUFFICES ASSUME tryHard', manual' = <<>> PROVE AllExact(rows', files')
    BY DEF Flagged, Early
  <2>1. Early \/ Sure = Sides
    BY DEF Early, Sure
  <2>2. AllExact(rows, files)
    BY <1>2, <2>1 DEF IInv, Flagged
  <2> QED BY <1>2, <2>2
<1> QED BY <1>1, <1>3, <1>4, <1>5 DEF IInv

LEMMA SizeIsNat ==
    ASSUME TypeOK, NEW s \in Sides
    PROVE  Size(s) \in Nat
BY LenProperties DEF TypeOK, Size

LEMMA DiffABKeeps == IInv /\ DiffAB => IInv'
<1> SUFFICES ASSUME IInv, DiffAB PROVE IInv'
  OBVIOUS
<1>1. "A" \in Sides /\ "B" \in Sides /\ "addAB" \in {"addAB", "addAC", "addBC", "done"}
  BY DEF Sides
<1>2. phase = "diffAB" /\ DiffBegins("A", "B", "addAB")
  BY <1>1, DiffRuns DEF DiffAB
<1>3. CASE phase' = "error"
  BY <1>1, <1>2, <1>3, DiffFails
<1>4. CASE phase' # "error"
  <2>1. /\ files' = files /\ three' = three /\ alignBC' = alignBC /\ tryHard' = tryHard /\ manual' = manual
        /\ again' = again /\ rows' = rows
    BY <1>2 DEF DiffBegins, input
  <2>2. /\ phase' = "addAB" /\ read' = Zero
        /\ Leads(tryHard, diffs', files["A"], files["B"], 0, 0, Size("A"), Size("B"))
    BY <1>2, <1>4 DEF DiffBegins
  <2>3. TypeOK'
    BY <1>1, <1>2, DiffTypes
  <2>4. PassOrder'
    BY <1>2, <2>1, <2>2 DEF IInv, PassOrder, Early
  <2>5. rows' = <<>> /\ Len(rows') = 0
    BY <1>2, <2>1, EmptySeq DEF IInv, PassOrder
  <2>6. read'["A"] = 0 /\ read'["B"] = 0
    BY <2>2 DEF Zero, Sides
  <2>7. ReadAB'
    <3>1. Leading("A", "B")'
      BY <2>1, <2>2, <2>6 DEF Leading, Size
    <3>2. \A s \in {"A", "B"} : LinesIn(rows', s, 1, Len(rows'), 0, read'[s])
      <4>1. \A s \in {"A", "B"} : LinesIn(rows', s, 1, 0, 0, 0)
        <5>1. 1 \in Nat \ {0} /\ 0 \in Nat /\ 1 <= 0 + 1
          OBVIOUS
        <5>2. \A s \in {"A", "B"} : \A k \in 1..0 : rows'[k].at[s] = NoLine
          OBVIOUS
        <5> QED BY ONLY <5>1, <5>2, LinesNone
      <4> QED BY <2>5, <2>6, <4>1
    <3> QED BY <3>1, <3>2 DEF ReadAB
  <2>8. (NoneOfC /\ ReadAC /\ ReadBC /\ LinesThere /\ RowsNonempty /\ RoomFree)'
    BY <2>2, <2>5 DEF NoneOfC, ReadAC, ReadBC, LinesThere, RowsNonempty, RoomFree
  <2>9. Flagged'
    BY <2>5 DEF Flagged, AllExact
  <2> QED BY <2>3, <2>4, <2>7, <2>8, <2>9 DEF IInv
<1> QED BY <1>3, <1>4

LEMMA DiffACKeeps == IInv /\ DiffAC => IInv'
<1> SUFFICES ASSUME IInv, DiffAC PROVE IInv'
  OBVIOUS
<1>1. "A" \in Sides /\ "B" \in Sides /\ "C" \in Sides /\ "addAC" \in {"addAB", "addAC", "addBC", "done"}
  BY DEF Sides
<1>2. phase = "diffAC" /\ DiffBegins("A", "C", "addAC")
  BY <1>1, DiffRuns DEF DiffAC
<1>3. CASE phase' = "error"
  BY <1>1, <1>2, <1>3, DiffFails
<1>4. CASE phase' # "error"
  <2>1. /\ files' = files /\ three' = three /\ alignBC' = alignBC /\ tryHard' = tryHard /\ manual' = manual
        /\ again' = again /\ rows' = rows
    BY <1>2 DEF DiffBegins, input
  <2>2. /\ phase' = "addAC" /\ read' = Zero /\ here' = 1
        /\ Leads(tryHard, diffs', files["A"], files["C"], 0, 0, Size("A"), Size("C"))
    BY <1>2, <1>4 DEF DiffBegins
  <2>3. TypeOK'
    BY <1>1, <1>2, DiffTypes
  <2>4. PassOrder'
    BY <1>2, <2>1, <2>2 DEF IInv, PassOrder, Early
  <2>5. read'["A"] = 0 /\ read'["C"] = 0
    BY <2>2 DEF Zero, Sides
  <2>6. /\ rows \in Seq(RowType) /\ Full("A") /\ Full("B")
        /\ \A k \in 1..Len(rows) : rows[k].at["C"] = NoLine
    BY <1>2 DEF IInv, TypeOK, LinesThere, NoneOfC
  <2>7. ReadAC'
    <3>1. Leading("A", "C")'
      BY <2>1, <2>2, <2>5 DEF Leading, Size
    <3>2. \A s \in Sides : LinesIn(rows, s, 1, 1 - 1, 0, 0)
      <4>1. 1 \in Nat \ {0} /\ 1 - 1 \in Nat /\ 1 <= 1 - 1 + 1 /\ 0 \in Nat
        OBVIOUS
      <4>2. \A s \in Sides : \A k \in 1..1 - 1 : rows[k].at[s] = NoLine
        OBVIOUS
      <4> QED BY ONLY <4>1, <4>2, LinesNone
    <3>3. ThirdFits(rows, 1, Size("A"), Size("B"), 0, 0)
      <4>1. Len(rows) \in Nat
        BY <2>6, LenProperties
      <4>2. 1 \in 1..Len(rows) + 1
        BY <4>1
      <4> QED BY <1>1, <2>6, <3>2, <4>2 DEF ThirdFits, Full
    <3>4. 0 \in 0..read'["A"]
      BY <2>5
    <3>5. ThirdFits(rows', here', Size("A")', Size("B")', 0, read'["C"])
      BY <2>1, <2>2, <2>5, <3>3 DEF Size
    <3> QED BY <3>1, <3>4, <3>5 DEF ReadAC
  <2>8. (ReadAB /\ NoneOfC /\ ReadBC /\ LinesThere /\ RowsNonempty /\ RoomFree)'
    BY <2>2 DEF ReadAB, NoneOfC, ReadBC, LinesThere, RowsNonempty, RoomFree
  <2>9. Flagged'
    <3>1. tryHard => AllExact(rows, files)
      BY <1>2 DEF IInv, Flagged, Early
    <3> QED BY <2>1, <3>1 DEF Flagged
  <2> QED BY <2>3, <2>4, <2>7, <2>8, <2>9 DEF IInv
<1> QED BY <1>3, <1>4

LEMMA DiffBCKeeps == IInv /\ DiffBC => IInv'
<1> SUFFICES ASSUME IInv, DiffBC PROVE IInv'
  OBVIOUS
<1> DEFINE next == IF alignBC THEN "addBC" ELSE "done"
<1>1. "B" \in Sides /\ "C" \in Sides /\ next \in {"addAB", "addAC", "addBC", "done"}
  BY DEF Sides
<1>2. phase = "diffBC" /\ DiffBegins("B", "C", next)
  <2>1. Diff("diffBC", "B", "C", next)
    BY DEF DiffBC
  <2> HIDE DEF next
  <2> QED BY <1>1, <2>1, DiffRuns
<1>3. CASE phase' = "error"
  <2> HIDE DEF next
  <2> QED BY <1>1, <1>2, <1>3, DiffFails
<1>4. CASE phase' # "error"
  <2>1. /\ files' = files /\ three' = three /\ alignBC' = alignBC /\ tryHard' = tryHard /\ manual' = manual
        /\ again' = again /\ rows' = rows
    BY <1>2 DEF DiffBegins, input
  <2>2. /\ phase' = next /\ read' = Zero /\ cur' = Start
        /\ Leads(tryHard, diffs', files["B"], files["C"], 0, 0, Size("B"), Size("C"))
    <3> HIDE DEF next
    <3> QED BY <1>2, <1>4 DEF DiffBegins
  <2>3. TypeOK'
    <3> HIDE DEF next
    <3> QED BY <1>1, <1>2, DiffTypes
  <2>4. again /\ TypeOK /\ three
    BY <1>2 DEF IInv, PassOrder, TypeOK
  <2>5. PassOrder'
    BY <1>2, <2>1, <2>2, <2>4 DEF IInv, PassOrder, Early, TypeOK
  <2>6. (ReadAB /\ NoneOfC /\ ReadAC /\ RoomFree)'
    BY <2>2 DEF ReadAB, NoneOfC, ReadAC, RoomFree
  <2>7. \A s \in Sides : Full(s)
    BY <1>2 DEF IInv, LinesThere, Sure
  <2>8. LinesThere'
    <3>1. \A s \in Sides : Full(s)'
      BY <2>1, <2>7 DEF Full, Size
    <3>2. (Sure \cap Shown)' \subseteq Sides
      BY DEF Shown, Sides
    <3>3. phase' \in {"addBC", "done"}
      BY <2>2
    <3> QED BY <3>1, <3>2, <3>3 DEF LinesThere
  <2>9. RowsNonempty'
    BY <1>2, <2>1 DEF IInv, RowsNonempty
  <2>10. Flagged'
    <3>1. tryHard /\ manual = <<>> => AllExact(rows, files)
      BY <1>2 DEF IInv, Flagged, Sure
    <3>2. ~Early'
      BY <2>2 DEF Early
    <3> QED BY <2>1, <3>1, <3>2 DEF Flagged
  <2>11. ReadBC'
    <3>1. read'["B"] = 0 /\ read'["C"] = 0 /\ cur'["B"] = 1 /\ cur'["C"] = 1
      BY <2>2 DEF Zero, Start, Sides
    <3>2. Leading("B", "C")'
      BY <2>1, <2>2, <3>1 DEF Leading, Size
    <3> DEFINE t == [rows |-> rows, ib |-> 1, ic |-> 1]
    <3>3. rows \in Seq(RowType) /\ Len(rows) \in Nat
      BY <2>4, LenProperties DEF TypeOK
    <3>4. t \in BCState
      BY <3>3 DEF BCState
    <3>5. BCLines(t, Size("B"), Size("C"))
      BY <1>1, <2>7 DEF BCLines, Full
    <3>6. BCRead(t, 0, 0)
      <4>1. \A s \in Sides : LinesIn(rows, s, 1, 1 - 1, 0, 0)
        <5>1. 1 \in Nat \ {0} /\ 1 - 1 \in Nat /\ 1 <= 1 - 1 + 1 /\ 0 \in Nat
          OBVIOUS
        <5>2. \A s \in Sides : \A k \in 1..1 - 1 : rows[k].at[s] = NoLine
          OBVIOUS
        <5> QED BY ONLY <5>1, <5>2, LinesNone
      <4>2. 1 <= Len(rows) + 1 /\ 0 \in 0..0
        BY <3>3
      <4> QED BY <1>1, <4>1, <4>2 DEF BCRead
    <3>7. BCFits(t, Size("B"), Size("C"), 0, 0)
      BY <3>4, <3>5, <3>6 DEF BCFits
    <3>8. StateBC' = t /\ Size("B")' = Size("B") /\ Size("C")' = Size("C")
      BY <2>1, <3>1 DEF StateBC, Size
    <3>9. BCFits(StateBC', Size("B")', Size("C")', read'["B"], read'["C"])
      BY <3>1, <3>7, <3>8
    <3> QED BY <3>2, <3>9 DEF ReadBC
  <2> QED BY <2>3, <2>5, <2>6, <2>8, <2>9, <2>10, <2>11 DEF IInv
<1> QED BY <1>3, <1>4

\* The rows of the first pass.
LEMMA FirstRowsMade ==
    ASSUME NEW hard, NEW f, NEW rs \in Seq(RowType), hard => AllExact(rs, f),
           \A k \in 1..Len(rs) : rs[k].at["C"] = NoLine,
           \A k \in 1..Len(rs) : rs[k] # EmptyRow
    PROVE  rs \in Seq(FirstRows(hard, f))
<1>1. Len(rs) \in Nat
  BY LenProperties
<1>2. \A k \in 1..Len(rs) : rs[k] \in FirstRows(hard, f)
  <2>1. \A k \in 1..Len(rs) : rs[k] \in RowType
    BY ElementOfSeq
  <2> QED BY <2>1 DEF FirstRows, AllExact
<1>3. rs \in [1..Len(rs) -> FirstRows(hard, f)]
  BY <1>2, LenProperties
<1> QED BY <1>1, <1>3, MapSeq

LEMMA FirstRowsWell ==
    ASSUME NEW hard, NEW f, NEW rs \in Seq(FirstRows(hard, f))
    PROVE  /\ rs \in Seq(RowType) /\ (hard => AllExact(rs, f))
           /\ \A k \in 1..Len(rs) : rs[k].at["C"] = NoLine /\ rs[k] # EmptyRow
<1>1. \A k \in 1..Len(rs) : rs[k] \in FirstRows(hard, f)
  BY ElementOfSeq
<1>2. \A k \in 1..Len(rs) : rs[k] \in RowType
  BY <1>1 DEF FirstRows
<1>3. rs \in [1..Len(rs) -> RowType] /\ Len(rs) \in Nat
  BY <1>2, LenProperties
<1>4. rs \in Seq(RowType)
  BY <1>3, MapSeq
<1> QED BY <1>1, <1>4 DEF FirstRows, AllExact

\* The rows of the second.
LEMMA ExactRowsAre ==
    ASSUME NEW hard, NEW f, NEW rs
    PROVE  rs \in Seq(ExactRows(hard, f)) <=> rs \in Seq(RowType) /\ (hard => AllExact(rs, f))
<1>1. ASSUME rs \in Seq(ExactRows(hard, f)) PROVE rs \in Seq(RowType) /\ (hard => AllExact(rs, f))
  <2>1. \A k \in 1..Len(rs) : rs[k] \in ExactRows(hard, f)
    BY <1>1, ElementOfSeq
  <2>2. \A k \in 1..Len(rs) : rs[k] \in RowType
    BY <2>1 DEF ExactRows
  <2>3. rs \in [1..Len(rs) -> RowType] /\ Len(rs) \in Nat
    BY <1>1, <2>2, LenProperties
  <2>4. rs \in Seq(RowType)
    BY <2>3, MapSeq
  <2> QED BY <2>1, <2>4 DEF ExactRows, AllExact
<1>2. ASSUME rs \in Seq(RowType), hard => AllExact(rs, f) PROVE rs \in Seq(ExactRows(hard, f))
  <2>1. \A k \in 1..Len(rs) : rs[k] \in RowType
    BY <1>2, ElementOfSeq
  <2>2. \A k \in 1..Len(rs) : rs[k] \in ExactRows(hard, f)
    BY <1>2, <2>1 DEF ExactRows, AllExact
  <2>3. rs \in [1..Len(rs) -> ExactRows(hard, f)] /\ Len(rs) \in Nat
    BY <1>2, <2>2, LenProperties
  <2> QED BY <2>3, MapSeq
<1> QED BY <1>1, <1>2

\* A Diff has been taken.
LEMMA ReadFurther ==
    ASSUME read \in [Sides -> Nat], NEW d, d.eq \in Nat, d.d1 \in Nat, d.d2 \in Nat,
           NEW s \in Sides, NEW t \in Sides, s # t
    PROVE  /\ ReadOn(d, s, t) \in [Sides -> Nat]
           /\ ReadOn(d, s, t)[s] = read[s] + d.eq + d.d1 /\ ReadOn(d, s, t)[t] = read[t] + d.eq + d.d2
<1>1. PICK x \in Nat : x = read[s] + d.eq + d.d1
  OBVIOUS
<1>2. PICK y \in Nat : y = read[t] + d.eq + d.d2
  OBVIOUS
<1> DEFINE f == [read EXCEPT ![s] = x, ![t] = y]
<1>3. ReadOn(d, s, t) = f
  BY <1>1, <1>2 DEF ReadOn
<1>4. f \in [Sides -> Nat] /\ f[s] = x /\ f[t] = y
  OBVIOUS
<1> QED BY ONLY <1>1, <1>2, <1>3, <1>4

LEMMA AddABKeeps == IInv /\ AddAB => IInv'
<1> SUFFICES ASSUME IInv, AddAB PROVE IInv'
  OBVIOUS
<1>1. TypeOK /\ phase = "addAB" /\ "A" \in Sides /\ "B" \in Sides
  BY DEF IInv, AddAB, Sides
<1>2. /\ files' = files /\ three' = three /\ alignBC' = alignBC /\ tryHard' = tryHard /\ manual' = manual /\ edits' = edits
      /\ again' = again /\ here' = here /\ cur' = cur /\ help' = help
  BY DEF AddAB, input
<1>3. ~again
  BY <1>1 DEF IInv, PassOrder, Early
<1>4. /\ Leading("A", "B")
      /\ LinesIn(rows, "A", 1, Len(rows), 0, read["A"]) /\ LinesIn(rows, "B", 1, Len(rows), 0, read["B"])
  BY <1>1 DEF IInv, ReadAB
<1>5. /\ tryHard => AllExact(rows, files)
      /\ \A k \in 1..Len(rows) : rows[k].at["C"] = NoLine
      /\ \A k \in 1..Len(rows) : rows[k] # EmptyRow
  BY <1>1 DEF IInv, NoneOfC, RowsNonempty, Flagged, Early
<1>6. Size("A") \in Nat /\ Size("B") \in Nat /\ Size("A")' = Size("A") /\ Size("B")' = Size("B")
  BY <1>1, <1>2, SizeIsNat DEF Size
<1>7. CASE diffs = <<>>
  <2>1. phase' = (IF three THEN "diffAC" ELSE "done") /\ rows' = rows /\ diffs' = diffs /\ read' = read
    BY <1>7 DEF AddAB
  <2>2. phase' \in {"diffAC", "done"} /\ (phase' = "done" <=> ~three)
    BY <2>1
  <2>3. read["A"] = Size("A") /\ read["B"] = Size("B")
    BY <1>4, <1>7, LeadsOn DEF Leading
  <2>4. TypeOK'
    BY <1>1, <1>2, <2>1 DEF TypeOK
  <2>5. PassOrder'
    BY ONLY <1>2, <1>3, <2>2 DEF PassOrder, Early
  <2>6. (ReadAB /\ ReadAC /\ ReadBC /\ RoomFree)'
    BY <2>2 DEF ReadAB, ReadAC, ReadBC, RoomFree
  <2>7. (NoneOfC /\ RowsNonempty /\ Flagged)'
    BY <1>2, <1>5, <2>1 DEF NoneOfC, RowsNonempty, Flagged
  <2>8. LinesThere'
    <3>1. Full("A")' /\ Full("B")'
      BY <1>4, <1>6, <2>1, <2>3 DEF Full
    <3>2. phase' = "done" => Shown' = {"A", "B"}
      BY <1>2, <2>2 DEF Shown
    <3>3. \A s \in {"A", "B"} : Full(s)'
      BY <3>1
    <3>4. phase' = "done" => \A s \in (Sure \cap Shown)' : Full(s)'
      BY <3>2, <3>3
    <3> QED BY <2>2, <3>1, <3>4 DEF LinesThere
  <2> QED BY <2>4, <2>5, <2>6, <2>7, <2>8 DEF IInv
<1>8. CASE diffs # <<>>
  <2> DEFINE d == Head(diffs)
             a == read["A"]
             b == read["B"]
  <2>1. phase' = phase /\ rows' = AddPair(rows, d, a, b) /\ diffs' = Tail(diffs) /\ read' = ReadOn(d, "A", "B")
    BY <1>8 DEF AddAB
  <2>2. FirstLeads(tryHard, diffs, files["A"], files["B"], a, b, Size("A"), Size("B"))
    BY <1>4, <1>8, LeadsOn DEF Leading
  <2>3. /\ d \in DiffType /\ Fits(tryHard, files["A"], files["B"], d, a, b) /\ a \in Nat /\ b \in Nat
        /\ Leads(tryHard, Tail(diffs), files["A"], files["B"], a + d.eq + d.d1, b + d.eq + d.d2, Size("A"), Size("B"))
    BY <2>2 DEF FirstLeads
  <2>4. read' \in [Sides -> Nat] /\ read'["A"] = a + d.eq + d.d1 /\ read'["B"] = b + d.eq + d.d2
    <3>1. d.eq \in Nat /\ d.d1 \in Nat /\ d.d2 \in Nat
      BY <2>3 DEF DiffType
    <3>2. read \in [Sides -> Nat]
      BY <1>1 DEF TypeOK
    <3> HIDE DEF d
    <3> QED BY ONLY <1>1, <2>1, <3>1, <3>2, ReadFurther
  <2>5. rows \in Seq(FirstRows(tryHard, files)) /\ FirstRows(tryHard, files) \in SUBSET RowType
    BY <1>1, <1>5, FirstRowsMade DEF TypeOK, FirstRows
  <2> HIDE DEF d, a, b
  <2>6. /\ \A k \in 1..d.eq : Row(a + k, b + k, NoLine, {AB}) \in FirstRows(tryHard, files)
        /\ \A k \in 1..Max({d.d1, d.d2}) :
              Row(LoneOr(a + d.eq, k, d.d1), LoneOr(b + d.eq, k, d.d2), NoLine, {}) \in FirstRows(tryHard, files)
    BY <2>3, PairExact
  <2>7. /\ rows' \in Seq(FirstRows(tryHard, files))
        /\ LinesIn(rows', "A", 1, Len(rows'), 0, a + d.eq + d.d1)
        /\ LinesIn(rows', "B", 1, Len(rows'), 0, b + d.eq + d.d2)
    <3>1. LinesIn(rows, "A", 1, Len(rows), 0, a) /\ LinesIn(rows, "B", 1, Len(rows), 0, b)
      BY <1>4 DEF a, b
    <3>2. d \in DiffType /\ a \in Nat /\ b \in Nat
      BY <2>3
    <3> HIDE DEF FirstRows
    <3>3. LET r == AddPair(rows, d, a, b)
          IN /\ r \in Seq(FirstRows(tryHard, files))
             /\ LinesIn(r, "A", 1, Len(r), 0, a + d.eq + d.d1)
             /\ LinesIn(r, "B", 1, Len(r), 0, b + d.eq + d.d2)
      BY ONLY <2>5, <2>6, <3>1, <3>2, PairAdded
    <3> QED BY <2>1, <3>3
  <2>8. /\ rows' \in Seq(RowType) /\ (tryHard => AllExact(rows', files))
        /\ \A k \in 1..Len(rows') : rows'[k].at["C"] = NoLine /\ rows'[k] # EmptyRow
    BY <2>7, FirstRowsWell
  <2>9. diffs' \in Seq(DiffType)
    BY <2>1, <2>3 DEF Leads
  <2>10. TypeOK'
    BY <1>1, <1>2, <2>1, <2>4, <2>8, <2>9 DEF TypeOK
  <2>11. PassOrder'
    BY <1>1, <1>2, <1>3, <2>1 DEF IInv, PassOrder, Early
  <2>12. ReadAB'
    <3>1. Leading("A", "B")'
      BY <1>2, <1>6, <2>1, <2>3, <2>4 DEF Leading
    <3>2. \A s \in {"A", "B"} : LinesIn(rows', s, 1, Len(rows'), 0, read'[s])
      BY <2>4, <2>7
    <3> QED BY <3>1, <3>2 DEF ReadAB
  <2>13. (ReadAC /\ ReadBC /\ LinesThere /\ RoomFree)'
    BY <1>1, <2>1 DEF ReadAC, ReadBC, LinesThere, RoomFree
  <2>14. (NoneOfC /\ RowsNonempty /\ Flagged)'
    BY <1>2, <2>8 DEF NoneOfC, RowsNonempty, Flagged
  <2> QED BY <2>10, <2>11, <2>12, <2>13, <2>14 DEF IInv
<1> QED BY <1>7, <1>8

\* All lines of C are there when none is left.
LEMMA ThirdDone ==
    ASSUME NEW rs \in Seq(RowType), NEW h, NEW n, NEW nb, NEW m, NEW c \in Nat, ThirdFits(rs, h, n, nb, m, c)
    PROVE  /\ LinesIn(rs, "A", 1, Len(rs), 0, n) /\ LinesIn(rs, "B", 1, Len(rs), 0, nb)
           /\ LinesIn(rs, "C", 1, Len(rs), 0, c)
<1>1. Len(rs) \in Nat
  BY LenProperties
<1>2. /\ h \in 1..Len(rs) + 1 /\ LinesIn(rs, "C", 1, h - 1, 0, c)
      /\ \A k \in h..Len(rs) : rs[k].at["C"] = NoLine
  BY DEF ThirdFits
<1>3. /\ 1 \in Nat \ {0} /\ h - 1 \in Nat /\ Len(rs) \in Nat /\ 1 <= h - 1 + 1 /\ h - 1 <= Len(rs)
      /\ h \in Nat \ {0} /\ h <= Len(rs) + 1 /\ h - 1 + 1 = h
  BY <1>1, <1>2
<1>4. LinesIn(rs, "C", h, Len(rs), c, c)
  BY <1>2, <1>3, LinesNone
<1>5. LinesIn(rs, "C", h - 1 + 1, Len(rs), c, c)
  BY <1>3, <1>4
<1>6. LinesIn(rs, "C", 1, Len(rs), 0, c)
  BY <1>2, <1>3, <1>5, LinesJoined
<1> QED BY <1>6 DEF ThirdFits

LEMMA AddACKeeps == IInv /\ AddAC => IInv'
<1> SUFFICES ASSUME IInv, AddAC PROVE IInv'
  OBVIOUS
<1>1. TypeOK /\ phase = "addAC" /\ "A" \in Sides /\ "B" \in Sides /\ "C" \in Sides
  BY DEF IInv, AddAC, Sides
<1>2. /\ files' = files /\ three' = three /\ alignBC' = alignBC /\ tryHard' = tryHard /\ manual' = manual /\ edits' = edits
      /\ again' = again /\ cur' = cur
  BY DEF AddAC, input
<1>3. ~again /\ three
  BY <1>1 DEF IInv, PassOrder, Early, TypeOK
<1>4. Leading("A", "C")
  BY <1>1 DEF IInv, ReadAC
<1>5. PICK m \in 0..read["A"] : ThirdFits(rows, here, Size("A"), Size("B"), m, read["C"])
  BY <1>1 DEF IInv, ReadAC
<1>6. tryHard => AllExact(rows, files)
  BY <1>1 DEF IInv, Flagged, Early
<1>7. /\ Size("A") \in Nat /\ Size("B") \in Nat /\ Size("C") \in Nat
      /\ Size("A")' = Size("A") /\ Size("B")' = Size("B") /\ Size("C")' = Size("C")
  BY <1>1, <1>2, SizeIsNat DEF Size
<1>8. CASE diffs = <<>>
  <2>1. phase' = "manual" /\ help' = 1 /\ rows' = rows /\ diffs' = diffs /\ read' = read /\ here' = here
    BY <1>8 DEF AddAC
  <2>2. read["A"] = Size("A") /\ read["C"] = Size("C")
    BY <1>4, <1>8, LeadsOn DEF Leading
  <2>3. TypeOK'
    BY <1>1, <1>2, <2>1 DEF TypeOK
  <2>4. PassOrder'
    BY <1>1, <1>2, <1>3, <2>1 DEF IInv, PassOrder, Early, TypeOK
  <2>5. (ReadAB /\ NoneOfC /\ ReadAC /\ ReadBC /\ RowsNonempty /\ RoomFree)'
    BY <2>1 DEF ReadAB, NoneOfC, ReadAC, ReadBC, RowsNonempty, RoomFree
  <2>6. Flagged'
    BY <1>2, <1>6, <2>1 DEF Flagged
  <2>7. Full("A") /\ Full("B") /\ Full("C")
    <3>1. rows \in Seq(RowType) /\ read["C"] \in Nat
      BY <1>1 DEF TypeOK
    <3> QED BY <1>5, <2>2, <3>1, ThirdDone DEF Full
  <2>8. \A s \in Sides : Full(s)'
    <3>1. \A s \in Sides : Full(s)
      BY <2>7 DEF Sides
    <3> QED BY <1>2, <2>1, <3>1 DEF Full, Size
  <2>9. LinesThere'
    <3>1. Sure' \subseteq Sides
      BY DEF Sure, Sides
    <3> QED BY <2>1, <2>8, <3>1 DEF LinesThere
  <2> QED BY <2>3, <2>4, <2>5, <2>6, <2>9 DEF IInv
<1>9. CASE diffs # <<>>
  <2> DEFINE d == Head(diffs)
             a == read["A"]
             c == read["C"]
             t == AddThird(rows, here, d, a, c)
  <2>1. /\ phase' = phase /\ rows' = t.rows /\ here' = t.here /\ diffs' = Tail(diffs)
        /\ read' = ReadOn(d, "A", "C") /\ help' = help
    BY <1>9 DEF AddAC
  <2>2. FirstLeads(tryHard, diffs, files["A"], files["C"], a, c, Size("A"), Size("C"))
    BY <1>4, <1>9, LeadsOn DEF Leading
  <2>3. /\ d \in DiffType /\ Fits(tryHard, files["A"], files["C"], d, a, c) /\ a \in Nat /\ c \in Nat
        /\ a + d.eq + d.d1 <= Size("A")
        /\ Leads(tryHard, Tail(diffs), files["A"], files["C"], a + d.eq + d.d1, c + d.eq + d.d2, Size("A"), Size("C"))
    BY <2>2 DEF FirstLeads
  <2>4. d.eq \in Nat /\ d.d1 \in Nat /\ d.d2 \in Nat
    BY <2>3 DEF DiffType
  <2>5. read' \in [Sides -> Nat] /\ read'["A"] = a + d.eq + d.d1 /\ read'["C"] = c + d.eq + d.d2
    <3>1. read \in [Sides -> Nat]
      BY <1>1 DEF TypeOK
    <3> HIDE DEF d
    <3> QED BY ONLY <1>1, <2>1, <2>4, <3>1, ReadFurther
  <2>6. rows \in Seq(ExactRows(tryHard, files)) /\ ExactRows(tryHard, files) \in SUBSET RowType
    BY <1>1, <1>6, ExactRowsAre DEF TypeOK, ExactRows
  <2>7. ThirdFits(rows, here, Size("A"), Size("B"), m, c) /\ m \in 0..a
    BY <1>5
  <2> HIDE DEF d, a, c
  <2>8. /\ d.eq = 1 => \A row \in ExactRows(tryHard, files) :
              row.at["A"] = a + 1 /\ row.at["C"] = NoLine => JoinC(row, c + 1) \in ExactRows(tryHard, files)
        /\ \A k \in 1..d.d2 : Row(NoLine, NoLine, c + d.eq + k, {}) \in ExactRows(tryHard, files)
    BY <2>3, ThirdExact
  <2>9. PICK p \in 0..a + d.eq + d.d1 :
           /\ t.rows \in Seq(ExactRows(tryHard, files))
           /\ ThirdFits(t.rows, t.here, Size("A"), Size("B"), p, c + d.eq + d.d2)
    <3>1. d \in DiffType /\ a \in Nat /\ c \in Nat /\ Size("A") \in Nat
      BY <1>7, <2>3
    <3>2. d.eq = 1 => a + 1 <= Size("A")
      BY <1>7, <2>3, <2>4
    <3> HIDE DEF t
    <3>3. LET u == AddThird(rows, here, d, a, c)
          IN /\ u.rows \in Seq(ExactRows(tryHard, files))
             /\ \E p \in 0..a + d.eq + d.d1 : ThirdFits(u.rows, u.here, Size("A"), Size("B"), p, c + d.eq + d.d2)
      BY ONLY <2>6, <2>7, <2>8, <3>1, <3>2, ThirdAdded
    <3> QED BY <3>3 DEF t
  <2> HIDE DEF t
  <2>10. rows' \in Seq(RowType) /\ (tryHard => AllExact(rows', files))
    BY <2>1, <2>9, ExactRowsAre
  <2>11. here' \in Nat \ {0}
    <3>1. Len(rows') \in Nat
      BY <2>10, LenProperties
    <3>2. here' \in 1..Len(rows') + 1
      BY <2>1, <2>9 DEF ThirdFits
    <3> QED BY <3>1, <3>2
  <2>12. diffs' \in Seq(DiffType)
    BY <2>1, <2>3 DEF Leads
  <2>13. TypeOK'
    BY <1>1, <1>2, <2>1, <2>5, <2>10, <2>11, <2>12 DEF TypeOK
  <2>14. PassOrder'
    BY <1>1, <1>2, <1>3, <2>1 DEF IInv, PassOrder, Early
  <2>15. ReadAC'
    <3>1. Leading("A", "C")'
      BY <1>2, <1>7, <2>1, <2>3, <2>5 DEF Leading
    <3>2. p \in 0..read'["A"] /\ ThirdFits(rows', here', Size("A")', Size("B")', p, read'["C"])
      BY <1>7, <2>1, <2>5, <2>9
    <3> QED BY <3>1, <3>2 DEF ReadAC
  <2>16. (ReadAB /\ NoneOfC /\ ReadBC /\ LinesThere /\ RowsNonempty /\ RoomFree)'
    BY <1>1, <2>1 DEF ReadAB, NoneOfC, ReadBC, LinesThere, RowsNonempty, RoomFree
  <2>17. Flagged'
    BY <1>2, <2>10 DEF Flagged
  <2> QED BY <2>13, <2>14, <2>15, <2>16, <2>17 DEF IInv
<1> QED BY <1>8, <1>9

LEMMA AddBCKeeps == IInv /\ AddBC => IInv'
<1> SUFFICES ASSUME IInv, AddBC PROVE IInv'
  OBVIOUS
<1>1. TypeOK /\ phase = "addBC" /\ "B" \in Sides /\ "C" \in Sides
  BY DEF IInv, AddBC, Sides
<1>2. /\ files' = files /\ three' = three /\ alignBC' = alignBC /\ tryHard' = tryHard /\ manual' = manual /\ edits' = edits
      /\ again' = again /\ here' = here
  BY DEF AddBC, input
<1>3. again /\ alignBC /\ three
  BY <1>1 DEF IInv, PassOrder, Early, TypeOK
<1>4. Leading("B", "C") /\ BCFits(StateBC, Size("B"), Size("C"), read["B"], read["C"])
  BY <1>1 DEF IInv, ReadBC
<1>5. /\ Size("B") \in Nat /\ Size("C") \in Nat /\ Size("B")' = Size("B") /\ Size("C")' = Size("C")
  BY <1>1, <1>2, SizeIsNat DEF Size
<1>6. (ReadAB /\ NoneOfC /\ ReadAC /\ RowsNonempty /\ RoomFree /\ Flagged)'
  <2>1. phase' \in {"addBC", "manual"}
    BY <1>1 DEF AddBC
  <2>2. ~Early' /\ Sure' = {"B", "C"}
    BY <1>2, <1>3, <2>1 DEF Early, Sure
  <2>3. Sure' # Sides
    BY <2>2 DEF Sides
  <2> QED BY <2>1, <2>2, <2>3 DEF ReadAB, NoneOfC, ReadAC, RowsNonempty, RoomFree, Flagged
<1>7. CASE diffs = <<>>
  <2>1. phase' = "manual" /\ help' = 1 /\ rows' = rows /\ diffs' = diffs /\ read' = read /\ cur' = cur
    BY <1>7 DEF AddBC
  <2>2. TypeOK'
    BY <1>1, <1>2, <2>1 DEF TypeOK
  <2>3. PassOrder'
    BY <1>2, <1>3, <2>1 DEF PassOrder, Early
  <2>4. ReadBC'
    BY <2>1 DEF ReadBC
  <2>5. Full("B") /\ Full("C")
    BY <1>4 DEF BCFits, BCLines, StateBC, Full
  <2>6. Full("B")' /\ Full("C")'
    BY <1>5, <2>1, <2>5 DEF Full
  <2>7. LinesThere'
    <3>1. Sure' = {"B", "C"}
      BY <1>2, <1>3, <2>1 DEF Sure
    <3>2. \A s \in {"B", "C"} : Full(s)'
      BY <2>6
    <3> QED BY <2>1, <3>1, <3>2 DEF LinesThere
  <2> QED BY <1>6, <2>2, <2>3, <2>4, <2>7 DEF IInv
<1>8. CASE diffs # <<>>
  <2> DEFINE d == Head(diffs)
             b == read["B"]
             c == read["C"]
             t == AlignDiff(StateBC, d, b, c)
  <2>1. /\ phase' = phase /\ rows' = t.rows /\ cur' = [cur EXCEPT !["B"] = t.ib, !["C"] = t.ic]
        /\ diffs' = Tail(diffs) /\ read' = ReadOn(d, "B", "C") /\ help' = help
    BY <1>8 DEF AddBC, StateBC
  <2>2. FirstLeads(tryHard, diffs, files["B"], files["C"], b, c, Size("B"), Size("C"))
    BY <1>4, <1>8, LeadsOn DEF Leading
  <2>3. /\ d \in DiffType /\ b \in Nat /\ c \in Nat
        /\ b + d.eq + d.d1 <= Size("B") /\ c + d.eq + d.d2 <= Size("C")
        /\ Leads(tryHard, Tail(diffs), files["B"], files["C"], b + d.eq + d.d1, c + d.eq + d.d2, Size("B"), Size("C"))
    BY <2>2 DEF FirstLeads
  <2>4. d.eq \in Nat /\ d.d1 \in Nat /\ d.d2 \in Nat
    BY <2>3 DEF DiffType
  <2>5. read' \in [Sides -> Nat] /\ read'["B"] = b + d.eq + d.d1 /\ read'["C"] = c + d.eq + d.d2
    <3>1. read \in [Sides -> Nat]
      BY <1>1 DEF TypeOK
    <3> HIDE DEF d
    <3> QED BY ONLY <1>1, <2>1, <2>4, <3>1, ReadFurther
  <2>6. BCFits(StateBC, Size("B"), Size("C"), b, c)
    BY <1>4
  <2> HIDE DEF d, b, c
  <2>7. BCFits(t, Size("B"), Size("C"), b + d.eq + d.d1, c + d.eq + d.d2)
    <3>1. c + d.eq <= Size("C")
      BY <1>5, <2>3, <2>4
    <3> QED BY <1>5, <2>3, <2>6, <3>1, DiffAligned
  <2> HIDE DEF t
  <2>8. t \in BCState
    BY <2>7 DEF BCFits
  <2>9. rows' \in Seq(RowType)
    BY <2>1, <2>8 DEF BCState
  <2>10. cur' \in [Sides -> Nat \ {0}] /\ cur'["B"] = t.ib /\ cur'["C"] = t.ic
    <3>1. cur \in [Sides -> Nat \ {0}]
      BY <1>1 DEF TypeOK
    <3>2. t.ib \in Nat \ {0} /\ t.ic \in Nat \ {0}
      BY <2>8 DEF BCState
    <3> QED BY <1>1, <2>1, <3>1, <3>2
  <2>11. diffs' \in Seq(DiffType)
    BY <2>1, <2>3 DEF Leads
  <2>12. TypeOK'
    BY <1>1, <1>2, <2>1, <2>5, <2>9, <2>10, <2>11 DEF TypeOK
  <2>13. PassOrder'
    BY <1>1, <1>2, <1>3, <2>1 DEF PassOrder, Early
  <2>14. ReadBC'
    <3>1. Leading("B", "C")'
      BY <1>2, <1>5, <2>1, <2>3, <2>5 DEF Leading
    <3>2. StateBC' = t
      <4>1. t = [rows |-> t.rows, ib |-> t.ib, ic |-> t.ic]
        BY <2>8 DEF BCState
      <4> QED BY <2>1, <2>10, <4>1 DEF StateBC
    <3>3. BCFits(StateBC', Size("B")', Size("C")', read'["B"], read'["C"])
      BY <1>5, <2>5, <2>7, <3>2
    <3> QED BY <3>1, <3>3 DEF ReadBC
  <2>15. LinesThere'
    BY <1>1, <2>1 DEF LinesThere
  <2> QED BY <1>6, <2>12, <2>13, <2>14, <2>15 DEF IInv
<1> QED BY <1>7, <1>8

\* Rows that keep the lines of every side.
LEMMA FullKept ==
    ASSUME NEW s \in Sides, KeepsLines(rows, rows'), files' = files, Full(s)
    PROVE  Full(s)'
<1>1. Size(s)' = Size(s)
  BY DEF Size
<1> QED BY <1>1 DEF KeepsLines, Full

\* Empty rows go.
LEMMA RemovedWell ==
    ASSUME NEW rs \in Seq(RowType)
    PROVE  LET w == RemoveEmptyRows(rs)
           IN /\ w \in Seq(RowType) /\ KeepsLines(rs, w)
              /\ \A k \in 1..Len(w) : w[k] # EmptyRow
              /\ \A f : AllExact(rs, f) => AllExact(w, f)
<1> DEFINE w == RemoveEmptyRows(rs)
<1>1. AlignsWell(rs, w) /\ Nonempty(w, rs)
  BY EmptyRemoved
<1> HIDE DEF w
<1>2. ASSUME NEW f, AllExact(rs, f) PROVE AllExact(w, f)
  BY <1>1, <1>2 DEF Nonempty, AllExact
<1>3. /\ w \in Seq(RowType) /\ KeepsLines(rs, w)
      /\ \A k \in 1..Len(w) : w[k] # EmptyRow
  BY <1>1 DEF AlignsWell, Nonempty
<1> QED BY <1>2, <1>3 DEF w

LEMMA CorrectKeeps == IInv /\ Correct => IInv'
<1> SUFFICES ASSUME IInv, Correct PROVE IInv'
  OBVIOUS
<1>1. TypeOK /\ phase = "manual" /\ rows \in Seq(RowType) /\ help \in Nat \ {0}
  BY DEF IInv, Correct, TypeOK
<1>2. /\ files' = files /\ three' = three /\ alignBC' = alignBC /\ tryHard' = tryHard /\ manual' = manual /\ edits' = edits
      /\ again' = again /\ diffs' = diffs /\ read' = read
  BY DEF Correct, input
<1>3. three /\ (again => alignBC)
  BY <1>1 DEF IInv, PassOrder, TypeOK
<1>4. \A s \in Sure : Full(s)
  BY <1>1 DEF IInv, LinesThere
<1>5. tryHard /\ manual = <<>> /\ Sure = Sides => AllExact(rows, files)
  BY DEF IInv, Flagged
<1>6. Sure \subseteq Sides
  BY DEF Sure, Sides
<1>7. CASE help > Len(manual) \/ Cardinality(Chosen(manual[help])) < 2
  <2>1. phase' = "trim" /\ rows' = RemoveEmptyRows(rows) /\ here' = 1 /\ cur' = Start /\ help' = 1
    BY <1>7 DEF Correct
  <2>2. /\ rows' \in Seq(RowType) /\ KeepsLines(rows, rows')
        /\ AllExact(rows, files) => AllExact(rows', files)
    BY <1>1, <2>1, RemovedWell
  <2>3. cur' \in [Sides -> Nat \ {0}] /\ \A s \in Sides : cur'[s] = 1
    BY <2>1 DEF Start
  <2>4. TypeOK'
    BY <1>1, <1>2, <2>1, <2>2, <2>3 DEF TypeOK
  <2>5. PassOrder'
    BY <1>2, <1>3, <2>1 DEF PassOrder, Early
  <2>6. (ReadAB /\ NoneOfC /\ ReadAC /\ ReadBC /\ RowsNonempty)'
    BY <2>1 DEF ReadAB, NoneOfC, ReadAC, ReadBC, RowsNonempty
  <2>7. Sure' = Sure
    BY <1>1, <1>2, <2>1 DEF Sure
  <2>8. LinesThere'
    <3>1. \A s \in Sure' : Full(s)'
      BY <1>2, <1>4, <1>6, <2>2, <2>7, FullKept
    <3> QED BY <2>1, <3>1 DEF LinesThere
  <2>9. RoomFree'
    <3> DEFINE t == [rows |-> rows', cur |-> cur']
    <3>1. Len(rows') \in Nat
      BY <2>2, LenProperties
    <3>2. 1 \in 1..Len(rows') + 1 /\ \A s \in Sides : cur'[s] \in 1..1
      BY <2>3, <3>1
    <3>3. \A s \in Sides : \A k \in cur'[s]..1 - 1 : rows'[k].at[s] = NoLine
      BY <2>3
    <3>4. t.rows = rows' /\ t.cur = cur'
      OBVIOUS
    <3> HIDE DEF t
    <3>5. TrimWell(t, 1)
      BY <2>2, <3>2, <3>3, <3>4 DEF TrimWell
    <3> QED BY <2>1, <3>5 DEF RoomFree, t
  <2>10. Flagged'
    <3>1. ~Early'
      BY <2>1 DEF Early
    <3> QED BY <1>2, <1>5, <2>2, <2>7, <3>1 DEF Flagged
  <2> QED BY <2>4, <2>5, <2>6, <2>8, <2>9, <2>10 DEF IInv
<1>8. CASE ~(help > Len(manual) \/ Cardinality(Chosen(manual[help])) < 2)
  <2>1. phase' = phase /\ rows' = Align(rows, manual[help]) /\ here' = here /\ cur' = cur /\ help' = help + 1
    BY <1>8 DEF Correct
  <2>2. rows' \in Seq(RowType) /\ KeepsLines(rows, rows')
    <3>1. AlignsWell(rows, Align(rows, manual[help]))
      BY <1>1, Aligns
    <3> QED BY <2>1, <3>1 DEF AlignsWell
  <2>3. manual # <<>>
    <3>1. Len(<<>>) = 0
      BY EmptySeq
    <3> QED BY <1>1, <1>8, <3>1
  <2>4. TypeOK'
    <3>1. help' \in Nat \ {0}
      BY <1>1, <2>1
    <3> QED BY <1>1, <1>2, <2>1, <2>2, <3>1 DEF TypeOK
  <2>5. PassOrder'
    BY <1>1, <1>2, <1>3, <2>1 DEF PassOrder, Early
  <2>6. (ReadAB /\ NoneOfC /\ ReadAC /\ ReadBC /\ RowsNonempty /\ RoomFree)'
    BY <1>1, <2>1 DEF ReadAB, NoneOfC, ReadAC, ReadBC, RowsNonempty, RoomFree
  <2>7. LinesThere'
    <3>1. Sure' = Sure
      BY <1>2, <2>1 DEF Sure
    <3>2. \A s \in Sure' : Full(s)'
      BY <1>2, <1>4, <1>6, <2>2, <3>1, FullKept
    <3> QED BY <1>1, <2>1, <3>2 DEF LinesThere
  <2>8. Flagged'
    BY <1>1, <1>2, <2>1, <2>3 DEF Flagged, Early
  <2> QED BY <2>4, <2>5, <2>6, <2>7, <2>8 DEF IInv
<1> QED BY <1>7, <1>8

LEMMA TrimKeeps == IInv /\ Trim => IInv'
<1> SUFFICES ASSUME IInv, Trim PROVE IInv'
  OBVIOUS
<1> DEFINE t == [rows |-> rows, cur |-> IF AtHelp THEN [s \in Sides |-> here] ELSE cur]
           u == Trimmed(t, files, manual, here)
<1>1. /\ TypeOK /\ phase = "trim" /\ rows \in Seq(RowType)
      /\ help \in Nat \ {0} /\ here \in Nat \ {0} /\ here <= Len(rows) /\ Len(rows) \in Nat
  BY LenProperties DEF IInv, Trim, TypeOK
<1>2. /\ files' = files /\ three' = three /\ alignBC' = alignBC /\ tryHard' = tryHard /\ manual' = manual /\ edits' = edits
      /\ again' = again /\ diffs' = diffs /\ read' = read /\ phase' = phase
      /\ here' = here + 1 /\ help' = IF AtHelp THEN help + 1 ELSE help
      /\ rows' = u.rows /\ cur' = u.cur
  BY DEF Trim, input
<1>3. three /\ (again => alignBC)
  BY <1>1 DEF IInv, PassOrder, TypeOK
<1>4. \A s \in Sure : Full(s)
  BY <1>1 DEF IInv, LinesThere
<1>5. tryHard /\ manual = <<>> /\ Sure = Sides => AllExact(rows, files)
  BY DEF IInv, Flagged
<1>6. Sure \subseteq Sides
  BY DEF Sure, Sides
<1>7. TrimsAt(t, here)
  <2> DEFINE c == IF AtHelp THEN [s \in Sides |-> here] ELSE cur
  <2>1. t.rows = rows /\ t.cur = c /\ t = [rows |-> t.rows, cur |-> t.cur]
    OBVIOUS
  <2>2. TrimWell([rows |-> rows, cur |-> cur], here)
    BY <1>1 DEF IInv, RoomFree
  <2>3. /\ here \in 1..Len(rows) + 1 /\ \A s \in Sides : cur[s] \in 1..here
        /\ \A s \in Sides : \A k \in cur[s]..here - 1 : rows[k].at[s] = NoLine
    BY <2>2 DEF TrimWell
  <2>4. cur \in [Sides -> Nat \ {0}]
    BY <1>1 DEF TypeOK
  <2>5. /\ c \in [Sides -> Nat] /\ \A s \in Sides : c[s] \in 1..here
        /\ \A s \in Sides : \A k \in c[s]..here - 1 : rows[k].at[s] = NoLine
    <3>1. CASE AtHelp
      <4>1. c = [s \in Sides |-> here]
        BY <3>1
      <4> HIDE DEF c
      <4> QED BY <1>1, <4>1
    <3>2. CASE ~AtHelp
      <4>1. c = cur
        BY <3>2
      <4> HIDE DEF c
      <4> QED BY <2>3, <2>4, <4>1
    <3> QED BY <3>1, <3>2
  <2> HIDE DEF t, c
  <2>6. TrimWell(t, here)
    BY <1>1, <2>1, <2>3, <2>5 DEF TrimWell
  <2> QED BY <1>1, <2>1, <2>5, <2>6 DEF TrimsAt, IsState
<1>8. t.rows = rows
  OBVIOUS
<1> HIDE DEF t
<1>9. /\ TrimWell(u, here + 1) /\ u.rows \in Seq(RowType) /\ u.cur \in [Sides -> Nat]
      /\ KeepsLines(rows, u.rows)
      /\ AllExact(rows, files) => AllExact(u.rows, files)
  BY <1>7, <1>8, TrimmedRow
<1> HIDE DEF u
<1>10. TrimWell([rows |-> rows', cur |-> cur'], here + 1)
  BY <1>2, <1>9 DEF TrimWell
<1>11. TypeOK'
  <2>1. cur' \in [Sides -> Nat \ {0}]
    <3>1. \A s \in Sides : u.cur[s] \in 1..here + 1
      BY <1>9 DEF TrimWell
    <3> QED BY <1>1, <1>2, <1>9, <3>1
  <2>2. here' \in Nat \ {0} /\ help' \in Nat \ {0}
    BY <1>1, <1>2
  <2> QED BY <1>1, <1>2, <1>9, <2>1, <2>2 DEF TypeOK
<1>12. PassOrder'
  BY <1>1, <1>2, <1>3 DEF PassOrder, Early
<1>13. (ReadAB /\ NoneOfC /\ ReadAC /\ ReadBC /\ RowsNonempty)'
  BY <1>1, <1>2 DEF ReadAB, NoneOfC, ReadAC, ReadBC, RowsNonempty
<1>14. RoomFree'
  BY <1>2, <1>10 DEF RoomFree
<1>15. Sure' = Sure
  BY <1>2 DEF Sure
<1>16. LinesThere'
  <2>1. \A s \in Sure' : Full(s)'
    BY <1>2, <1>4, <1>6, <1>9, <1>15, FullKept
  <2> QED BY <1>1, <1>2, <2>1 DEF LinesThere
<1>17. Flagged'
  BY <1>1, <1>2, <1>5, <1>9, <1>15 DEF Flagged, Early
<1> QED BY <1>11, <1>12, <1>13, <1>14, <1>16, <1>17 DEF IInv

LEMMA TrimEndsKeeps == IInv /\ TrimEnds => IInv'
<1> SUFFICES ASSUME IInv, TrimEnds PROVE IInv'
  OBVIOUS
<1>1. TypeOK /\ phase = "trim" /\ rows \in Seq(RowType)
  BY DEF IInv, TrimEnds, TypeOK
<1>2. /\ files' = files /\ three' = three /\ alignBC' = alignBC /\ tryHard' = tryHard /\ manual' = manual /\ edits' = edits
      /\ diffs' = diffs /\ read' = read /\ here' = here /\ cur' = cur /\ help' = help
      /\ again' = TRUE /\ rows' = RemoveEmptyRows(rows)
      /\ phase' = IF again THEN "done" ELSE "diffBC"
  BY DEF TrimEnds, input
<1>3. three /\ (again => alignBC)
  BY <1>1 DEF IInv, PassOrder, TypeOK
<1>4. \A s \in Sure : Full(s)
  BY <1>1 DEF IInv, LinesThere
<1>5. tryHard /\ manual = <<>> /\ Sure = Sides => AllExact(rows, files)
  BY DEF IInv, Flagged
<1>6. Sure \subseteq Sides
  BY DEF Sure, Sides
<1>7. /\ rows' \in Seq(RowType) /\ KeepsLines(rows, rows')
      /\ \A k \in 1..Len(rows') : rows'[k] # EmptyRow
      /\ AllExact(rows, files) => AllExact(rows', files)
  BY <1>1, <1>2, RemovedWell
<1>8. TypeOK'
  BY <1>1, <1>2, <1>7 DEF TypeOK
<1>9. PassOrder'
  BY <1>2, <1>3 DEF PassOrder, Early
<1>10. (ReadAB /\ NoneOfC /\ ReadAC /\ ReadBC /\ RoomFree)'
  BY <1>2 DEF ReadAB, NoneOfC, ReadAC, ReadBC, RoomFree
<1>11. RowsNonempty'
  BY <1>7 DEF RowsNonempty
<1>12. Sure' = Sure
  BY <1>1, <1>2, <1>3 DEF Sure
<1>13. LinesThere'
  <2>1. \A s \in Sure' : Full(s)'
    BY <1>2, <1>4, <1>6, <1>7, <1>12, FullKept
  <2>2. phase' # "diffAC"
    BY <1>2
  <2> QED BY <2>1, <2>2 DEF LinesThere
<1>14. Flagged'
  <2>1. ~Early'
    BY <1>2 DEF Early
  <2> QED BY <1>2, <1>5, <1>7, <1>12, <2>1 DEF Flagged
<1> QED BY <1>8, <1>9, <1>10, <1>11, <1>13, <1>14 DEF IInv

LEMMA NextKeeps == IInv /\ [Next]_vars => IInv'
BY StutterKeeps, DiffABKeeps, DiffACKeeps, DiffBCKeeps, AddABKeeps, AddACKeeps, AddBCKeeps,
   CorrectKeeps, TrimKeeps, TrimEndsKeeps, UserKeeps DEF Next, Pass

LEMMA Inductive == Spec => []IInv
BY InitHolds, NextKeeps, PTL DEF Spec

-----------------------------------------------------------------------------
(* What follows.                                                             *)

LEMMA CompleteWhenFull ==
    ASSUME rows \in Seq(RowType), NEW s, Full(s)
    PROVE  Complete(s)
BY LinesComplete DEF Full, Complete, LinesOf

\* The variables have their types: every row, Diff and entry of the manual list is
\* well formed, and every position a number.
THEOREM TypeCorrect == Spec => []TypeOK
<1>1. IInv => TypeOK
  BY DEF IInv
<1> QED BY <1>1, Inductive, PTL

\* Whatever the files and whatever is aligned by hand, every line of every input
\* has exactly one row, in its order, and no row is empty: the passes of diff.cpp
\* lose no line and double none, as debugLineCheck() demands.
THEOREM NoLineIsLost == Spec => []EachLineOnce
<1>1. IInv => EachLineOnce
  <2> SUFFICES ASSUME IInv, RowsComplete, ~(alignBC /\ phase = "done")
               PROVE  (\A s \in Shown : Complete(s)) /\ EmptyRow \notin ToSet(rows)
    BY DEF EachLineOnce
  <2>1. rows \in Seq(RowType)
    BY DEF IInv, TypeOK
  <2>2. Shown \subseteq Sides /\ Sure = Sides
    BY DEF Shown, Sides, RowsComplete, Sure
  <2>3. \A s \in Shown : Full(s)
    BY <2>2 DEF IInv, LinesThere, RowsComplete
  <2>4. \A k \in 1..Len(rows) : rows[k] # EmptyRow
    BY DEF IInv, RowsNonempty, RowsComplete
  <2>5. DOMAIN rows = 1..Len(rows)
    BY <2>1, LenProperties
  <2> QED BY <2>1, <2>3, <2>4, <2>5, CompleteWhenFull DEF ToSet
<1> QED BY <1>1, Inductive, PTL

\* With the option "Align B and C" every line of B and of C still has exactly one
\* row, in its order.
THEOREM AlignBCLosesNothing == Spec => []AlignBCKeepsBAndC
<1>1. IInv => AlignBCKeepsBAndC
  <2> SUFFICES ASSUME IInv, phase = "done", NEW s \in Shown \ {"A"} PROVE Complete(s)
    BY DEF AlignBCKeepsBAndC
  <2>1. rows \in Seq(RowType)
    BY DEF IInv, TypeOK
  <2>2. s \in Sure \cap Shown
    BY DEF Sure, Shown, Sides
  <2>3. Full(s)
    BY <2>2 DEF IInv, LinesThere
  <2> QED BY <2>1, <2>3, CompleteWhenFull
<1> QED BY <1>1, Inductive, PTL

\* Nothing being aligned by hand and the diffs trying hard, lines that share a row
\* and have the same text are flagged equal, also after the trim has given them
\* other partners.
THEOREM NoDifferenceIsInvented == Spec => []EqualLinesAreFlagged
<1>1. IInv => EqualLinesAreFlagged
  <2> SUFFICES ASSUME IInv, tryHard, RowsComplete, manual = <<>>, ~(alignBC /\ phase = "done"),
                      NEW k \in DOMAIN rows, NEW p \in Pairs,
                      \A s, t \in p : SameText(rows[k], s, t)
               PROVE  p \in rows[k].eq
    BY DEF EqualLinesAreFlagged
  <2>1. DOMAIN rows = 1..Len(rows)
    BY LenProperties DEF IInv, TypeOK
  <2>2. Sure = Sides
    BY DEF RowsComplete, Sure
  <2>3. Exact(rows[k], files)
    BY <2>1, <2>2 DEF IInv, Flagged, AllExact
  <2>4. \A s, t \in p : Alike(rows[k], files, s, t)
    BY DEF SameText, Holds, Alike
  <2>5. PICK s \in Sides, t \in Sides : s # t /\ p = {s, t}
    BY DEF Pairs, AB, AC, BC, Sides
  <2>6. Alike(rows[k], files, s, t)
    BY <2>4, <2>5
  <2> QED BY <2>3, <2>5, <2>6 DEF Exact
<1> QED BY <1>1, Inductive, PTL
=============================================================================
