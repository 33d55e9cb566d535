----------------------------- MODULE ListLemmas -----------------------------
(* What FlattenSeq() and Kept() return, how to prove a fact for every length *)
(* of a sequence, and that a function defined by recursion over numbers is   *)
(* there: the lemmas the proofs about lists share.                           *)
EXTENDS ListParts, SequenceTheorems, WellFoundedInduction, TLAPS

\* What holds of 0, and of n + 1 when it holds of n, holds of every number.
LEMMA SetInduction ==
    ASSUME NEW S, 0 \in S, \A n \in Nat : n \in S => n + 1 \in S
    PROVE  \A n \in Nat : n \in S
<1> DEFINE T == Nat \ S
           LT == {p \in Nat \X Nat : p[1] < p[2]}
<1>1. SUFFICES ASSUME T # {} PROVE FALSE
  OBVIOUS
<1>2. IsWellFoundedOn(LT, Nat)
  BY NatLessThanWellFounded DEF OpToRel
<1>3. PICK m \in T : \A k \in T : <<k, m>> \notin LT
  <2> HIDE DEF LT
  <2> QED BY <1>1, <1>2, WFMin
<1>4. \A k \in T : ~(k < m)
  BY <1>3
<1>5. m \in Nat \ {0}
  BY <1>3
<1>6. m - 1 \in Nat /\ m - 1 < m /\ (m - 1) + 1 = m
  BY <1>5
<1>7. m - 1 \in S
  BY <1>4, <1>6
<1> QED
  BY <1>3, <1>6, <1>7

\* A function defined by what it is at 0 and by a step that stays in S.
LEMMA RecursionExists ==
    ASSUME NEW S, NEW a \in S, NEW n \in Nat, NEW G,
           \A x \in S, k \in 1..n : G[<<x, k>>] \in S
    PROVE  \E f : /\ f = [k \in 0..n |-> IF k = 0 THEN a ELSE G[<<f[k - 1], k>>]]
                  /\ f \in [0..n -> S]
<1> DEFINE Is(f, m) == /\ f \in [0..m -> S]
                       /\ f[0] = a
                       /\ \A k \in 1..m : f[k] = G[<<f[k - 1], k>>]
           T == {m \in Nat : m <= n => \E f : Is(f, m)}
<1>1. 0 \in T
  <2>1. Is([k \in 0..0 |-> a], 0)
    OBVIOUS
  <2> QED BY <2>1
<1>2. ASSUME NEW m \in Nat, m \in T PROVE m + 1 \in T
  <2> SUFFICES ASSUME m + 1 <= n PROVE \E f : Is(f, m + 1)
    OBVIOUS
  <2>1. PICK f : Is(f, m)
    BY <1>2
  <2>2. f[m] \in S /\ m + 1 \in 1..n
    BY <2>1
  <2> DEFINE x == G[<<f[m], m + 1>>]
             g == [k \in 0..m + 1 |-> IF k = m + 1 THEN x ELSE f[k]]
  <2>3. x \in S
    BY <2>2
  <2>4. g[m + 1] = x /\ \A k \in 0..m : g[k] = f[k]
    OBVIOUS
  <2>5. g \in [0..m + 1 -> S]
    <3> HIDE DEF x
    <3> QED BY <2>1, <2>3
  <2>6. ASSUME NEW k \in 1..m + 1 PROVE g[k] = G[<<g[k - 1], k>>]
    <3>1. k - 1 \in 0..m
      OBVIOUS
    <3> HIDE DEF g
    <3>2. CASE k = m + 1
      BY <2>4, <3>1, <3>2
    <3>3. CASE k # m + 1
      BY <2>1, <2>4, <3>1, <3>3
    <3> QED BY <3>2, <3>3
  <2>7. g[0] = a
    BY <2>1, <2>4
  <2>8. Is(g, m + 1)
    <3> HIDE DEF g
    <3> QED BY <2>5, <2>6, <2>7
  <2> QED BY <2>8
<1>3. \A m \in Nat : m \in T
  <2> HIDE DEF T
  <2> QED BY <1>1, <1>2, SetInduction
<1>4. PICK f : Is(f, n)
  BY <1>3
<1>5. f = [k \in 0..n |-> IF k = 0 THEN a ELSE G[<<f[k - 1], k>>]]
  <2>1. f = [k \in 0..n |-> f[k]]
    BY <1>4
  <2>2. \A k \in 0..n : f[k] = IF k = 0 THEN a ELSE G[<<f[k - 1], k>>]
    BY <1>4
  <2> QED BY <2>1, <2>2
<1> QED BY <1>4, <1>5

\* The function that FlattenSeq() is defined by.
IsFlatten(f, ss, n) == f = [i \in 1..n |-> IF i = 1 THEN ss[i] ELSE f[i - 1] \o ss[i]]

LEMMA FlattenExists == ASSUME NEW ss PROVE \A n \in Nat : \E f : IsFlatten(f, ss, n)
<1> DEFINE S == {n \in Nat : \E f : IsFlatten(f, ss, n)}
<1>1. 0 \in S
  <2>1. IsFlatten([i \in 1..0 |-> ss[i]], ss, 0)
    BY DEF IsFlatten
  <2> QED BY <2>1
<1>2. ASSUME NEW n \in Nat, n \in S PROVE n + 1 \in S
  <2>1. PICK f : IsFlatten(f, ss, n)
    BY <1>2
  <2> DEFINE g == [i \in 1..n + 1 |-> IF i = 1 THEN ss[i] ELSE f[i - 1] \o ss[i]]
  <2>2. \A i \in 1..n : f[i] = IF i = 1 THEN ss[i] ELSE f[i - 1] \o ss[i]
    BY <2>1 DEF IsFlatten
  <2>3. \A i \in 1..n : g[i] = f[i]
    BY <2>2
  <2>4. ASSUME NEW i \in 1..n + 1, i # 1 PROVE f[i - 1] = g[i - 1]
    <3>1. i - 1 \in 1..n
      BY <2>4
    <3> HIDE DEF g
    <3> QED BY <2>3, <3>1
  <2> DEFINE h(i) == IF i = 1 THEN ss[i] ELSE g[i - 1] \o ss[i]
  <2>5. \A i \in 1..n + 1 : h(i) = IF i = 1 THEN ss[i] ELSE f[i - 1] \o ss[i]
    <3> HIDE DEF g
    <3> QED BY <2>4
  <2>6. g = [i \in 1..n + 1 |-> h(i)]
    <3> HIDE DEF h
    <3> QED BY <2>5
  <2>7. IsFlatten(g, ss, n + 1)
    <3> HIDE DEF g
    <3> QED BY <2>6 DEF IsFlatten
  <2> QED BY <1>2, <2>7
<1> HIDE DEF S
<1>3. \A n \in Nat : n \in S
  BY <1>1, <1>2, SetInduction
<1> QED BY <1>3 DEF S

LEMMA FlattenOfNone == FlattenSeq(<<>>) = <<>>
  BY EmptySeq DEF FlattenSeq

LEMMA FlattenByFunction ==
    ASSUME NEW ss, Len(ss) \in Nat \ {0}
    PROVE  \E f : IsFlatten(f, ss, Len(ss)) /\ FlattenSeq(ss) = f[Len(ss)]
<1> DEFINE F == CHOOSE f : f = [i \in 1..Len(ss) |-> IF i = 1 THEN ss[i] ELSE f[i - 1] \o ss[i]]
<1>1. \E f : f = [i \in 1..Len(ss) |-> IF i = 1 THEN ss[i] ELSE f[i - 1] \o ss[i]]
  BY FlattenExists DEF IsFlatten
<1>2. F = [i \in 1..Len(ss) |-> IF i = 1 THEN ss[i] ELSE F[i - 1] \o ss[i]]
  BY <1>1
<1>3. FlattenSeq(ss) = F[Len(ss)]
  BY DEF FlattenSeq
<1> HIDE DEF F
<1> QED BY <1>2, <1>3 DEF IsFlatten

LEMMA FlattenAt ==
    ASSUME NEW f, NEW ss, NEW n \in Nat, IsFlatten(f, ss, n)
    PROVE  /\ n # 0 => f[1] = ss[1]
           /\ \A i \in 1..n - 1 : f[i + 1] = f[i] \o ss[i + 1]
<1>1. \A i \in 1..n : f[i] = IF i = 1 THEN ss[i] ELSE f[i - 1] \o ss[i]
  BY DEF IsFlatten
<1>2. ASSUME NEW i \in 1..n - 1 PROVE f[i + 1] = f[i] \o ss[i + 1]
  <2>1. i + 1 \in 1..n /\ i + 1 # 1 /\ (i + 1) - 1 = i
    OBVIOUS
  <2> QED BY <1>1, <2>1
<1>3. n # 0 => 1 \in 1..n
  OBVIOUS
<1> QED BY <1>1, <1>2, <1>3

\* Sequences of members of S are flattened to one.
LEMMA FlattenType ==
    ASSUME NEW S, NEW ss \in Seq(Seq(S))
    PROVE  FlattenSeq(ss) \in Seq(S)
<1>1. CASE ss = <<>>
  <2>1. <<>> \in Seq(S)
    BY EmptySeq
  <2> QED BY <1>1, <2>1, FlattenOfNone
<1>2. CASE ss # <<>>
  <2>1. Len(ss) \in Nat \ {0} /\ \A i \in 1..Len(ss) : ss[i] \in Seq(S)
    BY <1>2, EmptySeq, ElementOfSeq
  <2>2. PICK f : IsFlatten(f, ss, Len(ss)) /\ FlattenSeq(ss) = f[Len(ss)]
    BY <2>1, FlattenByFunction
  <2> DEFINE T == {i \in Nat : i \in 1..Len(ss) => f[i] \in Seq(S)}
  <2>3. 0 \in T
    OBVIOUS
  <2>4. ASSUME NEW i \in Nat, i \in T PROVE i + 1 \in T
    <3> SUFFICES ASSUME i + 1 \in 1..Len(ss) PROVE f[i + 1] \in Seq(S)
      OBVIOUS
    <3>1. CASE i = 0
      <4>1. f[1] = ss[1]
        BY <2>1, <2>2, FlattenAt, ZenonT(40)
      <4>2. i + 1 = 1 /\ 1 \in 1..Len(ss)
        BY <2>1, <3>1
      <4> QED BY <2>1, <4>1, <4>2
    <3>2. CASE i # 0
      <4>1. i \in 1..Len(ss) /\ i \in 1..Len(ss) - 1
        BY <2>1, <3>2
      <4>2. f[i] \in Seq(S) /\ ss[i + 1] \in Seq(S)
        BY <2>1, <2>4, <4>1
      <4>3. f[i + 1] = f[i] \o ss[i + 1]
        BY <2>1, <2>2, <4>1, FlattenAt
      <4> QED BY <4>2, <4>3, ConcatProperties
    <3> QED BY <3>1, <3>2
  <2>5. Len(ss) \in T
    <3> HIDE DEF T
    <3> QED BY <2>1, <2>3, <2>4, SetInduction
  <2> QED BY <2>1, <2>2, <2>5
<1> QED BY <1>1, <1>2

\* One more sequence comes behind the others.
LEMMA FlattenAppend ==
    ASSUME NEW S, NEW ss \in Seq(Seq(S)), NEW t \in Seq(S)
    PROVE  FlattenSeq(Append(ss, t)) = FlattenSeq(ss) \o t
<1> DEFINE tt == Append(ss, t)
           n == Len(ss)
<1>1. /\ tt \in Seq(Seq(S)) /\ Len(tt) = n + 1 /\ n \in Nat
      /\ tt[n + 1] = t /\ \A i \in 1..n : tt[i] = ss[i]
  BY AppendProperties, LenProperties
<1> HIDE DEF tt
<1>2. PICK g : IsFlatten(g, tt, n + 1) /\ FlattenSeq(tt) = g[n + 1]
  <2>1. Len(tt) \in Nat \ {0}
    BY <1>1
  <2> QED BY <1>1, <2>1, FlattenByFunction
<1>3. CASE n = 0
  <2>1. ss = <<>>
    BY <1>3, EmptySeq
  <2>2. g[n + 1] = t
    <3>1. n + 1 = 1
      BY <1>3
    <3>2. n + 1 \in Nat /\ n + 1 # 0
      BY <1>1
    <3>3. g[1] = tt[1]
      BY <1>2, <3>2, FlattenAt
    <3> QED BY <1>1, <3>1, <3>3
  <2>3. <<>> \o t = t
    BY ConcatEmptySeq
  <2> QED BY <1>2, <2>1, <2>2, <2>3, FlattenOfNone DEF tt
<1>4. CASE n # 0
  <2>1. PICK f : IsFlatten(f, ss, n) /\ FlattenSeq(ss) = f[n]
    BY <1>1, <1>4, FlattenByFunction
  <2> DEFINE T == {i \in Nat : i \in 1..n => f[i] = g[i]}
  <2>2. 0 \in T
    OBVIOUS
  <2>3. ASSUME NEW i \in Nat, i \in T PROVE i + 1 \in T
    <3> SUFFICES ASSUME i + 1 \in 1..n PROVE f[i + 1] = g[i + 1]
      OBVIOUS
    <3>1. i + 1 \in 1..n + 1 /\ tt[i + 1] = ss[i + 1] /\ n + 1 \in Nat
      BY <1>1
    <3>2. CASE i = 0
      <4>1. f[1] = ss[1]
        BY <1>1, <1>4, <2>1, FlattenAt
      <4>2. g[1] = tt[1]
        <5>1. n + 1 \in Nat /\ n + 1 # 0
          BY <1>1
        <5> QED BY <1>2, <5>1, FlattenAt, ZenonT(40)
      <4> QED BY <3>1, <3>2, <4>1, <4>2
    <3>3. CASE i # 0
      <4>1. i \in 1..n /\ i \in 1..n - 1 /\ i \in 1..(n + 1) - 1
        BY <1>1, <3>3
      <4>2. f[i + 1] = f[i] \o ss[i + 1]
        BY <1>1, <2>1, <4>1, FlattenAt, ZenonT(40)
      <4>3. g[i + 1] = g[i] \o tt[i + 1]
        BY <1>2, <3>1, <4>1, FlattenAt
      <4> QED BY <2>3, <3>1, <4>1, <4>2, <4>3
    <3> QED BY <3>2, <3>3
  <2>4. n \in T
    <3> HIDE DEF T
    <3> QED BY <1>1, <2>2, <2>3, SetInduction
  <2>5. f[n] = g[n]
    BY <1>1, <1>4, <2>4
  <2>6. g[n + 1] = g[n] \o t
    <3>1. n \in 1..(n + 1) - 1 /\ n + 1 \in Nat
      BY <1>1, <1>4
    <3> QED BY <1>1, <1>2, <3>1, FlattenAt, ZenonT(40)
  <2> QED BY <1>2, <2>1, <2>5, <2>6 DEF tt
<1> QED BY <1>3, <1>4

\* A sequence is its front and its last member.
LEMMA FrontAndLast ==
    ASSUME NEW S, NEW s \in Seq(S), NEW n \in Nat, Len(s) = n + 1
    PROVE  \E r \in Seq(S), x \in S :
               /\ s = Append(r, x) /\ Len(r) = n /\ s[n + 1] = x
               /\ \A i \in 1..n : r[i] = s[i]
<1>1. \A i \in 1..n : s[i] \in S
  BY ElementOfSeq
<1>2. s[n + 1] \in S
  BY ElementOfSeq
<1> DEFINE r == [i \in 1..n |-> s[i]]
<1>3. r \in Seq(S) /\ Len(r) = n
  BY <1>1
<1>4. s = Append(r, s[n + 1])
  <2>1. /\ Append(r, s[n + 1]) \in Seq(S) /\ Len(Append(r, s[n + 1])) = n + 1
        /\ \A i \in 1..n : Append(r, s[n + 1])[i] = r[i]
        /\ Append(r, s[n + 1])[n + 1] = s[n + 1]
    BY <1>2, <1>3, AppendProperties
  <2>2. \A i \in 1..n : r[i] = s[i]
    OBVIOUS
  <2> HIDE DEF r
  <2> QED BY <2>1, <2>2, SeqEqual
<1> QED BY <1>2, <1>3, <1>4

\* Two lists of sequences, one behind the other.
LEMMA FlattenConcat ==
    ASSUME NEW S, NEW ss \in Seq(Seq(S))
    PROVE  \A tt \in Seq(Seq(S)) : FlattenSeq(ss \o tt) = FlattenSeq(ss) \o FlattenSeq(tt)
<1> DEFINE T == {n \in Nat : \A tt \in Seq(Seq(S)) :
                    Len(tt) = n => FlattenSeq(ss \o tt) = FlattenSeq(ss) \o FlattenSeq(tt)}
<1>1. 0 \in T
  <2> SUFFICES ASSUME NEW tt \in Seq(Seq(S)), Len(tt) = 0
               PROVE  FlattenSeq(ss \o tt) = FlattenSeq(ss) \o FlattenSeq(tt)
    OBVIOUS
  <2>1. tt = <<>> /\ ss \o <<>> = ss
    BY EmptySeq, ConcatEmptySeq
  <2>2. FlattenSeq(ss) \o <<>> = FlattenSeq(ss)
    BY FlattenType, ConcatEmptySeq
  <2> QED BY <2>1, <2>2, FlattenOfNone
<1>2. ASSUME NEW n \in Nat, n \in T PROVE n + 1 \in T
  <2> SUFFICES ASSUME NEW tt \in Seq(Seq(S)), Len(tt) = n + 1
               PROVE  FlattenSeq(ss \o tt) = FlattenSeq(ss) \o FlattenSeq(tt)
    OBVIOUS
  <2>1. PICK rr \in Seq(Seq(S)), x \in Seq(S) : tt = Append(rr, x) /\ Len(rr) = n
    <3> DEFINE U == Seq(S)
    <3>1. tt \in Seq(U)
      OBVIOUS
    <3> HIDE DEF U
    <3>2. PICK rr \in Seq(U), x \in U :
             /\ tt = Append(rr, x) /\ Len(rr) = n /\ tt[n + 1] = x
             /\ \A i \in 1..n : rr[i] = tt[i]
      BY <3>1, FrontAndLast
    <3> QED BY <3>2 DEF U
  <2>2. FlattenSeq(ss \o rr) = FlattenSeq(ss) \o FlattenSeq(rr)
    BY <1>2, <2>1
  <2>3. ss \o Append(rr, x) = Append(ss \o rr, x) /\ ss \o rr \in Seq(Seq(S))
    <3>1. Append(rr, x) = rr \o <<x>> /\ Append(ss \o rr, x) = (ss \o rr) \o <<x>> /\ <<x>> \in Seq(Seq(S))
      BY <2>1, ConcatProperties, AppendIsConcat
    <3> QED BY <3>1, ConcatAssociative, ConcatProperties
  <2>4. /\ FlattenSeq(Append(ss \o rr, x)) = FlattenSeq(ss \o rr) \o x
        /\ FlattenSeq(Append(rr, x)) = FlattenSeq(rr) \o x
    BY <2>3, FlattenAppend
  <2>5. (FlattenSeq(ss) \o FlattenSeq(rr)) \o x = FlattenSeq(ss) \o (FlattenSeq(rr) \o x)
    <3>1. FlattenSeq(ss) \in Seq(S) /\ FlattenSeq(rr) \in Seq(S)
      BY FlattenType
    <3> QED BY <2>1, <3>1, ConcatAssociative, SMTT(30)
  <2> QED BY <2>1, <2>2, <2>3, <2>4, <2>5
<1> HIDE DEF T
<1>3. \A n \in Nat : n \in T
  BY <1>1, <1>2, SetInduction
<1> QED BY <1>3, LenProperties DEF T

-----------------------------------------------------------------------------
(* What the members of a sequence give, in their order. *)

Gathered(G, s) == FlattenSeq([i \in DOMAIN s |-> G[s[i]]])

LEMMA GatheredNone == ASSUME NEW G PROVE Gathered(G, <<>>) = <<>>
<1>1. [i \in DOMAIN <<>> |-> G[<<>>[i]]] = <<>>
  OBVIOUS
<1> QED BY <1>1, FlattenOfNone DEF Gathered

LEMMA GatheredParts ==
    ASSUME NEW S, NEW T, NEW G \in [S -> Seq(T)], NEW s \in Seq(S)
    PROVE  LET r == [i \in DOMAIN s |-> G[s[i]]]
           IN /\ r \in Seq(Seq(T)) /\ Len(r) = Len(s)
              /\ \A i \in 1..Len(s) : r[i] = G[s[i]]
<1>1. DOMAIN s = 1..Len(s) /\ Len(s) \in Nat /\ \A i \in 1..Len(s) : s[i] \in S
  BY LenProperties, ElementOfSeq
<1> DEFINE U == Seq(T)
           r == [i \in DOMAIN s |-> G[s[i]]]
<1>2. r \in [1..Len(s) -> U]
  BY <1>1
<1>3. \A i \in 1..Len(s) : r[i] = G[s[i]]
  BY <1>1
<1> HIDE DEF r, U
<1>4. r \in Seq(U) /\ Len(r) = Len(s)
  <2> DEFINE n == Len(s)
  <2>1. n \in Nat /\ r \in [1..n -> U]
    BY <1>1, <1>2
  <2> HIDE DEF n
  <2>2. r \in Seq(U) /\ Len(r) = n
    BY <2>1, SeqDef, LenProperties
  <2> QED BY <2>2 DEF n
<1> QED BY <1>3, <1>4 DEF r, U

LEMMA GatheredType ==
    ASSUME NEW S, NEW T, NEW G \in [S -> Seq(T)], NEW s \in Seq(S)
    PROVE  Gathered(G, s) \in Seq(T)
<1> DEFINE r == [i \in DOMAIN s |-> G[s[i]]]
<1>1. r \in Seq(Seq(T))
  BY GatheredParts
<1>2. Gathered(G, s) = FlattenSeq(r)
  BY DEF Gathered
<1> HIDE DEF r
<1> QED BY <1>1, <1>2, FlattenType

LEMMA GatheredAppend ==
    ASSUME NEW S, NEW T, NEW G \in [S -> Seq(T)]
    PROVE  \A s \in Seq(S), x \in S : Gathered(G, Append(s, x)) = Gathered(G, s) \o G[x]
<1> SUFFICES ASSUME NEW s \in Seq(S), NEW x \in S
             PROVE  Gathered(G, Append(s, x)) = Gathered(G, s) \o G[x]
  OBVIOUS
<1> DEFINE t == Append(s, x)
           r == [i \in DOMAIN s |-> G[s[i]]]
           q == [i \in DOMAIN t |-> G[t[i]]]
<1>1. /\ t \in Seq(S) /\ Len(t) = Len(s) + 1 /\ t[Len(s) + 1] = x
      /\ \A i \in 1..Len(s) : t[i] = s[i]
  BY AppendProperties
<1>2. r \in Seq(Seq(T)) /\ Len(r) = Len(s) /\ \A i \in 1..Len(s) : r[i] = G[s[i]]
  BY GatheredParts, SMTT(30)
<1> HIDE DEF t
<1>3. q \in Seq(Seq(T)) /\ Len(q) = Len(t) /\ \A i \in 1..Len(t) : q[i] = G[t[i]]
  BY <1>1, GatheredParts
<1>4. Gathered(G, s) = FlattenSeq(r) /\ Gathered(G, t) = FlattenSeq(q)
  BY DEF Gathered
<1> HIDE DEF r, q
<1>5. G[x] \in Seq(T) /\ Len(s) \in Nat
  BY LenProperties
<1>6. q = Append(r, G[x])
  <2> DEFINE U == Seq(T)
             e == G[x]
             a == Append(r, e)
  <2>1. r \in Seq(U) /\ e \in U /\ q \in Seq(U)
    BY <1>2, <1>3, <1>5
  <2> HIDE DEF U, e
  <2>2. a \in Seq(U) /\ Len(a) = Len(r) + 1 /\ a[Len(r) + 1] = e /\ \A i \in 1..Len(r) : a[i] = r[i]
    BY <2>1, AppendProperties
  <2> HIDE DEF a
  <2>3. Len(q) = Len(a) /\ \A i \in 1..Len(q) : q[i] = a[i]
    <3>1. Len(q) = Len(s) + 1 /\ Len(a) = Len(s) + 1
      BY <1>1, <1>2, <1>3, <2>2
    <3>2. ASSUME NEW i \in 1..Len(s) + 1 PROVE q[i] = a[i]
      <4>1. CASE i = Len(s) + 1
        BY <1>1, <1>2, <1>3, <2>2, <4>1 DEF e
      <4>2. CASE i # Len(s) + 1
        <5>1. i \in 1..Len(s) /\ i \in 1..Len(t)
          BY <1>1, <1>5, <4>2
        <5> QED BY <1>1, <1>2, <1>3, <2>2, <5>1
      <4> QED BY <4>1, <4>2
    <3> QED BY <3>1, <3>2
  <2> QED BY <2>1, <2>2, <2>3, SeqEqual DEF a, e
<1> QED BY <1>2, <1>4, <1>5, <1>6, FlattenAppend DEF t

LEMMA GatheredOne ==
    ASSUME NEW S, NEW T, NEW G \in [S -> Seq(T)]
    PROVE  \A x \in S : Gathered(G, <<x>>) = G[x]
<1> SUFFICES ASSUME NEW x \in S PROVE Gathered(G, <<x>>) = G[x]
  OBVIOUS
<1>1. <<>> \in Seq(S) /\ Append(<<>>, x) = <<x>> /\ G[x] \in Seq(T)
  OBVIOUS
<1>2. \A s \in Seq(S), y \in S : Gathered(G, Append(s, y)) = Gathered(G, s) \o G[y]
  BY GatheredAppend
<1>3. Gathered(G, Append(<<>>, x)) = Gathered(G, <<>>) \o G[x]
  BY <1>1, <1>2
<1>4. <<>> \o G[x] = G[x]
  BY <1>1, ConcatEmptySeq
<1> QED BY <1>1, <1>3, <1>4, GatheredNone

LEMMA GatheredConcat ==
    ASSUME NEW S, NEW T, NEW G \in [S -> Seq(T)]
    PROVE  \A s, t \in Seq(S) : Gathered(G, s \o t) = Gathered(G, s) \o Gathered(G, t)
<1> SUFFICES ASSUME NEW s \in Seq(S)
             PROVE  \A t \in Seq(S) : Gathered(G, s \o t) = Gathered(G, s) \o Gathered(G, t)
  OBVIOUS
<1> DEFINE P == {n \in Nat : \A t \in Seq(S) :
                    Len(t) = n => Gathered(G, s \o t) = Gathered(G, s) \o Gathered(G, t)}
<1>1. \A a, b, c \in Seq(T) : (a \o b) \o c = a \o (b \o c)
  BY ConcatAssociative
<1>2. \A q \in Seq(S), x \in S : Gathered(G, Append(q, x)) = Gathered(G, q) \o G[x]
  BY GatheredAppend
<1>3. \A q \in Seq(S) : Gathered(G, q) \in Seq(T)
  BY GatheredType
<1>4. 0 \in P
  <2> SUFFICES ASSUME NEW t \in Seq(S), Len(t) = 0
               PROVE  Gathered(G, s \o t) = Gathered(G, s) \o Gathered(G, t)
    OBVIOUS
  <2>1. t = <<>> /\ s \o <<>> = s
    BY EmptySeq, ConcatEmptySeq
  <2>2. Gathered(G, s) \o <<>> = Gathered(G, s)
    BY <1>3, ConcatEmptySeq
  <2> QED BY <2>1, <2>2, GatheredNone
<1>5. ASSUME NEW n \in Nat, n \in P PROVE n + 1 \in P
  <2> SUFFICES ASSUME NEW t \in Seq(S), Len(t) = n + 1
               PROVE  Gathered(G, s \o t) = Gathered(G, s) \o Gathered(G, t)
    OBVIOUS
  <2>1. PICK r \in Seq(S), x \in S :
           t = Append(r, x) /\ Len(r) = n /\ t[n + 1] = x /\ \A i \in 1..n : r[i] = t[i]
    BY FrontAndLast
  <2>2. Gathered(G, s \o r) = Gathered(G, s) \o Gathered(G, r)
    BY <1>5, <2>1
  <2>3. s \o Append(r, x) = Append(s \o r, x) /\ s \o r \in Seq(S)
    <3>1. s \o r \in Seq(S) /\ <<x>> \in Seq(S)
      BY <2>1, ConcatProperties
    <3>2. Append(r, x) = r \o <<x>> /\ Append(s \o r, x) = (s \o r) \o <<x>>
      BY <2>1, <3>1, AppendIsConcat
    <3>3. (s \o r) \o <<x>> = s \o (r \o <<x>>)
      BY <2>1, <3>1, ConcatAssociative
    <3> QED BY <3>1, <3>2, <3>3
  <2>4. /\ Gathered(G, Append(s \o r, x)) = Gathered(G, s \o r) \o G[x]
        /\ Gathered(G, Append(r, x)) = Gathered(G, r) \o G[x]
    <3> HIDE DEF P
    <3> QED BY <1>2, <2>1, <2>3
  <2>5. (Gathered(G, s) \o Gathered(G, r)) \o G[x] = Gathered(G, s) \o (Gathered(G, r) \o G[x])
    <3>1. Gathered(G, s) \in Seq(T) /\ Gathered(G, r) \in Seq(T) /\ G[x] \in Seq(T)
      BY <1>3, <2>1
    <3> QED BY <1>1, <3>1
  <2> QED BY <2>1, <2>2, <2>3, <2>4, <2>5
<1> HIDE DEF P
<1>6. \A n \in Nat : n \in P
  BY <1>4, <1>5, SetInduction
<1> QED BY <1>6, LenProperties DEF P

\* What the parts give together, part by part.
EachGathered(G, S) == [s \in Seq(S) |-> Gathered(G, s)]

LEMMA GatheredFlatten ==
    ASSUME NEW S, NEW T, NEW G \in [S -> Seq(T)]
    PROVE  \A ss \in Seq(Seq(S)) :
              Gathered(G, FlattenSeq(ss)) = Gathered(EachGathered(G, S), ss)
<1>1. \A s, t \in Seq(S) : Gathered(G, s \o t) = Gathered(G, s) \o Gathered(G, t)
  BY GatheredConcat
<1> DEFINE U == Seq(S)
           H == [s \in U |-> Gathered(G, s)]
           P == {n \in Nat : \A ss \in Seq(U) :
                    Len(ss) = n => Gathered(G, FlattenSeq(ss)) = Gathered(H, ss)}
<1>2. H \in [U -> Seq(T)] /\ \A s \in U : H[s] = Gathered(G, s)
  BY GatheredType
<1> HIDE DEF H
<1>3. 0 \in P
  <2> SUFFICES ASSUME NEW ss \in Seq(U), Len(ss) = 0
               PROVE  Gathered(G, FlattenSeq(ss)) = Gathered(H, ss)
    OBVIOUS
  <2>1. ss = <<>>
    BY EmptySeq
  <2> QED BY <2>1, GatheredNone, FlattenOfNone
<1>4. ASSUME NEW n \in Nat, n \in P PROVE n + 1 \in P
  <2> SUFFICES ASSUME NEW ss \in Seq(U), Len(ss) = n + 1
               PROVE  Gathered(G, FlattenSeq(ss)) = Gathered(H, ss)
    OBVIOUS
  <2>1. PICK rr \in Seq(U), x \in U :
           /\ ss = Append(rr, x) /\ Len(rr) = n /\ ss[n + 1] = x
           /\ \A i \in 1..n : rr[i] = ss[i]
    <3> HIDE DEF U
    <3> QED BY FrontAndLast
  <2>2. Gathered(G, FlattenSeq(rr)) = Gathered(H, rr)
    BY <1>4, <2>1
  <2>3. FlattenSeq(ss) = FlattenSeq(rr) \o x /\ FlattenSeq(rr) \in Seq(S)
    BY <2>1, FlattenAppend, FlattenType
  <2>4. Gathered(G, FlattenSeq(rr) \o x) = Gathered(G, FlattenSeq(rr)) \o Gathered(G, x)
    BY <1>1, <2>1, <2>3
  <2>5. Gathered(H, ss) = Gathered(H, rr) \o H[x]
    <3> HIDE DEF U
    <3> QED BY <1>2, <2>1, GatheredAppend
  <2> QED BY <1>2, <2>1, <2>2, <2>3, <2>4, <2>5
<1> HIDE DEF P
<1>5. \A n \in Nat : n \in P
  BY <1>3, <1>4, SetInduction
<1>6. \A ss \in Seq(U) : Gathered(G, FlattenSeq(ss)) = Gathered(H, ss)
  BY <1>5, LenProperties DEF P
<1> QED BY <1>6 DEF H, U, EachGathered

-----------------------------------------------------------------------------
LEMMA MapSeq ==
    ASSUME NEW S, NEW n \in Nat, NEW f \in [1..n -> S]
    PROVE  f \in Seq(S) /\ Len(f) = n
BY SeqDef, LenProperties

LEMMA MinWell ==
    ASSUME NEW I, I \subseteq Nat, I # {}
    PROVE  Min(I) \in I /\ \A y \in I : Min(I) <= y
<1> DEFINE T == {n \in Nat : (\E y \in I : y <= n) => \E x \in I : \A y \in I : x <= y}
<1>1. 0 \in T
  <2> SUFFICES ASSUME NEW y \in I, y <= 0 PROVE \E x \in I : \A z \in I : x <= z
    OBVIOUS
  <2>1. y = 0 /\ \A z \in I : 0 <= z
    OBVIOUS
  <2> QED BY <2>1
<1>2. ASSUME NEW n \in Nat, n \in T PROVE n + 1 \in T
  <2> SUFFICES ASSUME NEW y \in I, y <= n + 1 PROVE \E x \in I : \A z \in I : x <= z
    OBVIOUS
  <2>1. CASE \E z \in I : z <= n
    BY <1>2, <2>1
  <2>2. CASE ~\E z \in I : z <= n
    <3>1. \A z \in I : y <= z
      BY <2>2
    <3> QED BY <3>1
  <2> QED BY <2>1, <2>2
<1> HIDE DEF T
<1>3. \A n \in Nat : n \in T
  BY <1>1, <1>2, SetInduction
<1>4. \E x \in I : \A y \in I : x <= y
  <2>1. PICK y \in I : TRUE
    OBVIOUS
  <2>2. y \in T /\ y <= y
    BY <1>3, <2>1
  <2> QED BY <2>1, <2>2 DEF T
<1> QED BY <1>4 DEF Min

LEMMA ConcatParts ==
    ASSUME NEW S, NEW s \in Seq(S), NEW t \in Seq(S)
    PROVE  /\ s \o t \in Seq(S) /\ Len(s \o t) = Len(s) + Len(t)
           /\ \A x \in 1..Len(s) : (s \o t)[x] = s[x]
           /\ \A x \in 1..Len(t) : (s \o t)[Len(s) + x] = t[x]
<1> DEFINE r == s \o t
<1>1. /\ r \in Seq(S) /\ Len(r) = Len(s) + Len(t)
      /\ \A x \in 1..Len(s) + Len(t) : r[x] = IF x <= Len(s) THEN s[x] ELSE t[x - Len(s)]
  BY ConcatProperties
<1>2. Len(s) \in Nat /\ Len(t) \in Nat
  BY LenProperties
<1> HIDE DEF r
<1>3. ASSUME NEW x \in 1..Len(t) PROVE r[Len(s) + x] = t[x]
  <2>1. /\ Len(s) + x \in 1..Len(s) + Len(t) /\ ~(Len(s) + x <= Len(s))
        /\ Len(s) + x - Len(s) = x
    BY <1>2
  <2> QED BY <1>1, <2>1
<1>4. ASSUME NEW x \in 1..Len(s) PROVE r[x] = s[x]
  <2>1. x \in 1..Len(s) + Len(t) /\ x <= Len(s)
    BY <1>2
  <2> QED BY <1>1, <2>1
<1> QED BY <1>1, <1>3, <1>4 DEF r

\* r is s with m in the place of the members from i to j.
InPlaceOf(r, s, m, i, j, S) ==
    /\ r \in Seq(S) /\ Len(r) = i - 1 + Len(m) + Len(s) - j
    /\ \A x \in 1..i - 1 : r[x] = s[x]
    /\ \A x \in 1..Len(m), y \in Int : y = i - 1 + x => r[y] = m[x]
    /\ \A x \in j + 1..Len(s), y \in Int : y = i - 1 + Len(m) + x - j => r[y] = s[x]

LEMMA InPlace ==
    ASSUME NEW S, NEW s \in Seq(S), NEW m \in Seq(S), NEW i \in 1..Len(s) + 1,
           NEW j \in i - 1..Len(s)
    PROVE  InPlaceOf(SubSeq(s, 1, i - 1) \o m \o SubSeq(s, j + 1, Len(s)), s, m, i, j, S)
<1> DEFINE front == SubSeq(s, 1, i - 1)
           back == SubSeq(s, j + 1, Len(s))
           head == front \o m
           r == head \o back
<1>1. Len(s) \in Nat /\ Len(m) \in Nat /\ \A x \in 1..Len(s) : s[x] \in S
  BY LenProperties, ElementOfSeq
<1>2. /\ front \in Seq(S) /\ Len(front) = i - 1
      /\ \A x \in 1..i - 1 : front[x] = s[x]
  <2>1. CASE i = 1
    <3>1. front = <<>>
      BY <2>1, SubSeqProperties
    <3> QED BY <2>1, <3>1, EmptySeq
  <2>2. CASE i # 1
    <3>1. /\ front \in Seq(S)
          /\ Len(front) = IF 1 <= i - 1 THEN i - 1 - 1 + 1 ELSE 0
          /\ \A x \in 1..(i - 1 - 1 + 1) : front[x] = s[1 + x - 1]
      BY <1>1, <2>2, SubSeqProperties
    <3> HIDE DEF front
    <3> QED BY <1>1, <2>2, <3>1
  <2> QED BY <2>1, <2>2
<1>3. /\ back \in Seq(S) /\ Len(back) = Len(s) - j
      /\ \A x \in 1..Len(s) - j : back[x] = s[j + x]
  <2>1. CASE j = Len(s)
    <3>1. back = <<>>
      BY <1>1, <2>1, SubSeqProperties
    <3> QED BY <1>1, <2>1, <3>1, EmptySeq
  <2>2. CASE j # Len(s)
    <3>1. /\ back \in Seq(S)
          /\ Len(back) = IF j + 1 <= Len(s) THEN Len(s) - (j + 1) + 1 ELSE 0
          /\ \A x \in 1..(Len(s) - (j + 1) + 1) : back[x] = s[j + 1 + x - 1]
      BY <1>1, <2>2, SubSeqProperties
    <3> HIDE DEF back
    <3> QED BY <1>1, <2>2, <3>1
  <2> QED BY <2>1, <2>2
<1> HIDE DEF front, back
<1>4. /\ head \in Seq(S) /\ Len(head) = i - 1 + Len(m)
      /\ \A x \in 1..i - 1 : head[x] = s[x]
      /\ \A x \in 1..Len(m) : head[i - 1 + x] = m[x]
  <2>1. /\ head \in Seq(S) /\ Len(head) = Len(front) + Len(m)
        /\ \A x \in 1..Len(front) : head[x] = front[x]
        /\ \A x \in 1..Len(m) : head[Len(front) + x] = m[x]
    <3>1. front \in Seq(S) /\ m \in Seq(S)
      BY <1>2
    <3> QED BY <3>1, ConcatParts
  <2> HIDE DEF head
  <2>2. ASSUME NEW x \in 1..Len(m) PROVE head[i - 1 + x] = m[x]
    BY <1>2, <2>1
  <2> QED BY <1>2, <2>1, <2>2
<1> HIDE DEF head
<1>5. /\ r \in Seq(S) /\ Len(r) = Len(head) + Len(back)
      /\ \A x \in 1..Len(head) : r[x] = head[x]
      /\ \A x \in 1..Len(back) : r[Len(head) + x] = back[x]
  <2>1. head \in Seq(S) /\ back \in Seq(S)
    BY <1>3, <1>4
  <2> QED BY <2>1, ConcatParts
<1> HIDE DEF r
<1>6. Len(r) = i - 1 + Len(m) + Len(s) - j
  BY <1>1, <1>3, <1>4, <1>5
<1>7. \A x \in 1..i - 1 : r[x] = s[x]
  <2> SUFFICES ASSUME NEW x \in 1..i - 1 PROVE r[x] = s[x]
    OBVIOUS
  <2>1. x \in 1..Len(head)
    BY <1>1, <1>4
  <2> QED BY <1>4, <1>5, <2>1
<1>8. \A x \in 1..Len(m), y \in Int : y = i - 1 + x => r[y] = m[x]
  <2> SUFFICES ASSUME NEW x \in 1..Len(m) PROVE r[i - 1 + x] = m[x]
    OBVIOUS
  <2>1. i - 1 + x \in 1..Len(head)
    BY <1>1, <1>4
  <2> QED BY <1>4, <1>5, <2>1
<1>9. \A x \in j + 1..Len(s), y \in Int : y = i - 1 + Len(m) + x - j => r[y] = s[x]
  <2> SUFFICES ASSUME NEW x \in j + 1..Len(s), NEW y \in Int, y = i - 1 + Len(m) + x - j
               PROVE  r[y] = s[x]
    OBVIOUS
  <2>1. x - j \in 1..Len(s) - j /\ j + (x - j) = x
    BY <1>1
  <2>2. y = Len(head) + (x - j)
    BY <1>1, <1>4
  <2>3. r[Len(head) + (x - j)] = back[x - j] /\ back[x - j] = s[j + (x - j)]
    BY <1>3, <1>5, <2>1
  <2> QED BY <2>1, <2>2, <2>3
<1>10. InPlaceOf(r, s, m, i, j, S)
  BY <1>5, <1>6, <1>7, <1>8, <1>9 DEF InPlaceOf
<1> QED BY <1>10 DEF r, head, front, back

-----------------------------------------------------------------------------
(* Kept(). *)

LEMMA KeptAppend ==
    ASSUME NEW S, NEW s \in Seq(S), NEW x \in S, NEW K
    PROVE  Kept(Append(s, x), K) = IF Len(s) + 1 \in K THEN Append(Kept(s, K), x) ELSE Kept(s, K)
<1> DEFINE n == Len(s)
           piece(q, i) == IF i \in K THEN <<q[i]>> ELSE <<>>
           parts == [i \in DOMAIN s |-> piece(s, i)]
           t == IF n + 1 \in K THEN <<x>> ELSE <<>>
           more == [i \in DOMAIN Append(s, x) |-> piece(Append(s, x), i)]
<1>1. n \in Nat /\ DOMAIN s = 1..n
  BY LenProperties
<1>2. /\ Append(s, x) \in Seq(S) /\ Len(Append(s, x)) = n + 1 /\ DOMAIN Append(s, x) = 1..n + 1
      /\ \A i \in 1..n : Append(s, x)[i] = s[i]
      /\ Append(s, x)[n + 1] = x
  BY AppendProperties, LenProperties
<1>3. \A y \in S : <<y>> \in Seq(S) /\ <<>> \in Seq(S)
  OBVIOUS
<1>4. parts \in Seq(Seq(S)) /\ Len(parts) = n /\ t \in Seq(S)
  <2>1. \A i \in 1..n : s[i] \in S
    BY ElementOfSeq
  <2>2. \A i \in 1..n : piece(s, i) \in Seq(S)
    BY <1>3, <2>1
  <2> HIDE DEF piece
  <2>3. parts \in [1..n -> Seq(S)]
    BY <1>1, <2>2
  <2> QED BY <1>1, <1>3, <2>3, SeqDef, LenProperties
<1>5. more = Append(parts, t)
  <2>1. /\ Append(parts, t) \in Seq(Seq(S)) /\ Len(Append(parts, t)) = n + 1
        /\ \A i \in 1..n : Append(parts, t)[i] = parts[i]
        /\ Append(parts, t)[n + 1] = t
    <3> HIDE DEF parts, t
    <3> QED BY <1>4, AppendProperties
  <2>2. \A i \in 1..n : piece(Append(s, x), i) = parts[i]
    BY <1>1, <1>2
  <2>3. piece(Append(s, x), n + 1) = t
    BY <1>2
  <2>4. \A i \in 1..n + 1 : more[i] = Append(parts, t)[i]
    <3> HIDE DEF piece, parts, t
    <3> QED BY <1>1, <1>2, <2>1, <2>2, <2>3
  <2>5. DOMAIN more = 1..n + 1 /\ more = [i \in 1..n + 1 |-> more[i]]
    BY <1>2
  <2>6. more \in Seq(Seq(S)) /\ Len(more) = n + 1
    <3>1. \A i \in 1..n + 1 : more[i] \in Seq(S)
      <4> HIDE DEF more, parts, t
      <4> QED BY <1>1, <2>1, <2>4, ElementOfSeq
    <3> HIDE DEF more
    <3>2. more \in [1..n + 1 -> Seq(S)]
      BY <2>5, <3>1
    <3> QED BY <1>1, <3>2, SeqDef, LenProperties
  <2> HIDE DEF more, parts, t
  <2> QED BY <2>1, <2>4, <2>6, SeqEqual
<1>6. Kept(Append(s, x), K) = FlattenSeq(more) /\ Kept(s, K) = FlattenSeq(parts)
  BY DEF Kept
<1>7. FlattenSeq(more) = FlattenSeq(parts) \o t /\ FlattenSeq(parts) \in Seq(S)
  <2> HIDE DEF more, parts, t
  <2> QED BY <1>4, <1>5, FlattenAppend, FlattenType
<1> HIDE DEF more, parts
<1>8. CASE n + 1 \in K
  BY <1>6, <1>7, <1>8, AppendIsConcat
<1>9. CASE n + 1 \notin K
  BY <1>6, <1>7, <1>9, ConcatEmptySeq
<1> QED BY <1>8, <1>9

LEMMA KeptNone == ASSUME NEW K PROVE Kept(<<>>, K) = <<>>
<1>1. [i \in DOMAIN <<>> |-> IF i \in K THEN << <<>>[i] >> ELSE <<>>] = <<>>
  OBVIOUS
<1> QED BY <1>1, FlattenOfNone DEF Kept

\* What is kept was there, no farther in front; and it begins with the first
\* that is to be kept.
KeptWell(s, K, S) ==
    LET r == Kept(s, K)
    IN /\ r \in Seq(S)
       /\ \A n \in 1..Len(r) : \E i \in n..Len(s) : i \in K /\ r[n] = s[i]
       /\ \A m \in K : m \in 1..Len(s) /\ (\A i \in K : i \in 1..Len(s) => m <= i)
                           => Len(r) >= 1 /\ r[1] = s[m]
       /\ (\A i \in 1..Len(s) : i \notin K) <=> r = <<>>
       /\ (\A i \in 1..Len(s) : i \in K) => r = s

LEMMA KeptElements ==
    ASSUME NEW S, NEW K, K \subseteq Int
    PROVE  \A s \in Seq(S) : KeptWell(s, K, S)
<1> DEFINE T == {n \in Nat : \A s \in Seq(S) : Len(s) = n => KeptWell(s, K, S)}
<1>1. 0 \in T
  <2> SUFFICES ASSUME NEW s \in Seq(S), Len(s) = 0 PROVE KeptWell(s, K, S)
    OBVIOUS
  <2>1. s = <<>> /\ Kept(s, K) = <<>> /\ <<>> \in Seq(S) /\ Len(<<>>) = 0
    BY EmptySeq, KeptNone
  <2>2. 1..0 = {}
    OBVIOUS
  <2> QED BY <2>1, <2>2 DEF KeptWell
<1>2. ASSUME NEW n \in Nat, n \in T PROVE n + 1 \in T
  <2> SUFFICES ASSUME NEW s \in Seq(S), Len(s) = n + 1 PROVE KeptWell(s, K, S)
    OBVIOUS
  <2>1. PICK q \in Seq(S), x \in S :
           /\ s = Append(q, x) /\ Len(q) = n /\ s[n + 1] = x
           /\ \A i \in 1..n : q[i] = s[i]
    BY FrontAndLast
  <2> DEFINE r == Kept(q, K)
  <2>2. KeptWell(q, K, S)
    BY <1>2, <2>1
  <2>3. r \in Seq(S) /\ Len(r) \in Nat
    BY <2>2, LenProperties DEF KeptWell
  <2>4. Kept(s, K) = IF n + 1 \in K THEN Append(r, x) ELSE r
    BY <2>1, KeptAppend
  <2>5. /\ Append(r, x) \in Seq(S) /\ Len(Append(r, x)) = Len(r) + 1
        /\ \A i \in 1..Len(r) : Append(r, x)[i] = r[i]
        /\ Append(r, x)[Len(r) + 1] = x
    <3> HIDE DEF r
    <3> QED BY <2>1, <2>3, AppendProperties
  <2>6. \A k \in 1..Len(r) : \E i \in k..n : i \in K /\ r[k] = s[i] /\ i \in 1..n
    BY <2>1, <2>2 DEF KeptWell
  <2>7. Len(r) <= n
    <3>1. CASE Len(r) = 0
      BY <3>1
    <3>2. CASE Len(r) # 0
      BY <2>3, <2>6, <3>2
    <3> QED BY <3>1, <3>2
  <2>8. \A k \in 1..Len(Kept(s, K)) : \E i \in k..n + 1 : i \in K /\ Kept(s, K)[k] = s[i]
    <3> SUFFICES ASSUME NEW k \in 1..Len(Kept(s, K))
                 PROVE  \E i \in k..n + 1 : i \in K /\ Kept(s, K)[k] = s[i]
      OBVIOUS
    <3> HIDE DEF r
    <3>1. CASE k \in 1..Len(r)
      <4>1. Kept(s, K)[k] = r[k]
        BY <2>4, <2>5, <3>1
      <4>2. PICK i \in k..n : i \in K /\ r[k] = s[i]
        BY <2>6, <3>1
      <4>3. i \in k..n + 1
        OBVIOUS
      <4> QED BY <4>1, <4>2, <4>3
    <3>2. CASE k \notin 1..Len(r)
      <4>1. n + 1 \in K /\ k = Len(r) + 1
        BY <2>3, <2>4, <2>5, <3>2
      <4>2. Kept(s, K)[k] = s[n + 1] /\ n + 1 \in k..n + 1
        BY <2>1, <2>3, <2>4, <2>5, <2>7, <4>1
      <4> QED BY <4>1, <4>2
    <3> QED BY <3>1, <3>2
  <2>9. ASSUME NEW m \in K, m \in 1..n + 1, \A i \in K : i \in 1..n + 1 => m <= i
        PROVE  Len(Kept(s, K)) >= 1 /\ Kept(s, K)[1] = s[m]
    <3>1. CASE m \in 1..n
      <4>1. Len(r) >= 1 /\ r[1] = q[m]
        BY <2>1, <2>2, <2>9, <3>1 DEF KeptWell
      <4> HIDE DEF r
      <4>2. 1 \in 1..Len(r) /\ q[m] = s[m]
        BY <2>1, <2>3, <3>1, <4>1
      <4> QED BY <2>3, <2>4, <2>5, <4>1, <4>2
    <3>2. CASE m \notin 1..n
      <4>1. m = n + 1 /\ \A i \in 1..n : i \notin K
        BY <2>9, <3>2
      <4>2. r = <<>>
        BY <2>1, <2>2, <4>1 DEF KeptWell
      <4>3. Len(r) = 0
        BY <4>2, EmptySeq
      <4> HIDE DEF r
      <4> QED BY <2>1, <2>4, <2>5, <4>1, <4>3
    <3> QED BY <3>1, <3>2
  <2>13. ASSUME Kept(s, K) = <<>>, NEW i \in 1..n + 1, i \in K PROVE FALSE
    <3>1. Len(<<>>) = 0
      BY EmptySeq
    <3> HIDE DEF r
    <3>2. n + 1 \notin K /\ r = <<>>
      BY <2>3, <2>4, <2>5, <2>13, <3>1, SMTT(30)
    <3>3. i \in 1..n
      BY <2>13, <3>2
    <3> QED BY <2>1, <2>2, <2>13, <3>2, <3>3 DEF KeptWell, r
  <2>10. ASSUME \A i \in 1..n + 1 : i \notin K PROVE Kept(s, K) = <<>>
    <3>1. (\A i \in 1..n : i \notin K) /\ n + 1 \notin K
      BY <2>10
    <3> QED BY <2>1, <2>2, <2>4, <3>1 DEF KeptWell
  <2>11. ASSUME \A i \in 1..n + 1 : i \in K PROVE Kept(s, K) = s
    <3>1. (\A i \in 1..n : i \in K) /\ n + 1 \in K
      BY <2>11
    <3> QED BY <2>1, <2>2, <2>4, <3>1 DEF KeptWell
  <2>12. Kept(s, K) \in Seq(S)
    BY <2>3, <2>4, <2>5
  <2> QED BY <2>8, <2>9, <2>10, <2>11, <2>12, <2>13 DEF KeptWell
<1> HIDE DEF T
<1>3. \A n \in Nat : n \in T
  BY <1>1, <1>2, SetInduction
<1> QED BY <1>3, LenProperties DEF T
\* Between two members that are neighbours in what is kept nothing is to be
\* kept, and nothing behind the last.
KeptNear(s, K) ==
    LET r == Kept(s, K)
    IN /\ \A n \in 1..Len(r) - 1 : \E i, j \in 1..Len(s) :
             /\ i < j /\ i \in K /\ j \in K /\ r[n] = s[i] /\ r[n + 1] = s[j]
             /\ \A m \in i + 1..j - 1 : m \notin K
       /\ r # <<>> => \E i \in 1..Len(s) :
             /\ i \in K /\ r[Len(r)] = s[i]
             /\ \A m \in i + 1..Len(s) : m \notin K

LEMMA KeptNeighbours ==
    ASSUME NEW S, NEW K, K \subseteq Int
    PROVE  \A s \in Seq(S) : KeptNear(s, K)
<1> DEFINE T == {n \in Nat : \A s \in Seq(S) : Len(s) = n => KeptNear(s, K)}
<1>1. 0 \in T
  <2> SUFFICES ASSUME NEW s \in Seq(S), Len(s) = 0 PROVE KeptNear(s, K)
    OBVIOUS
  <2>1. s = <<>> /\ Kept(s, K) = <<>> /\ Len(<<>>) = 0
    BY EmptySeq, KeptNone
  <2>2. 1..0 - 1 = {}
    OBVIOUS
  <2> QED BY <2>1, <2>2 DEF KeptNear
<1>2. ASSUME NEW n \in Nat, n \in T PROVE n + 1 \in T
  <2> SUFFICES ASSUME NEW s \in Seq(S), Len(s) = n + 1 PROVE KeptNear(s, K)
    OBVIOUS
  <2>1. PICK q \in Seq(S), x \in S :
           /\ s = Append(q, x) /\ Len(q) = n /\ s[n + 1] = x
           /\ \A i \in 1..n : q[i] = s[i]
    BY FrontAndLast
  <2> DEFINE r == Kept(q, K)
             t == Kept(s, K)
             l == Len(r)
  <2>2. KeptNear(q, K) /\ KeptWell(q, K, S)
    BY <1>2, <2>1, KeptElements
  <2>3. r \in Seq(S) /\ l \in Nat
    BY <2>2, LenProperties DEF KeptWell
  <2>4. t = IF n + 1 \in K THEN Append(r, x) ELSE r
    BY <2>1, KeptAppend
  <2>5. /\ Append(r, x) \in Seq(S) /\ Len(Append(r, x)) = l + 1
        /\ \A i \in 1..l : Append(r, x)[i] = r[i]
        /\ Append(r, x)[l + 1] = x
    <3> HIDE DEF r
    <3> QED BY <2>1, <2>3, AppendProperties
  <2>6. \A k \in 1..l - 1 : \E i, j \in 1..n :
           /\ i < j /\ i \in K /\ j \in K /\ r[k] = s[i] /\ r[k + 1] = s[j]
           /\ \A m \in i + 1..j - 1 : m \notin K
    <3> SUFFICES ASSUME NEW k \in 1..l - 1
                 PROVE  \E i, j \in 1..n :
                           /\ i < j /\ i \in K /\ j \in K /\ r[k] = s[i] /\ r[k + 1] = s[j]
                           /\ \A m \in i + 1..j - 1 : m \notin K
      OBVIOUS
    <3>1. PICK i, j \in 1..n :
             /\ i < j /\ i \in K /\ j \in K /\ r[k] = q[i] /\ r[k + 1] = q[j]
             /\ \A m \in i + 1..j - 1 : m \notin K
      BY <2>1, <2>2 DEF KeptNear
    <3> HIDE DEF r
    <3>2. q[i] = s[i] /\ q[j] = s[j]
      BY <2>1, <3>1
    <3> QED BY <3>1, <3>2
  <2>7. ASSUME r # <<>>
        PROVE  \E i \in 1..n : i \in K /\ r[l] = s[i] /\ \A m \in i + 1..n : m \notin K
    <3>1. PICK i \in 1..n : i \in K /\ r[l] = q[i] /\ \A m \in i + 1..n : m \notin K
      BY <2>1, <2>2, <2>7 DEF KeptNear
    <3> HIDE DEF r
    <3>2. q[i] = s[i]
      BY <2>1, <3>1
    <3> QED BY <3>1, <3>2
  <2> HIDE DEF r, t
  <2>8. \A i \in 1..n : i \in 1..n + 1
    OBVIOUS
  <2>9. CASE n + 1 \in K
    <3>1. t = Append(r, x) /\ Len(t) = l + 1 /\ t[l + 1] = s[n + 1]
      BY <2>1, <2>4, <2>5, <2>9
    <3>2. ASSUME NEW k \in 1..l
          PROVE  \E i, j \in 1..n + 1 :
                    /\ i < j /\ i \in K /\ j \in K /\ t[k] = s[i] /\ t[k + 1] = s[j]
                    /\ \A m \in i + 1..j - 1 : m \notin K
      <4>1. t[k] = r[k]
        BY <2>5, <3>1
      <4>2. CASE k = l
        <5>1. r # <<>>
          BY <2>3, <4>2, EmptySeq
        <5>2. PICK i \in 1..n : i \in K /\ r[l] = s[i] /\ \A m \in i + 1..n : m \notin K
          BY <2>7, <5>1
        <5>3. i < n + 1 /\ n + 1 \in 1..n + 1 /\ n + 1 - 1 = n
          BY <5>2
        <5> QED BY <2>8, <2>9, <3>1, <4>1, <4>2, <5>2, <5>3
      <4>3. CASE k # l
        <5>1. k \in 1..l - 1 /\ k + 1 \in 1..l
          BY <2>3, <4>3
        <5>2. t[k + 1] = r[k + 1]
          BY <2>5, <3>1, <5>1
        <5> QED BY <2>6, <2>8, <4>1, <5>1, <5>2
      <4> QED BY <4>2, <4>3
    <3>3. Len(t) - 1 = l
      BY <2>3, <3>1
    <3>4. n + 1 \in 1..n + 1 /\ n + 1 + 1..n + 1 = {} /\ t[Len(t)] = s[n + 1]
      BY <3>1
    <3>5. \A k \in 1..Len(t) - 1 : \E i, j \in 1..n + 1 :
             /\ i < j /\ i \in K /\ j \in K /\ t[k] = s[i] /\ t[k + 1] = s[j]
             /\ \A m \in i + 1..j - 1 : m \notin K
      <4>1. \A k \in 1..Len(t) - 1 : k \in 1..l
        BY <2>3, <3>1
      <4> QED BY <3>2, <4>1, ZenonT(40)
    <3>6. \E i \in 1..n + 1 : i \in K /\ t[Len(t)] = s[i] /\ \A m \in i + 1..n + 1 : m \notin K
      BY <2>9, <3>4
    <3> QED BY <3>5, <3>6, SMTT(30) DEF KeptNear, t
  <2>10. CASE n + 1 \notin K
    <3>1. t = r
      BY <2>4, <2>10
    <3>2. ASSUME NEW k \in 1..Len(t) - 1
          PROVE  \E i, j \in 1..n + 1 :
                    /\ i < j /\ i \in K /\ j \in K /\ t[k] = s[i] /\ t[k + 1] = s[j]
                    /\ \A m \in i + 1..j - 1 : m \notin K
      <4>1. k \in 1..l - 1
        BY <2>8, <3>1, <3>2
      <4>2. PICK i, j \in 1..n :
               /\ i < j /\ i \in K /\ j \in K /\ r[k] = s[i] /\ r[k + 1] = s[j]
               /\ \A m \in i + 1..j - 1 : m \notin K
        BY <2>6, <4>1
      <4>3. i \in 1..n + 1 /\ j \in 1..n + 1
        OBVIOUS
      <4> QED BY <2>8, <3>1, <4>2, <4>3
    <3>3. ASSUME t # <<>>
          PROVE  \E i \in 1..n + 1 : i \in K /\ t[Len(t)] = s[i] /\ \A m \in i + 1..n + 1 : m \notin K
      <4>1. PICK i \in 1..n : i \in K /\ r[l] = s[i] /\ \A m \in i + 1..n : m \notin K
        BY <2>7, <3>1, <3>3
      <4>2. \A m \in i + 1..n + 1 : m \notin K
        BY <2>10, <4>1
      <4> QED BY <2>8, <3>1, <4>1, <4>2
    <3> QED BY <3>2, <3>3, ZenonT(40) DEF KeptNear, t
  <2> QED BY <2>9, <2>10
<1> HIDE DEF T
<1>3. \A n \in Nat : n \in T
  BY <1>1, <1>2, SetInduction
<1> QED BY <1>3, LenProperties DEF T

\* What is kept gives the same if the rest gives nothing.
LEMMA KeptGathered ==
    ASSUME NEW S, NEW T, NEW G \in [S -> Seq(T)], NEW K
    PROVE  \A s \in Seq(S) : (\A i \in 1..Len(s) : i \notin K => G[s[i]] = <<>>) =>
              Gathered(G, Kept(s, K)) = Gathered(G, s) /\ Kept(s, K) \in Seq(S)
<1>1. \A q \in Seq(S), x \in S : Gathered(G, Append(q, x)) = Gathered(G, q) \o G[x]
  BY GatheredAppend
<1>2. \A q \in Seq(S) : Gathered(G, q) \in Seq(T)
  BY GatheredType
<1> DEFINE Fine(s) == (\A i \in 1..Len(s) : i \notin K => G[s[i]] = <<>>) =>
                         Gathered(G, Kept(s, K)) = Gathered(G, s) /\ Kept(s, K) \in Seq(S)
           P == {n \in Nat : \A s \in Seq(S) : Len(s) = n => Fine(s)}
<1>3. 0 \in P
  <2> SUFFICES ASSUME NEW s \in Seq(S), Len(s) = 0 PROVE Fine(s)
    OBVIOUS
  <2>1. s = <<>> /\ Kept(s, K) = <<>>
    BY EmptySeq, KeptNone
  <2> QED BY <2>1
<1>4. ASSUME NEW n \in Nat, n \in P PROVE n + 1 \in P
  <2> SUFFICES ASSUME NEW s \in Seq(S), Len(s) = n + 1,
                      \A i \in 1..Len(s) : i \notin K => G[s[i]] = <<>>
               PROVE  Gathered(G, Kept(s, K)) = Gathered(G, s) /\ Kept(s, K) \in Seq(S)
    OBVIOUS
  <2>0. \E r \in Seq(S), x \in S :
           s = Append(r, x) /\ Len(r) = n /\ s[n + 1] = x /\ \A i \in 1..n : r[i] = s[i]
    BY ONLY s \in Seq(S), n \in Nat, Len(s) = n + 1, FrontAndLast
  <2>1. PICK r \in Seq(S), x \in S :
           s = Append(r, x) /\ Len(r) = n /\ s[n + 1] = x /\ \A i \in 1..n : r[i] = s[i]
    BY ONLY <2>0
  <2>2. Gathered(G, Kept(r, K)) = Gathered(G, r) /\ Kept(r, K) \in Seq(S)
    <3>1. \A i \in 1..Len(r) : i \notin K => G[r[i]] = <<>>
      BY <2>1
    <3> QED BY <1>4, <2>1, <3>1
  <2>3. Kept(s, K) = IF n + 1 \in K THEN Append(Kept(r, K), x) ELSE Kept(r, K)
    BY <2>1, KeptAppend
  <2> HIDE DEF P
  <2>4. Gathered(G, s) = Gathered(G, r) \o G[x]
    BY <1>1, <2>1
  <2>5. CASE n + 1 \in K
    <3>1. Kept(s, K) = Append(Kept(r, K), x)
      BY <2>3, <2>5
    <3>2. Append(Kept(r, K), x) \in Seq(S)
      BY <2>1, <2>2, AppendProperties
    <3>3. Gathered(G, Append(Kept(r, K), x)) = Gathered(G, Kept(r, K)) \o G[x]
      BY <1>1, <2>1, <2>2
    <3> QED BY <2>2, <2>4, <3>1, <3>2, <3>3
  <2>6. CASE n + 1 \notin K
    <3>1. G[x] = <<>>
      BY <2>1, <2>6
    <3>2. Gathered(G, r) \o <<>> = Gathered(G, r)
      BY <1>2, <2>1, ConcatEmptySeq
    <3> QED BY <2>2, <2>3, <2>4, <2>6, <3>1, <3>2
  <2> QED BY <2>5, <2>6
<1> HIDE DEF P
<1>5. \A n \in Nat : n \in P
  BY <1>3, <1>4, SetInduction
<1> QED BY <1>5, LenProperties DEF P

-----------------------------------------------------------------------------
(* What a list gives when a part of it is replaced. *)

\* s with m in the place of the members from i to j.
Part(s, i, j, m) == SubSeq(s, 1, i - 1) \o m \o SubSeq(s, j + 1, Len(s))

LEMMA PartUnique ==
    ASSUME NEW S, NEW s \in Seq(S), NEW m \in Seq(S), NEW i \in 1..Len(s) + 1,
           NEW j \in i - 1..Len(s), NEW r, InPlaceOf(r, s, m, i, j, S)
    PROVE  r = Part(s, i, j, m)
<1> DEFINE t == Part(s, i, j, m)
<1>1. InPlaceOf(t, s, m, i, j, S)
  BY InPlace DEF Part
<1>2. Len(s) \in Nat /\ Len(m) \in Nat
  BY LenProperties
<1> HIDE DEF t
<1>3. /\ r \in Seq(S) /\ t \in Seq(S) /\ Len(r) = Len(t)
      /\ Len(r) = i - 1 + Len(m) + Len(s) - j
  BY <1>1 DEF InPlaceOf
<1>4. ASSUME NEW x \in 1..Len(r) PROVE r[x] = t[x]
  <2>1. CASE x <= i - 1
    <3>1. x \in 1..i - 1
      BY <2>1
    <3> QED BY <1>1, <3>1 DEF InPlaceOf
  <2>2. CASE i - 1 < x /\ x <= i - 1 + Len(m)
    <3> DEFINE y == x - (i - 1)
    <3>1. y \in 1..Len(m) /\ x \in Int /\ x = i - 1 + y
      BY <1>2, <2>2
    <3> HIDE DEF y
    <3> QED BY <1>1, <3>1 DEF InPlaceOf
  <2>3. CASE i - 1 + Len(m) < x
    <3> DEFINE y == x - (i - 1) - Len(m) + j
    <3>1. y \in j + 1..Len(s) /\ x \in Int /\ x = i - 1 + Len(m) + y - j
      BY <1>2, <1>3, <2>3
    <3> HIDE DEF y
    <3> QED BY <1>1, <3>1 DEF InPlaceOf
  <2> QED BY <1>2, <2>1, <2>2, <2>3
<1> QED BY <1>3, <1>4, SeqEqual DEF t

\* What the list gives around the part, a and z, whatever is put in its place.
Frame(G, S, s, i, j, a, z) ==
    /\ i = 1 => a = <<>>
    /\ j = Len(s) => z = <<>>
    /\ \A m \in Seq(S) : Gathered(G, Part(s, i, j, m)) = (a \o Gathered(G, m)) \o z

LEMMA GatheredPart ==
    ASSUME NEW S, NEW T, NEW G \in [S -> Seq(T)]
    PROVE  \A s \in Seq(S) : \A i \in 1..Len(s) + 1 : \A j \in i - 1..Len(s) :
              \E a, z \in Seq(T) : Frame(G, S, s, i, j, a, z)
<1>4. \A u, v \in Seq(S) : Gathered(G, u \o v) = Gathered(G, u) \o Gathered(G, v)
  BY GatheredConcat
<1> SUFFICES ASSUME NEW s \in Seq(S), NEW i \in 1..Len(s) + 1, NEW j \in i - 1..Len(s)
             PROVE  \E a, z \in Seq(T) : Frame(G, S, s, i, j, a, z)
  OBVIOUS
<1> DEFINE front == SubSeq(s, 1, i - 1)
           back == SubSeq(s, j + 1, Len(s))
           a == Gathered(G, front)
           z == Gathered(G, back)
<1>1. Len(s) \in Nat /\ \A x \in 1..Len(s) : s[x] \in S
  BY LenProperties, ElementOfSeq
<1>2. front \in Seq(S) /\ (i = 1 => front = <<>>)
  <2>1. CASE i = 1
    BY <2>1, SubSeqProperties, EmptySeq
  <2>2. CASE i # 1
    BY <1>1, <2>2, SubSeqProperties
  <2> QED BY <2>1, <2>2
<1>3. back \in Seq(S) /\ (j = Len(s) => back = <<>>)
  <2>1. CASE j = Len(s)
    BY <1>1, <2>1, SubSeqProperties, EmptySeq
  <2>2. CASE j # Len(s)
    BY <1>1, <2>2, SubSeqProperties
  <2> QED BY <2>1, <2>2
<1> HIDE DEF front, back
<1>5. ASSUME NEW m \in Seq(S)
      PROVE  Gathered(G, Part(s, i, j, m)) = (a \o Gathered(G, m)) \o z
  <2>1. Part(s, i, j, m) = (front \o m) \o back
    BY DEF Part, front, back
  <2>2. front \o m \in Seq(S)
    BY <1>2, ConcatProperties
  <2>3. Gathered(G, (front \o m) \o back) = Gathered(G, front \o m) \o Gathered(G, back)
    BY <1>3, <1>4, <2>2
  <2>4. Gathered(G, front \o m) = Gathered(G, front) \o Gathered(G, m)
    BY <1>2, <1>4
  <2> QED BY <2>1, <2>3, <2>4
<1>6. a \in Seq(T) /\ z \in Seq(T)
  BY <1>2, <1>3, GatheredType
<1>7. (i = 1 => a = <<>>) /\ (j = Len(s) => z = <<>>)
  BY <1>2, <1>3, GatheredNone
<1> HIDE DEF a, z
<1> QED BY <1>5, <1>6, <1>7 DEF Frame

LEMMA GatheredNothing ==
    ASSUME NEW S, NEW T, NEW G \in [S -> Seq(T)], NEW s \in Seq(S),
           \A i \in 1..Len(s) : G[s[i]] = <<>>
    PROVE  Gathered(G, s) = <<>>
<1>1. {} \subseteq Int /\ \A i \in 1..Len(s) : i \notin {}
  OBVIOUS
<1>2. KeptWell(s, {}, S)
  BY <1>1, KeptElements
<1>3. Kept(s, {}) = <<>>
  BY <1>1, <1>2 DEF KeptWell
<1>4. \A t \in Seq(S) : (\A i \in 1..Len(t) : i \notin {} => G[t[i]] = <<>>) =>
         Gathered(G, Kept(t, {})) = Gathered(G, t) /\ Kept(t, {}) \in Seq(S)
  BY KeptGathered
<1>5. Gathered(G, Kept(s, {})) = Gathered(G, s)
  BY <1>4
<1> QED BY <1>3, <1>5, GatheredNone

\* One member may be another one.
LEMMA ReplacedPart ==
    ASSUME NEW S, NEW s \in Seq(S), NEW i \in 1..Len(s), NEW r \in Seq(S), Len(r) = Len(s),
           \A x \in 1..Len(s) : x # i => r[x] = s[x]
    PROVE  r = Part(s, i, i, <<r[i]>>)
<1> DEFINE m == <<r[i]>>
<1>1. Len(s) \in Nat /\ r[i] \in S /\ i \in 1..Len(s) + 1 /\ i \in i - 1..Len(s)
  BY LenProperties, ElementOfSeq
<1>2. m \in Seq(S) /\ Len(m) = 1 /\ m[1] = r[i]
  BY <1>1
<1> HIDE DEF m
<1>3. InPlaceOf(r, s, m, i, i, S)
  BY <1>1, <1>2 DEF InPlaceOf
<1>4. r = Part(s, i, i, m)
  BY <1>1, <1>2, <1>3, PartUnique
<1> QED BY <1>4 DEF m

\* The same with a new one behind it.
LEMMA InsertedPart ==
    ASSUME NEW S, NEW s \in Seq(S), NEW i \in 1..Len(s), NEW w \in Seq(S), Len(w) = Len(s),
           \A x \in 1..Len(s) : x # i => w[x] = s[x], NEW f \in S
    PROVE  InsertAt(w, i + 1, f) = Part(s, i, i, <<w[i]>> \o <<f>>)
<1> DEFINE e == w[i]
           m == <<e>> \o <<f>>
           g == <<f>>
           r == InsertAt(w, i + 1, f)
<1>1. Len(s) \in Nat /\ i \in 1..Len(s) + 1 /\ i \in i - 1..Len(s)
  BY LenProperties
<1>2. /\ w \in Seq(S) /\ Len(w) = Len(s) /\ \A x \in 1..Len(s) : w[x] = IF x = i THEN e ELSE s[x]
      /\ e \in S
  BY <1>1, ElementOfSeq
<1> HIDE DEF e
<1>3. g \in Seq(S) /\ Len(g) = 1 /\ g[1] = f
  OBVIOUS
<1>4. m \in Seq(S) /\ Len(m) = 2 /\ m[1] = e /\ m[2] = f
  BY <1>2
<1>5. r = SubSeq(w, 1, (i + 1) - 1) \o g \o SubSeq(w, i + 1, Len(w))
  BY DEF InsertAt
<1> HIDE DEF m, g, r
<1>6. InPlaceOf(r, w, g, i + 1, i, S)
  <2>1. i + 1 \in 1..Len(w) + 1 /\ i \in (i + 1) - 1..Len(w)
    BY <1>1, <1>2
  <2> QED BY <1>2, <1>3, <1>5, <2>1, InPlace
<1>7. /\ r \in Seq(S) /\ Len(r) = Len(s) + 1
      /\ \A x \in 1..i : r[x] = w[x]
      /\ r[i + 1] = f
      /\ \A x \in i + 1..Len(s), y \in Int : y = x + 1 => r[y] = s[x]
  <2>1. r \in Seq(S) /\ Len(r) = (i + 1) - 1 + Len(g) + Len(w) - i
    BY <1>6 DEF InPlaceOf
  <2>2. \A x \in 1..(i + 1) - 1 : r[x] = w[x]
    BY <1>6 DEF InPlaceOf
  <2>3. r[i + 1] = f
    <3>1. 1 \in 1..Len(g) /\ i + 1 \in Int /\ i + 1 = (i + 1) - 1 + 1
      BY <1>1, <1>3
    <3> QED BY <1>3, <1>6, <3>1 DEF InPlaceOf
  <2>4. ASSUME NEW x \in i + 1..Len(s) PROVE r[x + 1] = s[x]
    <3>1. x \in i + 1..Len(w) /\ x + 1 \in Int /\ x + 1 = (i + 1) - 1 + Len(g) + x - i
      BY <1>1, <1>2, <1>3
    <3>2. r[x + 1] = w[x]
      BY <1>6, <3>1 DEF InPlaceOf
    <3>3. x \in 1..Len(s) /\ x # i
      BY <1>1
    <3> QED BY <1>2, <3>2, <3>3
  <2> QED BY <1>1, <1>2, <1>3, <2>1, <2>2, <2>3, <2>4
<1>8. InPlaceOf(r, s, m, i, i, S)
  <2>1. ASSUME NEW x \in 1..i - 1 PROVE r[x] = s[x]
    <3>1. x \in 1..i /\ x \in 1..Len(s) /\ x # i
      BY <1>1
    <3> QED BY <1>2, <1>7, <3>1
  <2>2. ASSUME NEW x \in 1..Len(m), NEW y \in Int, y = i - 1 + x PROVE r[y] = m[x]
    <3>1. CASE x = 1
      <4>1. y = i /\ i \in 1..i /\ i \in 1..Len(s)
        BY <1>1, <2>2, <3>1
      <4> QED BY <1>2, <1>4, <1>7, <3>1, <4>1
    <3>2. CASE x = 2
      <4>1. y = i + 1
        BY <1>1, <2>2, <3>2
      <4> QED BY <1>4, <1>7, <3>2, <4>1
    <3> QED BY <1>4, <3>1, <3>2
  <2>3. ASSUME NEW x \in i + 1..Len(s), NEW y \in Int, y = i - 1 + Len(m) + x - i PROVE r[y] = s[x]
    <3>1. y = x + 1
      BY <1>1, <1>4, <2>3
    <3> QED BY <1>7, <3>1
  <2>4. Len(r) = i - 1 + Len(m) + Len(s) - i
    BY <1>1, <1>4, <1>7
  <2> QED BY <1>7, <2>1, <2>2, <2>3, <2>4 DEF InPlaceOf
<1>9. r = Part(s, i, i, m)
  BY <1>1, <1>4, <1>8, PartUnique
<1> QED BY <1>9 DEF r, m, e

\* The same without the one behind it.
LEMMA JoinedPart ==
    ASSUME NEW S, NEW s \in Seq(S), NEW i \in 1..Len(s) - 1, NEW w \in Seq(S), Len(w) = Len(s),
           \A x \in 1..Len(s) : x # i => w[x] = s[x]
    PROVE  /\ RemoveAt(w, i + 1) = Part(s, i, i + 1, <<w[i]>>)
           /\ s = Part(s, i, i + 1, <<s[i]>> \o <<s[i + 1]>>)
<1> DEFINE e == w[i]
           m == <<e>>
           o == <<s[i]>> \o <<s[i + 1]>>
           r == RemoveAt(w, i + 1)
           h == <<>>
<1>1. Len(s) \in Nat /\ i \in 1..Len(s) /\ i \in 1..Len(s) + 1 /\ i + 1 \in i - 1..Len(s)
      /\ i + 1 \in 1..Len(s)
  BY LenProperties
<1>2. /\ w \in Seq(S) /\ Len(w) = Len(s) /\ \A x \in 1..Len(s) : w[x] = IF x = i THEN e ELSE s[x]
      /\ e \in S
  BY <1>1, ElementOfSeq
<1> HIDE DEF e
<1>3. m \in Seq(S) /\ Len(m) = 1 /\ m[1] = e /\ h \in Seq(S) /\ Len(h) = 0
  BY <1>2, EmptySeq
<1>4. o \in Seq(S) /\ Len(o) = 2 /\ o[1] = s[i] /\ o[2] = s[i + 1]
  <2>1. s[i] \in S /\ s[i + 1] \in S
    BY <1>1, ElementOfSeq
  <2> DEFINE a == s[i]
             b == s[i + 1]
  <2> HIDE DEF a, b
  <2>2. LET q == <<a>> \o <<b>> IN q \in Seq(S) /\ Len(q) = 2 /\ q[1] = a /\ q[2] = b
    BY <2>1 DEF a, b
  <2> QED BY <2>2 DEF a, b
<1>5. r = SubSeq(w, 1, (i + 1) - 1) \o h \o SubSeq(w, (i + 1) + 1, Len(w))
  <2>1. SubSeq(w, 1, (i + 1) - 1) \in Seq(S)
    <3>1. \A x \in 1..(i + 1) - 1 : w[x] \in S
      BY <1>1, <1>2, ElementOfSeq
    <3> QED BY <1>1, <3>1, SubSeqProperties
  <2>2. SubSeq(w, 1, (i + 1) - 1) \o h = SubSeq(w, 1, (i + 1) - 1)
    BY <2>1, ConcatEmptySeq
  <2> QED BY <2>2 DEF RemoveAt
<1> HIDE DEF m, o, r, h
<1>6. InPlaceOf(r, w, h, i + 1, i + 1, S)
  <2>1. i + 1 \in 1..Len(w) + 1 /\ i + 1 \in (i + 1) - 1..Len(w)
    BY <1>1, <1>2
  <2> QED BY <1>2, <1>3, <1>5, <2>1, InPlace
<1>7. InPlaceOf(r, s, m, i, i + 1, S)
  <2>1. r \in Seq(S) /\ Len(r) = i - 1 + Len(m) + Len(s) - (i + 1)
    BY <1>1, <1>2, <1>3, <1>6 DEF InPlaceOf
  <2>2. \A x \in 1..(i + 1) - 1 : r[x] = w[x]
    BY <1>6 DEF InPlaceOf
  <2>3. ASSUME NEW x \in (i + 1) + 1..Len(s), NEW y \in Int,
               y = i - 1 + Len(m) + x - (i + 1)
        PROVE  r[y] = s[x]
    <3>1. x \in (i + 1) + 1..Len(w) /\ y = (i + 1) - 1 + Len(h) + x - (i + 1)
      BY <1>1, <1>2, <1>3, <2>3
    <3>2. r[y] = w[x]
      BY <1>6, <3>1 DEF InPlaceOf
    <3>3. x \in 1..Len(s) /\ x # i
      BY <1>1
    <3> QED BY <1>2, <3>2, <3>3
  <2>4. ASSUME NEW x \in 1..Len(m), NEW y \in Int, y = i - 1 + x PROVE r[y] = m[x]
    <3>1. x = 1 /\ y = i /\ i \in 1..(i + 1) - 1
      BY <1>1, <1>3, <2>4
    <3> QED BY <1>1, <1>2, <1>3, <2>2, <3>1
  <2>5. \A x \in 1..i - 1 : r[x] = s[x]
    BY <1>1, <1>2, <2>2
  <2> QED BY <2>1, <2>3, <2>4, <2>5 DEF InPlaceOf
<1>8. InPlaceOf(s, s, o, i, i + 1, S)
  <2>1. Len(s) = i - 1 + Len(o) + Len(s) - (i + 1)
    BY <1>1, <1>4
  <2>2. ASSUME NEW x \in 1..Len(o), NEW y \in Int, y = i - 1 + x PROVE s[y] = o[x]
    <3>1. (x = 1 /\ y = i) \/ (x = 2 /\ y = i + 1)
      BY <1>1, <1>4, <2>2
    <3> QED BY <1>4, <3>1
  <2>3. ASSUME NEW x \in (i + 1) + 1..Len(s), NEW y \in Int,
               y = i - 1 + Len(o) + x - (i + 1)
        PROVE  s[y] = s[x]
    <3>1. y = x
      BY <1>1, <1>4, <2>3
    <3> QED BY <3>1
  <2> QED BY <2>1, <2>2, <2>3 DEF InPlaceOf
<1>9. r = Part(s, i, i + 1, m) /\ s = Part(s, i, i + 1, o)
  BY <1>1, <1>3, <1>4, <1>7, <1>8, PartUnique
<1> QED BY <1>9 DEF r, m, o, e

\* Two members are others.
LEMMA BothReplaced ==
    ASSUME NEW S, NEW s \in Seq(S), NEW i \in 1..Len(s), NEW j \in i + 1..Len(s),
           NEW r \in Seq(S), Len(r) = Len(s), \A x \in 1..Len(s) : x \notin {i, j} => r[x] = s[x]
    PROVE  r = Part(s, i, j, (<<r[i]>> \o SubSeq(s, i + 1, j - 1)) \o <<r[j]>>)
<1> DEFINE mid == SubSeq(s, i + 1, j - 1)
           d == j - i - 1
           e == <<r[i]>>
           f == <<r[j]>>
           head == e \o mid
           m == head \o f
<1>1. Len(s) \in Nat /\ i \in 1..Len(s) + 1 /\ j \in i - 1..Len(s) /\ j \in 1..Len(s) /\ d \in Nat
      /\ r[i] \in S /\ r[j] \in S
  <2>1. Len(s) \in Nat /\ i \in 1..Len(s) + 1 /\ j \in i - 1..Len(s) /\ j \in 1..Len(s) /\ d \in Nat
    BY LenProperties
  <2> QED BY <2>1, ElementOfSeq
<1>2. mid \in Seq(S) /\ Len(mid) = d /\ \A x \in 1..d : mid[x] = s[i + x]
  <2>1. CASE j = i + 1
    <3>1. mid = <<>> /\ d = 0
      BY <1>1, <2>1, SubSeqProperties
    <3> QED BY <1>1, <3>1, EmptySeq
  <2>2. CASE j # i + 1
    <3>1. \A x \in i + 1..j - 1 : s[x] \in S
      BY <1>1, ElementOfSeq
    <3>2. /\ mid \in Seq(S)
          /\ Len(mid) = IF i + 1 <= j - 1 THEN (j - 1) - (i + 1) + 1 ELSE 0
          /\ \A x \in 1..((j - 1) - (i + 1) + 1) : mid[x] = s[i + 1 + x - 1]
      BY <1>1, <2>2, <3>1, SubSeqProperties
    <3> HIDE DEF mid
    <3> QED BY <1>1, <2>2, <3>2
  <2> QED BY <2>1, <2>2
<1>3. e \in Seq(S) /\ Len(e) = 1 /\ e[1] = r[i] /\ f \in Seq(S) /\ Len(f) = 1 /\ f[1] = r[j]
  BY <1>1
<1> HIDE DEF mid, e, f, d
<1>4. /\ head \in Seq(S) /\ Len(head) = 1 + d /\ head[1] = r[i]
      /\ \A x \in 1..d : head[1 + x] = s[i + x]
  <2>1. /\ head \in Seq(S) /\ Len(head) = Len(e) + Len(mid)
        /\ \A x \in 1..Len(e) : head[x] = e[x]
        /\ \A x \in 1..Len(mid) : head[Len(e) + x] = mid[x]
    <3>1. e \in Seq(S) /\ mid \in Seq(S)
      BY <1>2, <1>3
    <3> QED BY <3>1, ConcatParts
  <2> HIDE DEF head
  <2>2. ASSUME NEW x \in 1..d PROVE head[1 + x] = s[i + x]
    BY <1>2, <1>3, <2>1
  <2>3. head[1] = r[i]
    <3>1. 1 \in 1..Len(e)
      BY <1>3
    <3> QED BY <1>3, <2>1, <3>1
  <2> QED BY <1>2, <1>3, <2>1, <2>2, <2>3
<1> HIDE DEF head
<1>5. /\ m \in Seq(S) /\ Len(m) = d + 2
      /\ m[1] = r[i] /\ m[d + 2] = r[j]
      /\ \A x \in 1..d : m[1 + x] = s[i + x]
  <2>1. /\ m \in Seq(S) /\ Len(m) = Len(head) + Len(f)
        /\ \A x \in 1..Len(head) : m[x] = head[x]
        /\ \A x \in 1..Len(f) : m[Len(head) + x] = f[x]
    <3>1. head \in Seq(S) /\ f \in Seq(S)
      BY <1>3, <1>4
    <3> QED BY <3>1, ConcatParts
  <2> HIDE DEF m
  <2>2. m[1] = r[i] /\ Len(m) = d + 2
    BY <1>1, <1>3, <1>4, <2>1
  <2>3. m[d + 2] = r[j]
    <3>1. d + 2 = Len(head) + 1 /\ 1 \in 1..Len(f)
      BY <1>1, <1>3, <1>4
    <3> QED BY <1>3, <2>1, <3>1
  <2>4. ASSUME NEW x \in 1..d PROVE m[1 + x] = s[i + x]
    <3>1. 1 + x \in 1..Len(head)
      BY <1>1, <1>4
    <3> QED BY <1>4, <2>1, <3>1
  <2> QED BY <2>1, <2>2, <2>3, <2>4
<1> HIDE DEF m
<1>6. j = i + d + 1
  BY <1>1 DEF d
<1>7. InPlaceOf(r, s, m, i, j, S)
  <2>1. Len(r) = i - 1 + Len(m) + Len(s) - j
    BY <1>1, <1>5, <1>6
  <2>2. ASSUME NEW x \in 1..Len(m), NEW y \in Int, y = i - 1 + x PROVE r[y] = m[x]
    <3>1. CASE x = 1
      <4>1. y = i
        BY <2>2, <3>1
      <4> QED BY <1>5, <3>1, <4>1
    <3>2. CASE x = d + 2
      <4>1. y = j
        BY <1>1, <1>6, <2>2, <3>2
      <4> QED BY <1>5, <3>2, <4>1
    <3>3. CASE x # 1 /\ x # d + 2
      <4> DEFINE z == x - 1
      <4>1. z \in 1..d /\ x = 1 + z /\ y = i + z /\ y \in 1..Len(s) /\ y \notin {i, j}
        BY <1>1, <1>5, <1>6, <2>2, <3>3
      <4> HIDE DEF z
      <4> QED BY <1>5, <4>1
    <3> QED BY <3>1, <3>2, <3>3
  <2>3. ASSUME NEW x \in j + 1..Len(s), NEW y \in Int, y = i - 1 + Len(m) + x - j
        PROVE  r[y] = s[x]
    <3>1. y = x /\ x \in 1..Len(s) /\ x \notin {i, j}
      BY <1>1, <1>5, <1>6, <2>3
    <3> QED BY <3>1
  <2>4. \A x \in 1..i - 1 : r[x] = s[x]
    BY <1>1
  <2> QED BY <2>1, <2>2, <2>3, <2>4 DEF InPlaceOf
<1>8. r = Part(s, i, j, m)
  BY <1>1, <1>5, <1>7, PartUnique
<1> QED BY <1>8 DEF m, head, e, f, mid

LEMMA ExceptSame ==
    ASSUME NEW S, NEW s \in Seq(S), NEW i \in 1..Len(s)
    PROVE  [s EXCEPT ![i] = s[i]] = s
<1> DEFINE e == s[i]
           r == [s EXCEPT ![i] = e]
<1>1. e \in S /\ \A x \in 1..Len(s) : x = i => s[x] = e
  BY ElementOfSeq
<1> HIDE DEF e
<1>2. r \in Seq(S) /\ Len(r) = Len(s) /\ \A x \in 1..Len(s) : r[x] = s[x]
  BY <1>1, ExceptSeq
<1> HIDE DEF r
<1>3. r = s
  BY <1>2, SeqEqual
<1> QED BY <1>3 DEF r, e

SameInside(q, r, v, w, x) == (q \o ((r \o v) \o w)) \o x = ((q \o r) \o v) \o (w \o x)

LEMMA ConcatInside ==
    ASSUME NEW S
    PROVE  \A q, r, v, w, x \in Seq(S) : SameInside(q, r, v, w, x)
<1>1. \A a, b, c \in Seq(S) : (a \o b) \o c = a \o (b \o c)
  BY ConcatAssociative
<1>2. \A a, b \in Seq(S) : a \o b \in Seq(S)
  BY ConcatProperties
<1> SUFFICES ASSUME NEW q \in Seq(S), NEW r \in Seq(S), NEW v \in Seq(S), NEW w \in Seq(S),
                    NEW x \in Seq(S)
             PROVE  SameInside(q, r, v, w, x)
  OBVIOUS
<1> DEFINE rv == r \o v
           qr == q \o r
           qrv == qr \o v
<1>3. rv \in Seq(S) /\ qr \in Seq(S) /\ q \o rv = qrv
  <2>1. rv \in Seq(S) /\ qr \in Seq(S)
    BY ONLY <1>2, q \in Seq(S), r \in Seq(S), v \in Seq(S)
  <2>2. q \o rv = qrv
    BY ONLY <1>1, q \in Seq(S), r \in Seq(S), v \in Seq(S), ZenonT(30)
  <2> QED BY ONLY <2>1, <2>2
<1>4. qrv \in Seq(S)
  <2> HIDE DEF qr
  <2> QED BY <1>2, <1>3
<1> HIDE DEF rv, qrv
<1>5. q \o (rv \o w) = (q \o rv) \o w
  <2>1. rv \in Seq(S)
    BY <1>3
  <2>2. (q \o rv) \o w = q \o (rv \o w)
    BY ONLY <1>1, <2>1, q \in Seq(S), w \in Seq(S), SMTT(30)
  <2> QED BY <2>2
<1>6. (qrv \o w) \o x = qrv \o (w \o x)
  BY <1>1, <1>4
<1>7. (q \o (rv \o w)) \o x = qrv \o (w \o x)
  BY <1>3, <1>5, <1>6
<1> QED BY <1>7 DEF rv, qrv, qr, SameInside

LEMMA PairIsConcat ==
    ASSUME NEW S, NEW x \in S, NEW y \in S
    PROVE  <<x, y>> = <<x>> \o <<y>>
<1> DEFINE p == <<x, y>>
           q == <<x>> \o <<y>>
<1>1. p \in Seq(S) /\ Len(p) = 2 /\ p[1] = x /\ p[2] = y
  OBVIOUS
<1>2. q \in Seq(S) /\ Len(q) = 2 /\ q[1] = x /\ q[2] = y
  OBVIOUS
<1> HIDE DEF p, q
<1>3. \A i \in 1..Len(p) : i = 1 \/ i = 2
  BY <1>1
<1>4. p = q
  BY <1>1, <1>2, <1>3, SeqEqual
<1> QED BY <1>4 DEF p, q

LEMMA CutInTwo ==
    ASSUME NEW S, NEW s \in Seq(S), NEW i \in 1..Len(s) + 1
    PROVE  LET u == SubSeq(s, 1, i - 1)
               v == SubSeq(s, i, Len(s))
           IN u \in Seq(S) /\ v \in Seq(S) /\ s = u \o v
<1> DEFINE u == SubSeq(s, 1, i - 1)
           v == SubSeq(s, i, Len(s))
           h == <<>>
<1>1. Len(s) \in Nat /\ i - 1 \in i - 1..Len(s) /\ h \in Seq(S) /\ Len(h) = 0
  BY LenProperties, EmptySeq
<1>2. \A x \in 1..Len(s) : s[x] \in S
  BY ElementOfSeq
<1>3. u \in Seq(S)
  <2>1. CASE i = 1
    BY <2>1, SubSeqProperties, EmptySeq
  <2>2. CASE i # 1
    BY <1>1, <1>2, <2>2, SubSeqProperties
  <2> QED BY <2>1, <2>2
<1>4. v \in Seq(S)
  <2>1. CASE i = Len(s) + 1
    BY <1>1, <2>1, SubSeqProperties, EmptySeq
  <2>2. CASE i # Len(s) + 1
    BY <1>1, <1>2, <2>2, SubSeqProperties
  <2> QED BY <2>1, <2>2
<1>5. InPlaceOf(s, s, h, i, i - 1, S)
  <2>1. Len(s) = i - 1 + Len(h) + Len(s) - (i - 1)
    BY <1>1
  <2>2. ASSUME NEW x \in (i - 1) + 1..Len(s), NEW y \in Int,
               y = i - 1 + Len(h) + x - (i - 1)
        PROVE  s[y] = s[x]
    <3>1. y = x
      BY <1>1, <2>2
    <3> QED BY <3>1
  <2>3. 1..Len(h) = {}
    BY <1>1
  <2> HIDE DEF h
  <2> QED BY <2>1, <2>2, <2>3 DEF InPlaceOf
<1>6. s = Part(s, i, i - 1, h)
  <2> HIDE DEF h
  <2> QED BY <1>1, <1>5, PartUnique
<1>7. (i - 1) + 1 = i
  OBVIOUS
<1>8. Part(s, i, i - 1, h) = (u \o h) \o v
  BY <1>7 DEF Part
<1> HIDE DEF u, v
<1>9. u \o h = u
  BY <1>3, ConcatEmptySeq
<1> QED BY <1>3, <1>4, <1>6, <1>8, <1>9 DEF u, v

\* One member more, at some place.
OneMore(s, t) == \E i \in DOMAIN s : RemoveAt(s, i) = t

LEMMA OneBetween ==
    ASSUME NEW S, NEW u \in Seq(S), NEW v \in Seq(S), NEW c \in S
    PROVE  OneMore((u \o <<c>>) \o v, u \o v)
<1> DEFINE o == <<c>>
           uc == u \o o
           w == uc \o v
           t == u \o v
           i == Len(u) + 1
           h == <<>>
<1>1. Len(u) \in Nat /\ Len(v) \in Nat /\ o \in Seq(S) /\ Len(o) = 1
  BY LenProperties
<1>2. h \in Seq(S) /\ Len(h) = 0
  BY EmptySeq
<1> HIDE DEF o, h
<1>3. /\ uc \in Seq(S) /\ Len(uc) = Len(u) + Len(o)
      /\ \A x \in 1..Len(u) : uc[x] = u[x]
      /\ \A x \in 1..Len(o) : uc[Len(u) + x] = o[x]
  <2>1. u \in Seq(S) /\ o \in Seq(S)
    BY <1>1
  <2> QED BY ONLY <2>1, ConcatParts DEF uc
<1> HIDE DEF uc
<1>4. /\ w \in Seq(S) /\ Len(w) = Len(uc) + Len(v)
      /\ \A x \in 1..Len(uc) : w[x] = uc[x]
      /\ \A x \in 1..Len(v) : w[Len(uc) + x] = v[x]
  <2>1. uc \in Seq(S) /\ v \in Seq(S)
    BY <1>3
  <2> QED BY ONLY <2>1, ConcatParts DEF w
<1>5. /\ t \in Seq(S) /\ Len(t) = Len(u) + Len(v)
      /\ \A x \in 1..Len(u) : t[x] = u[x]
      /\ \A x \in 1..Len(v) : t[Len(u) + x] = v[x]
  BY ConcatParts
<1> HIDE DEF w, t
<1>6. i \in 1..Len(w) /\ i \in 1..Len(w) + 1 /\ i \in i - 1..Len(w) /\ DOMAIN w = 1..Len(w)
  BY <1>1, <1>3, <1>4, LenProperties
<1>7. InPlaceOf(t, w, h, i, i, S)
  <2>1. Len(t) = i - 1 + Len(h) + Len(w) - i
    BY <1>1, <1>2, <1>3, <1>4, <1>5
  <2>2. \A x \in 1..i - 1 : t[x] = w[x]
    BY <1>1, <1>3, <1>4, <1>5
  <2>3. ASSUME NEW x \in i + 1..Len(w), NEW y \in Int, y = i - 1 + Len(h) + x - i
        PROVE  t[y] = w[x]
    <3> DEFINE d == x - i
    <3>1. d \in 1..Len(v) /\ x = Len(uc) + d /\ y = Len(u) + d
      BY <1>1, <1>2, <1>3, <1>4, <2>3
    <3> HIDE DEF d
    <3> QED BY <1>4, <1>5, <3>1
  <2>4. 1..Len(h) = {}
    BY <1>2
  <2> QED BY <1>5, <2>1, <2>2, <2>3, <2>4 DEF InPlaceOf
<1>8. t = Part(w, i, i, h)
  BY <1>2, <1>4, <1>6, <1>7, PartUnique
<1>9. SubSeq(w, 1, i - 1) \o h = SubSeq(w, 1, i - 1)
  <2>1. i \in 1..Len(w) + 1
    BY <1>6
  <2> HIDE DEF i
  <2>2. SubSeq(w, 1, i - 1) \in Seq(S)
    BY <1>4, <2>1, CutInTwo
  <2> QED BY <2>2, ConcatEmptySeq DEF h
<1>10. RemoveAt(w, i) = t
  BY <1>8, <1>9 DEF RemoveAt, Part
<1> HIDE DEF i
<1> QED BY <1>6, <1>10 DEF OneMore, w, t, uc, o

LEMMA OneInside ==
    ASSUME NEW S, NEW a \in Seq(S), NEW l \in Seq(S), NEW c \in S, NEW r \in Seq(S), NEW z \in Seq(S)
    PROVE  OneMore((a \o ((l \o <<c>>) \o r)) \o z, (a \o (l \o r)) \o z)
<1> DEFINE o == <<c>>
           h == <<>>
           u == a \o l
           v == r \o z
<1>1. o \in Seq(S) /\ h \in Seq(S) /\ u \in Seq(S) /\ v \in Seq(S)
  BY EmptySeq, ConcatProperties
<1>2. OneMore((u \o o) \o v, u \o v)
  <2> HIDE DEF u, v
  <2> QED BY <1>1, OneBetween
<1> HIDE DEF o, h
<1>3. SameInside(a, l, o, r, z) /\ SameInside(a, l, h, r, z)
  <2> HIDE DEF u, v
  <2> QED BY <1>1, ConcatInside
<1>4. l \o h = l /\ u \o h = u
  <2> HIDE DEF u, v
  <2> QED BY <1>1, ConcatEmptySeq DEF h
<1>5. (a \o ((l \o o) \o r)) \o z = (u \o o) \o v
  BY <1>3 DEF SameInside
<1>6. (a \o ((l \o h) \o r)) \o z = (u \o h) \o v
  BY <1>3 DEF SameInside
<1>7. (a \o (l \o r)) \o z = u \o v
  <2> HIDE DEF u, v
  <2> QED BY <1>4, <1>6
<1> HIDE DEF u, v
<1> QED BY <1>2, <1>5, <1>7 DEF o

-----------------------------------------------------------------------------
(* What is moved from a member of a list to the one behind it. *)

Concatenates(G, S) ==
    \A u, v \in Seq(S) : Gathered(G, u \o v) = Gathered(G, u) \o Gathered(G, v)

LEMMA GatheredConcatenates ==
    ASSUME NEW S, NEW T, NEW G \in [S -> Seq(T)]
    PROVE  Concatenates(G, S)
BY GatheredConcat DEF Concatenates

LEMMA OneJoined ==
    ASSUME NEW S, NEW T, NEW G \in [S -> Seq(T)], NEW s \in Seq(S), NEW i \in 1..Len(s) - 1,
           NEW w \in Seq(S), Len(w) = Len(s), \A x \in 1..Len(s) : x # i => w[x] = s[x],
           G[w[i]] = G[s[i]] \o G[s[i + 1]]
    PROVE  Gathered(G, RemoveAt(w, i + 1)) = Gathered(G, s)
<1>0. Concatenates(G, S)
  BY GatheredConcatenates
<1> DEFINE e == w[i]
           c == s[i]
           d == s[i + 1]
           m == <<e>>
           o == <<c>> \o <<d>>
<1>1. /\ Len(s) \in Nat /\ i \in 1..Len(s) + 1 /\ i + 1 \in i - 1..Len(s)
      /\ i \in 1..Len(s) /\ i + 1 \in 1..Len(s)
  <2>1. Len(s) \in Nat
    BY LenProperties
  <2> QED BY <2>1
<1>2. e \in S /\ c \in S /\ d \in S
  BY <1>1, ElementOfSeq
<1>3. RemoveAt(w, i + 1) = Part(s, i, i + 1, m) /\ s = Part(s, i, i + 1, o)
  BY JoinedPart
<1>4. /\ \A x \in S : Gathered(G, <<x>>) = G[x]
      /\ \A u, v \in Seq(S) : Gathered(G, u \o v) = Gathered(G, u) \o Gathered(G, v)
  <2>1. \A x \in S : Gathered(G, <<x>>) = G[x]
    BY GatheredOne, ZenonT(30)
  <2>2. \A u, v \in Seq(S) : Gathered(G, u \o v) = Gathered(G, u) \o Gathered(G, v)
    BY ONLY <1>0 DEF Concatenates
  <2> QED BY ONLY <2>1, <2>2
<1>5. PICK a, z \in Seq(T) : Frame(G, S, s, i, i + 1, a, z)
  BY <1>1, GatheredPart
<1>6. G[e] = G[c] \o G[d]
  OBVIOUS
<1> HIDE DEF e, c, d
<1>7. <<c>> \in Seq(S) /\ <<d>> \in Seq(S) /\ m \in Seq(S)
  BY <1>2
<1>8. o \in Seq(S) /\ Gathered(G, o) = G[e] /\ Gathered(G, m) = G[e]
  <2>1. o \in Seq(S)
    BY <1>7, ConcatProperties
  <2>2. Gathered(G, <<c>>) = G[c] /\ Gathered(G, <<d>>) = G[d] /\ Gathered(G, m) = G[e]
    BY ONLY <1>2, <1>4 DEF m
  <2>3. Gathered(G, o) = Gathered(G, <<c>>) \o Gathered(G, <<d>>)
    <3> DEFINE f == <<c>>
               g == <<d>>
    <3>1. f \in Seq(S) /\ g \in Seq(S)
      BY ONLY <1>7
    <3> HIDE DEF f, g
    <3>2. Gathered(G, f \o g) = Gathered(G, f) \o Gathered(G, g)
      BY ONLY <1>4, <3>1
    <3> QED BY ONLY <3>2 DEF f, g, o
  <2> QED BY ONLY <1>6, <2>1, <2>2, <2>3
<1> HIDE DEF m, o
<1>9. /\ Gathered(G, Part(s, i, i + 1, m)) = (a \o G[e]) \o z
      /\ Gathered(G, Part(s, i, i + 1, o)) = (a \o G[e]) \o z
  BY <1>5, <1>7, <1>8 DEF Frame
<1> QED BY <1>3, <1>9

\* w is s but for the members K.
SameBut(w, s, K) == Len(w) = Len(s) /\ \A x \in 1..Len(s) : x \notin K => w[x] = s[x]

\* What two lists give that differ in their last members.
InFrontOfLast(G, T, s, w) ==
    \E a \in Seq(T) : Gathered(G, s) = a \o G[s[Len(s)]] /\ Gathered(G, w) = a \o G[w[Len(s)]]

LEMMA LastReplaced ==
    ASSUME NEW S, NEW T, NEW G \in [S -> Seq(T)], NEW s \in Seq(S), s # <<>>,
           NEW w \in Seq(S), SameBut(w, s, {Len(s)})
    PROVE  InFrontOfLast(G, T, s, w)
<1> DEFINE n == Len(s)
           c == s[n]
           e == w[n]
<1>0. Len(s) # 0 /\ Len(w) = Len(s) /\ \A x \in 1..Len(s) : x # Len(s) => w[x] = s[x]
  BY EmptySeq DEF SameBut
<1>1. n \in Nat /\ n \in 1..n /\ n \in 1..n + 1 /\ n \in n - 1..n
  BY <1>0, LenProperties
<1>2. c \in S /\ e \in S
  BY <1>0, <1>1, ElementOfSeq
<1>3. s = Part(s, n, n, <<c>>) /\ w = Part(s, n, n, <<e>>)
  <2>1. \A x \in 1..Len(s) : x # n => s[x] = s[x]
    OBVIOUS
  <2>2. s = Part(s, n, n, <<s[n]>>)
    BY <1>1, <2>1, ReplacedPart
  <2>3. w = Part(s, n, n, <<w[n]>>)
    <3>1. Len(w) = Len(s) /\ \A x \in 1..Len(s) : x # n => w[x] = s[x]
      BY <1>0
    <3> QED BY <1>1, <3>1, ReplacedPart
  <2> QED BY <2>2, <2>3
<1>4. \A x \in S : Gathered(G, <<x>>) = G[x]
  BY GatheredOne
<1>5. PICK a, z \in Seq(T) : Frame(G, S, s, n, n, a, z)
  BY <1>1, GatheredPart
<1>6. z = <<>>
  BY <1>5 DEF Frame
<1> HIDE DEF c, e, n
<1>7. <<c>> \in Seq(S) /\ <<e>> \in Seq(S)
  BY <1>2
<1>8. Gathered(G, s) = (a \o G[c]) \o z /\ Gathered(G, w) = (a \o G[e]) \o z
  BY <1>2, <1>3, <1>4, <1>5, <1>7 DEF Frame
<1>9. (a \o G[c]) \o z = a \o G[c] /\ (a \o G[e]) \o z = a \o G[e]
  <2>1. G[c] \in Seq(T) /\ G[e] \in Seq(T)
    BY <1>2
  <2>2. a \o G[c] \in Seq(T) /\ a \o G[e] \in Seq(T)
    BY <1>5, <2>1, ConcatProperties
  <2> QED BY <1>6, <2>2, ConcatEmptySeq
<1> QED BY <1>5, <1>8, <1>9 DEF InFrontOfLast, c, e, n

\* What a list gives without its first member, and with another one.
BehindFirst(G, S, T, s) ==
    \E z \in Seq(T) : /\ Gathered(G, s) = G[s[1]] \o z
                      /\ Gathered(G, RemoveAt(s, 1)) = z
                      /\ \A w \in Seq(S) : SameBut(w, s, {1}) => Gathered(G, w) = G[w[1]] \o z

LEMMA FirstLeft ==
    ASSUME NEW S, NEW T, NEW G \in [S -> Seq(T)], NEW s \in Seq(S), s # <<>>
    PROVE  BehindFirst(G, S, T, s)
<1> DEFINE h == <<>>
<1>0. Len(s) # 0
  BY EmptySeq
<1>1. /\ Len(s) \in Nat /\ 1 \in 1..Len(s) /\ 1 \in 1..Len(s) + 1 /\ 1 \in 1 - 1..Len(s)
      /\ h \in Seq(S)
  BY <1>0, LenProperties, EmptySeq
<1>2. \A x \in S : Gathered(G, <<x>>) = G[x]
  BY GatheredOne
<1>3. PICK a, z \in Seq(T) : Frame(G, S, s, 1, 1, a, z)
  BY <1>1, GatheredPart
<1>4. a = <<>>
  BY <1>3 DEF Frame
<1>5. \A t \in Seq(T) : <<>> \o t = t /\ t \o <<>> = t
  BY ConcatEmptySeq
<1>6. ASSUME NEW w \in Seq(S), SameBut(w, s, {1})
      PROVE  Gathered(G, w) = G[w[1]] \o z
  <2> DEFINE e == w[1]
  <2>0. Len(w) = Len(s) /\ \A x \in 1..Len(s) : x # 1 => w[x] = s[x]
    BY <1>6 DEF SameBut
  <2>1. e \in S
    BY <1>1, <2>0, ElementOfSeq
  <2>2. w = Part(s, 1, 1, <<e>>)
    BY <1>1, <2>0, ReplacedPart
  <2> HIDE DEF e
  <2>3. <<e>> \in Seq(S) /\ G[e] \in Seq(T)
    BY <2>1
  <2>4. Gathered(G, w) = (a \o G[e]) \o z
    BY <1>2, <1>3, <2>1, <2>2, <2>3 DEF Frame
  <2> QED BY <1>4, <1>5, <2>3, <2>4 DEF e
<1>7. Gathered(G, s) = G[s[1]] \o z
  <2>1. SameBut(s, s, {1})
    BY DEF SameBut
  <2> QED BY <1>6, <2>1
<1>8. Gathered(G, RemoveAt(s, 1)) = z
  <2> DEFINE front == SubSeq(s, 1, 1 - 1)
  <2>1. front \in Seq(S) /\ front = <<>>
    BY SubSeqProperties, EmptySeq
  <2>2. front \o h = front
    BY <2>1, ConcatEmptySeq
  <2>3. RemoveAt(s, 1) = Part(s, 1, 1, h)
    BY <2>2 DEF RemoveAt, Part
  <2>4. Gathered(G, RemoveAt(s, 1)) = (a \o Gathered(G, h)) \o z
    BY <1>1, <1>3, <2>3 DEF Frame
  <2>5. Gathered(G, h) = <<>> /\ <<>> \in Seq(T)
    BY GatheredNone, EmptySeq
  <2> QED BY <1>4, <1>5, <2>4, <2>5
<1> QED BY <1>3, <1>6, <1>7, <1>8 DEF BehindFirst

\* Two members of a list give together what they gave before, and those between
\* them nothing.
Moves(G, S, T, s, r, i, j) ==
    /\ G \in [S -> Seq(T)] /\ s \in Seq(S) /\ r \in Seq(S)
    /\ i \in 1..Len(s) /\ j \in i + 1..Len(s)
    /\ SameBut(r, s, {i, j})
    /\ \A x \in i + 1..j - 1 : G[s[x]] = <<>>
    /\ G[r[i]] \o G[r[j]] = G[s[i]] \o G[s[j]]

LEMMA MovedBack ==
    ASSUME NEW G, NEW S, NEW T, NEW s, NEW r, NEW i, NEW j, Moves(G, S, T, s, r, i, j)
    PROVE  Gathered(G, r) = Gathered(G, s)
<1> SUFFICES ASSUME G \in [S -> Seq(T)], s \in Seq(S), r \in Seq(S),
                    i \in 1..Len(s), j \in i + 1..Len(s)
             PROVE  Gathered(G, r) = Gathered(G, s)
  BY DEF Moves
<1>0. Concatenates(G, S)
  BY GatheredConcatenates
<1> DEFINE mid == SubSeq(s, i + 1, j - 1)
           m == (<<r[i]>> \o mid) \o <<r[j]>>
           o == (<<s[i]>> \o mid) \o <<s[j]>>
<1>1. /\ Len(r) = Len(s) /\ \A x \in 1..Len(s) : x \notin {i, j} => r[x] = s[x]
      /\ \A x \in i + 1..j - 1 : G[s[x]] = <<>>
      /\ G[r[i]] \o G[r[j]] = G[s[i]] \o G[s[j]]
  BY DEF Moves, SameBut
<1>2. /\ Len(s) \in Nat /\ i \in 1..Len(s) + 1 /\ j \in i - 1..Len(s) /\ j \in 1..Len(s)
      /\ i \in Nat /\ j \in Nat /\ i + 1 <= j
  BY LenProperties
<1>3. r[i] \in S /\ r[j] \in S /\ s[i] \in S /\ s[j] \in S
  BY <1>2, <1>1, ElementOfSeq
<1>4. r = Part(s, i, j, m)
  BY <1>1, BothReplaced
<1>5. s = Part(s, i, j, o)
  <2>1. \A x \in 1..Len(s) : x \notin {i, j} => s[x] = s[x]
    OBVIOUS
  <2> QED BY <2>1, BothReplaced
<1>6. /\ \A x \in S : Gathered(G, <<x>>) = G[x]
      /\ \A u, v \in Seq(S) : Gathered(G, u \o v) = Gathered(G, u) \o Gathered(G, v)
  <2>1. \A x \in S : Gathered(G, <<x>>) = G[x]
    BY GatheredOne
  <2>2. \A u, v \in Seq(S) : Gathered(G, u \o v) = Gathered(G, u) \o Gathered(G, v)
    BY ONLY <1>0 DEF Concatenates
  <2> QED BY ONLY <2>1, <2>2
<1>7. PICK a, z \in Seq(T) : Frame(G, S, s, i, j, a, z)
  BY <1>2, GatheredPart
<1>8. mid \in Seq(S) /\ Gathered(G, mid) = <<>>
  <2>1. \A x \in i + 1..j - 1 : s[x] \in S
    BY <1>2, ElementOfSeq
  <2>2. /\ mid \in Seq(S)
        /\ Len(mid) = IF i + 1 <= j - 1 THEN j - 1 - (i + 1) + 1 ELSE 0
        /\ \A x \in 1..j - 1 - (i + 1) + 1 : mid[x] = s[i + 1 + x - 1]
    BY <1>2, <2>1, SubSeqProperties
  <2>3. ASSUME NEW x \in 1..Len(mid) PROVE G[mid[x]] = <<>>
    <3>1. x \in 1..j - 1 - (i + 1) + 1 /\ i + 1 + x - 1 \in i + 1..j - 1
      BY <1>2, <2>2
    <3>2. mid[x] = s[i + 1 + x - 1]
      BY <2>2, <3>1
    <3>3. \A y \in i + 1..j - 1 : G[s[y]] = <<>>
      BY <1>1
    <3> QED BY ONLY <3>1, <3>2, <3>3
  <2> HIDE DEF mid
  <2>4. Gathered(G, mid) = <<>>
    <3>1. G \in [S -> Seq(T)] /\ mid \in Seq(S) /\ \A x \in 1..Len(mid) : G[mid[x]] = <<>>
      BY ONLY <2>2, <2>3, G \in [S -> Seq(T)]
    <3> QED BY ONLY <3>1, GatheredNothing
  <2> QED BY <2>2, <2>4
<1> HIDE DEF mid
<1>9. ASSUME NEW x \in S, NEW y \in S
      PROVE  LET k == (<<x>> \o mid) \o <<y>> IN k \in Seq(S) /\ Gathered(G, k) = G[x] \o G[y]
  <2> DEFINE f == <<x>>
             g == <<y>>
             fm == f \o mid
  <2>1. /\ f \in Seq(S) /\ g \in Seq(S) /\ Gathered(G, f) = G[x] /\ Gathered(G, g) = G[y]
        /\ G[x] \in Seq(T)
    BY <1>6
  <2> HIDE DEF f, g
  <2>2. fm \in Seq(S) /\ Gathered(G, fm) = G[x] \o <<>>
    BY <1>6, <1>8, <2>1, ConcatProperties
  <2>3. G[x] \o <<>> = G[x]
    BY <2>1, ConcatEmptySeq
  <2> HIDE DEF fm
  <2>4. fm \o g \in Seq(S)
    BY <2>1, <2>2, ConcatProperties
  <2>5. Gathered(G, fm \o g) = Gathered(G, fm) \o Gathered(G, g)
    BY <1>6, <2>1, <2>2
  <2>6. Gathered(G, fm \o g) = G[x] \o G[y]
    BY <2>1, <2>2, <2>3, <2>5
  <2> QED BY <2>4, <2>6 DEF fm, f, g
<1>10. /\ m \in Seq(S) /\ Gathered(G, m) = G[r[i]] \o G[r[j]]
       /\ o \in Seq(S) /\ Gathered(G, o) = G[s[i]] \o G[s[j]]
  BY <1>3, <1>9
<1> HIDE DEF m, o
<1>11. Gathered(G, m) = Gathered(G, o)
  BY <1>1, <1>10
<1>12. /\ Gathered(G, Part(s, i, j, m)) = (a \o Gathered(G, m)) \o z
       /\ Gathered(G, Part(s, i, j, o)) = (a \o Gathered(G, o)) \o z
  BY <1>7, <1>10 DEF Frame
<1> QED BY <1>4, <1>5, <1>11, <1>12
=============================================================================
