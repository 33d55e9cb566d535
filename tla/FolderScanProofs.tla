-------------------------- MODULE FolderScanProofs --------------------------
(* Proofs that the folder comparison flags the right folders as equal and    *)
(* proposes a three-way merge, for every tree.                               *)
EXTENDS FolderScan, ListLemmas, FiniteSetTheorems

\* The entries of a tree: an item is there only where the folders above it are,
\* and there is a third side only in a comparison of three folders.
FolderTree(entries, w) ==
    /\ Len(entries) \in 0..Len(Parent) /\ DOMAIN entries = 1..Len(entries)
    /\ \A i \in 1..Len(entries) :
          /\ Existing(entries[i]) # {}
          /\ \A s \in Existing(entries[i]) : entries[i].date[s] \in 0..Latest
          /\ \A a \in Above(i), s \in Sides : ExistsIn(entries[i], s) => IsDir(entries[a], s)
    /\ ~w.threeWay => \A i \in 1..Len(entries) : ~ExistsIn(entries[i], "C")

KindPairs(e) == {p \in Pairs : SameKind(e, p)}

\* What makes updateFileVisibilities() tell the folders above.
Separates(e, eq, show, w) == ~AllEqual(eq, w) /\ Visible(e, eq, show, w)

\* The flags of the items: those of a folder say no more than its kinds do.
Flags(entries, eq, n) ==
    /\ eq \in [1..n -> SUBSET Pairs]
    /\ \A i \in 1..n : HasDir(entries[i]) => eq[i] \subseteq KindPairs(entries[i])

\* The flags of folder a are right as to the items up to k.
FolderRight(entries, eq, show, w, a, k) ==
    eq[a] = {p \in KindPairs(entries[a]) :
                \A j \in 1..k : a \in Above(j) /\ Separates(entries[j], eq[j], show, w) => p \in eq[j]}

FoldersRight(entries, eq, show, w, k) ==
    \A a \in 1..k : HasDir(entries[a]) => FolderRight(entries, eq, show, w, a, k)

-----------------------------------------------------------------------------
(* The tree. *)

LEMMA AboveWell ==
    ASSUME NEW j \in Items
    PROVE  /\ \A a \in Above(j) : a \in Items /\ a \in Nat \ {0} /\ a < j
           /\ \A a, b \in Above(j) : a < b => a \in Above(b)
           /\ \A b \in Above(j) : \A a \in Above(b) : a \in Above(j)
<1>1. Items = 1..Len(Parent) /\ Len(Parent) \in Nat /\ \A i \in Items : Parent[i] \in Nat
  BY FoldersAssumption DEF Above
<1>2. \A a \in Above(j) : a \in Items /\ a \in Nat \ {0} /\ a < j
  BY <1>1 DEF Above
<1>3. ASSUME NEW a \in Above(j), NEW b \in Above(j), a < b PROVE a \in Above(b)
  <2>1. a \in Items /\ a \in Nat /\ b \in Nat /\ j \in Nat /\ b < j
    BY <1>1, <1>2
  <2>2. \A k \in a + 1..b : k \in a + 1..j
    BY <2>1
  <2> QED BY <1>3, <2>1, <2>2 DEF Above
<1>4. ASSUME NEW b \in Above(j), NEW a \in Above(b) PROVE a \in Above(j)
  <2>1. a \in Items /\ a < b /\ b < j /\ a \in Nat /\ b \in Nat
    BY <1>1, <1>2, <1>4 DEF Above
  <2>2. ASSUME NEW k \in a + 1..j PROVE Parent[k] >= a
    <3>1. CASE k \in a + 1..b
      BY <1>4, <3>1 DEF Above
    <3>2. CASE k \in b + 1..j
      <4>1. Parent[k] >= b
        BY <1>4, <3>2 DEF Above
      <4>2. Parent[k] \in Nat
        BY <1>1, <2>1, <3>2
      <4> QED BY <2>1, <4>1, <4>2
    <3> QED BY <2>1, <3>1, <3>2
  <2> QED BY <2>1, <2>2 DEF Above
<1> QED BY <1>2, <1>3, <1>4

-----------------------------------------------------------------------------
(* An item. *)

LEMMA TheThreePairs ==
    /\ AB # AC /\ AB # BC /\ AC # BC
    /\ \A e : /\ AB \in KindPairs(e) <=> (IsDir(e, "A") <=> IsDir(e, "B"))
              /\ AC \in KindPairs(e) <=> (IsDir(e, "A") <=> IsDir(e, "C"))
              /\ BC \in KindPairs(e) <=> (IsDir(e, "B") <=> IsDir(e, "C"))
<1>1. AB # AC /\ AB # BC /\ AC # BC
  BY DEF AB, AC, BC
<1>2. \A e : SameKind(e, AB) <=> (IsDir(e, "A") <=> IsDir(e, "B"))
  BY DEF AB, SameKind, IsDir
<1>3. \A e : SameKind(e, AC) <=> (IsDir(e, "A") <=> IsDir(e, "C"))
  BY DEF AC, SameKind, IsDir
<1>4. \A e : SameKind(e, BC) <=> (IsDir(e, "B") <=> IsDir(e, "C"))
  BY DEF BC, SameKind, IsDir
<1>5. AB \in Pairs /\ AC \in Pairs /\ BC \in Pairs
  BY DEF Pairs
<1>6. \A e : /\ AB \in KindPairs(e) <=> SameKind(e, AB)
             /\ AC \in KindPairs(e) <=> SameKind(e, AC)
             /\ BC \in KindPairs(e) <=> SameKind(e, BC)
  BY <1>5 DEF KindPairs
<1> QED BY <1>1, <1>2, <1>3, <1>4, <1>6

\* An item is on one side only or on two at least.
LEMMA OnOneSideOrMore ==
    ASSUME NEW e, Existing(e) # {}
    PROVE  /\ Cardinality(Existing(e)) \in Nat
           /\ Cardinality(Existing(e)) >= 2 \/ \E s \in Sides : OnlyIn(e, s)
           /\ \A s : OnlyIn(e, s) => ~(Cardinality(Existing(e)) >= 2)
<1>1. IsFiniteSet(Sides)
  <2>1. IsFiniteSet({"A"})
    BY FS_Singleton
  <2>2. IsFiniteSet({"A"} \cup {"B"})
    BY <2>1, FS_AddElement
  <2>3. IsFiniteSet(({"A"} \cup {"B"}) \cup {"C"})
    BY <2>2, FS_AddElement
  <2>4. Sides = ({"A"} \cup {"B"}) \cup {"C"}
    BY DEF Sides
  <2> QED BY <2>3, <2>4
<1>2. Existing(e) \subseteq Sides
  BY DEF Existing
<1>3. IsFiniteSet(Existing(e)) /\ Cardinality(Existing(e)) \in Nat
  BY <1>1, <1>2, FS_Subset, FS_CardinalityType
<1>4. PICK s \in Existing(e) : TRUE
  OBVIOUS
<1>5. CASE Existing(e) = {s}
  <2>1. Cardinality(Existing(e)) = 1
    BY <1>5, FS_Singleton
  <2> QED BY <1>2, <1>3, <1>5, <2>1 DEF OnlyIn
<1>6. CASE Existing(e) # {s}
  <2>1. PICK t \in Existing(e) : t # s
    BY <1>6
  <2>2. \A u : ~OnlyIn(e, u)
    BY <2>1, <1>4 DEF OnlyIn
  <2>3. Cardinality(Existing(e)) # 0 /\ Cardinality(Existing(e)) # 1
    <3>1. Cardinality(Existing(e)) # 0
      BY <1>3, FS_EmptySet
    <3>2. Cardinality(Existing(e)) # 1
      BY <1>3, <1>4, <2>1, FS_Singleton
    <3> QED BY <3>1, <3>2
  <2> QED BY <1>3, <2>2, <2>3
<1> QED BY <1>5, <1>6

\* Of two items the lower one is on sides where the upper one is a folder: a
\* difference of the lower one is visible only if one of the upper one is.
LEMMA VisibleBelow ==
    ASSUME NEW d, NEW e, Existing(e) # {}, NEW deq, NEW eeq, NEW show, NEW w,
           \A s \in Sides : ExistsIn(e, s) => IsDir(d, s),
           Separates(e, eeq, show, w), ~AllEqual(deq, w)
    PROVE  Separates(d, deq, show, w)
<1>1. \A s \in Sides : IsDir(d, s) => ExistsIn(d, s)
  BY DEF IsDir, ExistsIn
<1>2. PICK t \in Sides : ExistsIn(e, t)
  BY DEF Existing
<1>3. HasDir(d) /\ Existing(d) # {} /\ Existing(e) \subseteq Existing(d)
  BY <1>1, <1>2 DEF HasDir, Existing
<1>4. CASE Cardinality(Existing(d)) >= 2
  BY <1>3, <1>4 DEF Separates, Visible
<1>5. CASE ~(Cardinality(Existing(d)) >= 2)
  <2>1. PICK s \in Sides : OnlyIn(d, s)
    BY <1>3, <1>5, OnOneSideOrMore
  <2>2. OnlyIn(e, s)
    BY <1>3, <2>1 DEF OnlyIn
  <2>3. ~(Cardinality(Existing(e)) >= 2)
    BY <2>2, OnOneSideOrMore
  <2>4. PICK u \in Sides : u \in show /\ OnlyIn(e, u)
    BY <2>3 DEF Separates, Visible
  <2>5. u = s
    BY <2>2, <2>4 DEF OnlyIn
  <2> QED BY <2>1, <2>4, <2>5 DEF Separates, Visible
<1> QED BY <1>4, <1>5

LEMMA SeparatesAlike ==
    ASSUME NEW e, NEW eq1, NEW eq2, NEW show, NEW w, ~AllEqual(eq2, w),
           Separates(e, eq1, show, w)
    PROVE  Separates(e, eq2, show, w)
BY DEF Separates, Visible

LEMMA FoldersAbove ==
    ASSUME NEW entries, NEW w, FolderTree(entries, w), NEW k \in 1..Len(entries)
    PROVE  /\ k \in Items /\ k \in Nat /\ Existing(entries[k]) # {}
           /\ \A a \in Above(k) :
                 /\ a \in 1..Len(entries) /\ a \in 1..k - 1 /\ HasDir(entries[a])
                 /\ \A s \in Sides : ExistsIn(entries[k], s) => IsDir(entries[a], s)
<1>1. /\ Len(entries) \in 0..Len(Parent) /\ Existing(entries[k]) # {}
      /\ \A a \in Above(k), s \in Sides : ExistsIn(entries[k], s) => IsDir(entries[a], s)
  BY DEF FolderTree
<1>2. k \in Items /\ k \in Nat
  BY <1>1, FoldersAssumption
<1>3. PICK t \in Sides : ExistsIn(entries[k], t)
  BY <1>1 DEF Existing
<1>4. ASSUME NEW a \in Above(k)
      PROVE  a \in 1..Len(entries) /\ a \in 1..k - 1 /\ HasDir(entries[a])
  <2>1. a \in Nat \ {0} /\ a < k
    BY <1>2, AboveWell
  <2>2. HasDir(entries[a])
    BY <1>1, <1>3 DEF HasDir
  <2> QED BY <1>1, <1>2, <2>1, <2>2
<1> QED BY <1>1, <1>2, <1>4

-----------------------------------------------------------------------------
(* FolderEquality item by item. *)

\* The flags after updateDirectoryOrLink() and updateParents() of item k.
Told(entries, eq, show, w, k) ==
    LET now == [eq EXCEPT ![k] = AssumedEqual(entries[k], @)]
    IN IF ~AllEqual(now[k], w) /\ Visible(entries[k], now[k], show, w)
       THEN UpdateParents(now, k) ELSE now

\* Item k has just been set; the folders above it are right up to the one before.
Ready(entries, eq, show, w, n, k) ==
    /\ FolderTree(entries, w)
    /\ n \in Nat /\ n <= Len(entries) /\ k \in 1..n
    /\ Flags(entries, eq, n)
    /\ FoldersRight(entries, eq, show, w, k - 1)
    /\ HasDir(entries[k]) => eq[k] = KindPairs(entries[k])

\* Every folder above an item that separates versions is told, or knows.
AllAboveAreTold(eq, n, k) ==
    [a \in 1..n |-> IF a \in Above(k) THEN eq[a] \cap eq[k] ELSE eq[a]]

LEMMA AboveIsReady ==
    ASSUME NEW entries, NEW eq, NEW show, NEW w, NEW n, NEW k, Ready(entries, eq, show, w, n, k)
    PROVE  /\ k \in Items /\ k \in Nat /\ k \in 1..n /\ k \in 1..Len(entries)
           /\ Existing(entries[k]) # {}
           /\ eq \in [1..n -> SUBSET Pairs]
           /\ \A a \in Above(k) :
                 /\ a \in 1..Len(entries) /\ a \in 1..n /\ a \in 1..k - 1 /\ HasDir(entries[a])
                 /\ FolderRight(entries, eq, show, w, a, k - 1)
                 /\ \A s \in Sides : ExistsIn(entries[k], s) => IsDir(entries[a], s)
<1>1. /\ FolderTree(entries, w) /\ n \in Nat /\ n <= Len(entries) /\ k \in 1..n
      /\ FoldersRight(entries, eq, show, w, k - 1)
      /\ eq \in [1..n -> SUBSET Pairs] /\ Len(entries) \in Nat
  BY FoldersAssumption DEF Ready, Flags, FolderTree
<1>2. k \in 1..Len(entries)
  BY <1>1
<1>3. /\ k \in Items /\ k \in Nat /\ Existing(entries[k]) # {}
      /\ \A a \in Above(k) :
            /\ a \in 1..Len(entries) /\ a \in 1..k - 1 /\ HasDir(entries[a])
            /\ \A s \in Sides : ExistsIn(entries[k], s) => IsDir(entries[a], s)
  BY <1>1, <1>2, FoldersAbove
<1>4. \A a \in Above(k) : a \in 1..n
  BY <1>1, <1>3
<1>5. \A a \in Above(k) : FolderRight(entries, eq, show, w, a, k - 1)
  BY <1>1, <1>3 DEF FoldersRight
<1> QED BY <1>1, <1>2, <1>3, <1>4, <1>5

\* The walk upwards may stop at the first folder it leaves as it is: the
\* folders above that one know of the difference.
LEMMA StoppingIsRight ==
    ASSUME NEW entries, NEW eq, NEW show, NEW w, NEW n, NEW k, Ready(entries, eq, show, w, n, k),
           Separates(entries[k], eq[k], show, w)
    PROVE  UpdateParents(eq, k) = AllAboveAreTold(eq, n, k)
<1>1. /\ k \in Items /\ k \in Nat /\ k \in 1..n /\ k \in 1..Len(entries)
      /\ Existing(entries[k]) # {}
      /\ eq \in [1..n -> SUBSET Pairs]
      /\ \A a \in Above(k) :
            /\ a \in 1..Len(entries) /\ a \in 1..n /\ a \in 1..k - 1 /\ HasDir(entries[a])
            /\ FolderRight(entries, eq, show, w, a, k - 1)
            /\ \A s \in Sides : ExistsIn(entries[k], s) => IsDir(entries[a], s)
  BY AboveIsReady
<1> DEFINE changed == {a \in Above(k) : \A b \in Above(k) : b >= a => ~(eq[b] \subseteq eq[k])}
<1>2. ASSUME NEW a \in Above(k), a \notin changed PROVE eq[a] \subseteq eq[k]
  <2>1. PICK b \in Above(k) : b >= a /\ eq[b] \subseteq eq[k]
    BY <1>2
  <2>2. CASE b = a
    BY <2>1, <2>2
  <2>3. CASE b # a
    <3>1. a \in Nat /\ b \in Nat /\ a < b
      BY <1>1, <2>1, <2>3
    <3>2. a \in Above(b)
      BY <1>1, <3>1, AboveWell
    <3>3. ~AllEqual(eq[k], w) /\ ~AllEqual(eq[b], w)
      BY <2>1 DEF Separates, AllEqual
    <3>4. Separates(entries[b], eq[b], show, w)
      BY <1>1, <3>3, VisibleBelow
    <3>5. FolderRight(entries, eq, show, w, a, k - 1) /\ b \in 1..k - 1
      BY <1>1
    <3>6. eq[a] \subseteq eq[b]
      BY <3>2, <3>4, <3>5 DEF FolderRight
    <3> QED BY <2>1, <3>6
  <2> QED BY <2>2, <2>3
<1>3. \A a \in changed : a \in Above(k)
  OBVIOUS
<1>4. DOMAIN eq = 1..n
  BY <1>1
<1>5. UpdateParents(eq, k) = [a \in DOMAIN eq |-> IF a \in changed THEN eq[a] \cap eq[k] ELSE eq[a]]
  BY DEF UpdateParents
<1> HIDE DEF changed
<1>6. \A a \in 1..n : (IF a \in changed THEN eq[a] \cap eq[k] ELSE eq[a])
                      = (IF a \in Above(k) THEN eq[a] \cap eq[k] ELSE eq[a])
  BY <1>2, <1>3
<1> QED BY <1>4, <1>5, <1>6 DEF AllAboveAreTold

\* A folder with all flags below it leaves the folders above it their own pairs.
LEMMA EqualHasAllPairs ==
    ASSUME NEW entries, NEW w, FolderTree(entries, w), NEW j \in 1..Len(entries),
           NEW a \in Above(j), NEW eq, NEW show, NEW k,
           HasDir(entries[j]), FolderRight(entries, eq, show, w, j, k), AllEqual(eq[j], w)
    PROVE  KindPairs(entries[a]) \subseteq eq[j]
<1>1. eq[j] = {p \in KindPairs(entries[j]) :
                  \A i \in 1..k : j \in Above(i) /\ Separates(entries[i], eq[i], show, w) => p \in eq[i]}
  BY DEF FolderRight
<1>2. \A i \in 1..k : j \in Above(i) => ~Separates(entries[i], eq[i], show, w)
  <2> SUFFICES ASSUME NEW i \in 1..k, j \in Above(i), Separates(entries[i], eq[i], show, w)
               PROVE  FALSE
    OBVIOUS
  <2>1. eq[j] \subseteq eq[i]
    BY <1>1
  <2>2. AllEqual(eq[i], w)
    BY <2>1 DEF AllEqual
  <2> QED BY <2>2 DEF Separates
<1>3. eq[j] = KindPairs(entries[j])
  BY <1>1, <1>2
<1>4. AB \in KindPairs(entries[j]) /\ (AC \in KindPairs(entries[j]) \/ ~w.threeWay)
  BY <1>3 DEF AllEqual
<1>5. \A e : KindPairs(e) \subseteq {AB, AC, BC}
  BY DEF KindPairs, Pairs
<1>6. CASE AC \in KindPairs(entries[j])
  <2>1. BC \in KindPairs(entries[j])
    BY <1>4, <1>6, TheThreePairs
  <2> QED BY <1>3, <1>4, <1>5, <1>6, <2>1
<1>7. CASE ~w.threeWay
  <2>1. /\ a \in 1..Len(entries)
        /\ \A s \in Sides : ExistsIn(entries[j], s) => IsDir(entries[a], s)
    BY FoldersAbove
  <2>2. ~ExistsIn(entries[j], "C") /\ ~ExistsIn(entries[a], "C")
    BY <1>7, <2>1 DEF FolderTree
  <2>3. ~IsDir(entries[j], "C") /\ ~IsDir(entries[a], "C")
    BY <2>2 DEF IsDir, ExistsIn
  <2>4. IsDir(entries[j], "A") <=> IsDir(entries[j], "B")
    BY <1>4, TheThreePairs
  <2>5. IsDir(entries[j], "A") /\ IsDir(entries[j], "B")
    BY <2>3, <2>4 DEF HasDir, Sides
  <2>6. ExistsIn(entries[j], "A") /\ ExistsIn(entries[j], "B")
    BY <2>5 DEF IsDir, ExistsIn
  <2>7. IsDir(entries[a], "A") /\ IsDir(entries[a], "B")
    BY <2>1, <2>6 DEF Sides
  <2>8. AC \notin KindPairs(entries[a]) /\ BC \notin KindPairs(entries[a])
    BY <2>3, <2>7, TheThreePairs
  <2> QED BY <1>3, <1>4, <1>5, <2>8
<1> QED BY <1>4, <1>6, <1>7

\* Telling all the folders above item k makes them right up to item k.
LEMMA TellingIsRight ==
    ASSUME NEW entries, NEW eq, NEW show, NEW w, NEW n, NEW k, Ready(entries, eq, show, w, n, k),
           Separates(entries[k], eq[k], show, w), NEW new, new = AllAboveAreTold(eq, n, k)
    PROVE  Flags(entries, new, n) /\ FoldersRight(entries, new, show, w, k)
<1>1. /\ k \in Items /\ k \in Nat /\ k \in 1..n /\ k \in 1..Len(entries)
      /\ Existing(entries[k]) # {}
      /\ eq \in [1..n -> SUBSET Pairs]
      /\ \A a \in Above(k) :
            /\ a \in 1..Len(entries) /\ a \in 1..n /\ a \in 1..k - 1 /\ HasDir(entries[a])
            /\ FolderRight(entries, eq, show, w, a, k - 1)
            /\ \A s \in Sides : ExistsIn(entries[k], s) => IsDir(entries[a], s)
  BY AboveIsReady
<1>2. /\ FolderTree(entries, w) /\ n \in Nat /\ n <= Len(entries) /\ Len(entries) \in Nat
      /\ FoldersRight(entries, eq, show, w, k - 1)
      /\ HasDir(entries[k]) => eq[k] = KindPairs(entries[k])
      /\ \A i \in 1..n : HasDir(entries[i]) => eq[i] \subseteq KindPairs(entries[i])
  BY FoldersAssumption DEF Ready, Flags, FolderTree
<1>3. /\ new \in [1..n -> SUBSET Pairs]
      /\ \A i \in Above(k) : i \in 1..n /\ new[i] = eq[i] \cap eq[k]
      /\ \A i \in 1..n : i \notin Above(k) => new[i] = eq[i]
      /\ \A i \in 1..n : new[i] \subseteq eq[i]
  BY <1>1 DEF AllAboveAreTold
<1>4. Flags(entries, new, n)
  BY <1>2, <1>3 DEF Flags
<1>5. k \notin Above(k) /\ new[k] = eq[k]
  BY <1>1, <1>3, AboveWell
<1>6. 1..k = (1..k - 1) \cup {k} /\ \A j \in 1..k : j \in 1..n /\ j \in Items /\ j \in Nat
  <2>1. 1..k = (1..k - 1) \cup {k} /\ \A j \in 1..k : j \in 1..n /\ j \in Nat /\ j \in 1..Len(entries)
    BY <1>1, <1>2
  <2>2. \A j \in 1..Len(entries) : j \in Items
    BY <1>2, FoldersAbove
  <2> QED BY <2>1, <2>2
<1>7. ASSUME NEW a \in 1..k, HasDir(entries[a]) PROVE FolderRight(entries, new, show, w, a, k)
  <2>1. CASE a = k
    <3>1. \A j \in 1..k : k \notin Above(j)
      <4> SUFFICES ASSUME NEW j \in 1..k, k \in Above(j) PROVE FALSE
        OBVIOUS
      <4>1. k < j
        BY <1>6, AboveWell
      <4> QED BY <1>1, <4>1
    <3> QED BY <1>2, <1>5, <1>7, <2>1, <3>1 DEF FolderRight
  <2>2. CASE a # k /\ a \notin Above(k)
    <3>1. a \in 1..k - 1 /\ FolderRight(entries, eq, show, w, a, k - 1)
      BY <1>2, <1>6, <1>7, <2>2 DEF FoldersRight
    <3>2. \A j \in 1..k : a \in Above(j) => j \in 1..k - 1 /\ new[j] = eq[j]
      <4> SUFFICES ASSUME NEW j \in 1..k, a \in Above(j) PROVE j \in 1..k - 1 /\ new[j] = eq[j]
        OBVIOUS
      <4>1. j \notin Above(k)
        BY <1>1, <2>2, AboveWell
      <4> QED BY <1>3, <1>6, <2>2, <4>1
    <3>3. new[a] = eq[a]
      BY <1>3, <1>6, <2>2
    <3>4. \A j \in 1..k - 1 : j \in 1..k
      BY <1>6
    <3> QED BY <3>1, <3>2, <3>3, <3>4 DEF FolderRight
  <2>3. CASE a \in Above(k)
    <3>1. FolderRight(entries, eq, show, w, a, k - 1) /\ new[a] = eq[a] \cap eq[k]
      BY <1>1, <1>3, <2>3
    <3>2. ASSUME NEW p \in new[a], NEW j \in 1..k, a \in Above(j), Separates(entries[j], new[j], show, w)
          PROVE  p \in new[j]
      <4>1. p \in eq[a] /\ p \in eq[k]
        BY <3>1
      <4>2. CASE j = k
        BY <1>5, <4>1, <4>2
      <4>3. CASE j # k /\ j \notin Above(k)
        <5>1. j \in 1..k - 1 /\ new[j] = eq[j]
          BY <1>3, <1>6, <4>3
        <5> QED BY <3>1, <3>2, <4>1, <5>1 DEF FolderRight
      <4>4. CASE j \in Above(k)
        <5>1. /\ j \in 1..k - 1 /\ j \in 1..Len(entries) /\ HasDir(entries[j])
              /\ new[j] = eq[j] \cap eq[k]
              /\ FolderRight(entries, eq, show, w, j, k - 1)
          BY <1>1, <1>3, <4>4
        <5>2. CASE ~AllEqual(eq[j], w)
          <6>1. Separates(entries[j], eq[j], show, w)
            BY <3>2, <5>2, SeparatesAlike
          <6> QED BY <3>1, <3>2, <4>1, <5>1, <6>1 DEF FolderRight
        <5>3. CASE AllEqual(eq[j], w)
          <6>1. KindPairs(entries[a]) \subseteq eq[j]
            BY <1>2, <3>2, <5>1, <5>3, EqualHasAllPairs
          <6>2. p \in KindPairs(entries[a])
            BY <3>1, <4>1 DEF FolderRight
          <6> QED BY <4>1, <5>1, <6>1, <6>2
        <5> QED BY <5>2, <5>3
      <4> QED BY <4>2, <4>3, <4>4
    <3>3. ASSUME NEW p \in KindPairs(entries[a]),
                 \A j \in 1..k : a \in Above(j) /\ Separates(entries[j], new[j], show, w) => p \in new[j]
          PROVE  p \in new[a]
      <4>1. p \in eq[k]
        BY <1>1, <1>5, <1>6, <2>3, <3>3
      <4>2. ASSUME NEW j \in 1..k - 1, a \in Above(j), Separates(entries[j], eq[j], show, w)
            PROVE  p \in eq[j]
        <5>1. j \in 1..k /\ j \in 1..n
          BY <1>6
        <5>2. new[j] \subseteq eq[j]
          BY <1>3, <5>1
        <5>3. ~AllEqual(new[j], w)
          BY <4>2, <5>2 DEF Separates, AllEqual
        <5>4. Separates(entries[j], new[j], show, w)
          BY <4>2, <5>3, SeparatesAlike
        <5> QED BY <3>3, <4>2, <5>1, <5>2, <5>4
      <4>3. p \in eq[a]
        BY <3>1, <3>3, <4>2 DEF FolderRight
      <4> QED BY <3>1, <4>1, <4>3
    <3>4. new[a] \subseteq KindPairs(entries[a])
      BY <3>1 DEF FolderRight
    <3> QED BY <3>2, <3>3, <3>4 DEF FolderRight
  <2> QED BY <2>1, <2>2, <2>3
<1> QED BY <1>4, <1>7 DEF FoldersRight

\* An item that separates no versions tells nobody.
LEMMA SilenceIsRight ==
    ASSUME NEW entries, NEW eq, NEW show, NEW w, NEW n, NEW k, Ready(entries, eq, show, w, n, k),
           ~Separates(entries[k], eq[k], show, w)
    PROVE  FoldersRight(entries, eq, show, w, k)
<1>1. /\ k \in Nat /\ k \in 1..n /\ FolderTree(entries, w) /\ n \in Nat /\ n <= Len(entries)
      /\ Len(entries) \in Nat
      /\ FoldersRight(entries, eq, show, w, k - 1)
      /\ HasDir(entries[k]) => eq[k] = KindPairs(entries[k])
  BY FoldersAssumption DEF Ready, FolderTree
<1>2. /\ 1..k = (1..k - 1) \cup {k}
      /\ \A j \in 1..k : j \in Items /\ ~(k < j)
  <2>1. 1..k = (1..k - 1) \cup {k} /\ \A j \in 1..k : j \in 1..Len(entries) /\ ~(k < j)
    BY <1>1
  <2> QED BY <1>1, <2>1, FoldersAbove
<1>3. ASSUME NEW a \in 1..k, HasDir(entries[a]) PROVE FolderRight(entries, eq, show, w, a, k)
  <2>1. CASE a = k
    <3>1. \A j \in 1..k : k \notin Above(j)
      BY <1>2, AboveWell
    <3> QED BY <1>1, <1>3, <2>1, <3>1 DEF FolderRight
  <2>2. CASE a # k
    <3>1. FolderRight(entries, eq, show, w, a, k - 1)
      BY <1>1, <1>2, <1>3, <2>2 DEF FoldersRight
    <3> QED BY <1>2, <3>1 DEF FolderRight
  <2> QED BY <2>1, <2>2
<1> QED BY <1>3 DEF FoldersRight

LEMMA ToldType ==
    ASSUME NEW entries, NEW show, NEW w, NEW n \in Nat, NEW k \in 1..n, NEW eq \in [1..n -> SUBSET Pairs]
    PROVE  Told(entries, eq, show, w, k) \in [1..n -> SUBSET Pairs]
<1> DEFINE now == [eq EXCEPT ![k] = AssumedEqual(entries[k], @)]
<1>1. AssumedEqual(entries[k], eq[k]) \in SUBSET Pairs
  BY DEF AssumedEqual
<1>2. now \in [1..n -> SUBSET Pairs]
  BY <1>1
<1> HIDE DEF now
<1>3. UpdateParents(now, k) \in [1..n -> SUBSET Pairs]
  BY <1>2 DEF UpdateParents
<1>4. Told(entries, eq, show, w, k) \in {now, UpdateParents(now, k)}
  BY DEF Told, now
<1> QED BY <1>2, <1>3, <1>4

\* The flags of items that are no folder.
FilesKept(entries, eq, new, n) == \A i \in 1..n : ~HasDir(entries[i]) => new[i] = eq[i]

LEMMA ToldKeepsFiles ==
    ASSUME NEW entries, NEW show, NEW w, FolderTree(entries, w), NEW n \in Nat, n <= Len(entries),
           NEW k \in 1..n, NEW eq \in [1..n -> SUBSET Pairs]
    PROVE  FilesKept(entries, eq, Told(entries, eq, show, w, k), n)
<1> DEFINE now == [eq EXCEPT ![k] = AssumedEqual(entries[k], @)]
<1>1. DOMAIN now = 1..n /\ FilesKept(entries, eq, now, n)
  BY DEF AssumedEqual, FilesKept
<1>2. \A a \in Above(k) : HasDir(entries[a])
  <2>1. k \in 1..Len(entries)
    BY DEF FolderTree
  <2> QED BY <2>1, FoldersAbove
<1>3. Told(entries, eq, show, w, k) \in {now, UpdateParents(now, k)}
  BY DEF Told
<1> HIDE DEF now
<1>4. FilesKept(entries, eq, UpdateParents(now, k), n)
  BY <1>1, <1>2 DEF UpdateParents, FilesKept
<1> QED BY <1>1, <1>3, <1>4

LEMMA ToldIsRight ==
    ASSUME NEW entries, NEW show, NEW w, FolderTree(entries, w), NEW n \in Nat, n <= Len(entries),
           NEW k \in 1..n, NEW eq, Flags(entries, eq, n), FoldersRight(entries, eq, show, w, k - 1)
    PROVE  /\ Flags(entries, Told(entries, eq, show, w, k), n)
           /\ FoldersRight(entries, Told(entries, eq, show, w, k), show, w, k)
<1> DEFINE now == [eq EXCEPT ![k] = AssumedEqual(entries[k], @)]
<1>1. eq \in [1..n -> SUBSET Pairs] /\ (HasDir(entries[k]) => eq[k] \subseteq KindPairs(entries[k]))
  BY DEF Flags
<1>2. /\ AssumedEqual(entries[k], eq[k]) \in SUBSET Pairs
      /\ HasDir(entries[k]) => AssumedEqual(entries[k], eq[k]) = KindPairs(entries[k])
  BY <1>1 DEF AssumedEqual, KindPairs
<1>3. /\ now \in [1..n -> SUBSET Pairs]
      /\ now[k] = AssumedEqual(entries[k], eq[k])
      /\ \A i \in 1..n : i # k => now[i] = eq[i]
  BY <1>1, <1>2
<1>4. Told(entries, eq, show, w, k) = IF Separates(entries[k], now[k], show, w)
                                      THEN UpdateParents(now, k) ELSE now
  BY DEF Told, Separates
<1> HIDE DEF now
<1>5. Flags(entries, now, n)
  BY <1>2, <1>3 DEF Flags
<1>6. FoldersRight(entries, now, show, w, k - 1)
  <2>1. \A i \in 1..k - 1 : now[i] = eq[i]
    BY <1>3
  <2>2. ASSUME NEW a \in 1..k - 1, HasDir(entries[a])
        PROVE  FolderRight(entries, now, show, w, a, k - 1)
    <3>1. FolderRight(entries, eq, show, w, a, k - 1)
      BY <2>2 DEF FoldersRight
    <3> QED BY <2>1, <3>1 DEF FolderRight
  <2> QED BY <2>2 DEF FoldersRight
<1>7. Ready(entries, now, show, w, n, k)
  BY <1>2, <1>3, <1>5, <1>6 DEF Ready
<1>8. CASE Separates(entries[k], now[k], show, w)
  <2>1. Told(entries, eq, show, w, k) = AllAboveAreTold(now, n, k)
    BY <1>4, <1>7, <1>8, StoppingIsRight
  <2> QED BY <1>7, <1>8, <2>1, TellingIsRight
<1>9. CASE ~Separates(entries[k], now[k], show, w)
  <2>1. Told(entries, eq, show, w, k) = now
    BY <1>4, <1>9
  <2> QED BY <1>5, <1>7, <1>9, <2>1, SilenceIsRight
<1> QED BY <1>8, <1>9

\* FolderEquality() leaves every folder with the right flags, whatever flags it
\* starts with, and other items with theirs.
LEMMA FolderEqualityRight ==
    ASSUME NEW entries, NEW show, NEW w, FolderTree(entries, w), NEW n \in Nat, n <= Len(entries),
           NEW eq, Flags(entries, eq, n)
    PROVE  /\ Flags(entries, FolderEquality(entries, eq, show, w), n)
           /\ FoldersRight(entries, FolderEquality(entries, eq, show, w), show, w, n)
           /\ FilesKept(entries, eq, FolderEquality(entries, eq, show, w), n)
<1> DEFINE S == [1..n -> SUBSET Pairs]
           G == [z \in S \X (1..n) |-> Told(entries, z[1], show, w, z[2])]
           Is(f) == f = [i \in 0..n |-> IF i = 0 THEN eq ELSE Told(entries, f[i - 1], show, w, i)]
           f == CHOOSE g : Is(g)
<1>1. eq \in S /\ Len(eq) = n
  <2>1. eq \in S
    BY DEF Flags
  <2>2. eq \in Seq(SUBSET Pairs) /\ DOMAIN eq = 1..n
    BY <2>1, SeqDef
  <2> QED BY <2>1, <2>2, LenProperties
<1>2. \A x \in S, k \in 1..n : G[<<x, k>>] = Told(entries, x, show, w, k) /\ G[<<x, k>>] \in S
  <2> SUFFICES ASSUME NEW x \in S, NEW k \in 1..n
               PROVE  G[<<x, k>>] = Told(entries, x, show, w, k) /\ G[<<x, k>>] \in S
    OBVIOUS
  <2>1. G[<<x, k>>] = Told(entries, x, show, w, k)
    OBVIOUS
  <2>2. Told(entries, x, show, w, k) \in S
    BY ToldType
  <2> QED BY <2>1, <2>2
<1> HIDE DEF G
<1>3. \E g : Is(g)
  <2>1. PICK g : /\ g = [k \in 0..n |-> IF k = 0 THEN eq ELSE G[<<g[k - 1], k>>]]
                 /\ g \in [0..n -> S]
    <3> HIDE DEF S
    <3>1. \A x \in S, k \in 1..n : G[<<x, k>>] \in S
      BY <1>2
    <3>2. eq \in S
      BY <1>1
    <3> QED BY <3>1, <3>2, RecursionExists
  <2>2. \A k \in 0..n : k # 0 => k \in 1..n /\ k - 1 \in 0..n
    OBVIOUS
  <2>3. \A k \in 0..n : k # 0 => G[<<g[k - 1], k>>] = Told(entries, g[k - 1], show, w, k)
    <3> HIDE DEF S
    <3> QED BY <1>2, <2>1, <2>2
  <2>4. Is(g)
    BY <2>1, <2>3
  <2> QED BY <2>4
<1>4. Is(f)
  BY <1>3
<1>5. FolderEquality(entries, eq, show, w) = f[n]
  BY <1>1 DEF FolderEquality, Told
<1> HIDE DEF f
<1>6. f[0] = eq /\ \A k \in 1..n : f[k] = Told(entries, f[k - 1], show, w, k)
  BY <1>4
<1> DEFINE Right(k) == /\ Flags(entries, f[k], n)
                       /\ FoldersRight(entries, f[k], show, w, k)
                       /\ FilesKept(entries, eq, f[k], n)
           T == {k \in Nat : k <= n => Right(k)}
<1>7. 0 \in T
  <2>1. 1..0 = {}
    OBVIOUS
  <2>2. Right(0)
    BY <1>6, <2>1 DEF FoldersRight, FilesKept
  <2> QED BY <2>2
<1>8. ASSUME NEW k \in Nat, k \in T PROVE k + 1 \in T
  <2> SUFFICES ASSUME k + 1 <= n PROVE Right(k + 1)
    OBVIOUS
  <2>1. k + 1 \in 1..n /\ (k + 1) - 1 = k /\ k <= n
    OBVIOUS
  <2>2. Right(k)
    BY <1>8, <2>1
  <2>3. f[k + 1] = Told(entries, f[k], show, w, k + 1)
    BY <1>6, <2>1
  <2>4. Flags(entries, f[k + 1], n) /\ FoldersRight(entries, f[k + 1], show, w, k + 1)
    BY <2>1, <2>2, <2>3, ToldIsRight
  <2>5. FilesKept(entries, f[k], f[k + 1], n)
    <3>1. f[k] \in [1..n -> SUBSET Pairs]
      BY <2>2 DEF Flags
    <3> QED BY <2>1, <2>3, <3>1, ToldKeepsFiles
  <2> QED BY <2>2, <2>4, <2>5 DEF FilesKept
<1> HIDE DEF T
<1>9. \A k \in Nat : k \in T
  BY <1>7, <1>8, SetInduction
<1>10. Right(n)
  BY <1>9 DEF T
<1> QED BY <1>5, <1>10

-----------------------------------------------------------------------------
(* The ages of two different files. *)

\* One step of the loop over the dates, for files of which none are equal.
AgeStep(e, st, d) ==
    IF \E s \in Existing(e) : e.date[s] = d
    THEN IF st.ages[Keeper(e, d)] # NotThere THEN st
         ELSE [ages |-> [t \in Sides |-> IF t = Keeper(e, d) THEN st.age ELSE st.ages[t]],
               age  |-> NextAge(st.age, 1)]
    ELSE st

\* What the loop has found down to date d: x and y are the dates of A and B.
AgeIs(x, y, d) ==
    [ages |-> [s \in Sides |->
                  IF s = "A" /\ d <= x /\ x # y THEN IF y < x THEN 0 ELSE 1
                  ELSE IF s = "B" /\ d <= y THEN IF x <= y THEN 0 ELSE 1
                  ELSE NotThere],
     age  |-> IF x # y /\ d <= x /\ d <= y THEN 2 ELSE IF d <= x \/ d <= y THEN 1 ELSE 0]

LEMMA AgeRoundIsStep ==
    ASSUME NEW e, NEW st, NEW d
    PROVE  AgeStep(e, st, d) = IF \E s \in Existing(e) : e.date[s] = d
                               THEN AgeRound(st, Keeper(e, d), {}) ELSE st
<1> DEFINE same == {t \in Sides : {Keeper(e, d), t} \in {}}
<1>1. same = {}
  OBVIOUS
<1>2. Cardinality(same) = 0
  BY <1>1, FS_EmptySet
<1>3. 1 + Cardinality(same) = 1
  BY <1>2
<1>4. \A t : t \notin same
  BY <1>1
<1> QED BY <1>3, <1>4 DEF AgeStep, AgeRound

LEMMA AgeIsStep ==
    ASSUME NEW e, Existing(e) = AB, NEW x \in Nat, NEW y \in Nat, e.date["A"] = x, e.date["B"] = y,
           NEW d \in Nat
    PROVE  AgeStep(e, AgeIs(x, y, d + 1), d) = AgeIs(x, y, d)
<1>1. Keeper(e, d) = IF d = y THEN "B" ELSE "A"
  BY DEF Keeper, AB
<1>2. (\E s \in Existing(e) : e.date[s] = d) <=> (d = x \/ d = y)
  BY DEF AB
<1>3. Sides = {"A", "B", "C"}
  BY DEF Sides
<1> DEFINE st == AgeIs(x, y, d + 1)
<1>4. st.age \in {0, 1, 2} /\ NextAge(st.age, 1) = st.age + 1
  BY DEF AgeIs, NextAge
<1>5. CASE d # x /\ d # y
  <2>1. AgeStep(e, st, d) = st
    BY <1>2, <1>5 DEF AgeStep
  <2>2. (d + 1 <= x <=> d <= x) /\ (d + 1 <= y <=> d <= y)
    BY <1>5
  <2> QED BY <2>1, <2>2 DEF AgeIs
<1>6. CASE d = y
  <2>1. st.ages["B"] = NotThere
    BY <1>3, <1>6 DEF AgeIs, NotThere
  <2>2. AgeStep(e, st, d) = [ages |-> [t \in Sides |-> IF t = "B" THEN st.age ELSE st.ages[t]],
                             age  |-> st.age + 1]
    BY <1>1, <1>2, <1>4, <1>6, <2>1 DEF AgeStep
  <2>3. st.age + 1 = AgeIs(x, y, d).age
    BY <1>6 DEF AgeIs
  <2>4. [t \in Sides |-> IF t = "B" THEN st.age ELSE st.ages[t]] = AgeIs(x, y, d).ages
    BY <1>3, <1>6 DEF AgeIs, NotThere
  <2> QED BY <2>2, <2>3, <2>4 DEF AgeIs
<1>7. CASE d = x /\ d # y
  <2>1. st.ages["A"] = NotThere
    BY <1>3, <1>7 DEF AgeIs, NotThere
  <2>2. AgeStep(e, st, d) = [ages |-> [t \in Sides |-> IF t = "A" THEN st.age ELSE st.ages[t]],
                             age  |-> st.age + 1]
    BY <1>1, <1>2, <1>4, <1>7, <2>1 DEF AgeStep
  <2>3. st.age + 1 = AgeIs(x, y, d).age
    BY <1>7 DEF AgeIs
  <2>4. [t \in Sides |-> IF t = "A" THEN st.age ELSE st.ages[t]] = AgeIs(x, y, d).ages
    BY <1>3, <1>7 DEF AgeIs, NotThere
  <2> QED BY <2>2, <2>3, <2>4 DEF AgeIs
<1> QED BY <1>5, <1>6, <1>7

LEMMA AgeLoopIs ==
    ASSUME NEW e, Existing(e) = AB, NEW latest \in Nat,
           NEW x \in 0..latest, NEW y \in 0..latest, e.date["A"] = x, e.date["B"] = y
    PROVE  AgeLoop(e, {}, latest) = AgeIs(x, y, 0)
<1> DEFINE first == [ages |-> [s \in Sides |-> NotThere], age |-> New]
           Is(f) == f = [d \in 0..(latest + 1) |->
                            IF d = latest + 1 THEN first
                            ELSE IF \E s \in Existing(e) : e.date[s] = d
                                 THEN AgeRound(f[d + 1], Keeper(e, d), {}) ELSE f[d + 1]]
           after == CHOOSE f : Is(f)
<1>1. x \in Nat /\ y \in Nat /\ x <= latest /\ y <= latest
  OBVIOUS
<1>2. AgeIs(x, y, latest + 1) = first
  BY <1>1 DEF AgeIs, New
<1>3. \A f : Is(f) <=> f = [d \in 0..(latest + 1) |-> IF d = latest + 1 THEN first ELSE AgeStep(e, f[d + 1], d)]
  BY AgeRoundIsStep
<1>4. AgeLoop(e, {}, latest) = after[0]
  BY DEF AgeLoop
<1> HIDE DEF Is, first
<1>5. \E f : Is(f)
  <2> DEFINE f == [d \in 0..(latest + 1) |-> AgeIs(x, y, d)]
  <2>1. \A d \in 0..(latest + 1) : d # latest + 1 => d \in Nat /\ d + 1 \in 0..(latest + 1)
    OBVIOUS
  <2>2. \A d \in 0..(latest + 1) : d # latest + 1 => AgeStep(e, f[d + 1], d) = AgeIs(x, y, d)
    BY <1>1, <2>1, AgeIsStep
  <2>3. Is(f)
    BY <1>2, <1>3, <2>2
  <2> QED BY <2>3
<1>6. Is(after)
  BY <1>5
<1> HIDE DEF after
<1>7. /\ after[latest + 1] = first
      /\ \A d \in 0..latest : after[d] = AgeStep(e, after[d + 1], d)
  <2>1. after = [d \in 0..(latest + 1) |-> IF d = latest + 1 THEN first ELSE AgeStep(e, after[d + 1], d)]
    BY <1>3, <1>6
  <2>2. latest + 1 \in 0..(latest + 1) /\ \A d \in 0..latest : d \in 0..(latest + 1) /\ d # latest + 1
    OBVIOUS
  <2> QED BY <2>1, <2>2
<1> DEFINE T == {k \in Nat : k <= latest + 1 => after[latest + 1 - k] = AgeIs(x, y, latest + 1 - k)}
<1>8. 0 \in T
  BY <1>2, <1>7
<1>9. ASSUME NEW k \in Nat, k \in T PROVE k + 1 \in T
  <2> SUFFICES ASSUME k + 1 <= latest + 1
               PROVE  after[latest + 1 - (k + 1)] = AgeIs(x, y, latest + 1 - (k + 1))
    OBVIOUS
  <2> DEFINE d == latest + 1 - (k + 1)
  <2>1. d \in 0..latest /\ d \in Nat /\ d + 1 = latest + 1 - k
    OBVIOUS
  <2>2. after[d + 1] = AgeIs(x, y, d + 1)
    BY <1>9, <2>1
  <2> HIDE DEF d
  <2>3. after[d] = AgeIs(x, y, d)
    BY <1>1, <1>7, <2>1, <2>2, AgeIsStep
  <2> QED BY <2>3 DEF d
<1> HIDE DEF T
<1>10. \A k \in Nat : k \in T
  BY <1>8, <1>9, SetInduction
<1>11. latest + 1 - (latest + 1) = 0
  OBVIOUS
<1>12. after[0] = AgeIs(x, y, 0)
  BY <1>10, <1>11 DEF T
<1> QED BY <1>4, <1>12

\* Two different files: A is new exactly if it has the later date, and equal
\* dates are a conflict.
LEMMA AgesFollowDates ==
    ASSUME NEW e, Existing(e) = AB, NEW latest \in Nat,
           e.date["A"] \in 0..latest, e.date["B"] \in 0..latest,
           NEW age, age = Ages(e, {}, latest), ~age.conflict
    PROVE  IF age.ages["A"] = New THEN e.date["A"] > e.date["B"] ELSE e.date["B"] > e.date["A"]
<1> DEFINE x == e.date["A"]
           y == e.date["B"]
           st == AgeLoop(e, {}, latest)
           left == LeftAges(e, st)
<1>1. st = AgeIs(x, y, 0) /\ x \in Nat /\ y \in Nat
  BY AgeLoopIs
<1>2. /\ st.ages["A"] = IF x = y THEN 3 ELSE IF y < x THEN 0 ELSE 1
      /\ st.ages["B"] = IF x <= y THEN 0 ELSE 1
  BY <1>1 DEF AgeIs, Sides, NotThere
<1>3. \A s \in AB : st.ages[s] # NotThere
  <2>1. age.conflict <=> \E s \in Existing(e) : st.ages[s] = NotThere
    BY Zenon DEF Ages
  <2> QED BY <2>1
<1>4. x # y
  BY <1>2, <1>3 DEF AB, NotThere
<1>5. left["A"] = st.ages["A"]
  <2>1. "A" \notin {s \in Existing(e) : st.ages[s] = NotThere}
    BY <1>3 DEF AB
  <2> QED BY <2>1 DEF LeftAges, Sides
<1>6. left["A"] = IF y < x THEN 0 ELSE 1
  BY <1>2, <1>4, <1>5
<1>7. age.ages["A"] = New <=> left["A"] = New
  <2> HIDE DEF left
  <2>1. age.ages = IF \E s \in Sides : left[s] = Old THEN left
                   ELSE [s \in Sides |-> IF left[s] = Middle THEN Old ELSE left[s]]
    BY DEF Ages, MiddleIsOld, left
  <2>2. age.ages["A"] \in {left["A"], IF left["A"] = Middle THEN Old ELSE left["A"]}
    BY <2>1 DEF Sides
  <2> QED BY <2>2 DEF New, Middle, Old
<1> QED BY <1>1, <1>4, <1>6, <1>7 DEF New

-----------------------------------------------------------------------------
(* The window. *)

\* The flags of files are what a complete comparison left.
FilesScanned(t, eq, n) == \A i \in 1..n : ~HasDir(t[i]) => eq[i] = ComparedEqual(t[i], {})

\* Their ages are what their flags and dates say.
AgesScanned(t, age, n) ==
    \A i \in 1..n : ~HasDir(t[i]) => age[i] = Ages(t[i], ComparedEqual(t[i], {}), Latest)

\* The listed items are of a tree, the flags of folders are right, and flags and
\* ages of files what was compared.
FlagsInv ==
    /\ window \in Windows /\ tree \in Trees
    /\ window.threeWay = \E i \in DOMAIN tree : ExistsIn(tree[i], "C")
    /\ listed \in Nat /\ listed <= Len(tree)
    /\ Flags(tree, equal, listed)
    /\ FoldersRight(tree, equal, shown, window, listed)
    /\ cut = {} => FilesScanned(tree, equal, listed) /\ AgesScanned(tree, ages, listed)

LEMMA TheTree ==
    ASSUME NEW t \in Trees, NEW w, w.threeWay = \E i \in DOMAIN t : ExistsIn(t[i], "C")
    PROVE  FolderTree(t, w) /\ Len(t) \in Nat
BY FoldersAssumption DEF FolderTree

\* A scan of the first n items leaves right flags.
LEMMA ScanIsRight ==
    ASSUME NEW t, NEW w, FolderTree(t, w), NEW n \in Nat, n <= Len(t), NEW c, NEW show
    PROVE  /\ Flags(t, ScanResult(w, t, n, c, show).equal, n)
           /\ FoldersRight(t, ScanResult(w, t, n, c, show).equal, show, w, n)
           /\ c = {} => /\ FilesScanned(t, ScanResult(w, t, n, c, show).equal, n)
                        /\ AgesScanned(t, ScanResult(w, t, n, c, show).ages, n)
<1> DEFINE compared == [i \in 1..n |-> ComparedEqual(t[i], IF i = n THEN c ELSE {})]
           age == [i \in 1..n |-> Ages(t[i], compared[i], Latest)]
<1>1. \A e, cc : ComparedEqual(e, cc) \subseteq KindPairs(e)
  BY DEF ComparedEqual, KindPairs
<1>2. \A e : KindPairs(e) \subseteq Pairs
  BY DEF KindPairs
<1>3. Flags(t, compared, n)
  BY <1>1, <1>2 DEF Flags
<1>4. /\ ScanResult(w, t, n, c, show).equal = FolderEquality(t, compared, show, w)
      /\ ScanResult(w, t, n, c, show).ages = FolderAges(t, FolderEquality(t, compared, show, w), age)
  BY DEF ScanResult
<1>5. c = {} => \A i \in 1..n : compared[i] = ComparedEqual(t[i], {})
  OBVIOUS
<1> HIDE DEF compared
<1>6. /\ Flags(t, FolderEquality(t, compared, show, w), n)
      /\ FoldersRight(t, FolderEquality(t, compared, show, w), show, w, n)
      /\ FilesKept(t, compared, FolderEquality(t, compared, show, w), n)
  BY <1>3, FolderEqualityRight
<1>7. c = {} => AgesScanned(t, age, n)
  BY <1>5 DEF AgesScanned
<1>8. DOMAIN FolderEquality(t, compared, show, w) = 1..n
  BY <1>6 DEF Flags
<1> HIDE DEF age
<1> QED BY <1>4, <1>5, <1>6, <1>7, <1>8 DEF FilesKept, FilesScanned, AgesScanned, FolderAges

\* The flags are right after every command.
THEOREM FlagsInvariance == Spec => []FlagsInv
<1>1. Init => FlagsInv
  <2> SUFFICES ASSUME Init PROVE FlagsInv
    OBVIOUS
  <2>1. /\ window \in Windows /\ tree \in Trees /\ listed = Len(tree)
        /\ window.threeWay = \E i \in DOMAIN tree : ExistsIn(tree[i], "C")
        /\ equal = ScanResult(window, tree, listed, {}, shown).equal
        /\ ages = ScanResult(window, tree, listed, {}, shown).ages
    BY DEF Init
  <2>2. FolderTree(tree, window) /\ Len(tree) \in Nat
    BY <2>1, TheTree
  <2>3. /\ Flags(tree, equal, listed)
        /\ FoldersRight(tree, equal, shown, window, listed)
        /\ FilesScanned(tree, equal, listed) /\ AgesScanned(tree, ages, listed)
    BY <2>1, <2>2, ScanIsRight
  <2> QED BY <2>1, <2>2, <2>3 DEF FlagsInv
<1>2. FlagsInv /\ [Next]_vars => FlagsInv'
  <2> SUFFICES ASSUME FlagsInv, [Next]_vars PROVE FlagsInv'
    OBVIOUS
  <2>1. FolderTree(tree, window) /\ Len(tree) \in Nat
    BY TheTree DEF FlagsInv
  <2>2. CASE UNCHANGED <<window, tree, listed, equal, ages, shown, cut>>
    BY <2>2 DEF FlagsInv, Flags, FoldersRight, FolderRight, FilesScanned, AgesScanned
  <2>3. ASSUME NEW n \in Items, NEW c \in Cuts, Rescan(n, c) PROVE FlagsInv'
    <3>1. /\ n <= Len(tree) /\ listed' = n /\ cut' = c
          /\ equal' = ScanResult(window, tree, n, c, shown).equal
          /\ ages' = ScanResult(window, tree, n, c, shown).ages
          /\ UNCHANGED <<window, tree, shown>>
      BY <2>3 DEF Rescan
    <3>2. n \in Nat
      BY FoldersAssumption
    <3>3. /\ Flags(tree, equal', n) /\ FoldersRight(tree, equal', shown, window, n)
          /\ c = {} => FilesScanned(tree, equal', n) /\ AgesScanned(tree, ages', n)
      BY <2>1, <3>1, <3>2, ScanIsRight
    <3> QED BY <3>1, <3>2, <3>3 DEF FlagsInv, Flags, FoldersRight, FolderRight, FilesScanned, AgesScanned
  <2>4. ASSUME NEW show \in Shows, UpdateFileVisibilities(show) PROVE FlagsInv'
    <3>1. /\ shown' = show /\ equal' = FolderEquality(tree, equal, show, window)
          /\ ages' = FolderAges(tree, equal', ages)
          /\ UNCHANGED <<window, tree, listed, cut>>
      BY <2>4 DEF UpdateFileVisibilities
    <3>2. listed \in Nat /\ listed <= Len(tree) /\ Flags(tree, equal, listed)
      BY DEF FlagsInv
    <3>3. /\ Flags(tree, equal', listed) /\ FoldersRight(tree, equal', show, window, listed)
          /\ FilesKept(tree, equal, equal', listed)
      BY <2>1, <3>1, <3>2, FolderEqualityRight
    <3>4. cut' = {} => FilesScanned(tree, equal', listed) /\ AgesScanned(tree, ages', listed)
      <4>1. DOMAIN equal' = 1..listed
        BY <3>3 DEF Flags
      <4> QED BY <3>1, <3>3, <4>1 DEF FlagsInv, FilesKept, FilesScanned, AgesScanned, FolderAges
    <3> QED BY <3>1, <3>2, <3>3, <3>4 DEF FlagsInv, Flags, FoldersRight, FolderRight, FilesScanned,
                                         AgesScanned
  <2>5. ASSUME NEW i, NEW o, SetMergeOperation(i, o) PROVE FlagsInv'
    BY <2>2, <2>5 DEF SetMergeOperation
  <2>6. ASSUME NEW o, SetAllMergeOperations(o) PROVE FlagsInv'
    BY <2>2, <2>6 DEF SetAllMergeOperations
  <2>7. CASE UNCHANGED vars
    BY <2>2, <2>7 DEF vars
  <2> QED BY <2>3, <2>4, <2>5, <2>6, <2>7 DEF Next
<1> QED BY <1>1, <1>2, PTL DEF Spec

\* Two versions of a folder are flagged equal exactly if both are folders (or
\* neither is there) and no visible difference below separates them: the walk
\* upwards of updateParents(), which stops at the first folder it leaves as it
\* is, tells every folder that has to know, in every tree.
THEOREM FolderFlagsAreRight == Spec => []FolderEqualityIsRight
<1>1. FlagsInv => FolderEqualityIsRight
  <2> SUFFICES ASSUME FlagsInv, NEW i \in Listed, HasDir(tree[i])
               PROVE  equal[i] = {p \in Pairs : SameKind(tree[i], p) /\
                                   \A j \in Below(i) :
                                      ~AllEqual(equal[j], window) /\ Visible(tree[j], equal[j], shown, window)
                                          => p \in equal[j]}
    BY DEF FolderEqualityIsRight
  <2>1. FolderRight(tree, equal, shown, window, i, listed)
    BY DEF FlagsInv, FoldersRight, Listed
  <2>2. \A j : j \in Below(i) <=> j \in 1..listed /\ i \in Above(j)
    BY DEF Below, Listed
  <2> QED BY <2>1, <2>2 DEF FolderRight, Separates, KindPairs
<1> QED BY <1>1, FlagsInvariance, PTL

-----------------------------------------------------------------------------
(* The cascade of operations. *)

\* What setAllMergeOperations() sets on item j, and what follows from what was
\* set on its folder.
SetOn(parent, info, o, w, ops, j) ==
    IF parent[j] = 0 THEN CalcSuggestedOperation(info[j], o, w)
    ELSE LET p == ops[parent[j]]
         IN FlattenSeq([k \in DOMAIN p |-> CalcSuggestedOperation(info[j], ChildDefault(p[k], w), w)])

\* The last operation that calcSuggestedOperation() sets.
Suggested(m, o, w) ==
    LET dflt == Recovered(o, w)
    IN IF dflt \notin MergeDefaults THEN CopySuggestion(m, dflt)
       ELSE IF m.typeConflict THEN "eConflictingFileTypes"
       ELSE IF w.threeWay THEN ThreeWaySuggestion(m, w) ELSE TwoWaySuggestion(m, dflt, w)

\* The items of a tree have numbers, and folders come first.
IsForest(parent, n) == n \in Nat /\ parent \in [1..n -> Nat] /\ \A j \in 1..n : parent[j] < j

LEMMA SuggestedIsOperation ==
    ASSUME NEW m, NEW o \in Operation, NEW w
    PROVE  /\ Suggested(m, o, w) \in Operation
           /\ CalcSuggestedOperation(m, o, w) \in Seq(Operation)
           /\ Len(CalcSuggestedOperation(m, o, w)) \in Nat \ {0}
           /\ CalcSuggestedOperation(m, o, w)[Len(CalcSuggestedOperation(m, o, w))] = Suggested(m, o, w)
<1> DEFINE dflt == Recovered(o, w)
           first == IF dflt \notin MergeDefaults THEN CopySuggestion(m, dflt)
                    ELSE IF w.threeWay THEN ThreeWaySuggestion(m, w) ELSE TwoWaySuggestion(m, dflt, w)
<1>1. dflt \in Operation
  BY DEF Recovered, Operation, MergeOps, DestMergeOps
<1>2. CopySuggestion(m, dflt) \in Operation
  BY <1>1 DEF CopySuggestion, Operation, MergeOps, SyncOps, SyncDeleteOps, DestDeleteOps
<1>3. ThreeWaySuggestion(m, w) \in Operation
  BY DEF ThreeWaySuggestion, Operation, MergeOps, DestMergeOps, DestCopyOps, DestDeleteOps, ConflictOps
<1>4. TwoWaySuggestion(m, dflt, w) \in Operation
  BY <1>1 DEF TwoWaySuggestion, Operation, MergeOps, SyncOps, SyncCopyOps, DestMergeOps, DestCopyOps, ConflictOps
<1>5. first \in Operation /\ "eConflictingFileTypes" \in Operation
  BY <1>2, <1>3, <1>4 DEF Operation, ConflictOps
<1>6. CASE dflt \in MergeDefaults /\ m.typeConflict
  <2>1. CalcSuggestedOperation(m, o, w) = <<first>> \o <<"eConflictingFileTypes">>
    BY <1>6 DEF CalcSuggestedOperation
  <2>2. Suggested(m, o, w) = "eConflictingFileTypes"
    BY <1>6 DEF Suggested
  <2> DEFINE u == <<first>>  v == <<"eConflictingFileTypes">>
  <2>3. u \in Seq(Operation) /\ v \in Seq(Operation) /\ Len(u) = 1 /\ Len(v) = 1
        /\ v[1] = "eConflictingFileTypes"
    BY <1>5
  <2> HIDE DEF first, u, v
  <2>4. u \o v \in Seq(Operation) /\ Len(u \o v) = 2 /\ (u \o v)[2] = v[1]
    <3>1. /\ u \o v \in Seq(Operation) /\ Len(u \o v) = Len(u) + Len(v)
          /\ \A i \in 1..Len(u) + Len(v) : (u \o v)[i] = IF i <= Len(u) THEN u[i] ELSE v[i - Len(u)]
      BY <2>3, ConcatProperties
    <3>2. (u \o v)[2] = IF 2 <= 1 THEN u[2] ELSE v[2 - 1]
      BY <2>3, <3>1
    <3> QED BY <2>3, <3>1, <3>2
  <2>5. CalcSuggestedOperation(m, o, w) = u \o v
    BY <2>1 DEF u, v
  <2> QED BY <1>5, <2>2, <2>3, <2>4, <2>5
<1>7. CASE dflt \in MergeDefaults /\ ~m.typeConflict
  <2>1. CalcSuggestedOperation(m, o, w) = <<first>> \o <<>>
    BY <1>7 DEF CalcSuggestedOperation
  <2>2. Suggested(m, o, w) = first
    BY <1>7 DEF Suggested
  <2> HIDE DEF first
  <2>3. <<first>> \o <<>> = <<first>>
    OBVIOUS
  <2> QED BY <1>5, <2>1, <2>2, <2>3
<1>8. CASE dflt \notin MergeDefaults
  <2>1. CalcSuggestedOperation(m, o, w) = <<first>>
    BY <1>8 DEF CalcSuggestedOperation
  <2>2. Suggested(m, o, w) = first
    BY <1>8 DEF Suggested
  <2> HIDE DEF first
  <2> QED BY <1>5, <2>1, <2>2
<1> QED BY <1>6, <1>7, <1>8

LEMMA ChildDefaultType ==
    ASSUME NEW o \in Operation, NEW w
    PROVE  ChildDefault(o, w) \in Operation
BY DEF ChildDefault, Operation, MergeOps, DestMergeOps

\* The last of the operations set on an item is what its last default suggests.
LEMMA LastOfFlatten ==
    ASSUME NEW S, NEW ss \in Seq(Seq(S)), Len(ss) \in Nat \ {0}, ss[Len(ss)] # <<>>
    PROVE  /\ FlattenSeq(ss) \in Seq(S) /\ Len(FlattenSeq(ss)) \in Nat \ {0}
           /\ FlattenSeq(ss)[Len(FlattenSeq(ss))] = ss[Len(ss)][Len(ss[Len(ss)])]
<1> DEFINE U == Seq(S)
           n == Len(ss) - 1
<1>1. n \in Nat /\ Len(ss) = n + 1 /\ ss \in Seq(U)
  OBVIOUS
<1>2. PICK r \in Seq(U), t \in U :
         /\ ss = Append(r, t) /\ Len(r) = n /\ ss[n + 1] = t
         /\ \A i \in 1..n : r[i] = ss[i]
  <2> HIDE DEF U, n
  <2> QED BY <1>1, FrontAndLast
<1>3. FlattenSeq(ss) = FlattenSeq(r) \o t /\ FlattenSeq(r) \in U
  BY <1>2, FlattenAppend, FlattenType
<1>4. t # <<>> /\ t \in Seq(S) /\ ss[Len(ss)] = t
  BY <1>1, <1>2
<1>5. Len(t) \in Nat \ {0}
  BY <1>4, EmptySeq
<1> DEFINE f == FlattenSeq(r)
<1>6. f \in Seq(S)
  BY <1>3
<1> HIDE DEF f
<1>7. /\ f \o t \in Seq(S) /\ Len(f \o t) = Len(f) + Len(t) /\ Len(f) \in Nat
      /\ (f \o t)[Len(f) + Len(t)] = t[Len(t)]
  BY <1>4, <1>5, <1>6, ConcatProperties, LenProperties
<1>8. FlattenSeq(ss) = f \o t
  BY <1>3 DEF f
<1> QED BY <1>4, <1>5, <1>7, <1>8

LEMMA InOrder ==
    ASSUME NEW S, NEW n \in Nat, \A k \in 1..n : (\A j \in 1..k - 1 : j \in S) => k \in S
    PROVE  \A k \in 1..n : k \in S
<1> DEFINE T == {m \in Nat : m <= n => \A j \in 1..m : j \in S}
<1>1. 0 \in T
  OBVIOUS
<1>2. ASSUME NEW m \in Nat, m \in T PROVE m + 1 \in T
  <2> SUFFICES ASSUME m + 1 <= n PROVE \A j \in 1..m + 1 : j \in S
    OBVIOUS
  <2>1. \A j \in 1..m : j \in S
    BY <1>2
  <2>2. m + 1 \in 1..n /\ (m + 1) - 1 = m
    OBVIOUS
  <2>3. m + 1 \in S
    BY <2>1, <2>2
  <2> QED BY <2>1, <2>3
<1> HIDE DEF T
<1>3. \A m \in Nat : m \in T
  BY <1>1, <1>2, SetInduction
<1> QED BY <1>3 DEF T

\* The operations set on the first m items.
IsSet(parent, info, o, w, f, m) == f = [j \in 1..m |-> SetOn(parent, info, o, w, f, j)]

LEMMA SetOnLooksUp ==
    ASSUME NEW parent, NEW n, IsForest(parent, n), NEW info, NEW o, NEW w, NEW j \in 1..n, NEW f, NEW g,
           \A i \in 1..j - 1 : f[i] = g[i]
    PROVE  SetOn(parent, info, o, w, f, j) = SetOn(parent, info, o, w, g, j)
<1>1. CASE parent[j] = 0
  BY <1>1 DEF SetOn
<1>2. CASE parent[j] # 0
  <2>1. parent[j] \in 1..j - 1
    BY <1>2 DEF IsForest
  <2>2. f[parent[j]] = g[parent[j]]
    BY <2>1
  <2> QED BY <1>2, <2>2 DEF SetOn
<1> QED BY <1>1, <1>2

LEMMA CascadeExists ==
    ASSUME NEW parent, NEW n, IsForest(parent, n), NEW info, NEW o, NEW w
    PROVE  \E f : IsSet(parent, info, o, w, f, n)
<1> DEFINE T == {m \in Nat : m <= n => \E f : IsSet(parent, info, o, w, f, m)}
<1>0. n \in Nat
  BY DEF IsForest
<1>1. 0 \in T
  <2>1. IsSet(parent, info, o, w, [j \in 1..0 |-> SetOn(parent, info, o, w, info, j)], 0)
    BY DEF IsSet
  <2> QED BY <2>1
<1>2. ASSUME NEW m \in Nat, m \in T PROVE m + 1 \in T
  <2> SUFFICES ASSUME m + 1 <= n PROVE \E f : IsSet(parent, info, o, w, f, m + 1)
    OBVIOUS
  <2>1. PICK f : IsSet(parent, info, o, w, f, m)
    BY <1>0, <1>2
  <2> DEFINE g == [j \in 1..m + 1 |-> SetOn(parent, info, o, w, f, j)]
  <2>2. \A i \in 1..m : f[i] = g[i]
    BY <2>1 DEF IsSet
  <2>3. ASSUME NEW j \in 1..m + 1 PROVE SetOn(parent, info, o, w, f, j) = SetOn(parent, info, o, w, g, j)
    <3>1. j \in 1..n /\ \A i \in 1..j - 1 : i \in 1..m
      BY <1>0
    <3> HIDE DEF g
    <3>2. \A i \in 1..j - 1 : f[i] = g[i]
      BY <2>2, <3>1
    <3> QED BY <3>1, <3>2, SetOnLooksUp
  <2>4. g = [j \in 1..m + 1 |-> SetOn(parent, info, o, w, g, j)]
    <3> DEFINE h == g
    <3>1. \A j \in 1..m + 1 : SetOn(parent, info, o, w, f, j) = SetOn(parent, info, o, w, h, j)
      BY <2>3
    <3>2. h = [j \in 1..m + 1 |-> SetOn(parent, info, o, w, f, j)]
      OBVIOUS
    <3> HIDE DEF h
    <3>3. h = [j \in 1..m + 1 |-> SetOn(parent, info, o, w, h, j)]
      BY <3>1, <3>2
    <3> QED BY <3>3 DEF h
  <2> QED BY <2>4 DEF IsSet
<1> HIDE DEF T
<1>3. \A m \in Nat : m \in T
  BY <1>1, <1>2, SetInduction
<1> QED BY <1>0, <1>3 DEF T

LEMMA SetAllIsSet ==
    ASSUME NEW parent, NEW n, IsForest(parent, n), NEW info, NEW o, NEW w
    PROVE  IsSet(parent, info, o, w, SetAll(parent, info, o, w), n)
<1> DEFINE start == [j \in {i \in DOMAIN parent : parent[i] = 0} |-> CalcSuggestedOperation(info[j], o, w)]
           Body(f, j) == IF j \in DOMAIN start THEN start[j]
                         ELSE IF parent[j] = 0 THEN <<>>
                         ELSE LET p == f[parent[j]]
                              IN FlattenSeq([k \in DOMAIN p |->
                                     CalcSuggestedOperation(info[j], ChildDefault(p[k], w), w)])
           Is(f) == f = [j \in DOMAIN parent |-> Body(f, j)]
           ops == CHOOSE f : Is(f)
<1>1. DOMAIN parent = 1..n
  BY DEF IsForest
<1>2. \A f : \A j \in 1..n : Body(f, j) = SetOn(parent, info, o, w, f, j)
  BY <1>1 DEF SetOn
<1>3. SetAll(parent, info, o, w) = ops
  <2>1. SetAll(parent, info, o, w) = Cascade(parent, info, start, w)
    BY DEF SetAll
  <2> HIDE DEF start
  <2>2. Cascade(parent, info, start, w) = ops
    BY DEF Cascade
  <2> QED BY <2>1, <2>2
<1> HIDE DEF Body
<1>4. \A f : Is(f) <=> IsSet(parent, info, o, w, f, n)
  BY <1>1, <1>2 DEF IsSet
<1>5. \E f : Is(f)
  BY <1>4, CascadeExists
<1>6. Is(ops)
  BY <1>5
<1> HIDE DEF ops, Is
<1> QED BY <1>3, <1>4, <1>6

\* The operation that is left on item j.
Final(ops, j) == ops[j][Len(ops[j])]

LEMMA SetOnLast ==
    ASSUME NEW parent, NEW n, IsForest(parent, n), NEW info, NEW o \in Operation, NEW w, NEW ops,
           NEW j \in 1..n, parent[j] # 0 => ops[parent[j]] \in Seq(Operation) /\ Len(ops[parent[j]]) \in Nat \ {0},
           NEW new, new = SetOn(parent, info, o, w, ops, j)
    PROVE  /\ new \in Seq(Operation) /\ Len(new) \in Nat \ {0}
           /\ new[Len(new)] = Suggested(info[j], IF parent[j] = 0 THEN o
                                                 ELSE ChildDefault(Final(ops, parent[j]), w), w)
<1>1. CASE parent[j] = 0
  <2>1. new = CalcSuggestedOperation(info[j], o, w)
    BY <1>1 DEF SetOn
  <2>2. \A m : LET q == CalcSuggestedOperation(m, o, w)
              IN q \in Seq(Operation) /\ Len(q) \in Nat \ {0} /\ q[Len(q)] = Suggested(m, o, w)
    BY SuggestedIsOperation
  <2>3. /\ new \in Seq(Operation) /\ Len(new) \in Nat \ {0}
        /\ new[Len(new)] = Suggested(info[j], o, w)
    BY <2>1, <2>2
  <2> QED BY <1>1, <2>3
<1>2. CASE parent[j] # 0
  <2> DEFINE p == ops[parent[j]]
             U == Seq(Operation)
             ss == [k \in DOMAIN p |-> CalcSuggestedOperation(info[j], ChildDefault(p[k], w), w)]
  <2>1. p \in Seq(Operation) /\ Len(p) \in Nat \ {0}
    BY <1>2
  <2>2. DOMAIN p = 1..Len(p) /\ \A k \in 1..Len(p) : p[k] \in Operation
    BY <2>1, ElementOfSeq, LenProperties
  <2>3. new = FlattenSeq(ss)
    BY <1>2 DEF SetOn
  <2>4. Final(ops, parent[j]) = p[Len(p)]
    BY DEF Final
  <2> HIDE DEF p
  <2>5. \A k \in 1..Len(p) : LET q == CalcSuggestedOperation(info[j], ChildDefault(p[k], w), w)
                             IN q \in U /\ Len(q) \in Nat \ {0}
                                /\ q[Len(q)] = Suggested(info[j], ChildDefault(p[k], w), w)
    BY <2>2, SuggestedIsOperation, ChildDefaultType
  <2>6. ss \in [1..Len(p) -> U] /\ Len(p) \in 1..Len(p)
    BY <2>1, <2>2, <2>5
  <2>7. ss[Len(p)] = CalcSuggestedOperation(info[j], ChildDefault(p[Len(p)], w), w)
    BY <2>2, <2>6
  <2>8. Len(ss[Len(p)]) \in Nat \ {0} /\ ss[Len(p)][Len(ss[Len(p)])] = Suggested(info[j], ChildDefault(p[Len(p)], w), w)
    BY <2>5, <2>6, <2>7
  <2> HIDE DEF ss
  <2>9. ss \in Seq(U) /\ Len(ss) = Len(p)
    <3> HIDE DEF U
    <3>1. ss \in Seq(U)
      BY <2>1, <2>6, SeqDef
    <3> QED BY <2>1, <2>6, <3>1, LenProperties
  <2>10. ss[Len(ss)] # <<>>
    <3> DEFINE t == ss[Len(p)]
    <3>1. Len(t) \in Nat \ {0}
      BY <2>8
    <3>2. ss[Len(ss)] = t
      BY <2>9
    <3> HIDE DEF t
    <3>3. t # <<>>
      BY <3>1
    <3> QED BY <3>2, <3>3
  <2>11. /\ FlattenSeq(ss) \in Seq(Operation) /\ Len(FlattenSeq(ss)) \in Nat \ {0}
         /\ FlattenSeq(ss)[Len(FlattenSeq(ss))] = ss[Len(ss)][Len(ss[Len(ss)])]
    BY <2>1, <2>9, <2>10, LastOfFlatten
  <2> QED BY <1>2, <2>3, <2>4, <2>8, <2>9, <2>11
<1> QED BY <1>1, <1>2

LEMMA CascadeLast ==
    ASSUME NEW parent, NEW n, IsForest(parent, n), NEW info, NEW o \in Operation, NEW w, NEW ops,
           IsSet(parent, info, o, w, ops, n)
    PROVE  \A j \in 1..n :
              /\ ops[j] \in Seq(Operation) /\ Len(ops[j]) \in Nat \ {0}
              /\ Final(ops, j) = Suggested(info[j], IF parent[j] = 0 THEN o
                                                    ELSE ChildDefault(Final(ops, parent[j]), w), w)
<1> DEFINE Good(j) == ops[j] \in Seq(Operation) /\ Len(ops[j]) \in Nat \ {0}
           T == {j \in 1..n : Good(j)}
<1>1. n \in Nat /\ \A j \in 1..n : parent[j] \in 0..j - 1
  BY DEF IsForest
<1>2. \A j \in 1..n : ops[j] = SetOn(parent, info, o, w, ops, j)
  BY DEF IsSet
<1>3. ASSUME NEW j \in 1..n, parent[j] # 0 => Good(parent[j])
      PROVE  /\ Good(j)
             /\ Final(ops, j) = Suggested(info[j], IF parent[j] = 0 THEN o
                                                   ELSE ChildDefault(Final(ops, parent[j]), w), w)
  <2> DEFINE new == ops[j]
  <2>1. new = SetOn(parent, info, o, w, ops, j)
    BY <1>2
  <2> HIDE DEF new
  <2>2. /\ new \in Seq(Operation) /\ Len(new) \in Nat \ {0}
        /\ new[Len(new)] = Suggested(info[j], IF parent[j] = 0 THEN o
                                              ELSE ChildDefault(Final(ops, parent[j]), w), w)
    BY <1>3, <2>1, SetOnLast
  <2> QED BY <2>2 DEF new, Final
<1>4. ASSUME NEW k \in 1..n, \A j \in 1..k - 1 : j \in T PROVE k \in T
  <2>1. parent[k] # 0 => parent[k] \in 1..k - 1
    BY <1>1
  <2>2. parent[k] # 0 => Good(parent[k])
    BY <1>4, <2>1
  <2> QED BY <1>3, <2>2
<1> HIDE DEF T
<1>5. \A k \in 1..n : k \in T
  BY <1>1, <1>4, InOrder
<1>6. \A k \in 1..n : Good(k)
  BY <1>5 DEF T
<1>7. \A j \in 1..n : parent[j] # 0 => parent[j] \in 1..n
  BY <1>1
<1> QED BY <1>3, <1>6, <1>7

\* What the top level has, and every item of an item that has it, all items have.
LEMMA CascadeKeeps ==
    ASSUME NEW parent, NEW n, IsForest(parent, n), NEW info, NEW o \in Operation, NEW w, NEW ops,
           IsSet(parent, info, o, w, ops, n), NEW F,
           \A j \in 1..n : parent[j] = 0 => <<j, Suggested(info[j], o, w)>> \in F,
           \A j \in 1..n, p \in Operation :
               parent[j] # 0 /\ <<parent[j], p>> \in F
                   => <<j, Suggested(info[j], ChildDefault(p, w), w)>> \in F
    PROVE  \A j \in 1..n : <<j, Final(ops, j)>> \in F
<1> DEFINE T == {j \in 1..n : <<j, Final(ops, j)>> \in F}
<1>1. \A j \in 1..n :
         /\ ops[j] \in Seq(Operation) /\ Len(ops[j]) \in Nat \ {0}
         /\ Final(ops, j) = Suggested(info[j], IF parent[j] = 0 THEN o
                                               ELSE ChildDefault(Final(ops, parent[j]), w), w)
  BY CascadeLast
<1>2. \A j \in 1..n : Final(ops, j) \in Operation
  <2> SUFFICES ASSUME NEW j \in 1..n PROVE Final(ops, j) \in Operation
    OBVIOUS
  <2> DEFINE q == ops[j]
  <2>1. q \in Seq(Operation) /\ Len(q) \in Nat \ {0}
    BY <1>1
  <2> HIDE DEF q
  <2>2. q[Len(q)] \in Operation
    BY <2>1
  <2> QED BY <2>2 DEF q, Final
<1>3. n \in Nat /\ \A j \in 1..n : parent[j] # 0 => parent[j] \in 1..j - 1 /\ parent[j] \in 1..n
  BY DEF IsForest
<1>4. ASSUME NEW j \in 1..n, \A k \in 1..j - 1 : k \in T PROVE j \in T
  <2>1. CASE parent[j] = 0
    BY <1>1, <2>1
  <2>2. CASE parent[j] # 0
    <3> DEFINE p == Final(ops, parent[j])
    <3>1. parent[j] \in T
      BY <1>3, <1>4, <2>2
    <3>2. p \in Operation /\ <<parent[j], p>> \in F
      BY <1>2, <3>1
    <3>3. Final(ops, j) = Suggested(info[j], ChildDefault(p, w), w)
      BY <1>1, <2>2
    <3> HIDE DEF p
    <3>4. <<j, Suggested(info[j], ChildDefault(p, w), w)>> \in F
      BY <2>2, <3>2
    <3> QED BY <3>3, <3>4
  <2> QED BY <2>1, <2>2
<1> HIDE DEF T
<1>5. \A j \in 1..n : j \in T
  BY <1>3, <1>4, InOrder
<1> QED BY <1>5 DEF T

-----------------------------------------------------------------------------
(* What the flags of fully compared and shown folders say of the contents. *)

Alike(e, p) == \A s, u \in p : e.content[s] = e.content[u]

\* The flags of the items after a scan that was not cancelled, all rows shown.
Compared(t, eq, w, n) ==
    /\ FolderTree(t, w) /\ n \in Nat /\ n <= Len(t)
    /\ Flags(t, eq, n)
    /\ FoldersRight(t, eq, ShowOptions, w, n)
    /\ FilesScanned(t, eq, n)

LEMMA PairsOfSides ==
    /\ \A p \in Pairs : p \subseteq Sides
    /\ AB \in Pairs /\ AC \in Pairs /\ BC \in Pairs
    /\ \A e : /\ Alike(e, AB) <=> e.content["A"] = e.content["B"]
              /\ Alike(e, AC) <=> e.content["A"] = e.content["C"]
              /\ Alike(e, BC) <=> e.content["B"] = e.content["C"]
<1>1. /\ \A p \in Pairs : p \subseteq Sides
      /\ AB \in Pairs /\ AC \in Pairs /\ BC \in Pairs
  BY DEF Pairs, Sides, AB, AC, BC
<1>2. \A e : Alike(e, AB) <=> e.content["A"] = e.content["B"]
  BY DEF Alike, AB
<1>3. \A e : Alike(e, AC) <=> e.content["A"] = e.content["C"]
  BY DEF Alike, AC
<1>4. \A e : Alike(e, BC) <=> e.content["B"] = e.content["C"]
  BY DEF Alike, BC
<1> QED BY <1>1, <1>2, <1>3, <1>4

\* Two files are flagged equal exactly if they are.
LEMMA FilesAreCompared ==
    ASSUME NEW e, ~HasDir(e), NEW p \in Pairs
    PROVE  p \in ComparedEqual(e, {}) <=> (\A s \in p : ExistsIn(e, s)) /\ Alike(e, p)
<1>1. \A s \in Sides : ~IsDir(e, s)
  BY DEF HasDir
<1>2. \A q \in Pairs : FastFileComparison(e, q, q \in {}) <=> Alike(e, q)
  BY <1>1, PairsOfSides DEF FastFileComparison, Alike
<1>3. \A q \in Pairs : SameKind(e, q)
  BY <1>1, PairsOfSides DEF SameKind, IsDir
<1> DEFINE Both(q) == \A s \in q : ExistsIn(e, s)
           Same(q) == Both(q) /\ Alike(e, q)
<1>4. \A q \in Pairs : q \in ComparedEqual(e, {}) <=>
          IF q # BC THEN Same(q) ELSE Both(BC) /\ ((Same(AB) /\ Same(AC)) \/ Alike(e, BC))
  <2>1. ~IsDir(e, "A") /\ ~IsDir(e, "B") /\ AB \in Pairs /\ AC \in Pairs /\ BC \in Pairs
    BY <1>1, PairsOfSides DEF Sides
  <2> QED BY <1>2, <1>3, <2>1 DEF ComparedEqual
<1>5. Alike(e, AB) /\ Alike(e, AC) => Alike(e, BC)
  BY PairsOfSides
<1> QED BY <1>4, <1>5

\* What is flagged equal is, but for a file that is a folder on another side.
LEMMA FlaggedIsAlike ==
    ASSUME NEW t, NEW eq, NEW w, NEW n, Compared(t, eq, w, n), NEW i \in 1..n, NEW p \in eq[i],
           ~TakenForEqual(t[i])
    PROVE  p \in Pairs /\ Alike(t[i], p)
<1>1. p \in Pairs /\ (HasDir(t[i]) => p \in KindPairs(t[i]))
  BY DEF Compared, Flags
<1>2. CASE HasDir(t[i])
  BY <1>1, <1>2 DEF TakenForEqual, KindPairs, Alike
<1>3. CASE ~HasDir(t[i])
  <2>1. eq[i] = ComparedEqual(t[i], {})
    BY <1>3 DEF Compared, FilesScanned
  <2> QED BY <1>1, <1>3, <2>1, FilesAreCompared
<1> QED BY <1>1, <1>2, <1>3

LEMMA AllAreVisible ==
    ASSUME NEW e, Existing(e) # {}, NEW eq, NEW w, ~AllEqual(eq, w)
    PROVE  Separates(e, eq, ShowOptions, w)
<1>1. CASE Cardinality(Existing(e)) >= 2
  BY <1>1 DEF Separates, Visible, ShowOptions
<1>2. CASE ~(Cardinality(Existing(e)) >= 2)
  <2>1. PICK s \in Sides : OnlyIn(e, s)
    BY <1>2, OnOneSideOrMore
  <2>2. s \in ShowOptions
    BY DEF Sides, ShowOptions
  <2> QED BY <2>1, <2>2 DEF Separates, Visible
<1> QED BY <1>1, <1>2

\* Item j and the items below it.
Under(n, j) == {j} \cup {i \in 1..n : j \in Above(i)}

\* Three folders: what is flagged equal is the same all the way down.
LEMMA FlaggedIsAlikeBelow ==
    ASSUME NEW t, NEW eq, NEW w, NEW n, Compared(t, eq, w, n), w.threeWay,
           NEW j \in 1..n, NEW p \in eq[j], NEW i \in Under(n, j), ~TakenForEqual(t[i])
    PROVE  Alike(t[i], p)
<1>1. CASE i = j
  BY <1>1, FlaggedIsAlike
<1>2. CASE i # j
  <2>1. i \in 1..n /\ j \in Above(i)
    BY <1>2 DEF Under
  <2>2. FolderTree(t, w) /\ n \in Nat /\ n <= Len(t) /\ Len(t) \in Nat
    BY FoldersAssumption DEF Compared, FolderTree
  <2>3. i \in 1..Len(t)
    BY <2>1, <2>2
  <2>4. HasDir(t[j]) /\ Existing(t[i]) # {}
    BY <2>1, <2>2, <2>3, FoldersAbove
  <2>5. FolderRight(t, eq, ShowOptions, w, j, n)
    BY <2>4 DEF Compared, FoldersRight
  <2>6. CASE ~AllEqual(eq[i], w)
    <3>1. p \in eq[i]
      BY <2>1, <2>4, <2>5, <2>6, AllAreVisible DEF FolderRight
    <3> QED BY <2>1, <3>1, FlaggedIsAlike
  <2>7. CASE AllEqual(eq[i], w)
    <3>1. AB \in eq[i] /\ AC \in eq[i]
      BY <2>7 DEF AllEqual
    <3>2. Alike(t[i], AB) /\ Alike(t[i], AC)
      BY <2>1, <3>1, FlaggedIsAlike
    <3>3. \A s, u \in Sides : t[i].content[s] = t[i].content[u]
      BY <3>2, PairsOfSides DEF Sides
    <3>4. p \subseteq Sides
      BY PairsOfSides DEF Compared, Flags
    <3> QED BY <3>3, <3>4 DEF Alike
  <2> QED BY <2>6, <2>7
<1> QED BY <1>1, <1>2

\* What is not there is not there all the way down.
LEMMA MissingBelow ==
    ASSUME NEW t, NEW w, FolderTree(t, w), NEW n \in Nat, n <= Len(t), NEW j \in 1..n, NEW s \in Sides,
           ~ExistsIn(t[j], s), NEW i \in Under(n, j)
    PROVE  ~ExistsIn(t[i], s)
<1>1. CASE i = j
  BY <1>1
<1>2. CASE i # j
  <2>1. i \in 1..Len(t) /\ j \in Above(i)
    BY <1>2, FoldersAssumption DEF Under, FolderTree
  <2>2. ExistsIn(t[i], s) => IsDir(t[j], s)
    BY <2>1, FoldersAbove
  <2> QED BY <2>2 DEF IsDir, ExistsIn
<1> QED BY <1>1, <1>2

-----------------------------------------------------------------------------
(* The proposal for three folders. *)

ThreeWayOps == {NoOp, "eCopyBToDest", "eCopyCToDest", "eDeleteFromDest", "eMergeABCToDest",
                "eChangedAndDeleted", "eConflictingFileTypes"}

\* Operation o gives item e what a three-way merge would.
FitsItem(e, w, o) ==
    /\ o = NoOp => w.dest # "other" /\ Alike(e, AB) /\ Alike(e, AC)
    /\ o = "eCopyBToDest" => Merged(e) = e.content["B"]
    /\ o = "eCopyCToDest" => Merged(e) = e.content["C"]
    /\ o = "eDeleteFromDest" => Merged(e) = "none"

\* Operation o suits item j and, passed on, all items below it.
Fits(t, w, n, j, o) ==
    /\ o \in ThreeWayOps
    /\ \A i \in Under(n, j) : ~TakenForEqual(t[i]) => FitsItem(t[i], w, o)
    /\ o = "eMergeABCToDest" /\ ~HasDir(t[j]) => Merged(t[j]) = "conflict"

\* A copy or a deletion of a folder suits its items, too.
LEMMA CopyFitsBelow ==
    ASSUME NEW t, NEW w, FolderTree(t, w), NEW n \in Nat, n <= Len(t),
           NEW k \in 1..n, NEW j \in 1..n, k \in Above(j),
           NEW o, Fits(t, w, n, k, o), o \notin {"eMergeABCToDest", "eConflictingFileTypes"},
           NEW m, m.inB <=> ExistsIn(t[j], "B"), m.inC <=> ExistsIn(t[j], "C")
    PROVE  Fits(t, w, n, j, CopySuggestion(m, o))
<1>1. \A i \in Under(n, j) : i \in Under(n, k)
  <2> SUFFICES ASSUME NEW i \in 1..n, j \in Above(i) PROVE k \in Above(i)
    BY DEF Under
  <2>1. i \in Items
    BY FoldersAssumption DEF FolderTree
  <2> QED BY <2>1, AboveWell
<1>2. \A i \in Under(n, j) : ~TakenForEqual(t[i]) => FitsItem(t[i], w, o)
  BY <1>1 DEF Fits
<1>3. o \in {NoOp, "eCopyBToDest", "eCopyCToDest", "eDeleteFromDest", "eChangedAndDeleted"}
  BY DEF Fits, ThreeWayOps
<1>4. CASE CopySuggestion(m, o) = o
  BY <1>2, <1>3, <1>4 DEF Fits, ThreeWayOps
<1>5. CASE o = "eCopyBToDest" /\ ~m.inB
  <2>1. CopySuggestion(m, o) = "eDeleteFromDest"
    BY <1>5 DEF CopySuggestion
  <2>2. "B" \in Sides
    BY DEF Sides
  <2>3. \A i \in Under(n, j) : t[i].content["B"] = "none"
    BY <1>5, <2>2, MissingBelow DEF ExistsIn
  <2>4. \A i \in Under(n, j) : ~TakenForEqual(t[i]) => FitsItem(t[i], w, "eDeleteFromDest")
    BY <1>2, <1>5, <2>3 DEF FitsItem, NoOp
  <2> QED BY <2>1, <2>4 DEF Fits, ThreeWayOps
<1>6. CASE o = "eCopyCToDest" /\ ~m.inC
  <2>1. CopySuggestion(m, o) = "eDeleteFromDest"
    BY <1>6 DEF CopySuggestion
  <2>2. "C" \in Sides
    BY DEF Sides
  <2>3. \A i \in Under(n, j) : t[i].content["C"] = "none"
    BY <1>6, <2>2, MissingBelow DEF ExistsIn
  <2>4. \A i \in Under(n, j) : ~TakenForEqual(t[i]) => FitsItem(t[i], w, "eDeleteFromDest")
    BY <1>2, <1>6, <2>3 DEF FitsItem, NoOp
  <2> QED BY <2>1, <2>4 DEF Fits, ThreeWayOps
<1>7. CopySuggestion(m, o) = o \/ (o = "eCopyBToDest" /\ ~m.inB) \/ (o = "eCopyCToDest" /\ ~m.inC)
  BY <1>3 DEF CopySuggestion, NoOp
<1> QED BY <1>4, <1>5, <1>6, <1>7

LEMMA WhereItExists ==
    ASSUME NEW m
    PROVE  /\ Exists(m, {"A", "B", "C"}) <=> m.inA /\ m.inB /\ m.inC
           /\ Exists(m, {"A", "B"}) <=> m.inA /\ m.inB /\ ~m.inC
           /\ Exists(m, {"A", "C"}) <=> m.inA /\ ~m.inB /\ m.inC
           /\ Exists(m, {"B", "C"}) <=> ~m.inA /\ m.inB /\ m.inC
           /\ Exists(m, {"C"}) <=> ~m.inA /\ ~m.inB /\ m.inC
           /\ Exists(m, {"B"}) <=> ~m.inA /\ m.inB /\ ~m.inC
           /\ Exists(m, {"A"}) <=> m.inA /\ ~m.inB /\ ~m.inC
<1> DEFINE there == {d \in {"A", "B", "C"} : \/ d = "A" /\ m.inA
                                             \/ d = "B" /\ m.inB
                                             \/ d = "C" /\ m.inC}
<1>1. \A dirs : Exists(m, dirs) <=> dirs = there
  BY Zenon DEF Exists
<1>2. /\ ("A" \in there) <=> m.inA
      /\ ("B" \in there) <=> m.inB
      /\ ("C" \in there) <=> m.inC
      /\ \A d \in there : d \in {"A", "B", "C"}
  OBVIOUS
<1> HIDE DEF there
<1> QED BY <1>1, <1>2

\* A merge suggests what suits an item and all below it.
LEMMA MergeFitsBelow ==
    ASSUME NEW t, NEW eq, NEW w, NEW n, Compared(t, eq, w, n), w.threeWay, NEW age,
           NEW j \in 1..n
    PROVE  Fits(t, w, n, j, Suggested(Info(t[j], eq[j], age), "eMergeABCToDest", Situation(w)))
<1> DEFINE e == t[j]
           m == Info(t[j], eq[j], age)
           o == ThreeWaySuggestion(m, Situation(w))
           a(i) == t[i].content["A"]
           b(i) == t[i].content["B"]
           c(i) == t[i].content["C"]
           U == {i \in Under(n, j) : ~TakenForEqual(t[i])}
<1>1. FolderTree(t, w) /\ n \in Nat /\ n <= Len(t) /\ j \in 1..Len(t)
  BY FoldersAssumption DEF Compared, FolderTree
<1>2. Existing(e) # {}
  BY <1>1, FoldersAbove
<1>3. /\ m.inA <=> ExistsIn(e, "A")
      /\ m.inB <=> ExistsIn(e, "B")
      /\ m.inC <=> ExistsIn(e, "C")
      /\ m.eqAB <=> AB \in eq[j]
      /\ m.eqAC <=> AC \in eq[j]
      /\ m.eqBC <=> BC \in eq[j]
      /\ m.typeConflict <=> ConflictingFileTypes(e)
  BY DEF Info
<1>4. \A i \in U : /\ m.eqAB => a(i) = b(i)
                   /\ m.eqAC => a(i) = c(i)
                   /\ m.eqBC => b(i) = c(i)
  BY <1>3, FlaggedIsAlikeBelow, PairsOfSides
<1>5. \A i \in U : /\ ~m.inA => a(i) = "none"
                   /\ ~m.inB => b(i) = "none"
                   /\ ~m.inC => c(i) = "none"
  BY <1>1, <1>3, MissingBelow DEF Sides, ExistsIn
<1>6. m.inA \/ m.inB \/ m.inC
  BY <1>2, <1>3 DEF Existing, Sides
<1>7. \A i \in U : /\ Alike(t[i], AB) <=> a(i) = b(i)
                   /\ Alike(t[i], AC) <=> a(i) = c(i)
                   /\ Merged(t[i]) = IF b(i) = c(i) \/ a(i) = b(i) THEN c(i) ELSE IF a(i) = c(i) THEN b(i) ELSE "conflict"
  BY PairsOfSides DEF Merged
<1>8. Situation(w).threeWay /\ (Situation(w).otherDest <=> w.dest = "other")
  BY DEF Situation
<1>9. CASE m.typeConflict
  <2>1. Suggested(m, "eMergeABCToDest", Situation(w)) = "eConflictingFileTypes"
    BY <1>8, <1>9 DEF Suggested, Recovered, MergeDefaults, ManualOps, DestMergeOps
  <2> QED BY <2>1 DEF Fits, FitsItem, ThreeWayOps, NoOp
<1>10. CASE ~m.typeConflict
  <2>1. Suggested(m, "eMergeABCToDest", Situation(w)) = o
    BY <1>8, <1>10 DEF Suggested, Recovered, MergeDefaults, ManualOps, DestMergeOps
  <2>2. o \in ThreeWayOps
    BY DEF ThreeWaySuggestion, ThreeWayOps
  <2>3. ASSUME NEW i \in U PROVE FitsItem(t[i], w, o)
    <3> HIDE DEF m, U
    <3>1. o = NoOp => w.dest # "other" /\ m.eqAB /\ m.eqAC
      BY <1>6, <1>8, WhereItExists DEF ThreeWaySuggestion, NoOp
    <3>2. o = "eCopyBToDest" => m.eqAC \/ (~m.inA /\ ~m.inC)
      BY WhereItExists DEF ThreeWaySuggestion, NoOp
    <3>3. o = "eCopyCToDest" => m.eqAB \/ m.eqBC \/ (~m.inA /\ ~m.inB)
      BY WhereItExists DEF ThreeWaySuggestion, NoOp
    <3>4. o = "eDeleteFromDest" => (~m.inC /\ (m.eqAB \/ ~m.inB)) \/ (~m.inB /\ m.eqAC)
      BY WhereItExists DEF ThreeWaySuggestion, NoOp
    <3> HIDE DEF o
    <3> QED BY <1>4, <1>5, <1>7, <2>3, <3>1, <3>2, <3>3, <3>4 DEF FitsItem
  <2>4. ASSUME o = "eMergeABCToDest", ~HasDir(e) PROVE Merged(e) = "conflict"
    <3>1. /\ m.eqAB <=> m.inA /\ m.inB /\ a(j) = b(j)
          /\ m.eqAC <=> m.inA /\ m.inC /\ a(j) = c(j)
          /\ m.eqBC <=> m.inB /\ m.inC /\ b(j) = c(j)
      <4>1. eq[j] = ComparedEqual(e, {})
        BY <2>4 DEF Compared, FilesScanned
      <4>2. \A p \in Pairs : p \in eq[j] <=> (\A s \in p : ExistsIn(e, s)) /\ Alike(e, p)
        BY <2>4, <4>1, FilesAreCompared
      <4>3. /\ (\A s \in AB : ExistsIn(e, s)) <=> m.inA /\ m.inB
            /\ (\A s \in AC : ExistsIn(e, s)) <=> m.inA /\ m.inC
            /\ (\A s \in BC : ExistsIn(e, s)) <=> m.inB /\ m.inC
        BY <1>3 DEF AB, AC, BC
      <4> HIDE DEF m
      <4> QED BY <1>3, <4>2, <4>3, PairsOfSides
    <3>2. /\ m.inA <=> a(j) # "none"
          /\ m.inB <=> b(j) # "none"
          /\ m.inC <=> c(j) # "none"
      BY <1>3 DEF ExistsIn
    <3> HIDE DEF m
    <3>3. ~m.eqAB /\ ~m.eqAC /\ ~m.eqBC /\ m.inB /\ m.inC
      BY <2>4, <3>1, WhereItExists DEF ThreeWaySuggestion, NoOp
    <3> QED BY <3>1, <3>2, <3>3 DEF Merged
  <2> QED BY <2>1, <2>2, <2>3, <2>4 DEF Fits
<1> QED BY <1>9, <1>10

\* The automatic choice for the first n items, with the default "o".
Proposal(t, eq, w, n, parent, age, info, ops, o) ==
    /\ parent = [i \in 1..n |-> Parent[i]]
    /\ info = [i \in 1..n |-> Info(t[i], eq[i], age[i])]
    /\ ops = SetAll(parent, info, o, Situation(w))

LEMMA ProposalCascades ==
    ASSUME NEW t, NEW eq, NEW w, NEW n, Compared(t, eq, w, n),
           NEW parent, NEW age, NEW info, NEW ops, NEW o \in Operation,
           Proposal(t, eq, w, n, parent, age, info, ops, o)
    PROVE  /\ IsForest(parent, n) /\ IsSet(parent, info, o, Situation(w), ops, n)
           /\ DOMAIN ops = 1..n /\ \A j \in 1..n : ops[j] # <<>>
           /\ \A j \in 1..n : /\ info[j] = Info(t[j], eq[j], age[j])
                              /\ parent[j] # 0 => parent[j] \in 1..n /\ parent[j] \in Above(j)
<1>1. FolderTree(t, w) /\ n \in Nat /\ n <= Len(t) /\ \A j \in 1..n : j \in 1..Len(t) /\ j \in Items
  BY FoldersAssumption DEF Compared, FolderTree
<1>2. \A j \in 1..n : parent[j] = 0 \/ (parent[j] \in Above(j) /\ parent[j] \in 1..j - 1)
  BY <1>1, FoldersAssumption, FoldersAbove DEF Proposal
<1>3. IsForest(parent, n)
  <2>1. \A j \in 1..n : parent[j] \in Nat /\ parent[j] < j
    BY <1>2
  <2> QED BY <1>1, <2>1 DEF IsForest, Proposal
<1>4. IsSet(parent, info, o, Situation(w), ops, n)
  <2>1. ops = SetAll(parent, info, o, Situation(w))
    BY DEF Proposal
  <2> QED BY <1>3, <2>1, SetAllIsSet
<1>5. DOMAIN ops = 1..n
  BY <1>4 DEF IsSet
<1>6. \A j \in 1..n : ops[j] # <<>>
  <2> DEFINE s == Situation(w)
  <2>1. IsSet(parent, info, o, s, ops, n)
    BY <1>4
  <2> HIDE DEF s
  <2>2. \A j \in 1..n :
           /\ ops[j] \in Seq(Operation) /\ Len(ops[j]) \in Nat \ {0}
           /\ Final(ops, j) = Suggested(info[j], IF parent[j] = 0 THEN o
                                                 ELSE ChildDefault(Final(ops, parent[j]), s), s)
    BY <1>3, <2>1, CascadeLast
  <2>3. Len(<<>>) = 0
    OBVIOUS
  <2> QED BY <2>2, <2>3
<1>7. \A j \in 1..n : info[j] = Info(t[j], eq[j], age[j])
  BY DEF Proposal
<1>8. \A j \in 1..n : parent[j] # 0 => parent[j] \in 1..n /\ parent[j] \in Above(j)
  BY <1>1, <1>2
<1> QED BY <1>3, <1>4, <1>5, <1>6, <1>7, <1>8

\* The automatic choice suits every item.
LEMMA ProposalFits ==
    ASSUME NEW t, NEW eq, NEW w, NEW n, Compared(t, eq, w, n), w.threeWay,
           NEW parent, NEW age, NEW info, NEW ops,
           Proposal(t, eq, w, n, parent, age, info, ops, "eMergeABCToDest")
    PROVE  \A j \in 1..n : Fits(t, w, n, j, Final(ops, j))
<1> DEFINE o == "eMergeABCToDest"
           s == Situation(w)
           F == {z \in (1..n) \X Operation : Fits(t, w, n, z[1], z[2])}
<1>1. o \in Operation /\ s.threeWay
  BY DEF Operation, MergeOps, DestMergeOps, Situation
<1>2. /\ IsForest(parent, n) /\ IsSet(parent, info, o, s, ops, n)
      /\ \A j \in 1..n : /\ info[j] = Info(t[j], eq[j], age[j])
                         /\ parent[j] # 0 => parent[j] \in 1..n /\ parent[j] \in Above(j)
  BY <1>1, ProposalCascades
<1>3. FolderTree(t, w) /\ n \in Nat /\ n <= Len(t)
  BY DEF Compared
<1>4. \A j \in 1..n : Fits(t, w, n, j, Suggested(info[j], o, s))
  BY <1>2, MergeFitsBelow
<1>5. ASSUME NEW j \in 1..n, NEW p \in Operation, parent[j] # 0, Fits(t, w, n, parent[j], p)
      PROVE  Fits(t, w, n, j, Suggested(info[j], ChildDefault(p, s), s))
  <2> DEFINE k == parent[j]
             m == info[j]
  <2>1. k \in 1..n /\ k \in Above(j)
    BY <1>2, <1>5
  <2>2. p \in ThreeWayOps
    BY <1>5 DEF Fits
  <2>3. CASE p \in {o, "eConflictingFileTypes"}
    <3>1. ChildDefault(p, s) = o
      BY <1>1, <2>3 DEF ChildDefault
    <3> QED BY <1>4, <3>1
  <2>4. CASE p \notin {o, "eConflictingFileTypes"}
    <3>1. ChildDefault(p, s) = p
      BY <2>4 DEF ChildDefault
    <3>2. Suggested(m, p, s) = CopySuggestion(m, p)
      BY <2>2, <2>4 DEF Suggested, Recovered, MergeDefaults, ManualOps, DestMergeOps, SyncMergeOps,
                        ThreeWayOps, NoOp
    <3>3. (m.inB <=> ExistsIn(t[j], "B")) /\ (m.inC <=> ExistsIn(t[j], "C"))
      <4>1. m = Info(t[j], eq[j], age[j])
        BY <1>2
      <4> HIDE DEF m
      <4> QED BY <4>1 DEF Info
    <3>4. p \notin {"eMergeABCToDest", "eConflictingFileTypes"} /\ Fits(t, w, n, k, p)
      BY <1>5, <2>4
    <3> HIDE DEF m, k
    <3>5. Fits(t, w, n, j, CopySuggestion(m, p))
      BY <1>3, <2>1, <3>3, <3>4, CopyFitsBelow
    <3> QED BY <3>1, <3>2, <3>5 DEF m
  <2> QED BY <2>3, <2>4
<1> HIDE DEF o, s
<1>6. \A j \in 1..n : parent[j] = 0 => <<j, Suggested(info[j], o, s)>> \in F
  BY <1>1, <1>4, SuggestedIsOperation
<1>7. \A j \in 1..n, p \in Operation :
         parent[j] # 0 /\ <<parent[j], p>> \in F => <<j, Suggested(info[j], ChildDefault(p, s), s)>> \in F
  BY <1>5, ChildDefaultType, SuggestedIsOperation
<1> HIDE DEF F
<1>8. \A j \in 1..n : <<j, Final(ops, j)>> \in F
  BY <1>1, <1>2, <1>6, <1>7, CascadeKeeps
<1> QED BY <1>8 DEF F

-----------------------------------------------------------------------------
(* The proposal for two folders. *)

\* Version s is all there is, or newer than the other.
Takes(e, w, s) ==
    /\ ExistsIn(e, s)
    /\ \A u \in AB : ExistsIn(e, u) /\ e.content[u] # e.content[s] => w.copyNewer /\ e.date[s] > e.date[u]

\* Operation o loses nothing of item e but an older version.
KeepsItem(e, w, o) ==
    /\ o = NoOp => w.dest # "other" /\ Takes(e, w, "A") /\ e.content["A"] = e.content["B"]
    /\ o \in {"eCopyAToDest", "eCopyAToB"} => Takes(e, w, "A")
    /\ o \in {"eCopyBToDest", "eCopyBToA"} => Takes(e, w, "B")

TwoWayOps(w) ==
    {NoOp, ScanDefault(w), "eConflictingFileTypes", "eConflictingAges"}
        \cup (IF w.sync THEN {"eCopyAToB", "eCopyBToA"} ELSE {"eCopyAToDest", "eCopyBToDest"})

\* Operation o suits item j and, passed on, all items below it.
Keeps(t, w, n, j, o) ==
    /\ o \in TwoWayOps(w)
    /\ \A i \in Under(n, j) : KeepsItem(t[i], w, o)
    /\ o = "eConflictingFileTypes" => ConflictingFileTypes(t[j])

\* The items are of two folders, with what a complete scan found.
ComparedTwo(t, eq, age, w, n) ==
    /\ Compared(t, eq, w, n) /\ w \in Windows /\ ~w.threeWay
    /\ AgesScanned(t, age, n)

LEMMA InTwoFolders ==
    ASSUME NEW t, NEW eq, NEW age, NEW w, NEW n, ComparedTwo(t, eq, age, w, n)
    PROVE  /\ FolderTree(t, w) /\ n \in Nat /\ n <= Len(t) /\ Len(t) \in Nat
           /\ \A i \in 1..n : /\ i \in 1..Len(t)
                              /\ ~ExistsIn(t[i], "C")
                              /\ ExistsIn(t[i], "A") \/ ExistsIn(t[i], "B")
<1>1. FolderTree(t, w) /\ n \in Nat /\ n <= Len(t) /\ Len(t) \in Nat /\ ~w.threeWay
  BY FoldersAssumption DEF ComparedTwo, Compared, FolderTree
<1>2. \A i \in 1..n : i \in 1..Len(t)
  BY <1>1
<1>3. \A i \in 1..n : ~ExistsIn(t[i], "C") /\ Existing(t[i]) # {}
  BY <1>1, <1>2 DEF FolderTree
<1>4. \A i \in 1..n : ExistsIn(t[i], "A") \/ ExistsIn(t[i], "B")
  BY <1>3 DEF Existing, Sides
<1> QED BY <1>1, <1>2, <1>3, <1>4

\* Two folders that are flagged equal are the same all the way down.
LEMMA EqualBelow ==
    ASSUME NEW t, NEW eq, NEW age, NEW w, NEW n, ComparedTwo(t, eq, age, w, n),
           NEW j \in 1..n, AB \in eq[j], NEW i \in Under(n, j)
    PROVE  t[i].content["A"] = t[i].content["B"] /\ ExistsIn(t[i], "A")
<1>1. /\ FolderTree(t, w) /\ n \in Nat /\ n <= Len(t) /\ Len(t) \in Nat /\ ~w.threeWay
      /\ \A k \in 1..n : k \in 1..Len(t) /\ ~ExistsIn(t[k], "C") /\ (ExistsIn(t[k], "A") \/ ExistsIn(t[k], "B"))
  BY InTwoFolders DEF ComparedTwo
<1>2. i \in 1..n
  BY DEF Under
<1>3. AB \in eq[i]
  <2>1. CASE i = j
    BY <2>1
  <2>2. CASE i # j
    <3>1. j \in Above(i)
      BY <2>2 DEF Under
    <3>2. HasDir(t[j]) /\ Existing(t[i]) # {}
      BY <1>1, <1>2, <3>1, FoldersAbove
    <3>3. FolderRight(t, eq, ShowOptions, w, j, n)
      BY <3>2 DEF ComparedTwo, Compared, FoldersRight
    <3>4. CASE ~AllEqual(eq[i], w)
      BY <1>2, <3>1, <3>2, <3>3, <3>4, AllAreVisible DEF FolderRight
    <3>5. CASE AllEqual(eq[i], w)
      BY <3>5 DEF AllEqual
    <3> QED BY <3>4, <3>5
  <2> QED BY <2>1, <2>2
<1>4. CASE HasDir(t[i])
  <2>1. AB \in KindPairs(t[i])
    BY <1>2, <1>3, <1>4 DEF ComparedTwo, Compared, Flags
  <2>2. IsDir(t[i], "A") <=> IsDir(t[i], "B")
    BY <2>1 DEF KindPairs, SameKind, AB
  <2>3. ~IsDir(t[i], "C")
    BY <1>1, <1>2 DEF IsDir, ExistsIn
  <2>4. IsDir(t[i], "A") /\ IsDir(t[i], "B")
    BY <1>4, <2>2, <2>3 DEF HasDir, Sides
  <2> QED BY <2>4 DEF IsDir, ExistsIn
<1>5. CASE ~HasDir(t[i])
  <2>1. eq[i] = ComparedEqual(t[i], {})
    BY <1>2, <1>5 DEF ComparedTwo, Compared, FilesScanned
  <2>2. (\A s \in AB : ExistsIn(t[i], s)) /\ Alike(t[i], AB)
    BY <1>3, <1>5, <2>1, FilesAreCompared, PairsOfSides
  <2> QED BY <2>2, PairsOfSides DEF AB
<1> QED BY <1>4, <1>5

\* Of two different files the ages tell which is newer.
LEMMA NewerIsTaken ==
    ASSUME NEW t, NEW eq, NEW age, NEW w, NEW n, ComparedTwo(t, eq, age, w, n), NEW j \in 1..n,
           ~HasDir(t[j]), AB \notin eq[j], ExistsIn(t[j], "A"), ExistsIn(t[j], "B"),
           ~age[j].conflict, w.copyNewer
    PROVE  IF age[j].ages["A"] = New THEN Takes(t[j], w, "A") ELSE Takes(t[j], w, "B")
<1> DEFINE e == t[j]
           a == age[j]
<1>1. /\ FolderTree(t, w) /\ j \in 1..Len(t) /\ ~ExistsIn(e, "C")
  BY InTwoFolders
<1>2. Existing(e) = AB
  BY <1>1 DEF Existing, Sides, AB
<1>3. e.date["A"] \in 0..Latest /\ e.date["B"] \in 0..Latest
  <2>1. \A s \in Existing(e) : e.date[s] \in 0..Latest
    BY <1>1 DEF FolderTree
  <2> QED BY <1>2, <2>1 DEF AB
<1>4. eq[j] = ComparedEqual(e, {}) /\ a = Ages(e, ComparedEqual(e, {}), Latest)
  BY DEF ComparedTwo, Compared, FilesScanned, AgesScanned
<1>5. \A p \in Pairs : p \in ComparedEqual(e, {}) <=> (\A s \in p : ExistsIn(e, s)) /\ Alike(e, p)
  BY FilesAreCompared
<1>6. ComparedEqual(e, {}) = {}
  <2>1. AB \notin ComparedEqual(e, {})
    BY <1>4
  <2>2. AC \notin ComparedEqual(e, {}) /\ BC \notin ComparedEqual(e, {})
    BY <1>1, <1>5 DEF AC, BC, Pairs
  <2>3. ComparedEqual(e, {}) \subseteq Pairs
    BY DEF ComparedEqual
  <2> QED BY <2>1, <2>2, <2>3 DEF Pairs
<1>7. e.content["A"] # e.content["B"]
  <2>1. ~Alike(e, AB)
    BY <1>4, <1>5, PairsOfSides DEF AB
  <2> QED BY <2>1, PairsOfSides
<1>8. a = Ages(e, {}, Latest) /\ Latest \in Nat /\ ~a.conflict
  BY <1>4, <1>6, FoldersAssumption
<1> HIDE DEF e, a
<1>9. IF a.ages["A"] = New THEN e.date["A"] > e.date["B"] ELSE e.date["B"] > e.date["A"]
  BY <1>2, <1>3, <1>8, AgesFollowDates
<1>10. ExistsIn(e, "A") /\ ExistsIn(e, "B")
  BY DEF e
<1>11. IF a.ages["A"] = New THEN Takes(e, w, "A") ELSE Takes(e, w, "B")
  BY <1>7, <1>9, <1>10 DEF Takes, AB
<1> QED BY <1>11 DEF e, a

LEMMA TakesOne ==
    ASSUME NEW e, NEW w
    PROVE  /\ ExistsIn(e, "A") /\ e.content["A"] = e.content["B"] => Takes(e, w, "A") /\ Takes(e, w, "B")
           /\ ExistsIn(e, "A") /\ ~ExistsIn(e, "B") => Takes(e, w, "A")
           /\ ExistsIn(e, "B") /\ ~ExistsIn(e, "A") => Takes(e, w, "B")
BY DEF Takes, ExistsIn, AB

\* A merge suggests what suits an item and all below it.
LEMMA MergeKeepsBelow ==
    ASSUME NEW t, NEW eq, NEW age, NEW w, NEW n, ComparedTwo(t, eq, age, w, n), NEW j \in 1..n
    PROVE  Keeps(t, w, n, j, Suggested(Info(t[j], eq[j], age[j]), ScanDefault(w), Situation(w)))
<1> DEFINE e == t[j]
           m == Info(t[j], eq[j], age[j])
           s == Situation(w)
           D == ScanDefault(w)
           o == TwoWaySuggestion(m, D, s)
<1>1. /\ FolderTree(t, w) /\ n \in Nat /\ n <= Len(t) /\ j \in 1..Len(t)
      /\ \A i \in 1..n : i \in 1..Len(t) /\ ~ExistsIn(t[i], "C") /\ (ExistsIn(t[i], "A") \/ ExistsIn(t[i], "B"))
  BY InTwoFolders
<1>2. /\ m.inA <=> ExistsIn(e, "A")
      /\ m.inB <=> ExistsIn(e, "B")
      /\ m.eqAB <=> AB \in eq[j]
      /\ m.dirA <=> IsDir(e, "A")
      /\ m.typeConflict <=> ConflictingFileTypes(e)
      /\ m.ageConflict <=> age[j].conflict
      /\ m.newA <=> age[j].ages["A"] = New
  BY DEF Info
<1>3. /\ ~s.threeWay /\ (s.copyNewer <=> w.copyNewer) /\ (s.otherDest <=> w.dest = "other")
      /\ D = IF w.sync THEN "eMergeToAB" ELSE "eMergeABToDest"
      /\ w.sync => w.dest = "B"
  BY WindowsAssumption DEF ComparedTwo, Situation, ScanDefault
<1>4. \A i \in Under(n, j) : i \in 1..n
  BY DEF Under
<1>5. Recovered(D, s) = D /\ D \in MergeDefaults /\ D \in {"eMergeToAB", "eMergeABToDest"}
  BY <1>3 DEF Recovered, MergeDefaults, ManualOps, SyncMergeOps, DestMergeOps
<1> HIDE DEF m, s, D
<1>6. Suggested(m, D, s) = IF m.typeConflict THEN "eConflictingFileTypes" ELSE o
  BY <1>3, <1>5 DEF Suggested
<1>7. CASE m.typeConflict
  BY <1>2, <1>6, <1>7 DEF Keeps, KeepsItem, TwoWayOps, NoOp, m, s, D
<1>8. CASE ~m.typeConflict
  <2>1. SUFFICES /\ o \in TwoWayOps(w) \ {"eConflictingFileTypes"}
                 /\ \A i \in Under(n, j) : KeepsItem(t[i], w, o)
    BY <1>6, <1>8 DEF Keeps, m, s, D
  <2>2. CASE m.eqAB
    <3>1. o = IF w.dest = "other" THEN "eCopyBToDest" ELSE NoOp
      BY <1>3, <2>2 DEF TwoWaySuggestion
    <3>2. \A i \in Under(n, j) : /\ Takes(t[i], w, "A") /\ Takes(t[i], w, "B")
                                 /\ t[i].content["A"] = t[i].content["B"]
      BY <1>2, <2>2, EqualBelow, TakesOne
    <3> QED BY <1>3, <3>1, <3>2 DEF KeepsItem, TwoWayOps, NoOp
  <2>3. CASE ~m.eqAB /\ m.inA /\ m.inB
    <3>1. CASE ~w.copyNewer \/ m.dirA
      <4>1. o = D
        BY <1>3, <2>3, <3>1 DEF TwoWaySuggestion
      <4> QED BY <1>5, <4>1 DEF KeepsItem, TwoWayOps, NoOp, D
    <3>2. CASE w.copyNewer /\ ~m.dirA /\ m.ageConflict
      <4>1. o = "eConflictingAges"
        BY <1>3, <2>3, <3>2 DEF TwoWaySuggestion
      <4> QED BY <4>1 DEF KeepsItem, TwoWayOps, NoOp
    <3>3. CASE w.copyNewer /\ ~m.dirA /\ ~m.ageConflict
      <4>1. o = IF m.newA THEN IF w.sync THEN "eCopyAToB" ELSE "eCopyAToDest"
                          ELSE IF w.sync THEN "eCopyBToA" ELSE "eCopyBToDest"
        BY <1>3, <2>3, <3>3 DEF TwoWaySuggestion
      <4>2. ~HasDir(e)
        <5>1. ~IsDir(e, "A") /\ ~IsDir(e, "C")
          BY <1>1, <1>2, <3>3 DEF IsDir, ExistsIn
        <5>2. "A" \in Existing(e)
          BY <1>2, <2>3 DEF Existing, Sides
        <5>3. ~HasDir(e) \/ \A u \in Existing(e) : IsDir(e, u)
          BY <1>2, <1>8 DEF ConflictingFileTypes
        <5> QED BY <5>1, <5>2, <5>3
      <4>3. \A i \in Under(n, j) : i = j
        BY <1>1, <4>2, FoldersAbove DEF Under
      <4>4. IF m.newA THEN Takes(e, w, "A") ELSE Takes(e, w, "B")
        BY <1>2, <2>3, <3>3, <4>2, NewerIsTaken
      <4> QED BY <4>1, <4>3, <4>4 DEF KeepsItem, TwoWayOps, NoOp
    <3> QED BY <1>2, <3>1, <3>2, <3>3
  <2>4. CASE ~m.eqAB /\ ~m.inA /\ m.inB
    <3>1. o = IF w.sync THEN "eCopyBToA" ELSE "eCopyBToDest"
      BY <1>3, <2>4 DEF TwoWaySuggestion
    <3>2. \A i \in Under(n, j) : ~ExistsIn(t[i], "A")
      BY <1>1, <1>2, <2>4, MissingBelow DEF Sides
    <3>3. \A i \in Under(n, j) : Takes(t[i], w, "B")
      BY <1>1, <1>4, <3>2, TakesOne
    <3> QED BY <3>1, <3>3 DEF KeepsItem, TwoWayOps, NoOp
  <2>5. CASE ~m.eqAB /\ m.inA /\ ~m.inB
    <3>1. o = IF w.sync THEN "eCopyAToB" ELSE "eCopyAToDest"
      BY <1>3, <2>5 DEF TwoWaySuggestion
    <3>2. \A i \in Under(n, j) : ~ExistsIn(t[i], "B")
      BY <1>1, <1>2, <2>5, MissingBelow DEF Sides
    <3>3. \A i \in Under(n, j) : Takes(t[i], w, "A")
      BY <1>1, <1>4, <3>2, TakesOne
    <3> QED BY <3>1, <3>3 DEF KeepsItem, TwoWayOps, NoOp
  <2>6. m.inA \/ m.inB
    BY <1>1, <1>2
  <2> QED BY <1>2, <2>2, <2>3, <2>4, <2>5, <2>6
<1> QED BY <1>2, <1>7, <1>8

\* A copy of a folder suits its items, too.
LEMMA CopyKeepsBelow ==
    ASSUME NEW t, NEW w, NEW n \in Nat, n <= Len(Parent), NEW k \in 1..n, NEW j \in 1..n, k \in Above(j),
           NEW p, Keeps(t, w, n, k, p), p \notin {ScanDefault(w), "eConflictingFileTypes"},
           NEW m, m.inA <=> ExistsIn(t[j], "A"), m.inB <=> ExistsIn(t[j], "B")
    PROVE  CopySuggestion(m, p) = p /\ Keeps(t, w, n, j, p)
<1>1. \A i \in Under(n, j) : i \in Under(n, k)
  <2> SUFFICES ASSUME NEW i \in 1..n, j \in Above(i) PROVE k \in Above(i)
    BY DEF Under
  <2>1. i \in Items
    BY FoldersAssumption
  <2> QED BY <2>1, AboveWell
<1>2. \A i \in Under(n, j) : KeepsItem(t[i], w, p)
  BY <1>1 DEF Keeps
<1>3. p \in TwoWayOps(w)
  BY DEF Keeps
<1>4. p \in {NoOp, "eConflictingAges", "eCopyAToB", "eCopyBToA", "eCopyAToDest", "eCopyBToDest"}
  BY <1>3 DEF TwoWayOps
<1>5. KeepsItem(t[j], w, p)
  BY <1>2 DEF Under
<1>6. CopySuggestion(m, p) = p
  BY <1>4, <1>5 DEF CopySuggestion, KeepsItem, Takes, NoOp
<1> QED BY <1>2, <1>3, <1>6 DEF Keeps

\* In sync mode, a conflict of file types changes the default below it.
Reached(t, w, j) == w.sync => \A a \in Above(j) : ~ConflictingFileTypes(t[a])

\* The automatic choice suits every item.
LEMMA ProposalKeeps ==
    ASSUME NEW t, NEW eq, NEW age, NEW w, NEW n, ComparedTwo(t, eq, age, w, n),
           NEW parent, NEW info, NEW ops,
           Proposal(t, eq, w, n, parent, age, info, ops, ScanDefault(w))
    PROVE  \A j \in 1..n : Reached(t, w, j) => Keeps(t, w, n, j, Final(ops, j))
<1> DEFINE o == ScanDefault(w)
           s == Situation(w)
           F == {z \in (1..n) \X Operation : Reached(t, w, z[1]) => Keeps(t, w, n, z[1], z[2])}
<1>1. /\ o \in Operation /\ ~s.threeWay /\ Compared(t, eq, w, n)
      /\ o = IF w.sync THEN "eMergeToAB" ELSE "eMergeABToDest"
  BY DEF ComparedTwo, ScanDefault, Operation, SyncOps, SyncMergeOps, MergeOps, DestMergeOps, Situation
<1>2. /\ IsForest(parent, n) /\ IsSet(parent, info, o, s, ops, n)
      /\ \A j \in 1..n : /\ info[j] = Info(t[j], eq[j], age[j])
                         /\ parent[j] # 0 => parent[j] \in 1..n /\ parent[j] \in Above(j)
  BY <1>1, ProposalCascades
<1>3. n \in Nat /\ n <= Len(Parent)
  BY FoldersAssumption, InTwoFolders DEF FolderTree
<1>4. \A j \in 1..n : Keeps(t, w, n, j, Suggested(info[j], o, s))
  BY <1>2, MergeKeepsBelow
<1>5. ASSUME NEW j \in 1..n, NEW p \in Operation, parent[j] # 0, Reached(t, w, j),
             Reached(t, w, parent[j]) => Keeps(t, w, n, parent[j], p)
      PROVE  Keeps(t, w, n, j, Suggested(info[j], ChildDefault(p, s), s))
  <2> DEFINE k == parent[j]
             m == info[j]
  <2>1. k \in 1..n /\ k \in Above(j)
    BY <1>2, <1>5
  <2>2. Keeps(t, w, n, k, p)
    <3>1. j \in Items
      BY <1>3, FoldersAssumption
    <3>2. Reached(t, w, k)
      BY <1>5, <2>1, <3>1, AboveWell DEF Reached
    <3> QED BY <1>5, <3>2
  <2>3. CASE p \in {o, "eConflictingFileTypes"}
    <3>1. p = "eConflictingFileTypes" => ~w.sync
      BY <1>5, <2>1, <2>2 DEF Keeps, Reached
    <3>2. ChildDefault(p, s) = o
      BY <1>1, <2>3, <3>1 DEF ChildDefault
    <3> QED BY <1>4, <3>2
  <2>4. CASE p \notin {o, "eConflictingFileTypes"}
    <3>1. ChildDefault(p, s) = p
      BY <2>4 DEF ChildDefault
    <3>2. p \in TwoWayOps(w)
      BY <2>2 DEF Keeps
    <3>3. Suggested(m, p, s) = CopySuggestion(m, p)
      BY <2>4, <3>2 DEF Suggested, Recovered, MergeDefaults, ManualOps, DestMergeOps, SyncMergeOps,
                        TwoWayOps, NoOp
    <3>4. (m.inA <=> ExistsIn(t[j], "A")) /\ (m.inB <=> ExistsIn(t[j], "B"))
      <4>1. m = Info(t[j], eq[j], age[j])
        BY <1>2
      <4> HIDE DEF m
      <4> QED BY <4>1 DEF Info
    <3>5. p \notin {ScanDefault(w), "eConflictingFileTypes"}
      BY <2>4
    <3> HIDE DEF m, k
    <3>6. CopySuggestion(m, p) = p /\ Keeps(t, w, n, j, p)
      BY <1>3, <2>1, <2>2, <3>4, <3>5, CopyKeepsBelow
    <3> QED BY <3>1, <3>3, <3>6 DEF m
  <2> QED BY <2>3, <2>4
<1> HIDE DEF o, s
<1>6. \A j \in 1..n : parent[j] = 0 => <<j, Suggested(info[j], o, s)>> \in F
  BY <1>1, <1>4, SuggestedIsOperation
<1>7. \A j \in 1..n, p \in Operation :
         parent[j] # 0 /\ <<parent[j], p>> \in F => <<j, Suggested(info[j], ChildDefault(p, s), s)>> \in F
  BY <1>5, ChildDefaultType, SuggestedIsOperation
<1> HIDE DEF F
<1>8. \A j \in 1..n : <<j, Final(ops, j)>> \in F
  BY <1>1, <1>2, <1>6, <1>7, CascadeKeeps
<1> QED BY <1>8 DEF F

-----------------------------------------------------------------------------
(* The proposal after every command. *)

\* Operation o does with item e what a three-way merge would, or asks.
IsThreeWay(e, w, o) ==
    /\ o \notin ByHand => After(e, o, w.dest, w) = Merged(e)
    /\ o \in ManualOps /\ ~HasDir(e) => Merged(e) = "conflict"

LEMMA FittingIsThreeWay ==
    ASSUME NEW t, NEW w \in Windows, NEW n, NEW j \in 1..n, NEW o, Fits(t, w, n, j, o),
           ~TakenForEqual(t[j])
    PROVE  IsThreeWay(t[j], w, o)
<1>1. FitsItem(t[j], w, o) /\ o \in ThreeWayOps
  BY DEF Fits, Under
<1>2. o \in ManualOps => o = "eMergeABCToDest"
  BY <1>1 DEF ThreeWayOps, ManualOps, SyncMergeOps, DestMergeOps, NoOp
<1>3. o \in ManualOps /\ ~HasDir(t[j]) => Merged(t[j]) = "conflict"
  BY <1>2 DEF Fits
<1>4. w.dest \in {"A", "B", "C", "other"}
  BY WindowsAssumption DEF Sides, AB
<1>5. ASSUME o \notin ByHand PROVE After(t[j], o, w.dest, w) = Merged(t[j])
  <2>1. o \in {NoOp, "eCopyBToDest", "eCopyCToDest", "eDeleteFromDest"}
    BY <1>1, <1>5 DEF ThreeWayOps, ByHand, ManualOps, DestMergeOps, ConflictOps
  <2>2. CASE o = NoOp
    <3>1. w.dest # "other" /\ Alike(t[j], AB) /\ Alike(t[j], AC)
      BY <1>1, <2>2 DEF FitsItem
    <3>2. t[j].content["A"] = t[j].content["B"] /\ t[j].content["A"] = t[j].content["C"]
      BY <3>1, PairsOfSides
    <3>3. After(t[j], o, w.dest, w) = t[j].content[w.dest]
      BY <2>2, <3>1 DEF After, Before, NoOp
    <3> QED BY <1>4, <3>1, <3>2, <3>3 DEF Merged
  <2>3. CASE o = "eCopyBToDest"
    BY <1>1, <2>3 DEF FitsItem, After
  <2>4. CASE o = "eCopyCToDest"
    BY <1>1, <2>4 DEF FitsItem, After
  <2>5. CASE o = "eDeleteFromDest"
    BY <1>1, <2>5 DEF FitsItem, After
  <2> QED BY <2>1, <2>2, <2>3, <2>4, <2>5
<1> QED BY <1>3, <1>5 DEF IsThreeWay

\* Operation o leaves a version that is all there is, or newer than the other.
LEMMA KeepingIsRight ==
    ASSUME NEW e, NEW w \in Windows, ~w.threeWay, NEW o \in TwoWayOps(w) \ ByHand, KeepsItem(e, w, o)
    PROVE  \E s \in AB :
              /\ Takes(e, w, s)
              /\ ~w.sync => After(e, o, w.dest, w) = e.content[s]
              /\ w.sync => After(e, o, "A", w) = e.content[s] /\ After(e, o, "B", w) = e.content[s]
<1>1. w.dest \in {"A", "B", "other"} /\ (w.sync => w.dest = "B")
  BY WindowsAssumption DEF AB
<1>2. o \in {NoOp} \cup (IF w.sync THEN {"eCopyAToB", "eCopyBToA"} ELSE {"eCopyAToDest", "eCopyBToDest"})
  BY DEF TwoWayOps, ScanDefault, ByHand, ManualOps, SyncMergeOps, DestMergeOps, ConflictOps
<1>3. CASE o = NoOp
  <2>1. w.dest # "other" /\ Takes(e, w, "A") /\ e.content["A"] = e.content["B"]
    BY <1>3 DEF KeepsItem
  <2>2. \A s \in AB : After(e, o, s, w) = e.content[s]
    BY <1>3 DEF After, Before, NoOp, AB
  <2> QED BY <1>1, <2>1, <2>2 DEF AB
<1>4. CASE o \in {"eCopyAToDest", "eCopyAToB"}
  <2>1. Takes(e, w, "A") /\ "A" \in AB
    BY <1>4 DEF KeepsItem, AB
  <2>2. /\ ~w.sync => After(e, o, w.dest, w) = e.content["A"]
        /\ w.sync => After(e, o, "A", w) = e.content["A"] /\ After(e, o, "B", w) = e.content["A"]
    BY <1>2, <1>4 DEF After, Before, NoOp
  <2> QED BY <2>1, <2>2
<1>5. CASE o \in {"eCopyBToDest", "eCopyBToA"}
  <2>1. Takes(e, w, "B") /\ "B" \in AB
    BY <1>5 DEF KeepsItem, AB
  <2>2. /\ ~w.sync => After(e, o, w.dest, w) = e.content["B"]
        /\ w.sync => After(e, o, "A", w) = e.content["B"] /\ After(e, o, "B", w) = e.content["B"]
    BY <1>2, <1>5 DEF After, Before, NoOp
  <2> QED BY <2>1, <2>2
<1> QED BY <1>2, <1>3, <1>4, <1>5

\* The operations suit the items: for three folders and for two.
Suits(t, w, n, ops) ==
    /\ w.threeWay => \A j \in 1..n : ~TakenForEqual(t[j]) => IsThreeWay(t[j], w, ops[j])
    /\ ~w.threeWay => \A j \in 1..n : Reached(t, w, j) => ops[j] \in TwoWayOps(w) /\ KeepsItem(t[j], w, ops[j])

\* What the automatic choice leaves on the items.
LEMMA ProposalSuits ==
    ASSUME NEW t, NEW eq, NEW w \in Windows, NEW n, Compared(t, eq, w, n), NEW age, AgesScanned(t, age, n),
           NEW parent, NEW info, NEW ops, Proposal(t, eq, w, n, parent, age, info, ops, ScanDefault(w)),
           NEW before
    PROVE  Suits(t, w, n, LastSet(ops, before))
<1> DEFINE D == ScanDefault(w)
<1>1. D \in Operation
  BY DEF ScanDefault, Operation, SyncOps, SyncMergeOps, MergeOps, DestMergeOps
<1>2. Proposal(t, eq, w, n, parent, age, info, ops, D)
  OBVIOUS
<1> HIDE DEF D
<1>3. DOMAIN ops = 1..n /\ \A j \in 1..n : ops[j] # <<>>
  BY <1>1, <1>2, ProposalCascades
<1>4. \A j \in 1..n : LastSet(ops, before)[j] = Final(ops, j)
  BY <1>3 DEF LastSet, Final
<1>5. ASSUME w.threeWay, NEW j \in 1..n, ~TakenForEqual(t[j]) PROVE IsThreeWay(t[j], w, Final(ops, j))
  <2>1. D = "eMergeABCToDest"
    BY <1>5 DEF D, ScanDefault
  <2>2. Fits(t, w, n, j, Final(ops, j))
    BY <1>2, <1>5, <2>1, ProposalFits
  <2> QED BY <1>5, <2>2, FittingIsThreeWay
<1>6. ASSUME ~w.threeWay, NEW j \in 1..n, Reached(t, w, j)
      PROVE  Final(ops, j) \in TwoWayOps(w) /\ KeepsItem(t[j], w, Final(ops, j))
  <2>1. ComparedTwo(t, eq, age, w, n)
    BY <1>6 DEF ComparedTwo
  <2>2. Keeps(t, w, n, j, Final(ops, j))
    BY <1>6, <2>1, ProposalKeeps
  <2>3. j \in Under(n, j)
    BY DEF Under
  <2> QED BY <2>2, <2>3 DEF Keeps
<1> QED BY <1>4, <1>5, <1>6 DEF Suits

\* A complete scan with all rows shown.
LEMMA ScanProposes ==
    ASSUME NEW t, NEW w \in Windows, FolderTree(t, w), NEW n \in Nat, n <= Len(t),
           NEW r, r = ScanResult(w, t, n, {}, ShowOptions)
    PROVE  Suits(t, w, n, r.op)
<1> DEFINE compared == [i \in 1..n |-> ComparedEqual(t[i], IF i = n THEN {} ELSE {})]
           eq == FolderEquality(t, compared, ShowOptions, w)
           age == FolderAges(t, eq, [i \in 1..n |-> Ages(t[i], compared[i], Latest)])
           info == [i \in 1..n |-> Info(t[i], eq[i], age[i])]
           parent == [i \in 1..n |-> Parent[i]]
           ops == SetAll(parent, info, ScanDefault(w), Situation(w))
           before == [i \in 1..n |-> NoOp]
<1>1. r.equal = eq /\ r.ages = age /\ r.op = LastSet(ops, before)
  BY DEF ScanResult
<1> HIDE DEF eq
<1>2. Compared(t, eq, w, n) /\ AgesScanned(t, age, n)
  <2> HIDE DEF age
  <2> QED BY <1>1, ScanIsRight DEF Compared
<1>3. Proposal(t, eq, w, n, parent, age, info, ops, ScanDefault(w))
  BY DEF Proposal
<1> HIDE DEF parent, age, info, ops, before
<1>4. Suits(t, w, n, LastSet(ops, before))
  BY <1>2, <1>3, ProposalSuits
<1> QED BY <1>1, <1>4

\* The automatic choice for all items, when all are compared and all rows shown.
LEMMA ChoiceProposes ==
    ASSUME FlagsInv, FullyListed, NEW ops,
           ops = SetAll(ListedParent, Infos(equal, ages), ScanDefault(window), Situation(window))
    PROVE  Suits(tree, window, listed, LastSet(ops, op))
<1> DEFINE parent == ListedParent
           info == Infos(equal, ages)
<1>1. Compared(tree, equal, window, listed) /\ AgesScanned(tree, ages, listed)
  <2>1. FolderTree(tree, window)
    BY TheTree DEF FlagsInv
  <2> QED BY <2>1 DEF FlagsInv, FullyListed, Compared
<1>2. Proposal(tree, equal, window, listed, parent, ages, info, ops, ScanDefault(window))
  <2>1. DOMAIN equal = 1..listed
    BY DEF FlagsInv, Flags
  <2> QED BY <2>1 DEF Proposal, ListedParent, Infos, Listed
<1> HIDE DEF parent, info
<1>3. window \in Windows
  BY DEF FlagsInv
<1> QED BY <1>1, <1>2, <1>3, ProposalSuits

\* What the automatic choice left suits the items until something else is chosen.
ProposalRight == Automatic => Suits(tree, window, listed, op)

THEOREM ProposalInvariance == Spec => []ProposalRight
<1>1. Init => ProposalRight
  <2> SUFFICES ASSUME Init, Automatic PROVE Suits(tree, window, listed, op)
    BY DEF ProposalRight
  <2> DEFINE r == ScanResult(window, tree, listed, {}, ShowOptions)
  <2>1. /\ window \in Windows /\ tree \in Trees /\ listed = Len(tree)
        /\ window.threeWay = \E i \in DOMAIN tree : ExistsIn(tree[i], "C")
        /\ op = r.op
    BY DEF Init, Automatic
  <2>2. FolderTree(tree, window) /\ Len(tree) \in Nat
    BY <2>1, TheTree
  <2> HIDE DEF r
  <2>3. Suits(tree, window, listed, r.op)
    BY <2>1, <2>2, ScanProposes DEF r
  <2> QED BY <2>1, <2>3
<1>2. FlagsInv /\ ProposalRight /\ [Next]_vars => ProposalRight'
  <2> SUFFICES ASSUME FlagsInv, ProposalRight, [Next]_vars, Automatic'
               PROVE  Suits(tree, window, listed, op)'
    BY DEF ProposalRight
  <2>1. FolderTree(tree, window) /\ Len(tree) \in Nat /\ window \in Windows
    BY TheTree DEF FlagsInv
  <2>2. CASE UNCHANGED <<window, tree, listed, op, chosen>>
    BY <2>2 DEF ProposalRight, Automatic
  <2>3. ASSUME NEW n \in Items, NEW c \in Cuts, Rescan(n, c) PROVE Suits(tree, window, listed, op)'
    <3> DEFINE r == ScanResult(window, tree, n, {}, ShowOptions)
    <3>1. chosen'.full
      BY DEF Automatic
    <3>2. chosen'.full <=> shown = ShowOptions /\ n = Len(tree) /\ c = {}
      BY <2>3, Zenon DEF Rescan
    <3>3. /\ n <= Len(tree) /\ listed' = n /\ window' = window /\ tree' = tree
          /\ op' = r.op
      BY <2>3, <3>1, <3>2 DEF Rescan
    <3>4. n \in Nat
      BY FoldersAssumption
    <3> HIDE DEF r
    <3>5. Suits(tree, window, n, r.op)
      BY <2>1, <3>3, <3>4, ScanProposes DEF r
    <3> QED BY <3>3, <3>5
  <2>4. ASSUME NEW show, UpdateFileVisibilities(show) PROVE Suits(tree, window, listed, op)'
    BY <2>2, <2>4 DEF UpdateFileVisibilities
  <2>5. ASSUME NEW i, NEW o, SetMergeOperation(i, o) PROVE Suits(tree, window, listed, op)'
    <3>1. chosen'.item = i /\ i \in 1..listed
      BY <2>5 DEF SetMergeOperation, Listed
    <3>2. i # 0
      BY <3>1 DEF FlagsInv
    <3> QED BY <3>1, <3>2 DEF Automatic
  <2>6. ASSUME NEW o, SetAllMergeOperations(o) PROVE Suits(tree, window, listed, op)'
    <3> DEFINE ops == SetAll(ListedParent, Infos(equal, ages), ScanDefault(window), Situation(window))
    <3>1. /\ window' = window /\ tree' = tree /\ listed' = listed
          /\ FullyListed /\ o \in {"scan", ScanDefault(window)} /\ o \in AllChoices
          /\ op' = LastSet(SetAll(ListedParent, Infos(equal, ages), o, Situation(window)), op)
      BY <2>6 DEF SetAllMergeOperations, Automatic
    <3>2. o = ScanDefault(window)
      BY <3>1 DEF AllChoices, NoOp
    <3>3. op' = LastSet(ops, op)
      BY <3>1, <3>2
    <3> HIDE DEF ops
    <3>4. Suits(tree, window, listed, LastSet(ops, op))
      BY <3>1, ChoiceProposes DEF ops
    <3> QED BY <3>1, <3>3, <3>4
  <2>7. CASE UNCHANGED vars
    BY <2>2, <2>7 DEF vars
  <2> QED BY <2>3, <2>4, <2>5, <2>6, <2>7 DEF Next
<1> QED BY <1>1, <1>2, FlagsInvariance, PTL DEF Spec

\* Three folders: whatever is done without asking gives the destination what a
\* three-way merge would, and the user is asked to merge a file only when both
\* sides changed it differently, after a scan and after the automatic choice
\* for all items, in every tree: what the cascade of setMergeOperation() passes
\* on to the items of a folder suits each of them.
THEOREM ProposalIsAlwaysThreeWay == Spec => []ProposalIsThreeWayMerge
<1>1. ProposalRight => ProposalIsThreeWayMerge
  BY DEF ProposalRight, Suits, IsThreeWay, ProposalIsThreeWayMerge, Listed
<1> QED BY <1>1, ProposalInvariance, PTL

\* Two folders and a destination: nothing that exists is left out, and of two
\* different files either the newer one is taken or the user is asked.
THEOREM BothFoldersAreKept == Spec => []ProposalKeepsBothFolders
<1>1. FlagsInv /\ ProposalRight => ProposalKeepsBothFolders
  <2> SUFFICES ASSUME FlagsInv, ProposalRight, Automatic, ~window.threeWay, ~window.sync,
                      NEW i \in Listed, op[i] \notin ByHand,
                      NEW result, result = After(tree[i], op[i], window.dest, window)
               PROVE  /\ result # "none"
                      /\ \A s \in AB : ExistsIn(tree[i], s) /\ tree[i].content[s] # result
                             => window.copyNewer /\ \E u \in AB : tree[i].date[u] > tree[i].date[s]
    BY DEF ProposalKeepsBothFolders
  <2>1. window \in Windows /\ i \in 1..listed
    BY DEF FlagsInv, Listed
  <2>2. op[i] \in TwoWayOps(window) /\ KeepsItem(tree[i], window, op[i])
    BY <2>1 DEF ProposalRight, Suits, Reached
  <2>3. PICK s \in AB : Takes(tree[i], window, s) /\ result = tree[i].content[s]
    BY <2>1, <2>2, KeepingIsRight
  <2> QED BY <2>3 DEF Takes, ExistsIn
<1> QED BY <1>1, FlagsInvariance, ProposalInvariance, PTL

\* In sync mode the proposal makes A and B the same, a different file is never
\* overwritten by an older one, and nothing is deleted.
THEOREM SyncMakesFoldersSame == Spec => []SyncProposalMakesFoldersSame
<1>1. FlagsInv /\ ProposalRight => SyncProposalMakesFoldersSame
  <2> SUFFICES ASSUME FlagsInv, ProposalRight, Automatic, window.sync,
                      NEW i \in Listed, \A a \in Above(i) : ~ConflictingFileTypes(tree[a]),
                      op[i] \notin ByHand,
                      NEW a, a = After(tree[i], op[i], "A", window),
                      NEW b, b = After(tree[i], op[i], "B", window)
               PROVE  /\ a = b /\ a # "none"
                      /\ \A s \in AB : ExistsIn(tree[i], s) /\ tree[i].content[s] # a
                             => window.copyNewer /\ \E u \in AB : tree[i].date[u] > tree[i].date[s]
    BY DEF SyncProposalMakesFoldersSame
  <2>1. window \in Windows /\ ~window.threeWay /\ i \in 1..listed
    BY WindowsAssumption DEF FlagsInv, Listed
  <2>2. op[i] \in TwoWayOps(window) /\ KeepsItem(tree[i], window, op[i])
    BY <2>1 DEF ProposalRight, Suits, Reached
  <2>3. PICK s \in AB : Takes(tree[i], window, s) /\ a = tree[i].content[s] /\ b = tree[i].content[s]
    BY <2>1, <2>2, KeepingIsRight
  <2> QED BY <2>3 DEF Takes, ExistsIn
<1> QED BY <1>1, FlagsInvariance, ProposalInvariance, PTL
=============================================================================
