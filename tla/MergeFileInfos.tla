--------------------------- MODULE MergeFileInfos ---------------------------
(* What one item of the folder comparison knows of itself: in which folders *)
(* it exists, which of its versions are equal, how old they are, and whether *)
(* the "Show ..." options list it.                                           *)
(*                                                                           *)
(* An item's entry has a content and a date for each of the sides A, B, C:   *)
(* content "none" (not there), "dir", or the content of a file; all files    *)
(* have the same size.  Equality is a set of pairs of sides.  Links, special *)
(* files and the "trust date/size" options are left out: a comparison reads  *)
(* both files to the end.                                                    *)
EXTENDS Integers, FiniteSets

Sides == {"A", "B", "C"}

\* The equality flags m_bEqualAB, m_bEqualAC, m_bEqualBC.
AB == {"A", "B"}
AC == {"A", "C"}
BC == {"B", "C"}
Pairs == {AB, AC, BC}

ExistsIn(e, s) == e.content[s] # "none"
IsDir(e, s)    == e.content[s] = "dir"
HasDir(e)      == \E s \in Sides : IsDir(e, s)
Existing(e)    == {s \in Sides : ExistsIn(e, s)}
OnlyIn(e, s)   == Existing(e) = {s}

ExistsEverywhere(e, threeWay) == (IF threeWay THEN Sides ELSE AB) \subseteq Existing(e)

\* Some version is a folder and another is not.
ConflictingFileTypes(e) == HasDir(e) /\ \E s \in Existing(e) : ~IsDir(e, s)

SameKind(e, p) == \A s, t \in p : IsDir(e, s) = IsDir(e, t)

\* fastFileComparison(). A comparison that is cancelled ends like one that
\* found no difference; from then on every comparison is cancelled.
FastFileComparison(e, p, cancelled) ==
    (\A s \in p : ~IsDir(e, s)) /\ (cancelled \/ \A s, t \in p : e.content[s] = e.content[t])

\* compareFilesAndCalcAges(), without full analysis: the pairs found equal.
\* "cut" is the set of comparisons the user cancelled, the last ones made.
ComparedEqual(e, cut) ==
    LET both(p)    == \A s \in p : ExistsIn(e, s)
        withA(p)   == both(p) /\ (IsDir(e, "A") \/ FastFileComparison(e, p, p \in cut))
        found(p)   == IF p # BC THEN withA(p)
                      ELSE both(BC) /\ (\/ withA(AB) /\ withA(AC)
                                        \/ IsDir(e, "B")
                                        \/ FastFileComparison(e, BC, BC \in cut))
    IN {p \in Pairs : found(p) /\ SameKind(e, p)}

-----------------------------------------------------------------------------
(* The ages: eNew, eMiddle, eOld, eNotThere and eAgeEnd are 0 .. 4.          *)
New == 0
Middle == 1
Old == 2
NotThere == 3

\* nextAgeValue(), any number of times.
NextAge(age, k) == IF age + k > 4 THEN 4 ELSE age + k

\* The side that stands for a date in the std::map: the last one put in.
Keeper(e, d) ==
    LET dated == {s \in Existing(e) : e.date[s] = d}
    IN CASE "C" \in dated -> "C" [] "C" \notin dated /\ "B" \in dated -> "B" [] OTHER -> "A"

\* One round of the loop over the dates, for a side that has no age yet: it and
\* the versions equal to it get the current age.
AgeRound(st, s, eq) ==
    IF st.ages[s] # NotThere THEN st
    ELSE LET same == {t \in Sides : {s, t} \in eq}
         IN [ages |-> [t \in Sides |-> IF t = s \/ t \in same THEN st.age ELSE st.ages[t]],
             age  |-> NextAge(st.age, 1 + Cardinality(same))]

\* The loop from the newest date to the oldest: dates run from 0 to "latest".
AgeLoop(e, eq, latest) ==
    LET after[d \in 0..(latest + 1)] ==
            IF d = latest + 1
            THEN [ages |-> [s \in Sides |-> NotThere], age |-> New]
            ELSE IF \E s \in Existing(e) : e.date[s] = d
                 THEN AgeRound(after[d + 1], Keeper(e, d), eq)
                 ELSE after[d + 1]
    IN after[0]

\* Different files with equal dates: the ones without an age get the next ones,
\* C before B before A.
LeftAges(e, st) ==
    LET left == {s \in Existing(e) : st.ages[s] = NotThere}
        rank == [A |-> Cardinality(left \cap {"B", "C"}), B |-> Cardinality(left \cap {"C"}), C |-> 0]
    IN [s \in Sides |-> IF s \in left THEN NextAge(st.age, rank[s]) ELSE st.ages[s]]

\* Mutant: equal dates are never a conflict.
AgesWithoutConflict(e, eq, latest) ==
    [ages |-> LeftAges(e, AgeLoop(e, eq, latest)), conflict |-> FALSE]

\* When there is no old version, the middle ones are the old ones.
MiddleIsOld(ages) ==
    IF \E s \in Sides : ages[s] = Old THEN ages
    ELSE [s \in Sides |-> IF ages[s] = Middle THEN Old ELSE ages[s]]

\* The ages and m_bConflictingAges that compareFilesAndCalcAges() leaves.
Ages(e, eq, latest) ==
    LET st == AgeLoop(e, eq, latest)
    IN [ages |-> MiddleIsOld(LeftAges(e, st)),
        conflict |-> \E s \in Existing(e) : st.ages[s] = NotThere]

\* updateAge(), of an item that is a folder somewhere: no dates, C is the newest
\* version, then B, then A, and what is flagged equal is as new.
UpdateAge(e, eq) ==
    LET likeC == IF ExistsIn(e, "C") THEN {"C"} \cup {s \in AB : {s, "C"} \in eq} ELSE {}
        likeB == IF ExistsIn(e, "B") /\ "B" \notin likeC
                 THEN {"B"} \cup {s \in {"A"} : AB \in eq} ELSE {}
        ageB  == IF likeC = {} THEN New ELSE Middle
    IN MiddleIsOld([s \in Sides |->
           CASE s \in likeB -> ageB
             [] s \in likeC \ likeB -> New
             [] OTHER -> IF ~ExistsIn(e, s) THEN NotThere ELSE IF likeB = {} THEN ageB ELSE Old])
=============================================================================
