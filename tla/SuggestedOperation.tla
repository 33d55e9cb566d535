------------------------- MODULE SuggestedOperation -------------------------
(* calcSuggestedOperation and setMergeOperation of the folder merge: which   *)
(* operation an item gets from a default, and how an operation spreads over  *)
(* a subtree.                                                                *)
(*                                                                           *)
(* An item is a record: inA, inB, inC (exists there), eqAB, eqAC, eqBC,      *)
(* dirA, typeConflict (conflictingFileTypes()), ageConflict and newA (A has  *)
(* age eNew).  The situation of the whole window is a record: threeWay,      *)
(* copyNewer, otherDest (the destination is none of the inputs).             *)
EXTENDS Integers, SequencesExt, MergeOperation

\* The defaults calcSuggestedOperation treats as "merge".
MergeDefaults == ManualOps

\* The item exists in exactly the given folders.
Exists(m, dirs) == dirs = {d \in {"A", "B", "C"} :
    \/ d = "A" /\ m.inA
    \/ d = "B" /\ m.inB
    \/ d = "C" /\ m.inC}

\* Mutant: files with conflicting ages are copied like any other.
TwoWaySuggestionByAge(m, dflt, w) ==
    CASE m.eqAB -> IF w.otherDest THEN "eCopyBToDest" ELSE NoOp
      [] ~m.eqAB /\ m.inA /\ m.inB ->
            IF ~w.copyNewer \/ m.dirA THEN dflt
            ELSE IF m.newA
                 THEN IF dflt = "eMergeToAB" THEN "eCopyAToB" ELSE "eCopyAToDest"
                 ELSE IF dflt = "eMergeToAB" THEN "eCopyBToA" ELSE "eCopyBToDest"
      [] OTHER -> IF m.inA THEN "eCopyAToDest" ELSE "eCopyBToDest"

\* An item of two folders, with a merge as default.
TwoWaySuggestion(m, dflt, w) ==
    CASE m.eqAB -> IF w.otherDest THEN "eCopyBToDest" ELSE NoOp
      [] ~m.eqAB /\ m.inA /\ m.inB ->
            IF ~w.copyNewer \/ m.dirA THEN dflt
            ELSE IF m.ageConflict THEN "eConflictingAges"
            ELSE IF m.newA
                 THEN IF dflt = "eMergeToAB" THEN "eCopyAToB" ELSE "eCopyAToDest"
                 ELSE IF dflt = "eMergeToAB" THEN "eCopyBToA" ELSE "eCopyBToDest"
      [] ~m.eqAB /\ ~m.inA /\ m.inB ->
            IF dflt = "eMergeABToDest" THEN "eCopyBToDest"
            ELSE IF dflt = "eMergeToB" THEN NoOp ELSE "eCopyBToA"
      [] ~m.eqAB /\ m.inA /\ ~m.inB ->
            IF dflt = "eMergeABToDest" THEN "eCopyAToDest"
            ELSE IF dflt = "eMergeToA" THEN NoOp ELSE "eCopyAToB"
      [] OTHER -> NoOp

\* Mutant: the same change in B and C is merged by hand.
ThreeWaySuggestionAsks(m, w) ==
    IF m.eqAB /\ m.eqAC THEN IF w.otherDest THEN "eCopyCToDest" ELSE NoOp
    ELSE IF m.eqAB THEN "eCopyCToDest" ELSE IF m.eqAC THEN "eCopyBToDest" ELSE "eMergeABCToDest"

\* An item of three folders.
ThreeWaySuggestion(m, w) ==
    IF m.eqAB /\ m.eqAC THEN IF w.otherDest THEN "eCopyCToDest" ELSE NoOp
    ELSE CASE Exists(m, {"A", "B", "C"}) ->
                IF m.eqAB \/ m.eqBC THEN "eCopyCToDest"
                ELSE IF m.eqAC THEN "eCopyBToDest" ELSE "eMergeABCToDest"
           [] Exists(m, {"A", "B"}) -> IF m.eqAB THEN "eDeleteFromDest" ELSE "eChangedAndDeleted"
           [] Exists(m, {"A", "C"}) -> IF m.eqAC THEN "eDeleteFromDest" ELSE "eChangedAndDeleted"
           [] Exists(m, {"B", "C"}) -> IF m.eqBC THEN "eCopyCToDest" ELSE "eMergeABCToDest"
           [] Exists(m, {"C"}) -> "eCopyCToDest"
           [] Exists(m, {"B"}) -> "eCopyBToDest"
           [] Exists(m, {"A"}) -> "eDeleteFromDest"
           [] OTHER -> NoOp

\* A copy default turns into a deletion where there is nothing to copy.
CopySuggestion(m, dflt) ==
    CASE dflt = "eCopyAToB"    /\ ~m.inA -> "eDeleteB"
      [] dflt = "eCopyBToA"    /\ ~m.inB -> "eDeleteA"
      [] dflt = "eCopyAToDest" /\ ~m.inA -> "eDeleteFromDest"
      [] dflt = "eCopyBToDest" /\ ~m.inB -> "eDeleteFromDest"
      [] dflt = "eCopyCToDest" /\ ~m.inC -> "eDeleteFromDest"
      [] OTHER -> dflt

\* The two defaults that belong to the other kind of comparison.
Recovered(dflt, w) ==
    IF dflt = "eMergeABCToDest" /\ ~w.threeWay THEN "eMergeABToDest"
    ELSE IF dflt = "eMergeToAB" /\ w.threeWay THEN "eMergeABCToDest"
    ELSE dflt

\* calcSuggestedOperation: the operations it sets on the item, in order.
\* A merge of conflicting file types is corrected by a second call.
CalcSuggestedOperation(m, default, w) ==
    LET dflt == Recovered(default, w)
    IN IF dflt \in MergeDefaults
       THEN << IF w.threeWay THEN ThreeWaySuggestion(m, w) ELSE TwoWaySuggestion(m, dflt, w) >>
            \o (IF m.typeConflict THEN <<"eConflictingFileTypes">> ELSE <<>>)
       ELSE << CopySuggestion(m, dflt) >>

\* The default setMergeOperation gives the children of an item.
ChildDefault(o, w) ==
    IF o # "eConflictingFileTypes" THEN o
    ELSE IF w.threeWay THEN "eMergeABCToDest" ELSE "eMergeABToDest"

\* The operations set on every item of a tree (Parent[j] < j, 0 for the top
\* level) when the items in DOMAIN start get the operations start[j].
Cascade(Parent, info, start, w) ==
    LET ops[j \in DOMAIN Parent] ==
            IF j \in DOMAIN start THEN start[j]
            ELSE IF Parent[j] = 0 THEN <<>>
            ELSE LET p == ops[Parent[j]]
                 IN FlattenSeq([k \in DOMAIN p |->
                        CalcSuggestedOperation(info[j], ChildDefault(p[k], w), w)])
    IN ops

\* setMergeOperation(i, o) and setAllMergeOperations(o).
SetOne(Parent, info, i, o, w) == Cascade(Parent, info, [j \in {i} |-> <<o>>], w)

SetAll(Parent, info, o, w) ==
    Cascade(Parent, info,
            [j \in {i \in DOMAIN Parent : Parent[i] = 0} |-> CalcSuggestedOperation(info[j], o, w)], w)
=============================================================================
