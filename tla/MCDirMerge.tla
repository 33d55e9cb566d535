----------------------------- MODULE MCDirMerge -----------------------------
(* A folder with two files, compared in two folders: item 1 is the folder,   *)
(* 2 differs in A and B, 3 exists in A only.                                 *)
EXTENDS DirMerge

S == INSTANCE SuggestedOperation

MCLast == <<3, 2, 3>>
MCParent == <<0, 1, 1>>

Window == [threeWay |-> FALSE, copyNewer |-> FALSE, otherDest |-> FALSE]

Entry(a, b, dir) ==
    [inA |-> a, inB |-> b, inC |-> FALSE, eqAB |-> FALSE, eqAC |-> FALSE, eqBC |-> FALSE,
     dirA |-> dir, typeConflict |-> FALSE, ageConflict |-> FALSE, newA |-> FALSE]

Info == <<Entry(TRUE, TRUE, TRUE), Entry(TRUE, TRUE, FALSE),
          Entry(TRUE, FALSE, FALSE)>>

MCUserOps == {"eCopyAToDest"}
MCDefaultOps == {"eMergeABToDest"}

MCAssigned == [i \in 1..3 |-> [o \in MCUserOps |-> S!SetOne(MCParent, Info, i, o, Window)]]
MCAssignedAll == [o \in MCDefaultOps |-> S!SetAll(MCParent, Info, o, Window)]

MCViews == {1..3}
=============================================================================
