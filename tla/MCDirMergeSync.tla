--------------------------- MODULE MCDirMergeSync ---------------------------
(* Synchronising two folders, "Copy newer instead of merging" chosen:        *)
(* item 1 is a folder, its file 2 has equal dates and different contents,    *)
(* which is a conflict until the user chooses an operation.                  *)
EXTENDS DirMerge

S == INSTANCE SuggestedOperation

MCLast == <<2, 2>>
MCParent == <<0, 1>>

Window == [threeWay |-> FALSE, copyNewer |-> TRUE, otherDest |-> FALSE]

Entry(dir, ages) ==
    [inA |-> TRUE, inB |-> TRUE, inC |-> FALSE, eqAB |-> FALSE, eqAC |-> FALSE, eqBC |-> FALSE,
     dirA |-> dir, typeConflict |-> FALSE, ageConflict |-> ages, newA |-> FALSE]

Info == <<Entry(TRUE, FALSE), Entry(FALSE, TRUE)>>

MCUserOps == {"eMergeToAB", "eMergeToA"}
MCDefaultOps == {"eMergeToAB"}

MCAssigned == [i \in 1..2 |-> [o \in MCUserOps |-> S!SetOne(MCParent, Info, i, o, Window)]]
MCAssignedAll == [o \in MCDefaultOps |-> S!SetAll(MCParent, Info, o, Window)]

MCViews == {1..2, {1}}
=============================================================================
