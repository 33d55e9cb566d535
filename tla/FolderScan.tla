----------------------------- MODULE FolderScan -----------------------------
(* The folder comparison: which items a scan lists, which of them count as  *)
(* equal, which operation every item gets, and how the menus change that.   *)
(*                                                                          *)
(* Composes MergeFileInfos (one item) and SuggestedOperation (operations).  *)
(* The tree of all items is numbered in the order of m_fileMergeMap, which  *)
(* is the display order; a scan that is cancelled lists the items up to the *)
(* one it was at.  Files do not change while the window is open.            *)
EXTENDS MergeFileInfos, SuggestedOperation

CONSTANTS
    Parent,    \* Parent[i] < i: the folder of item i, 0 for the top level; a tree
               \* may have fewer items
    Windows,   \* the comparisons: [threeWay, sync, copyNewer, dest]
    Trees,     \* the folders' contents: Trees[..][i] is the entry of item i
    Latest,    \* the newest date
    Shows,     \* the combinations of "Show ..." options the user tries
    MaxSteps   \* bound: the number of commands after the first scan of two
               \* folders, MaxSteps[FALSE], and of three, MaxSteps[TRUE]

ShowOptions == {"Identical", "Different", "A", "B", "C"}

VARIABLES
    window,    \* the comparison: three-way, sync mode, options, destination
    tree,      \* the entries of all items
    listed,    \* number of items in the tree view
    equal,     \* equal[i]: the pairs of sides flagged equal
    ages,      \* ages[i]: ages and m_bConflictingAges
    op,        \* m_eMergeOperation
    shown,     \* the checked "Show ..." options
    cut,       \* history: the comparisons of the last item cancelled
    chosen,    \* history: the last choice of operations: [item, op, full],
               \* item 0 for all, op "scan" for a scan; full: with every item
               \* compared and listed
    steps      \* the number of commands so far

vars == <<window, tree, listed, equal, ages, op, shown, cut, chosen, steps>>

Items == DOMAIN Parent
Listed == 1..listed
Above(i) == {a \in Items : a < i /\ \A k \in (a + 1)..i : Parent[k] >= a}

\* The items are in the order of the tree view: a folder, then all it holds. An
\* item is there on some side, and on a side only if the folders above it are.
ASSUME FoldersAssumption ==
    /\ Len(Parent) \in Nat /\ Items = 1..Len(Parent) /\ Latest \in Nat
    /\ \A i \in Items : Parent[i] \in {0} \cup Above(i)
    /\ \A t \in Trees :
           /\ Len(t) \in 0..Len(Parent) /\ DOMAIN t = 1..Len(t)
           /\ \A i \in DOMAIN t :
                  /\ Existing(t[i]) # {}
                  /\ \A s \in Existing(t[i]) : t[i].date[s] \in 0..Latest
                  /\ \A a \in Above(i), s \in Sides : ExistsIn(t[i], s) => IsDir(t[a], s)

\* The destination is one of the folders or another one; allowSyncMode() wants two
\* folders and no other destination.
ASSUME WindowsAssumption ==
    \A w \in Windows :
        /\ w.dest \in (IF w.threeWay THEN Sides ELSE AB) \cup {"other"}
        /\ w.threeWay \in BOOLEAN /\ w.sync \in BOOLEAN /\ w.copyNewer \in BOOLEAN
        /\ w.sync => ~w.threeWay /\ w.dest = "B"

Below(i) == {j \in Listed : i \in Above(j)}

\* What SuggestedOperation asks of the window and of an item.
Situation(w) ==
    [threeWay |-> w.threeWay, copyNewer |-> w.copyNewer, otherDest |-> w.dest = "other"]

Info(e, eq, age) ==
    [inA |-> ExistsIn(e, "A"), inB |-> ExistsIn(e, "B"), inC |-> ExistsIn(e, "C"),
     eqAB |-> AB \in eq, eqAC |-> AC \in eq, eqBC |-> BC \in eq,
     dirA |-> IsDir(e, "A"), typeConflict |-> ConflictingFileTypes(e),
     ageConflict |-> age.conflict, newA |-> age.ages["A"] = New]

-----------------------------------------------------------------------------
(* updateFileVisibilities(): the first round sets every folder equal and    *)
(* lets each visible difference reach the folders above it; the second only  *)
(* hides rows.                                                               *)

AllEqual(eq, w) == AB \in eq /\ (AC \in eq \/ ~w.threeWay)

Visible(e, eq, show, w) ==
    \/ "Identical" \in show /\ ExistsEverywhere(e, w.threeWay) /\ AllEqual(eq, w)
    \/ ("Different" \in show \/ HasDir(e)) /\ Cardinality(Existing(e)) >= 2 /\ ~AllEqual(eq, w)
    \/ \E s \in Sides : s \in show /\ OnlyIn(e, s)

\* Mutant: the walk upwards stops at a folder that is already different.
UpdateParentsOnce(eq, i) ==
    [a \in DOMAIN eq |-> IF a = Parent[i] THEN eq[a] \cap eq[i] ELSE eq[a]]

\* updateParents(): up to the first folder it leaves as it is.
UpdateParents(eq, i) ==
    LET changed == {a \in Above(i) : \A b \in Above(i) : b >= a => ~(eq[b] \subseteq eq[i])}
    IN [a \in DOMAIN eq |-> IF a \in changed THEN eq[a] \cap eq[i] ELSE eq[a]]

\* updateDirectoryOrLink()
AssumedEqual(e, eq) == IF HasDir(e) THEN eq \cup {p \in Pairs : SameKind(e, p)} ELSE eq

FolderEquality(entries, eq, show, w) ==
    LET n == Len(eq)
        after[i \in 0..n] ==
            IF i = 0 THEN eq
            ELSE LET now == [after[i - 1] EXCEPT ![i] = AssumedEqual(entries[i], @)]
                 IN IF ~AllEqual(now[i], w) /\ Visible(entries[i], now[i], show, w)
                    THEN UpdateParents(now, i) ELSE now
    IN after[n]

\* The ages with those of the folders, which follow every change of their flags.
FolderAges(entries, eq, age) ==
    [i \in DOMAIN eq |-> IF HasDir(entries[i])
                         THEN [age[i] EXCEPT !.ages = UpdateAge(entries[i], eq[i])] ELSE age[i]]

-----------------------------------------------------------------------------
(* setMergeOperation and setAllMergeOperations of SuggestedOperation, for    *)
(* the listed items.                                                         *)
ListedParent == [i \in Listed |-> Parent[i]]

Infos(eq, age) == [i \in DOMAIN eq |-> Info(tree[i], eq[i], age[i])]

\* The operations after the sequences "seqs" were set on the items.
LastSet(seqs, before) ==
    [i \in DOMAIN seqs |-> IF seqs[i] = <<>> THEN before[i] ELSE seqs[i][Len(seqs[i])]]

ScanDefault(w) ==
    IF w.threeWay THEN "eMergeABCToDest" ELSE IF w.sync THEN "eMergeToAB" ELSE "eMergeABToDest"

\* init(): the scan of an unchanged folder, the first "n" items of it.
ScanResult(w, entries, n, c, show) ==
    LET compared == [i \in 1..n |-> ComparedEqual(entries[i], IF i = n THEN c ELSE {})]
        eq       == FolderEquality(entries, compared, show, w)
        age      == FolderAges(entries, eq, [i \in 1..n |-> Ages(entries[i], compared[i], Latest)])
        info     == [i \in 1..n |-> Info(entries[i], eq[i], age[i])]
        parent   == [i \in 1..n |-> Parent[i]]
    IN [equal |-> eq, ages |-> age,
        op |-> LastSet(SetAll(parent, info, ScanDefault(w), Situation(w)),
                       [i \in 1..n |-> NoOp])]

\* The comparisons of an item that Cancel can cut short: the last ones.
Cuts == {{}, {BC}, {AC, BC}, Pairs}

Init ==
    /\ window \in Windows
    /\ tree \in Trees
    /\ window.threeWay = \E i \in DOMAIN tree : ExistsIn(tree[i], "C")
    /\ shown \in Shows
    /\ listed = Len(tree) /\ cut = {} /\ steps = 0
    /\ LET r == ScanResult(window, tree, listed, {}, shown)
       IN equal = r.equal /\ ages = r.ages /\ op = r.op
    /\ chosen = [item |-> 0, op |-> "scan", full |-> shown = ShowOptions]

\* Rescan, perhaps cancelled while item n is compared.
Rescan(n, c) ==
    /\ n < Len(tree) => c # {}
    /\ n <= Len(tree)
    /\ listed' = n /\ cut' = c
    /\ LET r == ScanResult(window, tree, n, c, shown)
       IN equal' = r.equal /\ ages' = r.ages /\ op' = r.op
    /\ chosen' = [item |-> 0, op |-> "scan",
                   full |-> shown = ShowOptions /\ n = Len(tree) /\ c = {}]
    /\ UNCHANGED <<window, tree, shown>>

\* One of the "Show ..." options is switched.
UpdateFileVisibilities(show) ==
    /\ shown' = show
    /\ equal' = FolderEquality(tree, equal, show, window)
    /\ ages' = FolderAges(tree, equal', ages)
    /\ UNCHANGED <<window, tree, listed, op, cut, chosen>>

FullyListed == shown = ShowOptions /\ listed = Len(tree) /\ cut = {}

\* The menus: what updateAvailabilities() enables for an item.
ItemChoices(e) ==
    LET there(s)   == s \in Existing(e)
        mergeable  == ~ConflictingFileTypes(e)
    IN IF window.sync
       THEN {NoOp} \cup {o \in {"eCopyAToB", "eDeleteA"} : there("A")}
                   \cup {o \in {"eCopyBToA", "eDeleteB"} : there("B")}
                   \cup {o \in {"eDeleteAB"} : there("A") /\ there("B")}
                   \cup {o \in SyncMergeOps : mergeable}
       ELSE {NoOp, "eDeleteFromDest"}
            \cup {o \in {"eCopyAToDest"} : there("A")} \cup {o \in {"eCopyBToDest"} : there("B")}
            \cup {o \in {"eCopyCToDest"} : there("C")}
            \cup {o \in {IF window.threeWay THEN "eMergeABCToDest" ELSE "eMergeABToDest"} : mergeable}

SetMergeOperation(i, o) ==
    /\ i \in Listed /\ o \in ItemChoices(tree[i])
    /\ op' = LastSet(SetOne(ListedParent, Infos(equal, ages), i, o, Situation(window)), op)
    /\ chosen' = [item |-> i, op |-> o, full |-> FullyListed]
    /\ UNCHANGED <<window, tree, listed, equal, ages, shown, cut>>

\* The "... for all items" menu knows no sync mode but for the automatic choice.
AllChoices ==
    {ScanDefault(window), "eCopyAToDest", "eCopyBToDest", NoOp}
        \cup {o \in {"eCopyCToDest"} : window.threeWay}

SetAllMergeOperations(o) ==
    /\ o \in AllChoices
    /\ op' = LastSet(SetAll(ListedParent, Infos(equal, ages), o, Situation(window)), op)
    /\ chosen' = [item |-> 0, op |-> o, full |-> FullyListed]
    /\ UNCHANGED <<window, tree, listed, equal, ages, shown, cut>>

Next ==
    /\ steps < MaxSteps[window.threeWay] /\ steps' = steps + 1
    /\ \/ \E n \in Items, c \in Cuts : Rescan(n, c)
       \/ \E show \in Shows : UpdateFileVisibilities(show)
       \/ \E i \in Items, o \in SyncOps \cup MergeOps \cup {NoOp} : SetMergeOperation(i, o)
       \/ \E o \in SyncOps \cup MergeOps \cup {NoOp} : SetAllMergeOperations(o)

Spec == Init /\ [][Next]_vars

-----------------------------------------------------------------------------
(* What an operation makes of an item: the contents afterwards.  A manual    *)
(* merge and a conflict are the user's.                                      *)

ByHand == ManualOps \cup ConflictOps

Before(e, s) == IF s = "other" THEN "none" ELSE e.content[s]

\* The content of side s after operation o, "A" .. "C" or "other".
After(e, o, s, w) ==
    CASE o = "eCopyAToB" /\ s = "B" -> e.content["A"]
      [] o = "eCopyBToA" /\ s = "A" -> e.content["B"]
      [] o = "eCopyAToDest" /\ s = w.dest -> e.content["A"]
      [] o = "eCopyBToDest" /\ s = w.dest -> e.content["B"]
      [] o = "eCopyCToDest" /\ s = w.dest -> e.content["C"]
      [] \/ o = "eDeleteFromDest" /\ s = w.dest
         \/ o \in {"eDeleteA", "eDeleteAB"} /\ s = "A"
         \/ o \in {"eDeleteB", "eDeleteAB"} /\ s = "B" -> "none"
      [] OTHER -> Before(e, s)

\* The operations are those a scan or the automatic choice proposed.
Automatic == chosen.full /\ chosen.item = 0 /\ chosen.op \in {"scan", ScanDefault(window)}

\* The three-way merge of an item: a change on one side wins, and so does the
\* same change on both.
Merged(e) ==
    LET a == e.content["A"]  b == e.content["B"]  c == e.content["C"]
    IN IF b = c \/ a = b THEN c ELSE IF a = c THEN b ELSE "conflict"

\* A folder on one side, and no folder on two others, which differ: these two
\* are flagged equal because neither is a folder.
TakenForEqual(e) ==
    HasDir(e) /\ \E p \in Pairs : SameKind(e, p) /\ \E s, t \in p : e.content[s] # e.content[t]

-----------------------------------------------------------------------------
(* Properties. *)

\* Two versions of a folder are flagged equal exactly if both are folders (or
\* neither is one) and no visible difference below separates them, whatever
\* was shown, hidden and shown again before.
FolderEqualityIsRight ==
    \A i \in Listed : HasDir(tree[i]) =>
        equal[i] = {p \in Pairs : SameKind(tree[i], p) /\
                       \A j \in Below(i) :
                           ~AllEqual(equal[j], window) /\ Visible(tree[j], equal[j], shown, window)
                               => p \in equal[j]}

\* Three folders: whatever is done without asking gives the destination what a
\* three-way merge would, and the user is asked to merge a file only when both
\* sides changed it differently.  (Not where a folder on one side makes
\* different files count as equal: see README, "Disagreements".)
ProposalIsThreeWayMerge ==
    Automatic /\ window.threeWay => \A i \in {j \in Listed : ~TakenForEqual(tree[j])} :
        /\ op[i] \notin ByHand => After(tree[i], op[i], window.dest, window) = Merged(tree[i])
        /\ op[i] \in ManualOps /\ ~HasDir(tree[i]) => Merged(tree[i]) = "conflict"

\* Two folders and a destination: nothing that exists is left out, and of two
\* different files either the newer one is taken or the user is asked.
ProposalKeepsBothFolders ==
    Automatic /\ ~window.threeWay /\ ~window.sync => \A i \in Listed :
        LET e == tree[i]
            result == After(e, op[i], window.dest, window)
        IN op[i] \notin ByHand =>
            /\ result # "none"
            /\ \A s \in AB : ExistsIn(e, s) /\ e.content[s] # result
                    => window.copyNewer /\ \E t \in AB : e.date[t] > e.date[s]

\* Handbook: "KDiff3 then selects a default operation so that both folders are
\* the same afterwards."  In sync mode the proposal makes A and B the same, a
\* different file is never overwritten by an older one, and nothing is deleted.
\* (Not below a folder that is a file on the other side: see README, "Disagreements".)
SyncProposalMakesFoldersSame ==
    Automatic /\ window.sync => \A i \in {j \in Listed : \A a \in Above(j) :
                                               ~ConflictingFileTypes(tree[a])} :
        LET e == tree[i]
            a == After(e, op[i], "A", window)
            b == After(e, op[i], "B", window)
        IN op[i] \notin ByHand =>
            /\ a = b /\ a # "none"
            /\ \A s \in AB : ExistsIn(e, s) /\ e.content[s] # a
                    => window.copyNewer /\ \E t \in AB : e.date[t] > e.date[s]

=============================================================================
