------------------------------ MODULE MergeRun ------------------------------
(* What a folder merge promises, whatever its dialogs, its editor and its    *)
(* status column do: a run is a queue of items that have not ended.  They    *)
(* are executed in order, one at a time; the run stands still on the item it *)
(* stopped at and goes on only when that item has ended; a file ends by      *)
(* being executed or given up, a folder only after everything in it.         *)
(* DirMerge implements this specification.                                   *)
EXTENDS Naturals

CONSTANTS
    Item,       \* the items, numbered in the order they are merged in
    Folders,    \* the items that hold others
    Entries     \* Entries[i]: the items directly in item i

VARIABLES
    todo,       \* the item the run is at and the ones it has still to reach
    ended,      \* the items whose operation is over
    at          \* "rest", or what happens to the current item: "run", "leave"

vars == <<todo, ended, at>>

Current == CHOOSE i \in todo : \A j \in todo : i <= j

Init == todo = {} /\ ended = {} /\ at = "rest"

\* A run starts with items that have not ended; only one run at a time.
Begin(S) ==
    /\ at = "rest" /\ todo = {}
    /\ S # {} /\ S \cap ended = {}
    /\ todo' = S /\ at' = "run"
    /\ UNCHANGED ended

\* The current item's operation is executed; the run may stop there.
Execute ==
    /\ at = "run"
    /\ at' \in {"leave", "rest"}
    /\ UNCHANGED <<todo, ended>>

\* The run goes to the next item.  Of the files only the one it leaves ends;
\* a folder that ends has nothing in it that has not.
Leave ==
    /\ at = "leave"
    /\ todo' = todo \ {Current} /\ todo' \cap ended' = {}
    /\ at' = IF todo' = {} THEN "rest" ELSE "run"
    /\ ended \subseteq ended'
    /\ \A i \in ended' \ ended :
          IF i \in Folders THEN Entries[i] \subseteq ended' ELSE i = Current

\* A run that stands still goes on once its current item has ended.
Continue ==
    /\ at = "rest" /\ todo # {} /\ Current \in ended
    /\ at' = "leave"
    /\ UNCHANGED <<todo, ended>>

\* While the run stands still: its current item is saved or given up, which
\* ends a run that has nothing else; one item is opened instead of the run;
\* items are given other operations; everything is scanned anew.
EndCurrent ==
    /\ at = "rest" /\ todo # {}
    /\ ended' = ended \cup {Current}
    /\ todo' = todo \/ (todo = {Current} /\ todo' = {})
    /\ UNCHANGED at

MergeOne(i) ==
    /\ at = "rest"
    /\ todo' = {i}
    /\ UNCHANGED <<ended, at>>

Reopen ==
    /\ at = "rest"
    /\ ended' \subseteq ended
    /\ UNCHANGED <<todo, at>>

Rescan ==
    /\ at = "rest"
    /\ todo' = {} /\ ended' = {}
    /\ UNCHANGED at

Next ==
    \/ \E S \in SUBSET Item : Begin(S)
    \/ Execute \/ Leave \/ Continue
    \/ EndCurrent \/ Reopen \/ Rescan
    \/ \E i \in Item : MergeOne(i)

Spec == Init /\ [][Next]_vars
=============================================================================
