--------------------------- MODULE ManualDiffHelp ---------------------------
(* The list of lines the user has chosen to stand beside each other          *)
(* (ManualDiffHelpList in diff.h and diff.cpp): entries that hold a range of *)
(* lines for some of the inputs.  Lines are numbered from 1; 0 is the        *)
(* invalid LineRef.                                                          *)
EXTENDS ListParts

Sides == {"A", "B", "C"}

NoLine == 0

\* A half of an entry: the first and the last line of the range on one side.
NoRange == [first |-> NoLine, last |-> NoLine]

EmptyEntry == [s \in Sides |-> NoRange]

NewEntry(s, range) == [EmptyEntry EXCEPT ![s] = range]

FirstLine(e, s) == e[s].first
LastLine(e, s)  == e[s].last

Chosen(e) == {s \in Sides : FirstLine(e, s) # NoLine}

-----------------------------------------------------------------------------
(* insertEntry(): the range removes the ranges whose first or last line it   *)
(* contains and takes its place before the first range that follows it.  The *)
(* list is then compacted in one pass: what an entry lacks moves up from the *)
(* next one, and empty entries go.                                           *)
Overlaps(range, old) ==
    \/ range.first <= old.first /\ old.first <= range.last
    \/ range.first <= old.last /\ old.last <= range.last

FollowsNew(list, s, range, k) ==
    /\ FirstLine(list[k], s) # NoLine
    /\ ~Overlaps(range, list[k][s])
    /\ range.last < FirstLine(list[k], s)

\* Where the new entry goes: before the first range that follows it.
NewPlace(list, s, range) ==
    IF \E k \in DOMAIN list : FollowsNew(list, s, range, k)
    THEN CHOOSE k \in DOMAIN list :
            /\ FollowsNew(list, s, range, k)
            /\ \A j \in 1..k - 1 : ~FollowsNew(list, s, range, j)
    ELSE Len(list) + 1

WithNew(list, s, range) ==
    LET place == NewPlace(list, s, range)
        kept == [k \in DOMAIN list |->
                    IF k < place /\ FirstLine(list[k], s) # NoLine /\ Overlaps(range, list[k][s])
                    THEN [list[k] EXCEPT ![s] = NoRange] ELSE list[k]]
    IN InsertAt(kept, place, NewEntry(s, range))

\* The entry at k takes over from the next what it lacks; the next keeps the rest.
Lifted(upper, lower) ==
    [s \in Sides |-> IF FirstLine(upper, s) = NoLine THEN lower[s] ELSE upper[s]]
LeftOver(upper, lower) ==
    [s \in Sides |-> IF FirstLine(upper, s) = NoLine THEN NoRange ELSE lower[s]]

Lift(list, k) ==
    IF k = Len(list) THEN list
    ELSE [list EXCEPT ![k] = Lifted(list[k], list[k + 1]),
                      ![k + 1] = LeftOver(list[k], list[k + 1])]

Compacted(list) ==
    LET lifted[k \in 0..Len(list)] == IF k = 0 THEN list ELSE Lift(lifted[k - 1], k)
        all == lifted[Len(list)]
    IN Kept(all, {k \in DOMAIN all : all[k] # EmptyEntry})

InsertEntry(list, s, range) == Compacted(WithNew(list, s, range))

-----------------------------------------------------------------------------
(* isValidMove(): line l1 of side s and line l2 of side t may share a row    *)
(* unless a range starts or ends between them.                               *)
PassesBarrier(l1, l2, b1, b2) == (l1 >= b1) # (l2 >= b2)

IsValidMove(list, l1, l2, s, t) ==
    l1 # NoLine /\ l2 # NoLine =>
        \A k \in DOMAIN list :
            {s, t} \subseteq Chosen(list[k]) =>
                /\ ~PassesBarrier(l1, l2, FirstLine(list[k], s), FirstLine(list[k], t))
                /\ ~PassesBarrier(l1, l2, LastLine(list[k], s) + 1, LastLine(list[k], t) + 1)

\* runDiff(): the sections two inputs are compared in, as the last line of each
\* on both sides.  Every entry that names both sides ends a section before its
\* first lines and one after its last lines.
SectionEnds(list, s, t, sizeS, sizeT) ==
    FlattenSeq([k \in DOMAIN list |->
        IF {s, t} \subseteq Chosen(list[k])
        THEN <<[s |-> FirstLine(list[k], s) - 1, t |-> FirstLine(list[k], t) - 1],
               [s |-> LastLine(list[k], s), t |-> LastLine(list[k], t)]>>
        ELSE <<>>]) \o <<[s |-> sizeS, t |-> sizeT]>>
=============================================================================
