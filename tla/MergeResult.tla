----------------------------- MODULE MergeResult -----------------------------
(* MergeResultWindow: the merge result as a list of blocks, the commands of *)
(* the Merge menu, the keys of the editor and saving.                       *)
(*                                                                          *)
(* The block a choice is for and the text cursor go wherever the user       *)
(* clicks, so they are inputs of the commands.  Left out: the history merge *)
(* (regular expressions), indentation and tabs, overwriting, and            *)
(* m_nofLines, which is the number of lines once the window is repainted.   *)
EXTENDS MergeBlocks

CONSTANTS
    Char,       \* of the lines
    Typed,      \* those the user types and pastes
    Scenarios
    \* Records: rows, the Diff3LineList; three, whether C is given; white, the
    \* option m_whiteSpace3FileMergeDefault (2File for two inputs) or "None";
    \* keywords, the rows that match m_autoMergeRegExp on all sides; atStart,
    \* m_bRunRegExpAutoMergeOnMergeStart; commands, those the user may give (a
    \* subset of Command); limit, how many of them.

VARIABLES
    scenario,
    blocks,     \* m_mergeBlockList
    modified,   \* m_bModified
    file,       \* history: what the last file written holds
    last,       \* history: the last command
    steps       \* bound: the commands so far

vars == <<scenario, blocks, modified, file, last, steps>>

Command == {"choose", "everywhere", "unsolved", "white", "autoSolve", "unsolve", "regExp",
            "split", "join", "type", "delete", "return", "erase", "paste", "save"}

rows     == scenario.rows
three    == scenario.three
Inputs   == IF three THEN Sides ELSE {"A", "B"}
Numbers  == DOMAIN rows

ASSUME ScenarioAssumption ==
    /\ Typed \subseteq Char
    /\ \A s \in Scenarios :
           /\ s.three \in BOOLEAN
           /\ DOMAIN s.rows = 1..Len(s.rows) /\ Len(s.rows) \in Nat \ {0}
           /\ \A k \in DOMAIN s.rows :
                  LET has == DOMAIN s.rows[k]
                  IN /\ has # {} /\ has \subseteq IF s.three THEN Sides ELSE {"A", "B"}
                     /\ s.rows[k] \in [has -> Seq(Char)]
           /\ s.white \in Sides \cup {"None"} /\ s.atStart \in BOOLEAN
           /\ s.keywords \subseteq DOMAIN s.rows
           /\ s.commands \subseteq Command /\ s.limit \in Nat

Lines(bs) == FlattenSeq([j \in DOMAIN bs |-> bs[j].lines])

\* Every command of the user: it may still be given, and is counted.
Give(c) ==
    /\ c \in scenario.commands /\ steps < scenario.limit
    /\ steps' = steps + 1
    /\ UNCHANGED scenario

-----------------------------------------------------------------------------
(* merge(): from the rows again, or only what is still unsolved. *)

AutoMergeKeyword(bs, k) ==
    LET j == SelectInSeq(bs, LAMBDA b : b.first = k)
        taken == [bs EXCEPT ![j].lines[1] = SourceLine(@.row, IF three THEN "C" ELSE "B", FALSE)]
    IN IF k \notin scenario.keywords \/ j = 0 THEN bs
       ELSE IF ~bs[j].conflict \/ bs[j].lines = <<>> THEN bs
       ELSE SplitAt(taken, k + 1)

\* slotRegExpAutoMerge() visits the block it has just split off next.
RegExpAutoMerge(bs) ==
    LET merged[k \in 0..Len(rows)] == IF k = 0 THEN bs ELSE AutoMergeKeyword(merged[k - 1], k)
    IN merged[Len(rows)]

WithoutEmpty(bs) == [j \in DOMAIN bs |-> RemoveEmptySource(rows, bs[j])]

\* merge(true, Invalid): rows solved as they can be, then white space, then
\* keywords if they are to be merged at the start.
AutoSolved ==
    LET built == BuildFromDiff3(rows, three)
        white == IF scenario.white = "None" THEN built
                 ELSE UpdateDefaults(rows, built, scenario.white, FALSE, TRUE)
    IN IF scenario.atStart THEN RegExpAutoMerge(WithoutEmpty(white)) ELSE WithoutEmpty(white)

\* merge(false, s, conflictsOnly, whiteOnly); s = "Invalid" unsolves.
Merged(bs, s, conflictsOnly, whiteOnly) ==
    WithoutEmpty(UpdateDefaults(rows, IF conflictsOnly THEN bs ELSE BuildFromDiff3(rows, three),
                                s, conflictsOnly, whiteOnly))

Init ==
    /\ scenario \in Scenarios
    /\ blocks = AutoSolved
    /\ modified = FALSE /\ file = "none"
    /\ last = "none" /\ steps = 0

\* A merge from the rows asks before it gives up what was modified.
Decline ==
    /\ \E c \in {"everywhere", "autoSolve", "unsolve"} : Give(c)
    /\ modified
    /\ last' = "declined"
    /\ UNCHANGED <<blocks, modified, file>>

AutoSolve ==
    /\ Give("autoSolve") /\ last' = "autoSolve"
    /\ blocks' = AutoSolved
    /\ modified' = TRUE
    /\ UNCHANGED file

Unsolve ==
    /\ Give("unsolve") /\ last' = "unsolve"
    /\ blocks' = Merged(blocks, "Invalid", FALSE, FALSE)
    /\ modified' = TRUE
    /\ UNCHANGED file

ChooseGlobal(s, conflictsOnly, whiteOnly) ==
    LET c == IF whiteOnly THEN "white" ELSE IF conflictsOnly THEN "unsolved" ELSE "everywhere"
    IN /\ Give(c) /\ last' = c
       /\ blocks' = Merged(blocks, s, conflictsOnly, whiteOnly)
       /\ modified' = TRUE
       /\ UNCHANGED file

ChooseCurrent(j, s) ==
    /\ Give("choose") /\ last' = "choose"
    /\ blocks' = [blocks EXCEPT ![j] = Choose(rows, @, s)]
    /\ modified' = TRUE
    /\ UNCHANGED file

SlotRegExpAutoMerge ==
    /\ Give("regExp") /\ last' = "regExp"
    /\ blocks' = RegExpAutoMerge(blocks)
    /\ UNCHANGED <<modified, file>>

\* The rows selected in a diff window: split behind them, then before them.
SlotSplitDiff(f, l) ==
    /\ Give("split") /\ last' = "split"
    /\ blocks' = SplitAt(SplitAt(blocks, l + 1), f)
    /\ UNCHANGED <<modified, file>>

SlotJoinDiffs(f, l) ==
    /\ Give("join") /\ last' = "join"
    /\ blocks' = JoinDiffs(blocks, f, l)
    /\ UNCHANGED <<modified, file>>

-----------------------------------------------------------------------------
(* The editor: a position is a block and a line of it. *)

Positions    == UNION {{j} \X DOMAIN blocks[j].lines : j \in DOMAIN blocks}
Before(p, q) == p[1] < q[1] \/ (p[1] = q[1] /\ p[2] < q[2])

LineAt(bs, p)   == bs[p[1]].lines[p[2]]
String(p)       == GetString(rows, LineAt(blocks, p))
IsEditable(p)   == ~IsConflict(LineAt(blocks, p))
Put(bs, p, l)   == [bs EXCEPT ![p[1]].lines[p[2]] = l]
Write(bs, p, t) == Put(bs, p, SetString(LineAt(bs, p), t))

\* A line leaves its block, the last one only in name.
Erase(bs, p) ==
    IF Len(bs[p[1]].lines) > 1
    THEN [bs EXCEPT ![p[1]].lines = RemoveAt(@, p[2])]
    ELSE Put(bs, p, SetRemoved(LineAt(bs, p)))

Left(t, x) == SubSeq(t, 1, x)
Mid(t, x)  == SubSeq(t, x + 1, Len(t))

Following(p, q) == Before(p, q) /\ ~\E r \in Positions : Before(p, r) /\ Before(r, q)

Type(p, x, c) ==
    /\ Give("type") /\ last' = "type"
    /\ IsEditable(p)
    /\ blocks' = Write(blocks, p, Left(String(p), x) \o <<c>> \o Mid(String(p), x))
    /\ modified' = TRUE
    /\ UNCHANGED file

\* Delete before the character at x, or Backspace behind it.
DeleteCharacter(p, x) ==
    /\ Give("delete") /\ last' = "delete"
    /\ IsEditable(p) /\ x < Len(String(p))
    /\ blocks' = Write(blocks, p, Left(String(p), x) \o Mid(String(p), x + 1))
    /\ modified' = TRUE
    /\ UNCHANGED file

\* Delete at the end of p, or Backspace at the start of q.
JoinLines(p, q) ==
    /\ Give("delete") /\ last' = "delete"
    /\ Following(p, q) /\ IsEditable(p) /\ IsEditable(q)
    /\ blocks' = Erase(Write(blocks, p, String(p) \o String(q)), q)
    /\ modified' = TRUE
    /\ UNCHANGED file

\* The same when the other line is a conflict: the line itself goes.
RemoveLine(p) ==
    /\ Give("delete") /\ last' = "removeLine"
    /\ IsEditable(p)
    /\ \E q \in Positions : (Following(p, q) \/ Following(q, p)) /\ ~IsEditable(q)
    /\ blocks' = Put(blocks, p, SetRemoved(LineAt(blocks, p)))
    /\ modified' = TRUE
    /\ UNCHANGED file

Insert(bs, p, t) ==
    [bs EXCEPT ![p[1]].lines = InsertAt(@, p[2] + 1, SetString(Line(bs[p[1]].first), t))]

Return(p, x) ==
    LET cut  == IF x < Len(String(p)) THEN Write(blocks, p, Left(String(p), x)) ELSE blocks
        rest == Mid(String(p), x)
        gone == LineAt(cut, p).removed
    IN /\ Give("return") /\ last' = "return"
       /\ IsEditable(p)
       /\ blocks' = IF gone THEN Write(cut, p, rest) ELSE Insert(cut, p, rest)
       /\ modified' = TRUE
       /\ UNCHANGED file

\* deleteSelection(), from column x of p to column y of q.  Conflicts stay.
\* A key or a paste over a selection is this and then the key or the paste.
DeleteSelection(p, x, q, y) ==
    LET within == {r \in Positions : IsEditable(r) /\ ~Before(r, p) /\ ~Before(q, r)}
        first == CHOOSE r \in within : \A s \in within : ~Before(s, r)
        final == CHOOSE r \in within : \A s \in within : ~Before(r, s)
        head  == IF first = p THEN Left(String(p), x) ELSE <<>>
        tail  == IF final = q THEN Mid(String(q), y) ELSE <<>>
        written == Write(blocks, first, head \o tail)
        others(j) == {i \in DOMAIN blocks[j].lines : <<j, i>> \in within \ {first}}
        kept(j) == Kept(written[j].lines, DOMAIN written[j].lines \ others(j))
        left(j) == IF kept(j) # <<>> \/ others(j) = {} THEN kept(j)
                   ELSE <<SetRemoved(Last(written[j].lines))>>
    IN /\ Give("erase") /\ last' = "erase"
       /\ ~Before(q, p) /\ (p = q => x < y)
       /\ blocks' = IF within = {} THEN blocks
                    ELSE [j \in DOMAIN blocks |-> [blocks[j] EXCEPT !.lines = left(j)]]
       /\ modified' = TRUE
       /\ UNCHANGED file

\* pasteClipboard(): one line, or two; a conflict is pasted over.
Paste(p, x, clip) ==
    LET left == Left(String(p), x)
        rest == Mid(String(p), x)
    IN /\ Give("paste") /\ last' = "paste"
       /\ blocks' = IF Len(clip) = 1 THEN Write(blocks, p, left \o clip[1] \o rest)
                    ELSE Insert(Write(blocks, p, left \o clip[1]), p, clip[2] \o rest)
       /\ modified' = TRUE
       /\ UNCHANGED file

-----------------------------------------------------------------------------
(* saveDocument().  The first line of an empty block is read all the same,   *)
(* and may count as a conflict.                                              *)

\* Mutant: white space conflicts are not counted.
UnsolvedConflictsReal ==
    {j \in DOMAIN blocks : /\ blocks[j].lines # <<>> /\ ~blocks[j].ws
                           /\ IsConflict(blocks[j].lines[1])}

UnsolvedConflicts == {j \in DOMAIN blocks : blocks[j].lines # <<>> /\ IsConflict(blocks[j].lines[1])}

\* EncodedData leaves conflicts out.
SaveDocument ==
    /\ Give("save") /\ last' = "save"
    /\ UnsolvedConflicts = {}
    /\ file' = IF \E i \in DOMAIN Lines(blocks) : IsConflict(Lines(blocks)[i])
               THEN "partial" ELSE "whole"
    /\ modified' = FALSE
    /\ UNCHANGED blocks

Columns(p) == 0..Len(String(p))

Choosing ==
    \/ \E j \in DOMAIN blocks, s \in Inputs : ChooseCurrent(j, s)
    \/ \E s \in Inputs, w \in BOOLEAN : ChooseGlobal(s, TRUE, w)
    \/ \E s \in Inputs : ChooseGlobal(s, FALSE, FALSE)
    \/ AutoSolve \/ Unsolve \/ Decline \/ SlotRegExpAutoMerge

Keys ==
    \E p \in Positions :
        \/ \E x \in Columns(p) :
               \/ DeleteCharacter(p, x) \/ Return(p, x)
               \/ \E c \in Typed :
                      \/ Type(p, x, c)
                      \/ \E clip \in {<<<<c>>>>, <<<<c>>, <<>>>>} : Paste(p, x, clip)
               \/ \E q \in Positions : \E y \in Columns(q) : DeleteSelection(p, x, q, y)
        \/ \E q \in Positions : JoinLines(p, q)
        \/ RemoveLine(p)

Regroup == \E f \in Numbers : \E l \in f..Len(rows) : SlotSplitDiff(f, l) \/ SlotJoinDiffs(f, l)

Next == Choosing \/ Regroup \/ Keys \/ SaveDocument

Spec == Init /\ [][Next]_vars
-----------------------------------------------------------------------------
(* Properties. *)

\* No file is written from which a conflict was left out: that it is enough to
\* look at the first line of each block, whatever was chosen, split, typed or
\* pasted before.
NothingUnsolvedIsSaved == file # "partial"

\* What an input has to say of a row, and what three inputs agree on.
Says(k, s) == IF s \in DOMAIN rows[k] THEN <<rows[k][s]>> ELSE <<>>

Agreed(k) == IF Says(k, "A") = Says(k, "B") THEN Says(k, "C")
             ELSE IF Says(k, "A") = Says(k, "C") THEN Says(k, "B") ELSE Says(k, "C")

Clashing(k) == \A s, t \in Sides : s # t => Says(k, s) # Says(k, t)

\* What a line of the result is in the file.
FileLine(l) == IF IsConflict(l) \/ l.removed THEN <<>> ELSE <<GetString(rows, l)>>

\* The automatic merge is the three-way merge of every row: a change that one
\* side made, or both alike, is taken, and what both changed differently, and
\* nothing else, is a conflict.  The lines come in the order of the rows.
AutoMergeIsThreeWay ==
    three /\ last \in {"none", "autoSolve"} /\ scenario.white = "None" /\ ~scenario.atStart =>
        LET ls == Lines(blocks)
        IN /\ \A j \in DOMAIN blocks : \A k \in Range(RowsOf(blocks[j])) :
                  Clashing(k) <=> IsConflict(blocks[j].lines[1])
           /\ FlattenSeq([i \in DOMAIN ls |-> FileLine(ls[i])])
                = FlattenSeq([k \in Numbers |-> IF Clashing(k) THEN <<>> ELSE Agreed(k)])

\* "Choose ... for all unsolved conflicts", or for the white space ones, leaves
\* every block alone that is solved and that the user has written nothing in,
\* and the second one every block with a row that differs in more than that.
\* (Blocks the user has written in: see README, "Disagreements".)
SolvedBlocksAreKept ==
    [][LET solved(b) == b.lines # <<>> /\ ~IsConflict(b.lines[1])
           white(b) == \A k \in Range(RowsOf(b)) : WhiteSpaceConflict(rows[k], three)
       IN last' \in {"unsolved", "white"} =>
              \A j \in DOMAIN blocks :
                  ~HasModifiedText(blocks[j]) /\ (solved(blocks[j]) \/ (last' = "white" /\ ~white(blocks[j])))
                      => blocks'[j].lines = blocks[j].lines]_vars

Characters(bs) == LET ls == Lines(bs) IN FlattenSeq([i \in DOMAIN ls |-> GetString(rows, ls[i])])

\* A key changes the one character it is for.  Breaking a line, joining two and
\* splitting a block change none, in whichever blocks the lines are.
EditingKeepsTheRest ==
    [][LET old == Characters(blocks)
           new == Characters(blocks')
       IN /\ last' \in {"return", "split"} => new = old
          /\ last' \in {"type", "paste"} => \E i \in DOMAIN new : RemoveAt(new, i) = old
          /\ last' = "delete" => new = old \/ \E i \in DOMAIN old : RemoveAt(old, i) = new]_vars
=============================================================================
