------------------------------ MODULE DirMerge ------------------------------
(* The folder merge of DirectoryMergeWindow: the operation, completion flag *)
(* and status of every item, the three merge flags, m_mergeItemList with    *)
(* its cursor, and the user commands that drive mergeContinue().            *)
(*                                                                          *)
(* The tree of MergeFileInfos is numbered in display order: item i has the  *)
(* descendants i+1 .. Last[i].  m_mergeItemList is always built in that     *)
(* order, so it is the set "list" and the cursor m_currentIndexForOperation *)
(* is one of its members, or 0 for end().  An empty list leaves the code a  *)
(* dangling cursor it never reads: 0 here too.                              *)
(*                                                                          *)
(* A command runs in phases, because canContinue() shows modal dialogs and  *)
(* mergeContinue() lets the progress dialog run between two items:          *)
(*   idle -> save -> check -> command -> execute <-> advance -> idle        *)
(* Two members the code writes and never reads are left out:                *)
(* m_bSimOpComplete (isSimOpRunning() reads m_bOperationComplete) and       *)
(* bSkipItem, which only the error dialog of mergeContinue() can set.       *)
EXTENDS Integers, Sequences, FiniteSets, MergeOperation

CONSTANTS
    N,            \* number of items in the tree
    Last,         \* Last[i]: the last descendant of item i
    Files,        \* isFileSelected(): neither a folder nor a type conflict
    FolderInA,    \* FileAccess(nameA).isDir()
    NamedFiles,   \* bound: files whose destination any document can be saved as
    UserOps,      \* operations the menus offer
    DefaultOps,   \* operations of the "... for all items" menu
    ScanOp,       \* eDefaultMergeOp of init()
    Assigned,     \* Assigned[i][o][j]: the operations setMergeOperation(i, o)
                  \* sets on item j, in order
    AssignedAll,  \* AssignedAll[o][j]: the same for setAllMergeOperations(o)
    Views         \* the sets of rows the "Show ..." options can leave visible

Item == 1..N

ASSUME TreeAssumption ==
    /\ N \in Nat \ {0}
    /\ Last \in [Item -> Item]
    /\ \A i \in Item : i <= Last[i]
    /\ \A i \in Item : \A j \in i..Last[i] : Last[j] <= Last[i]

ASSUME KindAssumption ==
    /\ Files \subseteq {i \in Item : Last[i] = i}
    /\ FolderInA \subseteq Item \ Files
    /\ NamedFiles \subseteq Files

ASSUME OperationAssumption ==
    /\ UserOps \subseteq Operation /\ DefaultOps \subseteq Operation
    /\ ScanOp \in DefaultOps
    /\ Assigned \in [Item -> [UserOps -> [Item -> Seq(Operation)]]]
    /\ AssignedAll \in [DefaultOps -> [Item -> Seq(Operation)]]
    /\ Views \subseteq SUBSET Item

VARIABLES
    op,         \* m_eMergeOperation
    complete,   \* m_bOperationComplete
    status,     \* m_eOpStatus
    visible,    \* rows that are not hidden
    real, sim,  \* m_bRealMergeStarted, m_bSimulatedMergeStarted
    error,      \* m_bError
    list, cur,  \* m_mergeItemList, m_currentIndexForOperation
    phase, req, \* how far the running command got, and which one it is
    doc,        \* the document in the merge editor
    modified,   \* KDiff3App::m_bOutputModified
    written,    \* history: items with a successful write since (re)started
    asked       \* history: what the running merge was started as

items    == <<op, complete, status, visible>>
flags    == <<real, sim, error>>
cursor   == <<list, cur>>
control  == <<phase, req>>
editor   == <<doc, modified>>
history  == <<written, asked>>
vars     == <<items, flags, cursor, control, editor, history>>

RunCommands  == {"runAll", "runCurrent"}
OpenCommands == {"mergeCurrent", "compareFiles", "mergeFiles"}
ItemCommands == {"runCurrent", "mergeCurrent"}
Command      == RunCommands \cup OpenCommands
Phase        == {"idle", "save", "check", "command", "execute", "advance", "closed"}
Status       == {"None", "Done", "Error", "NotSaved", "InProgress"}

\* Names of files: an item's fullNameDest(), its name in A, or any other.
Name       == [of : 0..N, side : {"dest", "A"}]
Dest(i)    == [of |-> i, side |-> "dest"]
NameInA(i) == [of |-> i, side |-> "A"]
OtherName  == [of |-> 0, side |-> "dest"]

\* What a document can be saved as; a folder is not replaced by a file.
OutputNames == {OtherName} \cup {Dest(i) : i \in NamedFiles}

\* The document is the merge of an item's files, or of others (0), and has the
\* name m_outputFilename.  NoDoc: nothing is merged.
NoDoc == [item |-> 0, name |-> OtherName]

\* No command is running.
NoReq == [cmd |-> "none", item |-> 0]

TypeOK ==
    /\ op \in [Item -> Operation]
    /\ complete \in [Item -> BOOLEAN]
    /\ status \in [Item -> Status]
    /\ visible \subseteq Item
    /\ real \in BOOLEAN /\ sim \in BOOLEAN /\ error \in BOOLEAN
    /\ list \subseteq Item
    /\ cur \in 0..N
    /\ phase \in Phase
    /\ req \in [cmd : Command \cup {"none"}, item : 0..N]
    /\ doc \in [item : 0..N, name : Name]
    /\ modified \in BOOLEAN
    /\ written \subseteq Item
    /\ asked \in {"none", "real", "simulation"}

-----------------------------------------------------------------------------
(* The tree. *)

Leaf(i)      == Last[i] = i                 \* rowCount(i) = 0
Ancestors(i) == {a \in Item : a < i /\ i <= Last[a]}
Parent(i)    == IF Ancestors(i) = {} THEN 0
                ELSE CHOOSE a \in Ancestors(i) : \A b \in Ancestors(i) : b <= a
Children(i)  == {j \in Item : Parent(j) = i}

\* The smallest member of a set of items, 0 for the invalid index.
First(S) == IF S = {} THEN 0 ELSE CHOOSE i \in S : \A j \in S : i <= j

\* treeIterator(i, false, false): the next visible row that is not below i.
\* It steps over hidden siblings without looking at their children.
NextOutside(i) ==
    First({j \in visible : j > Last[i] /\ (Parent(j) = 0 \/ Parent(j) \in Ancestors(i))})

-----------------------------------------------------------------------------
\* Mutant: an item that is started again keeps its status.
AssignKeepsStatus(seqs) ==
    LET restarted == {j \in Item : \E k \in DOMAIN seqs[j] : seqs[j][k] # op[j]}
    IN /\ op' = [j \in Item |-> IF seqs[j] = <<>> THEN op[j] ELSE seqs[j][Len(seqs[j])]]
       /\ complete' = [j \in Item |-> complete[j] /\ j \notin restarted]
       /\ written' = written \ restarted
       /\ UNCHANGED status

(* setMergeOperation: an item whose operation changes is started again and  *)
(* loses its status; the operation spreads over the subtree.                *)
Assign(seqs) ==
    LET restarted == {j \in Item : \E k \in DOMAIN seqs[j] : seqs[j][k] # op[j]}
    IN /\ op' = [j \in Item |-> IF seqs[j] = <<>> THEN op[j] ELSE seqs[j][Len(seqs[j])]]
       /\ complete' = [j \in Item |-> complete[j] /\ j \notin restarted]
       /\ status' = [j \in Item |-> IF j \in restarted THEN "None" ELSE status[j]]
       /\ written' = written \ restarted

SetMergeOperation(i, o) ==
    /\ phase = "idle"
    /\ Assign(Assigned[i][o])
    /\ UNCHANGED <<visible, flags, cursor, control, editor, asked>>

SetAllMergeOperations(o) ==
    /\ phase = "idle"
    /\ Assign(AssignedAll[o])
    /\ UNCHANGED <<visible, flags, cursor, control, editor, asked>>

\* updateFileVisibilities() after one of the "Show ..." options changed.
UpdateFileVisibilities(v) ==
    /\ phase = "idle"
    /\ visible' = v
    /\ UNCHANGED <<op, complete, status, flags, cursor, control, editor, history>>

\* The operations a scan leaves: fresh items start with eNoOperation.
ScannedOp == [j \in Item |-> LET s == AssignedAll[ScanOp][j]
                             IN IF s = <<>> THEN NoOp ELSE s[Len(s)]]

Init ==
    /\ op = ScannedOp
    /\ complete = [i \in Item |-> FALSE]
    /\ status = [i \in Item |-> "None"]
    /\ visible \in Views
    /\ real = FALSE /\ sim = FALSE /\ error = FALSE
    /\ list = {} /\ cur = 0
    /\ phase = "idle" /\ req = NoReq
    /\ doc = NoDoc /\ modified = FALSE
    /\ written = {} /\ asked = "none"

\* reload(): the user confirmed, or no merge is in progress; init() rescans.
Rescan ==
    /\ phase = "idle"
    /\ op' = ScannedOp
    /\ complete' = [i \in Item |-> FALSE]
    /\ status' = [i \in Item |-> "None"]
    /\ visible' \in Views
    /\ real' = FALSE /\ sim' = FALSE /\ error' = FALSE
    /\ list' = {} /\ cur' = 0
    /\ written' = {} /\ asked' = "none"
    /\ UNCHANGED <<control, editor>>

-----------------------------------------------------------------------------
(* The merge editor (KDiff3App). *)

\* An item's pending operation is over, as mergeResultSaved() and
\* canContinue() end it: a list of one item is dropped with it.
EndCurrent(newStatus) ==
    /\ status' = [status EXCEPT ![cur] = newStatus]
    /\ complete' = [complete EXCEPT ![cur] = TRUE]
    /\ IF list = {cur}
       THEN list' = {} /\ cur' = 0 /\ real' = FALSE /\ asked' = "none"
       ELSE UNCHANGED <<cursor, real, asked>>

\* mergeResultSaved(): only the file name tells which item was saved.
MergeResultSaved(name) ==
    /\ written' = written \cup ({name.of} \ {0})
    /\ IF cur = 0 \/ name # Dest(cur)
       THEN UNCHANGED <<op, complete, status, flags, cursor, asked>>
       ELSE \/ EndCurrent("Done") /\ UNCHANGED <<op, sim, error>>
            \/ /\ op[cur] = "eMergeToAB" /\ ~sim      \* copying B to A failed
               /\ error' = TRUE
               /\ status' = [status EXCEPT ![cur] = "Error"]
               /\ op' = [op EXCEPT ![cur] = "eCopyBToA"]
               /\ UNCHANGED <<complete, real, sim, cursor, asked>>

\* slotFileSave() succeeds.
SaveDocument ==
    /\ phase = "idle"
    /\ modified' = FALSE
    /\ MergeResultSaved(doc.name)
    /\ UNCHANGED <<visible, control, doc>>

\* slotFileSaveAs(): the document has the new name also when saving fails.
SaveDocumentAs(name) ==
    /\ phase = "idle" /\ modified
    /\ doc' = [doc EXCEPT !.name = name]
    /\ \/ modified' = FALSE /\ MergeResultSaved(name)
       \/ UNCHANGED <<modified, op, complete, status, flags, cursor, history>>
    /\ UNCHANGED <<visible, control>>

\* slotOutputModified(): the user edits the merge result.
EditDocument ==
    /\ phase = "idle" /\ doc # NoDoc
    /\ modified' = TRUE
    /\ UNCHANGED <<items, flags, cursor, control, doc, history>>

\* queryClose(): a merge in progress lets the user keep the program open,
\* after the document was asked about.
QueryClose ==
    /\ phase = "idle"
    /\ modified' = FALSE
    /\ \/ modified /\ MergeResultSaved(doc.name)
       \/ UNCHANGED <<op, complete, status, flags, cursor, history>>
    /\ phase' = "closed" \/ (real' /\ phase' = "idle")
    /\ UNCHANGED <<visible, req, doc>>

Closed == phase = "closed" /\ UNCHANGED vars

-----------------------------------------------------------------------------
(* A command: canContinue() first. *)

Request(c, i) ==
    /\ phase = "idle"
    /\ req' = [cmd |-> c, item |-> i]
    /\ phase' = "save"
    /\ UNCHANGED <<items, flags, cursor, editor, history>>

\* onDoubleClick() forgets a simulation before it merges or compares.
DoubleClick(i) ==
    /\ phase = "idle"
    /\ sim' = FALSE
    /\ \/ req' = [cmd |-> "mergeCurrent", item |-> i]
       \/ req' = [cmd |-> "compareFiles", item |-> 0]
    /\ phase' = "save"
    /\ UNCHANGED <<items, real, error, cursor, editor, history>>

\* KDiff3App::canContinue(): save first, or cancel (which is also what a
\* failed save amounts to), or go on without saving.
SaveAndContinue ==
    /\ phase = "save" /\ modified
    /\ modified' = FALSE
    /\ MergeResultSaved(doc.name)
    /\ phase' = "check"
    /\ UNCHANGED <<visible, req, doc>>

CancelCommand ==
    /\ phase = "save" /\ modified
    /\ phase' = "idle"
    /\ req' = NoReq
    /\ UNCHANGED <<items, flags, cursor, editor, history>>

\* DirectoryMergeWindowPrivate::canContinue(), when nothing is left to save
\* or the user goes on without saving: refused after an error; an item whose
\* operation still runs is taken to be not saved.
RefuseAfterError ==
    /\ phase \in {"save", "check"} /\ error
    /\ modified' = FALSE
    /\ phase' = "idle"
    /\ req' = NoReq
    /\ UNCHANGED <<items, flags, cursor, doc, history>>

\* Mutant: an error does not stop the merge.
MayContinueAlways == TRUE

MayContinue == ~error

\* Mutants: the unsaved item counts as merged; it is left as it is.
EndUnsavedItemAsDone ==
    IF cur # 0 /\ ~complete[cur] THEN EndCurrent("Done")
    ELSE UNCHANGED <<complete, status, cursor, real, asked>>
EndUnsavedItemNot == UNCHANGED <<complete, status, cursor, real, asked>>

EndUnsavedItem ==
    IF cur # 0 /\ ~complete[cur] THEN EndCurrent("NotSaved")
    ELSE UNCHANGED <<complete, status, cursor, real, asked>>

CanContinue ==
    /\ phase \in {"save", "check"} /\ MayContinue
    /\ modified' = FALSE
    /\ phase' = "command"
    /\ EndUnsavedItem
    /\ UNCHANGED <<op, visible, sim, error, req, doc, written>>

-----------------------------------------------------------------------------
(* slotRunOperationForAllItems and slotRunOperationForCurrentItem. *)

\* Where prepareMergeStart() starts. F7 steps once from the first row, "find
\* first visible item"; F6 begins at the current item, 0 when there is none.
FirstRow == IF req.cmd = "runCurrent" THEN req.item ELSE First(visible \ {1})

\* The rows prepareMergeStart() visits.
RowsVisited(first) ==
    LET end == IF req.cmd = "runCurrent" THEN NextOutside(first) ELSE 0
    IN {j \in visible \cup {first} : first <= j /\ (end # 0 => j < end)}

\* The items prepareMergeStart() collects.
ItemsToRun(first) == {j \in RowsVisited(first) : ~complete[j]}

\* prepareMergeStart() and mergeContinue(true) for an empty list; "answer" is
\* "real" for "Do It" (the only one for F6) and "simulation".
StartMerge(answer) ==
    LET first   == FirstRow
        running == ItemsToRun(first)
    IN /\ phase = "command" /\ req.cmd \in RunCommands /\ list = {}
       /\ req.cmd = "runCurrent" => answer = "real"
       /\ sim' = (sim \/ answer = "simulation")
       /\ \/ /\ first = 0                          \* no row to begin with
             /\ real' = (real \/ answer = "real")
             /\ phase' = "idle"
             /\ UNCHANGED <<cursor, asked>>
          \/ /\ first # 0
             /\ \E j \in running : op[j] \in ConflictOps   \* pointed out
             /\ real' = FALSE
             /\ phase' = "idle"
             /\ UNCHANGED <<cursor, asked>>
          \/ /\ first # 0
             /\ \A j \in running : op[j] \notin ConflictOps
             /\ real' = (real \/ answer = "real")
             /\ list' = running /\ cur' = First(running)
             /\ asked' = IF running = {} THEN "none" ELSE answer
             /\ phase' = IF running = {} THEN "idle" ELSE "execute"
       /\ req' = NoReq
       /\ UNCHANGED <<items, error, editor, written>>

DeclineMerge ==
    /\ phase = "command" /\ req.cmd = "runAll" /\ list = {}
    /\ phase' = "idle"
    /\ req' = NoReq
    /\ UNCHANGED <<items, flags, cursor, editor, history>>

\* mergeContinue(false): the current item is behind us.
ContinueMerge ==
    /\ phase = "command" /\ req.cmd \in RunCommands /\ list # {}
    /\ phase' = "advance"
    /\ req' = NoReq
    /\ UNCHANGED <<items, flags, cursor, editor, history>>

-----------------------------------------------------------------------------
(* mergeContinue(): executeMergeOperation for the current item. *)

\* mergeFLD() opens the editor for a file and creates a folder itself.
OpensEditor(i) == op[i] \in ManualOps /\ i \notin FolderInA /\ ~sim

\* The operation succeeds; the user may have pressed Cancel meanwhile.
ExecuteItem ==
    /\ phase = "execute"
    /\ op[cur] \notin ConflictOps /\ ~OpensEditor(cur)
    /\ written' = IF sim THEN written ELSE written \cup {cur}
    /\ \/ phase' = "advance" /\ UNCHANGED error
       \/ phase' = "idle" /\ error' = FALSE          \* wasCancelled()
    /\ UNCHANGED <<items, real, sim, cursor, req, editor, asked>>

\* It fails: a file system error, or "Unknown merge operation".
ExecuteFails ==
    /\ phase = "execute"
    /\ \/ op[cur] \in FileSystemOps \cup ManualOps /\ ~sim
       \/ op[cur] \in ConflictOps
    /\ error' = TRUE
    /\ status' = [status EXCEPT ![cur] = "Error"]
    /\ phase' = "idle"
    /\ UNCHANGED <<op, complete, visible, real, sim, cursor, req, editor, history>>

\* The item needs a manual merge: the loop stops until the user continues.
ExecuteManually ==
    /\ phase = "execute" /\ OpensEditor(cur)
    /\ error' = FALSE
    /\ status' = [status EXCEPT ![cur] = "InProgress"]
    /\ doc' = [item |-> cur, name |-> IF op[cur] = "eMergeToA" THEN NameInA(cur) ELSE Dest(cur)]
    /\ modified' = TRUE
    /\ phase' = "idle"
    /\ UNCHANGED <<op, complete, visible, real, sim, cursor, req, history>>

(* mergeContinue(): leave the current item for the next one. *)

\* Mutant: a folder is done with the last of its listed items.
FinishedAncestorsAll(i, done) == {a \in Ancestors(i) : Children(a) # {}}

\* The ancestors of i whose children are all complete once i is: the walk
\* upwards stops at the first one with a running child.
FinishedAncestors(i, done) ==
    {a \in Ancestors(i) :
        \A b \in Ancestors(i) : b >= a =>
            \A c \in Children(b) : c \in Ancestors(i) \/ done[c]}

\* Mutant: the cursor is not stepped at all.
NextInListSame == cur

NextInList == First({j \in list : j > cur})

AdvanceItem ==
    LET next    == NextInList
        done    == [complete EXCEPT ![cur] = @ \/ Leaf(cur)]
        checked == next = 0 \/ Parent(next) # Parent(cur)
        parents == IF checked THEN FinishedAncestors(cur, done) ELSE {}
    IN /\ phase = "advance"
       /\ IF sim
          THEN UNCHANGED <<complete, status>>
          ELSE /\ complete' = [i \in Item |-> done[i] \/ i \in parents]
               /\ status' = [i \in Item |->
                      IF i \in parents THEN "Done"
                      ELSE IF i # cur THEN status[i]
                      ELSE IF ~Leaf(i) THEN "InProgress"
                      ELSE IF complete[i] THEN status[i] ELSE "Done"]
       /\ \/ /\ next # 0
             /\ cur' = next /\ phase' = "execute"
             /\ UNCHANGED <<real, sim, list, asked>>
          \/ /\ next = 0                            \* merge complete
             /\ cur' = 0 /\ phase' = "idle"
             /\ real' = FALSE /\ sim' = FALSE
             /\ list' = {} /\ asked' = "none"
       /\ UNCHANGED <<op, visible, error, req, editor, written>>

-----------------------------------------------------------------------------
(* mergeCurrentFile; "compareFiles" is compareCurrentFile and the comparison *)
(* of explicitly selected files, "mergeFiles" the merge of such files.       *)

\* Not while a real merge runs; folders are not opened.
RefuseOpen ==
    /\ phase = "command" /\ req.cmd \in OpenCommands
    /\ \/ real
       \/ req.cmd = "mergeCurrent" /\ req.item \notin Files
       \/ req.cmd = "compareFiles"           \* the current item is a folder
    /\ phase' = "idle"
    /\ req' = NoReq
    /\ UNCHANGED <<items, flags, cursor, editor, history>>

\* The list becomes the current file alone; mergeFLD() may fail to make the
\* destination's folder, and opens no editor while a simulation is pending.
MergeCurrentFile ==
    /\ phase = "command" /\ req.cmd = "mergeCurrent"
    /\ ~real /\ req.item \in Files
    /\ list' = {req.item} /\ cur' = req.item
    /\ \/ /\ ~sim
          /\ status' = [status EXCEPT ![req.item] = "InProgress"]
          /\ doc' = [item |-> req.item, name |-> Dest(req.item)]
          /\ modified' = TRUE
       \/ UNCHANGED <<status, editor>>
    /\ phase' = "idle"
    /\ asked' = "none"
    /\ req' = NoReq
    /\ UNCHANGED <<op, complete, visible, flags, written>>

\* The editor shows other files; a merge has something to save, under the name
\* of its last input.
OpenOther ==
    /\ phase = "command" /\ ~real
    /\ \/ req.cmd = "compareFiles" /\ doc' = NoDoc /\ modified' = FALSE
       \/ /\ req.cmd = "mergeFiles"
          /\ \E name \in OutputNames : doc' = [item |-> 0, name |-> name]
          /\ modified' = TRUE
    /\ phase' = "idle"
    /\ req' = NoReq
    /\ UNCHANGED <<items, flags, cursor, history>>

-----------------------------------------------------------------------------
MergeStep == ExecuteItem \/ ExecuteFails \/ ExecuteManually \/ AdvanceItem

RunCommand == \/ \E answer \in {"real", "simulation"} : StartMerge(answer)
              \/ DeclineMerge \/ ContinueMerge

OpenCommand == RefuseOpen \/ MergeCurrentFile \/ OpenOther

Confirm == SaveAndContinue \/ CancelCommand \/ RefuseAfterError \/ CanContinue

User ==
    \/ \E i \in Item, o \in UserOps : SetMergeOperation(i, o)
    \/ \E o \in DefaultOps : SetAllMergeOperations(o)
    \/ \E v \in Views : UpdateFileVisibilities(v)
    \/ \E c \in ItemCommands, i \in 0..N : Request(c, i)
    \/ \E c \in Command \ ItemCommands : Request(c, 0)
    \/ \E i \in Item : DoubleClick(i)
    \/ SaveDocument \/ (\E name \in OutputNames : SaveDocumentAs(name)) \/ EditDocument
    \/ Rescan \/ QueryClose

Next == User \/ Confirm \/ RunCommand \/ OpenCommand \/ MergeStep \/ Closed

(* The loop of mergeContinue() is program code: once in it, it goes on.  The *)
(* answers to dialogs and the user's commands are nobody's duty.             *)
Fairness == WF_vars(MergeStep)

Spec == Init /\ [][Next]_vars /\ Fairness
-----------------------------------------------------------------------------
(* The run this specification implements. *)

\* The part of the list the loop has still to leave, and what it does with
\* the first item of it.
Todo  == {j \in list : j >= cur}
Ended == {i \in Item : complete[i]}
At    == CASE phase = "execute" -> "run" [] phase = "advance" -> "leave" [] OTHER -> "rest"

Run == INSTANCE MergeRun WITH
           Folders <- {i \in Item : ~Leaf(i)},
           Entries <- [i \in Item |-> Children(i)],
           todo <- Todo, ended <- Ended, at <- At

-----------------------------------------------------------------------------
(* Properties. *)

\* The commands, dialogs, saves, errors and cancels of the folder merge never
\* disturb the run: mergeContinue() executes the items of m_mergeItemList in
\* order and each at most once, goes on from an item only when it has ended,
\* and ends a folder, one on another level included, only after its entries.
RunIsKept == Run!Spec

\* m_currentIndexForOperation is dereferenced only inside m_mergeItemList: a
\* list that is not empty has a current item, and the items behind it in the
\* list are still to be run.
CursorInList ==
    /\ IF list = {} THEN cur = 0 ELSE cur \in list
    /\ phase \in {"execute", "advance"} => list # {}
    /\ \A j \in list : j > cur => ~complete[j]

\* mergeContinue() never runs the operation of an item that is complete: what
\* was merged, skipped or given up before is not merged again.
NothingRunsTwice == phase = "execute" => ~complete[cur]

\* "Done" on a file means that since its operation was last chosen something
\* was really written for it - not that it was simulated, refused or passed by.
DoneMeansWritten ==
    \A i \in Item : Leaf(i) /\ status[i] = "Done" => i \in written

\* Nothing runs while an error waits for the user: canContinue() refuses every
\* command that would reach the merge loop or open another document.
NothingRunsAfterError == phase \in {"command", "execute", "advance"} => ~error

\* No file is lost on the way: a file the cursor has gone past is complete, or
\* shows no status - it was only simulated, or its operation was changed since.
NoFilePassedBy ==
    \A j \in list : Leaf(j) /\ j < cur /\ ~complete[j] => status[j] = "None"

\* At most one file is being merged by hand, and it is the current item and the
\* one in the merge editor: saving the editor completes the right item.
ManualMergeIsCurrent ==
    \A i \in Item : Leaf(i) /\ status[i] = "InProgress" /\ ~complete[i]
        => cur = i /\ doc.item = i

\* The loop of mergeContinue() comes back to the user.
MergeContinueReturns == phase \in {"execute", "advance"} ~> phase = "idle"

\* What the merge loop knows of its current item; with it the invariants above
\* are inductive.
LoopInv ==
    /\ phase = "command" /\ cur # 0 => complete[cur]
    /\ phase = "advance" /\ ~sim /\ Leaf(cur) /\ ~complete[cur] => cur \in written
    /\ phase \in {"execute", "advance"} /\ Leaf(cur) /\ status[cur] = "InProgress"
        => complete[cur]

\* The inductive invariant.
IInv == /\ TypeOK /\ CursorInList /\ NothingRunsTwice /\ DoneMeansWritten
        /\ NothingRunsAfterError /\ ManualMergeIsCurrent /\ LoopInv
=============================================================================
