------------------------------ MODULE Session ------------------------------
(* The main window (KDiff3App): which inputs are compared, where the merge   *)
(* result goes, whether it was saved, and what is shown.  A command that     *)
(* would drop the result calls canContinue(), which asks; the question and   *)
(* the file dialogs are modal: until they are answered "pending" is the      *)
(* command that waits.                                                       *)
(*                                                                           *)
(* Two inputs; MergeResult models the text of the result, DirMerge what a    *)
(* folder merge does, FileOps what a save does to the files.                 *)
EXTENDS FiniteSets

CONSTANTS
    Sources,  \* names of files that are compared
    Results,  \* names of files that are written
    Folder    \* name of a folder

Files == Sources \cup Results

ASSUME SessionAssumption == Folder \notin Files /\ {"", "unnamed.txt", "clipboard"} \cap (Files \cup {Folder}) = {}

VARIABLES
    m_sd1, m_sd2,        \* names of the inputs, "" if there is none
    hasData,             \* some input has a text
    m_outputFilename,    \* "" if nothing is merged
    m_bDefaultFilename,  \* saving asks for a name
    m_bOutputModified,   \* the application: there is something to save
    m_bModified,         \* the merge window: it was edited
    unsolved,            \* the result has unsolved conflicts
    m_bDirCompare, folderMerge,
    mainVisible,         \* the inputs and, if mergeShown, the result
    mergeShown,
    dockVisible,         \* the folders
    dirShowBoth,
    dialog,              \* "none", "unsaved", "saveAs", or "go": the answer was to go on
    pending,             \* the command that waits, or NoCommand
    changes,             \* history: kinds of changes neither saved nor given up, "edit" or "history"
    waived,              \* history: edits were given up that are still in the merge window,
                         \* which has told of them and tells of no further ones
    lost,                \* history: [by, kinds, waived], what the last change of the
                         \* comparison dropped
    given,               \* history: names the user gave for the result
    misnamed             \* history: a file was written that nobody named

inputs == <<m_sd1, m_sd2, hasData>>
output == <<m_outputFilename, m_bDefaultFilename>>
result == <<m_bOutputModified, m_bModified, unsolved>>
folders == <<m_bDirCompare, folderMerge>>
views == <<mainVisible, mergeShown, dockVisible, dirShowBoth>>
modal == <<dialog, pending>>
memory == <<changes, waived, lost, given, misnamed>>
vars == <<inputs, output, result, folders, views, modal, memory>>

Nothing == [by |-> "", kinds |-> {}, waived |-> FALSE]
NoCommand == [op |-> "none"]
Open == [op |-> "open"]
Named(i) == i \in Files \cup {Folder}
Inputs == Sources \cup {Folder, ""}
Outputs == Results \cup {Folder, ""}
CanSave == mainVisible /\ mergeShown /\ ~unsolved
Free == dialog = "none"
Go(op) == dialog = "go" /\ pending.op = op
Done == dialog' = "none" /\ pending' = NoCommand

-----------------------------------------------------------------------------
(* Views. *)

\* slotUpdateAvailabilities(): "show both" opens what there is to show.
Shown(main, data) == main \/ (dirShowBoth /\ data)
Docked(dock, dir) == IF dirShowBoth THEN dir ELSE dock

\* slotDirShowBoth()
DirShowBoth ==
    /\ Free /\ m_bDirCompare
    /\ dirShowBoth' = ~dirShowBoth
    /\ IF dirShowBoth'
       THEN mainVisible' = TRUE /\ dockVisible' = TRUE
       ELSE /\ mainVisible' = (mainVisible \/ hasData)
            /\ dockVisible' = ~hasData
    /\ UNCHANGED <<inputs, output, result, folders, mergeShown, modal, memory>>

\* slotDirViewToggle(), enabled when one of the two is visible and, to leave
\* the folders, when there is a text
DirViewToggle ==
    /\ Free /\ m_bDirCompare
    /\ dockVisible # mainVisible
    /\ dockVisible => hasData
    /\ dockVisible' = Docked(~dockVisible, TRUE)
    /\ mainVisible' = Shown(dockVisible, hasData)
    /\ UNCHANGED <<inputs, output, result, folders, mergeShown, dirShowBoth, modal, memory>>

-----------------------------------------------------------------------------
(* A comparison. *)

Forget(by) ==
    /\ lost' = IF changes = {} THEN Nothing ELSE [by |-> by, kinds |-> changes, waived |-> waived]
    /\ changes' = {}
    /\ waived' = FALSE

\* mainInit(): the result is computed anew.  dock: the folders are visible.
MainInit(by, out, load, gui, dock, dir) ==
    /\ hasData' \in IF ~load \/ {m_sd1', m_sd2'} = {""} THEN {hasData} ELSE BOOLEAN
    /\ m_bOutputModified' = (out # "")
    /\ m_bModified' = FALSE
    /\ unsolved' \in BOOLEAN
    /\ mergeShown' = IF gui THEN out # "" ELSE mergeShown
    /\ mainVisible' = Shown(gui, hasData')
    /\ dockVisible' = Docked(dock, dir)
    /\ Forget(by)
    /\ UNCHANGED <<misnamed, dirShowBoth>>

\* doDirectoryCompare(): the inputs are forgotten, or init() of the folder
\* window was left.
DoDirectoryCompare(a, b, next) ==
    /\ \/ m_sd1' = "" /\ m_sd2' = "" /\ hasData' = FALSE /\ Done
       \/ m_sd1' = a /\ m_sd2' = b /\ hasData' = hasData /\ next
    /\ m_bDirCompare' = TRUE
    /\ folderMerge' = FALSE
    /\ dockVisible' = TRUE
    /\ mainVisible' = Shown(FALSE, hasData')
    /\ UNCHANGED <<result, mergeShown, dirShowBoth, changes, waived, lost, misnamed>>

\* canContinue() for a command: does the application know of a result to save?
Ask(c) ==
    /\ pending' = c
    /\ dialog' = IF m_bOutputModified THEN "unsaved" ELSE "go"

\* The constructor and completeInit(): what cannot be opened is asked for.
Start ==
    /\ dialog = "start"
    /\ \E a, b \in Inputs, out \in Outputs \cup {"unnamed.txt"} :
        /\ m_outputFilename' = out
        /\ m_bDefaultFilename' = (out = "unnamed.txt")
        /\ given' = {out} \cap Files
        /\ CASE a = Folder /\ b = Folder ->
                  DoDirectoryCompare(a, b, dialog' = "go" /\ pending' = Open)
             [] Folder \notin {a, b} ->
                  /\ m_sd1' = a /\ m_sd2' = b
                  /\ MainInit("start", out, TRUE, TRUE, FALSE, FALSE)
                  /\ IF a # "" /\ b # "" /\ hasData' THEN Done
                     ELSE pending' = Open /\ dialog' = IF out # "" THEN "unsaved" ELSE "go"
                  /\ UNCHANGED folders
             [] OTHER ->
                  /\ m_sd1' = a /\ m_sd2' = b
                  /\ dialog' = "go" /\ pending' = Open
                  /\ UNCHANGED <<hasData, result, folders, views, changes, waived, lost, misnamed>>

\* Mutant: what was merged into stays when nothing is to be merged.
OpenDialogKeepingOutput ==
    /\ Go("open")
    /\ \/ Done /\ UNCHANGED <<inputs, output, result, folders, views, memory>>
       \/ \E a \in Inputs, b \in Sources \cup {""}, merge \in BOOLEAN, out \in Outputs :
            LET name == IF ~merge THEN m_outputFilename ELSE IF out = "" THEN "unnamed.txt" ELSE out
            IN  /\ m_outputFilename' = name
                /\ m_bDefaultFilename' = IF merge THEN out = "" ELSE m_bDefaultFilename
                /\ given' = IF merge THEN {name} \cap Files ELSE {}
                /\ IF a = Folder
                   THEN DoDirectoryCompare(a, b, Done)
                   ELSE /\ m_sd1' = a /\ m_sd2' = b
                        /\ MainInit("open", name, TRUE, TRUE, FALSE, FALSE)
                        /\ m_bDirCompare' = FALSE
                        /\ IF hasData' THEN Done ELSE UNCHANGED modal
                        /\ UNCHANGED folderMerge

\* The open dialog of slotFileOpen(): cancelled; folders; or files, and the
\* dialog again if they cannot be read.
OpenDialog ==
    /\ Go("open")
    /\ \/ Done /\ UNCHANGED <<inputs, output, result, folders, views, memory>>
       \/ \E a \in Inputs, b \in Sources \cup {""}, merge \in BOOLEAN, out \in Outputs :
            LET name == IF ~merge THEN "" ELSE IF out = "" THEN "unnamed.txt" ELSE out
            IN  /\ m_outputFilename' = name
                /\ m_bDefaultFilename' = IF merge THEN out = "" ELSE m_bDefaultFilename
                /\ given' = {name} \cap Files
                /\ IF a = Folder
                   THEN DoDirectoryCompare(a, b, Done)
                   ELSE /\ m_sd1' = a /\ m_sd2' = b
                        /\ MainInit("open", name, TRUE, TRUE, FALSE, FALSE)
                        /\ m_bDirCompare' = FALSE
                        /\ IF hasData' THEN Done ELSE UNCHANGED modal
                        /\ UNCHANGED folderMerge

\* slotFileOpen2(): files from the folder window, or other ones for the same
\* result.  A folder opens another main window, and this one has new inputs.
OpenFiles ==
    /\ Go("files")
    /\ m_sd1' = pending.a /\ m_sd2' = pending.b
    /\ LET out == IF pending.keep THEN m_outputFilename ELSE pending.out
       IN  /\ m_outputFilename' = out
           /\ m_bDefaultFilename' = (out = "")
           /\ given' = IF pending.keep THEN given ELSE {out} \cap Files
           /\ Done
           /\ IF pending.a = Folder
              THEN /\ hasData' = FALSE
                   /\ UNCHANGED <<result, folders, views, changes, waived, lost, misnamed>>
              ELSE /\ MainInit("files", out, TRUE, pending.gui, dockVisible, m_bDirCompare)
                   /\ UNCHANGED folders

\* slotReload(), slotFinishDrop(), slotEditPaste(): the inputs are read again
Reload ==
    /\ Go("reload")
    /\ \/ UNCHANGED <<m_sd1, m_sd2>>
       \/ m_sd1' \in Sources /\ UNCHANGED m_sd2
       \/ m_sd2' \in Sources \cup {"clipboard"} /\ UNCHANGED m_sd1
    /\ MainInit("reload", m_outputFilename, TRUE, TRUE, dockVisible, m_bDirCompare)
    /\ Done
    /\ UNCHANGED <<output, folders, given>>

\* DiffTextWindow::dropEvent(): a folder is not taken, but canContinue() was asked.
DropFolder ==
    /\ Go("reload")
    /\ Done
    /\ UNCHANGED <<inputs, output, result, folders, views, memory>>

\* slotMergeCurrentFile(): without an output the last input is merged into.
MergeCurrent ==
    /\ Go("merge")
    /\ IF m_outputFilename # ""
       THEN UNCHANGED <<output, given>>
       ELSE LET named == IF Named(m_sd2) THEN m_sd2 ELSE m_sd1
            IN  /\ m_outputFilename' = IF Named(named) THEN named ELSE "unnamed.txt"
                /\ m_bDefaultFilename' = (m_bDefaultFilename \/ ~Named(named))
                /\ given' = {m_outputFilename'} \cap Files
    /\ UNCHANGED <<m_sd1, m_sd2>>
    /\ MainInit("merge", m_outputFilename', TRUE, TRUE, dockVisible, m_bDirCompare)
    /\ Done
    /\ UNCHANGED folders

\* queryClose() and slotFileQuit(): a folder merge keeps the program open.
Quit ==
    /\ Go("quit")
    /\ \/ dialog' = "closed" /\ Forget("quit") /\ UNCHANGED pending
       \/ folderMerge /\ Done /\ UNCHANGED <<changes, waived, lost>>
    /\ UNCHANGED <<inputs, output, result, folders, views, given, misnamed>>

-----------------------------------------------------------------------------
(* Commands that ask.  slotFileOpen() also asks about a folder merge.        *)

OpenCommands == {Open, [op |-> "reload"], [op |-> "quit"]}
FileCommands ==
    [op : {"files"}, a : {Folder} \cup Sources, b : Sources, out : Outputs \ {Folder}, keep : {FALSE}, gui : {TRUE}]
        \cup [op : {"files"}, a : Sources, b : Sources, out : {""}, keep : {FALSE}, gui : {FALSE}]

\* slotFileNameChanged(): another name for one input, the same result
RenameCommands ==
    [op : {"files"}, a : {m_sd1}, b : Sources, out : {""}, keep : {TRUE}, gui : {TRUE}]
        \cup [op : {"files"}, a : Sources \cup {Folder}, b : {m_sd2}, out : {""}, keep : {TRUE}, gui : {TRUE}]

\* Mutant: slotReload() does not ask.
CommandUnasked ==
    /\ Free
    /\ pending' = [op |-> "reload"] /\ dialog' = "go"
    /\ UNCHANGED <<inputs, output, result, folders, views, memory>>

Command ==
    /\ Free
    /\ \/ \E c \in OpenCommands : Ask(c)
       \/ m_bDirCompare /\ dockVisible /\ \E c \in FileCommands : Ask(c)
       \/ mainVisible /\ \E c \in RenameCommands : Ask(c)
       \/ mainVisible /\ Ask([op |-> "merge"])
    /\ lost' = Nothing
    /\ UNCHANGED <<inputs, output, result, folders, views, changes, waived, given, misnamed>>

Cancel ==
    /\ dialog \in {"unsaved", "saveAs"}
    /\ Done
    /\ UNCHANGED <<inputs, output, result, folders, views, memory>>

\* "Continue Without Saving" gives up what was changed so far.  The merge
\* window stays modified.
ContinueUnsaved ==
    /\ dialog = "unsaved"
    /\ dialog' = "go"
    /\ m_bOutputModified' = FALSE
    /\ waived' = (waived \/ "edit" \in changes)
    /\ changes' = {}
    /\ UNCHANGED <<inputs, output, m_bModified, unsolved, folders, views, pending, lost, given, misnamed>>

-----------------------------------------------------------------------------
(* Saving: slotFileSave(), slotFileSaveAs(), MergeResultWindow::saveDocument(). *)

\* Mutant: saveDocument() leaves the merge window modified.
SaveDocumentModified(name) ==
    \/ /\ ~unsolved
       /\ m_bModified' = m_bModified
       /\ m_bOutputModified' = FALSE
       /\ misnamed' = (misnamed \/ name \in Files \ given')
       /\ changes' = {} /\ waived' = FALSE
       /\ dialog' = IF pending = NoCommand THEN "none" ELSE "go"
       /\ UNCHANGED pending
    \/ /\ Done
       /\ UNCHANGED <<m_bModified, m_bOutputModified, misnamed, changes, waived>>

\* A result with conflicts is not saved; writing can fail.
SaveDocument(name) ==
    \/ /\ ~unsolved
       /\ m_bModified' = FALSE
       /\ m_bOutputModified' = FALSE
       /\ misnamed' = (misnamed \/ name \in Files \ given')
       /\ changes' = {} /\ waived' = FALSE
       /\ dialog' = IF pending = NoCommand THEN "none" ELSE "go"
       /\ UNCHANGED pending
    \/ /\ Done
       /\ UNCHANGED <<m_bModified, m_bOutputModified, misnamed, changes, waived>>

Save ==
    /\ UNCHANGED given
    /\ \/ Free /\ CanSave
       \/ dialog = "unsaved"
    /\ IF m_bDefaultFilename
       THEN /\ dialog' = "saveAs"
            /\ UNCHANGED <<m_bModified, m_bOutputModified, misnamed, changes, waived, pending>>
       ELSE SaveDocument(m_outputFilename)
    /\ UNCHANGED <<inputs, output, unsolved, folders, views, lost>>

SaveAs ==
    /\ Free /\ m_bOutputModified
    /\ dialog' = "saveAs"
    /\ UNCHANGED <<inputs, output, result, folders, views, pending, memory>>

SaveAsName ==
    /\ dialog = "saveAs"
    /\ \E name \in Results :
        /\ m_outputFilename' = name
        /\ given' = given \cup {name}
        /\ SaveDocument(name)
    /\ m_bDefaultFilename' = FALSE
    /\ UNCHANGED <<inputs, unsolved, folders, views, lost>>

-----------------------------------------------------------------------------
(* Work on the result. *)

\* setModified(true): the application hears of a change, not of further ones.
SetModified == m_bModified' = TRUE /\ m_bOutputModified' = (m_bOutputModified \/ ~m_bModified)

Editable == Free /\ mainVisible /\ mergeShown

Edit ==
    /\ Editable
    /\ SetModified
    /\ unsolved' \in BOOLEAN
    /\ changes' = changes \cup {"edit"}
    /\ UNCHANGED <<inputs, output, folders, views, modal, waived, lost, given, misnamed>>

\* slotAutoSolve(), slotUnsolve(), chooseGlobal(): merge() resets m_bModified,
\* so that the change is told
SolveAll ==
    /\ Editable
    /\ m_bModified' = TRUE /\ m_bOutputModified' = TRUE
    /\ unsolved' \in BOOLEAN
    /\ changes' = changes \cup {"edit"}
    /\ waived' = FALSE
    /\ UNCHANGED <<inputs, output, folders, views, modal, lost, given, misnamed>>

\* slotMergeHistory(), slotRegExpAutoMerge(): nobody hears of the change.
MergeHistory ==
    /\ Editable
    /\ unsolved' \in BOOLEAN
    /\ changes' = changes \cup {"history"}
    /\ UNCHANGED <<inputs, output, m_bModified, m_bOutputModified, folders, views, modal, waived, lost, given, misnamed>>

\* Commands that compute the result anew and do not ask.
AddManualDiffHelp ==
    /\ Free /\ mainVisible
    /\ UNCHANGED <<m_sd1, m_sd2, output, folders, modal, given>>
    /\ MainInit("slotAddManualDiffHelp", m_outputFilename, FALSE, TRUE, dockVisible, m_bDirCompare)

ClearManualDiffHelpList ==
    /\ Free
    /\ UNCHANGED <<m_sd1, m_sd2, output, folders, modal, given>>
    /\ MainInit("slotClearManualDiffHelpList", m_outputFilename, FALSE, TRUE, dockVisible, m_bDirCompare)

\* slotEncodingChanged(): also without initGUI, which hides everything
EncodingChanged ==
    /\ Free /\ mainVisible
    /\ UNCHANGED <<m_sd1, m_sd2, output, folders, modal, given>>
    /\ MainInit("slotEncodingChanged", m_outputFilename, TRUE, FALSE, dockVisible, m_bDirCompare)

\* A folder merge begins or ends.
FolderMerge ==
    /\ Free /\ m_bDirCompare /\ dockVisible
    /\ folderMerge' = ~folderMerge
    /\ UNCHANGED <<inputs, output, result, m_bDirCompare, views, modal, memory>>

-----------------------------------------------------------------------------
Init ==
    /\ m_sd1 = "" /\ m_sd2 = "" /\ hasData = FALSE
    /\ m_outputFilename = "" /\ m_bDefaultFilename = FALSE
    /\ m_bOutputModified = FALSE /\ m_bModified = FALSE /\ unsolved = FALSE
    /\ m_bDirCompare = FALSE /\ folderMerge = FALSE
    /\ mainVisible = FALSE /\ mergeShown = FALSE /\ dockVisible = FALSE /\ dirShowBoth = FALSE
    /\ dialog = "start" /\ pending = NoCommand
    /\ changes = {} /\ waived = FALSE /\ lost = Nothing /\ given = {} /\ misnamed = FALSE

Next ==
    \/ Start \/ Command \/ Cancel \/ ContinueUnsaved
    \/ OpenDialog \/ OpenFiles \/ Reload \/ DropFolder \/ MergeCurrent \/ Quit
    \/ Save \/ SaveAs \/ SaveAsName
    \/ Edit \/ SolveAll \/ MergeHistory
    \/ AddManualDiffHelp \/ ClearManualDiffHelpList \/ EncodingChanged
    \/ DirShowBoth \/ DirViewToggle \/ FolderMerge

Spec == Init /\ [][Next]_vars

-----------------------------------------------------------------------------
\* The application knows of edits that were neither saved nor given up:
\* m_bOutputModified, kept by the signal modifiedChanged, is all that
\* canContinue() and queryClose() ask.  Not covered: after "Continue Without
\* Saving" (pdiff.cpp:1539) and a dialog that is then cancelled the merge window
\* stays modified, so that it does not tell of the edits that follow.
EditsAreKnown == "edit" \in changes /\ ~waived => m_bOutputModified

\* Edits that were neither saved nor given up are dropped only by the three
\* commands that never ask (pdiff.cpp:1875, 1907, 1914), or when the merge
\* window was left modified by edits that had been given up: those that follow
\* "Continue Without Saving" and a dialog that was then cancelled.  The code
\* drops these unasked (pdiff.cpp:1539).
LossIsAskedFor ==
    \/ "edit" \notin lost.kinds
    \/ lost.by \in {"slotAddManualDiffHelp", "slotClearManualDiffHelpList", "slotEncodingChanged"}
    \/ lost.waived

\* A file that is written was named for the result of the comparison that is
\* shown, by the user or by merging into an input; never an output left from
\* an earlier comparison.
WritesTheNamedFile == ~misnamed

=============================================================================
