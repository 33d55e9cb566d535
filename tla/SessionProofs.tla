--------------------------- MODULE SessionProofs ---------------------------
(* Proofs about Session, for every set of files: the application knows of    *)
(* edits that are neither saved nor given up, no command that asks drops     *)
(* them unasked, and what is written was named for the result that is shown. *)
(* The first two do not cover edits that follow others that were given up    *)
(* but are still in the merge window ("waived").                             *)
EXTENDS Session, TLAPS

\* The flags the invariant reads are flags.
Flags ==
    /\ m_bOutputModified \in BOOLEAN /\ m_bModified \in BOOLEAN
    /\ waived \in BOOLEAN /\ misnamed \in BOOLEAN

\* A merge window that says it was edited has told the application, until the
\* user gives the edits up.  Only the first edit is told: setModified() is
\* silent when m_bModified is set.
ModifiedIsKnown == dialog # "closed" /\ m_bModified /\ ~waived => m_bOutputModified

\* The merge window is modified because of an edit that is not saved, so that
\* "Continue Without Saving" gives one up and sets waived.
ModifiedIsAnEdit == dialog # "closed" /\ m_bModified /\ ~waived => "edit" \in changes

\* A command that goes on drops no edit, but for those that follow edits that
\* were given up and stayed in the merge window.
GoingOnDropsNothing == dialog = "go" => "edit" \notin changes \/ waived

NothingBeforeStart == dialog = "start" => changes = {}

\* The name of the result was given for it, also while saving would ask for
\* another one: slotFileOpen2() may take that question back.
OutputIsGiven == m_outputFilename \in Files => m_outputFilename \in given

\* What the result is, apart from its name.
ResultInv ==
    /\ Flags
    /\ EditsAreKnown /\ ModifiedIsKnown /\ ModifiedIsAnEdit
    /\ LossIsAskedFor /\ GoingOnDropsNothing /\ NothingBeforeStart
    /\ WritesTheNamedFile

IInv == ResultInv /\ OutputIsGiven

Unasking == {"slotAddManualDiffHelp", "slotClearManualDiffHelpList", "slotEncodingChanged"}

-----------------------------------------------------------------------------
(* Steps that several actions share.                                         *)

\* mainInit() leaves a result nobody has edited; edits that it drops follow
\* others that were given up, or the command is one of those that never ask.
LEMMA MainInitDropsNothing ==
    ASSUME IInv,
           NEW by, NEW ACTION out, NEW load, NEW ACTION gui, NEW ACTION dock, NEW ACTION dir,
           MainInit(by, out, load, gui, dock, dir),
           by \in Unasking \/ "edit" \notin changes \/ waived
    PROVE  ResultInv'
<1>1. Flags'
  BY DEF IInv, ResultInv, Flags, MainInit, Forget
<1>2. changes' = {} /\ m_bModified' = FALSE /\ misnamed' = misnamed
  BY DEF MainInit, Forget
<1>3. LossIsAskedFor'
  <2>1. lost' = IF changes = {} THEN Nothing ELSE [by |-> by, kinds |-> changes, waived |-> waived]
    BY DEF MainInit, Forget
  <2>2. CASE changes = {}
    BY <2>1, <2>2 DEF LossIsAskedFor, Nothing
  <2>3. CASE changes # {}
    BY <2>1, <2>3 DEF LossIsAskedFor, Unasking
  <2> QED BY <2>2, <2>3
<1> QED
  BY <1>1, <1>2, <1>3 DEF ResultInv, IInv, EditsAreKnown, ModifiedIsKnown, ModifiedIsAnEdit, GoingOnDropsNothing,
                          NothingBeforeStart, WritesTheNamedFile

\* Saving leaves nothing unsaved, or everything as it was; the file it writes
\* has the name it was given.
LEMMA SavingKeepsResult ==
    ASSUME IInv, NEW STATE name,
           SaveDocument(name),
           dialog \in {"none", "unsaved", "saveAs"},
           name \in Files => name \in given',
           UNCHANGED lost
    PROVE  ResultInv'
<1>1. CASE changes' = {} /\ waived' = FALSE /\ m_bModified' = FALSE /\ m_bOutputModified' = FALSE
           /\ misnamed' = (misnamed \/ name \in Files \ given')
  BY <1>1 DEF IInv, ResultInv, Flags, EditsAreKnown, ModifiedIsKnown, ModifiedIsAnEdit, LossIsAskedFor,
              GoingOnDropsNothing, NothingBeforeStart, WritesTheNamedFile
<1>2. CASE Done /\ UNCHANGED <<m_bModified, m_bOutputModified, misnamed, changes, waived>>
  BY <1>2 DEF IInv, ResultInv, Done, Flags, EditsAreKnown, ModifiedIsKnown, ModifiedIsAnEdit, LossIsAskedFor,
              GoingOnDropsNothing, NothingBeforeStart, WritesTheNamedFile
<1> QED
  BY <1>1, <1>2 DEF SaveDocument

\* An action that leaves the result and the history alone may only close a
\* dialog, or open one that is not an answer.
LEMMA RestKeepsResult ==
    ASSUME IInv,
           UNCHANGED <<m_bOutputModified, m_bModified, changes, waived, lost, misnamed>>,
           dialog # "closed",
           dialog' \in {dialog, "none", "unsaved", "saveAs"} \/ "edit" \notin changes \/ waived,
           dialog' = "start" => dialog = "start"
    PROVE  ResultInv'
  BY DEF IInv, ResultInv, Flags, EditsAreKnown, ModifiedIsKnown, ModifiedIsAnEdit, LossIsAskedFor,
         GoingOnDropsNothing, NothingBeforeStart, WritesTheNamedFile

\* doDirectoryCompare() is no answer to a question, but for the open dialog.
LEMMA DirectoryCompareKeepsResult ==
    ASSUME IInv, NEW a, NEW b, NEW ACTION next,
           DoDirectoryCompare(a, b, next),
           next => dialog' \in {"none", "go"},
           dialog \in {"start", "go"}
    PROVE  ResultInv'
<1>1. "edit" \notin changes \/ waived
  BY DEF IInv, ResultInv, GoingOnDropsNothing, NothingBeforeStart
<1>2. dialog' \in {"none", "go"}
  BY DEF DoDirectoryCompare, Done
<1>3. UNCHANGED <<m_bOutputModified, m_bModified, changes, waived, lost, misnamed>>
  BY DEF DoDirectoryCompare, result
<1> QED
  BY <1>1, <1>2, <1>3, RestKeepsResult

-----------------------------------------------------------------------------
(* Every step keeps the invariant. *)

LEMMA InitIInv == Init => IInv
<1> SUFFICES ASSUME Init PROVE IInv
  OBVIOUS
<1>1. "" \notin Files
  BY SessionAssumption
<1>2. OutputIsGiven
  BY <1>1 DEF Init, OutputIsGiven
<1>3. LossIsAskedFor
  BY DEF Init, LossIsAskedFor, Nothing
<1> QED
  BY <1>2, <1>3 DEF Init, IInv, ResultInv, Flags, EditsAreKnown, ModifiedIsKnown, ModifiedIsAnEdit,
                    GoingOnDropsNothing, NothingBeforeStart, WritesTheNamedFile

LEMMA StartKeeps == ASSUME IInv, Start PROVE IInv'
<1>1. dialog = "start" /\ changes = {}
  BY DEF Start, IInv, ResultInv, NothingBeforeStart
<1>2. PICK a \in Inputs, b \in Inputs, out \in Outputs \cup {"unnamed.txt"} :
        /\ m_outputFilename' = out
        /\ given' = {out} \cap Files
        /\ \/ DoDirectoryCompare(a, b, dialog' = "go" /\ pending' = Open)
           \/ MainInit("start", out, TRUE, TRUE, FALSE, FALSE)
           \/ dialog' = "go" /\ UNCHANGED <<result, changes, waived, lost, misnamed>>
  BY Zenon DEF Start
<1>3. OutputIsGiven'
  BY <1>2 DEF OutputIsGiven
<1>4. CASE DoDirectoryCompare(a, b, dialog' = "go" /\ pending' = Open)
  BY <1>1, <1>3, <1>4, DirectoryCompareKeepsResult DEF IInv
<1>5. CASE MainInit("start", out, TRUE, TRUE, FALSE, FALSE)
  BY <1>1, <1>3, <1>5, MainInitDropsNothing DEF IInv
<1>6. CASE dialog' = "go" /\ UNCHANGED <<result, changes, waived, lost, misnamed>>
  BY <1>1, <1>3, <1>6, RestKeepsResult DEF IInv, result
<1> QED
  BY <1>2, <1>4, <1>5, <1>6

LEMMA CommandKeeps == ASSUME IInv, Command PROVE IInv'
<1>1. /\ dialog = "none"
      /\ dialog' = IF m_bOutputModified THEN "unsaved" ELSE "go"
      /\ lost' = Nothing
      /\ UNCHANGED <<output, result, changes, waived, given, misnamed>>
  BY DEF Command, Ask, Free
<1>2. dialog' = "go" => "edit" \notin changes \/ waived
  BY <1>1 DEF IInv, ResultInv, EditsAreKnown
<1> QED
  BY <1>1, <1>2 DEF IInv, ResultInv, Flags, EditsAreKnown, ModifiedIsKnown, ModifiedIsAnEdit, LossIsAskedFor, GoingOnDropsNothing,
                    NothingBeforeStart, WritesTheNamedFile, OutputIsGiven, Nothing, output, result

LEMMA ContinueUnsavedKeeps == ASSUME IInv, ContinueUnsaved PROVE IInv'
  BY DEF ContinueUnsaved, IInv, ResultInv, Flags, EditsAreKnown, ModifiedIsKnown, ModifiedIsAnEdit, LossIsAskedFor, GoingOnDropsNothing,
         NothingBeforeStart, WritesTheNamedFile, OutputIsGiven, output

\* Commands that were asked, and go on.
LEMMA OpenDialogKeeps == ASSUME IInv, OpenDialog PROVE IInv'
<1>1. dialog = "go" /\ ("edit" \notin changes \/ waived)
  BY DEF OpenDialog, Go, IInv, ResultInv, GoingOnDropsNothing
<1>2. CASE Done /\ UNCHANGED <<inputs, output, result, folders, views, memory>>
  BY <1>1, <1>2, RestKeepsResult DEF Done, IInv, OutputIsGiven, output, result, memory
<1>3. CASE \E a \in Inputs, b \in Sources \cup {""}, name \in Outputs \cup {"unnamed.txt"} :
             /\ m_outputFilename' = name
             /\ given' = {name} \cap Files
             /\ \/ DoDirectoryCompare(a, b, Done)
                \/ MainInit("open", name, TRUE, TRUE, FALSE, FALSE)
  <2>1. PICK a \in Inputs, b \in Sources \cup {""}, name \in Outputs \cup {"unnamed.txt"} :
          /\ m_outputFilename' = name
          /\ given' = {name} \cap Files
          /\ \/ DoDirectoryCompare(a, b, Done)
             \/ MainInit("open", name, TRUE, TRUE, FALSE, FALSE)
    BY <1>3
  <2>2. OutputIsGiven'
    BY <2>1 DEF OutputIsGiven
  <2>3. CASE DoDirectoryCompare(a, b, Done)
    BY <1>1, <2>2, <2>3, DirectoryCompareKeepsResult DEF IInv, Done
  <2>4. CASE MainInit("open", name, TRUE, TRUE, FALSE, FALSE)
    BY <1>1, <2>2, <2>4, MainInitDropsNothing DEF IInv
  <2> QED BY <2>1, <2>3, <2>4
<1> QED
  <2> SUFFICES ASSUME ~(Done /\ UNCHANGED <<inputs, output, result, folders, views, memory>>)
               PROVE  IInv'
    BY <1>2
  <2>1. PICK a \in Inputs, b \in Sources \cup {""}, merge \in BOOLEAN, out \in Outputs :
          LET name == IF ~merge THEN "" ELSE IF out = "" THEN "unnamed.txt" ELSE out
          IN  /\ m_outputFilename' = name
              /\ given' = {name} \cap Files
              /\ \/ DoDirectoryCompare(a, b, Done)
                 \/ MainInit("open", name, TRUE, TRUE, FALSE, FALSE)
    BY Zenon DEF OpenDialog
  <2>2. (IF ~merge THEN "" ELSE IF out = "" THEN "unnamed.txt" ELSE out) \in Outputs \cup {"unnamed.txt"}
    BY DEF Outputs
  <2> QED
    BY <2>1, <2>2, <1>3

LEMMA OpenFilesKeeps == ASSUME IInv, OpenFiles PROVE IInv'
<1> DEFINE out == IF pending.keep THEN m_outputFilename ELSE pending.out
<1>1. dialog = "go" /\ ("edit" \notin changes \/ waived)
  BY DEF OpenFiles, Go, IInv, ResultInv, GoingOnDropsNothing
<1>2. /\ m_outputFilename' = out
      /\ given' = IF pending.keep THEN given ELSE {out} \cap Files
      /\ Done
      /\ \/ UNCHANGED <<result, changes, waived, lost, misnamed>>
         \/ MainInit("files", out, TRUE, pending.gui, dockVisible, m_bDirCompare)
  BY DEF OpenFiles
<1>3. OutputIsGiven'
  BY <1>2 DEF IInv, OutputIsGiven
<1>4. CASE UNCHANGED <<result, changes, waived, lost, misnamed>>
  BY <1>1, <1>2, <1>3, <1>4, RestKeepsResult DEF IInv, Done, result
<1>5. CASE MainInit("files", out, TRUE, pending.gui, dockVisible, m_bDirCompare)
  <2> HIDE DEF out
  <2> QED BY <1>1, <1>3, <1>5, MainInitDropsNothing DEF IInv
<1> QED
  BY <1>2, <1>4, <1>5

LEMMA ReloadKeeps == ASSUME IInv, Reload PROVE IInv'
<1>1. "edit" \notin changes \/ waived
  BY DEF Reload, Go, IInv, ResultInv, GoingOnDropsNothing
<1>2. MainInit("reload", m_outputFilename, TRUE, TRUE, dockVisible, m_bDirCompare)
  BY DEF Reload
<1>3. OutputIsGiven'
  BY DEF Reload, IInv, OutputIsGiven, output
<1> QED
  BY <1>1, <1>2, <1>3, MainInitDropsNothing DEF IInv

LEMMA MergeCurrentKeeps == ASSUME IInv, MergeCurrent PROVE IInv'
<1>1. "edit" \notin changes \/ waived
  BY DEF MergeCurrent, Go, IInv, ResultInv, GoingOnDropsNothing
<1>2. MainInit("merge", m_outputFilename', TRUE, TRUE, dockVisible, m_bDirCompare)
  BY DEF MergeCurrent
<1>3. \/ UNCHANGED <<output, given>>
      \/ given' = {m_outputFilename'} \cap Files
  BY DEF MergeCurrent
<1>4. OutputIsGiven'
  BY <1>3 DEF IInv, OutputIsGiven, output
<1> QED
  BY <1>1, <1>2, <1>4, MainInitDropsNothing DEF IInv

LEMMA QuitKeeps == ASSUME IInv, Quit PROVE IInv'
<1>1. dialog = "go" /\ ("edit" \notin changes \/ waived)
  BY DEF Quit, Go, IInv, ResultInv, GoingOnDropsNothing
<1>2. UNCHANGED <<output, result, given, misnamed>>
  BY DEF Quit
<1>3. CASE dialog' = "closed" /\ Forget("quit")
  BY <1>1, <1>2, <1>3 DEF Forget, Nothing, IInv, ResultInv, Flags, EditsAreKnown, ModifiedIsKnown, ModifiedIsAnEdit, LossIsAskedFor,
                          GoingOnDropsNothing, NothingBeforeStart, WritesTheNamedFile, OutputIsGiven, output, result
<1>4. CASE Done /\ UNCHANGED <<changes, waived, lost>>
  BY <1>1, <1>2, <1>4, RestKeepsResult DEF Done, IInv, OutputIsGiven, output, result
<1> QED
  BY <1>3, <1>4 DEF Quit

LEMMA SaveKeeps == ASSUME IInv, Save PROVE IInv'
<1>1. dialog \in {"none", "unsaved"} /\ UNCHANGED <<m_outputFilename, given, lost>>
  BY DEF Save, Free, output
<1>2. OutputIsGiven'
  BY <1>1 DEF IInv, OutputIsGiven
<1>3. CASE dialog' = "saveAs" /\ UNCHANGED <<m_bModified, m_bOutputModified, misnamed, changes, waived, pending>>
  BY <1>1, <1>2, <1>3, RestKeepsResult DEF IInv
<1>4. CASE SaveDocument(m_outputFilename)
  BY <1>1, <1>2, <1>4, SavingKeepsResult DEF IInv, OutputIsGiven
<1> QED
  BY <1>3, <1>4 DEF Save

LEMMA SaveAsNameKeeps == ASSUME IInv, SaveAsName PROVE IInv'
<1>1. PICK name \in Results :
        /\ m_outputFilename' = name
        /\ given' = given \cup {name}
        /\ SaveDocument(name)
  BY DEF SaveAsName
<1>2. dialog = "saveAs" /\ UNCHANGED lost
  BY DEF SaveAsName
<1>3. ResultInv'
  BY <1>1, <1>2, SavingKeepsResult
<1> QED
  BY <1>1, <1>3 DEF IInv, OutputIsGiven

LEMMA WorkKeeps == ASSUME IInv, Edit \/ SolveAll \/ MergeHistory PROVE IInv'
<1>1. dialog = "none" /\ UNCHANGED <<dialog, m_outputFilename, lost, given, misnamed>>
  BY DEF Edit, SolveAll, MergeHistory, Editable, Free, output, modal
<1>2. CASE Edit
  <2>1. /\ changes' = changes \cup {"edit"}
        /\ m_bModified' = TRUE
        /\ m_bOutputModified' = (m_bOutputModified \/ ~m_bModified)
        /\ waived' = waived
    BY <1>2 DEF Edit, SetModified
  <2>2. ~waived => m_bOutputModified'
    BY <1>1, <2>1, Zenon DEF IInv, ResultInv, Flags, ModifiedIsKnown, ModifiedIsAnEdit
  <2>3. m_bOutputModified' \in BOOLEAN
    BY <2>1
  <2> QED
    BY <1>1, <2>1, <2>2, <2>3 DEF IInv, ResultInv, Flags, EditsAreKnown, ModifiedIsKnown, ModifiedIsAnEdit, LossIsAskedFor,
                    GoingOnDropsNothing, NothingBeforeStart, WritesTheNamedFile, OutputIsGiven
<1>3. CASE SolveAll
  <2>1. /\ changes' = changes \cup {"edit"} /\ "edit" \in changes'
        /\ m_bModified' = TRUE /\ m_bOutputModified' = TRUE /\ waived' = FALSE
    BY <1>3 DEF SolveAll
  <2>2. Flags' /\ EditsAreKnown' /\ ModifiedIsKnown' /\ ModifiedIsAnEdit'
    BY <1>1, <2>1 DEF IInv, ResultInv, Flags, EditsAreKnown, ModifiedIsKnown, ModifiedIsAnEdit
  <2>3. LossIsAskedFor' /\ GoingOnDropsNothing' /\ NothingBeforeStart' /\ WritesTheNamedFile' /\ OutputIsGiven'
    BY <1>1 DEF IInv, ResultInv, LossIsAskedFor, GoingOnDropsNothing, NothingBeforeStart,
                WritesTheNamedFile, OutputIsGiven
  <2> QED
    BY <2>2, <2>3 DEF IInv, ResultInv
<1>4. CASE MergeHistory
  BY <1>1, <1>4 DEF MergeHistory, IInv, ResultInv, Flags, EditsAreKnown, ModifiedIsKnown, ModifiedIsAnEdit, LossIsAskedFor,
                    GoingOnDropsNothing, NothingBeforeStart, WritesTheNamedFile, OutputIsGiven
<1> QED
  BY <1>2, <1>3, <1>4

LEMMA UnaskedKeeps ==
    ASSUME IInv, AddManualDiffHelp \/ ClearManualDiffHelpList \/ EncodingChanged PROVE IInv'
<1>1. OutputIsGiven'
  <2>1. UNCHANGED <<output, given>>
    BY Zenon DEF AddManualDiffHelp, ClearManualDiffHelpList, EncodingChanged
  <2> QED
    BY <2>1 DEF IInv, OutputIsGiven, output
<1>2. PICK by \in Unasking : \E load \in BOOLEAN, gui \in BOOLEAN :
        MainInit(by, m_outputFilename, load, gui, dockVisible, m_bDirCompare)
  BY Zenon DEF AddManualDiffHelp, ClearManualDiffHelpList, EncodingChanged, Unasking
<1> QED
  BY <1>1, <1>2, MainInitDropsNothing DEF IInv

LEMMA QuietKeeps ==
    ASSUME IInv, Cancel \/ DropFolder \/ SaveAs \/ DirShowBoth \/ DirViewToggle \/ FolderMerge PROVE IInv'
<1>1. UNCHANGED <<m_outputFilename, m_bOutputModified, m_bModified, changes, waived, lost, given, misnamed>>
  BY DEF Cancel, DropFolder, SaveAs, DirShowBoth, DirViewToggle, FolderMerge, output, result, memory
<1>2. dialog \in {"none", "unsaved", "saveAs", "go"} /\ dialog' \in {dialog, "none", "saveAs"}
  BY DEF Cancel, DropFolder, SaveAs, DirShowBoth, DirViewToggle, FolderMerge, Free, Go, Done, modal
<1> QED
  BY <1>1, <1>2, RestKeepsResult DEF IInv, OutputIsGiven

LEMMA IInvStep == IInv /\ [Next]_vars => IInv'
<1> SUFFICES ASSUME IInv, [Next]_vars PROVE IInv'
  OBVIOUS
<1>1. CASE Next
  BY <1>1, StartKeeps, CommandKeeps, ContinueUnsavedKeeps, OpenDialogKeeps, OpenFilesKeeps, ReloadKeeps,
     MergeCurrentKeeps, QuitKeeps, SaveKeeps, SaveAsNameKeeps, WorkKeeps, UnaskedKeeps, QuietKeeps DEF Next
<1>2. CASE UNCHANGED vars
  BY <1>2 DEF vars, output, result, modal, memory, IInv, ResultInv, Flags, EditsAreKnown, ModifiedIsKnown, ModifiedIsAnEdit,
              LossIsAskedFor, GoingOnDropsNothing, NothingBeforeStart, WritesTheNamedFile, OutputIsGiven
<1> QED
  BY <1>1, <1>2

-----------------------------------------------------------------------------
\* The invariant holds whatever the user does, for every set of files.
THEOREM Invariance == Spec => []IInv
  BY InitIInv, IInvStep, PTL DEF Spec

\* The application always knows of edits that are neither saved nor given up:
\* m_bOutputModified, which the signal modifiedChanged sets for the first edit
\* only.  Not covered: edits that follow "Continue Without Saving" and a dialog
\* that was then cancelled (waived).
THEOREM EditsStayKnown == Spec => []EditsAreKnown
<1>1. IInv => EditsAreKnown
  BY DEF IInv, ResultInv
<1> QED
  BY <1>1, Invariance, PTL

\* However questions, file dialogs, failed saves and reloads follow one another,
\* edits that were neither saved nor given up are dropped only by the three
\* commands that never ask, or when they follow edits that were given up while
\* the merge window stayed modified (lost.waived): those the code does drop
\* unasked.
THEOREM LossIsAlwaysAskedFor == Spec => []LossIsAskedFor
<1>1. IInv => LossIsAskedFor
  BY DEF IInv, ResultInv
<1> QED
  BY <1>1, Invariance, PTL

\* What is written always has the name the user gave for this result, or the
\* name of the input it is merged into.
THEOREM NamedFileIsWritten == Spec => []WritesTheNamedFile
<1>1. IInv => WritesTheNamedFile
  BY DEF IInv, ResultInv
<1> QED
  BY <1>1, Invariance, PTL
=============================================================================
