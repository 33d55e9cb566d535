# A TLA+ model of KDiff3

KDiff3 compares and merges two or three files or folders. This directory keeps
TLA+ modules of its core logic, TLC configurations that check them on small
instances, and proofs that TLAPS checks. `PROJECT.json` names the source lines
every definition stands for; paths below are relative to `src/src/` of the
repository unless they start with `doc/` or `test/`.

1. The system  2. Modules  3. Runs and bounds  4. Proofs  5. Findings
6. Disagreements without a run  7. Not modelled  8. Plan

## 1. The system

KDiff3 runs in one thread, that of the user interface; even the "threads" of
the word wrap are runnables that it runs itself, and only the KIO workers are
other processes. What makes it hard is that handlers are re-entered: modal
dialogs, jobs and every poll of the progress dialog run nested event loops in
the middle of an operation, and a folder merge stops at a file that is merged by
hand and is continued by whatever command comes next.

| Component | State | Operations | Interacts with | Hard behaviour | Correct when |
| --- | --- | --- | --- | --- | --- |
| Folder listing (`DefaultFileAccessJobHandler.cpp`, `fileaccess.cpp`, the ignore lists) | the lists of entries, the patterns of the ignore files that were read | `listDir()`, `filterList()`, `enterDir()`, `buildMergeMap()` | feeds the scan | patterns that apply to one folder, to all below or to what was listed; listings that are cut short | only what is ignored is missing, and every row has its folder |
| Folder scan (`directorymergewindow.cpp`, `MergeFileInfos.cpp`) | one `MergeFileInfos` per path: which of A, B, C have it, pairwise equalities, ages; the tree and its hidden rows | `init()`, `fastFileComparison()`, `compareFilesAndCalcAges()`, `updateParents()`, `updateFileVisibilities()` | file access; proposes operations | comparisons the user cancels; equality of folders derived from rows that may be hidden | folders are equal exactly when nothing in them differs; ages follow the dates |
| Proposed operations (same files) | `m_eMergeOperation` of each item | `calcSuggestedOperation()`, `setMergeOperation()`, `setAllMergeOperations()` | reads the scan, feeds the merge | one choice cascades to a subtree, translated for every item | the proposal loses no change |
| Folder merge (same files, `kdiff3.cpp`, `pdiff.cpp`) | `m_mergeItemList` and its cursor, `m_bRealMergeStarted`, `m_bSimulatedMergeStarted`, `m_bError`, completion and status of the items | `prepareMergeStart()`, `mergeContinue()`, `canContinue()`, `mergeResultSaved()`, `mergeCurrentFile()` | opens files in the merge result window, gets their saving back | a loop that stops for a manual merge, an error or a cancel | no item runs twice or is passed by; Done means written; saving completes the right item |
| File operations (same files, `fileaccess.cpp`) | the folders on disk | `copyFLD()`, `deleteFLD()`, `mergeFLD()`, `renameFLD()`, `makeDir()`, `createBackup()`, `writeFile()` | called by the folder merge and by saving | one call of several fails | nothing is lost, nothing else is touched, "true" means done |
| Line alignment (`diff.cpp`, from `mainInit()`) | the `Diff3LineList` | `calcDiff3LineListUsingAB/AC/BC()`, `calcDiff3LineListTrim()` | GNU diff; feeds the windows and the merge result | passes that move lines and equality flags between rows | every line appears once and in order; flags say what is equal |
| Manual alignment (`diff.cpp`, `pdiff.cpp`) | the `ManualDiffHelpList` | `insertEntry()`, `runDiff()` by sections, `isValidMove()`, `correctManualDiffAlignment()` | part of the alignment | ranges that replace or overlap earlier ones | chosen lines stand beside each other |
| Comparisons of text (`gnudiff_*.cpp`, `diff.cpp`) | none that lasts | `runDiff()` and GNU diff, `calcDiff()`, `optimize()` | the alignment, fine diffs | index arithmetic: discarded lines, shifted boundaries, parts taken back | every line and character is accounted for, and what is called equal is |
| Merge result (`MergeEditLine.*`, `mergeresultwindow.cpp`) | blocks of rows with edit lines, `m_bModified` | automatic merge, choose, split, join, edit, history merge, save | reads the alignment; saving reports to the folder merge | choices, splits and joins over blocks that were edited | the merge is three-way; nothing unsolved is saved; edits are not lost |
| Input files (`SourceData.cpp`, `CommentParser.cpp`) | the lines of one input, and of what is compared instead of them | read, decode, preprocess, parse comments | file access | line ends, preprocessors that fail, comments over several lines, reading again | the lines are the file; only comments are blanked |
| File access, progress (`fileaccess.cpp`, `DefaultFileAccessJobHandler.cpp`, `progress.cpp`) | the current job, the levels of progress, one event loop | stat, get, put, copy, list; push, pop, cancel | everything above | nested event loops, cancelled jobs | a caller gets the result of its own job |
| Text windows (`difftextwindow.cpp`, `pdiff.cpp`) | wrapped lines, selection, first line, requests for a word wrap | word wrap, select, scroll, find | the main window | caches per window filled in any order, a cancel between two of them, positions that mean something else once wrapped | the lines show the text; selection and first row stay; a request is carried out |
| Main window (`kdiff3.cpp`, `pdiff.cpp`) | inputs, output name, `m_bOutputModified`, what is visible, the question that is open | open, reload, drop, save, save as, quit, show folders or files | all windows | commands that wait for a dialog while the state they saw may change | edits are known, asked for before they are dropped, saved under the right name |
| Options, dialogs, plugins | settings | | | user interface, strings | |

Everything in this code that a test would hardly reach is listed with its line
under "hazards" in `PROJECT.json`, with the properties that cover it.

## 2. Modules

Conventions: items, rows and lines of the alignment are numbered from 1, and 0
stands for an invalid index, iterator or `LineRef`; the modules of the windows
and of GNU diff count from 0 as the code does. Definitions carry the source's
names where TLA+ allows it. An operator headed `Mutant:` is a plausible bug of
the definition below it; nothing uses it but the checks that the properties
notice it. A variable marked "history" records something for a property and is
never read by a guard; one marked "bound" limits a run.

| Modules | Kind | Checked in |
| --- | --- | --- |
| `MergeOperation`, `SuggestedOperation` | operators | all of the folder machines |
| `DirMerge`, implementing `MergeRun` | machine, proved | `MCDirMerge`, `MCDirMergeSync` |
| `MergeFileInfos`, `FolderScan` | operators, machine, proved | `MCFolders` |
| `FileOps` | machine | `MCFileOps` |
| `ManualDiffHelp`, `Diff3Rows`, `AlignBC`, `Diff3Align` | operators, machine, proved | `MCDiff3Align` |
| `MergeBlocks`, `MergeResult` | operators, machine, proved | `MCMergeResult` |
| `KioJobs` | machine, proved | `MCKioJobs.cfg` |
| `WrapLines`, `WordWrap` | operators, machine, proved | `MCWordWrap` |
| `Session` | machine, proved | `MCSession.cfg` |
| `TextLines`, `CommentParser`, `GnuDiff`, `LineDiff`, `HistoryMerge`, `FolderList`, `FindText` | algorithms | `MCAlgorithms` |

`FileOps`, `FolderList`, `GnuDiff` and `LineDiff` have RECURSIVE operators and
are for TLC only; the others have none, so that they can be proved about. The
proofs are in `DirMergeProofs`, `FolderScanProofs`, `SessionProofs`,
`KioJobsProofs`, `Diff3AlignProofs`, `MergeResultProofs` and `WordWrapProofs`.
`ListParts` has `Kept`, the part of a list that a loop with `erase()` or
`remove_if()` leaves, in a form that can be proved about; the lemmas about it,
about `FlattenSeq` and about functions defined by recursion over numbers are in
`ListLemmas`.

### Folder merge: `MergeOperation`, `SuggestedOperation`, `DirMerge`, `MergeRun`

`MergeOperation` names the members of `e_MergeOperation` and the sets the code
switches over. `SuggestedOperation` is the pure part of the choice of
operations: `calcSuggestedOperation()` for one item (`CalcSuggestedOperation`,
with the two-way, three-way and copy branches apart) and the cascade of
`setMergeOperation()` (`SetOne`, `SetAll`), which returns for each item the
*sequence* of operations set on it, because an item that gets another operation
and then the old one back is started again all the same.

`DirMerge` is the state machine of the merge. The tree is numbered in display
order with the last descendant of every item (`Last`), so subtree, ancestors
and `treeIterator()` are arithmetic. `m_mergeItemList` is always built in this
order: it is a set, with the cursor `cur` one of its members.

| Variable | Code |
| --- | --- |
| `op`, `complete`, `status` | `m_eMergeOperation`, `m_bOperationComplete`, `m_eOpStatus` of every item |
| `visible` | the rows that are not hidden |
| `real`, `sim`, `error` | `m_bRealMergeStarted`, `m_bSimulatedMergeStarted`, `m_bError` |
| `list`, `cur` | `m_mergeItemList`, `m_currentIndexForOperation` |
| `doc`, `modified` | the document of the merge editor: the item it is the merge of, and its name (`m_outputFilename`), by which alone `mergeResultSaved()` recognises the destination of the current item; `m_bOutputModified` |
| `phase`, `req` | where the running command is between two points at which other handlers can run |
| `written`, `asked` | history: items written since they were (re)started; what the running merge was started as |

| Action | Handler |
| --- | --- |
| `SetMergeOperation`, `SetAllMergeOperations`, `UpdateFileVisibilities` | the operation menus, "... for all items", "Show ..." |
| `Request`, `DoubleClick` | run all, run the selected item, merge the current file, compare or merge selected files, `onDoubleClick()` |
| `SaveAndContinue`, `CancelCommand` | the question about an unsaved document (`KDiff3App::canContinue()`) |
| `RefuseAfterError`, `CanContinue` | `DirectoryMergeWindow::canContinue()`, which ends the unsaved current item as "Not saved" |
| `StartMerge`, `DeclineMerge`, `ContinueMerge` | `prepareMergeStart()` with its answers: Do It, Simulate It, Cancel |
| `ExecuteItem`, `ExecuteFails`, `ExecuteManually` | `executeMergeOperation()` of the current item: succeeds, fails, opens the editor |
| `AdvanceItem` | one round of `mergeContinue()`: end the item, complete the folders it leaves, go to the next, or stop (end, error, cancel) |
| `MergeCurrentFile`, `OpenOther`, `RefuseOpen` | `mergeCurrentFile()`, `slotCompareExplicitlySelectedFiles()` and the others that take the editor away |
| `SaveDocument`, `SaveDocumentAs`, `EditDocument` | `slotFileSave()` and `slotFileSaveAs()` with `mergeResultSaved()`: any document can get the name of an item's destination (`NamedFiles` bounds which); edit |
| `Rescan`, `QueryClose`, `Closed` | `reload()`, `queryClose()`, and that a closed program does nothing |

Whether a file operation succeeds is a choice here; `FileOps` models what it
does. `DirMergeClaims` holds what the handbook says and the code does not keep.

`MergeRun` is what a folder merge promises, without dialogs, editor, status or
simulation: a queue `todo` of items that have not `ended`, executed in order,
each once; the run stands still on the item it stopped at and goes on only when
that item has ended; a folder ends only after everything in it. `DirMerge`
implements it under the mapping `todo <- {j \in list : j >= cur}`,
`ended <- {i : complete[i]}`, `at <-` the part of the loop that runs. Its
behaviours are the property `RunIsKept`.

### Folders: `FolderList`, `MergeFileInfos`, `FolderScan`

`FolderList` is how a folder is listed and filtered on each side and how the
lists become rows (`listDir()`, `filterList()`, the CVS and Git ignore lists
with the order in which their files are read and the folders they hold for,
`buildMergeMap()`, `FileKey`, `prepareListView()`). A path is a sequence of
names and a pattern the set of the names it matches; `left` is how many entries
are read before the user cancels.

`MergeFileInfos` is one item: an entry gives for every side the content
("none", "dir" or a file's content) and the date. `ComparedEqual` and `Ages`
are `compareFilesAndCalcAges()`: `AgeRound` is one round of its loop (the file
with the latest date and all that equal it get the next age), `LeftAges` what
happens to the files no round has reached. `UpdateAge` is `updateAge()`: the ages
of an item that is a folder on some side come from which sides exist and are
flagged equal, not from dates. `FastFileComparison` includes the
user who cancels it: the files are then flagged equal.

`FolderScan` composes it with `SuggestedOperation` over a tree: `Init` and
`Rescan` (`prepareListView()`, possibly cancelled at an item: `cut`, `listed`),
`UpdateFileVisibilities` with the equality of folders (both set the ages of
folders again, `FolderAges`), `SetMergeOperation`,
`SetAllMergeOperations`. `After` says what an operation leaves on a side; the
properties compare it with a definition of a three-way merge (`Merged`) that
looks at contents only.

### File operations: `FileOps`

The file system is a function from paths to a folder, a content or a link. A
call to it can fail whenever it is made, up to `MaxFaults` times in one
operation; an operation is therefore a *set* of outcomes, and `Then` goes on
with those that have succeeded so far, as the code's early returns do. The
operators are the functions of `DirectoryMergeWindow` and `FileAccess` one for
one: `RenameFLD`, `DeleteFLD` (with `DeleteAll`, the loop over a folder's
entries), `MakeDir`, `CopyFLD` (`ClearWay`: what is in the way goes to the
backup or is deleted), `MergeFLD`, `CreateBackup`, `WriteFile`. `Outcomes` is
`executeMergeOperation()`, `SaveOutcomes` what saving the merged file does, which
for "merge to A and B" copies it a second time.

| Variable | Code |
| --- | --- |
| `fs` | what is on disk |
| `editing` | item and operation of the file that `mergeFLD()` has opened in the merge editor |
| `last` | history: the last operation, its answer, the calls that failed |

Actions: `Execute` (any operation that is offered for what is there) and `Save`.

### Line alignment: `ManualDiffHelp`, `Diff3Rows`, `AlignBC`, `Diff3Align`

`ManualDiffHelp` is the list of ranges chosen by hand: `InsertEntry`
(`insertEntry()` with its removal of overlaps and compaction), `IsValidMove`,
`SectionEnds` (how `runDiff()` cuts the inputs). `Diff3Rows` has the passes over
the rows, one operator per loop body: `AddPair` (AB), `AddThird` (AC), `Align`
(`correctManualDiffAlignment()`), `Trimmed` (`calcDiff3LineListTrim()`).
`AlignBC` is `calcDiff3LineListUsingBC()`. `Diff3Align` runs them in the order
of `mainInit()`, one action for each diff, element of a diff list, manual entry
or row, with the user's `AddManualDiffHelp` and `ClearManualDiffHelpList` when a
run has ended. Texts of lines are opaque.

With the option "Try hard" (`tryHard`, the default) GNU diff may return *any*
longest common subsequence of the two inputs (`Matchings`); without it any common
subsequence at all. The first covers whichever one `diff_2_files()` picks, the
second whatever its cost limit and its discarded lines make it miss (`GnuDiff` has
those; inputs of the size of `diff3_align` are too small for them to matter). What
depends on the longest is `EqualLinesAreFlagged`, which is stated for diffs that
try hard; everything else holds without. The equality of lines is an argument, so options that ignore white space
or case are covered as well. `Diff3AlignClaims` has what a test expects and the
code does not keep.

### Comparisons of text: `GnuDiff`, `LineDiff`

`GnuDiff` is the diff itself: the classes of lines, what is discarded as
confusing (`Discards`), the search from both ends with its cost limit
(`CompareSeq`), `shift_boundaries()` (`ShiftFrom`), the script
(`BuildScript`) and `runDiff()`, which makes a `DiffList` of it and treats an
input that ends without a line feed (`RunDiff`). `LineDiff` is the search for
what differs inside two lines (`calcDiff()`: `Round`, `TakeBack`; `optimize()`).

### Merge result: `MergeBlocks`, `MergeResult`, `HistoryMerge`

`MergeBlocks` has the data: `MergeOneLine` (the table that decides a row),
`BuildFromDiff3` (rows of the same kind make a block), `UpdateDefaults`,
`RemoveEmptySource`, `Choose`, `SplitAt`, `JoinDiffs`. A row is a function from
the inputs that have a line in it to the line's characters, " " a white one and
"#" one of a comment that is ignored, since these decide what a conflict is: they
do not count when lines are compared (`Text`; two lines of nothing else are set
equal by `fineDiff()`), and a line without anything else is a white one
(`IsWhite`), unless a comment has white space around it. Without the option
"Ignore comments" a comment is text like any other. `MergeResult` has an action for
every command of the Merge menu and every key of the editor that changes text,
and `SaveDocument`. The block a choice is for, the rows of a split, the cursor
and the selection are inputs: the user can click anywhere. Where the code
asserts what it does not keep, the model goes on as the release build does.

Two readings are nondeterministic or totalised. `MergeBlock::split()` can leave
a block without a line, and the code then reads the first of no lines to find
out whether the block is solved; the value read is undefined, and the model lets
such a block pass as solved, which is the case that saves a file. A blank
`MergeBlock`, made by a split outside every block, has an iterator that points
nowhere; reading it is modelled as if no input had a line there.

`HistoryMerge` is the merge of a version control log: `findHistoryRange()`, the
entries collected from every input (`Collect`), where they stay, how they are
sorted, and the block that replaces the history. A line is a sequence of words;
the regular expressions are the question whether a word is a number.

### Input files: `TextLines`, `CommentParser`

`TextLines` is `SourceData`: which encoding is taken, what the two preprocessors
leave when they fail, `preprocess()` (line ends, the style that is shown, binary
files), the lines that are displayed and the ones that are compared
(`LineDataForDisplay`, `LineDataForDiff`) and what is kept when the same
`SourceData` reads again (`SetFilename`, `ReadAndPreprocess`). `CommentParser`
is `DefaultCommentParser`, one character at a time (`ProcessChar`), and
`removeComment()`, which blanks by the offsets it kept.

### Remote files and jobs: `KioJobs`

One thread, whose call stack is `control`: scopes (`ProgressScope`) and calls
that wait in `enterEventLoop()` for their job. While a call waits, or the code
polls for a cancel, the event loop may end a job (`JobEnds`), cancel (`Cancel`,
`KillJob`) or run a handler that opens a scope and makes calls of its own (`Push`,
`Call`); a call that comes to an `m_eventLoop` which runs already does one
`processEvents()` instead of its own loop. `CopyFirst` and `Reread` are
`createLocalCopy()` and the second reading that trusts the name it left.

| Variable | Code |
| --- | --- |
| `control` | the call stack: scopes and waiting calls, each with its job, whether it runs the loop, whether it was woken |
| `jobs`, `m_pJob` | the KIO jobs, and the one the dialog would kill |
| `exiting`, `cancelled` | `m_eventLoop` was told to exit; `m_bWasCancelled` |
| `localCopy` | the job that made `m_localCopy` |
| `last`, `late` | history: the call that returned last; jobs begun after a cancel |

### Text windows: `WrapLines`, `WordWrap`, `FindText`

`WrapLines` has the pure parts: the pieces of a row (`Pieces`), the cache a
runnable fills (`WrapLineCache`, `EntriesOf`), the wrapped lines of a window
(`Diff3WrapLines`), the conversions between rows and lines, the selected text.
`WordWrap` is the protocol of `recalcWordWrap()`: a request is posted
(`PostRecalcWordWrap`), carried out by the event loop (`SlotRecalcWordWrap`),
which starts a runnable for every window and cache, each of which runs (`Run`)
and may be cancelled; the last one posts `SlotFinishRecalcWordWrap`. In between
the window may be resized. The selection is turned into rows and back.

`queue` is the posted calls, `runnables` those that have not run,
`maxRunnables` is `s_maxNofRunnables`, `needed` and `sums` the lines each row
needs and the sums of them in the `Diff3LineList`, `win` the members of each
window, `top` and `m_firstD3LIdx` the first line and the row it belonged to.
`chosen`, `topRow`, `dropped` and `stale` are history.

`FindText` is `slotEditFindNext()` over the windows with both `findString()`,
and `setSelection()`, which turns a position into wrapped lines.

### Main window: `Session`

| Variable | Code |
| --- | --- |
| `m_sd1`, `m_sd2`, `hasData` | the inputs |
| `m_outputFilename`, `m_bDefaultFilename`, `m_bOutputModified` | the same |
| `m_bModified`, `unsolved` | the merge result window: edited, has unsolved conflicts |
| `m_bDirCompare`, `folderMerge` | folders are compared, a folder merge runs |
| `mainVisible`, `mergeShown`, `dockVisible`, `dirShowBoth` | what is shown |
| `dialog`, `pending` | the modal question or file dialog, and the command that waits for it |
| `changes`, `waived`, `lost`, `given`, `misnamed` | history: changes neither saved nor given up; whether edits that were given up are still in the merge window; what the last change of the comparison dropped; which names were given; whether a file was written that nobody named |

A command that would drop the result first calls `canContinue()` (`Command`,
`Ask`); `ContinueUnsaved`, `Save`, `SaveAs`, `SaveAsName` and `Cancel` are the
answers, after which the command goes on with what it finds *then* (`OpenFiles`,
`Reload`, `DropFolder`, `Quit`, `MergeCurrent`, ...). `MainInit` is what every
comparison resets. `Edit`, `SolveAll` and `MergeHistory` change the result,
with or without `setModified()`.

## 3. Runs and bounds

All runs take the modules as they are; every passing run ends without error.
Deadlock is checked where the system cannot stop (`dir_merge`,
`dir_merge_sync`, `kio_jobs`); the others bound the number of commands or
widths, after which nothing is left to do, or let the user stop.

| Run | Question | Bounds, and why they are enough |
| --- | --- | --- |
| `dir_merge` | Do the merge loop and everything that interrupts it keep the items right, and the run that they are part of? 2 million states | A folder with two files; one default operation, one that can be chosen. The loop treats an item by its place relative to the cursor and the folder it leaves: one file before, one after, one folder around both covers each place. No command is counted: every sequence is explored. |
| `dir_merge_sync` | Is the invariant of the proofs true, and does the loop come back? | A folder with a file in sync mode, with conflicting ages (the one case in which a merge is refused at its start), rows hidden and shown; any document can be saved as the destination of the file (`NamedFiles`), which `dir_merge` leaves to the proofs and to this run. 900 thousand states |
| `folders` | What is proposed for two or three folders? | Two: a folder with two entries, every way the first can exist, agree and be dated, and the second agree, differ or be missing; two commands. Three: a folder in a folder, with a file in it and one beside it, so that an equality has to travel two levels; every combination of three contents; files beside a folder of their name; a scan cancelled anywhere; one command. |
| `file_ops` | What is on disk after an operation in which a call may fail? | "d" is missing, a file, an empty or full folder or a link on either side, with no backup, one that is a file or one that is a folder; the operations on it and on an entry of it; one failing call in each of two operations (the second finds what the first left). More failing calls in one operation end it no further: it stops at the first, except in `deleteFLD()`. |
| `diff3_align` | Is every line shown once, with the right equalities, aligned as the user chose? | Up to 3 lines of 3 texts per side up to renaming; each *choice of diff*, for shorter sides also of one that does not try hard; up to two ranges chosen by hand, four on two fixed inputs. A line is moved relative to one partner and one line in the way; three lines give both. |
| `merge_result` | Is the automatic merge three-way, and do choices and edits keep the rest? | All pairs of rows with 5 texts for the merge, a comment among them; lists of two and three rows with every kind of block for up to 4 commands of choice or 3 of editing. Blocks interact with their neighbours only. |
| `kio_jobs` | Does each call get the result of its own job, however calls nest and are cancelled? 170 thousand states | Two jobs, one remote file, a stack of four: a call inside a call, each in a scope of its own, is all that shares the loop; the second job is the one that ends, cancels or is cancelled in place of the first. |
| `word_wrap` | Do windows, selection and first row survive a recalculation? 300 thousand states | Two windows, three rows in two caches, two widths; a row that needs more lines in A, one in B, one that B does not have; every selection and scroll position. Two caches per window are what the order of runnables and a cancel in between can tell apart. |
| `session` | Is every edit known to the application, asked for, and saved under the right name? 1.2 million states | One name for inputs, one for results, one folder; no command is counted. What matters of a name is whether it is the one given for this comparison. |
| `algorithms` | Are the pure algorithms right on every small input? 210 thousand states | Files of up to 4 tokens of comments and strings or 5 of line ends, read twice or followed by another file, with preprocessors that fail; sections of up to 3 lines of 4 texts and some of 7, with a cost limit of 2; words of up to 4 characters; logs of up to 3 rows; folders of 7 to 11 entries with ignore files in any of two places, 10 settings, cancelled after any number of entries that makes a difference; texts of up to two lines in two or three windows at three widths. The limits of the code (500 characters searched, cost limit 256, 5 matches that make a line provisional) are parameters, set low enough to be reached. |

What the properties say:

* `dir_merge`: `RunIsKept` (the machine implements `MergeRun`),
  `DoneMeansWritten`, `ManualMergeIsCurrent` (saving ends the item the document
  belongs to), `NoFilePassedBy` (what lies behind the cursor is complete, or
  shows no status).
* `dir_merge_sync`: `IInv`, which contains `TypeOK`, `CursorInList` (the cursor
  is never used outside the list), `NothingRunsTwice` and
  `NothingRunsAfterError`; and `MergeContinueReturns`:
  `phase \in {"execute", "advance"} ~> phase = "idle"`.
* `folders`: `ProposalKeepsBothFolders` (two-way: nothing that exists on one
  side only is lost), `SyncProposalMakesFoldersSame`, `ProposalIsThreeWayMerge`
  (what the proposed operations leave is the three-way merge of the contents),
  `FolderEqualityIsRight`.
* `file_ops`: `BackupsKeepContents` (with backups, every file an operation
  replaces or deletes is in its place or in the backup, whatever failed),
  `ChangesOnlyItsDestination` (and a simulation changes nothing),
  `SuccessMeansDone`.
* `diff3_align`: `EachLineOnce`, `AlignBCKeepsBAndC`, `EqualLinesAreFlagged`,
  `TwoSidesAreAligned` (ranges chosen by hand stand beside each other),
  `TrimKeepsMatches`.
* `merge_result`: `NothingUnsolvedIsSaved`, `AutoMergeIsThreeWay`,
  `SolvedBlocksAreKept`, `EditingKeepsTheRest`.
* `kio_jobs`: `WaitsForItsJob` (a call returns early only if a cancel or the end
  of another job disturbed it), `ComparesWholeFiles`, `NothingRunsOn`,
  `CallsReturn` (liveness).
* `word_wrap`: `LinesShowTheText`, `SelectionKept`, `TopRowKept`,
  `RequestIsCarriedOut` (liveness).
* `session`: `EditsAreKnown`, `LossIsAskedFor`, `WritesTheNamedFile`.
* `algorithms`: `LinesAreTheFile`, `OnlyCommentsAreBlanked`, `LinesAreMatched`,
  `CharactersAreMatched`, `HistoryEntriesAreKept`, `OnlyIgnoredIsMissing`,
  `FindNextVisitsAll`. Each compares the algorithm with a definition of the
  result that is written without it.

Several of them are limited to what the code can keep, and say so: with the
option "Align B and C" lines of A may repeat (`ClaimAlignBC`), so `EachLineOnce`
is about the alignment without it and `AlignBCKeepsBAndC` about the other two
inputs; `LossIsAskedFor` names the three commands that never ask, and it and
`EditsAreKnown` leave out edits that follow "Continue Without Saving" and a
dialog that was then cancelled, which are dropped unasked (section 6);
`TopRowKept` leaves out the recalculation that changing the line numbers begins
without a request (`stale`);
`SuccessMeansDone` leaves out folders that could not be deleted and folders that
replace something else; `OnlyIgnoredIsMissing` leaves out a folder whose name
begins with that of another one; `RequestIsCarriedOut` ends in `hung` when the
thread waits for itself. Section 6 has the reasons.

**Fairness.** `DirMerge`: weak fairness of `MergeStep`, the actions inside the
loop of `mergeContinue()`; they are consecutive statements of one function in
one thread, so a loop that has been entered goes on. `WordWrap`: weak fairness
of the two posted calls and of the runnables, which Qt's event loop delivers.
`KioJobs`: weak fairness of a call whose wait is over, and of jobs ending - KIO
reports the result of every job, be it an error; strong fairness of the end of a
scope at each depth of the stack: code that runs comes to the end of its scopes
and does not open and close inner ones for ever. Nothing is assumed of the user:
dialogs may never be answered and commands never given.

## 4. Proofs

`DirMergeProofs` proves for **every** tree, every set of operations the menus
offer, every assignment of operations by the cascade and every set of rows that
can be visible:

| Theorem | States |
| --- | --- |
| `Invariance` | `Spec => []IInv` |
| `TypeCorrect` | `[]TypeOK` |
| `CursorStaysInList` | `[]CursorInList` |
| `CompleteItemsRest` | `[]NothingRunsTwice` |
| `DoneFilesAreWritten` | `[]DoneMeansWritten` |
| `ErrorStopsTheMerge` | `[]NothingRunsAfterError` |
| `SavingEndsTheRightItem` | `[]ManualMergeIsCurrent` |

It also proves that the folder merge implements the run, and that no file is left
behind:

| Theorem | States |
| --- | --- |
| `ImplementsRun` | `Spec => Run!Spec`, where `Run` is `MergeRun` under the mapping of `DirMerge` |
| `NoFileIsLost` | `[]NoFilePassedBy` |

`FolderScanProofs` proves about the folder comparison, for every tree of two or
three folders:

| Theorem | States |
| --- | --- |
| `FlagsInvariance` | `Spec => []FlagsInv` |
| `FolderFlagsAreRight` | `[]FolderEqualityIsRight` |
| `ProposalInvariance` | `Spec => []ProposalRight` |
| `ProposalIsAlwaysThreeWay` | `[]ProposalIsThreeWayMerge` |
| `BothFoldersAreKept` | `[]ProposalKeepsBothFolders` |
| `SyncMakesFoldersSame` | `[]SyncProposalMakesFoldersSame` |

`SessionProofs` proves about the main window, for every set of files:

| Theorem | States |
| --- | --- |
| `Invariance` | `Spec => []IInv` (that of `Session`) |
| `EditsStayKnown` | `[]EditsAreKnown` |
| `LossIsAlwaysAskedFor` | `[]LossIsAskedFor` |
| `NamedFileIsWritten` | `[]WritesTheNamedFile` |

`KioJobsProofs` proves about remote files, for any number of jobs and files and
any depth of the call stack:

| Theorem | States |
| --- | --- |
| `Invariance` | `Spec => []IInv` (that of `KioJobs`) |
| `CallsWaitForTheirJob` | `[]WaitsForItsJob` |
| `ComparisonsReadWholeFiles` | `[]ComparesWholeFiles` |
| `NoJobOutlivesItsOperation` | `[]NothingRunsOn` |

`Diff3AlignProofs` proves about the alignment, for files of any length over any
texts, every matching a diff may return, a longest one with "Try hard", and any
dialogue of manual alignments:

| Theorem | States |
| --- | --- |
| `TypeCorrect` | `[]TypeOK` |
| `NoLineIsLost` | `[]EachLineOnce` |
| `AlignBCLosesNothing` | `[]AlignBCKeepsBAndC` |
| `NoDifferenceIsInvented` | `[]EqualLinesAreFlagged` |

`MergeResultProofs` proves about the merge result, for lists of any length of
rows over any characters, comments and white space among them, and any keywords:

| Theorem | States |
| --- | --- |
| `Invariance` | `Spec => []IInv` (that of `MergeResult`) |
| `NothingUnsolvedIsEverSaved` | `[]NothingUnsolvedIsSaved` |
| `SolvedBlocksStay` | `SolvedBlocksAreKept` |
| `AutoMergeIsAlwaysThreeWay` | `[]AutoMergeIsThreeWay` |
| `TheRestStays` | `EditingKeepsTheRest` |

`WordWrapProofs` proves about the text windows, for any number of windows, any
rows, texts and widths, and requests, runnables and cancels in every order:

| Theorem | States |
| --- | --- |
| `WrapInvariant` | `Spec => []IInv` (that of `WordWrapProofs`) |
| `LinesAreShown` | `[]LinesShowTheText` |
| `TopRowStays` | `TopRowKept` |

Assumptions, all of them evaluated by TLC on each instance: `TreeAssumption`
(the items are numbered so that subtrees are intervals that nest),
`KindAssumption` (files are leaves; a folder in A is no file) and
`OperationAssumption` (the menus offer operations, the cascade sets operations
on items); for `FolderScan`, `FoldersAssumption` (the rows are in the order of
the tree view; a row is there on some side, and on a side only if the rows above
it are folders there; dates are numbers up to the newest) and
`WindowsAssumption` (the destination is one of the folders or another one; sync
mode has two folders and no other destination, as `allowSyncMode()` says); for
`Session`, `SessionAssumption` (the
folder, the empty name, the default one and the clipboard are no files); for
`KioJobs`, `KioAssumption` (the calls are among those the code makes, the bounds
are numbers); for `Diff3Align`, its `ScenarioAssumption` (each input is a list of
texts, the options are Boolean, the number of manual alignments is bounded); for
`MergeResult`, the `ScenarioAssumption` there (a `Diff3LineList` is not
empty, a row has a line of one input at least and of none that is not compared);
for `WordWrap`, `RowsAssumption` (there are finitely many windows and at least one
row, which in each of them has a text of some length or none; a runnable works on
at least one row) and the `WindowsAssumption` there (the user's window is one of
them, a window is at least one character wide).
Nothing is assumed of *which* operations a cascade sets.

**The invariant.** The properties are not inductive alone. That a Done file was
written needs to know, at the end of a round of the loop, that the item at the
cursor was just written; that saving ends the right item needs to know that a
document without an item has a name that equals no item's; that an item never
runs twice needs to know that a command which got past `canContinue()` has left
the current item complete. `LoopInv` collects these facts, and
`IInv == TypeOK /\ ... /\ ManualMergeIsCurrent /\ LoopInv` is inductive.
The proof has one lemma per action (or per group of actions that leave the same
things alone) and a few that several of them share: `AssignRestarts` (changing
operations only ever starts items again), `EndCurrentEnds` (ending the current
item completes it and no other), `NextInListBehind`, and `AtRest`/`Quiet`, which
reduce the invariant to the part a step outside the loop can disturb.
`IInvStep` combines them by the disjuncts of `Next`.

**The refinement.** `StepIsRunStep` shows
`IInv /\ [Next]_vars => [Run!Next]_(Run!vars)` with one lemma per action that
moves the run: `StartMergeBegins`, `ContinueMergeContinues`, `ExecuteExecutes`,
`AdvanceLeaves`, `MergeCurrentFileIsOne`, `SavingIsNoOther`, `CanContinueEnds`,
`AssignReopens`, `RescanForgets`; all others stutter (`QuietStepsStutter`).
The mapping needs the invariant: that the cursor is the *first* of what is left
(`CurrentIsCur`, from `CursorInList`), that a started list holds nothing that
has ended, that a command which reaches the loop finds its item ended. The
longest case is `AdvanceLeaves`: a folder is completed when the list leaves it,
perhaps with folders above it, and `FinishedAncestorsHoldNothing` shows that
every entry of each of them has ended by then, the item just left included.

**Files behind the cursor.** `NoFilePassedBy` is inductive together with `IInv`
and `OpenStatus`: a file that is not complete shows nothing, is being merged by
hand, or shows an error that still waits for the user. When the loop leaves an
item, the last two are impossible - the loop is not entered after an error, and
an item left in progress is complete - so a file passed by without being
completed, in a simulation, shows no status. `StandingStep` covers every action
that keeps the cursor or drops the list, `BeginningStep` the start of a merge,
and `AdvanceItemPasses` the one step that moves the cursor.

**Flags of folders.** `FolderEqualityIsRight` compares what `FolderEquality`
computes, item by item, with a definition that looks at all items below a folder
at once. The invariant of its loop is `FoldersRight(.., k)`: every folder has the
right flags as to the items up to `k`. `updateParents()` stops at the first folder
it leaves as it is; `StoppingIsRight` shows that the folders above that one know
the difference already, either because the folder separates versions itself and
is in front of the item, or because it cannot be hidden while the item shows
(`VisibleBelow`: an item is only where the folders above it are). When a folder
loses flags, the folders above it must not need to be told again;
`TellingIsRight` shows that, with `EqualHasAllPairs` for a folder that was equal
on all sides before. `FolderEqualityRight` is the induction, from whatever flags
the folders had before; so the flags are also right after rows were hidden and
shown again. What it is right *about* is the flags of the items below, which stay
those of the last scan (`ToldKeepsFiles`).

**Proposals.** The three properties about proposals compare the operation on each
item with what the contents ask for, but an operation is calculated from the flags
of the item *and* from what was set on its folder. `SetAllIsSet` and `CascadeLast`
reduce the cascade to one equation per item, the last operation set on it being
what `calcSuggestedOperation()` makes of the last one on its folder;
`CascadeKeeps` is the induction from the top level downwards. What it carries is a
statement about whole subtrees: `Fits` (three folders) and `Keeps` (two) say that
an operation suits an item and, passed on, every item below it. A merge starts
again from the item's own flags (`MergeFitsBelow`, `MergeKeepsBelow`): a folder
flagged equal is the same all the way down (`FlaggedIsAlikeBelow`, `EqualBelow`,
from the theorem about flags), and what is not there is not there below
(`MissingBelow`). A copy or a deletion is passed on as it is, or turns into a
deletion where there is nothing to copy (`CopyFitsBelow`, `CopyKeepsBelow`). That
the newer of two files is taken needs what the loop over the dates computes:
`AgeLoopIs` gives its result at every date, `AgesFollowDates` what the ages say
then. The attempt to prove `ProposalIsThreeWayMerge` for every tree failed at a
folder on one side and different files on the others; that is a flaw of the code
(section 6), the property now leaves it out (`TakenForEqual`), and the instance of
`folders` contains it.

**Edits and names.** `EditsAreKnown` relates what the user did to
`m_bOutputModified`, but an edit sets that flag only through the merge window:
`setModified()` is silent when its own `m_bModified` is set. The invariant
therefore adds what the two know of each other (`ModifiedIsKnown`), that a
modified merge window has an edit to give up (`ModifiedIsAnEdit`), what a
command that goes on may drop (`GoingOnDropsNothing`), that nothing was edited
before the program has started (`NothingBeforeStart`), and that the name of the
result was given for it (`OutputIsGiven`) - also when saving would ask for
another, because opening files takes that question back. There is one lemma per group of actions;
`MainInitDropsNothing` and `SavingKeepsResult` are what most of them share.
Neither `EditsStayKnown` nor `LossIsAlwaysAskedFor` says anything of edits made
while `waived` is set: edits were given up by "Continue Without Saving", the
dialog behind it was cancelled, and the merge window is still modified. The code
drops those unasked (section 6). Saving, a new comparison and the
commands that solve the whole result end that state.

**Jobs.** A call that waits in `enterEventLoop()` can be woken by the end of a job
that is not its own, since all calls share `m_eventLoop`. The invariant says of
every call of the stack at once what it may rely on: it was disturbed, or it
runs the loop, and the loop has not been told to exit while its job goes on
(`ExitDisturbs`). It is inductive because a job that ends disturbs every other
call that waits (`EndDisturbs`), and events leave the older frames what they
were but for that (`WokenKin`, `FrontFrames`). That nothing runs on after the
last scope needs `OneJobRuns`: as long as no job is begun in a waiting call, after
a cancel or outside a scope, there is at most one, the dialog knows it, and some
scope will end it.

**The alignment.** `EachLineOnce` is about finished rows; the invariant says the
same of unfinished ones. `LinesIn(rows, s, i, j, m, n)` is "the rows from `i` to
`j` hold the lines of `s` behind `m` up to `n`, in their order", by a function
that counts them along the rows (`Counts`), so that parts of the rows can be cut,
joined (`LinesJoined`) and compared without induction over lists. What every
step must show is that the counts around the rows it touches stay what they were.
`IInv` is

* `ReadAB`, `NoneOfC`, `ReadAC`, `ReadBC`: while a diff is read, the rows hold the
  lines read so far, the positions fit (`ThirdFits`, `BCFits`), and the Diffs left
  lead exactly to the ends of the files. That is `Leads`, a walk through the Diffs
  (`Walk`) that pairs lines of equal text only and that no line leaves out;
* `LinesThere`: between the passes the rows hold all lines, of A too unless B and C
  were aligned (`Sure`);
* `RowsNonempty`, `PassOrder`, and `RoomFree`: the trim's positions `i3A`, `i3B` and
  `i3C` are in front of the row it is at, with no line of that side from there on
  up to that row, so that a line moved up passes no other of its side;
* `Flagged`: two lines of a row have equal texts exactly if they are flagged.

Each pass has its own argument. *The diffs*: `RunDiffLeads` joins the lists of the
sections that manual alignment cuts the files into; a section that would end
before it starts makes `LineRef` throw, and otherwise the last section ends at the
ends of the files. Only `Flagged` needs that a matching is a *longest* one, and is
therefore about diffs that try hard: where the first two passes put two unmatched lines beside each other, equal texts would
make the matching longer (`SectionLeads`). *AB and AC*: a line of C joins the line of A it
equals, found from `here` on because everything of A up to there has been read, or
gets a row of its own. *The trim*: `MoveSide` and `MovePair` move lines into rows
that are free for them. *Manual correction*: the lines between the two first lines
go above the first, in order, for whatever rows and entry (`Align` never needs to
know that the entry is sound); that the third side stops at the first equal line
keeps its order as well. *B and C*: a line of C moves to the row of its equal of B
or the other way round, the lines in its way go above with it (`LineAhead`,
`UpLinesKept`, `LoneMoved`), and A's line may be copied - which is what
`ClaimAlignBC` shows and why `Sure` leaves A out from then on.

**The merge result.** `getNumberOfUnsolvedConflicts()` looks at the first line of
each block. That this is enough is a fact about every command: a line that is
not the first of its block and that nobody has written comes from an input
(`FairLines`). Splitting is where it could fail, since the lower half begins with
a line that was inside, and joining, since the new head stands for rows whose
lines are gone; and a choice is made by the row numbers of the block, so that
blocks must hold the rows in order (`Chain`, `Fits`), but for the blank block a
failed split leaves at the end. `SolvedBlocksAreKept` needs more:
`removeEmptySource()` is run over *all* blocks by a choice for all unsolved ones,
and must have nothing to drop in those that are solved (`NoEmpty`, kept by every
edit because an edited line is changed). `IInv` is these facts and that nothing
partial was saved. `MergeResultProofs` has a lemma for each function of
`MergeBlockList` and `MergeBlock` (`BuildFair`, `UpdateDefaultsFair`,
`RemoveEmptyFair`, `ChooseFair`, `SplitAtFair`, `JoinDiffsFair`) and one for each
command. The longest is `deleteSelection()`: the
line it writes is the *first* editable one of the selection (`FirstOfPositions`),
so a conflict in front of it stays where it is, and of a block that loses all
its lines the last stays, removed.

`AutoMergeIsThreeWay` says what the blocks *show*, so it needs the texts as well
as the kinds of the lines. `RowIsMerged` takes the table of `mergeOneLine()` apart,
one case for each set of inputs that have a line in the row, and compares it with
what three inputs agree on (`Agreed`), which knows nothing of fine diffs, removed
lines or sources. `BuildClear` follows `buildFromDiff3()` row by row: the texts of
the blocks are those of the rows so far, in order, and a block is a conflict
exactly if every row of it is (`ClearBlock`), because `SameKind` puts no other row
into it. A conflict of many rows has one line, which shows nothing, and
`removeEmptySource()` drops only lines that show nothing and never the head of
the block (`RemoveEmptyClear`), so both keep the text. `Gathered` of
`ListLemmas` is the text of a list, whichever way it is cut into blocks and
lines (`GatheredFlatten`). That these are the blocks on the screen is
`AutoMerged`: until another command is given, `blocks` is what the merge made.

`EditingKeepsTheRest` compares two texts, each put together of the lines of all
blocks. `GatheredPart` says of any list what one of its parts gives between what
is in front and what is behind; on lines it is about one block, on blocks about
the result, so that a change of one line is seen in the whole text by using it
twice. Return and delete touch two lines, which may be in different blocks:
`JoinTwoBlocks` needs that the blocks between them have no lines, since the
second is the next position (`FollowingBlocks`). The rest of a broken line is
written over the line below if that one is removed; that nothing is lost by it is
in the type of a line (`EditLine`: what is removed keeps no text), and a block
that loses its last line keeps it that way.

**The word wrap.** The windows share the lines each row needs, which every
runnable of every window raises, and nobody waits for a runnable but the counter.
`IInv` says of a request under way that each runnable is still to run or its cache
holds the lines of the width the request began with, and the counts of its rows
are high enough for them (`IsFilled`, `IsWrapped`); a resize behind the last
runnable is dropped, which leaves the windows wrapped for one width all the same
(`Wrapping`, `Wrapped`). `Control` ties the counter to the runnables
and the queue, so that the end is posted once, and `TopKnown` what the code
remembers of the first line to its row. None of it is claimed of a thread that
waits for itself (`hung`), and `TopRowStays` says nothing of a recalculation that
was begun without a request (`stale`), which goes to the row of an earlier one. That a cache holds all of its rows is arithmetic on
quotients: `RunnableWorks` and `RunnableOfRow` give every row exactly one runnable,
`Multiples` and `Quotient` are all they use. `CacheOfRows` and `EntriesAreThePieces`
turn the caches into the pieces of each row; `AllRowsAreShown` says of the joined
lines that row `r` has those from the sum of the counts before it on, with
`JoinedFlatten` for where a part of a joined list is and `SumsAreSums` for where
the code looks for it. The proof of `TopRowKept` failed at a window of one line,
which can be scrolled behind the last row; it has the last row at its top
afterwards, which the property now says.

Only model-checked:

* everything temporal (`MergeContinueReturns`, `CallsReturn`,
  `RequestIsCarriedOut`): liveness under fairness is outside what TLAPS proves
  here, as is ENABLED;
* the properties of `FileOps` and of the algorithms (`MCAlgorithms`), whose
  operators are recursive over their data;
* `SelectionKept` of `WordWrap`: a position is turned into one in its row by the sum
  of the lines before it and back by a walk over them, and the selected text is put
  together from the lines; that each undoes the other is an induction over them;
* `TwoSidesAreAligned` and `TrimKeepsMatches` of `Diff3Align`: the first is about
  what the trim does *not* move, row by row between two entries of the manual list;
  the second about a sum over all rows.

## 5. Findings

Statements of the handbook and the tests that the code does not keep, each
refuted by a run.

| Run | The repository says | The code |
| --- | --- | --- |
| `ClaimSimulation` | `doc/en/index.docbook:1605` "Select *Simulate it* if you want to see what would be done without actually doing it." | a double click on a row while a simulated merge is paused resets `m_bSimulatedMergeStarted`; the next "Start/Continue" goes on for real (`directorymergewindow.cpp:1591`) |
| `ClaimAlignBC` | `test/alignmenttest.cpp:303` "Check if all line numbers are in sequence" | with "Align B and C" a line of A can appear in two rows (`diff.cpp:436`) |

## 6. Disagreements without a run

Met while modelling, contained in the models or left out with the reason given,
not given a run of their own.

**Folder merge** (`directorymergewindow.cpp`).
"Do It" after a simulation whose flag was left set simulates (2126);
the item at which a simulation is cancelled is ended as "Not saved" (1997), and
so is one whose operation is chosen anew during a pause (1999);
a folder can become Done without being run (2340);
`m_bRealMergeStarted` stays set when there is nothing to run (2126, 2205);
a conflict that is merged alone reaches "Unknown merge operation. (This must
never happen!)" (2049);
a file merged to A is reported "Not saved." although saved (1963);
one merged to A and B and saved again is not copied to A again (1957);
below an item that is a folder on one side only, a sync proposal uses the
operations of a merge (1857), and so does "Choose A/B for all items" (1050);
after an error the dialog to retry or skip (2259-2274) is never reached, since
`canContinue()` refuses first (1995; `doc/en/index.docbook:1622`);
"Run all" leaves out the first row of the tree (2186; `doc/en/index.docbook:1610`).

**File operations.** `deleteFLD()` forgets that an entry could not be deleted
and returns true (2477), so the folder stays and is shown Done, though "When
KDiff3 encounters an error, it will tell you so" (`doc/en/index.docbook:1619`).
A folder that replaces a file only has the file removed. A copy that fails
leaves what was there in the backup, or nowhere without backups.

**Folder listing.** That a subfolder cannot be listed is forgotten: it looks
empty, and a three-way merge may propose to delete what is in it, though there is
a message "Some subfolders were not readable in" (932). Each side has its own
ignore files: what only those of C ignore looks deleted there. With hidden files
left out the ignore files themselves are not found. A `.gitignore` in "b" holds
in "bc" as well (`GitIgnoreList.cpp:59`), is not read from a remote folder, and
knows neither "!" nor "dir/". Remote folders ignore the option for hidden files.
With case-insensitive names the second of two entries of a side overwrites the
first. A cancelled listing counts as success (`DefaultFileAccessJobHandler.cpp:386`);
that no row is shown then is due to `prepareListView()`, which asks again whether
the user has cancelled. `FileKey` compares 100 levels of names; links that lead
around or nowhere are left out.

**Folder comparison** (`MergeFileInfos.cpp`).
Different files of the same date are not flagged as conflict when an older third
one equals one of them (346); equal ones dated like a third, different one can
get different ages, though then with the conflict flag (346-366). `updateDirectoryOrLink()` flags two versions of a row equal when a
third one is a folder and they are not (66-71), even if they are different files
or one of them is missing. If A has a file, B another one and C a folder of that
name, in a folder that is the same otherwise, the folder counts as unchanged in B;
its proposal, "Copy C", is passed on without a look at the types
(`directorymergewindow.cpp:1525` is in the other branch), and the folder of C takes
the place of two different files, where the handbook has "don't have the same file
type [...]: \"Error: Conflicting File Types\"" (`doc/en/index.docbook:1454`).
A cancelled
comparison flags the files equal, under the comment "If the program really
arrives here, then the files are really equal." (520). A changed file that is
hidden leaves its folder "unchanged", and the proposal deletes the folder with
the file (`directorymergewindow.cpp:2912`; `doc/en/index.docbook:1567`).

**Alignment** (`diff.cpp`).
An entry that names three sides is aligned for two of them only (879; comment at
790); the manual list is not compact after some insertions (comment at 526);
a range nested in an older one is not recognised as an overlap (541; comment at
530), and the section between them is then negative, which `LineRef` refuses
with an exception; an entry for one side ends `correctManualDiffAlignment()` for
the entries behind it (786); aligning lines of B and C that are equal leaves
them unflagged (870-876); the assertion at 231 fails in a debug build when C
continues after the last line it shares with A; 218 reads an iterator before it
is compared with the end. In GNU diff, `lines_differ()` would never say "differ"
with `ignore_case` (`gnudiff_io.cpp:105-113`), but `runDiff()` never sets it.

**Merge result** (`mergeresultwindow.cpp`, `MergeEditLine.*`).
A split can leave its upper half without a line (`MergeEditLine.h:152`), and at a
selection that ends in the last row it splits outside every block, where
`MergeEditLine.h:130` has `assert(false)` (`MergeEditLine.cpp:367`);
Return on a removed line of a longer block breaks the assertion at 2112, Delete
in front of a conflict removes the line of a block with several, against the
assertion at 2007; "choose ... for all unsolved" or "for white space conflicts"
can erase a line the user wrote (`MergeEditLine.cpp:319-341`), unasked, against
`doc/en/index.docbook:515`;
after choosing A and B, splitting and choosing B above, lines of B appear twice;
split, join and regular expression auto merge change the result without
`setModified()`; regular expression auto merge overwrites the first line of a
conflict that was solved or edited before (1278).
The history merge moves `iHistoryEnd` through a reference (1103), also by an
entry that does not stay in place: the last row of the history is then left
behind the merged entries and may repeat one, though "only one entry will remain
in the output" (`doc/en/index.docbook:541`); numbers get zeros *behind* them in a sort key
(`doc/en/index.docbook:591` has "leading zeros"); a row in which an input has no
line adds an empty line to its entry.

**Input files** (`SourceData.cpp`, `CommentParser.cpp`).
With DOS line ends `preprocess()` takes "\n" together with "\r" only at the first
one (642-670) and shows an empty line after each of the others; `LinesAreTheFile`
is about files with one kind of line end. A single "a\r" leaves the style
undefined. `readAndPreprocess()` never clears old errors, `setFilename()` does; a
file that has become none keeps its old lines; a preprocessor that fails leaves
an empty file; comments are blanked whenever there is line matching data.
"/* */ a/* " counts as comment and white space only (`CommentParser.cpp:76`,
129), which the fine diff believes; a second comment left open on a line is not
blanked; `inString` and the flags are not reset at a line's end; "/\*/" and
"\*//" overlap.

**Jobs** (`progress.cpp`, `fileaccess.cpp`).
After a cancel a second job cannot be cancelled; `m_pJob` dangles when the
handler of a temporary `FileAccess` is gone; `readAndPreprocess()` ignores the
answer of `createLocalCopy()`; `get()` is not reached by any caller.

**Text windows** (`pdiff.cpp`, `difftextwindow.cpp`).
"Clear exiting wordwrap threads" (1228) is a busy loop in the only thread that
could end them: a resize that is handled while a runnable polls hangs
(`hung`). A resize between the last runnable and the end is dropped. Two commands
call `recalcWordWrap()` with an old `m_firstD3LIdx`. "Select All" with word wrap
walks past the wrapped lines when the last line has tabs; a selection below the
last line does so when it is wrapped anew, and survives a reload.

**Main window** (`pdiff.cpp`, `kdiff3.cpp`).
Adding or clearing a manual alignment and changing the encoding drop an edited
result unasked (1875, 1907, 1914), though "When you exit or start another
diff-analysis and data wasn't saved yet, then KDiff3 will ask"
(`doc/en/index.docbook:676`); a changed encoding hides the main widget and reads
with the old one. The same sentence does not hold of edits that follow others the
user gave up: "Continue Without Saving" makes the application forget that the
result is modified (1539), but not the merge window; when the open dialog is then
cancelled, `setModified()` is silent for further edits, and the next open, reload,
merge or quit drops them without a question. `Session` contains this (`Edit` with
`waived` set); `EditsAreKnown` and `LossIsAskedFor` leave it out, by name.
Automatic solving and the history merge never call `setModified()`
(`mergeresultwindow.cpp:1132`, 1258). Opening folders with a destination leaves
the merge frame, whose Save would replace the folder; opening files aborts a
folder merge but leaves `m_bRealMergeStarted` set; dropping a folder asks and
then does nothing; a folder given to the second open dialog has changed the
inputs already. A file named "unnamed.txt" is taken for one that has a name.
Going up when nothing matches lands on the first block.

## 7. Not modelled

* **Painting, the mouse, hidden windows, printing, the overview**: no state that
  anything else reads; the classes of `merger.h` serve painting only.
* **Going to the next or previous conflict**: moves the current block, an input
  of every command in `MergeResult`; tabs, overwriting and indentation while
  typing.
* **The tree view of folders**: its sorting during a pause, colours, icons; the
  explicit selection of up to three files; the full analysis of one item.
* **Remote file operations and a third input in `FileOps`**: the calls differ, the
  order of steps does not; attributes of files, temporary files, writing
  *through* a link to a folder.
* **Decoding, options, dialogs, clipboard, automatic mode, plugins,
  translations**: strings and user interface; `TextLines` takes characters as
  they were decoded.
* **GNU diff's `speed_large_files`** and the limits of real memory.

## 8. Plan

| | Module | Content | State |
| --- | --- | --- | --- |
| 1 | `DirMerge`, `MergeRun` | merge loop, commands, dialogs; the abstract run | checked, proved |
| 2 | `MergeFileInfos`, `FolderScan`, `FolderList` | listing, comparison, ages, proposals, cascade | checked; flags of folders and proposals proved |
| 3 | `ManualDiffHelp`, `Diff3Rows`, `AlignBC`, `Diff3Align` | alignment of three inputs | checked; lines and flags proved |
| 4 | `MergeBlocks`, `MergeResult`, `HistoryMerge` | merge result | checked; `MergeResult` proved |
| 5 | `FileOps` | file operations and saving with failing calls | checked |
| 6 | `KioJobs` | jobs, nested event loops, cancellation, local copies | checked, proved |
| 7 | `WrapLines`, `WordWrap`, `FindText` | word wrap, selection, search | checked; lines and first row proved |
| 8 | `Session` | commands, dialogs, unsaved results | checked, proved |
| 9 | `TextLines`, `CommentParser`, `GnuDiff`, `LineDiff` | reading and comparing text | checked |

Theorems next: `TrimKeepsMatches` of `Diff3Align`, which needs the sum over the rows
apart from the rows a step touches, `TwoSidesAreAligned`, and `SelectionKept` of
`WordWrap`.
