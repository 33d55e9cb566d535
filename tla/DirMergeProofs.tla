--------------------------- MODULE DirMergeProofs ---------------------------
(* Proofs of the safety invariants of DirMerge, and that it implements       *)
(* MergeRun, for every tree and every assignment of operations.              *)
EXTENDS DirMerge, WellFoundedInduction, TLAPS

USE TreeAssumption

-----------------------------------------------------------------------------
(* Lemmas. *)

\* A set of naturals that is not empty has a smallest member.
LEMMA SmallestMember ==
    ASSUME NEW S \in SUBSET Nat, S # {}
    PROVE  \E m \in S : \A k \in S : m <= k
<1> DEFINE LT == {p \in Nat \X Nat : p[1] < p[2]}
<1>1. IsWellFoundedOn(LT, Nat)
  BY NatLessThanWellFounded DEF OpToRel
<1>2. PICK m \in S : \A k \in S : <<k, m>> \notin LT
  <2> HIDE DEF LT
  <2> QED BY <1>1, WFMin
<1>3. \A k \in S : ~(k < m)
  BY <1>2
<1> QED
  BY <1>3

\* First() finds the smallest item of a set, and 0 only for the empty set.
LEMMA FirstSmallest ==
    ASSUME NEW S \in SUBSET Item, S # {}
    PROVE  First(S) \in S /\ \A j \in S : First(S) <= j
<1>1. S \subseteq Nat
  BY DEF Item
<1>2. \E i \in S : \A j \in S : i <= j
  BY <1>1, SmallestMember
<1> QED
  BY <1>2 DEF First

\* First() of the empty set is 0, no item.
LEMMA FirstEmpty == First({}) = 0
BY DEF First

\* The next item of the list is one of its items behind the cursor.
LEMMA NextInListBehind ==
    ASSUME list \subseteq Item, cur \in 0..N
    PROVE  /\ NextInList # 0 => /\ NextInList \in list
                                /\ NextInList > cur
           /\ \A j \in list : j > cur => NextInList # 0 /\ NextInList <= j
<1> DEFINE S == {j \in list : j > cur}
<1>1. CASE S = {}
  BY <1>1, FirstEmpty DEF NextInList, Item
<1>2. CASE S # {}
  <2>1. First(S) \in S /\ \A j \in S : First(S) <= j
    BY <1>2, FirstSmallest
  <2> QED
    BY <2>1 DEF NextInList, Item
<1> QED
  BY <1>1, <1>2

\* The program starts in a state that satisfies the invariant.
LEMMA InitIInv == Init => IInv
<1> SUFFICES ASSUME Init PROVE IInv
  OBVIOUS
<1>1. ScannedOp \in [Item -> Operation]
  BY OperationAssumption DEF ScannedOp, Operation
<1>2. TypeOK
  <2>1. req \in [cmd : Command \cup {"none"}, item : 0..N]
    BY DEF Init, NoReq
  <2>2. doc \in [item : 0..N, name : Name]
    BY DEF Init, NoDoc, OtherName, Name
  <2>3. visible \subseteq Item
    BY OperationAssumption DEF Init
  <2>4. status \in [Item -> Status] /\ cur \in 0..N
    BY DEF Init, Status
  <2>5. complete \in [Item -> BOOLEAN] /\ modified \in BOOLEAN
        /\ real \in BOOLEAN /\ sim \in BOOLEAN /\ error \in BOOLEAN
    BY Zenon DEF Init
  <2> QED
    BY <1>1, <2>1, <2>2, <2>3, <2>4, <2>5 DEF Init, TypeOK, Phase
<1> QED
  BY <1>2 DEF Init, IInv, CursorInList, NothingRunsTwice, DoneMeansWritten,
              NothingRunsAfterError, ManualMergeIsCurrent, LoopInv, NoDoc

-----------------------------------------------------------------------------
(* What the shared parts of the actions do. *)

\* Assigning operations starts items again: only a restarted item loses its
\* status, its completion or its write.
LEMMA AssignRestarts ==
    ASSUME TypeOK, NEW seqs \in [Item -> Seq(Operation)], Assign(seqs)
    PROVE  /\ op' \in [Item -> Operation]
           /\ complete' \in [Item -> BOOLEAN]
           /\ status' \in [Item -> Status]
           /\ written' \subseteq Item
           /\ \A i \in Item : \/ /\ ~complete'[i] /\ status'[i] = "None"
                              \/ /\ complete'[i] = complete[i] /\ status'[i] = status[i]
                                 /\ i \in written' <=> i \in written
<1>1. \A j \in Item : seqs[j] # <<>> => seqs[j][Len(seqs[j])] \in Operation
  OBVIOUS
<1>2. op' \in [Item -> Operation]
  BY <1>1 DEF Assign, TypeOK
<1> QED
  BY <1>2 DEF Assign, TypeOK, Status

\* Ending the current item completes it and nothing else, and keeps the list
\* or drops it whole.
LEMMA EndCurrentEnds ==
    ASSUME TypeOK, CursorInList, cur # 0, NEW s \in Status, EndCurrent(s)
    PROVE  /\ cur \in Item
           /\ complete' \in [Item -> BOOLEAN]
           /\ status' \in [Item -> Status]
           /\ complete'[cur] /\ status'[cur] = s
           /\ \A i \in Item \ {cur} : complete'[i] = complete[i] /\ status'[i] = status[i]
           /\ real' \in BOOLEAN /\ asked' \in {"none", "real", "simulation"}
           /\ \/ list' = {} /\ cur' = 0
              \/ list # {} /\ list' = list /\ cur' = cur
<1>1. cur \in Item
  BY DEF CursorInList, TypeOK
<1>2. /\ status' = [status EXCEPT ![cur] = s]
      /\ complete' = [complete EXCEPT ![cur] = TRUE]
      /\ status \in [Item -> Status]
      /\ complete \in [Item -> BOOLEAN]
  BY DEF EndCurrent, TypeOK
<1>3. /\ complete' \in [Item -> BOOLEAN]
      /\ status' \in [Item -> Status]
      /\ complete'[cur] /\ status'[cur] = s
      /\ \A i \in Item \ {cur} : complete'[i] = complete[i] /\ status'[i] = status[i]
  BY <1>1, <1>2
<1>4. real' \in BOOLEAN /\ asked' \in {"none", "real", "simulation"}
  BY Zenon DEF EndCurrent, TypeOK
<1>5. \/ list' = {} /\ cur' = 0
      \/ list # {} /\ list' = list /\ cur' = cur
  BY DEF EndCurrent, CursorInList, cursor
<1> QED
  BY <1>1, <1>3, <1>4, <1>5

\* A state in which no command is past its dialogs: only the list and the
\* statuses matter.
LEMMA AtRest ==
    ASSUME TypeOK', DoneMeansWritten', ManualMergeIsCurrent',
           phase' \in {"idle", "save", "check", "closed"},
           IF list' = {} THEN cur' = 0 ELSE cur' \in list',
           \A j \in list' : j > cur' => ~complete'[j]
    PROVE  IInv'
<1>1. CursorInList' /\ NothingRunsTwice' /\ NothingRunsAfterError' /\ LoopInv'
  BY DEF CursorInList, NothingRunsTwice, NothingRunsAfterError, LoopInv
<1> QED
  BY <1>1 DEF IInv

\* A step that leaves the items, the list and the document's item alone and
\* stays outside the merge loop.
LEMMA Quiet ==
    ASSUME IInv, TypeOK', UNCHANGED <<complete, status, cursor, doc, written>>,
           phase' \in {"idle", "save", "check", "closed"}
    PROVE  IInv'
<1>1. DoneMeansWritten' /\ ManualMergeIsCurrent'
  BY DEF IInv, DoneMeansWritten, ManualMergeIsCurrent, cursor
<1>2. /\ IF list' = {} THEN cur' = 0 ELSE cur' \in list'
      /\ \A j \in list' : j > cur' => ~complete'[j]
  BY DEF IInv, CursorInList, cursor
<1> QED
  BY <1>1, <1>2, AtRest

\* The items and the list after the current item was ended one way or another.
EndedWell ==
    /\ complete' \in [Item -> BOOLEAN]
    /\ status' \in [Item -> Status]
    /\ list' \subseteq Item
    /\ cur' \in 0..N
    /\ IF list' = {} THEN cur' = 0 ELSE cur' \in list'
    /\ \A j \in list' : j > cur' => ~complete'[j]
    /\ DoneMeansWritten' /\ ManualMergeIsCurrent'

\* Ending the current item as saved (and written) or as not saved.
LEMMA EndCurrentWell ==
    ASSUME IInv, cur # 0, NEW s \in {"Done", "NotSaved"}, EndCurrent(s),
           written' \subseteq Item, written \subseteq written',
           s = "Done" => cur \in written',
           doc'.item = doc.item
    PROVE  EndedWell
<1>1. TypeOK /\ CursorInList /\ s \in Status
  BY DEF IInv, Status
<1>2. /\ cur \in Item
      /\ complete' \in [Item -> BOOLEAN]
      /\ status' \in [Item -> Status]
      /\ complete'[cur] /\ status'[cur] = s
      /\ \A i \in Item \ {cur} : complete'[i] = complete[i] /\ status'[i] = status[i]
  BY <1>1, EndCurrentEnds
<1>a. \/ list' = {} /\ cur' = 0
      \/ list # {} /\ list' = list /\ cur' = cur
  BY <1>1, EndCurrentEnds
<1>b. list \subseteq Item /\ cur \in 0..N /\ complete \in [Item -> BOOLEAN]
  BY <1>1 DEF TypeOK
<1>3. list' \subseteq Item /\ cur' \in 0..N
  BY <1>a, <1>b
<1>4. IF list' = {} THEN cur' = 0 ELSE cur' \in list'
  BY <1>1, <1>a DEF CursorInList
<1>5. \A j \in list' : j > cur' => ~complete'[j]
  <2> SUFFICES ASSUME NEW j \in list', j > cur' PROVE ~complete'[j]
    OBVIOUS
  <2>1. j \in list /\ cur' = cur
    BY <1>a
  <2>2. j > cur /\ j \in Item /\ j # cur
    BY <2>1, <1>b DEF Item
  <2> QED
    BY <1>1, <1>2, <2>1, <2>2 DEF CursorInList
<1>6. DoneMeansWritten'
  BY <1>2 DEF IInv, DoneMeansWritten, Leaf
<1>7. ManualMergeIsCurrent'
  <2> SUFFICES ASSUME NEW i \in Item, Leaf(i), status'[i] = "InProgress", ~complete'[i]
               PROVE  cur' = i /\ doc'.item = i
    BY DEF ManualMergeIsCurrent, Leaf
  <2> QED
    BY <1>2 DEF IInv, ManualMergeIsCurrent
<1> QED
  BY <1>2, <1>3, <1>4, <1>5, <1>6, <1>7 DEF EndedWell

\* canContinue() ends the item, or there was none to end; then every item the
\* cursor can be on is complete.
LEMMA EndUnsavedItemWell ==
    ASSUME IInv, EndUnsavedItem, written' = written, doc' = doc
    PROVE  EndedWell /\ (cur' # 0 => complete'[cur'])
<1>1. TypeOK /\ CursorInList
  BY DEF IInv
<1>2. CASE cur # 0 /\ ~complete[cur]
  <2>1. EndCurrent("NotSaved")
    BY <1>2 DEF EndUnsavedItem
  <2>2. EndedWell
    BY <1>1, <1>2, <2>1, EndCurrentWell DEF TypeOK
  <2>3. complete'[cur] /\ (cur' = 0 \/ cur' = cur)
    BY <1>1, <1>2, <2>1, EndCurrentEnds DEF Status
  <2> QED
    BY <2>2, <2>3
<1>3. CASE ~(cur # 0 /\ ~complete[cur])
  <2>1. UNCHANGED <<complete, status, list, cur>>
    BY <1>3 DEF EndUnsavedItem, cursor
  <2>2. EndedWell
    BY <1>1, <2>1 DEF EndedWell, TypeOK, CursorInList, IInv, DoneMeansWritten,
                      ManualMergeIsCurrent
  <2>3. cur' # 0 => complete'[cur']
    BY <1>3, <2>1
  <2> QED
    BY <2>2, <2>3
<1> QED
  BY <1>2, <1>3

\* mergeResultSaved() leaves an operation's item ended, in error, or alone.
LEMMA MergeResultSavedWell ==
    ASSUME IInv, NEW STATE name, name \in Name, MergeResultSaved(name), doc'.item = doc.item
    PROVE  /\ EndedWell
           /\ op' \in [Item -> Operation]
           /\ real' \in BOOLEAN /\ sim' \in BOOLEAN /\ error' \in BOOLEAN
           /\ written' \subseteq Item
           /\ asked' \in {"none", "real", "simulation"}
<1>1. TypeOK /\ CursorInList
  BY DEF IInv
<1>2. written' = written \cup ({name.of} \ {0})
  BY DEF MergeResultSaved
<1>3. written' \subseteq Item /\ written \subseteq written'
  <2>1. name.of \in 0..N /\ written \subseteq Item
    BY <1>1 DEF TypeOK, Name
  <2>2. name.of # 0 => name.of \in Item
    BY <2>1, TreeAssumption DEF Item
  <2> QED
    BY <1>2, <2>1, <2>2
<1>4. CASE cur = 0 \/ name # Dest(cur)
  <2>1. UNCHANGED <<op, complete, status, list, cur>>
    BY <1>4 DEF MergeResultSaved, cursor
  <2>2. EndedWell
    BY <1>1, <1>3, <2>1 DEF EndedWell, TypeOK, CursorInList, IInv, DoneMeansWritten,
                            ManualMergeIsCurrent
  <2>3. UNCHANGED <<real, sim, error, asked>>
    BY <1>4 DEF MergeResultSaved, flags
  <2>4. real' \in BOOLEAN /\ sim' \in BOOLEAN /\ error' \in BOOLEAN
    BY Zenon, <1>1, <2>3 DEF TypeOK
  <2> QED
    BY <1>1, <1>3, <2>1, <2>2, <2>3, <2>4 DEF TypeOK
<1>5. CASE /\ cur # 0 /\ name = Dest(cur)
           /\ EndCurrent("Done") /\ UNCHANGED <<op, sim, error>>
  <2>1. cur \in written'
    BY <1>2, <1>5 DEF Dest
  <2>2. EndedWell
    BY <1>3, <1>5, <2>1, EndCurrentWell
  <2>3. real' \in BOOLEAN /\ asked' \in {"none", "real", "simulation"}
    BY <1>1, <1>5, EndCurrentEnds DEF Status
  <2>4. sim' \in BOOLEAN /\ error' \in BOOLEAN
    BY Zenon, <1>1, <1>5 DEF TypeOK
  <2> QED
    BY <1>1, <1>3, <1>5, <2>2, <2>3, <2>4 DEF TypeOK
<1>6. CASE /\ cur # 0 /\ name = Dest(cur)
           /\ error' = TRUE
           /\ status' = [status EXCEPT ![cur] = "Error"]
           /\ op' = [op EXCEPT ![cur] = "eCopyBToA"]
           /\ UNCHANGED <<complete, real, sim, cursor, asked>>
  <2>1. cur \in Item
    BY <1>1, <1>6 DEF CursorInList, TypeOK
  <2>2. UNCHANGED <<complete, list, cur>>
    BY <1>6 DEF cursor
  <2>3. op' \in [Item -> Operation]
    BY <1>1, <1>6, <2>1 DEF TypeOK, Operation, SyncCopyOps, SyncOps, FileSystemOps
  <2>4. status' \in [Item -> Status]
    BY <1>1, <1>6, <2>1 DEF TypeOK, Status
  <2>5. status'[cur] = "Error" /\ \A i \in Item \ {cur} : status'[i] = status[i]
    BY <1>1, <1>6, <2>1 DEF TypeOK
  <2>6. DoneMeansWritten' /\ ManualMergeIsCurrent'
    BY <1>3, <2>1, <2>2, <2>5 DEF IInv, DoneMeansWritten, ManualMergeIsCurrent, Leaf
  <2>7. EndedWell
    BY <1>1, <2>2, <2>4, <2>6 DEF EndedWell, TypeOK, CursorInList
  <2>8. real' \in BOOLEAN /\ sim' \in BOOLEAN /\ error' \in BOOLEAN
    BY Zenon, <1>1, <1>6 DEF TypeOK
  <2> QED
    BY <1>1, <1>3, <1>6, <2>3, <2>7, <2>8 DEF TypeOK
<1> QED
  BY <1>4, <1>5, <1>6 DEF MergeResultSaved

-----------------------------------------------------------------------------
(* The user's commands. *)

\* Operations are changed for an item and its subtree, or for all items.
LEMMA AssignStep ==
    ASSUME IInv, NEW seqs \in [Item -> Seq(Operation)], phase = "idle", Assign(seqs),
           UNCHANGED <<visible, flags, cursor, control, editor, asked>>
    PROVE  IInv'
<1>1. TypeOK /\ CursorInList
  BY DEF IInv
<1>2. /\ op' \in [Item -> Operation]
      /\ complete' \in [Item -> BOOLEAN]
      /\ status' \in [Item -> Status]
      /\ written' \subseteq Item
      /\ \A i \in Item : \/ /\ ~complete'[i] /\ status'[i] = "None"
                         \/ /\ complete'[i] = complete[i] /\ status'[i] = status[i]
                            /\ i \in written' <=> i \in written
  BY <1>1, AssignRestarts
<1>3. UNCHANGED <<list, cur, phase, req, doc, visible, asked>>
  BY DEF cursor, control, editor
<1>4. /\ real' \in BOOLEAN /\ sim' \in BOOLEAN /\ error' \in BOOLEAN
      /\ modified' \in BOOLEAN
  BY Zenon, <1>1 DEF flags, editor, TypeOK
<1>5. TypeOK'
  BY <1>1, <1>2, <1>3, <1>4 DEF TypeOK
<1>6. DoneMeansWritten'
  BY <1>2 DEF IInv, DoneMeansWritten, Leaf
<1>7. ManualMergeIsCurrent'
  BY <1>2, <1>3 DEF IInv, ManualMergeIsCurrent, Leaf
<1>8. \A j \in list' : j > cur' => ~complete'[j]
  BY <1>1, <1>2, <1>3 DEF CursorInList, TypeOK
<1>9. IF list' = {} THEN cur' = 0 ELSE cur' \in list'
  BY <1>1, <1>3 DEF CursorInList
<1>10. phase' \in {"idle", "save", "check", "closed"}
  BY <1>3
<1> QED
  BY <1>5, <1>6, <1>7, <1>8, <1>9, <1>10, AtRest

\* A step that changes no item's state and at most some scalar of the rest.
LEMMA QuietStep ==
    ASSUME IInv, UNCHANGED <<op, complete, status, list, cur, real, written, asked>>,
           doc' = doc, visible' \subseteq Item,
           sim' \in BOOLEAN, error' \in BOOLEAN, modified' \in BOOLEAN,
           req' \in [cmd : Command \cup {"none"}, item : 0..N],
           phase' \in {"idle", "save", "check", "closed"}
    PROVE  IInv'
<1>1. TypeOK
  BY DEF IInv
<1>2. real' \in BOOLEAN
  BY Zenon, <1>1 DEF TypeOK
<1>3. op' \in [Item -> Operation] /\ complete' \in [Item -> BOOLEAN] /\ status' \in [Item -> Status]
  BY <1>1 DEF TypeOK
<1>4. TypeOK'
  BY <1>1, <1>2, <1>3 DEF TypeOK, Phase
<1> QED
  BY <1>4, Quiet DEF cursor

\* The menus and the dialogs that start, save or cancel nothing.
LEMMA QuietSteps ==
    ASSUME IInv,
           \/ \E v \in Views : UpdateFileVisibilities(v)
           \/ \E c \in ItemCommands, i \in 0..N : Request(c, i)
           \/ \E c \in Command \ ItemCommands : Request(c, 0)
           \/ \E i \in Item : DoubleClick(i)
           \/ EditDocument
           \/ CancelCommand \/ RefuseAfterError \/ DeclineMerge \/ RefuseOpen
    PROVE  IInv'
<1> USE DEF flags, cursor, control, editor, history, items
<1>1. TypeOK
  BY DEF IInv
<1>2. /\ visible \subseteq Item
      /\ sim \in BOOLEAN /\ error \in BOOLEAN /\ modified \in BOOLEAN
      /\ req \in [cmd : Command \cup {"none"}, item : 0..N]
      /\ NoReq \in [cmd : Command \cup {"none"}, item : 0..N]
  BY <1>1 DEF TypeOK, NoReq, Item
<1>3. ASSUME NEW v \in Views, UpdateFileVisibilities(v) PROVE IInv'
  BY <1>2, <1>3, OperationAssumption, QuietStep DEF UpdateFileVisibilities
<1>4. ASSUME NEW c \in ItemCommands, NEW i \in 0..N, Request(c, i) PROVE IInv'
  BY <1>2, <1>4, QuietStep DEF Request, ItemCommands, Command, RunCommands, OpenCommands
<1>5. ASSUME NEW c \in Command \ ItemCommands, Request(c, 0) PROVE IInv'
  BY <1>2, <1>5, QuietStep DEF Request
<1>6. ASSUME NEW i \in Item, DoubleClick(i) PROVE IInv'
  <2>1. req' \in [cmd : Command \cup {"none"}, item : 0..N]
    BY <1>6 DEF DoubleClick, Command, OpenCommands, Item
  <2>2. sim' \in BOOLEAN /\ modified' = modified /\ error' = error
    BY <1>6 DEF DoubleClick
  <2> QED
    BY <1>2, <1>6, <2>1, <2>2, QuietStep DEF DoubleClick
<1>7. CASE EditDocument
  BY <1>2, <1>7, QuietStep DEF EditDocument
<1>8. CASE CancelCommand
  BY <1>2, <1>8, QuietStep DEF CancelCommand
<1>9. CASE RefuseAfterError
  BY <1>2, <1>9, QuietStep DEF RefuseAfterError
<1>10. CASE DeclineMerge
  BY <1>2, <1>10, QuietStep DEF DeclineMerge
<1>11. CASE RefuseOpen
  BY <1>2, <1>11, QuietStep DEF RefuseOpen
<1> QED
  BY <1>3, <1>4, <1>5, <1>6, <1>7, <1>8, <1>9, <1>10, <1>11

\* Names are names.
LEMMA NamesAreNames ==
    /\ OutputNames \subseteq Name /\ OtherName \in Name
    /\ \A i \in Item : Dest(i) \in Name /\ NameInA(i) \in Name
  BY TreeAssumption, KindAssumption DEF OutputNames, Name, OtherName, Dest, NameInA, Item

\* The document is saved under some name.
LEMMA SaveUnderName ==
    ASSUME IInv, NEW STATE name, name \in Name, MergeResultSaved(name),
           doc' \in [item : 0..N, name : Name], doc'.item = doc.item, UNCHANGED <<visible, req>>,
           phase' \in {"idle", "check", "closed"}, modified' \in BOOLEAN
    PROVE  IInv'
<1>1. TypeOK
  BY DEF IInv
<1>2. /\ EndedWell
      /\ op' \in [Item -> Operation]
      /\ real' \in BOOLEAN /\ sim' \in BOOLEAN /\ error' \in BOOLEAN
      /\ written' \subseteq Item
      /\ asked' \in {"none", "real", "simulation"}
  BY MergeResultSavedWell
<1>3. TypeOK'
  BY Zenon, <1>1, <1>2 DEF EndedWell, TypeOK, Phase
<1> QED
  BY <1>2, <1>3, AtRest DEF EndedWell

\* Saving the document, with nothing else running or before the program closes.
LEMMA SaveSteps ==
    ASSUME IInv, SaveDocument \/ SaveAndContinue \/ (QueryClose /\ modified /\ MergeResultSaved(doc.name))
    PROVE  IInv'
<1>1. doc.name \in Name /\ doc \in [item : 0..N, name : Name]
  BY DEF IInv, TypeOK
<1>2. MergeResultSaved(doc.name) /\ doc' = doc /\ UNCHANGED <<visible, req>>
  BY DEF SaveDocument, SaveAndContinue, QueryClose, control
<1>3. phase' \in {"idle", "check", "closed"} /\ modified' = FALSE
  BY DEF SaveDocument, SaveAndContinue, QueryClose, control
<1> QED
  BY <1>1, <1>2, <1>3, SaveUnderName

\* Saving under another name, which may fail.
LEMMA SaveAsStep ==
    ASSUME IInv, NEW name \in OutputNames, SaveDocumentAs(name)
    PROVE  IInv'
<1>1. TypeOK /\ name \in Name
  BY NamesAreNames DEF IInv
<1>2. doc' = [doc EXCEPT !.name = name] /\ phase = "idle" /\ UNCHANGED <<visible, phase, req>>
  BY DEF SaveDocumentAs, control
<1>3. doc' \in [item : 0..N, name : Name] /\ doc'.item = doc.item
  BY <1>1, <1>2 DEF TypeOK
<1>4. CASE modified' = FALSE /\ MergeResultSaved(name)
  BY <1>1, <1>2, <1>3, <1>4, SaveUnderName
<1>5. CASE UNCHANGED <<modified, op, complete, status, flags, cursor, history>>
  <2>1. UNCHANGED <<op, complete, status, visible, real, sim, error, list, cur, phase, req, modified,
                    written, asked>>
    BY <1>2, <1>5 DEF flags, cursor, history
  <2>2. /\ real' \in BOOLEAN /\ sim' \in BOOLEAN /\ error' \in BOOLEAN
        /\ modified' \in BOOLEAN
    BY Zenon, <1>1, <2>1 DEF TypeOK
  <2>3. TypeOK'
    BY <1>1, <1>3, <2>1, <2>2 DEF TypeOK
  <2>4. DoneMeansWritten' /\ ManualMergeIsCurrent'
    BY <1>3, <2>1 DEF IInv, DoneMeansWritten, ManualMergeIsCurrent
  <2>5. /\ IF list' = {} THEN cur' = 0 ELSE cur' \in list'
        /\ \A j \in list' : j > cur' => ~complete'[j]
    BY <2>1 DEF IInv, CursorInList
  <2> QED
    BY <1>2, <2>3, <2>4, <2>5, AtRest
<1> QED
  BY <1>4, <1>5 DEF SaveDocumentAs

\* Closing, after saving or without.
LEMMA CloseSteps ==
    ASSUME IInv, QueryClose
    PROVE  IInv'
<1>1. TypeOK
  BY DEF IInv
<1>3. CASE QueryClose /\ UNCHANGED <<op, complete, status, flags, cursor, history>>
  <2>1. /\ UNCHANGED <<op, complete, status, real, sim, error, list, cur, written, asked>>
        /\ UNCHANGED <<visible, req>> /\ doc' = doc /\ modified' = FALSE
        /\ phase' \in {"idle", "closed"}
    BY <1>3 DEF QueryClose, flags, cursor, history
  <2>2. sim' \in BOOLEAN /\ error' \in BOOLEAN
    BY Zenon, <1>1, <2>1 DEF TypeOK
  <2>3. visible' \subseteq Item /\ req' \in [cmd : Command \cup {"none"}, item : 0..N]
    BY <1>1, <2>1 DEF TypeOK
  <2> QED
    BY <2>1, <2>2, <2>3, QuietStep
<1>4. CASE QueryClose /\ modified /\ MergeResultSaved(doc.name)
  BY <1>4, SaveSteps
<1> QED
  BY <1>3, <1>4 DEF QueryClose

\* A new scan forgets everything but the document.
LEMMA RescanStep ==
    ASSUME IInv, Rescan
    PROVE  IInv'
<1>1. TypeOK
  BY DEF IInv
<1>2. ScannedOp \in [Item -> Operation]
  BY OperationAssumption DEF ScannedOp, Operation
<1>3. UNCHANGED <<phase, req, doc, modified>> /\ phase = "idle"
  BY DEF Rescan, control, editor
<1>4. op' \in [Item -> Operation] /\ status' \in [Item -> Status] /\ visible' \subseteq Item
  BY <1>2, OperationAssumption DEF Rescan, Status
<1>5. /\ complete' \in [Item -> BOOLEAN]
      /\ real' \in BOOLEAN /\ sim' \in BOOLEAN /\ error' \in BOOLEAN
      /\ modified' \in BOOLEAN
  BY Zenon, <1>1, <1>3 DEF Rescan, TypeOK
<1>6. TypeOK'
  BY <1>1, <1>3, <1>4, <1>5 DEF Rescan, TypeOK
<1>7. DoneMeansWritten' /\ ManualMergeIsCurrent'
  BY DEF Rescan, DoneMeansWritten, ManualMergeIsCurrent
<1> QED
  BY <1>3, <1>6, <1>7, AtRest DEF Rescan

-----------------------------------------------------------------------------
(* A command gets past its dialogs. *)

\* While a command waits behind canContinue(), no file is in the making.
LEMMA NothingInTheMaking ==
    ASSUME IInv, phase = "command"
    PROVE  \A i \in Item : Leaf(i) /\ status[i] = "InProgress" => complete[i]
BY DEF IInv, LoopInv, ManualMergeIsCurrent, Item

\* canContinue() lets a command pass after it has ended the unsaved item.
LEMMA CanContinueStep ==
    ASSUME IInv, CanContinue
    PROVE  IInv'
<1>1. TypeOK
  BY DEF IInv
<1>2. /\ EndUnsavedItem /\ written' = written /\ doc' = doc
      /\ UNCHANGED <<op, visible, sim, error, req>>
      /\ ~error /\ modified' = FALSE /\ phase' = "command"
  BY DEF CanContinue, MayContinue
<1>3. EndedWell /\ (cur' # 0 => complete'[cur'])
  BY <1>2, EndUnsavedItemWell
<1>4. real' \in BOOLEAN /\ asked' \in {"none", "real", "simulation"}
  <2>1. CASE cur # 0 /\ ~complete[cur]
    BY <1>1, <1>2, <2>1, EndCurrentEnds DEF IInv, EndUnsavedItem, Status
  <2>2. CASE ~(cur # 0 /\ ~complete[cur])
    <3>1. real' = real /\ asked' = asked
      BY <1>2, <2>2 DEF EndUnsavedItem
    <3> QED
      BY Zenon, <1>1, <3>1 DEF TypeOK
  <2> QED
    BY <2>1, <2>2
<1>5. sim' \in BOOLEAN /\ error' \in BOOLEAN /\ modified' \in BOOLEAN
  BY Zenon, <1>1, <1>2 DEF TypeOK
<1>6. TypeOK'
  BY <1>1, <1>2, <1>3, <1>4, <1>5 DEF EndedWell, TypeOK, Phase
<1>7. CursorInList' /\ DoneMeansWritten' /\ ManualMergeIsCurrent'
  BY <1>2, <1>3 DEF EndedWell, CursorInList
<1>8. NothingRunsTwice' /\ NothingRunsAfterError'
  BY <1>2 DEF NothingRunsTwice, NothingRunsAfterError
<1>9. LoopInv'
  BY <1>2, <1>3 DEF IInv, LoopInv
<1> QED
  BY <1>6, <1>7, <1>8, <1>9 DEF IInv

\* What prepareMergeStart() collects are items still to be run.
LEMMA ItemsToRunAreOpen ==
    ASSUME IInv, FirstRow # 0
    PROVE  /\ ItemsToRun(FirstRow) \subseteq Item
           /\ \A j \in ItemsToRun(FirstRow) : ~complete[j]
<1>1. FirstRow \in Item
  <2>1. req.item \in 0..N /\ visible \subseteq Item
    BY DEF IInv, TypeOK
  <2>2. CASE req.cmd = "runCurrent"
    BY <2>1, <2>2 DEF FirstRow, Item
  <2>3. CASE req.cmd # "runCurrent"
    BY <2>1, <2>3, FirstSmallest, FirstEmpty DEF FirstRow
  <2> QED
    BY <2>2, <2>3
<1> QED
  BY <1>1 DEF ItemsToRun, RowsVisited, IInv, TypeOK

\* prepareMergeStart() puts only items still to be run on the list, and the cursor
\* on the first of them.
LEMMA StartMergeStep ==
    ASSUME IInv, NEW answer \in {"real", "simulation"}, StartMerge(answer)
    PROVE  IInv'
<1> DEFINE running == ItemsToRun(FirstRow)
<1>1. TypeOK
  BY DEF IInv
<1>2. /\ UNCHANGED <<op, complete, status, visible, error, doc, modified, written>>
      /\ phase = "command" /\ list = {} /\ req' = NoReq
  BY DEF StartMerge, items, editor
<1>3. /\ sim' \in BOOLEAN /\ real' \in BOOLEAN
      /\ error' \in BOOLEAN /\ modified' \in BOOLEAN
  <2>1. sim' = (sim \/ answer = "simulation")
    BY DEF StartMerge
  <2>2. real' = FALSE \/ real' = (real \/ answer = "real")
    BY DEF StartMerge
  <2>3. error' = error /\ modified' = modified
    BY <1>2
  <2> QED
    BY Zenon, <1>1, <2>1, <2>2, <2>3 DEF TypeOK
<1>4. req' \in [cmd : Command \cup {"none"}, item : 0..N]
  BY <1>2 DEF NoReq
<1>5. CASE phase' = "idle" /\ UNCHANGED <<list, cur, asked>>
  BY <1>1, <1>2, <1>3, <1>4, <1>5, Quiet DEF TypeOK, Phase, cursor
<1>6. CASE /\ FirstRow # 0
           /\ list' = running /\ cur' = First(running)
           /\ asked' \in {"none", "real", "simulation"}
           /\ phase' = IF running = {} THEN "idle" ELSE "execute"
  <2>1. running \subseteq Item /\ \A j \in running : ~complete[j]
    BY <1>6, ItemsToRunAreOpen
  <2>2. IF running = {} THEN cur' = 0 ELSE cur' \in running
    BY <1>6, <2>1, FirstSmallest, FirstEmpty
  <2>3. TypeOK'
    BY <1>1, <1>2, <1>3, <1>4, <1>6, <2>1, <2>2 DEF TypeOK, Phase, Item
  <2>4. CursorInList' /\ NothingRunsTwice'
    BY <1>2, <1>6, <2>1, <2>2 DEF CursorInList, NothingRunsTwice
  <2>5. DoneMeansWritten' /\ ManualMergeIsCurrent'
    BY <1>2, NothingInTheMaking DEF IInv, DoneMeansWritten, ManualMergeIsCurrent
  <2>6. NothingRunsAfterError'
    BY <1>2 DEF IInv, NothingRunsAfterError
  <2>7. LoopInv'
    BY <1>2, <1>6, <2>1, <2>2, NothingInTheMaking DEF IInv, LoopInv
  <2> QED
    BY <2>3, <2>4, <2>5, <2>6, <2>7 DEF IInv
<1>7. asked' \in {"none", "real", "simulation"}
  BY <1>1 DEF StartMerge, TypeOK
<1> QED
  BY <1>5, <1>6, <1>7 DEF StartMerge, cursor

\* A merge that is continued goes on at the item the cursor was left on.
LEMMA ContinueMergeStep ==
    ASSUME IInv, ContinueMerge
    PROVE  IInv'
<1>1. TypeOK
  BY DEF IInv
<1>2. /\ UNCHANGED <<op, complete, status, visible, real, sim, error, list, cur, doc, modified,
                     written, asked>>
      /\ phase = "command" /\ list # {} /\ req' = NoReq /\ phase' = "advance"
  BY DEF ContinueMerge, items, flags, cursor, editor, history
<1>3. /\ sim' \in BOOLEAN /\ real' \in BOOLEAN
      /\ error' \in BOOLEAN /\ modified' \in BOOLEAN
  BY Zenon, <1>1, <1>2 DEF TypeOK
<1>4. TypeOK'
  BY <1>1, <1>2, <1>3 DEF TypeOK, Phase, NoReq
<1>5. CursorInList' /\ NothingRunsTwice' /\ NothingRunsAfterError'
  BY <1>2 DEF IInv, CursorInList, NothingRunsTwice, NothingRunsAfterError
<1>6. DoneMeansWritten' /\ ManualMergeIsCurrent'
  BY <1>2 DEF IInv, DoneMeansWritten, ManualMergeIsCurrent
<1>7. complete[cur]
  <2>1. cur \in Item
    BY <1>1, <1>2 DEF IInv, CursorInList, TypeOK
  <2>2. cur # 0
    BY <2>1 DEF Item
  <2> QED
    BY <1>2, <2>2 DEF IInv, LoopInv
<1>8. LoopInv'
  BY <1>2, <1>7 DEF IInv, LoopInv
<1> QED
  BY <1>4, <1>5, <1>6, <1>8 DEF IInv

-----------------------------------------------------------------------------
(* The merge loop. *)

\* In the loop the cursor is on an item.
LEMMA CursorOnItem ==
    ASSUME IInv, phase \in {"execute", "advance"}
    PROVE  cur \in Item /\ cur \in list /\ cur # 0
<1>1. cur \in list /\ list \subseteq Item
  BY DEF IInv, CursorInList, TypeOK
<1> QED
  BY <1>1 DEF Item

\* An operation that succeeds without the user writes its item.
LEMMA ExecuteItemStep ==
    ASSUME IInv, ExecuteItem
    PROVE  IInv'
<1>1. TypeOK /\ cur \in Item /\ phase = "execute"
  BY CursorOnItem DEF IInv, ExecuteItem
<1>2. /\ UNCHANGED <<op, complete, status, visible, real, sim, list, cur, req, doc, modified,
                     asked>>
      /\ phase' \in {"advance", "idle"}
      /\ error' = error \/ error' = FALSE
      /\ written' = IF sim THEN written ELSE written \cup {cur}
  BY DEF ExecuteItem, items, cursor, editor
<1>3. /\ sim' \in BOOLEAN /\ real' \in BOOLEAN
      /\ error' \in BOOLEAN /\ modified' \in BOOLEAN
  BY Zenon, <1>1, <1>2 DEF TypeOK
<1>4. written' \subseteq Item /\ written \subseteq written'
  BY <1>1, <1>2 DEF TypeOK
<1>5. TypeOK'
  BY <1>1, <1>2, <1>3, <1>4 DEF TypeOK, Phase
<1>6. CursorInList' /\ NothingRunsTwice'
  BY <1>1, <1>2 DEF IInv, CursorInList, NothingRunsTwice
<1>7. NothingRunsAfterError'
  BY <1>1, <1>2 DEF IInv, NothingRunsAfterError
<1>8. DoneMeansWritten' /\ ManualMergeIsCurrent'
  BY <1>2, <1>4 DEF IInv, DoneMeansWritten, ManualMergeIsCurrent
<1>9. LoopInv'
  BY <1>1, <1>2 DEF IInv, LoopInv
<1> QED
  BY <1>5, <1>6, <1>7, <1>8, <1>9 DEF IInv

\* An operation that fails stops the merge at its item.
LEMMA ExecuteFailsStep ==
    ASSUME IInv, ExecuteFails
    PROVE  IInv'
<1>1. TypeOK /\ cur \in Item
  BY CursorOnItem DEF IInv, ExecuteFails
<1>2. /\ UNCHANGED <<op, complete, visible, real, sim, list, cur, req, doc, modified,
                     written, asked>>
      /\ phase' = "idle" /\ error' = TRUE
      /\ status' = [status EXCEPT ![cur] = "Error"]
  BY DEF ExecuteFails, cursor, editor, history
<1>3. /\ sim' \in BOOLEAN /\ real' \in BOOLEAN
      /\ error' \in BOOLEAN /\ modified' \in BOOLEAN
  BY Zenon, <1>1, <1>2 DEF TypeOK
<1>4. /\ status' \in [Item -> Status]
      /\ status'[cur] = "Error" /\ \A i \in Item \ {cur} : status'[i] = status[i]
  BY <1>1, <1>2 DEF TypeOK, Status
<1>5. TypeOK'
  BY <1>1, <1>2, <1>3, <1>4 DEF TypeOK, Phase
<1>6. DoneMeansWritten' /\ ManualMergeIsCurrent'
  BY <1>2, <1>4 DEF IInv, DoneMeansWritten, ManualMergeIsCurrent, Leaf
<1>7. /\ IF list' = {} THEN cur' = 0 ELSE cur' \in list'
      /\ \A j \in list' : j > cur' => ~complete'[j]
  BY <1>2 DEF IInv, CursorInList, LoopInv
<1> QED
  BY <1>2, <1>5, <1>6, <1>7, AtRest

\* A merge by hand makes its item the one in the editor.
LEMMA ExecuteManuallyStep ==
    ASSUME IInv, ExecuteManually
    PROVE  IInv'
<1>1. TypeOK /\ cur \in Item /\ cur # 0
  BY CursorOnItem DEF IInv, ExecuteManually
<1>2. /\ UNCHANGED <<op, complete, visible, real, sim, list, cur, req, written, asked>>
      /\ phase' = "idle" /\ error' = FALSE /\ modified' = TRUE
      /\ status' = [status EXCEPT ![cur] = "InProgress"]
      /\ doc' = [item |-> cur, name |-> IF op[cur] = "eMergeToA" THEN NameInA(cur) ELSE Dest(cur)]
  BY DEF ExecuteManually, cursor, history
<1>3. /\ sim' \in BOOLEAN /\ real' \in BOOLEAN
      /\ error' \in BOOLEAN /\ modified' \in BOOLEAN
  BY Zenon, <1>1, <1>2 DEF TypeOK
<1>4. /\ status' \in [Item -> Status]
      /\ status'[cur] = "InProgress" /\ \A i \in Item \ {cur} : status'[i] = status[i]
  BY <1>1, <1>2 DEF TypeOK, Status
<1>5. doc' \in [item : 0..N, name : Name] /\ doc'.item = cur
  BY <1>1, <1>2, NamesAreNames DEF TypeOK
<1>6. TypeOK'
  BY <1>1, <1>2, <1>3, <1>4, <1>5 DEF TypeOK, Phase
<1>7. DoneMeansWritten'
  BY <1>2, <1>4 DEF IInv, DoneMeansWritten, Leaf
<1>8. ManualMergeIsCurrent'
  BY <1>2, <1>4, <1>5 DEF IInv, ManualMergeIsCurrent, Leaf
<1>9. /\ IF list' = {} THEN cur' = 0 ELSE cur' \in list'
      /\ \A j \in list' : j > cur' => ~complete'[j]
  BY <1>1, <1>2, <1>5 DEF IInv, CursorInList
<1> QED
  BY <1>2, <1>6, <1>7, <1>8, <1>9, AtRest

\* Folders that become Done lie above the current item.
LEMMA FinishedAncestorsAbove ==
    ASSUME NEW i \in Item, NEW done
    PROVE  \A a \in FinishedAncestors(i, done) : a \in Item /\ a < i /\ ~Leaf(a)
BY DEF FinishedAncestors, Ancestors, Leaf, Item

\* mergeContinue() ends the item that has run and goes to the next one, or stops.
LEMMA AdvanceItemStep ==
    ASSUME IInv, AdvanceItem
    PROVE  IInv'
<1> DEFINE next == NextInList
           above == {a \in Item : a < cur /\ ~Leaf(a)}
<1>1. TypeOK /\ cur \in Item /\ cur \in list /\ cur # 0 /\ phase = "advance"
  BY CursorOnItem DEF IInv, AdvanceItem
<1>2. UNCHANGED <<op, visible, error, req, doc, modified, written>>
  BY DEF AdvanceItem, editor
<1>3. PICK parents \in SUBSET above :
         IF sim THEN UNCHANGED <<complete, status>>
         ELSE /\ complete' = [i \in Item |-> [complete EXCEPT ![cur] = @ \/ Leaf(cur)][i]
                                              \/ i \in parents]
              /\ status' = [i \in Item |->
                     IF i \in parents THEN "Done"
                     ELSE IF i # cur THEN status[i]
                     ELSE IF ~Leaf(i) THEN "InProgress"
                     ELSE IF complete[i] THEN status[i] ELSE "Done"]
  <2> DEFINE done == [complete EXCEPT ![cur] = @ \/ Leaf(cur)]
             found == IF NextInList = 0 \/ Parent(NextInList) # Parent(cur)
                      THEN FinishedAncestors(cur, done) ELSE {}
  <2>1. found \in SUBSET above
    BY <1>1, FinishedAncestorsAbove
  <2>2. IF sim THEN UNCHANGED <<complete, status>>
        ELSE /\ complete' = [i \in Item |-> done[i] \/ i \in found]
             /\ status' = [i \in Item |->
                    IF i \in found THEN "Done"
                    ELSE IF i # cur THEN status[i]
                    ELSE IF ~Leaf(i) THEN "InProgress"
                    ELSE IF complete[i] THEN status[i] ELSE "Done"]
    BY DEF AdvanceItem
  <2> HIDE DEF found
  <2> QED
    BY <2>1, <2>2
<1>4. \/ /\ next # 0 /\ cur' = next /\ phase' = "execute"
         /\ UNCHANGED <<real, sim, list, asked>>
      \/ /\ next = 0 /\ cur' = 0 /\ phase' = "idle"
         /\ real' = FALSE /\ sim' = FALSE /\ list' = {} /\ asked' = "none"
  BY DEF AdvanceItem
<1>5. next # 0 => next \in list /\ next \in Item /\ next > cur
  BY <1>1, NextInListBehind DEF TypeOK
<1>6. complete' \in [Item -> BOOLEAN] /\ status' \in [Item -> Status]
  <2>1. CASE sim
    BY <1>1, <1>3, <2>1 DEF TypeOK
  <2>2. CASE ~sim
    <3>1. complete' \in [Item -> BOOLEAN]
      BY <1>3, <2>2
    <3>2. status' \in [Item -> Status]
      BY <1>1, <1>3, <2>2 DEF TypeOK, Status
    <3> QED
      BY <3>1, <3>2
  <2> QED
    BY <2>1, <2>2
\* Behind the cursor nothing changes, and only its leaf is new among the files.
<1>7. \A i \in Item : i > cur => complete'[i] = complete[i] /\ status'[i] = status[i]
  <2> SUFFICES ASSUME NEW i \in Item, i > cur
               PROVE  complete'[i] = complete[i] /\ status'[i] = status[i]
    OBVIOUS
  <2>1. i # cur /\ i \notin parents
    BY <1>1, <1>3 DEF Item
  <2>2. CASE sim
    BY <1>3, <2>2
  <2>3. CASE ~sim
    <3>1. complete'[i] = ([complete EXCEPT ![cur] = @ \/ Leaf(cur)][i] \/ i \in parents)
      BY <1>3, <2>3
    <3>2. [complete EXCEPT ![cur] = @ \/ Leaf(cur)][i] = complete[i]
      BY Zenon, <1>1, <2>1 DEF TypeOK
    <3>3. complete'[i] = complete[i]
      <4>1. complete[i] \in BOOLEAN
        BY <1>1 DEF TypeOK
      <4> QED
        BY Zenon, <2>1, <3>1, <3>2, <4>1
    <3>4. status'[i] = status[i]
      BY <1>3, <2>1, <2>3
    <3> QED
      BY <3>3, <3>4
  <2> QED
    BY <2>2, <2>3
<1>8. \A i \in Item : Leaf(i) /\ i # cur => complete'[i] = complete[i] /\ status'[i] = status[i]
  <2> SUFFICES ASSUME NEW i \in Item, Leaf(i), i # cur
               PROVE  complete'[i] = complete[i] /\ status'[i] = status[i]
    OBVIOUS
  <2>1. i \notin parents
    BY <1>3
  <2>2. CASE sim
    BY <1>3, <2>2
  <2>3. CASE ~sim
    <3>1. complete'[i] = ([complete EXCEPT ![cur] = @ \/ Leaf(cur)][i] \/ i \in parents)
      BY <1>3, <2>3
    <3>2. [complete EXCEPT ![cur] = @ \/ Leaf(cur)][i] = complete[i]
      BY Zenon, <1>1 DEF TypeOK
    <3>3. complete'[i] = complete[i]
      <4>1. complete[i] \in BOOLEAN
        BY <1>1 DEF TypeOK
      <4> QED
        BY Zenon, <2>1, <3>1, <3>2, <4>1
    <3>4. status'[i] = status[i]
      BY <1>3, <2>1, <2>3
    <3> QED
      BY <3>3, <3>4
  <2> QED
    BY <2>2, <2>3
<1>9. Leaf(cur) => \/ complete'[cur]
                   \/ complete'[cur] = complete[cur] /\ status'[cur] = status[cur]
  <2>1. CASE sim
    BY <1>3, <2>1
  <2>2. CASE ~sim
    BY <1>1, <1>3, <2>2 DEF TypeOK
  <2> QED
    BY <2>1, <2>2
<1>10. Leaf(cur) /\ status'[cur] = "Done" => cur \in written
  <2>1. CASE sim \/ complete[cur]
    <3>1. Leaf(cur) => status'[cur] = status[cur]
      <4>1. CASE sim
        BY <1>3, <4>1
      <4>2. CASE ~sim
        BY <1>1, <1>3, <2>1, <4>2
      <4> QED
        BY <4>1, <4>2
    <3> QED
      BY <1>1, <3>1 DEF IInv, DoneMeansWritten
  <2>2. CASE ~sim /\ ~complete[cur]
    BY <1>1, <2>2 DEF IInv, LoopInv
  <2> QED
    BY <2>1, <2>2
<1>11. /\ sim' \in BOOLEAN /\ real' \in BOOLEAN
       /\ error' \in BOOLEAN /\ modified' \in BOOLEAN
  <2>1. (real' = FALSE /\ sim' = FALSE) \/ (real' = real /\ sim' = sim)
    BY <1>4
  <2>2. error' = error /\ modified' = modified
    BY <1>2
  <2> QED
    BY Zenon, <1>1, <2>1, <2>2 DEF TypeOK
<1>12. /\ list' \subseteq Item /\ cur' \in 0..N /\ phase' \in Phase
       /\ asked' \in {"none", "real", "simulation"}
  <2>1. CASE next # 0 /\ cur' = next /\ list' = list /\ asked' = asked /\ phase' = "execute"
    <3>1. cur' \in 0..N
      BY <1>5, <2>1 DEF Item
    <3> QED
      BY <1>1, <2>1, <3>1 DEF TypeOK, Phase
  <2>2. CASE cur' = 0 /\ phase' = "idle" /\ list' = {} /\ asked' = "none"
    BY <2>2 DEF Phase
  <2> QED
    BY <1>4, <2>1, <2>2
<1>13. TypeOK'
  BY <1>1, <1>2, <1>6, <1>11, <1>12 DEF TypeOK
<1>14. DoneMeansWritten'
  BY <1>2, <1>8, <1>10 DEF IInv, DoneMeansWritten, Leaf
<1>15. \A i \in Item : Leaf(i) /\ status'[i] = "InProgress" => complete'[i]
  <2> SUFFICES ASSUME NEW i \in Item, Leaf(i), status'[i] = "InProgress", ~complete'[i]
               PROVE  FALSE
    OBVIOUS
  <2>1. CASE i = cur
    BY <1>1, <1>9, <2>1 DEF IInv, LoopInv
  <2>2. CASE i # cur
    BY <1>8, <2>2 DEF IInv, ManualMergeIsCurrent
  <2> QED
    BY <2>1, <2>2
<1>16. ManualMergeIsCurrent'
  BY <1>15 DEF ManualMergeIsCurrent, Leaf
<1>17. CASE phase' = "idle"
  BY <1>2, <1>4, <1>13, <1>14, <1>16, <1>17, AtRest DEF IInv, LoopInv
<1>18. CASE next # 0 /\ cur' = next /\ phase' = "execute" /\ list' = list
  <2>1. next \in list /\ next \in Item /\ next > cur /\ ~complete[next]
    BY <1>1, <1>5, <1>18 DEF IInv, CursorInList
  <2>2. \A j \in list' : j > cur' => ~complete'[j]
    <3> SUFFICES ASSUME NEW j \in list, j > next PROVE ~complete'[j]
      BY <1>18
    <3>1. j \in Item /\ j > cur
      BY <1>1, <2>1 DEF TypeOK, Item
    <3> QED
      BY <1>1, <1>7, <3>1 DEF IInv, CursorInList
  <2>3. CursorInList'
    BY <1>18, <2>1, <2>2 DEF CursorInList
  <2>4. NothingRunsTwice'
    BY <1>7, <1>18, <2>1 DEF NothingRunsTwice
  <2>5. NothingRunsAfterError'
    BY <1>1, <1>2 DEF IInv, NothingRunsAfterError
  <2>6. LoopInv'
    BY <1>2, <1>15, <1>18, <2>1 DEF IInv, LoopInv, Leaf
  <2> QED
    BY <1>13, <1>14, <1>16, <2>3, <2>4, <2>5, <2>6 DEF IInv
<1> QED
  BY <1>4, <1>17, <1>18

-----------------------------------------------------------------------------
(* Files opened one by one. *)

\* Merging one selected file makes a list of that file alone.
LEMMA MergeCurrentFileStep ==
    ASSUME IInv, MergeCurrentFile
    PROVE  IInv'
<1> DEFINE i0 == req.item
<1>1. TypeOK /\ phase = "command"
  BY DEF IInv, MergeCurrentFile
<1>2. i0 \in Item /\ i0 # 0
  <2>1. i0 \in Item
    BY KindAssumption DEF MergeCurrentFile
  <2> QED
    BY <2>1 DEF Item
<1>3. /\ UNCHANGED <<op, complete, visible, real, sim, error, written>>
      /\ list' = {i0} /\ cur' = i0 /\ phase' = "idle" /\ asked' = "none"
      /\ req' = NoReq
  BY DEF MergeCurrentFile, flags
<1>4. \/ /\ status' = [status EXCEPT ![i0] = "InProgress"]
         /\ doc' = [item |-> i0, name |-> Dest(i0)]
         /\ modified' = TRUE
      \/ UNCHANGED <<status, doc, modified>>
  BY DEF MergeCurrentFile, editor
<1>5. /\ sim' \in BOOLEAN /\ real' \in BOOLEAN
      /\ error' \in BOOLEAN /\ modified' \in BOOLEAN
  <2>1. modified' = TRUE \/ modified' = modified
    BY <1>4
  <2> QED
    BY Zenon, <1>1, <1>3, <2>1 DEF TypeOK
<1>6. status' \in [Item -> Status]
  BY <1>1, <1>2, <1>4 DEF TypeOK, Status
<1>7. doc' \in [item : 0..N, name : Name]
  <2>1. i0 \in 0..N /\ Dest(i0) \in Name
    BY <1>2, NamesAreNames DEF Item
  <2> QED
    BY <1>1, <1>4, <2>1 DEF TypeOK
<1>8. TypeOK'
  BY <1>1, <1>2, <1>3, <1>5, <1>6, <1>7 DEF TypeOK, Phase, NoReq, Item
<1>9. \A i \in Item : Leaf(i) /\ status[i] = "InProgress" => complete[i]
  BY <1>1, NothingInTheMaking
<1>10. \A i \in Item \ {i0} : status'[i] = status[i]
  BY <1>1, <1>2, <1>4 DEF TypeOK
<1>11. \/ status'[i0] = "InProgress" /\ doc'.item = i0
       \/ status' = status /\ doc' = doc
  <2>1. CASE status' = [status EXCEPT ![i0] = "InProgress"] /\ doc' = [item |-> i0, name |-> Dest(i0)]
    BY <1>1, <1>2, <2>1 DEF TypeOK
  <2>2. CASE UNCHANGED <<status, doc, modified>>
    BY <2>2
  <2> QED
    BY <1>4, <2>1, <2>2
<1>12. DoneMeansWritten'
  BY <1>3, <1>10, <1>11 DEF IInv, DoneMeansWritten, Leaf
<1>13. ManualMergeIsCurrent'
  BY <1>3, <1>9, <1>10, <1>11 DEF ManualMergeIsCurrent, Leaf
<1>14. \A j \in list' : j > cur' => ~complete'[j]
  BY <1>2, <1>3 DEF Item
<1> QED
  BY <1>3, <1>8, <1>12, <1>13, <1>14, AtRest

\* Opening other files takes the editor away from the item.
LEMMA OpenOtherStep ==
    ASSUME IInv, OpenOther
    PROVE  IInv'
<1>1. TypeOK /\ phase = "command"
  BY DEF IInv, OpenOther
<1>2. /\ UNCHANGED <<op, complete, status, visible, real, sim, error, list, cur, written, asked>>
      /\ req' = NoReq /\ phase' = "idle"
      /\ modified' = FALSE \/ modified' = TRUE
  BY DEF OpenOther, items, flags, cursor, history
<1>3. /\ sim' \in BOOLEAN /\ real' \in BOOLEAN
      /\ error' \in BOOLEAN /\ modified' \in BOOLEAN
  BY Zenon, <1>1, <1>2 DEF TypeOK
<1>4. TypeOK'
  <2>1. 0 \in 0..N
    BY TreeAssumption
  <2>2. doc' \in [item : 0..N, name : Name]
    BY <2>1, NamesAreNames DEF OpenOther, NoDoc
  <2> QED
    BY <1>1, <1>2, <1>3, <2>1, <2>2 DEF TypeOK, Phase, NoReq
<1>5. DoneMeansWritten' /\ ManualMergeIsCurrent'
  BY <1>1, <1>2, NothingInTheMaking DEF IInv, DoneMeansWritten, ManualMergeIsCurrent
<1>6. /\ IF list' = {} THEN cur' = 0 ELSE cur' \in list'
      /\ \A j \in list' : j > cur' => ~complete'[j]
  BY <1>2 DEF IInv, CursorInList
<1> QED
  BY <1>2, <1>4, <1>5, <1>6, AtRest

-----------------------------------------------------------------------------
(* Every step keeps the inductive invariant. *)

\* A stuttering step keeps the invariant.
LEMMA StutterStep ==
    ASSUME IInv, UNCHANGED vars
    PROVE  IInv'
BY DEF IInv, vars, items, flags, cursor, control, editor, history, TypeOK, CursorInList,
       NothingRunsTwice, DoneMeansWritten, NothingRunsAfterError, ManualMergeIsCurrent, LoopInv

\* Every step keeps the invariant.
LEMMA IInvStep == IInv /\ [Next]_vars => IInv'
<1> SUFFICES ASSUME IInv, [Next]_vars PROVE IInv'
  OBVIOUS
<1>1. CASE User
  <2>1. ASSUME NEW i \in Item, NEW o \in UserOps, SetMergeOperation(i, o) PROVE IInv'
    <3>1. Assigned[i][o] \in [Item -> Seq(Operation)]
      BY OperationAssumption
    <3> QED
      BY <2>1, <3>1, AssignStep DEF SetMergeOperation
  <2>2. ASSUME NEW o \in DefaultOps, SetAllMergeOperations(o) PROVE IInv'
    <3>1. AssignedAll[o] \in [Item -> Seq(Operation)]
      BY OperationAssumption
    <3> QED
      BY <2>2, <3>1, AssignStep DEF SetAllMergeOperations
  <2>3. CASE \/ \E v \in Views : UpdateFileVisibilities(v)
             \/ \E c \in ItemCommands, i \in 0..N : Request(c, i)
             \/ \E c \in Command \ ItemCommands : Request(c, 0)
             \/ \E i \in Item : DoubleClick(i)
             \/ EditDocument
    BY <2>3, QuietSteps
  <2>4. CASE SaveDocument
    BY <2>4, SaveSteps
  <2>5. CASE \E name \in OutputNames : SaveDocumentAs(name)
    BY <2>5, SaveAsStep
  <2>6. CASE Rescan
    BY <2>6, RescanStep
  <2>7. CASE QueryClose
    BY <2>7, CloseSteps
  <2> QED
    BY <1>1, <2>1, <2>2, <2>3, <2>4, <2>5, <2>6, <2>7 DEF User
<1>2. CASE Confirm
  BY <1>2, SaveSteps, QuietSteps, CanContinueStep DEF Confirm
<1>3. CASE RunCommand
  BY <1>3, StartMergeStep, QuietSteps, ContinueMergeStep DEF RunCommand
<1>4. CASE OpenCommand
  BY <1>4, QuietSteps, MergeCurrentFileStep, OpenOtherStep DEF OpenCommand
<1>5. CASE MergeStep
  BY <1>5, ExecuteItemStep, ExecuteFailsStep, ExecuteManuallyStep, AdvanceItemStep DEF MergeStep
<1>6. CASE Closed \/ UNCHANGED vars
  BY <1>6, StutterStep DEF Closed
<1> QED
  BY <1>1, <1>2, <1>3, <1>4, <1>5, <1>6 DEF Next

-----------------------------------------------------------------------------
(* The theorems. *)

\* Every state DirectoryMergeWindow can reach, for any tree of items, any
\* operations and any order of commands, satisfies the inductive invariant.
THEOREM Invariance == Spec => []IInv
<1>1. Init => IInv
  BY InitIInv
<1>2. IInv /\ [Next]_vars => IInv'
  BY IInvStep
<1> QED
  BY <1>1, <1>2, PTL DEF Spec

\* Every variable keeps to the values of its member in the code.
THEOREM TypeCorrect == Spec => []TypeOK
BY Invariance, PTL DEF IInv

\* The cursor into m_mergeItemList is never left on an item that is not in the
\* list, and the loop of mergeContinue() is never entered with an empty list.
THEOREM CursorStaysInList == Spec => []CursorInList
BY Invariance, PTL DEF IInv

\* An item that is complete is never executed again.
THEOREM CompleteItemsRest == Spec => []NothingRunsTwice
BY Invariance, PTL DEF IInv

\* A file shown as "Done" was written since its operation was last chosen.
THEOREM DoneFilesAreWritten == Spec => []DoneMeansWritten
BY Invariance, PTL DEF IInv

\* After an error canContinue() lets no command near the merge loop.
THEOREM ErrorStopsTheMerge == Spec => []NothingRunsAfterError
BY Invariance, PTL DEF IInv

\* A file whose manual merge is not ended is the current item, and the merge
\* editor is the one opened for it.
THEOREM SavingEndsTheRightItem == Spec => []ManualMergeIsCurrent
BY Invariance, PTL DEF IInv

-----------------------------------------------------------------------------
(* DirMerge implements MergeRun: every step of the folder merge is a step of *)
(* its run or leaves the run alone, and the merge loop leaves no file behind *)
(* unfinished, for every tree and every assignment of operations.            *)

(* What the run sees of the folder merge. *)

\* The item the run is at is the one the cursor stands on.
LEMMA CurrentIsCur ==
    ASSUME IInv, cur # 0
    PROVE  /\ cur \in Item /\ cur \in list /\ cur \in Todo
           /\ Run!Current = cur
           /\ Todo = {cur} \cup {j \in list : j > cur}
<1>1. cur \in list /\ list \subseteq Item
  BY DEF IInv, CursorInList, TypeOK
<1>2. cur \in Item /\ cur \in Nat /\ \A j \in list : j \in Nat
  BY <1>1 DEF Item
<1>3. Todo = {cur} \cup {j \in list : j > cur}
  <2>1. \A j \in list : (j >= cur) <=> (j = cur \/ j > cur)
    BY <1>2
  <2> QED
    BY <1>1, <2>1 DEF Todo
<1>4. cur \in Todo /\ \A j \in Todo : cur <= j /\ j \in Nat
  BY <1>1, <1>2 DEF Todo, Item
<1>5. Run!Current = cur
  <2>1. \A i \in Todo : (\A j \in Todo : i <= j) => i = cur
    BY <1>2, <1>4 DEF Item
  <2> QED
    BY <1>4, <2>1 DEF Run!Current
<1> QED
  BY <1>1, <1>2, <1>3, <1>4, <1>5

\* The run has something to do exactly when the cursor stands on an item.
LEMMA TodoEmpty ==
    ASSUME IInv
    PROVE  (Todo = {}) <=> (cur = 0)
<1>1. CASE cur = 0
  <2>1. list = {}
    BY <1>1 DEF IInv, CursorInList, TypeOK, Item
  <2> QED
    BY <1>1, <2>1 DEF Todo
<1>2. CASE cur # 0
  BY <1>2, CurrentIsCur
<1> QED
  BY <1>1, <1>2

\* A step that leaves the items' completion, the list and the cursor alone and
\* stays outside or inside the loop is no step of the run.
LEMMA RunStutters ==
    ASSUME UNCHANGED <<complete, list, cur>>, At' = At
    PROVE  UNCHANGED Run!vars
BY DEF Run!vars, Todo, Ended

\* Outside the loop the run is at rest.
LEMMA AtRestOutside ==
    /\ phase \in {"idle", "save", "check", "command", "closed"} => At = "rest"
    /\ phase' \in {"idle", "save", "check", "command", "closed"} => At' = "rest"
BY DEF At

-----------------------------------------------------------------------------
(* One lemma per kind of step. *)

\* Giving items other operations only makes them run again.
LEMMA AssignReopens ==
    ASSUME IInv, NEW seqs \in [Item -> Seq(Operation)], Assign(seqs), phase = "idle",
           UNCHANGED <<list, cur, phase>>
    PROVE  Run!Reopen
<1>1. \A i \in Item : complete'[i] => complete[i]
  BY AssignRestarts DEF IInv
<1>2. Ended' \subseteq Ended /\ Todo' = Todo
  BY <1>1 DEF Ended, Todo
<1>3. At = "rest" /\ At' = "rest"
  BY AtRestOutside
<1> QED
  BY <1>2, <1>3 DEF Run!Reopen

\* Saving an item or giving it up ends it and nothing else.
LEMMA EndCurrentEndsRun ==
    ASSUME IInv, cur # 0, NEW s \in Status, EndCurrent(s), At = "rest", At' = "rest"
    PROVE  Run!EndCurrent
<1>1. /\ cur \in Item /\ cur \in list /\ cur \in Todo /\ Run!Current = cur
      /\ Todo = {cur} \cup {j \in list : j > cur}
  BY CurrentIsCur
<1>2. /\ complete'[cur]
      /\ \A i \in Item \ {cur} : complete'[i] = complete[i]
  BY EndCurrentEnds DEF IInv
<1>3. Ended' = Ended \cup {cur}
  BY <1>1, <1>2 DEF Ended
<1>4. Todo' = Todo \/ (Todo = {cur} /\ Todo' = {})
  <2>1. CASE list = {cur}
    <3>1. list' = {}
      BY <2>1 DEF EndCurrent
    <3> QED
      BY <1>1, <2>1, <3>1 DEF Todo
  <2>2. CASE list # {cur}
    <3>1. list' = list /\ cur' = cur
      BY <2>2 DEF EndCurrent, cursor
    <3> QED
      BY <3>1 DEF Todo
  <2> QED
    BY <2>1, <2>2
<1> QED
  BY <1>1, <1>3, <1>4 DEF Run!EndCurrent

\* A save ends the current item, or tells the run nothing.
LEMMA SavingIsNoOther ==
    ASSUME IInv, NEW STATE name, MergeResultSaved(name), At = "rest", At' = "rest"
    PROVE  Run!EndCurrent \/ UNCHANGED Run!vars
<1>1. CASE cur = 0 \/ name # Dest(cur)
  <2>1. UNCHANGED <<complete, list, cur>>
    BY <1>1 DEF MergeResultSaved, cursor
  <2> QED
    BY <2>1, RunStutters
<1>2. CASE cur # 0 /\ EndCurrent("Done")
  BY <1>2, EndCurrentEndsRun DEF Status
<1>3. CASE UNCHANGED <<complete, real, sim, cursor, asked>>
  BY <1>3, RunStutters DEF cursor
<1> QED
  BY <1>1, <1>2, <1>3 DEF MergeResultSaved

\* canContinue() gives the current item up when it has not ended.
LEMMA CanContinueEnds ==
    ASSUME IInv, CanContinue
    PROVE  Run!EndCurrent \/ UNCHANGED Run!vars
<1>1. At = "rest" /\ At' = "rest"
  BY AtRestOutside DEF CanContinue
<1>2. CASE cur # 0 /\ EndCurrent("NotSaved")
  BY <1>1, <1>2, EndCurrentEndsRun DEF Status
<1>3. CASE UNCHANGED <<complete, status, cursor, real, asked>>
  BY <1>1, <1>3, RunStutters DEF cursor
<1> QED
  BY <1>2, <1>3 DEF CanContinue, EndUnsavedItem

\* "Start/Continue Folder Merge" begins a run of items that have not ended.
LEMMA StartMergeBegins ==
    ASSUME IInv, NEW answer \in {"real", "simulation"}, StartMerge(answer)
    PROVE  (\E S \in SUBSET Item : Run!Begin(S)) \/ UNCHANGED Run!vars
<1> DEFINE running == ItemsToRun(FirstRow)
<1>1. complete' = complete /\ phase = "command" /\ list = {}
  BY DEF StartMerge, items
<1>2. cur = 0 /\ Todo = {} /\ At = "rest"
  BY <1>1, AtRestOutside DEF IInv, CursorInList, Todo
<1>3. CASE phase' = "idle" /\ UNCHANGED <<list, cur, asked>>
  BY <1>1, <1>2, <1>3, AtRestOutside, RunStutters
<1>4. CASE /\ FirstRow # 0 /\ list' = running /\ cur' = First(running)
           /\ phase' = IF running = {} THEN "idle" ELSE "execute"
  <2>1. running \subseteq Item /\ \A j \in running : ~complete[j]
    BY <1>4, ItemsToRunAreOpen
  <2>2. CASE running = {}
    <3>1. Todo' = {} /\ At' = "rest"
      BY <1>4, <2>2, AtRestOutside DEF Todo
    <3> QED
      BY <1>1, <1>2, <3>1 DEF Run!vars, Ended
  <2>3. CASE running # {}
    <3>1. \A j \in running : First(running) <= j
      BY <2>1, <2>3, FirstSmallest
    <3>2. Todo' = running
      BY <1>4, <2>1, <3>1 DEF Todo
    <3>3. At' = "run"
      BY <1>4, <2>3 DEF At
    <3>4. running \cap Ended = {} /\ Ended' = Ended
      BY <1>1, <2>1 DEF Ended
    <3>5. Run!Begin(running)
      BY <1>2, <2>3, <3>2, <3>3, <3>4 DEF Run!Begin
    <3> QED
      BY <2>1, <3>5
  <2> QED
    BY <2>2, <2>3
<1> QED
  BY <1>3, <1>4 DEF StartMerge, cursor

\* A merge that is continued has ended the item it stood still on.
LEMMA ContinueMergeContinues ==
    ASSUME IInv, ContinueMerge
    PROVE  Run!Continue
<1>1. /\ phase = "command" /\ list # {} /\ phase' = "advance"
      /\ UNCHANGED <<complete, list, cur>>
  BY DEF ContinueMerge, items, cursor
<1>2. cur # 0 /\ complete[cur]
  <2>1. cur \in list /\ list \subseteq Item
    BY <1>1 DEF IInv, CursorInList, TypeOK
  <2>2. cur # 0
    BY <2>1 DEF Item
  <2> QED
    BY <1>1, <2>2 DEF IInv, LoopInv
<1>3. cur \in Item /\ cur \in Todo /\ Run!Current = cur
  BY <1>2, CurrentIsCur
<1>4. At = "rest" /\ At' = "leave"
  BY <1>1 DEF At
<1>5. cur \in Ended /\ Todo' = Todo /\ Ended' = Ended
  BY <1>1, <1>2, <1>3 DEF Ended, Todo
<1> QED
  BY <1>3, <1>4, <1>5 DEF Run!Continue

\* An operation that succeeds, fails, is cancelled or opens the editor is the
\* execution of the current item.
LEMMA ExecuteExecutes ==
    ASSUME IInv, ExecuteItem \/ ExecuteFails \/ ExecuteManually
    PROVE  Run!Execute
<1>1. phase = "execute" /\ phase' \in {"advance", "idle"} /\ UNCHANGED <<complete, list, cur>>
  BY DEF ExecuteItem, ExecuteFails, ExecuteManually, items, cursor
<1>2. At = "run" /\ At' \in {"leave", "rest"}
  BY <1>1 DEF At
<1> QED
  BY <1>1, <1>2 DEF Run!Execute, Todo, Ended

\* A folder above the current item that is found finished holds nothing that is
\* not, once the folders found with it have ended too.
LEMMA FinishedAncestorsHoldNothing ==
    ASSUME NEW i \in Item, NEW done
    PROVE  \A a \in FinishedAncestors(i, done) : \A c \in Children(a) :
               c \in Item /\ (c \in FinishedAncestors(i, done) \/ done[c])
<1> SUFFICES ASSUME NEW a \in FinishedAncestors(i, done), NEW c \in Children(a),
                    ~done[c]
             PROVE  c \in FinishedAncestors(i, done)
  BY DEF Children
<1>1. /\ a \in Item /\ c \in Item /\ c \in Ancestors(i)
      /\ \A b \in Ancestors(i) : b >= a =>
            \A d \in Children(b) : d \in Ancestors(i) \/ done[d]
  BY DEF FinishedAncestors, Ancestors, Children, Item
<1>2. a < c
  <2>1. Ancestors(c) # {} /\ a \in Ancestors(c)
    <3>1. Parent(c) = a /\ a # 0
      BY <1>1 DEF Children, Item
    <3>2. Ancestors(c) # {}
      BY <3>1 DEF Parent
    <3>3. \E m \in Ancestors(c) : \A b \in Ancestors(c) : b <= m
      <4> DEFINE back == {N - b : b \in Ancestors(c)}
      <4>1. \A b \in Ancestors(c) : b \in Nat /\ N - b \in Nat
        BY TreeAssumption DEF Ancestors, Item
      <4>2. back \in SUBSET Nat /\ back # {}
        BY <3>2, <4>1
      <4>3. PICK m \in back : \A k \in back : m <= k
        BY <4>2, SmallestMember
      <4>4. PICK b \in Ancestors(c) : m = N - b
        BY <4>3
      <4>5. \A k \in Ancestors(c) : N - b <= N - k
        BY <4>3, <4>4
      <4>6. \A k \in Ancestors(c) : k <= b
        BY TreeAssumption, <4>1, <4>5
      <4> QED
        BY <4>4, <4>6
    <3> QED
      BY <3>1, <3>2, <3>3 DEF Parent
  <2> QED
    BY <2>1 DEF Ancestors
<1>3. \A b \in Ancestors(i) : b >= c => b >= a
  BY <1>1, <1>2 DEF Ancestors, Item
<1> QED
  BY <1>1, <1>3 DEF FinishedAncestors

\* The loop leaves the current item, ends it if it is a file, and with it the
\* folders that have nothing left to do.
LEMMA AdvanceLeaves ==
    ASSUME IInv, AdvanceItem
    PROVE  Run!Leave
<1> DEFINE done  == [complete EXCEPT ![cur] = @ \/ Leaf(cur)]
           found == IF NextInList = 0 \/ Parent(NextInList) # Parent(cur)
                    THEN FinishedAncestors(cur, done) ELSE {}
<1>1. /\ TypeOK /\ phase = "advance" /\ cur \in Item /\ cur \in list /\ cur # 0
  BY CursorOnItem DEF IInv, AdvanceItem
<1>2. /\ Run!Current = cur /\ cur \in Todo
      /\ Todo = {cur} \cup {j \in list : j > cur}
  BY <1>1, CurrentIsCur
<1>3. /\ NextInList # 0 => NextInList \in list /\ NextInList > cur
      /\ \A j \in list : j > cur => NextInList # 0 /\ NextInList <= j
  BY <1>1, NextInListBehind DEF TypeOK
<1>4. /\ Todo' = Todo \ {cur}
      /\ Todo' = {} => At' = "rest"
      /\ Todo' # {} => At' = "run"
  <2>1. CASE /\ NextInList # 0 /\ cur' = NextInList /\ list' = list /\ phase' = "execute"
    <3>1. Todo' = {j \in list : j > cur}
      <4>1. \A j \in list : j \in Nat /\ cur \in Nat
        BY <1>1 DEF TypeOK, Item
      <4>2. \A j \in list : (j >= NextInList) <=> (j > cur)
        BY <1>3, <2>1, <4>1
      <4> QED
        BY <2>1, <4>2 DEF Todo
    <3>2. Todo' # {} /\ At' = "run"
      BY <1>3, <2>1, <3>1 DEF At
    <3> QED
      BY <1>1, <1>2, <3>1, <3>2 DEF Item
  <2>2. CASE NextInList = 0 /\ list' = {} /\ phase' = "idle"
    <3>1. Todo' = {} /\ At' = "rest"
      BY <2>2 DEF Todo, At
    <3> QED
      BY <1>1, <1>2, <1>3, <2>2, <3>1 DEF Item
  <2> QED
    BY <2>1, <2>2 DEF AdvanceItem
<1>5. Todo' \cap Ended' = {}
  <2>1. IInv'
    BY AdvanceItemStep
  <2>2. CASE NextInList # 0
    <3>1. /\ cur' = NextInList /\ phase' = "execute" /\ list' = list
      BY <2>2 DEF AdvanceItem
    <3>2. ~complete'[cur'] /\ \A j \in list' : j > cur' => ~complete'[j]
      BY <2>1, <3>1 DEF IInv, NothingRunsTwice, CursorInList
    <3>3. \A j \in list' : j \in Nat /\ cur' \in Nat
      <4>1. list \subseteq Item /\ cur' \in list
        BY <1>1, <1>3, <2>2, <3>1 DEF TypeOK
      <4> QED
        BY <3>1, <4>1 DEF Item
    <3>4. \A j \in list' : j >= cur' => ~complete'[j]
      BY <3>2, <3>3
    <3> QED
      BY <3>4 DEF Todo, Ended
  <2>3. CASE NextInList = 0
    BY <2>3 DEF AdvanceItem, Todo
  <2> QED
    BY <2>2, <2>3
<1>6. /\ Ended \subseteq Ended'
      /\ \A i \in Ended' \ Ended :
            IF ~Leaf(i) THEN Children(i) \subseteq Ended' ELSE i = cur
  <2>1. CASE sim
    <3>1. Ended' = Ended
      BY <2>1 DEF AdvanceItem, Ended
    <3> QED
      BY <3>1
  <2>2. CASE ~sim
    <3>1. complete' = [i \in Item |-> done[i] \/ i \in found]
      BY <2>2 DEF AdvanceItem
    <3>2. \A i \in Item : complete[i] => done[i]
      BY <1>1 DEF TypeOK
    <3>3. \A i \in Item : done[i] => complete[i] \/ (i = cur /\ Leaf(i))
      BY <1>1 DEF TypeOK
    <3>4. \A i \in found : ~Leaf(i) /\ \A c \in Children(i) : c \in Item /\ (c \in found \/ done[c])
      BY <1>1, FinishedAncestorsAbove, FinishedAncestorsHoldNothing
    <3> HIDE DEF done, found
    <3>5. Ended \subseteq Ended'
      BY <3>1, <3>2 DEF Ended
    <3>6. \A i \in Ended' \ Ended : i \in found \/ (i = cur /\ Leaf(i))
      BY <3>1, <3>3 DEF Ended
    <3>7. \A i \in found : Children(i) \subseteq Ended'
      BY <3>1, <3>4 DEF Ended
    <3> QED
      BY <3>4, <3>5, <3>6, <3>7
  <2> QED
    BY <2>1, <2>2
<1>7. At = "leave"
  BY <1>1 DEF At
<1>8. \A i \in Ended' \ Ended :
          IF i \in {j \in Item : ~Leaf(j)} THEN [j \in Item |-> Children(j)][i] \subseteq Ended'
          ELSE i = cur
  BY <1>6 DEF Ended
<1> QED
  BY <1>2, <1>4, <1>5, <1>6, <1>7, <1>8 DEF Run!Leave

\* Opening one file for a merge makes it all there is to do.
LEMMA MergeCurrentFileIsOne ==
    ASSUME IInv, MergeCurrentFile
    PROVE  \E i \in Item : Run!MergeOne(i)
<1>1. req.item \in Item
  BY KindAssumption DEF MergeCurrentFile
<1>2. /\ complete' = complete /\ list' = {req.item} /\ cur' = req.item
      /\ phase = "command" /\ phase' = "idle"
  BY DEF MergeCurrentFile
<1>3. Todo' = {req.item} /\ Ended' = Ended
  BY <1>1, <1>2 DEF Todo, Ended, Item
<1>4. At = "rest" /\ At' = "rest"
  BY <1>2, AtRestOutside
<1> QED
  BY <1>1, <1>3, <1>4 DEF Run!MergeOne

\* A scan starts with items that have all their operation before them.
LEMMA RescanForgets ==
    ASSUME IInv, Rescan
    PROVE  Run!Rescan
<1>1. /\ complete' = [i \in Item |-> FALSE] /\ list' = {}
      /\ phase = "idle" /\ phase' = "idle"
  BY DEF Rescan, control
<1>2. Todo' = {} /\ Ended' = {} /\ At = "rest" /\ At' = "rest"
  BY <1>1, AtRestOutside DEF Todo, Ended
<1> QED
  BY <1>2 DEF Run!Rescan

\* Whatever else the user does is no business of the run.
LEMMA QuietStepsStutter ==
    ASSUME \/ \E v \in Views : UpdateFileVisibilities(v)
           \/ \E c \in ItemCommands, i \in 0..N : Request(c, i)
           \/ \E c \in Command \ ItemCommands : Request(c, 0)
           \/ \E i \in Item : DoubleClick(i)
           \/ EditDocument \/ CancelCommand \/ RefuseAfterError
           \/ DeclineMerge \/ RefuseOpen \/ OpenOther
    PROVE  UNCHANGED Run!vars
<1>1. UNCHANGED <<complete, list, cur>>
  BY DEF UpdateFileVisibilities, Request, DoubleClick, EditDocument, CancelCommand,
         RefuseAfterError, DeclineMerge, RefuseOpen, OpenOther, items, cursor
<1>2. /\ phase \in {"idle", "save", "check", "command"}
      /\ phase' = phase \/ phase' \in {"idle", "save"}
  BY DEF UpdateFileVisibilities, Request, DoubleClick, EditDocument, CancelCommand,
         RefuseAfterError, DeclineMerge, RefuseOpen, OpenOther, control
<1> QED
  BY <1>1, <1>2, AtRestOutside, RunStutters

\* Closing may save first, and ends at rest.
LEMMA ClosingIsSaving ==
    ASSUME IInv, QueryClose
    PROVE  Run!EndCurrent \/ UNCHANGED Run!vars
<1>1. At = "rest" /\ At' = "rest"
  BY AtRestOutside DEF QueryClose
<1>2. CASE MergeResultSaved(doc.name)
  BY <1>1, <1>2, SavingIsNoOther
<1>3. CASE UNCHANGED <<op, complete, status, flags, cursor, history>>
  BY <1>1, <1>3, RunStutters DEF cursor
<1> QED
  BY <1>2, <1>3 DEF QueryClose

-----------------------------------------------------------------------------
(* The theorem. *)

\* The folder merge starts as a run with nothing to do and nothing ended.
LEMMA InitIsRunInit == Init => Run!Init
<1> SUFFICES ASSUME Init PROVE Run!Init
  OBVIOUS
<1>1. list = {} /\ complete = [i \in Item |-> FALSE] /\ phase = "idle"
  BY DEF Init
<1> QED
  BY <1>1 DEF Run!Init, Todo, Ended, At

\* Every step of the folder merge is a step of its run or leaves it alone.
LEMMA StepIsRunStep == IInv /\ [Next]_vars => [Run!Next]_(Run!vars)
<1> SUFFICES ASSUME IInv, [Next]_vars PROVE Run!Next \/ UNCHANGED Run!vars
  OBVIOUS
<1>1. CASE User
  <2>1. ASSUME NEW i \in Item, NEW o \in UserOps, SetMergeOperation(i, o) PROVE Run!Next
    <3>1. Assigned[i][o] \in [Item -> Seq(Operation)]
      BY OperationAssumption
    <3>2. Run!Reopen
      BY <2>1, <3>1, AssignReopens DEF SetMergeOperation, cursor, control
    <3> QED
      BY <3>2 DEF Run!Next
  <2>2. ASSUME NEW o \in DefaultOps, SetAllMergeOperations(o) PROVE Run!Next
    <3>1. AssignedAll[o] \in [Item -> Seq(Operation)]
      BY OperationAssumption
    <3>2. Run!Reopen
      BY <2>2, <3>1, AssignReopens DEF SetAllMergeOperations, cursor, control
    <3> QED
      BY <3>2 DEF Run!Next
  <2>3. CASE SaveDocument
    <3>1. At = "rest" /\ At' = "rest" /\ MergeResultSaved(doc.name)
      BY <2>3, AtRestOutside DEF SaveDocument, control
    <3> QED
      BY <3>1, SavingIsNoOther DEF Run!Next
  <2>4. CASE Rescan
    BY <2>4, RescanForgets DEF Run!Next
  <2>5. CASE QueryClose
    BY <2>5, ClosingIsSaving DEF Run!Next
  <2>6. ASSUME NEW name \in OutputNames, SaveDocumentAs(name) PROVE Run!Next \/ UNCHANGED Run!vars
    <3>1. At = "rest" /\ At' = "rest"
      BY <2>6, AtRestOutside DEF SaveDocumentAs, control
    <3>2. CASE MergeResultSaved(name)
      BY <3>1, <3>2, SavingIsNoOther DEF Run!Next
    <3>3. CASE UNCHANGED <<modified, op, complete, status, flags, cursor, history>>
      BY <3>1, <3>3, RunStutters DEF cursor
    <3> QED
      BY <2>6, <3>2, <3>3 DEF SaveDocumentAs
  <2> QED
    BY <1>1, <2>1, <2>2, <2>3, <2>4, <2>5, <2>6, QuietStepsStutter DEF User
<1>2. CASE Confirm
  <2>1. CASE SaveAndContinue
    <3>1. At = "rest" /\ At' = "rest" /\ MergeResultSaved(doc.name)
      BY <2>1, AtRestOutside DEF SaveAndContinue
    <3> QED
      BY <3>1, SavingIsNoOther DEF Run!Next
  <2>2. CASE CanContinue
    BY <2>2, CanContinueEnds DEF Run!Next
  <2> QED
    BY <1>2, <2>1, <2>2, QuietStepsStutter DEF Confirm
<1>3. CASE RunCommand
  BY <1>3, StartMergeBegins, ContinueMergeContinues, QuietStepsStutter DEF RunCommand, Run!Next
<1>4. CASE OpenCommand
  BY <1>4, MergeCurrentFileIsOne, QuietStepsStutter DEF OpenCommand, Run!Next
<1>5. CASE MergeStep
  BY <1>5, ExecuteExecutes, AdvanceLeaves DEF MergeStep, Run!Next
<1>6. CASE Closed \/ UNCHANGED vars
  BY <1>6 DEF Closed, vars, items, cursor, control, Run!vars, Todo, Ended, At
<1> QED
  BY <1>1, <1>2, <1>3, <1>4, <1>5, <1>6 DEF Next

\* The folder merge implements the run it promises: for every tree, every
\* operation and every order of commands, dialogs, errors and cancels, items are
\* executed in order and at most once, and folders end after their entries.
THEOREM ImplementsRun == Spec => RunIsKept
<1>1. Init => Run!Init
  BY InitIsRunInit
<1>2. IInv /\ [Next]_vars => [Run!Next]_(Run!vars)
  BY StepIsRunStep
<1>3. Spec => []IInv
  BY Invariance
<1> QED
  BY <1>1, <1>2, <1>3, PTL DEF Spec, RunIsKept, Run!Spec

-----------------------------------------------------------------------------
(* No file is left behind. *)

\* What the status of a file that is not complete can be: "Error" only while
\* the error waits for the user, since only a rescan clears both.
OpenStatus ==
    \A i \in Item : Leaf(i) /\ ~complete[i] =>
        status[i] \in {"None", "InProgress"} \/ (status[i] = "Error" /\ error)

PassInv == OpenStatus /\ NoFilePassedBy

\* What a step may do to file i: start it again, or, when it is the current
\* item, end it, open it by hand or let it fail; or nothing.
FileKept(i) == UNCHANGED <<complete[i], status[i]>>
FileAdvances(i) == \/ complete'[i]
                   \/ ~complete'[i] /\ status'[i] = "None"
                   \/ ~complete'[i] /\ status'[i] = "InProgress" /\ i = cur
                   \/ ~complete'[i] /\ status'[i] = "Error" /\ error' /\ i = cur

FilesAdvance == \A i \in Item : Leaf(i) => FileKept(i) \/ FileAdvances(i)

-----------------------------------------------------------------------------
(* The shape of the steps. *)

\* A step that stays where it is in the list, or drops the list.
LEMMA StandingStep ==
    ASSUME IInv, PassInv, FilesAdvance, error => error',
           list' = {} \/ UNCHANGED <<list, cur>>
    PROVE  PassInv'
<1>1. OpenStatus'
  <2> SUFFICES ASSUME NEW i \in Item, Leaf(i), ~complete'[i]
               PROVE  status'[i] \in {"None", "InProgress"} \/ (status'[i] = "Error" /\ error')
    BY DEF OpenStatus, Leaf
  <2> QED
    BY DEF PassInv, OpenStatus, FilesAdvance, FileKept, FileAdvances
<1>2. NoFilePassedBy'
  <2> SUFFICES ASSUME NEW j \in list', Leaf(j), j < cur', ~complete'[j]
               PROVE  status'[j] = "None"
    BY DEF NoFilePassedBy, Leaf
  <2>1. j \in list /\ j \in Item /\ j < cur /\ cur \in 0..N
    BY DEF IInv, TypeOK
  <2>2. j # cur
    BY <2>1 DEF Item
  <2> QED
    BY <2>1, <2>2 DEF PassInv, NoFilePassedBy, FilesAdvance, FileKept, FileAdvances
<1> QED
  BY <1>1, <1>2 DEF PassInv

\* A step that changes no item and begins a list at its first member.
LEMMA BeginningStep ==
    ASSUME PassInv, UNCHANGED <<complete, status, error>>,
           \A j \in list' : ~(j < cur')
    PROVE  PassInv'
BY DEF PassInv, OpenStatus, NoFilePassedBy

\* The steps that change neither an item nor the list.
LEMMA QuietPassStep ==
    ASSUME IInv, PassInv, UNCHANGED <<complete, status, list, cur>>, error => error'
    PROVE  PassInv'
BY StandingStep DEF FilesAdvance, FileKept

-----------------------------------------------------------------------------
(* The actions that change an item or the list. *)

\* Changing operations only starts files again.
LEMMA AssignPasses ==
    ASSUME IInv, PassInv, NEW seqs \in [Item -> Seq(Operation)], Assign(seqs),
           UNCHANGED <<error, list, cur>>
    PROVE  PassInv'
<1>1. FilesAdvance
  BY AssignRestarts DEF IInv, FilesAdvance, FileKept, FileAdvances
<1> QED
  BY <1>1, StandingStep

\* Ending the current item completes it and touches no other.
LEMMA EndCurrentPasses ==
    ASSUME IInv, PassInv, cur # 0, NEW s \in Status, EndCurrent(s), UNCHANGED error
    PROVE  PassInv'
<1>1. /\ complete'[cur]
      /\ \A i \in Item \ {cur} : complete'[i] = complete[i] /\ status'[i] = status[i]
      /\ list' = {} \/ UNCHANGED <<list, cur>>
  BY EndCurrentEnds DEF IInv
<1>2. FilesAdvance
  BY <1>1 DEF FilesAdvance, FileKept, FileAdvances
<1> QED
  BY <1>1, <1>2, StandingStep

\* mergeResultSaved() ends the current item, or lets it fail and says so.
LEMMA SavingPasses ==
    ASSUME IInv, PassInv, NEW STATE name, MergeResultSaved(name)
    PROVE  PassInv'
<1>1. CASE UNCHANGED <<op, complete, status, flags, cursor, asked>>
  BY <1>1, QuietPassStep DEF flags, cursor
<1>2. CASE cur # 0 /\ EndCurrent("Done") /\ UNCHANGED <<op, sim, error>>
  BY <1>2, EndCurrentPasses DEF Status
<1>3. CASE /\ cur # 0 /\ error' = TRUE
           /\ status' = [status EXCEPT ![cur] = "Error"]
           /\ UNCHANGED <<complete, real, sim, cursor, asked>>
  <2>1. cur \in Item /\ status \in [Item -> Status] /\ complete \in [Item -> BOOLEAN]
    BY <1>3 DEF IInv, TypeOK, CursorInList
  <2>2. UNCHANGED <<complete, list, cur>>
    BY <1>3 DEF cursor
  <2>3. FilesAdvance
    BY <1>3, <2>1, <2>2 DEF FilesAdvance, FileKept, FileAdvances
  <2> QED
    BY <1>3, <2>2, <2>3, StandingStep
<1> QED
  BY <1>1, <1>2, <1>3 DEF MergeResultSaved

\* canContinue() ends the current item when nobody saved it.
LEMMA CanContinuePasses ==
    ASSUME IInv, PassInv, CanContinue
    PROVE  PassInv'
<1>1. EndUnsavedItem /\ UNCHANGED error
  BY DEF CanContinue
<1>2. CASE cur # 0 /\ ~complete[cur]
  BY <1>1, <1>2, EndCurrentPasses DEF EndUnsavedItem, Status
<1>3. CASE ~(cur # 0 /\ ~complete[cur])
  BY <1>1, <1>3, QuietPassStep DEF EndUnsavedItem, cursor
<1> QED
  BY <1>2, <1>3

\* A rescan leaves fresh items and no list.
LEMMA RescanPasses ==
    ASSUME Rescan
    PROVE  PassInv'
BY DEF Rescan, PassInv, OpenStatus, NoFilePassedBy

\* A merge begins with the first item of its list.
LEMMA StartMergePasses ==
    ASSUME IInv, PassInv, NEW answer \in {"real", "simulation"}, StartMerge(answer)
    PROVE  PassInv'
<1>1. UNCHANGED <<complete, status, error>>
  BY DEF StartMerge, items
<1>2. CASE UNCHANGED cursor
  BY <1>1, <1>2, QuietPassStep DEF cursor
<1>3. CASE FirstRow # 0 /\ list' = ItemsToRun(FirstRow) /\ cur' = First(ItemsToRun(FirstRow))
  <2>1. ItemsToRun(FirstRow) \subseteq Item
    BY <1>3, ItemsToRunAreOpen
  <2>2. \A j \in list' : cur' <= j /\ j \in Item /\ cur' \in Item
    BY <1>3, <2>1, FirstSmallest
  <2>3. \A j \in list' : ~(j < cur')
    BY <2>2 DEF Item
  <2> QED
    BY <1>1, <2>3, BeginningStep
<1> QED
  BY <1>2, <1>3 DEF StartMerge

\* The file merged alone is all of the list.
LEMMA MergeCurrentFilePasses ==
    ASSUME IInv, PassInv, MergeCurrentFile
    PROVE  PassInv'
<1>1. /\ list' = {req.item} /\ cur' = req.item /\ req.item \in Item
      /\ UNCHANGED <<complete, error>>
      /\ status' = [status EXCEPT ![req.item] = "InProgress"] \/ UNCHANGED status
  BY KindAssumption DEF MergeCurrentFile, flags
<1>2. \A i \in Item : status'[i] = status[i] \/ status'[i] = "InProgress"
  BY <1>1 DEF IInv, TypeOK
<1>3. OpenStatus'
  BY <1>1, <1>2 DEF PassInv, OpenStatus, Leaf
<1>4. NoFilePassedBy'
  BY <1>1 DEF NoFilePassedBy, Item
<1> QED
  BY <1>3, <1>4 DEF PassInv

\* Running an item marks no file but the current one, and the loop is not
\* entered while an error waits.
LEMMA ExecutePasses ==
    ASSUME IInv, PassInv, ExecuteItem \/ ExecuteFails \/ ExecuteManually
    PROVE  PassInv'
<1>1. /\ cur \in Item /\ ~error
      /\ status \in [Item -> Status] /\ complete \in [Item -> BOOLEAN]
  BY CursorOnItem DEF IInv, TypeOK, NothingRunsAfterError, ExecuteItem, ExecuteFails,
                      ExecuteManually
<1>2. UNCHANGED <<complete, list, cur>>
  BY DEF ExecuteItem, ExecuteFails, ExecuteManually, items, cursor
<1>3. \/ UNCHANGED status
      \/ status' = [status EXCEPT ![cur] = "InProgress"]
      \/ status' = [status EXCEPT ![cur] = "Error"] /\ error' = TRUE
  BY DEF ExecuteItem, ExecuteFails, ExecuteManually, items
<1>4. FilesAdvance
  BY <1>1, <1>2, <1>3 DEF FilesAdvance, FileKept, FileAdvances
<1> QED
  BY <1>1, <1>2, <1>4, StandingStep

\* The loop leaves a file complete, or without a status when it simulates: it
\* did not fail, or the loop would have stopped, and is not merged by hand.
LEMMA AdvanceItemPasses ==
    ASSUME IInv, PassInv, AdvanceItem
    PROVE  PassInv'
<1> DEFINE done == [complete EXCEPT ![cur] = @ \/ Leaf(cur)]
           checked == NextInList = 0 \/ Parent(NextInList) # Parent(cur)
           parents == IF checked THEN FinishedAncestors(cur, done) ELSE {}
<1>1. /\ cur \in Item /\ cur \in list /\ phase = "advance" /\ ~error
      /\ list \subseteq Item /\ status \in [Item -> Status] /\ complete \in [Item -> BOOLEAN]
  BY CursorOnItem DEF IInv, TypeOK, NothingRunsAfterError, AdvanceItem
<1>2. \A i \in Item : Leaf(i) => i \notin parents
  BY <1>1, FinishedAncestorsAbove
<1>3. IF sim THEN UNCHANGED <<complete, status>>
      ELSE /\ complete' = [i \in Item |-> done[i] \/ i \in parents]
           /\ status' = [i \in Item |->
                  IF i \in parents THEN "Done"
                  ELSE IF i # cur THEN status[i]
                  ELSE IF ~Leaf(i) THEN "InProgress"
                  ELSE IF complete[i] THEN status[i] ELSE "Done"]
  BY DEF AdvanceItem
<1>4. UNCHANGED error
  BY DEF AdvanceItem
<1>5. \/ NextInList # 0 /\ cur' = NextInList /\ list' = list
      \/ list' = {}
  BY DEF AdvanceItem
<1> HIDE DEF parents
<1>6. \A i \in Item : Leaf(i) /\ i # cur => FileKept(i)
  <2> SUFFICES ASSUME NEW i \in Item, Leaf(i), i # cur PROVE FileKept(i)
    OBVIOUS
  <2>1. CASE sim
    BY <1>3, <2>1 DEF FileKept
  <2>2. CASE ~sim
    <3>1. status'[i] = status[i]
      BY <1>2, <1>3, <2>2
    <3>2. complete'[i] = (done[i] \/ i \in parents)
      BY <1>3, <2>2
    <3>3. done[i] = complete[i]
      BY Zenon, <1>1
    <3>4. complete[i] \in BOOLEAN
      BY <1>1
    <3>5. complete'[i] = complete[i]
      BY Zenon, <1>2, <3>2, <3>3, <3>4
    <3> QED
      BY <3>1, <3>5 DEF FileKept
  <2> QED
    BY <2>1, <2>2
<1>7. Leaf(cur) /\ ~complete'[cur] => status'[cur] = "None" /\ status[cur] = "None"
  <2> SUFFICES ASSUME Leaf(cur), ~complete'[cur]
               PROVE  status'[cur] = "None" /\ status[cur] = "None"
    OBVIOUS
  <2>1. sim
    BY <1>1, <1>3
  <2>2. UNCHANGED <<complete, status>>
    BY <1>3, <2>1
  <2>3. status[cur] # "InProgress"
    BY <1>1, <2>2 DEF IInv, LoopInv
  <2> QED
    BY <1>1, <2>2, <2>3 DEF PassInv, OpenStatus
<1>8. FilesAdvance
  BY <1>6, <1>7 DEF FilesAdvance, FileAdvances
<1>9. OpenStatus'
  BY <1>4, <1>8 DEF PassInv, OpenStatus, FilesAdvance, FileKept, FileAdvances, Leaf
<1>10. NoFilePassedBy'
  <2> SUFFICES ASSUME NEW j \in list', Leaf(j), j < cur', ~complete'[j]
               PROVE  status'[j] = "None"
    BY DEF NoFilePassedBy, Leaf
  <2>1. NextInList # 0 /\ cur' = NextInList /\ j \in list /\ j \in Item
    BY <1>1, <1>5
  <2>2. ~(j > cur)
    <3>1. list \subseteq Item /\ cur \in 0..N
      BY <1>1 DEF Item
    <3>2. j > cur => cur' <= j
      BY <2>1, <3>1, NextInListBehind
    <3>3. cur' \in Item
      BY <1>1, <2>1, <3>1, NextInListBehind
    <3> QED
      BY <2>1, <3>2, <3>3 DEF Item
  <2>3. CASE j = cur
    BY <1>7, <2>3
  <2>4. CASE j < cur
    <3>1. j # cur
      BY <1>1, <2>1, <2>4 DEF Item
    <3> QED
      BY <1>6, <2>1, <2>4, <3>1 DEF PassInv, NoFilePassedBy, FileKept
  <2> QED
    BY <1>1, <2>1, <2>2, <2>3, <2>4 DEF Item
<1> QED
  BY <1>9, <1>10 DEF PassInv

-----------------------------------------------------------------------------
(* Every step keeps the invariant. *)

\* No step brings a file behind the cursor back into the making.
LEMMA PassInvStep == IInv /\ PassInv /\ [Next]_vars => PassInv'
<1> SUFFICES ASSUME IInv, PassInv, [Next]_vars PROVE PassInv'
  OBVIOUS
<1> USE DEF items, flags, cursor
<1>1. CASE User
  <2>1. ASSUME NEW i \in Item, NEW o \in UserOps, SetMergeOperation(i, o) PROVE PassInv'
    <3>1. Assigned[i][o] \in [Item -> Seq(Operation)]
      BY OperationAssumption
    <3> QED
      BY <2>1, <3>1, AssignPasses DEF SetMergeOperation
  <2>2. ASSUME NEW o \in DefaultOps, SetAllMergeOperations(o) PROVE PassInv'
    <3>1. AssignedAll[o] \in [Item -> Seq(Operation)]
      BY OperationAssumption
    <3> QED
      BY <2>2, <3>1, AssignPasses DEF SetAllMergeOperations
  <2>3. CASE \/ \E v \in Views : UpdateFileVisibilities(v)
             \/ \E c \in ItemCommands, i \in 0..N : Request(c, i)
             \/ \E c \in Command \ ItemCommands : Request(c, 0)
             \/ \E i \in Item : DoubleClick(i)
             \/ EditDocument
    BY <2>3, QuietPassStep DEF UpdateFileVisibilities, Request, DoubleClick, EditDocument
  <2>4. CASE SaveDocument
    BY <2>4, SavingPasses DEF SaveDocument
  <2>5. CASE Rescan
    BY <2>5, RescanPasses
  <2>6. CASE QueryClose
    BY <2>6, SavingPasses, QuietPassStep DEF QueryClose
  <2>7. CASE \E name \in OutputNames : SaveDocumentAs(name)
    <3>1. PICK name \in OutputNames : SaveDocumentAs(name)
      BY <2>7
    <3>2. CASE MergeResultSaved(name)
      BY <3>2, SavingPasses
    <3>3. CASE UNCHANGED <<modified, op, complete, status, flags, cursor, history>>
      BY <3>3, QuietPassStep
    <3> QED
      BY <3>1, <3>2, <3>3 DEF SaveDocumentAs
  <2> QED
    BY <1>1, <2>1, <2>2, <2>3, <2>4, <2>5, <2>6, <2>7 DEF User
<1>2. CASE Confirm
  <2>1. CASE SaveAndContinue
    BY <2>1, SavingPasses DEF SaveAndContinue
  <2>2. CASE CancelCommand \/ RefuseAfterError
    BY <2>2, QuietPassStep DEF CancelCommand, RefuseAfterError
  <2> QED
    BY <1>2, <2>1, <2>2, CanContinuePasses DEF Confirm
<1>3. CASE RunCommand
  BY <1>3, StartMergePasses, QuietPassStep DEF RunCommand, DeclineMerge, ContinueMerge
<1>4. CASE OpenCommand
  BY <1>4, MergeCurrentFilePasses, QuietPassStep DEF OpenCommand, RefuseOpen, OpenOther
<1>5. CASE MergeStep
  BY <1>5, ExecutePasses, AdvanceItemPasses DEF MergeStep
<1>6. CASE Closed \/ UNCHANGED vars
  BY <1>6, QuietPassStep DEF Closed, vars
<1> QED
  BY <1>1, <1>2, <1>3, <1>4, <1>5, <1>6 DEF Next

\* No file is lost on the way through the list: what the cursor of
\* mergeContinue() has gone past is complete or shows no status.
THEOREM NoFileIsLost == Spec => []NoFilePassedBy
<1>1. Init => PassInv
  BY DEF Init, PassInv, OpenStatus, NoFilePassedBy
<1>2. IInv /\ PassInv /\ [Next]_vars => PassInv'
  BY PassInvStep
<1>3. PassInv => NoFilePassedBy
  BY DEF PassInv
<1> QED
  BY <1>1, <1>2, <1>3, Invariance, PTL DEF Spec
=============================================================================
