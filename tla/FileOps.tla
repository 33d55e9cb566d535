------------------------------ MODULE FileOps ------------------------------
(* What a folder merge does to the file system: copyFLD(), deleteFLD(),     *)
(* mergeFLD(), renameFLD() and makeDir() of DirectoryMergeWindow, and saving *)
(* a merged file (createBackup(), writeFile()).                              *)
(*                                                                           *)
(* A path is a sequence of names, the first one the folder that is merged.   *)
(* The file system maps the paths that exist to "dir", to the content of a   *)
(* file or to a symbolic link.  Any call to the file system may fail, so an  *)
(* operation has a set of outcomes: records of the file system it leaves,    *)
(* the answer it returns, the calls that failed and the settings.            *)
(* Left out: writing through a link to a folder, remote files, C.            *)
EXTENDS Integers, Sequences, FiniteSets, Functions, SequencesExt, MergeOperation

CONSTANTS
    DestRoot,    \* gDirInfo->destDir()
    Items,       \* the items, paths within a folder
    DirLinks,    \* links to folders
    FileLinks,   \* links to files, and broken ones
    InitialFs,   \* the file systems a merge may find
    Settings,    \* [sim, backup, followDirs, followFiles]: records of Booleans
    Operations,  \* the operations that are run
    MaxFaults,   \* bound: calls that fail in one operation
    MaxCommands  \* bound: operations in one run

VARIABLES
    fs,       \* the file system
    editing,  \* item and operation of the file in the merge editor, or NoEdit
    last,     \* history: the last operation, and how it ended
    commands  \* bound: operations so far

vars == <<fs, editing, last, commands>>

Dir == "dir"
Bak(p) == Append(Front(p), Last(p) \o ".orig")

\* FileAccess::exists(), isDir() (which follows links) and isSymLink().
Exists(f, p)    == p \in DOMAIN f
IsSymLink(f, p) == Exists(f, p) /\ f[p] \in DirLinks \cup FileLinks
IsDir(f, p)     == Exists(f, p) /\ f[p] \in DirLinks \cup {Dir}
RealDir(f, p)   == Exists(f, p) /\ f[p] = Dir

Tree(f, p)     == {q \in DOMAIN f : IsPrefix(p, q)}
Entries(f, p)  == {q \in Tree(f, p) : Len(q) = Len(p) + 1}
InFolder(f, p) == Len(p) = 1 \/ RealDir(f, Front(p))

-----------------------------------------------------------------------------
(* Calls to the file system. *)

Failed(s) == [s EXCEPT !.ok = FALSE]

\* A call the file system refuses, or that succeeds unless it fails by itself.
Call(s, possible, new) ==
    IF ~possible THEN {Failed(s)}
    ELSE {[s EXCEPT !.fs = new]}
         \cup (IF s.faults < MaxFaults THEN {[Failed(s) EXCEPT !.faults = @ + 1]} ELSE {})

With(f, p, node) == [q \in DOMAIN f \cup {p} |-> IF q = p THEN node ELSE f[q]]

\* What p and everything in it is called after p was renamed to q.
Renamed(p, q, r) == IF IsPrefix(p, r) THEN q \o SubSeq(r, Len(p) + 1, Len(r)) ELSE r

CallRename(s, p, q) ==
    Call(s, Exists(s.fs, p) /\ ~Exists(s.fs, q) /\ InFolder(s.fs, q),
         [r \in {Renamed(p, q, x) : x \in DOMAIN s.fs} |-> s.fs[Renamed(q, p, r)]])
CallRemove(s, p) == Call(s, ~RealDir(s.fs, p), Restrict(s.fs, DOMAIN s.fs \ {p}))
CallRmDir(s, p)  == Call(s, Tree(s.fs, p) = {p}, Restrict(s.fs, DOMAIN s.fs \ {p}))
CallMkDir(s, p)  == Call(s, ~Exists(s.fs, p) /\ InFolder(s.fs, p), With(s.fs, p, Dir))
CallLink(s, p, q) == Call(s, ~Exists(s.fs, q) /\ InFolder(s.fs, q), With(s.fs, q, s.fs[p]))

\* KIO::file_copy with Overwrite: what a link points at is copied.
Content(node) == IF node \in FileLinks THEN "behind " \o node ELSE node
CallCopy(s, p, q) ==
    Call(s, ~RealDir(s.fs, q) /\ InFolder(s.fs, q), With(s.fs, q, Content(s.fs[p])))

-----------------------------------------------------------------------------
(* The operations.  Then(S, Op): go on from the outcomes that are no error.  *)

Then(S, Op(_)) == UNION {IF s.ok THEN Op(s) ELSE {s} : s \in S}

RECURSIVE DeleteFLD(_, _, _), DeleteAll(_, _)

\* Mutant: a backup is made of what a simulation would rename.
RenameFLDSimulated(s, p, q) ==
    Then(IF Exists(s.fs, q) THEN DeleteFLD(s, q, FALSE) ELSE {s},
         LAMBDA t : CallRename(t, p, q))

\* renameFLD(): the old backup goes without a backup of its own.
RenameFLD(s, p, q) ==
    Then(IF Exists(s.fs, q) THEN DeleteFLD(s, q, FALSE) ELSE {s},
         LAMBDA t : IF t.set.sim THEN {t} ELSE CallRename(t, p, q))

\* The loop over the entries of a folder stops at the first failure.
DeleteAll(s, entries) ==
    IF entries = {} THEN {s}
    ELSE UNION {Then(DeleteFLD(s, e, FALSE), LAMBDA t : DeleteAll(t, entries \ {e})) : e \in entries}

\* ... and its failure is forgotten: the folder stays, the answer is true.
DeleteFolder(s, p) ==
    LET listed == Call(s, TRUE, s.fs)
    IN Then(listed, LAMBDA t :
         UNION {IF u.ok THEN CallRmDir(u, p) ELSE {[u EXCEPT !.ok = TRUE]} :
                u \in DeleteAll(t, Entries(t.fs, p))})

DeleteFLD(s, p, backup) ==
    IF ~Exists(s.fs, p) THEN {s}
    ELSE IF backup THEN RenameFLD(s, p, Bak(p))
    ELSE IF s.set.sim THEN {s}
    ELSE IF RealDir(s.fs, p) THEN DeleteFolder(s, p)
    ELSE CallRemove(s, p)

RECURSIVE MakeDir(_, _)

\* makeDir(): a file in the way becomes a backup, whatever the settings.
MakeDir(s, p) ==
    IF p = <<>> \/ IsDir(s.fs, p) THEN {s}
    ELSE Then(Then(DeleteFLD(s, p, TRUE), LAMBDA t : MakeDir(t, Front(p))),
              LAMBDA u : IF u.set.sim THEN {u} ELSE CallMkDir(u, p))

CopiesLink(s, p) ==
    /\ IsSymLink(s.fs, p)
    /\ IF IsDir(s.fs, p) THEN ~s.set.followDirs ELSE ~s.set.followFiles

\* Both are folders, or both links to folders.
SameKind(s, p, q) ==
    IsDir(s.fs, p) /\ IsDir(s.fs, q) /\ (IsSymLink(s.fs, p) <=> IsSymLink(s.fs, q))

\* Mutant: what is in the way is deleted without a backup.
ClearWayForGood(s, p, q) ==
    IF Exists(s.fs, q) /\ ~SameKind(s, p, q) THEN DeleteFLD(s, q, FALSE) ELSE {s}

ClearWay(s, p, q) ==
    IF Exists(s.fs, q) /\ ~SameKind(s, p, q) THEN DeleteFLD(s, q, s.set.backup) ELSE {s}

\* copyFLD().  Whether the destination exists is known from before it was
\* deleted: FileAccess is a snapshot.
CopyFLD(s, p, q) ==
    IF p = q THEN {s}
    ELSE Then(ClearWay(s, p, q), LAMBDA t :
           IF CopiesLink(s, p) THEN IF t.set.sim THEN {t} ELSE CallLink(t, p, q)
           ELSE IF IsDir(s.fs, p) THEN IF Exists(s.fs, q) THEN {t} ELSE MakeDir(t, q)
           ELSE Then(MakeDir(t, Front(q)), LAMBDA u :
                  IF u.set.sim THEN {u} ELSE CallCopy(u, p, q)))

\* mergeFLD(): makes a folder, or the folder of the file that will be saved.
MergeFLD(s, p, q) == IF IsDir(s.fs, p) THEN MakeDir(s, q) ELSE MakeDir(s, Front(q))

In(root, i) == <<root>> \o i

\* executeMergeOperation(): where an operation writes ...
Destination(o, i) ==
    CASE o \in {"eMergeToAB", "eMergeToB", "eDeleteB", "eCopyAToB"} -> In("B", i)
      [] o \in {"eMergeToA", "eDeleteA", "eCopyBToA"} -> In("A", i)
      [] OTHER -> In(DestRoot, i)

Source(o, i) == IF o \in {"eCopyAToB", "eCopyAToDest"} THEN In("A", i) ELSE In("B", i)

\* The paths an operation is for.
Targets(o, i) == IF o \in {"eDeleteAB", "eMergeToAB"} THEN {In("A", i), In("B", i)}
                 ELSE {Destination(o, i)}

\* ... and what it does.
Outcomes(o, i, s) ==
    IF o \in SyncCopyOps \cup DestCopyOps THEN CopyFLD(s, Source(o, i), Destination(o, i))
    ELSE IF o = "eDeleteAB"
    THEN Then(DeleteFLD(s, In("A", i), s.set.backup),
              LAMBDA t : DeleteFLD(t, In("B", i), t.set.backup))
    ELSE IF o \in ManualOps THEN MergeFLD(s, In("A", i), Destination(o, i))
    ELSE DeleteFLD(s, Destination(o, i), s.set.backup)

-----------------------------------------------------------------------------
(* Saving a merged file. *)

CreateBackup(s, p) ==
    IF ~s.set.backup \/ ~Exists(s.fs, p) THEN {s}
    ELSE Then(IF Exists(s.fs, Bak(p)) THEN CallRemove(s, Bak(p)) ELSE {s},
              LAMBDA t : CallRename(t, p, Bak(p)))

\* writeFile(): opening the file empties it; the user may cancel, or the disk
\* be full, after a part was written.  A link is written through.
Written(f, p, content) == IF IsSymLink(f, p) THEN f ELSE With(f, p, content)
WriteFile(s, p) ==
    Then(Call(s, ~IsDir(s.fs, p) /\ InFolder(s.fs, p), Written(s.fs, p, "part")),
         LAMBDA t : Call(t, TRUE, Written(t.fs, p, "merged")))

\* Mutant: the merge to A and B is not copied to A.
SaveOutcomesInB(o, i, s) ==
    LET dest == Destination(o, i)
    IN Then(CreateBackup(s, dest), LAMBDA t : WriteFile(t, dest))

\* saveDocument(), and mergeResultSaved() for a merge to A and B.
SaveOutcomes(o, i, s) ==
    LET dest == Destination(o, i)
    IN Then(Then(CreateBackup(s, dest), LAMBDA t : WriteFile(t, dest)), LAMBDA u :
         IF o = "eMergeToAB" THEN CopyFLD(u, dest, In("A", i)) ELSE {u})

-----------------------------------------------------------------------------
NoEdit == [op |-> NoOp, item |-> <<>>]

Init ==
    /\ fs \in InitialFs
    /\ editing = NoEdit
    /\ last = [op |-> NoOp]
    /\ commands = 0

Start(set) == [fs |-> fs, ok |-> TRUE, faults |-> 0, set |-> set]

Record(o, i, save, s) ==
    /\ fs' = s.fs
    /\ last' = [op |-> o, item |-> i, save |-> save, ok |-> s.ok, faults |-> s.faults, set |-> s.set]
    /\ commands' = commands + 1

\* Operations the window offers for an item: copies of what exists, merges of
\* what is on both sides and of one kind.  Folders that are links are not
\* written into.
Offered(o, i) ==
    /\ \A t \in Targets(o, i) : ~(IsDir(fs, Front(t)) /\ IsSymLink(fs, Front(t)))
    /\ o \in SyncCopyOps \cup DestCopyOps => Exists(fs, Source(o, i))
    /\ o \in ManualOps =>
         /\ Exists(fs, In("A", i)) /\ Exists(fs, In("B", i))
         /\ IsDir(fs, In("A", i)) <=> IsDir(fs, In("B", i))

Execute(o, i, set) ==
    /\ commands < MaxCommands
    /\ Offered(o, i)
    /\ \E s \in Outcomes(o, i, Start(set)) :
         /\ Record(o, i, FALSE, s)
         /\ editing' = IF s.ok /\ o \in ManualOps /\ ~set.sim /\ ~IsDir(fs, In("A", i))
                       THEN [op |-> o, item |-> i] ELSE editing

Save(set) ==
    /\ commands < MaxCommands
    /\ editing # NoEdit /\ ~set.sim
    /\ \E s \in SaveOutcomes(editing.op, editing.item, Start(set)) :
         Record(editing.op, editing.item, TRUE, s)
    /\ UNCHANGED editing

Next == \/ \E o \in Operations, i \in Items, set \in Settings : Execute(o, i, set)
        \/ \E set \in Settings : Save(set)

Spec == Init /\ [][Next]_vars
-----------------------------------------------------------------------------
(* Properties, of the step that ends in "last". *)

\* With backups, nothing an operation replaces or deletes is lost, whatever
\* fails: a file is still there, in its place or in the backup next to it.
BackupsKeepContents ==
    [][last'.op # NoOp /\ last'.set.backup =>
        \A d \in Targets(last'.op, last'.item) : \A p \in Tree(fs, d) :
            fs[p] # Dir => \E q \in {p, Renamed(d, Bak(d), p)} : Exists(fs', q) /\ fs'[q] = fs[p]]_vars

\* An operation changes its destination and the backup of it; above it, only
\* what is no folder makes way for one.  A simulation changes nothing at all.
ChangesOnlyItsDestination ==
    [][LET mayChange(p) ==
             /\ ~last'.set.sim
             /\ \E d \in Targets(last'.op, last'.item) :
                  \/ IsPrefix(d, p) \/ IsPrefix(Bak(d), p)
                  \/ \E a \in Prefixes(d) \ {<<>>, <<d[1]>>} :
                       /\ ~RealDir(fs, a)
                       /\ p = a \/ IsPrefix(Bak(a), p)
       IN \A p \in DOMAIN fs \cup DOMAIN fs' :
            \/ Exists(fs, p) /\ Exists(fs', p) /\ fs[p] = fs'[p]
            \/ mayChange(p)]_vars

\* An answer "true" means that the operation did what its name says, whatever
\* failed on the way - except that a folder whose entries cannot be deleted is
\* taken for deleted, and that a folder which takes the place of something else
\* only removes what is in the way.
SuccessMeansDone ==
    [][LET o == last'.op
           i == last'.item
           d == Destination(o, i)
           src == Source(o, i)
           replaced == IsDir(fs, src) /\ Exists(fs, d)
       IN /\ last'.ok /\ ~last'.set.sim
          /\ last'.faults = 0 \/ \A t \in Targets(o, i) : ~RealDir(fs, t)
          =>
            CASE last'.save -> \A t \in Targets(o, i) :
                   IsSymLink(fs, d) \/ (Exists(fs', t) /\ fs'[t] = "merged")
              [] o \in SyncCopyOps \cup DestCopyOps /\ ~replaced /\ src # d ->
                   IF RealDir(fs, src) THEN RealDir(fs', d)
                   ELSE Exists(fs', d) /\ fs'[d] \in {fs[src], Content(fs[src]), Dir}
              [] o \in SyncDeleteOps \cup DestDeleteOps ->
                   \A t \in Targets(o, i) : ~Exists(fs', t)
              [] OTHER -> TRUE]_vars

=============================================================================
