--------------------------- MODULE MergeOperation ---------------------------
(* The operations a folder-merge item can carry (e_MergeOperation) and the  *)
(* classes DirectoryMergeWindow::executeMergeOperation sorts them into.     *)

NoOp == "eNoOperation"

SyncMergeOps  == {"eMergeToA", "eMergeToB", "eMergeToAB"}
DestMergeOps  == {"eMergeABToDest", "eMergeABCToDest"}
ManualOps     == SyncMergeOps \cup DestMergeOps

SyncCopyOps   == {"eCopyAToB", "eCopyBToA"}
DestCopyOps   == {"eCopyAToDest", "eCopyBToDest", "eCopyCToDest"}

SyncDeleteOps == {"eDeleteA", "eDeleteB", "eDeleteAB"}
DestDeleteOps == {"eDeleteFromDest"}

\* Operations carried out on the file system without the user.
FileSystemOps == SyncCopyOps \cup DestCopyOps \cup SyncDeleteOps \cup DestDeleteOps

\* "Error" enumerators: no operation, the user has to choose one.
ConflictOps   == {"eConflictingFileTypes", "eChangedAndDeleted", "eConflictingAges"}

SyncOps  == SyncMergeOps \cup SyncCopyOps \cup SyncDeleteOps
MergeOps == DestMergeOps \cup DestCopyOps \cup DestDeleteOps

Operation == {NoOp} \cup SyncOps \cup MergeOps \cup ConflictOps
=============================================================================
