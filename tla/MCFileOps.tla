----------------------------- MODULE MCFileOps -----------------------------
(* A folder or file "d" with an entry "f", in the folders A and B that are   *)
(* synchronised, or in A with a destination D of its own; every kind of      *)
(* thing at "d" on either side, with and without a backup from before.       *)
EXTENDS FileOps

\* What can be at "d" in one folder.
Place(root, x) == (<<root>> :> Dir) @@
    CASE x = "nothing" -> <<>>
      [] x = "empty"   -> In(root, <<"d">>) :> Dir
      [] x = "folder"  -> In(root, <<"d">>) :> Dir @@ In(root, <<"d", "f">>) :> root \o "f"
      [] x = "full"    -> In(root, <<"d">>) :> Dir @@ In(root, <<"d", "f">>) :> root \o "f"
                          @@ In(root, <<"d", "g">>) :> root \o "g"
                          @@ In(root, <<"d", "f.orig">>) :> "older"
      [] OTHER         -> In(root, <<"d">>) :> x

Backup(root, x) ==
    CASE x = "none"   -> <<>>
      [] x = "file"   -> In(root, <<"d.orig">>) :> "old"
      [] x = "folder" -> In(root, <<"d.orig">>) :> Dir @@ In(root, <<"d.orig", "f">>) :> "old"

Kinds == {"nothing", "empty", "folder", "full", "linkToFolder", "linkToFile"}

MCInitialFs ==
    {Place("A", a) @@ Place("B", b) @@ Backup("B", k) @@ Place("D", "nothing") :
        a \in Kinds \cup {"fileA"}, b \in Kinds \cup {"fileB"}, k \in {"none", "file", "folder"}}
    \cup {Place("A", a) @@ Place("B", "fileB") @@ Place("D", d) :
        a \in {"folder", "fileA"}, d \in Kinds \cup {"fileD"}}

MCItems == {<<"d">>, <<"d", "f">>}

Setting(sim, backup, follow) ==
    [sim |-> sim, backup |-> backup, followDirs |-> follow, followFiles |-> follow]

MCSettings == {Setting(FALSE, TRUE, FALSE), Setting(FALSE, FALSE, TRUE),
               Setting(TRUE, TRUE, FALSE), Setting(TRUE, FALSE, FALSE)}

MCOperations == {"eCopyAToB", "eCopyBToA", "eDeleteA", "eDeleteB", "eDeleteAB", "eMergeToB",
                 "eMergeToAB", "eCopyAToDest", "eDeleteFromDest", "eMergeABToDest"}
=============================================================================
