----------------------------- MODULE MCFolders -----------------------------
(* Two folders hold a folder with two entries: every combination of where    *)
(* the entries exist and which of two contents they have, of which side is a *)
(* folder at all, and of dates for the first entry.                          *)
(*                                                                           *)
(* Three folders hold a folder with a file and a folder that has another     *)
(* file: every way the inner folder can be there, missing or a file on each  *)
(* side, every combination of three contents of the file in it, and a file   *)
(* beside it that is unchanged, changed on one side or new; the same with    *)
(* the inner folder empty, or a folder on one side and files on the others.  *)
EXTENDS FolderScan, TLC

MCParent == <<0, 1, 1, 3>>

MCWindows == [threeWay : {FALSE}, sync : {TRUE}, copyNewer : BOOLEAN, dest : {"B"}]
             \cup [threeWay : {FALSE}, sync : {FALSE}, copyNewer : {TRUE}, dest : {"A", "other"}]
             \cup [threeWay : {TRUE}, sync : {FALSE}, copyNewer : {TRUE}, dest : {"C", "other"}]

Entry(c, d) == [content |-> [A |-> c[1], B |-> c[2], C |-> c[3]], date |-> [A |-> d[1], B |-> d[2], C |-> d[3]]]
Undated(c) == Entry(c, <<0, 0, 0>>)
Two(a, b) == <<a, b, "none">>
Triples(S) == S \X S \X S
File == {"none", "x", "y"}

TwoFolders ==
    {<<Undated(Two(f[1], f[2])), Entry(Two(g[1], g[2]), d), Undated(h)>> :
        f \in {"none", "x", "dir"} \X {"none", "dir"}, g \in File \X File,
        h \in {Two("x", "x"), Two("x", "y"), Two("none", "x")}, d \in {<<0, 0, 0>>, <<0, 1, 0>>}}

\* Different files beside a folder.
OneFolder == {<<"x", "y", "dir">>, <<"x", "dir", "y">>, <<"dir", "x", "y">>}

ThreeFolders ==
    {<<Undated(<<"dir", "dir", "dir">>), Undated(h), Undated(f), Entry(g, d)>> :
        f \in Triples({"none", "x", "dir"}) \cup OneFolder, g \in Triples(File) \cup {<<"x", "y", "z">>},
        h \in {<<"x", "x", "x">>, <<"x", "y", "x">>, <<"none", "x", "y">>},
        d \in {<<1, 1, 1>>, <<2, 0, 1>>}}

\* The trees a scan can find: entries are there, and only in folders.
MCTrees ==
    {t \in TwoFolders \cup ThreeFolders \cup {SubSeq(t, 1, 3) : t \in ThreeFolders} :
        /\ \A i \in DOMAIN t : Existing(t[i]) # {}
        /\ \A i \in 2..Len(t) : \A s \in Sides : ExistsIn(t[i], s) => IsDir(t[MCParent[i]], s)}

MCMaxSteps == FALSE :> 2 @@ TRUE :> 1

MCShows == {ShowOptions, ShowOptions \ {"Different"}}
=============================================================================
