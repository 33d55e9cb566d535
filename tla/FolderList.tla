---------------------------- MODULE FolderList ----------------------------
(* Listing the folders before they are compared: which entries listDir()     *)
(* finds, which of them the patterns and the ignore files leave out, and how *)
(* the lists of the sides become the rows of one table.                      *)
(*                                                                           *)
(* A path is the sequence of names from the compared folder on.  A wildcard  *)
(* is the set of the names it matches.  A side is [local, disk]: disk[path]  *)
(* is [kind, lines], where lines are the wildcards in an ignore file; "link" *)
(* is a link to a folder, and the entries of "locked" cannot be read.        *)
EXTENDS Integers, SequencesExt

CONSTANTS
    Order,      \* the names, as they are sorted
    Begins,     \* the pairs <<m, n>> of names where n begins with m
    Hidden,     \* the names that begin with a dot
    LowerCase   \* the same name for names that differ in case only

CvsIgnore == ".cvsignore"
GitIgnore == ".gitignore"
Erase == {"!"}   \* the pattern that takes back those before it

IsDir(entry) == entry.kind \in {"dir", "link", "locked"}
IsFile(entry) == entry.kind = "file"
Sorted(S, before(_, _)) ==
    [i \in 1..Cardinality(S) |-> CHOOSE x \in S : Cardinality({y \in S : before(y, x)}) = i - 1]
Rank(n) == CHOOSE i \in DOMAIN Order : Order[i] = n

-----------------------------------------------------------------------------
(* The ignore lists.  A CVS pattern is for one folder, a Git pattern for all *)
(* whose path begins with that of the folder: s.git[folder].                 *)

AddEntry(names, pattern) == IF pattern = Erase THEN {} ELSE names \cup pattern

\* A file that is listed and can be read.
LinesOf(side, p, list, name) ==
    LET q == Append(p, name)
    IN IF Contains(list, q) /\ IsFile(side.disk[q]) THEN side.disk[q].lines ELSE <<>>

CvsEnterDir(side, p, list, o) ==
    FoldLeft(AddEntry, {}, o.defaults \o o.home \o o.variable \o LinesOf(side, p, list, CvsIgnore))

\* The file is opened by its name: nothing is read of one that is not local.
GitEnterDir(side, p, list, git) ==
    LET lines == IF side.local THEN LinesOf(side, p, list, GitIgnore) ELSE <<>>
    IN IF lines = <<>> THEN git ELSE (p :> UNION Range(lines)) @@ git

StartsWith(p, q) ==
    \/ q = <<>>
    \/ /\ Len(p) >= Len(q)
       /\ SubSeq(p, 1, Len(q) - 1) = Front(q)
       /\ p[Len(q)] = Last(q) \/ <<Last(q), p[Len(q)]>> \in Begins

GitMatches(git, p, name) == \E q \in DOMAIN git : StartsWith(p, q) /\ name \in git[q]

CvsMatches(cvs, name) == name \in cvs

\* CompositeIgnoreList::matches(); there are no lists unless they are asked for.
Ignored(p, name, o, cvs, git) == o.useIgnore /\ (CvsMatches(cvs, name) \/ GitMatches(git, p, name))

WildcardMultiMatch(wildcards, name) == \E w \in wildcards : name \in w

-----------------------------------------------------------------------------
(* listDir()                                                                 *)

\* The entries of a folder: sorted, folders first, unless they come from a
\* KIO job, which finds the hidden ones too.
EntryInfoList(side, p, o) ==
    LET all == {q \in DOMAIN side.disk : Len(q) = Len(p) + 1 /\ Front(q) = p}
        seen == {q \in all : side.local => o.findHidden \/ Last(q) \notin Hidden}
        first(q) == side.local /\ IsDir(side.disk[q])
        before(q, r) == IF first(q) # first(r) THEN first(q) ELSE Rank(Last(q)) < Rank(Last(r))
    IN IF p \in DOMAIN side.disk /\ side.disk[p].kind = "locked" THEN <<>> ELSE Sorted(seen, before)

FilterList(side, p, list, o, cvs, git) ==
    LET leftOut(q) ==
            LET name == Last(q)
            IN \/ /\ IsFile(side.disk[q])
                  /\ ~WildcardMultiMatch(o.filePattern, name) \/ WildcardMultiMatch(o.fileAntiPattern, name)
               \/ IsDir(side.disk[q]) /\ WildcardMultiMatch(o.dirAntiPattern, name)
               \/ Ignored(p, name, o, cvs, git)
    IN SelectSeq(list, LAMBDA q : ~leftOut(q))

\* Mutant: the ignore files are read of what is left.
FilterAndEnter(side, p, list, o, git) ==
    LET kept == FilterList(side, p, list, o, CvsEnterDir(side, p, <<>>, o), git)
        after == GitEnterDir(side, p, kept, git)
    IN [list |-> FilterList(side, p, kept, o, CvsEnterDir(side, p, kept, o), after), git |-> after]

\* A folder's ignore files are read before anything of it is left out.
EnterAndFilter(side, p, list, o, git) ==
    LET with(after) ==
            [list |-> FilterList(side, p, list, o, CvsEnterDir(side, p, list, o), after), git |-> after]
    IN with(GitEnterDir(side, p, list, git))

\* s is [git, left]: "left" more times wasCancelled() is false.  Whether a
\* subfolder could be listed is forgotten, and what was cancelled has succeeded.
RECURSIVE ListDir(_, _, _, _)
ListDir(side, p, o, s) ==
    LET followed(q) == IsDir(side.disk[q]) /\ (side.disk[q].kind # "link" \/ o.followDirLinks)
        and(t, r) == [list |-> t.list \o r.list, git |-> r.git, left |-> r.left]
        below(t, q) == and(t, ListDir(side, q, o, [git |-> t.git, left |-> t.left]))
        whole(all, n, own, subDirs) ==
            [list |-> own.list \o subDirs.list,
             ok |-> /\ p \in DOMAIN side.disk => side.disk[p].kind # "locked"
                    /\ side.local \/ n = Len(all),
             git |-> subDirs.git, left |-> subDirs.left]
        entered(all, n, own) ==
            whole(all, n, own, FoldLeft(below, [list |-> <<>>, git |-> own.git, left |-> s.left - 1 - n],
                                        IF o.recursive THEN SelectSeq(own.list, followed) ELSE <<>>))
        found(all, n) == entered(all, n, EnterAndFilter(side, p, SubSeq(all, 1, n), o, s.git))
        of(all) == found(all, Min({Len(all), s.left - 1}))
    IN IF s.left = 0 THEN [list |-> <<>>, ok |-> TRUE, git |-> s.git, left |-> 0]
       ELSE of(EntryInfoList(side, p, o))

\* DirectoryInfo::listDir(): every side has ignore lists of its own.
ListSide(side, o, left) == ListDir(side, <<>>, o, [git |-> <<>>, left |-> left])

-----------------------------------------------------------------------------
(* The table: a row for every key, with the entry of each side; of two of    *)
(* one side that differ in case only, the last one.                          *)

Key(p, o) == IF o.caseSensitive THEN p ELSE [i \in DOMAIN p |-> LowerCase[p[i]]]

BuildMergeMap(lists, o) ==
    LET keys == UNION {{Key(p, o) : p \in Range(lists[s])} : s \in DOMAIN lists}
        of(k, s) == SelectSeq(lists[s], LAMBDA p : Key(p, o) = k)
    IN [k \in keys |-> [s \in {t \in DOMAIN lists : of(k, t) # <<>>} |-> Last(of(k, s))]]

\* FileKey::operator<
KeyLess(k, l) ==
    LET n == Min({Len(k), Len(l)})
    IN \/ \E i \in 1..n : SubSeq(k, 1, i - 1) = SubSeq(l, 1, i - 1) /\ Rank(k[i]) < Rank(l[i])
       \/ SubSeq(k, 1, n) = SubSeq(l, 1, n) /\ Len(k) < Len(l)

\* init(): the sides are listed one after the other.
RECURSIVE ListSides(_, _, _, _)
ListSides(names, sides, o, left) ==
    IF names = <<>> THEN <<>>
    ELSE LET and(r) == (names[1] :> r) @@ ListSides(Tail(names), sides, o, r.left)
         IN and(ListSide(sides[names[1]], o, left))

\* The table, its rows in the order of their keys, and whether the user is
\* warned that folders cannot be read.  After a Cancel prepareListView()
\* leaves its loop at once.
Table(sides, o, left) ==
    LET shown(lists, map) ==
            [map |-> map,
             rows |-> IF \E s \in DOMAIN lists : lists[s].left = 0 THEN <<>> ELSE Sorted(DOMAIN map, KeyLess),
             warned |-> \E s \in DOMAIN lists : ~lists[s].ok]
        merged(lists) == shown(lists, BuildMergeMap([s \in DOMAIN lists |-> lists[s].list], o))
    IN merged(ListSides(SelectSeq(<<"A", "B", "C">>, LAMBDA s : s \in DOMAIN sides), sides, o, left))
=============================================================================
