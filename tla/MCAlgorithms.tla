---------------------------- MODULE MCAlgorithms ----------------------------
(* The algorithms, run on every small input: SourceData reads a file and     *)
(* after it another one, runDiff() compares two sections of lines,           *)
(* calcDiff() and optimize() two lines, slotMergeHistory() merges a log, the *)
(* folder window lists two folders, and a text is searched in all windows.   *)
EXTENDS GnuDiff, TLC

N == ("1" :> 1) @@ ("2" :> 2)

T == INSTANCE TextLines
D == INSTANCE FindText
L == INSTANCE LineDiff WITH MaxSearchRange <- 3
H == INSTANCE HistoryMerge WITH Number <- N
F == INSTANCE FolderList WITH
         Order <- <<".cvsignore", ".gitignore", ".h", "A", "a", "b", "bc", "c", "d">>,
         Begins <- {<<"b", "bc">>}, Hidden <- {".cvsignore", ".gitignore", ".h"},
         LowerCase <- [n \in {".cvsignore", ".gitignore", ".h", "A", "a", "b", "bc", "c", "d"} |-> IF n = "A" THEN "a" ELSE n]

VARIABLES in, out
vars == <<in, out>>

Seqs(S, n) == UNION {[1..m -> S] : m \in 0..n}

-----------------------------------------------------------------------------
(* Files.                                                                    *)

Tokens == {<<"/", "*", " ">>, <<"*", "/", " ">>, <<"/", "/", " ">>, <<"a">>, <<"\"">>, <<T!LF>>}
Ends == {<<"a">>, <<T!LF>>, <<T!CR>>, <<T!Null>>}

Texts == {FlattenSeq(s) : s \in Seqs(Tokens, 4) \cup Seqs(Ends, 5)}

NoHint == [bom |-> "", xml |-> FALSE, tag |-> "", metas |-> <<>>, utf8 |-> FALSE]
Heads == [bom : {"", "UTF-8", "UTF-16"}, xml : BOOLEAN, tag : {"", "Latin1"},
          metas : {<<>>, <<"", "KOI8-R">>}, utf8 : BOOLEAN]

File(text) == [kind |-> "normal", head |-> NoHint, text |-> text, ppOut |-> text, lmppOut |-> text]
Plain == [pp |-> "", lmpp |-> "", ignoreComments |-> FALSE, ignoreCase |-> FALSE,
          autoDetect |-> TRUE, encoding |-> "System"]

OddFiles == [kind : {"normal", "none", "special", "unreadable", "unnamed"}, head : {NoHint}, text : {<<>>, <<"a", T!LF>>},
             ppOut : {T!Failed, <<"b">>}, lmppOut : {T!Failed, <<"c", T!LF, "c">>}]
OddOptions == [pp : {"", "p"}, lmpp : {"", "q"}, ignoreComments : BOOLEAN, ignoreCase : BOOLEAN,
               autoDetect : {TRUE}, encoding : {"System"}]

Nexts == {File(<<"a", T!LF>>), [File(<<>>) EXCEPT !.kind = "none"], [File(<<>>) EXCEPT !.kind = "unnamed"]}

ReadInputs ==
    [kind : {"read"}, f : {File(t) : t \in Texts}, next : {File(<<"a", T!LF>>)},
     o : {Plain, [Plain EXCEPT !.ignoreComments = TRUE]}]
        \cup [kind : {"read"}, f : OddFiles, next : Nexts,
              o : OddOptions]
        \cup [kind : {"read"}, f : {[File(<<"a">>) EXCEPT !.head = h] : h \in Heads}, next : {File(<<>>)},
              o : {Plain, [Plain EXCEPT !.autoDetect = FALSE]}]

-----------------------------------------------------------------------------
(* Sections of lines, pairs of lines and logs.                               *)

Lines == {<<>>, <<"a">>, <<"b">>, <<" ", "a">>}
Longer == {<<<<"p">>, <<"q">>, <<"r">>, <<"a">>, <<"s">>, <<"t">>, <<"u">>>>,
           <<<<"a">>, <<"v">>, <<"a">>>>, <<<<"a">>, <<"q">>, <<"a">>, <<"a">>, <<"t">>, <<"v">>, <<"a">>>>}
Afters == {<<NL, NL>>, <<"end", "end">>, <<NL, "end">>}

CompareInputs ==
    [kind : {"lines"}, t : Seqs(Lines, 3), u : Seqs(Lines, 3), after : Afters, tryHard : BOOLEAN, numbers : {FALSE}]
        \cup [kind : {"lines"}, t : Longer, u : Longer, after : Afters, tryHard : BOOLEAN, numbers : {FALSE}]
        \cup [kind : {"lines"}, t : Seqs({<<"a", "1">>, <<"a">>}, 2), u : Seqs({<<"a", "2">>, <<"b">>}, 2),
              after : Afters, tryHard : BOOLEAN, numbers : BOOLEAN]

CharacterInputs == [kind : {"chars"}, t : Seqs({"a", "b", "c"}, 4), u : Seqs({"a", "b", "c"}, 4)]

Log == <<"#", "$Log$">>
Words == {<<"#">>, <<"#", "1">>, <<"#", "2">>}
RowsOf(sides) == {[s \in d |-> w] : d \in SUBSET sides \ {{}}, w \in Words}
\* Rows that could be one are one in an alignment, and an input has an entry
\* only once.
TextOf(row) == CHOOSE w \in {row[s] : s \in DOMAIN row} : TRUE
IsLog(body) ==
    \A k, l \in DOMAIN body :
        (k < l /\ TextOf(body[k]) = TextOf(body[l])) =>
            IF Len(TextOf(body[k])) = 1 THEN l = k + 1 => DOMAIN body[k] \cap DOMAIN body[l] # {}
            ELSE l > k + 1 /\ DOMAIN body[k] \cap DOMAIN body[l] = {}

Bodies(three, n) == {b \in Seqs(RowsOf(IF three THEN {"A", "B", "C"} ELSE {"A", "B"}), n) : IsLog(b)}

\* A log of three rows has something behind it.
LogInputs ==
    UNION {[kind : {"log"}, three : {three}, by : {"blank", "regExp", "sorted"}, ends : {ends},
            body : Bodies(three, IF ends THEN 3 ELSE 2)] : three \in BOOLEAN, ends \in BOOLEAN}

-----------------------------------------------------------------------------
(* Folders: A has ignore files, in it or in its subfolders; B is the same    *)
(* without them, perhaps not local.                                          *)

Entry(kind) == [kind |-> kind, lines |-> <<>>]
Ignore(lines) == [kind |-> "file", lines |-> lines]

BareDisk(kind, more) ==
    (<<"a">> :> Entry("file")) @@ (<<"b">> :> Entry(kind)) @@ (<<"b", "c">> :> Entry("dir"))
        @@ [p \in {<<"b", "a">>, <<"b", "c", "a">>, <<"b", "c", ".h">>, <<"d">>} |-> Entry("file")] @@ more

Disks ==
    {[bare |-> BareDisk(kind, more), ignores |-> git @@ cvs] :
        kind \in {"dir", "link", "locked"},
        more \in {<<>>, <<"A">> :> Entry("file"), [p \in {<<"bc">>} |-> Entry("dir")] @@ (<<"bc", "a">> :> Entry("file"))},
        git \in {<<>>} \cup {Append(p, ".gitignore") :> Ignore(l) :
                              p \in {<<>>, <<"b">>}, l \in {<<{"a"}, {"d"}>>, <<{"c"}>>, <<{".gitignore", ".h"}>>}},
        cvs \in {<<>>} \cup {Append(p, ".cvsignore") :> Ignore(l) :
                              p \in {<<>>, <<"b", "c">>}, l \in {<<{"a"}>>, <<{"a"}, F!Erase, {"b"}>>}}}

AllNames == Range(<<".cvsignore", ".gitignore", ".h", "A", "a", "b", "bc", "c", "d">>)
Usual == [recursive |-> TRUE, findHidden |-> TRUE, followDirLinks |-> TRUE, caseSensitive |-> TRUE, useIgnore |-> TRUE,
          filePattern |-> {AllNames}, fileAntiPattern |-> {}, dirAntiPattern |-> {},
          defaults |-> <<{"CVS"}>>, home |-> <<>>, variable |-> <<>>]
ListOptions ==
    {Usual, [Usual EXCEPT !.recursive = FALSE], [Usual EXCEPT !.findHidden = FALSE], [Usual EXCEPT !.followDirLinks = FALSE],
     [Usual EXCEPT !.caseSensitive = FALSE], [Usual EXCEPT !.useIgnore = FALSE], [Usual EXCEPT !.filePattern = {{"a"}, {"d"}}],
     [Usual EXCEPT !.fileAntiPattern = {{"d"}, {".h"}}, !.dirAntiPattern = {{"c"}}], [Usual EXCEPT !.home = <<{"d"}>>],
     [Usual EXCEPT !.defaults = <<{"a"}, {"d"}>>, !.variable = <<F!Erase, {"d"}>>]}

FolderInputs ==
    [kind : {"folders"}, disk : Disks, o : ListOptions, remote : BOOLEAN, left : {99}]
        \cup [kind : {"folders"}, disk : {d \in Disks : Cardinality(DOMAIN d.ignores) = 2}, o : {Usual}, remote : BOOLEAN,
              left : {0, 1, 4, 9, 10, 11, 12, 16, 25, 40}]

Folders ==
    ("A" :> [local |-> TRUE, disk |-> in.disk.ignores @@ in.disk.bare])
        @@ ("B" :> [local |-> ~in.remote, disk |-> in.disk.bare])

-----------------------------------------------------------------------------
(* Searches: a text in two or three windows, wrapped at a width.             *)

Shown == Seqs(Seqs({"a", "b"}, 2) \cup {<<"a", "a", "a">>, <<"b", "a", "b", "a">>}, 2)

FindInputs ==
    [kind : {"find"}, s : {<<"a">>, <<"a", "a">>, <<"b", "a">>, <<"a", "b">>}, width : 1..3,
     texts : UNION {[d -> {<<>>, <<<<"a">>, <<"b", "a">>>>}] : d \in {{"A", "B", "C"}, {"B", "Output"}}}
                 \cup {("A" :> t) @@ ("Output" :> u) : t \in Shown, u \in {<<>>, <<<<>>, <<"a", "b">>>>, <<<<"a">>, <<"a", "a">>>>}}]

-----------------------------------------------------------------------------
None == [step |-> 0]

Init ==
    /\ in \in FolderInputs \/ in \in FindInputs \/ in \in CharacterInputs \/ in \in ReadInputs \/ in \in LogInputs \/ in \in CompareInputs
    /\ out = None

ReadFile ==
    /\ in.kind = "read"
    /\ out = None
    /\ out' = [step |-> 1, f |-> in.f] @@ T!ReadAndPreprocess(T!NewSource, in.f, in.o)
    /\ UNCHANGED in

\* The same SourceData reads its file again, with the options the first time
\* has left, or is given another one.
ReadAgain ==
    /\ in.kind = "read"
    /\ out.step = 1
    /\ out' = [step |-> 2, f |-> in.f] @@ T!ReadAndPreprocess(out.sd, in.f, out.o)
    /\ UNCHANGED in

ReadNext ==
    /\ in.kind = "read"
    /\ out.step = 1
    /\ out' = [step |-> 2, f |-> in.next] @@ T!ReadAndPreprocess(T!SetFilename(out.sd, in.next), in.next, out.o)
    /\ UNCHANGED in

CompareLines ==
    /\ in.kind = "lines"
    /\ out = None
    /\ out' = [step |-> 1, diffs |-> RunDiff(in.t, in.u, [after1 |-> in.after[1], after2 |-> in.after[2],
                                                          tryHard |-> in.tryHard, ignoreNumbers |-> in.numbers])]
    /\ UNCHANGED in

CompareCharacters ==
    /\ in.kind = "chars"
    /\ out = None
    /\ LET run == L!CalcDiff(in.t, in.u, 30)
       IN out' = [step |-> 1, end |-> run.end, diffs |-> L!Optimize(run.list)]
    /\ UNCHANGED in

\* Entries begin where the regular expression matches, not behind empty lines.
RegExp == in.by # "blank"

LogRows ==
    LET sides == H!Inputs(in.three)
    IN <<[s \in sides |-> Log]>> \o in.body \o (IF in.ends THEN <<[s \in sides |-> <<"x">>]>> ELSE <<>>)

MergeLog ==
    /\ in.kind = "log"
    /\ out = None
    /\ LET text(rows, blocks) ==
               FlattenSeq([i \in DOMAIN blocks |->
                   [k \in DOMAIN blocks[i].lines |-> H!GetString(rows, blocks[i].lines[k])]])
           shown(rows, built) ==
               SubSeq([i \in DOMAIN built |-> H!RemoveEmptySource(rows, built[i])], 1, Len(built))
           merged(rows, blocks) == H!MergeHistory(rows, blocks, in.three, RegExp, in.by = "sorted", -1)
           of(rows) == text(rows, merged(rows, shown(rows, H!BuildFromDiff3(rows, in.three))))
       IN out' = [step |-> 1, text |-> of(LogRows)]
    /\ UNCHANGED in

ListFolders ==
    /\ in.kind = "folders"
    /\ out = None
    /\ out' = [step |-> 1] @@ F!Table(Folders, in.o, in.left)
    /\ UNCHANGED in

\* Find, and then "Find Next" until the search is complete.
FindAll ==
    /\ in.kind = "find"
    /\ out = None
    /\ LET searches[n \in 0..40] ==
               LET before == searches[n - 1]
               IN IF n = 0 THEN <<D!EditFindNext(in.texts, in.s, D!Restart)>>
                  ELSE IF ~Last(before).found THEN before
                  ELSE Append(before, D!EditFindNext(in.texts, in.s, Last(before).at))
       IN out' = [step |-> 1, found |-> searches[40]]
    /\ UNCHANGED in

Next == ReadFile \/ ReadAgain \/ ReadNext \/ CompareLines \/ CompareCharacters \/ MergeLog \/ ListFolders \/ FindAll
Spec == Init /\ [][Next]_vars

-----------------------------------------------------------------------------
(* Properties.                                                               *)

Done(kind) == in.kind = kind /\ out.step > 0

\* The text of the file that was read, or of what the preprocessor made of it;
\* nothing of a file that is none, or no text.
ShownText(f, o) ==
    LET text == IF o.pp # "" THEN T!Output(f.ppOut) ELSE f.text
    IN IF f.kind # "normal" \/ Contains(text, T!Null) THEN <<>> ELSE text

Joined(lines, end) == FlattenSeq([i \in DOMAIN lines |-> IF i = 1 THEN lines[1].text ELSE <<end>> \o lines[i].text])

\* The lines that are shown are those of the file that was read last: put
\* together with its line end, of which it has one kind, they are its text,
\* and nothing is left of a file that was read before.  Checks readAndPreprocess()
\* and preprocess().
LinesAreTheFile ==
    Done("read") =>
        LET o == IF out.step = 1 THEN in.o ELSE out.o
            text == ShownText(out.f, o)
            lines == T!LineDataForDisplay(out.sd)
        IN \A end \in {T!LF, T!CR} :
               (~Contains(text, IF end = T!LF THEN T!CR ELSE T!LF) /\ (end = T!CR => Count(text, end) > 1))
                   => Joined(lines, end) = text

\* Where the comments of a text are, told character by character and without
\* the rest of the parser: what is neither code nor a string.
InComments(lines) ==
    LET char(s, c) ==
            CASE s.in = "string" -> IF c = "\"" THEN <<"code", "", FALSE>> ELSE <<"string", "", FALSE>>
              [] s.in = "code" /\ c = "\"" -> <<"string", "", FALSE>>
              [] s.in = "code" /\ s.last = "/" /\ c = "*" -> <<"multi", "", TRUE>>
              [] s.in = "code" /\ s.last = "/" /\ c = "/" -> <<"single", "", TRUE>>
              [] s.in = "multi" /\ s.last = "*" /\ c = "/" -> <<"code", "", TRUE>>
              [] OTHER -> <<s.in, c, s.in # "code">>
        next(s, c) ==
            LET r == char(s, c)
                marks == Append(s.marks, r[3])
                n == Len(marks)
            IN [in |-> r[1], last |-> r[2],
                marks |-> IF r[3] /\ s.in = "code" THEN [marks EXCEPT ![n - 1] = TRUE] ELSE marks]
        line(s, l) ==
            LET r == FoldLeft(next, [in |-> s.in, last |-> "", marks |-> <<>>], l.text)
            IN [in |-> IF r.in = "single" THEN "code" ELSE r.in, all |-> Append(s.all, r.marks)]
    IN FoldLeft(line, [in |-> "code", all |-> <<>>], lines).all

\* What is compared instead of the lines that are shown has as many lines,
\* each as long, and differs from them in characters of comments only, which
\* are blank.  Checks processChar() and removeComment().
OnlyCommentsAreBlanked ==
    (Done("read") /\ out.o.lmpp = "" /\ T!IsText(out.sd.normal)) =>
        LET shown == T!LineDataForDisplay(out.sd)
            compared == T!LineDataForDiff(out.sd)
            comments == InComments(shown)
        IN /\ Len(compared) = Len(shown)
           /\ \A i \in DOMAIN shown :
                  /\ Len(compared[i].text) = Len(shown[i].text)
                  /\ \A k \in DOMAIN shown[i].text :
                         compared[i].text[k] # shown[i].text[k] =>
                             compared[i].text[k] = " " /\ comments[i][k]

Before(diffs, n, len(_)) == FoldLeft(LAMBDA a, d : a + len(d), 0, SubSeq(diffs, 1, n))
Len1(d) == d.eq + d.d1
Len2(d) == d.eq + d.d2

Covers(diffs, n1, n2) ==
    Before(diffs, Len(diffs), Len1) = n1 /\ Before(diffs, Len(diffs), Len2) = n2

AreMatched(diffs, t, u, Same(_, _)) ==
    \A k \in DOMAIN diffs : \A e \in 1..diffs[k].eq :
        Same(t[Before(diffs, k - 1, Len1) + e], u[Before(diffs, k - 1, Len2) + e])

\* The most lines that can be matched in order.
MostMatches(t, u) ==
    LET most[i \in 0..Len(t), j \in 0..Len(u)] ==
            IF i = 0 \/ j = 0 THEN 0
            ELSE IF ~LinesDiffer(t[i], u[j], in.numbers) THEN 1 + most[i - 1, j - 1]
            ELSE Max({most[i - 1, j], most[i, j - 1]})
    IN most[Len(t), Len(u)]

\* An empty last line has no character in the buffer that is compared.
Buffered(lines) == IF lines # <<>> /\ Last(lines) = <<>> THEN Front(lines) ELSE lines

\* A comparison accounts for every line of both sections, the pairs it calls
\* equal are equal but for white space, and for numbers if asked, and as many
\* as possible when it tries hard.  Checks runDiff() and all of GNU diff: the
\* discarded lines, the common ends, the search and the shifted boundaries.
\* Of an empty last line nothing more is asked than that it is accounted for.
LinesAreMatched ==
    Done("lines") =>
        LET same(s, t) == ~LinesDiffer(s, t, in.numbers)
            t == Buffered(in.t)
            u == Buffered(in.u)
        IN /\ Covers(out.diffs, Len(in.t), Len(in.u))
           /\ AreMatched(out.diffs, in.t, in.u, same)
           /\ in.tryHard => FoldLeft(LAMBDA a, d : a + d.eq, 0, out.diffs) >= MostMatches(t, u)

\* The search for what differs inside two lines ends, accounts for every
\* character of both, and the characters it calls equal are.  Checks
\* calcDiff(), which takes parts back, and optimize().
CharactersAreMatched ==
    Done("chars") =>
        /\ out.end
        /\ Covers(out.diffs, Len(in.t), Len(in.u))
        /\ AreMatched(out.diffs, in.t, in.u, LAMBDA c, d : c = d)

\* An input has an entry that begins with the words w.
HasEntry(s, w) ==
    \E k \in DOMAIN in.body :
        /\ H!StringOf(in.body[k], s) = w
        /\ RegExp \/ k = 1 \/ H!Words(H!StringOf(in.body[k - 1], s)) = <<>>

\* The merged history has every entry that all inputs have, or that one of two
\* inputs has, or that one of three has added: none is lost wherever it stands
\* in the inputs and whether the entries are sorted, kept in place or written
\* anew.  Checks slotMergeHistory(), collectHistoryInformation() and choice().
HistoryEntriesAreKept ==
    Done("log") =>
        \A w \in {<<"#", n>> : n \in DOMAIN N} :
            (\/ \A s \in H!Inputs(in.three) : HasEntry(s, w)
             \/ /\ in.three => ~HasEntry("A", w)
                /\ \E s \in H!Inputs(in.three) : HasEntry(s, w))
                => \E i \in DOMAIN out.text : out.text[i] = w

\* The lines of an ignore file that is found, if its folder is entered.
IgnoreLines(side, p, name) ==
    LET q == Append(p, name)
    IN IF q \in DOMAIN side.disk /\ (side.local => in.o.findHidden) THEN side.disk[q].lines ELSE <<>>

\* What leaves an entry out: a CVS pattern that is not taken back afterwards,
\* a Git pattern of a folder it is in, the patterns of the options, hiding.
IsLeftOut(side, q) ==
    LET p == Front(q)
        name == Last(q)
        kind == side.disk[q].kind
        cvs == in.o.defaults \o in.o.home \o in.o.variable \o IgnoreLines(side, p, ".cvsignore")
    IN \/ side.local /\ ~in.o.findHidden /\ name \in {".h", ".cvsignore", ".gitignore"}
       \/ kind = "file" /\ name \in UNION in.o.fileAntiPattern \cup (AllNames \ UNION in.o.filePattern)
       \/ kind # "file" /\ name \in UNION in.o.dirAntiPattern
       \/ /\ in.o.useIgnore
          /\ \/ \E i \in DOMAIN cvs : name \in cvs[i] /\ \A j \in i..Len(cvs) : cvs[j] # F!Erase
             \/ \E n \in 0..Len(p) :
                    /\ side.local
                    /\ \E names \in Range(IgnoreLines(side, SubSeq(p, 1, n), ".gitignore")) : name \in names

\* An entry that is not left out, in folders that are entered.
IsListed(side, q) ==
    /\ q \in DOMAIN side.disk
    /\ \A n \in 1..Len(q) : ~IsLeftOut(side, SubSeq(q, 1, n))
    /\ \A n \in 1..(Len(q) - 1) :
           /\ in.o.recursive
           /\ side.disk[SubSeq(q, 1, n)].kind \in {"dir"} \cup (IF in.o.followDirLinks THEN {"link"} ELSE {})

\* A row shows for every side whether it has the entry, and only what a
\* pattern or an ignore file is about is left out, wherever in the folders the
\* file is.  No row comes before that of its folder, which prepareListView()
\* would make anew, and nothing is shown of lists that were cut short.  Checks
\* listDir(), filterList(), the ignore lists, buildMergeMap() and FileKey.
\* (Folders whose name begins with that of another one: see README.)
OnlyIgnoredIsMissing ==
    Done("folders") =>
        /\ \A i \in DOMAIN out.rows :
               Len(out.rows[i]) > 1 => \E j \in 1..(i - 1) : out.rows[j] = Front(out.rows[i])
        /\ in.left < 99 => out.rows = <<>> \/ Range(out.rows) = DOMAIN F!Table(Folders, in.o, 99).map
        /\ (in.left = 99 /\ <<"bc">> \notin DOMAIN in.disk.bare) =>
               \A s \in {"A", "B"} : \A q \in DOMAIN Folders[s].disk :
                   LET key == F!Key(q, in.o)
                       shown == Contains(out.rows, key) /\ s \in DOMAIN out.map[key]
                   IN /\ IsListed(Folders[s], q) => shown /\ F!Key(out.map[key][s], in.o) = key
                      /\ shown /\ in.o.caseSensitive => IsListed(Folders[s], q)

Pieces(text) ==
    LET n == Max({1, (Len(text) + in.width - 1) \div in.width})
    IN [i \in 1..n |-> Min({in.width, Len(text) - (i - 1) * in.width})]

\* "Find Next" visits every occurrence in the windows that are searched once, in
\* the order of the windows, lines and positions, the overlapping ones too, and
\* selects just the text, however word wrap breaks the line; then it says that
\* the search is complete, and begins anew.  Checks slotEditFindNext(), both
\* findString() and setSelection().
FindNextVisitsAll ==
    Done("find") =>
        LET n == Len(out.found) - 1
            visited == [i \in 1..n |-> <<out.found[i].window, out.found[i].line, out.found[i].pos>>]
            text(f) == in.texts[f[1]][f[2] + 1]
            occurs(f) == /\ f[2] < Len(in.texts[f[1]]) /\ f[3] + Len(in.s) <= Len(text(f))
                         /\ SubSeq(text(f), f[3] + 1, f[3] + Len(in.s)) = in.s
            rank(f) == 100 * D!Rank(f[1]) + 10 * f[2] + f[3]
        IN /\ ~out.found[n + 1].found
           /\ out.found[n + 1].at = D!Restart
           /\ Range(visited) = {f \in (DOMAIN in.texts) \X (0..1) \X (0..3) : occurs(f)}
           /\ \A i \in 2..n : rank(visited[i - 1]) < rank(visited[i])
           /\ \A i \in 1..n : D!Selected(text(visited[i]), Pieces(text(visited[i])), out.found[i], in.s) = in.s
=============================================================================
