------------------------------ MODULE TextLines ------------------------------
(* How SourceData turns a file into lines: FileData::preprocess(),           *)
(* readAndPreprocess() and the search for the encoding.                      *)
(*                                                                           *)
(* A file is the sequence of its decoded characters.  Null is one that no    *)
(* text has, Broken one that could not be decoded.                           *)
EXTENDS CommentParser, FiniteSets

CR == "\r"
Null == "null"
Broken == "?"

IsEnd(c) == c \in {LF, CR}

\* A FileData after reset(): "read" is m_pBuf, "size" is mDataSize.
NoData == [read |-> FALSE, size |-> 0, text |-> FALSE, style |-> "Undefined",
           eol |-> FALSE, incomplete |-> FALSE, lines |-> <<>>, count |-> 0]

IsText(d) == d.text \/ d.size = 0

-----------------------------------------------------------------------------
(* preprocess().                                                             *)

\* The style is that of the first line that has an end; only its line feed
\* is read with the carriage return before it.
StyleAt(file, i) ==
    IF file[i] = LF THEN "Unix"
    ELSE IF i = Len(file) THEN "Undefined"
    ELSE IF file[i + 1] = LF THEN "Dos" ELSE "OldMac"

LineOf(p, text, blanked) ==
    [text |-> IF blanked THEN RemoveComment(p, text) ELSE text,
     first |-> FirstNonWhite(text), skipable |-> IsSkipable(p), pure |-> IsPureComment(p)]

EndLine(s, removeComments) ==
    LET with(p) == [s EXCEPT !.parser = p, !.line = <<>>, !.lines = Append(@, LineOf(p, s.line, removeComments))]
    IN with(ProcessLine(s.parser, s.line))

\* Mutant: a carriage return alone ends no line.
ReadCharDos(s, file, i, removeComments) ==
    LET c == file[i]
        style == IF s.style = "Undefined" /\ IsEnd(c) THEN StyleAt(file, i) ELSE s.style
        fed == [s EXCEPT !.style = style, !.fed = s.style = "Undefined" /\ style = "Dos"]
    IN IF ~s.text THEN s
       ELSE IF s.fed THEN [s EXCEPT !.fed = FALSE]
       ELSE IF c = Null THEN [s EXCEPT !.text = FALSE]
       ELSE IF c = LF \/ (c = CR /\ style = "Dos") THEN EndLine(fed, removeComments)
       ELSE LET read == [fed EXCEPT !.line = Append(@, c), !.incomplete = @ \/ c = Broken]
            IN IF i = Len(file) THEN EndLine(read, removeComments) ELSE read

ReadChar(s, file, i, removeComments) ==
    LET c == file[i]
        style == IF s.style = "Undefined" /\ IsEnd(c) THEN StyleAt(file, i) ELSE s.style
        fed == [s EXCEPT !.style = style, !.fed = s.style = "Undefined" /\ style = "Dos"]
    IN IF ~s.text THEN s
       ELSE IF s.fed THEN [s EXCEPT !.fed = FALSE]
       ELSE IF c = Null THEN [s EXCEPT !.text = FALSE]
       ELSE IF IsEnd(c) THEN EndLine(fed, removeComments)
       ELSE LET read == [s EXCEPT !.line = Append(@, c), !.incomplete = @ \/ c = Broken]
            IN IF i = Len(file) THEN EndLine(read, removeComments) ELSE read

\* A file that ends with the end of a line has an empty line behind it.
Preprocess(file, removeComments) ==
    LET start == [style |-> "Undefined", fed |-> FALSE, text |-> TRUE, incomplete |-> FALSE,
                  line |-> <<>>, lines |-> <<>>, parser |-> Parser]
        eol == file # <<>> /\ IsEnd(Last(file))
        data(s, lines) ==
            IF ~s.text THEN [NoData EXCEPT !.read = TRUE, !.size = Len(file), !.style = s.style, !.incomplete = s.incomplete]
            ELSE [read |-> TRUE, size |-> Len(file), text |-> TRUE, style |-> s.style, eol |-> eol,
                  incomplete |-> s.incomplete, lines |-> lines, count |-> Len(lines)]
        end(s) == data(s, IF eol THEN EndLine(s, FALSE).lines ELSE s.lines)
    IN end(FoldLeft(LAMBDA q, i : ReadChar(q, file, i, removeComments), start, [i \in DOMAIN file |-> i]))

-----------------------------------------------------------------------------
(* detectEncoding(): what the head of the file tells.  "tag" is the encoding *)
(* a header names, "" when there is none that Qt knows.                      *)

DetectEncoding(head) ==
    IF head.bom # "" THEN IF head.bom = "UTF-8" THEN "UTF-8-BOM" ELSE head.bom
    ELSE IF head.xml /\ head.tag # "" THEN head.tag
    ELSE IF ~head.xml /\ head.metas # <<>> /\ \E i \in DOMAIN head.metas : head.metas[i] # ""
    THEN head.metas[SelectInSeq(head.metas, LAMBDA t : t # "")]
    ELSE IF head.utf8 THEN "UTF-8" ELSE ""

-----------------------------------------------------------------------------
(* readAndPreprocess().  sd is the SourceData, f the file it reads and what  *)
(* the two preprocessors make of it, o the options.  Failed is a command     *)
(* that cannot be run; what it could not write reads as an empty file.       *)

Failed == <<"failed">>
Output(out) == IF out = Failed THEN <<>> ELSE out

Error(sd, e) == [sd EXCEPT !.errors = Append(@, e)]

\* The lines of the line matching data, of which there are not fewer.
EmptyLine == [text |-> <<>>, first |-> 0, skipable |-> FALSE, pure |-> FALSE]
Padded(d, n) ==
    IF d.count >= n THEN d
    ELSE [d EXCEPT !.lines = @ \o [i \in 1..(n - d.count) |-> EmptyLine], !.count = n]

\* The comments of the normal lines are those of the line matching ones.
WithComments(normal, lmpp) ==
    [normal EXCEPT !.lines = [i \in DOMAIN @ |->
         [@[i] EXCEPT !.pure = lmpp.lines[i].pure, !.skipable = lmpp.lines[i].skipable]]]

\* What the first preprocessor leaves to be read, and to be told.
FirstStage(f, o) ==
    IF o.pp = "" THEN [data |-> f.text, error |-> "", pp |-> ""]
    ELSE IF Len(f.text) > 0 /\ Output(f.ppOut) = <<>> THEN [data |-> <<>>, error |-> "disabled", pp |-> ""]
    ELSE [data |-> Output(f.ppOut), error |-> "", pp |-> o.pp]

\* The second one, which reads what the first has written.
SecondStage(f, o, in) ==
    IF o.lmpp = "" THEN [has |-> o.ignoreComments \/ o.ignoreCase, data |-> in, error |-> "", lmpp |-> ""]
    ELSE IF Len(in) > 0 /\ Output(f.lmppOut) = <<>>
    THEN [has |-> TRUE, data |-> in, error |-> "disabled", lmpp |-> ""]
    ELSE [has |-> TRUE, data |-> Output(f.lmppOut), error |-> "", lmpp |-> o.lmpp]

Told(sd, e) == IF e = "" THEN sd ELSE Error(sd, e)

\* The rest of readAndPreprocess(), for a file that could be read: "one" is
\* the first stage, "two" the second.
Preprocessed(sd, f, o) ==
    LET matching(one, two, normal, lmpp) ==
            [sd |-> [Told(Told(sd, one.error), two.error) EXCEPT
                         !.normal = IF o.ignoreComments THEN WithComments(normal, lmpp) ELSE normal, !.lmpp = lmpp],
             o |-> [o EXCEPT !.pp = one.pp, !.lmpp = two.lmpp]]
        second(one, two, normal) ==
            matching(one, two, normal, Padded(IF two.has THEN Preprocess(two.data, TRUE) ELSE NoData, normal.count))
        first(one, normal) ==
            IF ~IsText(normal) THEN [sd |-> [Told(sd, one.error) EXCEPT !.normal = normal], o |-> [o EXCEPT !.pp = one.pp]]
            ELSE second(one, SecondStage(f, o, one.data), normal)
    IN first(FirstStage(f, o), Preprocess(FirstStage(f, o).data, FALSE))

NewSource == [errors |-> <<>>, encoding |-> "", normal |-> NoData, lmpp |-> NoData]

\* setFilename(), which keeps what was read.
SetFilename(sd, f) == IF f.kind = "unnamed" THEN NewSource ELSE [sd EXCEPT !.errors = <<>>]

Emptied(sd) == [sd EXCEPT !.normal = NoData, !.lmpp = NoData]

\* readAndPreprocess().  The errors of before stay, and of a special file, such
\* as a pipe, the lines of before.
ReadAndPreprocess(sd, f, o) ==
    LET read == [Emptied(sd) EXCEPT !.encoding = IF o.autoDetect /\ DetectEncoding(f.head) # ""
                                                 THEN DetectEncoding(f.head) ELSE o.encoding]
    IN IF f.kind = "unnamed" THEN [sd |-> sd, o |-> o]
       ELSE IF f.kind = "special" THEN [sd |-> Error([sd EXCEPT !.encoding = o.encoding], "not normal"), o |-> o]
       ELSE IF f.kind = "none" THEN [sd |-> read, o |-> o]
       ELSE IF f.kind = "unreadable" THEN [sd |-> Error(read, "read"), o |-> o]
       ELSE Preprocessed(read, f, o)

LineDataForDisplay(sd) == sd.normal.lines
LineDataForDiff(sd) == IF sd.lmpp.read THEN sd.lmpp.lines ELSE sd.normal.lines
=============================================================================
