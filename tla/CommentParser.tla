--------------------------- MODULE CommentParser ---------------------------
(* DefaultCommentParser: it reads a file line by line and says of each line  *)
(* whether it may be left out of a comparison, and blanks the comments of    *)
(* the others.  A line is the sequence of its characters; a letter stands    *)
(* for every character that means nothing to the parser.                     *)
EXTENDS Integers, Sequences, SequencesExt

LF == "\n"
NoChar == "none"

\* The members of the parser.  Offsets count from 0, as in the code.
Parser == [type |-> "none", last |-> NoChar, startChar |-> NoChar, inString |-> FALSE,
           escaped |-> FALSE, firstLine |-> FALSE, offset |-> -1,
           start |-> 0, end |-> 0, comments |-> <<>>,
           commentOrWhite |-> FALSE, pure |-> FALSE]

IsSpace(c) == c = " "
IsBlank(line) == \A i \in DOMAIN line : IsSpace(line[i])
FirstNonWhite(line) == SelectInSeq(line, LAMBDA c : ~IsSpace(c))
Trimmed(line) == IF IsBlank(line) THEN <<>>
                 ELSE SubSeq(line, FirstNonWhite(line), SelectLastInSeq(line, LAMBDA c : ~IsSpace(c)))
StartsWith(line, t) == IsPrefix(t, line)
EndsWith(line, t) == IsSuffix(t, line)

InComment(p) == p.type # "none"
IsSkipable(p) == p.commentOrWhite
IsPureComment(p) == p.pure

Flags(p, b) == [p EXCEPT !.pure = b, !.commentOrWhite = b]
Push(p, end) == [p EXCEPT !.end = end, !.comments = Append(@, <<p.start, end>>)]

Quote(p, c) ==
    IF InComment(p) THEN p
    ELSE IF ~p.inString THEN [p EXCEPT !.inString = TRUE, !.startChar = c]
    ELSE IF p.startChar = c THEN [p EXCEPT !.inString = FALSE]
    ELSE p

\* Mutant: the character before the comment is taken for a part of it.
OpenEarly(p, type, whole) ==
    [Flags(p, whole) EXCEPT !.type = type, !.start = IF p.offset > 1 THEN p.offset - 2 ELSE 0,
                            !.firstLine = @ \/ type = "multiLine",
                            !.pure = whole /\ p.offset = 1]

\* A comment begins one character back, with the "/".
Open(p, type, whole) ==
    [Flags(p, whole) EXCEPT !.type = type, !.start = p.offset - 1,
                            !.firstLine = @ \/ type = "multiLine",
                            !.pure = whole /\ p.offset = 1]

Slash(p, line) ==
    IF p.inString THEN p
    ELSE IF ~InComment(p) /\ p.last = "/" THEN Open(p, "singleLine", StartsWith(line, <<"/", "/">>))
    ELSE IF p.type = "multiLine" /\ p.last = "*"
    THEN LET q == Push([p EXCEPT !.type = "none"], p.offset + 1)
         IN IF q.firstLine THEN q ELSE Flags(q, EndsWith(line, <<"*", "/">>) \/ q.commentOrWhite)
    ELSE p

Star(p, line) ==
    IF ~p.inString /\ ~InComment(p) /\ p.last = "/"
    THEN Open(p, "multiLine", StartsWith(line, <<"/", "*">>) \/ p.commentOrWhite)
    ELSE p

\* The end of the line, of which the parser is told behind its last character.
EndOfLine(p) ==
    LET single == IF p.type = "singleLine" THEN Push([p EXCEPT !.type = "none"], p.offset) ELSE p
        multi(q) == IF q.type = "multiLine" /\ ~q.firstLine THEN Flags(q, TRUE) ELSE q
        open(q) == IF q.start > 0 /\ q.end = 0 THEN Push(q, q.offset) ELSE q
    IN [open(multi(single)) EXCEPT !.firstLine = FALSE]

ProcessChar(p, line, c) ==
    LET q == CASE c = "\\" -> [p EXCEPT !.escaped = p.inString]
               [] c \in {"'", "\""} -> Quote(p, c)
               [] c = "/" -> Slash(p, line)
               [] c = "*" -> Star(p, line)
               [] c = LF -> EndOfLine(p)
               [] OTHER -> IF InComment(p) THEN p ELSE Flags(p, FALSE)
    IN IF p.escaped THEN [p EXCEPT !.escaped = FALSE, !.last = NoChar, !.offset = @ + 1]
       ELSE [q EXCEPT !.last = c, !.offset = @ + 1]

ProcessLine(p, line) ==
    LET text == Trimmed(line)
        begun == [p EXCEPT !.offset = FirstNonWhite(line) - 1, !.start = 0, !.end = 0, !.comments = <<>>]
        tail(q) == IF line # <<>> /\ IsSpace(Last(line)) /\ ~InComment(q) THEN [q EXCEPT !.pure = FALSE] ELSE q
    IN ProcessChar(tail(FoldLeft(LAMBDA q, c : ProcessChar(q, text, c), begun, text)), text, LF)

\* The line the parser has read, with blanks for its comments.
RemoveComment(p, line) ==
    IF IsSkipable(p) \/ p.start = p.end THEN line
    ELSE [i \in DOMAIN line |->
             IF \E k \in DOMAIN p.comments : p.comments[k][1] < i /\ i <= p.comments[k][2]
             THEN " " ELSE line[i]]
=============================================================================
