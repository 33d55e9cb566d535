------------------------------ MODULE WordWrap ------------------------------
(* Recalculating the word wrap.  A change of the width, or of the option,    *)
(* posts the request (KDiff3App::postRecalcWordWrap()); the event loop then  *)
(* calls recalcWordWrap(), which has runnables wrap the rows of all windows  *)
(* and report the end with another posted call, slotFinishRecalcWordWrap().  *)
(* The runnables run one after another in the one thread there is, and poll  *)
(* for a cancel, which lets other events in.                                 *)
EXTENDS WrapLines

CONSTANTS
    SelWin,     \* the window the user selects in
    Widths,     \* bound: the widths of a window, in characters
    m_DTWHeight \* height of the windows, in lines

ASSUME WindowsAssumption == SelWin \in Wins /\ Widths \subseteq Nat \ {0} /\ m_DTWHeight \in Nat

VARIABLES
    wordWrapOn,   \* option
    width,        \* of every window
    posted,       \* m_bRecalcWordWrapPosted
    m_firstD3LIdx,
    queue,        \* posted calls: "recalc", "finish"
    runnables,    \* those of startRunnables() that have not run: <<window, cache>>
    maxRunnables, \* s_maxNofRunnables
    cancelled,
    enabled,      \* the main window takes input
    needed,       \* row |-> lines it needs on the screen
    sums,         \* row |-> lines of the rows above it; Rows |-> all of them
    win,          \* window |-> [wrap, vec, caches, measured, updates]
    selection,    \* of the window SelWin
    top,          \* m_firstLine of all windows
    hung,         \* the thread waits for itself
    chosen,       \* history: the text the user selected
    topRow,       \* history: the row the user scrolled to
    dropped,      \* history: a width no request was posted for
    stale         \* history: begun without a request, m_firstD3LIdx is an old one

vars == <<wordWrapOn, width, posted, m_firstD3LIdx, queue, runnables, maxRunnables, cancelled, enabled,
          needed, sums, win, selection, top, hung, chosen, topRow, dropped, stale>>
shown == <<needed, sums, win, selection, top>>
history == <<chosen, topRow, dropped, stale>>

\* The range of the scroll bar.
MaxTop(lines) == AtLeast(0, lines + 1 - m_DTWHeight)
NofLines == IF wordWrapOn THEN sums[Rows] ELSE Rows

\* A window that has got its lines; nothing of those before is left.
FreshWindow == [wrap |-> FALSE, vec |-> <<>>, caches |-> <<>>, measured |-> FALSE, updates |-> TRUE]

MainWindowEnable(on) == enabled' = on

\* Every window is new, and mainInit() has posted the first request.
Init ==
    /\ wordWrapOn \in BOOLEAN
    /\ width \in Widths
    /\ posted = TRUE /\ m_firstD3LIdx = -1 /\ queue = <<"recalc">>
    /\ runnables = <<>> /\ maxRunnables = 0 /\ cancelled = FALSE /\ enabled = TRUE
    /\ needed = [row \in Row |-> 1]
    /\ sums = [row \in 0..Rows |-> row]
    /\ win = [w \in Wins |-> FreshWindow]
    /\ selection = NoSelection /\ top = 0
    /\ hung = FALSE
    /\ chosen = {} /\ topRow = 0 /\ dropped = FALSE /\ stale = FALSE

Idle == runnables = <<>> /\ ~hung
Input == Idle /\ enabled /\ queue = <<>>  \* posted calls are made before the next input
SelWinShows == LET w == win[SelWin] IN SelectedText(SelWin, w.wrap, w.vec, selection)

-----------------------------------------------------------------------------
(* Requests. *)

\* Mutant: the row of the request before is kept.
ForgetTopRowNot == UNCHANGED m_firstD3LIdx

\* The next recalcWordWrap() is to ask for the row at the top.
ForgetTopRow == m_firstD3LIdx' = -1

\* postRecalcWordWrap(): waits for the runnables, although it is one of them that
\* is running; one request at a time.
PostRecalcWordWrap ==
    IF maxRunnables > 0
    THEN /\ hung' = TRUE
         /\ UNCHANGED <<posted, m_firstD3LIdx, queue, dropped, stale>>
    ELSE IF ~posted
    THEN /\ posted' = TRUE
         /\ ForgetTopRow
         /\ queue' = Append(queue, "recalc")
         /\ dropped' = FALSE /\ stale' = FALSE
         /\ UNCHANGED hung
    ELSE /\ dropped' = (dropped \/ "recalc" \notin Range(queue))
         /\ UNCHANGED <<posted, m_firstD3LIdx, queue, hung, stale>>

\* A window gets a new width, while the program is idle or in a runnable that
\* polls.
Resize(n) ==
    /\ ~hung /\ n # width
    /\ width' = n
    /\ PostRecalcWordWrap
    /\ UNCHANGED <<wordWrapOn, runnables, maxRunnables, cancelled, enabled, shown, chosen, topRow>>

SlotWordWrapToggled ==
    /\ Input
    /\ wordWrapOn' = ~wordWrapOn
    /\ PostRecalcWordWrap
    /\ UNCHANGED <<width, runnables, maxRunnables, cancelled, enabled, shown, chosen, topRow>>

\* The user cancels the wait for the runnables.
Cancel ==
    /\ runnables # <<>> /\ ~hung
    /\ cancelled' = TRUE
    /\ UNCHANGED <<wordWrapOn, width, posted, m_firstD3LIdx, queue, runnables, maxRunnables, enabled, shown, hung, history>>

-----------------------------------------------------------------------------
(* recalcWordWrap(), and the runnables. *)

\* Mutant: the selection stays in lines of the screen.
SelectionAsRowsNot == selection

\* convertSelectionToD3LCoords()
SelectionAsRows ==
    LET w == win[SelWin]
    IN IF IsEmptySelection(selection) \/ ~w.updates THEN selection
       ELSE [from |-> ToD3LCoords(w.wrap, w.vec, sums, BeginOf(selection)),
             to |-> ToD3LCoords(w.wrap, w.vec, sums, EndOf(selection))]

\* DiffTextWindow::recalcWordWrap() before the runnables: with word wrap, or when
\* the width of the longest line is not known, they have something to do.
Prepared(w) ==
    IF wordWrapOn
    THEN [win[w] EXCEPT !.wrap = TRUE, !.vec = <<>>, !.updates = FALSE,
                        !.caches = [k \in 1..RunnablesOfWindow |-> <<>>]]
    ELSE IF ~win[w].measured
    THEN [win[w] EXCEPT !.wrap = FALSE, !.vec = <<>>, !.updates = FALSE, !.caches = <<>>]
    ELSE [win[w] EXCEPT !.wrap = FALSE, !.updates = TRUE]

RunnablesOf(w) ==
    IF wordWrapOn \/ ~win[w].measured
    THEN [k \in 1..RunnablesOfWindow |-> <<w, k - 1>>] ELSE <<>>

RecalcWordWrap ==
    LET w1 == win[SelWin]
        todo == FlattenSeq([i \in 1..Cardinality(Wins) |-> RunnablesOf(SetToSeq(Wins)[i])])
    IN /\ posted' = TRUE /\ MainWindowEnable(FALSE) /\ cancelled' = FALSE
       /\ m_firstD3LIdx' = IF m_firstD3LIdx < 0 THEN LineToRow(w1.wrap, w1.vec, top) ELSE m_firstD3LIdx
       /\ selection' = SelectionAsRows
       /\ needed' = IF wordWrapOn THEN [row \in Row |-> 1] ELSE needed
       /\ sums' = IF wordWrapOn THEN SumLinesNeeded(needed') ELSE sums
       /\ win' = [w \in Wins |-> Prepared(w)]
       /\ runnables' = todo
       /\ maxRunnables' = Len(todo)

\* The posted call.  When there is nothing to do it goes on to the end.
SlotRecalcWordWrap ==
    /\ Idle /\ queue # <<>> /\ Head(queue) = "recalc"
    /\ RecalcWordWrap
    /\ queue' = Tail(queue) \o (IF runnables' = <<>> THEN <<"finish">> ELSE <<>>)
    /\ dropped' = FALSE
    /\ UNCHANGED <<wordWrapOn, width, top, hung, chosen, topRow, stale>>

\* slotShowLineNumbersToggled() calls recalcWordWrap() itself: the line numbers
\* take room from the text.
SlotShowLineNumbersToggled ==
    /\ Input
    /\ \E n \in Widths \ {width} : width' = n
    /\ IF wordWrapOn
       THEN /\ RecalcWordWrap
            /\ stale' = TRUE /\ dropped' = FALSE
       ELSE UNCHANGED <<posted, enabled, cancelled, m_firstD3LIdx, selection, needed, sums, win, runnables,
                        maxRunnables, stale, dropped>>
    /\ UNCHANGED <<wordWrapOn, queue, top, hung, chosen, topRow>>

\* Mutant: rows keep the number of lines of the last window.
CountedLast(w, cache) ==
    [row \in Row |-> AtLeast(1, Len(OfRow(cache, row)))]

\* Rows need as many lines as in the window that needs most.
Counted(w, cache) == LinesNeeded(needed, cache)

\* RecalcWordWrapRunner::run(), recalcWordWrapHelper(): nothing more is wrapped
\* after a cancel; the last one reports the end.
Run ==
    LET w == Head(runnables)[1]
        k == Head(runnables)[2]
        cache == WrapLineCache(w, k, width)
        last == Len(runnables) = 1
    IN /\ runnables # <<>> /\ ~hung
       /\ IF cancelled THEN UNCHANGED <<win, needed>>
          ELSE IF win[w].wrap
          THEN /\ win' = [win EXCEPT ![w].caches[k + 1] = cache]
               /\ needed' = [row \in Row |-> IF row \in RowsOfRunnable(k) THEN Counted(w, cache)[row] ELSE needed[row]]
          ELSE win' = [win EXCEPT ![w].measured = TRUE] /\ UNCHANGED needed
       /\ runnables' = Tail(runnables)
       /\ queue' = IF last THEN Append(queue, "finish") ELSE queue
       /\ maxRunnables' = IF last THEN 0 ELSE maxRunnables
       /\ UNCHANGED <<wordWrapOn, width, posted, m_firstD3LIdx, cancelled, enabled, sums, selection, top, hung, history>>

-----------------------------------------------------------------------------
(* slotFinishRecalcWordWrap() *)

\* DiffTextWindow::recalcWordWrap() behind the runnables.
Finished(w) ==
    IF wordWrapOn
    THEN [win[w] EXCEPT !.wrap = TRUE, !.updates = TRUE, !.vec = Diff3WrapLines(win[w].caches, needed)]
    ELSE [win[w] EXCEPT !.wrap = FALSE, !.updates = TRUE]

SelectionAsLines ==
    LET w == win'[SelWin]
    IN IF IsEmptySelection(selection) THEN selection
       ELSE [from |-> ToLineCoords(w.wrap, w.vec, sums', BeginOf(selection)),
             to |-> ToLineCoords(w.wrap, w.vec, sums', EndOf(selection))]

\* Mutant: the option is turned off, and that is all.
WrapCancelledOnly ==
    /\ wordWrapOn' = FALSE
    /\ queue' = Tail(queue)
    /\ UNCHANGED <<posted, sums, win, selection, top, enabled, topRow>>

\* A cancel of the wrap turns the option off, and everything begins again.
WrapCancelled ==
    /\ wordWrapOn' = FALSE
    /\ queue' = Append(Tail(queue), "recalc")
    /\ UNCHANGED <<posted, sums, win, selection, top, enabled, topRow>>

SlotFinishRecalcWordWrap ==
    /\ Idle /\ queue # <<>> /\ Head(queue) = "finish"
    /\ IF wordWrapOn /\ cancelled THEN WrapCancelled
       ELSE /\ UNCHANGED wordWrapOn
            /\ posted' = FALSE
            /\ queue' = Tail(queue)
            /\ sums' = IF wordWrapOn THEN SumLinesNeeded(needed) ELSE sums
            /\ win' = [w \in Wins |-> Finished(w)]
            /\ selection' = IF wordWrapOn THEN SelectionAsLines ELSE selection
            /\ top' = AtMost(RowToLine(wordWrapOn, sums', m_firstD3LIdx), MaxTop(NofLines'))
            /\ topRow' = LineToRow(wordWrapOn, win'[SelWin].vec, top')
            /\ MainWindowEnable(TRUE)
    /\ UNCHANGED <<width, m_firstD3LIdx, runnables, maxRunnables, cancelled, needed, hung, chosen, dropped, stale>>

-----------------------------------------------------------------------------
(* The user. *)

\* mousePressEvent(), mouseMoveEvent() over the text of the window.
Select(a, b) ==
    /\ Input
    /\ selection' = [from |-> a, to |-> b]
    /\ chosen' = LET w == win[SelWin] IN SelectedText(SelWin, w.wrap, w.vec, selection')
    /\ UNCHANGED <<wordWrapOn, width, posted, m_firstD3LIdx, queue, runnables, maxRunnables, cancelled, enabled,
                   needed, sums, win, top, hung, topRow, dropped, stale>>

\* setFirstLine(), by the scroll bar.
Scroll(line) ==
    /\ Input /\ line \in 0..MaxTop(NofLines)
    /\ top' = line
    /\ topRow' = LET w == win[SelWin] IN LineToRow(w.wrap, w.vec, line)
    /\ UNCHANGED <<wordWrapOn, width, posted, m_firstD3LIdx, queue, runnables, maxRunnables, cancelled, enabled,
                   needed, sums, win, selection, hung, chosen, dropped, stale>>

Positions ==
    LET lines == ScreenLines(SelWin, win[SelWin].wrap, win[SelWin].vec)
    IN UNION {{[line |-> l, pos |-> p] : p \in 0..AtLine(lines, l).length} : l \in 0..(Len(lines) - 1)}

Next ==
    \/ \E n \in Widths : Resize(n)
    \/ SlotWordWrapToggled \/ SlotShowLineNumbersToggled \/ Cancel
    \/ SlotRecalcWordWrap \/ Run \/ SlotFinishRecalcWordWrap
    \/ \E a, b \in Positions : Select(a, b)
    \/ \E line \in 0..MaxTop(NofLines) : Scroll(line)

\* The event loop makes the posted calls, and a runnable comes to its end.
Fairness == WF_vars(SlotRecalcWordWrap) /\ WF_vars(Run) /\ WF_vars(SlotFinishRecalcWordWrap)

Spec == Init /\ [][Next]_vars /\ Fairness
-----------------------------------------------------------------------------
\* Nothing is asked for: the windows show what they should.
Settled == ~posted /\ Idle

\* All windows break the rows into the same lines: the pieces of a row make up
\* its text, and are those of the width the window has now - unless it changed
\* between the last runnable and the end, which nobody notices.
LinesShowTheText ==
    Settled /\ wordWrapOn =>
        \A w \in Wins :
            /\ [i \in DOMAIN win[w].vec |-> win[w].vec[i].row] = [i \in DOMAIN win[SelWin].vec |-> win[SelWin].vec[i].row]
            /\ \A row \in Row : LET of == OfRow(win[w].vec, row)
                                IN IF dropped THEN Len(of) >= 1
                                   ELSE IsPrefix(Pieces(w, row, width), of) /\ win[w].vec[sums[row] + 1] = of[1]

\* The same text is selected before and after, however often it is wrapped anew.
SelectionKept == Settled => SelWinShows = chosen

\* The row at the top stays there, or the text ends with the window.  (A window
\* of one line can be scrolled behind the last row; with word wrap this is the last.)
\* Not covered: a recalculation that slotShowLineNumbersToggled() begins without
\* a request (pdiff.cpp:1409, stale); it asks for no row (1247) and goes to the one
\* of an earlier request.
TopRowKept ==
    [][posted /\ ~posted' /\ ~stale =>
           topRow' \in {topRow, AtMost(topRow, Rows - 1)} \/ top' = MaxTop(NofLines')]_vars

\* Every request is carried out, also when the user cancels it - unless the
\* thread waits for itself.
RequestIsCarriedOut == posted ~> (hung \/ (~posted /\ enabled))
=============================================================================
