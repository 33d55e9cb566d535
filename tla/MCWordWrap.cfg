SPECIFICATION Spec
CONSTANTS
    A = A
    B = B
    Wins <- MCWins
    SelWin = A
    Rows = 3
    TextLength <- MCTextLength
    s_linesPerRunnable = 2
    Widths = {1, 2}
    m_DTWHeight = 3
CHECK_DEADLOCK FALSE
INVARIANTS
    LinesShowTheText
    SelectionKept
PROPERTIES
    TopRowKept
    RequestIsCarriedOut
