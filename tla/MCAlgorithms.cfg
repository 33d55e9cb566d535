SPECIFICATION Spec
CONSTANTS
    TooExpensive = 2
    Many = 1
CHECK_DEADLOCK FALSE
INVARIANTS
    LinesAreTheFile
    OnlyCommentsAreBlanked
    LinesAreMatched
    CharactersAreMatched
    HistoryEntriesAreKept
    OnlyIgnoredIsMissing
    FindNextVisitsAll
