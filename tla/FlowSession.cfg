SPECIFICATION FairSpec
CONSTANTS
    Caller = {c1, c2, c3}
    MaxTurns = 2
    DayLength = 8
    Opens = 2
    Closes = 6
    FreeWindows <- MCWindows
    Starts <- MCStarts
    Durations = {1, 2}
    None = none
    Bad = bad
INVARIANTS VisitFits BudgetHolds
PROPERTIES TurnsSerialised RepliesEnd
CHECK_DEADLOCK FALSE
