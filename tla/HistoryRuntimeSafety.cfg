SPECIFICATION Spec
CONSTANTS
    c1 = c1
    c2 = c2
    Conv = {c1, c2}
    Singles = {one}
    Wipes = {all}
    MaxTurns = 1
    MaxFails = 2
SYMMETRY Interchangeable
INVARIANTS LostTurnShows DeletedIsForgotten
CHECK_DEADLOCK FALSE
