SPECIFICATION Spec
CONSTANTS
    c1 = c1
    c2 = c2
    Conv = {c1}
    Singles = {}
    Wipes = {all, again}
    MaxTurns = 1
    MaxFails = 0
INVARIANTS TombstoneCloses
CHECK_DEADLOCK FALSE
