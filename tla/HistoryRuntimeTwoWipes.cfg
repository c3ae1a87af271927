SPECIFICATION FairSpec
CONSTANTS
    c1 = c1
    c2 = c2
    Conv = {c1}
    Singles = {one}
    Wipes = {all, again}
    MaxTurns = 1
    MaxFails = 1
PROPERTIES KeepsPromise RequestsEnd
CHECK_DEADLOCK FALSE
