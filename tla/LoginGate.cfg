SPECIFICATION FairSpec
CONSTANTS
    Request = {r1, r2}
    Cookie = {c1, c2, c3}
    Kid = {k1}
    Sub = {u1}
    MaxNonces = 3
    NonceTtl = 2
    MaxPending = 2
    KeyTtl = 2
    Throttle = 2
    UnknownTtl = 1
    MaxUnknown = 1
    SubLimit = 2
    Window = 1
    MaxTime = 2
INVARIANTS SpentOnce 
PROPERTIES LatestChallenge FetchesSpaced LoginsAnswered
CHECK_DEADLOCK FALSE
