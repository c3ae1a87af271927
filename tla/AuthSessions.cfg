SPECIFICATION FairSpec
CONSTANTS
    Sub = {u1}
    Socket = {s1, s2}
    Handler = {h1}
    MaxTokens = 2
    Idle = 1
    Absolute = 2
    MaxTime = 1
    MayFail = TRUE
INVARIANTS RegistryAgrees EndedIsClosing
PROPERTIES UpgradeAuthorized EndedGetsClosed
CHECK_DEADLOCK FALSE
