SPECIFICATION FairSpec
CONSTANTS
    Request = {r1, r2}
    Session = {s1}
    Ephemeral = {s1}
    NumTools = 2
    MaxMessages = 5
    MaxIterations = 2
    PendingTtl = 0
    SessionTtl = 1
    MaxMemories = 2
    MaxCalls = 1
    Faults = {"unlink", "tear"}
INVARIANTS ToolsRunOnce ErasedStaysGone ResultsFollowCalls
PROPERTIES LiveFileStays OrphansSwept RequestsGoOn
CHECK_DEADLOCK FALSE
