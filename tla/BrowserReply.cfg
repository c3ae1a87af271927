SPECIFICATION FairSpec
CONSTANTS
    MaxReplies = 2
    MaxChunks = 2
    MaxBarges = 2
INVARIANTS MicGate QueueSingleOwner SavedOnce
PROPERTIES PauseRetainsAudio ListenerHeard 
CHECK_DEADLOCK FALSE
