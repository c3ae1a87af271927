SPECIFICATION FairSpec
CONSTANTS
    MaxTurns = 2
    MaxFrames = 4
    MaxBuffer = 2
    MaxSentences = 1
    NewAudio = 2
    MaxExtensions = 1
INVARIANTS AudioInOrder NeverDeaf OneTurn
PROPERTIES InterruptionKept SilentCallEnds
CHECK_DEADLOCK FALSE
