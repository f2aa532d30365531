SPECIFICATION BothSpec
CONSTANTS
    Names = {s1}
    MaxTime = 2
    Interval = 0
    StaleAfter = 0
    ArchiveAfter = 1
    Nudge = 1
    None = None
    Garbled = Garbled
    a = a
    b = b
    Nothing = Nothing
    Ids = {a, b}
    Batches <- MCBatches
    Quoted <- MCQuoted
    SnapMax = 1
    Sessions = {1, 2}
    MaxTurns = 3
    MaxResponses = 2
    MaxCommands = 1
INVARIANTS
    ArchivedIsAway
    UpdatesStand
    
    
PROPERTIES
    ArchivedWasIdle
    PassesAreSpaced
    TaskComesToEnd
CHECK_DEADLOCK FALSE
