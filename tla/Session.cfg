SPECIFICATION Spec
CONSTANTS
    MaxPaths  = 2
    MaxTurns  = 3
    MaxBoots  = 2
    MaxFaults = 1
    MaxText   = 2
    MaxTool   = 1
    Lookback  = 1
    NoResult  = NoResult
INVARIANTS
    Aligned
    AnsweredOnDisk
    OwnTurnsOnly
 
CHECK_DEADLOCK FALSE
