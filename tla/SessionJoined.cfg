SPECIFICATION Spec
CONSTANTS
    MaxPaths  = 1
    MaxTurns  = 3
    MaxBoots  = 1
    MaxFaults = 0
    MaxText   = 2
    MaxTool   = 1
    Lookback  = 1
    NoResult  = NoResult
INVARIANT TurnsAreAppended
CHECK_DEADLOCK FALSE
