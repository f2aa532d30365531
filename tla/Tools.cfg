SPECIFICATION ToolsSpec
CONSTANTS
    a = a
    b = b
    Files <- MCFiles
    MaxOps = 2
    MaxChanges = 4
    listing = listing
    copy = copy
    Compactable = {read}
    OtherTools = {write}
    Values = {listing, copy}
    SizeOf <- MCSizeOf
    DedupMin = 2
    Preview = 2
    SpillOver = 3
    Keep = 2
    Threshold = 6
    MaxReturns = 4
    MaxTurns = 3
SYMMETRY Symmetry
INVARIANTS
    OnlyLateLoss
    PatchKnowsFile
    RefsLead
    RecentReadable
CHECK_DEADLOCK FALSE
