SPECIFICATION Spec
CONSTANTS
    n1 = n1
    n2 = n2
    f1 = f1
    f2 = f2
    None = None
    Names = {n1, n2, n3, n4}
    Facts = {f1, f2}
    ByHand <- MCByHand
    MaxMerges = 1
    MaxEdits = 1
    MaxTorn = 1
INVARIANTS NothingDestroyed MergeKeepsFacts OnePlace RowsAgree
PROPERTY CycleEnds
