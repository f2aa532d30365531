SPECIFICATION Spec
CONSTANTS
    k1 = k1
    k2 = k2
    Killers <- MCKillers
INVARIANT
    NoChildOutlives
CHECK_DEADLOCK FALSE
