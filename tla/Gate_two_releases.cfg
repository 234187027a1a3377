SPECIFICATION Spec
CONSTANTS
    Invocations <- TwoReleases
    MaxTrouble = 2
INVARIANT
    KnownIsRefused
CHECK_DEADLOCK FALSE
