SPECIFICATION Spec
CONSTANTS
    Names = {"a", "b", "c"}
    Picks = {{"a"}, {"a", "b", "c"}}
    NoId = "none"
    Identities <- MCIdentities
    Entries <- MCEntries
    Surfaces = {"s0", "s1"}
    Empty = "s0"
    Words = {"docker", "other"}
    SandboxLimit = 2
    MaxPicked = 3
    MaxFlips = 1
    MaxEdits = 1
CHECK_DEADLOCK FALSE
INVARIANTS
    SkippedForAnOutage
PROPERTIES
    UnreachedKept
    DriftIsTold
    ExitIsHonest
    RunEnds
