SPECIFICATION LastSpec
CONSTANTS
    Names = {"a"}
    Picks = {{"a"}}
    NoId = "none"
    Identities <- MCIdentities
    Entries <- MCEntries
    Surfaces = {"s0", "s1"}
    Empty = "s0"
    Words = {"docker", "other"}
    SandboxLimit = 2
    MaxPicked = 3
    MaxFlips = 1
    MaxEdits = 1
CHECK_DEADLOCK FALSE
PROPERTIES
    ChangedSurfaceIsReported
