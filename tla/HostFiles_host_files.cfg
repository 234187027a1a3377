CONSTANTS
    Null = Null
    Broken = Broken
    Nothing = Nothing
    Garbled = Garbled
    Odd = Odd
    Array = Array
    Remote = Remote
    Names = {"p", "q"}
    Versions = {"1.0.0", "2.0.0"}
    Installers = {i1, i2}
    Entries = {"gh"}
    Targets <- MCTargets
    EntryStates <- MCEntryStates
    FirstConfig <- MCFirstConfig
    Ceiling = 2
    MaxInstalls = 2
    MaxMoves = 1
    Roots = {"p1", "q1"}
    Treeless = {"img"}
    Trees <- MCTrees
    Digests = {Nothing, "s"}
    Setups <- MCSetups
    MaxRuns = 3
    MaxTurns = 2
SPECIFICATION Spec
PROPERTIES
    NothingLost
    WrittenIsReadBack
    CheckedIsLocked
    VendoredWasLocked
CHECK_DEADLOCK FALSE
