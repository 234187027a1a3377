SPECIFICATION Spec
CONSTANTS
    Keys = {k1, k2}
    Null = Null
    DbValues = {"old", "new"}
    Layouts = {"lf", "crlf"}
    LastDay = 2
    MaxEdits = 4
    MaxReleases = 2
    Projects = {"a", "b", "c"}
    PlaceOf <- MCPlaceOf
    MaxRecords = 2
    MaxFetches = 2
    MaxTurns = 2
SYMMETRY Symmetry
CONSTRAINT OnlyReads
CHECK_DEADLOCK FALSE
INVARIANTS
    RunsWhatWasSigned
    ReleasesRun
    ImportsAreFirstHand
PROPERTIES
    LockIsWhole
