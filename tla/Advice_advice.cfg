CONSTANTS
    Null = Null
    Odd = Odd
    Ecosystem = "npm"
    Releases <- MCReleases
    Fixes <- MCFixes
    Feeds <- MCFeeds
    Published <- MCPublished
    Entry = "a"
    Others <- MCOthers
    HasRepo = TRUE
    MaxAge <- MCMaxAge
    LastDay = 3
    MaxRuns = 2
    MaxTurns = 5
SPECIFICATION Spec
INVARIANTS
    UpgradeIsConfirmed
    ReadyIsCurrent
PROPERTIES
    DirectoryIsKept
CHECK_DEADLOCK FALSE
