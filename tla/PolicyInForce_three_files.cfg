SPECIFICATION PolicySpec
CONSTANTS
  Ids = {"pkg@0", "pkg@1"}
  NoId = NoId
  Null = Null
  Malformed = Malformed
  Files = {"managed", "org", "project"}
  Project = "project"
  Licenses = {"MIT", "GPL"}
  Capabilities = {"shell"}
  Entries = {"server", "other"}
  Dims <- MCDims
  MaxAge <- MCMaxAge
  PackageOf <- MCPackageOf
  Rules <- MCRules
  Writes <- MCWrites
  Subjects <- MCSubjects
  Days <- MCDays
  MaxEdits = 2
CHECK_DEADLOCK FALSE
INVARIANT EveryLayerHolds
INVARIANT WrittenIsEnforced
