CONSTANTS
    Null = Null
    Broken = Broken
    Odd = Odd
    Array = Array
    Remote = Remote
    Names = {"p", "q"}
    Versions = {"1.0.0", "2.0.0"}
    Shaped <- MCShaped
    MinNear = 2
    HeavyThreshold = 15
    Letters = {"a", "b", "o"}
    Publishers = {}
    MinCore = 2
    LicenseClass <- MCLicenseClass
    HighRisk = {"shell"}
SPECIFICATION Spec
INVARIANTS
    OutageIsNotClean
CHECK_DEADLOCK FALSE
