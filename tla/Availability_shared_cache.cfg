SPECIFICATION Spec
CONSTANTS
    Procs = {"a", "b"}
    Urls = {"version", "package"}
    Bodies = {"present", "yanked"}
    Absent = Absent
    Retries = 1
    Ttl = 1
    MaxTime = 1
    MaxLooks = 2
    MaxChanges = 1
CHECK_DEADLOCK FALSE
INVARIANTS
    CacheIsHonest
    VerdictIsEarned
PROPERTIES
    LookEnds
