SPECIFICATION Spec
CONSTANTS
    NoId = NoId
    Ids = {"p1", "p2"}
    Pins = {"p1", "p2"}
    Names = {"n1"}
    Writers = {"w1", "w2"}
    Dims <- MCDims
    MaxAge <- MCMaxAge
    EcosystemOf <- MCEcosystemOf
    PackageOf <- MCPackageOf
    VerifyChecks <- MCVerifyChecks
    AvailabilityChecks <- MCAvailabilityChecks
    SurveyChecks <- MCSurveyChecks
    EvalChecks <- MCEvalChecks
    MaxDay = 2
    MaxRuns = 3
CHECK_DEADLOCK FALSE
INVARIANTS
    TypeOK
    EvidenceSound
    VerifiedIsEarned
    TierIsEarned
    ReplayKnowsNoFuture
PROPERTIES
    NewestAnswerHeld
    ConfirmationKept
    OnlyEvidenceRaisesTheWord
