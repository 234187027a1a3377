SPECIFICATION Spec
CONSTANTS
    Invocations <- MCInvocations
    MaxTrouble = 2
INVARIANTS
    PassIsEarned
    KnownIsRefused
PROPERTIES
    ImplementsLook
CHECK_DEADLOCK FALSE
