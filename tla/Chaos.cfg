SPECIFICATION FairSpec
CONSTANTS
    Pod = {pod_a, pod_b}
    Leak = {0, 64}
    SoftDefault = TRUE
    Thread = {t1, t2}
    MaxAttempts = 2
    SerialFaults = TRUE
    MaxFaults = 2
    MaxRestarts = 1
INVARIANTS
    TypeOK
    EffectsConverge
    SuccessIsRemedy
PROPERTIES
    ResetReturns
