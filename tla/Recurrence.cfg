SPECIFICATION Spec
CONSTANTS
    high_errors = high_errors
    citizen_service = citizen_service
    Problem = {high_errors}
    Deployment = {citizen_service}
    TargetOf <- MCTargetOf
    MaxOccurrences = 2
    Action = {restart, rollback, scale}
    Proposal = {}
    Cap = 2
    MaxReopens = 1
    DeepBudget = 1
    Engine = Engine
    Admin = {}
    Nobody = Nobody
    MaxConcurrent = 1
    MaxCycles = 2
    MaxRestarts = 2
    MaxStarts = 5
    HumanOps = {}
INVARIANTS
    NoOrphan
    OneOpenPerProblem
    NoUnattendedRetry
    LaunchBudget
    ActionBudget
PROPERTIES
    ClosedIsFinal
    NoLostResult
    KeepsPromise
SYMMETRY Actions
