SPECIFICATION Spec
CONSTANTS
    high_errors = high_errors
    citizen_service = citizen_service
    Problem = {high_errors}
    Deployment = {citizen_service}
    TargetOf <- MCTargetOf
    MaxOccurrences = 1
    Action = {restart}
    Proposal = {p1}
    Cap = 1
    MaxReopens = 0
    DeepBudget = 1
    Engine = Engine
    Admin = {alice, bob}
    Nobody = Nobody
    MaxConcurrent = 1
    MaxCycles = 1
    MaxRestarts = 0
    MaxStarts = 2
    HumanOps = {"authorize_deep"}
INVARIANTS
    DeepProposalOnce
