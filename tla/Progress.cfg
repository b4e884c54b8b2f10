SPECIFICATION FairSpec
CONSTANTS
    high_errors = high_errors
    high_latency = high_latency
    citizen_service = citizen_service
    Problem = {high_errors, high_latency}
    Deployment = {citizen_service}
    TargetOf <- MCTargetOf
    MaxOccurrences = 1
    Action = {restart}
    Proposal = {}
    Cap = 1
    MaxReopens = 1
    DeepBudget = 1
    Engine = Engine
    Admin = {}
    Nobody = Nobody
    MaxConcurrent = 1
    MaxCycles = 2
    MaxRestarts = 0
    MaxStarts = 2
    HumanOps = {}
PROPERTIES
    LeaseEnds
