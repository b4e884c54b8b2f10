SPECIFICATION FairWatch
CONSTANTS
    citizen_down = citizen_down
    citizen_service = citizen_service
    Problem = {citizen_down}
    Deployment = {citizen_service}
    TargetOf <- MCTargetOf
    Availability <- MCAvailability
    Alerting = {citizen_down}
    Desired = {0, 1}
    Available = {0, 1}
    Debounce = 1
    MaxPods = 1
    MaxDisturbances = 2
    MaxOccurrences = 2
    Action = {restart}
    Proposal = {}
    Cap = 1
    MaxReopens = 0
    DeepBudget = 0
    Engine = Engine
    Admin = {}
    Nobody = Nobody
    MaxConcurrent = 1
    MaxCycles = 1
    MaxRestarts = 1
INVARIANTS
    QuietWorldIsQuiet
PROPERTIES
    OutageIsReported
    ReconciliationIsExact
