SPECIFICATION Spec
CONSTANTS
    v1 = v1
    v2 = v2
    v3 = v3
    placeholder = placeholder
    Template = {v1, v2, v3, placeholder}
    ContainersOf <- MCContainersOf
    Malformed = {placeholder}
    Broken = {v2}
    MinReplicas = 1
    MaxReplicas = 2
    MaxActions = 3
    Setups <- MCSetups
    Histories <- MCHistories
    Outages <- MCOutages
    Pictures <- MCPictures
    Proposals = {10000}
    PastRows <- MCPastRows
    PastVotes <- MCPastVotes
    MaxCycles = 2
    MaxPolls = 2
    MaxIncidents = 1
    MaxDisturbances = 1
PROPERTIES
    RollbackReplacesTheSuspect
CHECK_DEADLOCK FALSE
