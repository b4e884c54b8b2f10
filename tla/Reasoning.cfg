SPECIFICATION FairSpec
CONSTANTS
    FailureThreshold = 2
    v1 = v1
    v2 = v2
    placeholder = placeholder
    on = on
    Image = {v1, v2, placeholder}
    Plausible = {v1, v2}
    EnvValue = {on}
    Argv = {on}
    Absent = Absent
    Caller = {c1, c2}
    p1 = p1
    Pod = {p1, p2}
    Reply <- MCReply
    Policies <- MCPolicies
    FirstDeployment <- MCFirst
    FirstPod = p1
    FirstPolicy <- MCFirstPolicy
    MaxDigs = 1
    MaxIterations = 3
    MaxToolCalls = 2
    MaxMalformed = 2
    MaxDisturbances = 1
INVARIANTS
    TypeOK
    TraceIsTrue
    LogsOfSeenPods
    OutageIsBrief
PROPERTIES
    WritesStayInside
    InvestigationsEnd
    CircuitRecloses
