CONSTANTS
    Capacity = 3
    Cost = 2
    Slack = 1
    MaxSkew = 1
    MaxTime = 6
    MaxCalls = 6
    MaxLosses = 1
    Requests = {q1, q2, q3}
    MaxActive = 2
    MaxOutages = 1
SPECIFICATION Spec
INVARIANT WithinRate
INVARIANT ActiveBounded
CHECK_DEADLOCK FALSE
