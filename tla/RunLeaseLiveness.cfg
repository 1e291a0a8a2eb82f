\* One run, two workers, one fault: whatever is dropped, the run ends.
SPECIFICATION FairSpec
CONSTANTS
    Runs = {r1}
    Workers = {w1, w2}
    Slots = {1}
    API = API
    None = None
    MaxAttempts = 2
    MaxFaults = 1
    QueueCap = 1
PROPERTY EveryRunEnds
CHECK_DEADLOCK FALSE
