\* One run, two workers of one slot each: every interleaving of their lives.
SPECIFICATION Spec
CONSTANTS
    Runs = {r1}
    Workers = {w1, w2}
    Slots = {1}
    API = API
    None = None
    MaxAttempts = 2
    MaxFaults = 2
    QueueCap = 1
SYMMETRY Symmetry
INVARIANTS LeaseMatchesRow AttemptsAccounted SweepRemembers
PROPERTIES ImplementsOwnership CancelSticks
CHECK_DEADLOCK FALSE
