\* A run whose workers die is claimed beyond WORKER_MAX_ATTEMPTS.
SPECIFICATION Spec
CONSTANTS
    Runs = {r1}
    Workers = {w1, w2, w3}
    Slots = {1}
    API = API
    None = None
    MaxAttempts = 1
    MaxFaults = 2
    QueueCap = 1
SYMMETRY Symmetry
INVARIANT AttemptsNeverExceedMax
CHECK_DEADLOCK FALSE
