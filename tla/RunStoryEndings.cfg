CONSTANTS
    Executions = {e1, e2}
    Rounds = 2
    Revisions = 2
    Window = 2
    Buffer = 1
    MaxAttempts = 2
    MaxFaults = 0
    None = None
SPECIFICATION FairSpec
INVARIANT OneEnding
CHECK_DEADLOCK FALSE
