CONSTANTS
    Executions = {e1, e2}
    Rounds = 2
    Revisions = 2
    Window = 2
    Buffer = 1
    MaxAttempts = 2
    MaxFaults = 2
    None = None
    Uploads = {u1, u2}
    Readable = {u1}
    Chunks = 1
    MaxChunks = 1
    Batch = 2
    Page = 2
    Embedder = TRUE
SPECIFICATION ExecFairSpec
INVARIANTS NeverRepeatsWhatItRead TellsItsOwnWork CommittedCancelIsTold CompletedCanBeOpened IngestedOnce
PROPERTY EndIsTold
CHECK_DEADLOCK FALSE
