CONSTANTS
    c1 = c1 c2 = c2 c3 = c3 wA = wA wB = wB A = A B = B None = None NotEnrolled = NotEnrolled
    Callers <- MCCallers
    Calls <- MCCalls
    Runs <- MCRuns
    RunOf <- MCRunOf
    WriterOf <- MCWriterOf
    Exempt <- MCExempt
    Chain = 2
    Priced = {1}
    Tries = 2
    Slots = 1
    Limit = 2
    MaxCost = 1
    Cacheable = TRUE
    Rounds <- MCRounds
    MaxFaults = 1
SPECIFICATION FairSpec
INVARIANTS TypeOK OverspendBounded NothingCountedTwice SlotsAccounted WaitersHaveLeader
PROPERTY EveryRunIsWritten
CHECK_DEADLOCK FALSE
