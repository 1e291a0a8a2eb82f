\* Two publishers overtake each other under two faults; three events outgrow window and buffer.
SPECIFICATION FairSpec
CONSTANTS
    Publishers = {p1, p2}
    Window = 2
    BufferCap = 2
    MaxReopenings = 1
    MaxEvents = 3
    MaxFaults = 2
INVARIANTS ReplayLeavesNoHole
PROPERTIES ImplementsFeed CatchesUp
CHECK_DEADLOCK FALSE
