\* One publisher and no fault: only the order of replay and subscription matters.
SPECIFICATION Spec
CONSTANTS
    Publishers = {p1}
    Window = 2
    BufferCap = 2
    MaxReopenings = 1
    MaxEvents = 2
    MaxFaults = 0
INVARIANT NothingLostInTheGap
CHECK_DEADLOCK FALSE
