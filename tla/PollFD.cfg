SPECIFICATION Spec
CONSTANTS
    g1 = g1
    g2 = g2
    g3 = g3
    g4 = g4
    G = {g1, g2, g3, g4}
    MaxRef = 3
    MaxWait = 2
    Moment = {1, 2}
    Programs <- AllPrograms
INVARIANTS
    DescriptorInvariant
    WakeupsKept
    DeadlineServed
PROPERTIES
    TimeoutJustified
    CloseEndsCalls
CHECK_DEADLOCK FALSE
