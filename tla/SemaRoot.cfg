SPECIFICATION Spec
CONSTANTS
    G = {g1, g2, g3}
    NoG = NoG
    Addr = {a1, a2}
    NoAddr = NoAddr
    Focus = a1
    MaxVal = 2
SYMMETRY Symmetry
INVARIANTS
    NoLostWakeup
    RootInvariant
PROPERTIES
    ImplementsContract
CHECK_DEADLOCK FALSE
