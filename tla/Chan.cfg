SPECIFICATION Spec
CONSTANTS
    G = {g1, g2, g3}
    NoG = NoG
    C = {1, 2}
    Val = {v1, v2}
    Zero = Zero
    NoVal = NoVal
    Nr = {1, 2}
    Setups <- Programs
SYMMETRY Symmetry
INVARIANTS
    HchanInvariant
    WaitersFound
    SelectSafe
    RefusalJustified
PROPERTIES
    ImplementsFifo
CHECK_DEADLOCK FALSE
