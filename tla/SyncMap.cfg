SPECIFICATION Spec
CONSTANTS
    g1 = g1
    g2 = g2
    g3 = g3
    v1 = v1
    v2 = v2
    G = {g1, g2, g3}
    NoG = NoG
    K = {k1, k2}
    V = {v1, v2}
    Entry = {1, 2, 3}
    None = 0
    Nil = Nil
    Expunged = Expunged
    Absent = Absent
    NoCall = NoCall
    Unknown = Unknown
    Programs <- AllPrograms
SYMMETRY Symmetry
INVARIANTS
    MapInvariant
PROPERTIES
    ImplementsAtomicMap
