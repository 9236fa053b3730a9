SPECIFICATION Spec
CONSTANTS
    c1 = c1
    c2 = c2
    c3 = c3
    Node = {c1, c2, c3}
    Background = Background
    None = None
    NoT = NoT
    G = {g1, g2}
    Trees <- AllTrees
    MaxTime = 2
    MaxCalls = 2
INVARIANTS
    TreeInvariant
    NothingLeaks
PROPERTIES
    FirstCauseKept
    CancellationServed
CHECK_DEADLOCK FALSE
