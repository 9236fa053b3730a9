SPECIFICATION FairSpec
CONSTANTS
    G = {m1, m2, m3, w1, w2, w3}
    Workers = {w1, w2, w3}
    MaxCounter = 3
INVARIANTS
    RoundsKeptApart
PROPERTIES
    WaitersReturn
