SPECIFICATION FairSpec
CONSTANTS
    G = {g1, g2, g3, g4, g5}
    NoG = NoG
    MaxReaders = 6
INVARIANTS
    Exclusion
    Accounts
PROPERTIES
    WriterGetsIn
