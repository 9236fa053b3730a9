SPECIFICATION FairSpec
CONSTANTS
    G = {g1, g2, g3}
    NoG = NoG
    ActiveSpin = 1
INVARIANTS
    MutexSafe
    TokenInv
    WaiterCount
PROPERTIES
    ImplementsLocker
    ImplementsSemaphore
    SomeoneLocks
