SPECIFICATION Spec
CONSTANTS
    m1 = m1
    m2 = m2
    p1 = p1
    p2 = p2
    t1 = t1
    t2 = t2
    t3 = t3
    t4 = t4
    t5 = t5
    t6 = t6
    t7 = t7
    t8 = t8
    t9 = t9
    t10 = t10
    M = {m1, m2}
    P = {p1, p2}
    T = {t1, t2, t3, t4, t5, t6, t7, t8, t9, t10}
    NoM = NoM
    NoP = NoP
    NoT = NoT
    Home <- HomeP
    MaxTime = 3
    maxWhen = 5
    Programs <- AllPrograms
INVARIANTS
    TimersConsistent
    CheckAccounts
PROPERTIES
    ImplementsService
    CallsReturn
CHECK_DEADLOCK FALSE
