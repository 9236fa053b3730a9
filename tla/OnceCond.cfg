SPECIFICATION EitherSpec
CONSTANTS
    G = {g1, g2, g3}
    NoG = NoG
    Width = 5
    MaxTickets = 2
INVARIANTS
    RunsOnceBeforeReturn
    NotifyListInvariant
PROPERTIES
    DoReturns
    NotifiedResumes
