SPECIFICATION Spec
CONSTANTS
    Producer = Producer
    Consumer = {c1, c2}
    Item = {x1, x2, x3}
    NoItem = NoItem
    Wrap = 4
    InitSize = 1
    DequeueLimit = 2
    MaxElts = 3
SYMMETRY Symmetry
INVARIANTS
    ChainInvariant
PROPERTIES
    ImplementsDeque
