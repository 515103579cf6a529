SPECIFICATION Spec
CONSTANTS
    Writers = {w1, w2}
    Tenants = {t1, t2}
    InMemory = {t2}
    Named = {n1, n2}
    Extra = {x1, x2}
    Bodies = {b1}
    KeyOf <- OwnKey
    RogueKey = rogue
    None = none
    MaxRows = 2
    MaxTampers = 1
SYMMETRY Symmetry
INVARIANT
    TamperDetected
CHECK_DEADLOCK FALSE
