SPECIFICATION Spec
CONSTANTS
    Writers = {w1, w2}
    Tenants = {t1, t2}
    InMemory = {t2}
    Named = {n1, n2}
    Extra = {x1}
    Bodies = {b1}
    KeyOf <- OwnKey
    RogueKey = rogue
    None = none
    MaxRows = 2
    MaxTampers = 2
SYMMETRY Symmetry
INVARIANTS
    TypeOK
    StoredChainVerifies
    HonestUpToTheBreak
    AuditedRowIsAsSealed
CHECK_DEADLOCK FALSE
