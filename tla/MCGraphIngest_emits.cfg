SPECIFICATION Spec
CONSTANTS
    t1 = t1
    t2 = t2
    high = high
    Emitters = {e1, e2}
    Envelopes <- Alerts
    None = none
SYMMETRY EmitterSymmetry
INVARIANTS
    TypeOK
    UidUnique
    EmitFindsItsEnds
    EdgesStayInTenant
PROPERTIES
    StableNeverFlips
    ImplementsContent
