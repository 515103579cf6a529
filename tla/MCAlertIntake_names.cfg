SPECIFICATION Spec
CONSTANTS
    t1 = t1
    t2 = t2
    None = none
    Envelopes <- MCEnvelopes
    Prefix <- Prefixes
    Productions <- MCProductions
    MaxSent = 2
    MaxRelays = 1
    MaxEmits = 3
INVARIANTS
    GraphsAgree
    AlertsKeepApart
    ReadAsProduced
CHECK_DEADLOCK FALSE
