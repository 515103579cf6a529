SPECIFICATION GateSpec
CONSTANTS
    Capability <- MCCapability
    WriteRisk <- MCWrites
    MaxCrossed = 2
    RequiredApprovers = 1
    ApprovalTtl = ttl
    None = None
INVARIANTS
    TypeOK
    AllowIsEarned
PROPERTY
    SignalsOnlyNarrow
