SPECIFICATION SinkSpec
CONSTANTS
    Payloads <- Trees
    MaxEmits = 2
CHECK_DEADLOCK FALSE
INVARIANTS
    TreatedByPath
    StructureKept
    ChangedIsMarked
    JoinsWithinAKind
