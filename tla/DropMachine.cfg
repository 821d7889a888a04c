SPECIFICATION Spec
CONSTANTS
    Vars = {1}
    MaxLeaves = 3
    Admits = {}
    FieldOrder <- MCFieldOrder
    Programs <- MCPrograms
    Lowered <- MCLowered
INVARIANTS
    ValuesFound
    NothingOverwritten
    NothingLeaked
    VerifierAccepts
CHECK_DEADLOCK FALSE
