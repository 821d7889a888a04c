SPECIFICATION Spec
CONSTANTS
    Vars = {1}
    MaxLeaves = 2
    Admits = {"holes"}
    FieldOrder <- MCFieldOrder
    Programs <- MCPrograms
    Lowered <- MCLowered
INVARIANTS
    HolesWrittenBack
CHECK_DEADLOCK FALSE
