SPECIFICATION Spec
CONSTANTS
    Instances <- Names
    Entry <- Main
    Programs <- MCPrograms
    INSTANCE_BUDGET = 3
    CTFE_FUEL = 5
    Steps = {1, 2}
    None = None
    MaxItems = 3
    PassOps = {"apply", "type", "drop", "unroll"}
    RestOps = {"call", "apply"}
INVARIANTS
    WorklistSound
    FragmentClosed
    OwnBindings
    VerdictExact
    FuelBound
PROPERTIES
    Terminates
CHECK_DEADLOCK FALSE
