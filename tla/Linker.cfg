SPECIFICATION Spec
CONSTANTS
    Modules <- MCModules
    NameOrder <- MCNameOrder
    Private = {"y"}
    Shapes <- MCShapes
    Written <- MCWritten
    Roots <- MCRoots
    MaxStatements = 3
    MaxDecls = 2
INVARIANTS
    LinkExact
    DependencyFirst
    PackageWhole
PROPERTIES
    Terminates
CHECK_DEADLOCK FALSE
