SPECIFICATION Spec
CONSTANTS
    Ids = {i1, i2, i3}
    Names = {x, y}
    MaxJoins = 3
    MaxLogins = 2
    AllocFails = {"name", "element", "buffer", "id", "login", "password"}
SYMMETRY Symmetry
INVARIANTS
    TypeOK
    NoDanglingChannel
    FreedOnce
    OnlyEndedSessionsLeak
    StaleOnlyFromEndedSession
PROPERTIES
    ImplementsMaps
CHECK_DEADLOCK FALSE
