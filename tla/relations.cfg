SPECIFICATION Spec
CONSTANTS
    User = {u1, u2, u3}
    Null = Null
    MaxMany = 2
    MaxCalls = 3
SYMMETRY Users
INVARIANTS
    TypeOK
    PointerAgrees
    Replaces
PROPERTIES
    MisledOnlyIfUnlisted
CHECK_DEADLOCK FALSE
