SPECIFICATION Spec
CONSTANTS
    Goroutine = {g1, g2}
    Id = {i1}
    Calls <- SomeCalls
    MaxCalls = 2
SYMMETRY Symmetry
INVARIANTS TypeOK OwnStatement
PROPERTY ObjectIsRow
CHECK_DEADLOCK FALSE
