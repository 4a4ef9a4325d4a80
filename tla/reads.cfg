SPECIFICATION Spec
CONSTANTS
    User = {u1, u2}
    Attrs <- Accounts
    CreatedAt = {1, 2}
    NULL = NULL
    Absent = Absent
    DevEnv = FALSE
    w1 = w1
    Address = {w1}
    Served = {"GetUser", "GetUserV2", "grpc.GetUser", "GetUserByEthAddr", "GetUsersByEthereumAddress"}
SYMMETRY Symmetry
INVARIANTS
    TypeOK
    ReferrerIsTrue
    ConfirmedEmailPreferred
    MigrationVisible
    CallerServed
    UsedIsSound
    LookupExact
