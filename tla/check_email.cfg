SPECIFICATION Spec
CONSTANTS
    User = {u1, u2}
    w1 = w1
    w2 = w2
    Wallet = {w1, w2}
    Malformed = Malformed
    NULL = NULL
    NoWallet = NoWallet
    Accounts <- SomeAccounts
SYMMETRY Symmetry
INVARIANTS
    TypeOK
    CountsExact
