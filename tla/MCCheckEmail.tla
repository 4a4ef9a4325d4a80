---------------------------- MODULE MCCheckEmail ----------------------------
(* Instances of CheckEmail for TLC.                                        *)
EXTENDS CheckEmail, TLC

CONSTANTS w1, w2

Account(email, eth, a, app) ==
    [email_confirmed |-> email, ethereum_confirmed |-> eth,
     ethereum_address |-> a, in_app_wallet |-> app]

\* Two accounts may share w1 and differ in in_app_wallet; the last four are
\* rows the query or the loop must skip.
SomeAccounts == {Account(TRUE, TRUE, w1, FALSE),
                 Account(TRUE, TRUE, w1, TRUE),
                 Account(TRUE, TRUE, w2, FALSE),
                 Account(FALSE, TRUE, w1, TRUE),
                 Account(TRUE, FALSE, w2, TRUE),
                 Account(TRUE, TRUE, Malformed, FALSE),
                 Account(TRUE, TRUE, NULL, FALSE)}

Symmetry == Permutations(User)
=============================================================================
