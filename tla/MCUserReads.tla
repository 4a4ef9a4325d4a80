---------------------------- MODULE MCUserReads ----------------------------
(* Instances of UserReads for TLC.                                         *)
EXTENDS UserReads, TLC

CONSTANTS w1

Attr(a, eth, email, web3, ref) ==
    [ethereum_address |-> a, ethereum_confirmed |-> eth,
     email_confirmed |-> email, web3 |-> web3, referred_at |-> ref]

\* A confirmed wallet with a confirmed email, one with neither, a web3 login
\* without a wallet that was not referred, and a row that is marked confirmed but
\* has no address, which no constraint of the table forbids.
Accounts == {Attr(w1, TRUE, TRUE, FALSE, TRUE),
             Attr(w1, FALSE, FALSE, FALSE, TRUE),
             Attr(NULL, FALSE, TRUE, TRUE, FALSE),
             Attr(NULL, TRUE, FALSE, FALSE, TRUE)}

Symmetry == Permutations(User)
=============================================================================
