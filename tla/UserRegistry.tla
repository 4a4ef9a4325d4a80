---------------------------- MODULE UserRegistry ----------------------------
(***************************************************************************)
(* What the HTTP API promises about the users table, whatever requests run *)
(* concurrently: users are only ever removed, whole, or have their         *)
(* migration timestamp set (cleared too, in the dev environment).  Nothing *)
(* else about a user ever changes, and nobody is created.                  *)
(***************************************************************************)
EXTENDS UsersTable

CONSTANT DevEnv       \* Settings.Environment = "dev"

VARIABLE users

Init == users \in Table /\ ForeignKeyHolds(users)

\* DELETE /v1/user takes the user and every reference to it out of the table.
Remove(u) ==
    /\ u \in Ids(users)
    /\ users' = DeleteRow(users, u)

\* POST /v1/user/set-migrated changes one column of one row.
SetMigratedAt(u, m) ==
    /\ u \in Ids(users)
    /\ m \/ DevEnv
    /\ users' = [users EXCEPT ![u] = [@ EXCEPT !.migrated_at = m]]

Next ==
    \E u \in User : Remove(u) \/ \E m \in BOOLEAN : SetMigratedAt(u, m)

Spec == Init /\ [][Next]_users
=============================================================================
