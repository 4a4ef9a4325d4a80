----------------------------- MODULE UsersTable -----------------------------
(***************************************************************************)
(* The users_api.users table after the last migration, as a value: a       *)
(* function that gives every user id its row, or Absent.  The operators    *)
(* are the statements the SQLBoiler model in models/users.go issues, each  *)
(* one atomic in PostgreSQL together with the foreign-key trigger it fires.*)
(***************************************************************************)

CONSTANTS User,       \* the user ids (primary key users.id)
          Attrs,      \* the values of the columns no handler changes
          CreatedAt,  \* the values of created_at
          NULL,       \* SQL NULL in referring_user_id
          Absent      \* "no row with this id"

(***************************************************************************)
(* One row.  attrs stands for the columns that exist for every user and    *)
(* that no handler of this program assigns (email, wallet, referral data); *)
(* migrated_at keeps only whether the timestamp is set.                    *)
(***************************************************************************)
Row == [attrs             : Attrs,
        created_at        : CreatedAt,
        referring_user_id : User \cup {NULL},
        migrated_at       : BOOLEAN]

\* NULL is no id, and a missing row is no row.
ASSUME TableAssumption == NULL \notin User /\ Absent \notin Row

Table == [User -> Row \cup {Absent}]

Ids(t) == {u \in User : t[u] # Absent}

\* users_referring_user_id_fkey: a non-NULL reference names an existing row.
ForeignKeyHolds(t) ==
    \A u \in Ids(t) : t[u].referring_user_id \in Ids(t) \cup {NULL}

\* DELETE FROM users WHERE id = u, with ON DELETE SET NULL on the references.
DeleteRow(t, u) ==
    [v \in User |->
        IF v = u \/ t[v] = Absent THEN Absent
        ELSE IF t[v].referring_user_id = u
             THEN [t[v] EXCEPT !.referring_user_id = NULL]
             ELSE t[v]]

\* Mutant: the schema without users_referring_user_id_fkey.
ViolatesNoKey(t, o) == FALSE

\* The UPDATE of an existing row is refused: its reference names no row.
ViolatesForeignKey(t, o) == o.referring_user_id \notin Ids(t) \cup {NULL}

\* Mutant: the object was read without referring_user_id and writes NULL.
UpdateRowLosingReference(t, u, o) ==
    IF t[u] = Absent THEN t
    ELSE [t EXCEPT ![u] = [o EXCEPT !.created_at = t[u].created_at,
                                    !.referring_user_id = NULL]]

\* Mutant: Upsert in place of Update.
UpsertRow(t, u, o) == [t EXCEPT ![u] = o]

\* UPDATE users SET <every column but id and created_at> WHERE id = u, with
\* the values of the in-memory object o.  No row with that id: no change.
UpdateRow(t, u, o) ==
    IF t[u] = Absent THEN t
    ELSE [t EXCEPT ![u] = [o EXCEPT !.created_at = t[u].created_at]]
=============================================================================
