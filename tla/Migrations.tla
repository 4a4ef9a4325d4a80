----------------------------- MODULE Migrations -----------------------------
(***************************************************************************)
(* The schema migrations: what each file of migrations/ does to the users  *)
(* table, and `/users-api migrate`, which the init container of every pod  *)
(* runs (main.go, internal/database/migrate.go) without a lock against the *)
(* init containers of the other pods.  Goose plans once and then runs each *)
(* file, with the insertion of its version, in a transaction.              *)
(***************************************************************************)
EXTENDS Naturals, FiniteSets, Functions

CONSTANTS Runner,   \* init containers, one per pod
          Person,   \* users that may be in the table
          Start,    \* what may happen at the start: a version of the database and
                    \* the set of pods that are started
          MaxCrashes \* bound on the restarts of containers

Last == 22          \* number of files in migrations/

ASSUME MigrationsAssumption ==
    Start \subseteq [version : 0 .. Last, pods : SUBSET Runner] /\ MaxCrashes \in Nat

(***************************************************************************)
(* A database: the columns of users with their type and whether they may   *)
(* be NULL, the rows, the copy of the addresses in users_eth, the other    *)
(* tables, constraints and indexes, and whether the last statement failed. *)
(* Of a value only NULL, an address as text or as bytes, and "set" matter. *)
(***************************************************************************)
Null == "NULL"
NoTable == [c \in {} |-> [type |-> "TEXT", null |-> TRUE]]
Nothing == [cols |-> NoTable, rows |-> [p \in {} |-> NoTable],
            eth |-> [p \in {} |-> Null], ethType |-> "none", objs |-> {},
            ok |-> TRUE]

\* A statement: d afterwards if it can be run, else the failed transaction.
Stmt(d, can, e) == IF d.ok /\ can THEN e ELSE [d EXCEPT !.ok = FALSE]

Has(d, c) == c \in DOMAIN d.cols

\* f with the value v for x.
Put(f, x, v) == [y \in DOMAIN f \cup {x} |-> IF y = x THEN v ELSE f[y]]

AddColumn(d, c, t) ==
    Stmt(d, ~Has(d, c),
         [d EXCEPT !.cols = Put(@, c, [type |-> t, null |-> TRUE]),
                   !.rows = [p \in DOMAIN @ |-> Put(@[p], c, Null)]])

DropColumn(d, c) ==
    Stmt(d, Has(d, c),
         [d EXCEPT !.cols = Restrict(@, DOMAIN @ \ {c}),
                   !.rows = [p \in DOMAIN @ |-> Restrict(@[p], DOMAIN @[p] \ {c})]])

AlterType(d, c, t) == Stmt(d, Has(d, c), [d EXCEPT !.cols[c].type = t])

\* UPDATE users SET c = v, where v has the new value for each row
Update(d, c, v) ==
    Stmt(d, Has(d, c),
         [d EXCEPT !.rows = [p \in DOMAIN @ |-> [@[p] EXCEPT ![c] = v[p]]]])
All(d, x) == [p \in DOMAIN d.rows |-> x]

SetNotNull(d, c) ==
    Stmt(d, Has(d, c) /\ \A p \in DOMAIN d.rows : d.rows[p][c] # Null,
         [d EXCEPT !.cols[c].null = FALSE])

AddObj(d, o) == Stmt(d, o \notin d.objs, [d EXCEPT !.objs = @ \cup {o}])
DropObj(d, o) == Stmt(d, o \in d.objs, [d EXCEPT !.objs = @ \ {o}])

\* A constraint or index on column c; it goes with the column.
AddOn(d, c, o) == Stmt(d, Has(d, c), AddObj(d, o))
DropWith(d, c, os) == [DropColumn(d, c) EXCEPT !.objs = @ \ os]

AddNotNull(d, c, t) ==
    SetNotNull(Update(AddColumn(d, c, t), c, All(d, "set")), c)

-----------------------------------------------------------------------------
(* The files, in order.                                                    *)

create_schema(d) == d

create_user_table(d) ==
    Stmt(d, d.cols = NoTable,
         [d EXCEPT !.cols =
            [c \in {"id", "email_address", "email_confirmed",
                    "email_confirmation_sent", "email_confirmation_key", "created_at"} |->
                [type |-> CASE c = "email_confirmed" -> "BOOLEAN"
                            [] c \in {"email_confirmation_sent", "created_at"} -> "TIMESTAMPTZ"
                            [] OTHER -> "TEXT",
                 null |-> c \notin {"id", "email_confirmed", "created_at"}]]])

add_country_code(d) == AddColumn(d, "country_code", "CHAR")

add_ethereum_address(d) == AddColumn(d, "ethereum_address", "CHAR")

add_referral_code(d) == AddNotNull(d, "referral_code", "CHAR")

rename_email_confirmation_sent(d) ==
    LET old == "email_confirmation_sent" IN
    DropColumn(AddColumn(Stmt(d, Has(d, old), d),
                         "email_confirmation_sent_at", "TIMESTAMPTZ"), old)

trim_referral_codes(d) == AlterType(d, "referral_code", "VARCHAR")

add_tos_agreement_timestamp(d) ==
    Update(AddColumn(d, "agreed_tos_at", "TIMESTAMPTZ"),
           "agreed_tos_at", All(d, "set"))

\* An unnamed constraint takes the next free name.
make_referral_unique(d) ==
    AddOn(d, "referral_code",
          IF "users_referral_code_key" \in d.objs THEN "users_referral_code_key1"
          ELSE "users_referral_code_key")

add_referrer_id(d) ==
    AddOn(AddColumn(d, "referrer_id", "TEXT"), "referrer_id", "users_referrer_id_fkey")

referral_table(d) == AddObj(d, "referrals")

\* UPDATE users SET c = v WHERE ethereum_address IS NULL (missing), or IS NOT NULL
Fill(d, c, v, missing) ==
    Update(d, c, [p \in DOMAIN d.rows |->
                    IF (d.rows[p]["ethereum_address"] = Null) = missing THEN v
                    ELSE d.rows[p][c]])

\* A column filled by two UPDATEs, for users without and with an address, and
\* then made NOT NULL.
AddByAddress(d, c, t, without, with) ==
    SetNotNull(Fill(Fill(AddColumn(d, c, t), c, without, TRUE), c, with, FALSE), c)

\* Mutant: the users with an address are forgotten.
user_google_provider_id(d) ==
    AddByAddress(d, "auth_provider_id", "TEXT", "google", Null)

user_auth_provider_id(d) ==
    AddByAddress(d, "auth_provider_id", "TEXT", "google", "web3")

wallet_confirmation(d) ==
    AddByAddress(AddColumn(AddColumn(d, "ethereum_challenge", "TEXT"),
                           "ethereum_challenge_sent", "TIMESTAMPTZ"),
                 "ethereum_confirmed", "BOOLEAN", "false", "true")

null_deleted_referrer(d) ==
    AddOn(DropObj(d, "users_referrer_id_fkey"), "referrer_id", "users_referrer_id_fkey")

add_in_app_wallet_flag(d) == AddNotNull(d, "in_app_wallet", "BOOLEAN")

remove_old_referral_relations(d) ==
    DropWith(DropWith(DropObj(d, "referrals"), "referral_code",
                      {"users_referral_code_key", "users_referral_code_key1"}),
             "referrer_id", {"users_referrer_id_fkey"})

create_referral_code(d) ==
    AddOn(AddColumn(AddColumn(d, "referral_code", "CHAR"), "referred_by", "CHAR"),
          "referral_code", "users_referral_code_key")

alter_referral_code(d) ==
    AlterType(AlterType(d, "referral_code", "VARCHAR"), "referred_by", "VARCHAR")

\* Mutant: the old column stays.
referral_date_and_code(d) ==
    AddOn(AddColumn(AddColumn(d, "referred_at", "TIMESTAMPTZ"),
                    "referring_user_id", "TEXT"),
          "referring_user_id", "users_referring_user_id_fkey")

referral_date(d) ==
    AddOn(AddColumn(AddColumn(DropColumn(d, "referred_by"),
                              "referred_at", "TIMESTAMPTZ"),
                    "referring_user_id", "TEXT"),
          "referring_user_id", "users_referring_user_id_fkey")

\* SELECT id, ethereum_address INTO users_eth: before any lock on users.
copy_eth_addr(d) ==
    Stmt(d, Has(d, "ethereum_address") /\ "users_eth" \notin d.objs,
         [d EXCEPT !.objs = @ \cup {"users_eth"},
                   !.eth = [p \in DOMAIN d.rows |-> d.rows[p]["ethereum_address"]],
                   !.ethType = d.cols["ethereum_address"].type])

\* ALTER COLUMN ethereum_address TYPE bytea USING NULL
null_eth_addr(d) ==
    Update(AlterType(d, "ethereum_address", "BYTEA"), "ethereum_address",
           All(d, Null))

DropCopy(d) ==
    [DropObj(d, "users_eth") EXCEPT !.eth = Nothing.eth, !.ethType = Nothing.ethType]

\* The addresses of the copy, decoded; users that are not in it keep theirs.
Decoded(d) ==
    [p \in DOMAIN d.rows |-> IF p \in DOMAIN d.eth /\ d.eth[p] = "text" THEN "bytes"
                             ELSE d.rows[p]["ethereum_address"]]

\* Mutant: addresses that are bytes already are passed over.
decode_only_text(d) == DropCopy(Update(d, "ethereum_address", Decoded(d)))

\* UPDATE ... SET ethereum_address = decode(substr(eth, 3), 'hex'), which has no
\* variant for a bytea column; DROP TABLE users_eth
decode_eth_addr(d) ==
    DropCopy(Stmt(d, d.ethType # "BYTEA", Update(d, "ethereum_address", Decoded(d))))

make_eth_addr_byte_arr(d) ==
    decode_eth_addr(null_eth_addr(copy_eth_addr(d)))

add_addr_index(d) ==
    AddOn(d, "ethereum_address", "users_ethereum_address_idx")

add_migrated_at(d) == AddColumn(d, "migrated_at", "TIMESTAMPTZ")

Up(v, d) ==
    CASE v = 1  -> create_schema(d)                [] v = 2  -> create_user_table(d)
      [] v = 3  -> add_country_code(d)             [] v = 4  -> add_ethereum_address(d)
      [] v = 5  -> add_referral_code(d)            [] v = 6  -> rename_email_confirmation_sent(d)
      [] v = 7  -> trim_referral_codes(d)          [] v = 8  -> add_tos_agreement_timestamp(d)
      [] v = 9  -> make_referral_unique(d)         [] v = 10 -> add_referrer_id(d)
      [] v = 11 -> referral_table(d)               [] v = 12 -> user_auth_provider_id(d)
      [] v = 13 -> wallet_confirmation(d)          [] v = 14 -> null_deleted_referrer(d)
      [] v = 15 -> add_in_app_wallet_flag(d)       [] v = 16 -> remove_old_referral_relations(d)
      [] v = 17 -> create_referral_code(d)         [] v = 18 -> alter_referral_code(d)
      [] v = 19 -> referral_date(d)                [] v = 20 -> make_eth_addr_byte_arr(d)
      [] v = 21 -> add_addr_index(d)               [] v = 22 -> add_migrated_at(d)

\* The schema of each version.
SchemaAt[v \in 0 .. Last] == IF v = 0 THEN Nothing ELSE Up(v, SchemaAt[v - 1])

-----------------------------------------------------------------------------
(* The init containers.                                                    *)

VARIABLES db,        \* the committed database
          versions,  \* the versions in users_api.migrations
          pc,        \* where the runner is
          next,      \* the next file of its plan
          tx,        \* its uncommitted database, inside file 20
          crashes,   \* number of containers killed so far
          had        \* history: the users that had an address at the start

vars == <<db, versions, pc, next, tx, crashes, had>>

Applied == IF versions = {} THEN 0 ELSE CHOOSE v \in versions : \A w \in versions : w =< v

\* Users as the API may have created them when the schema is that of version v.
RowsAt(v, S, A) ==
    [p \in S |-> [c \in DOMAIN SchemaAt[v].cols |->
        IF c = "ethereum_address" /\ p \in A
        THEN IF SchemaAt[v].cols[c].type = "BYTEA" THEN "bytes" ELSE "text"
        ELSE IF SchemaAt[v].cols[c].null THEN Null ELSE "set"]]

Init ==
    /\ \E s \in Start, S \in SUBSET Person : LET v == s.version IN
          /\ v < 2 => S = {}
          /\ had \in SUBSET S /\ (v < 4 => had = {})
          /\ db = [SchemaAt[v] EXCEPT !.rows = RowsAt(v, S, had)]
          /\ versions = 1 .. v
          /\ pc = [r \in Runner |-> IF r \in s.pods THEN "connect" ELSE "none"]
    /\ next = [r \in Runner |-> 0]
    /\ tx = [r \in Runner |-> Nothing]
    /\ crashes = 0

\* logger.Fatal: PostgreSQL rolls the open transaction back and Kubernetes
\* starts the container again.
Exit(r) ==
    /\ pc' = [pc EXCEPT ![r] = "connect"]
    /\ next' = [next EXCEPT ![r] = 0]
    /\ tx' = [tx EXCEPT ![r] = Nothing]
    /\ UNCHANGED <<db, versions, had>>

Fail(r) == Exit(r) /\ UNCHANGED crashes

\* The container is killed, or a statement fails for a reason of its own.
Crash(r) ==
    /\ pc[r] \notin {"connect", "done", "none"} /\ crashes < MaxCrashes
    /\ crashes' = crashes + 1
    /\ Exit(r)

\* Open, Ping and CREATE SCHEMA IF NOT EXISTS users_api.
Connect(r) ==
    /\ pc[r] = "connect"
    /\ pc' = [pc EXCEPT ![r] = "plan"]
    /\ UNCHANGED <<db, versions, next, tx, crashes, had>>

\* Goose: the files above the highest recorded version, read once.
Plan(r) ==
    /\ pc[r] = "plan"
    /\ next' = [next EXCEPT ![r] = Applied + 1]
    /\ pc' = [pc EXCEPT ![r] = IF Applied < Last THEN "run" ELSE "done"]
    /\ UNCHANGED <<db, versions, tx, crashes, had>>

\* The transaction of the file next[r] commits d together with the version.
Commit(r, d) ==
    /\ db' = d
    /\ versions' = versions \cup {next[r]}
    /\ next' = [next EXCEPT ![r] = @ + 1]
    /\ pc' = [pc EXCEPT ![r] = IF next[r] < Last THEN "run" ELSE "done"]
    /\ tx' = [tx EXCEPT ![r] = Nothing]
    /\ UNCHANGED <<crashes, had>>

\* The other runners hold no lock on users.
NoLock(r) == \A s \in Runner \ {r} : pc[s] \notin {"selecting", "copied", "altered"}

\* Mutant: the error of a statement is ignored.
RunFileAnyway(r) ==
    /\ pc[r] = "run" /\ next[r] # 20
    /\ next[r] = 1 \/ NoLock(r)
    /\ Commit(r, Up(next[r], db))

\* A file whose first statement locks the table (or that needs no table): its
\* transaction takes effect as a whole when it has the lock.
RunFile(r) ==
    /\ pc[r] = "run" /\ next[r] # 20
    /\ next[r] = 1 \/ NoLock(r)
    /\ IF Up(next[r], db).ok THEN Commit(r, Up(next[r], db)) ELSE Fail(r)

\* File 20 first only reads users; two runners can do so at the same time.
Select(r) ==
    /\ pc[r] = "run" /\ next[r] = 20
    /\ \A s \in Runner \ {r} : pc[s] # "altered"
    /\ pc' = [pc EXCEPT ![r] = "selecting"]
    /\ UNCHANGED <<db, versions, next, tx, crashes, had>>

\* users_eth is created, unless another transaction has created one.
CopyAddresses(r) ==
    /\ pc[r] = "selecting"
    /\ \A s \in Runner \ {r} : pc[s] \notin {"copied", "altered"}
    /\ IF copy_eth_addr(db).ok
       THEN /\ tx' = [tx EXCEPT ![r] = copy_eth_addr(db)]
            /\ pc' = [pc EXCEPT ![r] = "copied"]
            /\ UNCHANGED <<db, versions, next, crashes, had>>
       ELSE Fail(r)

\* Mutant: -- +goose NO TRANSACTION.
AlterAddressAtOnce(r) ==
    /\ pc[r] = "copied" /\ NoLock(r)
    /\ db' = null_eth_addr(tx[r])
    /\ tx' = [tx EXCEPT ![r] = null_eth_addr(tx[r])]
    /\ pc' = [pc EXCEPT ![r] = "altered"]
    /\ UNCHANGED <<versions, next, crashes, had>>

\* The exclusive lock: nobody else may be reading.
AlterAddress(r) ==
    /\ pc[r] = "copied" /\ NoLock(r)
    /\ tx' = [tx EXCEPT ![r] = null_eth_addr(tx[r])]
    /\ pc' = [pc EXCEPT ![r] = "altered"]
    /\ UNCHANGED <<db, versions, next, crashes, had>>

DecodeAddresses(r) ==
    /\ pc[r] = "altered"
    /\ IF decode_eth_addr(tx[r]).ok
       THEN Commit(r, decode_eth_addr(tx[r]))
       ELSE Fail(r)

\* PostgreSQL ends one of two transactions that wait for each other: one has
\* created users_eth and wants the lock, one reads users and wants users_eth.
Deadlock(r) ==
    /\ \E s \in Runner \ {r} : {pc[r], pc[s]} = {"selecting", "copied"}
    /\ Fail(r)

Step(r) ==
    \/ Connect(r) \/ Plan(r) \/ RunFile(r) \/ Select(r) \/ CopyAddresses(r)
    \/ AlterAddress(r) \/ DecodeAddresses(r) \/ Deadlock(r)

\* Every pod serves and none is restarted.
Done == (\A r \in Runner : pc[r] \in {"done", "none"}) /\ UNCHANGED vars

Next == (\E r \in Runner : Step(r) \/ Crash(r)) \/ Done

Spec == Init /\ [][Next]_vars

\* A container that failed is started again after a delay that doubles each
\* time, while the survivor of a deadlock needs only its own next statements: two
\* runners do not collide for ever.
BackOff == <>[][\A r \in Runner : ~Deadlock(r)]_vars

\* Every container runs.
FairSpec == Spec /\ BackOff /\ \A r \in Runner : WF_vars(Step(r))

-----------------------------------------------------------------------------
(* Properties.                                                             *)

TypeOK ==
    /\ versions \subseteq 1 .. Last
    /\ next \in [Runner -> 0 .. Last + 1]
    /\ pc \in [Runner -> {"connect", "plan", "run", "selecting", "copied",
                          "altered", "done", "none"}]
    /\ db.ok /\ crashes \in 0 .. MaxCrashes

\* Whatever runners race, crash and start again, the recorded versions have no
\* gap and the tables are exactly those of the highest one: a file is never
\* half applied, and applying it a second time fails or changes nothing.
SchemaIsVersion ==
    /\ versions = 1 .. Applied
    /\ db.cols = SchemaAt[Applied].cols
    /\ db.objs = SchemaAt[Applied].objs

\* File 20 sets every address to NULL on its way; no crash and no second runner
\* makes anybody lose a wallet, and nobody gets one.
AddressesSurvive ==
    /\ had \subseteq DOMAIN db.rows
    /\ \A p \in DOMAIN db.rows :
           "ethereum_address" \in DOMAIN db.cols =>
               db.rows[p]["ethereum_address"] =
                   IF p \notin had THEN Null
                   ELSE IF db.cols["ethereum_address"].type = "BYTEA" THEN "bytes"
                   ELSE "text"

\* The fields of models.User: column, kinds of SQL type, whether NULL is allowed.
Strings == {"TEXT", "CHAR", "VARCHAR"}
ModelColumns ==
    LET strings  == {"id", "auth_provider_id", "email_address", "email_confirmation_key",
                     "country_code", "ethereum_challenge", "referral_code",
                     "referring_user_id"}
        booleans == {"email_confirmed", "ethereum_confirmed", "in_app_wallet"}
        times    == {"created_at", "email_confirmation_sent_at", "agreed_tos_at",
                     "ethereum_challenge_sent", "referred_at", "migrated_at"}
    IN  [c \in strings \cup booleans \cup times \cup {"ethereum_address"} |->
            [types |-> CASE c \in strings -> Strings
                         [] c \in booleans -> {"BOOLEAN"}
                         [] c \in times -> {"TIMESTAMPTZ"}
                         [] c = "ethereum_address" -> {"BYTEA"},
             null |-> c \notin booleans \cup {"id", "auth_provider_id", "created_at"}]]

\* models/users.go:25, "User is an object representing the database table.": a pod
\* whose init container has finished reads a table with exactly the columns of
\* models.User.  SQLBoiler's select * can bind no other.
ServesModel ==
    (\E r \in Runner : pc[r] = "done") =>
        /\ DOMAIN db.cols = DOMAIN ModelColumns
        /\ \A c \in DOMAIN db.cols : /\ db.cols[c].type \in ModelColumns[c].types
                                     /\ db.cols[c].null = ModelColumns[c].null

\* A database that has not got to the last file that drops what earlier ones add is
\* migrated by one pod.  (Of two, the slower can add a column again.)
OnePodOrRecent ==
    \A s \in Start : s.version >= 16 \/ \A q, r \in s.pods : q = r

\* README.md:19, "With a fresh database you'll want to run the migrations": every
\* init container gets to the end of them, and its pod serves.
EveryPodStarts == \A r \in Runner : pc[r] # "none" => <>(pc[r] = "done")
=============================================================================
