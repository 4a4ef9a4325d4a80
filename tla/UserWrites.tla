----------------------------- MODULE UserWrites -----------------------------
(***************************************************************************)
(* The two handlers of internal/controllers/user_controller.go that write  *)
(* the users table, DeleteUser and SetMigrated, as they run concurrently   *)
(* in the pods of the service.  Every call that leaves the process (SQL    *)
(* statement, gRPC call) is a step of its own and may fail; between two    *)
(* steps any other request, the devices service or a crash may intervene.  *)
(*                                                                         *)
(* free[p] counts the connections pod p may still take from its Writer     *)
(* pool.  A transaction keeps one from BeginTx to Commit or Rollback; a    *)
(* statement run on the pool itself needs one while it executes.           *)
(***************************************************************************)
EXTENDS UsersTable, Naturals, FiniteSets

CONSTANTS DevEnv,       \* Settings.Environment = "dev"
          Pod,          \* running instances of the service
          Req,          \* request slots: what the instances serve at a time
          PodOf,        \* the pod that serves a slot
          MaxOpen,      \* DB.MaxOpenConnections of each pod
          MaxDevices    \* bound on the devices of a user

ASSUME WritesAssumption ==
    /\ DevEnv \in BOOLEAN
    /\ PodOf \in [Req -> Pod]
    /\ IsFiniteSet(Req)
    /\ MaxOpen \in Nat \ {0}
    /\ MaxDevices \in Nat

VARIABLES users,    \* the table
          devices,  \* devices-api: number of devices a user has
          free,     \* per pod: connections left in the Writer pool
          pc,       \* per slot: the call the handler makes next
          op,       \* per slot: the handler of the last request
          sub,      \* per slot: the user id of the token ("sub" claim)
          obj,      \* per slot: the row SetMigrated holds in memory
          tx,       \* per slot: a transaction is open
          rows,     \* per slot: rows the statement affected (never read)
          status    \* per slot: status of the last answer, 0 before it

vars == <<users, devices, free, pc, op, sub, obj, tx, rows, status>>

Handler == {"DeleteUser", "SetMigrated"}
Label   == {"idle", "beginTx", "findUser", "listDevices", "delete", "commit",
            "getUser", "update"}
Status  == {0, 204, 404, 409, 500}

TypeOK ==
    /\ users \in Table
    /\ devices \in [User -> 0 .. MaxDevices]
    /\ free \in [Pod -> 0 .. MaxOpen]
    /\ pc \in [Req -> Label]
    /\ op \in [Req -> Handler \cup {"none"}]
    /\ sub \in [Req -> User \cup {NULL}]
    /\ obj \in [Req -> Row \cup {Absent}]
    /\ tx \in [Req -> BOOLEAN]
    /\ rows \in [Req -> {0, 1}]
    /\ status \in [Req -> Status]

Init ==
    /\ users \in Table /\ ForeignKeyHolds(users)
    /\ devices \in [User -> 0 .. MaxDevices]
    /\ free = [p \in Pod |-> MaxOpen]
    /\ pc = [r \in Req |-> "idle"]
    /\ op = [r \in Req |-> "none"]
    /\ sub = [r \in Req |-> NULL]
    /\ obj = [r \in Req |-> Absent]
    /\ tx = [r \in Req |-> FALSE]
    /\ rows = [r \in Req |-> 0]
    /\ status = [r \in Req |-> 0]

-----------------------------------------------------------------------------
(* Steps shared by the handlers.                                           *)

Goto(r, l) == pc' = [pc EXCEPT ![r] = l]

\* Mutant: no deferred Rollback, a transaction not committed stays open.
ReturnWithoutRollback(r, code) ==
    /\ Goto(r, "idle")
    /\ status' = [status EXCEPT ![r] = code]
    /\ obj' = [obj EXCEPT ![r] = Absent]
    /\ tx' = [tx EXCEPT ![r] = FALSE]
    /\ free' = IF tx[r] /\ pc[r] = "commit"
               THEN [free EXCEPT ![PodOf[r]] = @ + 1]
               ELSE free

\* Mutant: the release does not look whether a transaction is open.
ReturnReleasingAlways(r, code) ==
    /\ Goto(r, "idle")
    /\ status' = [status EXCEPT ![r] = code]
    /\ obj' = [obj EXCEPT ![r] = Absent]
    /\ tx' = [tx EXCEPT ![r] = FALSE]
    /\ free' = [free EXCEPT ![PodOf[r]] = @ + 1]

\* The handler answers; its deferred Rollback ends a transaction still open.
Return(r, code) ==
    /\ Goto(r, "idle")
    /\ status' = [status EXCEPT ![r] = code]
    /\ obj' = [obj EXCEPT ![r] = Absent]
    /\ tx' = [tx EXCEPT ![r] = FALSE]
    /\ free' = IF tx[r] THEN [free EXCEPT ![PodOf[r]] = @ + 1] ELSE free

\* A connection of the pod's Writer pool can be had.
ConnAvailable(r) == free[PodOf[r]] > 0

\* The authenticated request of user u reaches handler h.
Receive(r, h, u) ==
    /\ pc[r] = "idle"
    /\ Goto(r, IF h = "DeleteUser" THEN "beginTx" ELSE "getUser")
    /\ op' = [op EXCEPT ![r] = h]
    /\ sub' = [sub EXCEPT ![r] = u]
    /\ rows' = [rows EXCEPT ![r] = 0]
    /\ status' = [status EXCEPT ![r] = 0]
    /\ UNCHANGED <<users, devices, free, obj, tx>>

-----------------------------------------------------------------------------
(* DeleteUser.                                                             *)

DeleteUserBeginTx(r) ==
    /\ pc[r] = "beginTx"
    /\ ConnAvailable(r)
    /\ \/ /\ tx' = [tx EXCEPT ![r] = TRUE]
          /\ free' = [free EXCEPT ![PodOf[r]] = @ - 1]
          /\ Goto(r, "findUser")
          /\ UNCHANGED <<obj, status>>
       \/ Return(r, 500)
    /\ UNCHANGED <<users, devices, op, sub, rows>>

\* Mutant: every error of FindUser is taken for sql.ErrNoRows.
DeleteUserFindUserErrIs404(r) ==
    /\ pc[r] = "findUser"
    /\ \/ /\ users[sub[r]] # Absent
          /\ Goto(r, "listDevices")
          /\ UNCHANGED <<free, obj, tx, status>>
       \/ Return(r, 404)
    /\ UNCHANGED <<users, devices, op, sub, rows>>

DeleteUserFindUser(r) ==
    /\ pc[r] = "findUser"
    /\ \/ /\ users[sub[r]] # Absent
          /\ Goto(r, "listDevices")
          /\ UNCHANGED <<free, obj, tx, status>>
       \/ users[sub[r]] = Absent /\ Return(r, 404)
       \/ Return(r, 500)
    /\ UNCHANGED <<users, devices, op, sub, rows>>

DeleteUserListDevices(r) ==
    /\ pc[r] = "listDevices"
    /\ \/ /\ devices[sub[r]] = 0
          /\ Goto(r, "delete")
          /\ UNCHANGED <<free, obj, tx, status>>
       \/ devices[sub[r]] > 0 /\ Return(r, 409)
       \/ Return(r, 500)
    /\ UNCHANGED <<users, devices, op, sub, rows>>

\* The DELETE runs on the pool, not in the transaction: it needs a second
\* connection, and it is durable when it returns.  An error may be reported
\* for a statement that was executed (the reply was lost).
DeleteUserDelete(r) ==
    /\ pc[r] = "delete"
    /\ ConnAvailable(r)
    /\ \/ /\ users' = DeleteRow(users, sub[r])
          /\ rows' = [rows EXCEPT ![r] = IF users[sub[r]] = Absent THEN 0 ELSE 1]
          /\ \/ Goto(r, "commit") /\ UNCHANGED <<free, obj, tx, status>>
             \/ Return(r, 500)
       \/ Return(r, 500) /\ UNCHANGED <<users, rows>>
    /\ UNCHANGED <<devices, op, sub>>

\* Commit ends a transaction that only read; it returns its connection
\* whether or not it succeeds.
DeleteUserCommit(r) ==
    /\ pc[r] = "commit"
    /\ Return(r, 204) \/ Return(r, 500)
    /\ UNCHANGED <<users, devices, op, sub, rows>>

DeleteUser(r) ==
    \/ DeleteUserBeginTx(r)
    \/ DeleteUserFindUser(r)
    \/ DeleteUserListDevices(r)
    \/ DeleteUserDelete(r)
    \/ DeleteUserCommit(r)

-----------------------------------------------------------------------------
(* SetMigrated.                                                            *)

\* getOrCreateUser reads the row (it creates nothing); its 404 is answered
\* as a 500.  The timestamp is then set in memory, or cleared when a dev
\* environment is asked to.
SetMigratedGetUser(r) ==
    /\ pc[r] = "getUser"
    /\ \/ /\ users[sub[r]] # Absent
          /\ \E m \in BOOLEAN :
                /\ m \/ DevEnv
                /\ obj' = [obj EXCEPT
                             ![r] = [users[sub[r]] EXCEPT !.migrated_at = m]]
          /\ Goto(r, "update")
          /\ UNCHANGED <<free, tx, status>>
       \/ Return(r, 500)
    /\ UNCHANGED <<users, devices, op, sub, rows>>

\* Update writes the whole object back; the number of rows is discarded.
SetMigratedUpdate(r) ==
    /\ pc[r] = "update"
    /\ ConnAvailable(r)
    /\ \/ /\ users[sub[r]] = Absent \/ ~ViolatesForeignKey(users, obj[r])
          /\ users' = UpdateRow(users, sub[r], obj[r])
          /\ rows' = [rows EXCEPT ![r] = IF users[sub[r]] = Absent THEN 0 ELSE 1]
          /\ Return(r, 204) \/ Return(r, 500)
       \/ Return(r, 500) /\ UNCHANGED <<users, rows>>
    /\ UNCHANGED <<devices, op, sub>>

SetMigrated(r) == SetMigratedGetUser(r) \/ SetMigratedUpdate(r)

-----------------------------------------------------------------------------
(* The environment.                                                        *)

\* devices-api (external) gives the user a device, or takes one away.
AddDevice(u) ==
    /\ devices[u] < MaxDevices
    /\ devices' = [devices EXCEPT ![u] = @ + 1]
    /\ UNCHANGED <<users, free, pc, op, sub, obj, tx, rows, status>>

RemoveDevice(u) ==
    /\ devices[u] > 0
    /\ devices' = [devices EXCEPT ![u] = @ - 1]
    /\ UNCHANGED <<users, free, pc, op, sub, obj, tx, rows, status>>

\* A pod is killed and restarted: its requests in progress are never
\* answered, the database rolls back its transactions, and the new process
\* starts with an empty pool.
Crash(p) ==
    LET lost == {r \in Req : PodOf[r] = p /\ pc[r] # "idle"}
    IN  /\ lost # {}
        /\ pc' = [r \in Req |-> IF r \in lost THEN "idle" ELSE pc[r]]
        /\ op' = [r \in Req |-> IF r \in lost THEN "none" ELSE op[r]]
        /\ obj' = [r \in Req |-> IF r \in lost THEN Absent ELSE obj[r]]
        /\ tx' = [r \in Req |-> IF r \in lost THEN FALSE ELSE tx[r]]
        /\ free' = [free EXCEPT ![p] = MaxOpen]
        /\ UNCHANGED <<users, devices, sub, rows, status>>

Handle(r) == DeleteUser(r) \/ SetMigrated(r)

Next ==
    \/ \E r \in Req : Handle(r)
    \/ \E r \in Req, h \in Handler, u \in User : Receive(r, h, u)
    \/ \E u \in User : AddDevice(u) \/ RemoveDevice(u)
    \/ \E p \in Pod : Crash(p)

Spec == Init /\ [][Next]_vars

\* A handler that can go on does: the scheduler runs every goroutine, the
\* database and devices-api answer or fail every call, and database/sql
\* serves the goroutines waiting for a connection in random order, so none
\* is passed over for ever.
FairSpec == Spec /\ \A r \in Req : SF_vars(Handle(r))
-----------------------------------------------------------------------------
(* Properties.                                                             *)

\* Referential integrity: the whole-row write-back of SetMigrated never
\* brings back a reference to a referrer that a DeleteUser removed after
\* SetMigrated had read the row.
ReferentialIntegrity == ForeignKeyHolds(users)

\* o differs from row u of table t, if there still is one, only in
\* migrated_at and in a reference that the table has dropped.
Fresh(t, u, o) ==
    t[u] # Absent =>
        /\ o.attrs = t[u].attrs
        /\ \/ o.referring_user_id = t[u].referring_user_id
           \/ t[u].referring_user_id = NULL /\ ViolatesForeignKey(t, o)

\* The row SetMigrated holds in memory differs from the table's, until it is
\* written back, only in migrated_at and in a reference whose target has been
\* deleted (which the foreign key will then refuse): the write-back of the
\* whole row loses nobody's update.
WriteBackIsFresh ==
    \A r \in Req : pc[r] = "update" => Fresh(users, sub[r], obj[r])

\* What DeleteUser answers is true for good: after 204 or 404 the user is not
\* in the table, and a request answered 409 (or 404) has deleted nothing.
DeleteAnswerIsTrue ==
    \A r \in Req : op[r] = "DeleteUser" =>
        /\ status[r] \in {204, 404} => users[sub[r]] = Absent
        /\ status[r] \in {404, 409} => rows[r] = 0

\* The requests of a pod, and those of them that have a transaction open.
Slots(p)   == {r \in Req : PodOf[r] = p}
Holders(p) == {r \in Slots(p) : tx[r]}

\* No path through a handler leaks a connection: what a pod's pool lacks is
\* exactly what its open transactions hold, and only requests in progress
\* hold transactions.
NoConnectionLeak ==
    /\ \A p \in Pod : free[p] + Cardinality(Holders(p)) = MaxOpen
    /\ \A r \in Req : tx[r] => pc[r] \notin {"idle", "beginTx"}

\* The requests a pod serves at a time are fewer than its connections.
LightLoad == \A p \in Pod : Cardinality(Slots(p)) < MaxOpen

\* Under a light load a DeleteUser that holds its transaction's connection
\* can always get the second one its DELETE needs.
SecondConnectionAvailable ==
    LightLoad => \A r \in Req : pc[r] = "delete" => ConnAvailable(r)

\* The handlers implement the registry: seen from the table, every
\* interleaving of their steps is a sequence of removals and of changes to
\* migrated_at alone.
Registry == INSTANCE UserRegistry
ImplementsRegistry == Registry!Spec

\* Every request is eventually answered (or its pod crashes).
EveryRequestAnswered == \A r \in Req : pc[r] # "idle" ~> pc[r] = "idle"

\* user_controller.go:289-293: DELETE /v1/user deletes the user or fails, with
\* one of the listed statuses; so every such request is answered.
EveryDeleteAnswered ==
    \A r \in Req : pc[r] = "beginTx" ~> pc[r] = "idle"

\* user_controller.go:289, "Fails if the user has any devices": the step that
\* removes a user finds it without devices.
FailsIfUserHasDevices ==
    [][\A u \in User : users[u] # Absent /\ users'[u] = Absent
                           => devices[u] = 0]_vars

\* user_controller.go:335-336, "Sets the migration timestamp", "@Success 204":
\* a SetMigrated answered 204 has written a row.
SuccessMeansMigrated ==
    \A r \in Req : op[r] = "SetMigrated" /\ status[r] = 204 => rows[r] = 1
=============================================================================
