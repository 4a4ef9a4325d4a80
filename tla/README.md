# users-api: a TLA+ verification project

users-api is DIMO's (deprecated) service for user records: an HTTP API and a
gRPC API over one PostgreSQL table, `users_api.users`. It no longer creates
users; it reads them, marks them as migrated, deletes them, and tells whether an
email's wallets are in use on chain. Several pods run at a time, each with its
own connection pool, and every request is a goroutine that makes a series of
calls (SQL, gRPC, JSON-RPC) without a transaction around them. What can go wrong
is what happens between those calls. That is what the models are about. Around
it lie the schema migrations, which every pod runs when it starts, and two large
pieces of generated code with behaviour of their own: the SQLBoiler model of the
table and the bindings of two contracts.

## 1. Inventory

| Component | Source | State | Operations | Model |
|---|---|---|---|---|
| users table | `models/users.go`, `migrations/` | rows, foreign key `users_referring_user_id_fkey` with ON DELETE SET NULL | select, update of a whole row, delete, eager load | `UsersTable` |
| write handlers | `user_controller.go` 288-358 | in-memory row, transaction, pool connection | `DeleteUser`, `SetMigrated` | `UserWrites`, abstract: `UserRegistry` |
| read handlers | `user_controller.go` 107-286 | objects loaded so far | `GetUser` (v1), `GetUserV2` | `UserReads` |
| gRPC service | `internal/api/users.go` | objects loaded so far | `GetUser`, `GetUserByEthAddr`, `GetUsersByEthereumAddress` | `UserReads` |
| check-email | `admin_handlers.go` | map address -> in-app, two counters | `CheckEmail` | `CheckEmail` |
| migrations | `migrations/*.sql`, `internal/database/migrate.go`, `main.go` 52-70 | recorded versions, columns, constraints, rows | `migrate` in each init container | `Migrations` |
| relationship methods | `models/users.go` 939-1143 | column, field and pointers of a referral | Set, Add, Remove and their loops | `UserRelations` |
| statements and their caches | `models/users.go` 1187-1334, 1403-1527, `boil_types.go`, `psql_upsert.go` | three caches shared by all goroutines | Insert, Update, Upsert | `UserStatements` |
| contract bindings | `contracts/token.go`, `contracts/multi.go` | iterators, subscriptions, channels | Filter, Next, Close, Watch, Unsubscribe for 27 events | `ContractLogs`, `EventIterator`, `EventWatch`, abstract: `LogDelivery` |
| start, routing, error handler | `cmd/users-api/main.go` | - | routes, `ErrorHandler` | in the guards and statuses of the above |
| devices-api, the chain, Kubernetes, goose, `shared/db`, go-ethereum | not in the repository | devices and NFTs of a user, balances, pods, pools | list calls, `BalanceOf`, restarts, subscriptions | external actions |
| config, protobuf, mocks, swagger, charts | generated code or data | - | - | not modelled |

Interactions. All handlers of all pods share the table. `DeleteUser` and
`computeWeb3Used` ask devices-api; `CheckEmail` asks the chain. The handlers of a
pod share its Writer pool (`DB.MaxOpenConnections`, 10 in the chart) and the
SQLBoiler caches. The init containers of all pods share the schema. There are no
messages, callbacks or background jobs in the program itself; the event code of
the bindings has goroutines and channels, but the program only calls `BalanceOf`.

Hard behaviours, each listed with its line under `hazards` in `PROJECT.json`:

* a check that is stale when it is used: the device list before the DELETE
  (312 / 321), the whole row SetMigrated writes back (342 / 353);
* a DELETE that is run on the pool although a transaction is open (298 / 321): it
  needs a second connection, and it is durable before `Commit` can fail;
* ways out of a handler after `BeginTx`, failed calls, pods killed half way;
* answers put together from several queries, while rows disappear and NFTs move;
* errors that are swallowed (`getUserByEth` 233, `computeWeb3Used` 245);
* random orders: Go's map iteration (`admin_handlers.go` 77), ties in ORDER BY;
* init containers of two replicas that migrate the schema at the same time, and
  a migration that sets a column to NULL on its way (`20240108120235` 10);
* goroutines that hand over logs through bounded channels while subscriptions
  end, connections break and callers stop reading (`token.go` 2894-3015);
* methods that keep a row, a field and two pointers together by several
  statements, any of which may fail (`models/users.go` 1019-1143);
* statements cached under keys made by running names together (`boil_types.go` 34).

What makes each component correct: users are only ever removed or re-stamped and
references never dangle (writes); what a request answered is true of the table
during, and where it can be after, the request (writes, reads); every request is
answered and no connection is lost (pools); each wallet is counted once and on
its side (check-email); every pod comes up with the schema of `models.User` and no
wallet is lost (migrations); the wanted events arrive in order and none is left
out, and what was started can be stopped (bindings); an object agrees with its
row, and a statement is the one that was asked for (SQLBoiler model).

## 2. Plan

1. `UsersTable`, `UserRegistry`, `UserWrites`: table, abstract promise, the
   concurrent write handlers; safety, refinement, liveness. **Done.**
2. `UserWritesProofs`: type correctness, every safety invariant of `UserWrites`
   and the refinement, for all values of the constants. **Done.**
3. `UserReads`, `UserReadsProofs`: the five read endpoints over the registry.
   **Done**, every property proved.
4. `CheckEmail`, `CheckEmailProofs`. **Done**, every property proved.
5. `Migrations`, `MigrationsProofs`: the Up direction of the 22 files, the head schema
   against `models/users.go`, concurrent and crashed runs. **Done**, every safety
   property proved.
6. `ContractLogs`, `LogDelivery`, `EventIterator`, `EventWatch` and their proofs: the event
   code of the bindings, its abstract promise, refinement and liveness. **Done**, safety
   and refinement proved.
7. `UserRelations`, `UserStatements` and their proofs: the rest of the SQLBoiler model
   that keeps state. **Done**, every property proved.

The liveness properties stay with TLC (section 6).

Module dependencies: `UserRegistry`, `UserWrites` and `UserReads` extend
`UsersTable`. `UserWrites` instantiates `UserRegistry` as what it implements;
`UserReads` instantiates it as its environment. So the composition is sound step
by step: the reads are checked against everything the registry allows, and the
write handlers are proved to do nothing the registry does not allow.
`EventIterator` and `EventWatch` extend `ContractLogs` and instantiate `LogDelivery`. Each
component has one module of proofs, which extends it and no other.
`Migrations`, `UserRelations` and `UserStatements` stand alone: the first ends where
the pods begin to serve, and the other two look at the objects of one program.

## 3. The modules

### UsersTable

The table is a function from user ids to rows or `Absent`. A row keeps
`referring_user_id`, `created_at`, whether `migrated_at` is set, and `attrs`, the
columns no handler assigns. `UpdateRow` is the UPDATE that `boil.Infer()` produces:
every column except `id` and `created_at`. `DeleteRow` includes ON DELETE SET NULL.
A single statement with its foreign-key triggers is atomic, as PostgreSQL makes
it (the check locks the referenced row).

### UserRegistry

The promise: `Remove(u)` and `SetMigratedAt(u, m)`, the latter clearing only in
the dev environment.

### UserWrites

Slots `Req` are requests in progress, each in a pod. `pc` names the call the
handler makes next; one action per call.

| Action | Code |
|---|---|
| `Receive` | the token's `sub` (`handlers.go` 21), routing (`main.go` 116) |
| `DeleteUserBeginTx` | 295-302: takes a connection; waits if there is none |
| `DeleteUserFindUser` | 304-310: 404, 500 or on |
| `DeleteUserListDevices` | 312-319: 409, 500 or on |
| `DeleteUserDelete` | 321-323: on the pool, needs a connection while it runs; an error may be reported for a statement that was executed |
| `DeleteUserCommit` | 325-331 |
| `SetMigratedGetUser` | 339-351, `getOrCreateUser` 141-155 (its 404 is answered as 500) |
| `SetMigratedUpdate` | 353-357: refused by the foreign key if the reference has gone; rows affected are discarded |
| `Return` | the answer and the deferred `Rollback` |
| `AddDevice`, `RemoveDevice`, `Crash` | devices-api; a pod killed and restarted |

A statement on the pool is one step that needs `free > 0` and gives the connection
back, so only transactions keep one between steps. `SetMigrated` reads through
`Reader`; that pool is not limited in the model (with a limit, more requests wait).
`rows` and `status` record what the statement did and what was answered; they
do not influence any step. No timeout or cancellation appears because there is
none in the code: the context of a fasthttp request outlives the client.

### UserReads

One request, in any table: reads change nothing, so requests meet each other only
through the table, and what one leaves behind is where another may start. Steps: `Query` (first query), `LoadReferrer` (eager load, a
query of its own), for `GetUser` with an `ethereum_address` claim `GetUserByEth`
and `LoadBetter`, then `Vehicles` and `Aftermarket` (`computeWeb3Used`). Between
any two, `OtherRequest` (a step of the registry) and, from the first call that looks at them, `Move` (NFTs). The gRPC
statuses NotFound and Internal appear as 404 and 500. `asked`, `held`, `owned` and
`failed` are history variables for the properties. Of `formatUser` the model keeps
whether the referrer is shown; the other fields are copies of one row. A gRPC request
may come without an address: nothing refuses it, and `WithAddress` is then
`ethereum_address IS NULL`, as `whereHelpernull_Bytes.EQ` is `WhereNullEQ`.

### CheckEmail

The accounts are read by one query, so they are fixed. `holders` gives per
contract the wallets with a non-zero balance; `Block` changes it arbitrarily
between two calls. `NextAddress` picks any address not yet visited, which is
Go's map order. Balances are `big.Int`, so there is no overflow; only `nonZero`
matters.

### Migrations

A database is a record of the columns of `users` with type and nullability, its
rows, the copy `users_eth`, and the names of the other tables, constraints and
indexes. One operator per file, written with one operator per kind of statement;
a statement that cannot be run fails its transaction. `SchemaAt[v]` is the
schema after the first `v` files.

| Action | Code |
|---|---|
| `Connect` | `migrate.go` 13-30: open, ping, CREATE SCHEMA IF NOT EXISTS |
| `Plan` | goose reads the recorded versions once and plans the files above the highest |
| `RunFile` | one transaction per file; its first statement takes the lock on the table, so it takes effect as a whole |
| `Select`, `CopyAddresses`, `AlterAddress`, `DecodeAddresses` | file 20, which starts with a read lock only |
| `Deadlock` | PostgreSQL ends one of two transactions that wait for each other in file 20 |
| `Crash` | the container is killed, or a statement fails for a reason of its own |

A failed run ends the process (`logger.Fatal`) and Kubernetes starts the container
again. `OnePodOrRecent` is the condition on `Start`, the versions and pods that a rollout
may begin with, under which the tables follow the versions: one pod, or a database
past file 16. Goose (v3.21.1) is external: it plans once, runs each file and the
insertion of its version in one transaction, and takes no lock. What else the
pods of an older release do to the table during a migration is not modelled.

### ContractLogs, LogDelivery

abigen writes the same code for each of the 27 events, in two files: iterator type,
`Next`, `Error`, `Close`, `Filter`, `Watch`, `Parse`. With the names of contract and
event replaced, and the rules and the fields of the struct taken out, the 27
blocks are equal character by character. So an event is a record of what is
left: the name it gives the library, the rules it passes, in their order, and the
indexed inputs of the ABI. Its "map" entry names the whole block, and
`EventIterator` and `EventWatch` are the block's code, for any event. The ABI of a
contract is on one line of its file; the rules are taken from the functions and the
inputs from the ABI, so that the two can disagree. The node (`Matches`) and
`UnpackLog` (`Unpacks`, `Unpack`, which is also all that `ParseX` does) are external.

`LogDelivery` is the promise to the caller of either: the wanted events, in the
order of the chain, each once, none left out; and if it is said that there are
no more, all of them.

### EventIterator

The caller (`CallNext`, `TakeLog`, `SubEnded`, `NoMore`, `Close`) and the goroutine of
`bind.FilterLogs` (`Push`, `End`) around a bounded channel. The `select` of `Next` is
the choice between `TakeLog` and `SubEnded`; the recursive call after the end of the
subscription is another round with `done` set. `Close` is `Unsubscribe` of
`event.NewSubscription`: it waits for the goroutine unless the flag is set.

### EventWatch

The node (`Emit`, `Arrive`, `NodeEnds`), the goroutine of `WatchX` with its two nested
selects (`TakeLog`, `Send`, `SubEnded`, `Quit`) and its deferred `Unsubscribe`
(`Deferred`), and the caller, who may read its sink slowly or not at all, read
`Err()`, and unsubscribe at any moment. `Finish` is what `event.NewSubscription` does
when the function returns: the error is kept only if the caller has not
unsubscribed. The sink has at least one place; an unbuffered sink (a rendezvous)
would add no behaviour of the goroutine but a step of two at once. `wanted` is a
history variable: the events the caller has asked for, in the order of the chain.

### UserRelations

One object per user: `ref` is its field, `one` and `many` are its pointers, `table` is the
column. Methods that run several statements stop before each (`op`), where another
caller's `DeleteUser` may come in (`OtherDelete`); every statement may fail, with what was
done before it left done. `doubt` is a history variable: objects that a failed
method or a DELETE has left behind, about which the properties say nothing
until the next method that puts them right. A method that succeeds puts nobody into
it: an object that `SetReferringUserUsers` does not find in the list of the user is
left naming a referrer that its row no longer has, and `MisledOnlyIfUnlisted` says that
this is the only way to get there. The environment is deletions only; that
`SetMigrated` of another caller writes `referring_user_id` back with the rest of the row
(`user_controller.go` 353) is part of `UserWrites`, not of this module.

### UserStatements

`Begin` is a call up to its statement (timestamps, columns with a default, key,
look into the cache, and the building of the statement if it is not there), `Exec`
the statement and the reading of what it returns, `Store` the write to the cache. The
three critical sections are under the mutex of the cache and are atomic; between
them anything may happen. Columns are one per class that the code tells apart:
key, NOT NULL, with a default. A name is the sequence of its pieces, so that one
name can be the beginning of another and a key made of names without separators
can be ambiguous. `boil.Columns` is external. The options of `Upsert` are part of the
arguments (`opts`) and of the statement, but not of the key, as in the code. Both are
SQL text in the code; here a conflict target is a list of columns, and an update set
the list of the columns that it sets to their EXCLUDED value, as the generated SET
list does. An update set with other expressions is not modelled: the object is then
wrong in the columns it assigns as it is in those it leaves alone.

## 4. Runs

| Run | Checks | Instance |
|---|---|---|
| `writes` | `TypeOK`, `ReferentialIntegrity`, `WriteBackIsFresh`, `DeleteAnswerIsTrue`, `NoConnectionLeak`, `SecondConnectionAvailable`, `ImplementsRegistry`, `EveryRequestAnswered` | 2 users, 2 requests in a pod with 3 connections, not dev |
| `delete_with_devices` | violation of `FailsIfUserHasDevices` | 1 request |
| `migrated_ack` | violation of `SuccessMeansMigrated` | 2 requests |
| `pool_exhausted` | violation of `EveryDeleteAnswered` | 2 requests, 2 connections |
| `reads` | `TypeOK`, `ReferrerIsTrue`, `ConfirmedEmailPreferred`, `MigrationVisible`, `CallerServed`, `UsedIsSound`, `LookupExact` | 5 endpoints, 2 users, 1 wallet, requests with and without an address, 4 kinds of account (one of them marked confirmed without an address), 2 timestamps |
| `check_email` | `TypeOK`, `CountsExact` | 2 wallets, 2 accounts of 7 kinds |
| `migrate` | `TypeOK`, `SchemaIsVersion`, `AddressesSurvive`, `ServesModel`, `EveryPodStarts` | 1 init container from every version 0-22, 2 from versions 16-22; 2 users, 2 crashes |
| `migrate_wedged` | violation of `EveryPodStarts` | 2 init containers, fresh database, no crash |
| `iterator` | `TypeOK`, `ClosedReleases`, `ImplementsDelivery`, `CallsReturn` | 27 events, all arguments over 2 values, up to 2 logs (malformed ones for the events with fewer than 3 indexed inputs), channel of 1 |
| `watch` | `TypeOK`, `StoppedReleases`, `ErrorIsTold`, `ImplementsDelivery`, `UnsubscribeEnds`, `EventsArrive` | 27 events, all arguments over 2 values, up to 2 logs (malformed ones as above), channel and sink of 1 |
| `relations` | `TypeOK`, `PointerAgrees`, `Replaces`, `MisledOnlyIfUnlisted` | 3 users, 3 calls, lists of up to 2 |
| `statements` | `TypeOK`, `OwnStatement`, `ObjectIsRow` | 2 goroutines, 2 calls out of 11 Inserts, 11 Updates and 72 Upserts, 24 of them with options |

Bounds. Two users suffice for a user and its referrer, for two records of a
wallet and for a request about somebody else; two requests are a deletion and
what it meets. `MaxDevices = 1` distinguishes none from some. The theorems of
section 6 remove the bounds for the safety properties of every module. Two init
containers are the two replicas of `values-prod.yaml`; each may run any file at any time the other is at any
other file. A channel of one place is full and empty as often as possible: with
two logs a goroutine is blocked on the second while nobody takes the first. Three users are a user, a referrer and a bystander, three calls enough
to build a relation, change it and take it back. For a cache two calls suffice:
one that fills it and one that finds what is there. Symmetry is used for user ids
and goroutines, in runs without liveness only.

Deadlock checking is on except in `relations` and `statements`, where the callers stop
after a bounded number of calls. In `UserWrites` it says little by itself,
because a new request or a crash is nearly always possible; that requests wait
for each other is found by the liveness property.

Fairness. `Migrations`: each container runs (weak fairness of its steps), and `BackOff`,
two containers do not run into the deadlock of file 20 for ever: the one that
PostgreSQL ends is restarted by Kubernetes after a delay, while the other one needs
no more than its own next statements. `EventIterator` and `EventWatch`: the goroutines
run; nothing is assumed of the caller, who may stop calling and stop reading.
`EventsArrive` is stated under `Reading`: the node delivers and the caller reads.
`UserWrites`: strong fairness of each request's next call. The Go scheduler
runs every goroutine; PostgreSQL and devices-api answer or fail every call (the
model lets any call fail); `database/sql` hands a returned connection to one of the
waiting goroutines, chosen at random, so a waiter is not passed over for ever.
Nothing is assumed about crashes or new requests.

## 5. Findings

1. `delete_with_devices`: "Fails if the user has any devices" (289) does not
   hold for a device added between the list and the DELETE.
2. `migrated_ack`: `SetMigrated` answers 204 although the row was deleted after it
   was read and nothing was set; the number of rows is discarded (353).
3. `pool_exhausted`: `DeleteUser` holds the connection of its transaction while its
   DELETE, which is run on the pool instead of the transaction, waits for another
   (298 / 321). As many concurrent deletions as there are connections block each
   other for ever; the liveness probe does not use the database and keeps the pod
   alive. With one connection more than requests in progress this cannot happen
   (`writes`, theorem `SecondConnection`).
4. `migrate_wedged`: two init containers on a fresh database. The one that planned
   early can add `referral_code` (file 5) again after file 16 has dropped it, which
   makes file 17 fail in every attempt of every pod from then on. The same race with
   files 10 and 11 leaves `referrer_id` or `referrals` in the database, and a pod
   serves with a table that `models.User` does not match (`ServesModel`, with
   `TwoPodsAtOnce`). From version 16 on neither can happen (`migrate`): a file that is
   run again fails and changes nothing.

Where the code does less than a comment says. These follow from the code as
modelled, without any interleaving, and have no run of their own:

* `user_controller.go` 171 promises the record with the confirmed email for GET
  /v2/user; the code that did this is commented out (191-204). GET /v1/user replaces
  the token's record by the best one of its wallet without comparing the two, so a
  confirmed email can give way to an unconfirmed one (235). What holds is
  `ConfirmedEmailPreferred`.
* `admin_handlers.go` 134: `InUse` is about on-chain assets, not about whether the
  email is attached to a user.
* `token.go` 2938, "Close terminates the iteration process": a closed iterator goes on
  with the logs left in its channel. What holds is `ClosedReleases`.
* `models/users.go` 988: `RemoveReferringUser` leaves `o` in the list of the related object
  and removes somebody else or nobody, since it compares with the field it has
  cleared (1005). (Should `queries.Equal` say that two NULLs differ, the first of the
  list is removed, whoever it is.)
* `models/users.go` 1072-1077: `SetReferringUserUsers` "removes all previously related
  items", but finds the objects to clear by its own list, so an object that names the
  user without being in the list keeps a referrer that its row has lost, and its next
  `Update` writes the referral back. What holds is `Replaces` for the rows and
  `MisledOnlyIfUnlisted` for the objects.
* `psql_upsert.go` 33: the options of `Upsert` are not part of the cache's key
  (`models/users.go` 1421-1446), so a call with `UpsertUpdateSet` runs the cached
  statement of one without, or one without that of one with. What holds is
  `OwnStatement`. And what is read back is computed without them (1472): after a
  conflict the object keeps its value in the columns that the update set leaves out,
  which the row did not take. What holds is `ObjectIsRow`.

The last four are about generated code that the program does not call today.

Also worth knowing: a gRPC lookup without an address (`api/users.go` 77, 95) is not
refused but answered with the accounts that are marked confirmed and have no
address, if there are any; `AddReferringUserUsers` takes an UPDATE that found no row for
a success; the Down section of `20230323103558` is no valid SQL; `migrate down-to V`
is given to goose as one word; an error of the second lookup of `GetUser` is
swallowed, so the record served can change from one request to the next; a
wallet whose only NFT moves to another wallet of the same email during
`CheckEmail` may be counted on both or on neither side (`CountsExact` states what
is left: what holds all through the request counts, what never holds does not).

## 6. Proofs

Every invariant, action property and refinement that a passing run checks is also
proved, for every value of the constants that satisfies the assumption of its
module. The assumptions are what the program guarantees by itself:

| Assumption | Says |
|---|---|
| `TableAssumption` | NULL is no id, `Absent` is no row |
| `WritesAssumption` | finitely many slots, each in a pod; at least one connection |
| `ReadsAssumption` | finitely many users; accounts have the columns that the queries and handlers look at |
| `CheckAssumption` | accounts as above; finitely many wallets; a malformed or missing address is no wallet |
| `IteratorAssumption`, `WatchAssumption` | the events are among the 27 of the bindings, their logs are logs; channels have at least one place |
| `MigrationsAssumption` | a start is a version out of 0 to 22 and a set of pods |
| `RelationsAssumption` | NULL is no user |
| `StatementsAssumption` | calls are Inserts, Updates and Upserts with lists of columns of the table, in their options too |

What is not a parameter stays as it is in the module: two related users at most
per call in `UserRelations`, one column per class in `UserStatements`.

### UserWritesProofs

| Theorem | Property |
|---|---|
| `TypeCorrect` | `TypeOK` |
| `ConnectionsReturned` | `NoConnectionLeak` |
| `SecondConnection` | `SecondConnectionAvailable` |
| `IntegrityKept` | `ReferentialIntegrity` |
| `NoLostUpdate` | `WriteBackIsFresh` |
| `RegistryImplemented` | `ImplementsRegistry` |
| `AnswersTrue` | `DeleteAnswerIsTrue` |

Three inductive invariants, each on top of the last:

* `PoolInv` = `TypeOK`, `NoConnectionLeak`, `InProgress`. `TypeOK` is not inductive: that
  `free` never exceeds its limit needs the accounting (what is missing is held by
  open transactions, `OpenTx`, `CloseTx`), and that the table stays a table needs to
  know that a request in progress has a user and a pending write-back a row.
* `TableInv` adds `ReferentialIntegrity` and `WriteBackIsFresh`. The argument: the table
  only shrinks, and no column but `migrated_at` and, through ON DELETE SET NULL,
  `referring_user_id` ever changes. So the row SetMigrated holds is either still
  right in everything but `migrated_at`, or carries a reference to a deleted user,
  which the foreign key refuses. `TableStep` turns this into: every step is, for the
  table, a stutter, a `Remove` or a `SetMigratedAt`. Integrity is needed there too:
  a DELETE of a missing row is a stutter only if nobody refers to it.
* `AnswerInv` adds what a request has recorded (`Recorded`) and `DeleteAnswerIsTrue`,
  using that nobody ever comes back (`TableKeeps`).

### UserReadsProofs

| Theorem | Property |
|---|---|
| `ReferrerTrue` | `ReferrerIsTrue` |
| `EmailPreferred` | `ConfirmedEmailPreferred` |
| `MigrationIsVisible` | `MigrationVisible` |
| `CallerIsServed` | `CallerServed` |
| `LookupsAreExact` | `LookupExact` |
| `UsedSound` | `UsedIsSound` |
| `TypesHold` | `TypeOK` |

The properties compare an answer with the table before and after. The invariant
puts three forms of a row in a line: in the table when the request arrived
(`asked`), in the object that was loaded (`found`, `better`), and in the table now. Each
is an earlier form of the next (`Becomes`): only `migrated_at` may have been set and
`referring_user_id` cleared, and nobody comes back (`Follows`). That this survives
the steps of other requests (`OtherRequestKeeps`) uses only that they are steps of the
registry, which `RegistryImplemented` proves of the write handlers. The
referrer needs more than that: an eager load that finds none proves that the
referrer is gone for good (`Whole`). For `ConfirmedEmailPreferred` the invariant has
to say of a lookup that found an unconfirmed record, or nothing, that no confirmed
one is left (`LookupInv`), which stays true because no account is created. `ListInv` says
the same of the lookups by address, and that what was found had the address: with
`Sound` it then had it when the request arrived, too.

### CheckEmailProofs

`CountsAreExact` proves `CountsExact`, `TypesHold` proves `TypeOK`. `CountsExact` is about the
answer only; the invariant `Counted` says the same of the addresses the loop has
finished with (`Seen`), whatever the order. `History` (held throughout => held now => held
once) carries it over the blocks that come in between. In the middle of an
address `LoopInv` remembers what was found to be zero, so that an address that ends
with three zeros has held nothing of any kind throughout.

### EventIteratorProofs, EventWatchProofs

| Theorem | Property |
|---|---|
| `EventIteratorProofs!IteratorDelivers` | `ImplementsDelivery` (refinement of `LogDelivery`) |
| `EventIteratorProofs!CloseReleases` | `ClosedReleases` |
| `EventWatchProofs!WatchDelivers` | `ImplementsDelivery` |
| `EventWatchProofs!StopReleases` | `StoppedReleases` |
| `EventWatchProofs!ErrorsAreTold` | `ErrorIsTold` |
| `TypesHold` of both | `TypeOK` |

In both, `WellBound` is shown for each of the 27 events: the rules are passed in the
order of the indexed inputs. From it follows `WantedIsMatched`: the logs the node is
asked for are, if they unpack, those the caller wants.

The iterator is given its logs at once, so that its proof compares what `Among`
selects from the same sequence by the node's condition and by the caller's
(`AmongAgree`). Its `Flow`: the matching logs are, in their order, those delivered,
those in the channel and those still to come. `Flags` says that after the end of
the subscription nothing is left with the goroutine, which is why `Next` may say
that there are no more.

The watch has a chain that grows, and remembers what the caller has wanted of it
(`wanted`, a history variable). Its `Flow` is about the logs on their way: the one the
goroutine holds, then those in the channel, then those still to come (`At`). The first `k`
of them, as long as all can be unpacked, are the next `k` wanted events after those
sent, and while the subscription lasts they are all that is missing. The
condition is needed: the goroutine ends at the first log that it cannot unpack, and
nothing behind it is ever sent. `Life` and `Endings` tie the stages of node, goroutine
and caller together, which neither `StoppedReleases` nor `ErrorIsTold` does by itself.

### UserRelationsProofs

`PointersAgree`, `SetReplaces`, `MisledIfUnlisted` and `TypesHold` prove `PointerAgrees`,
`Replaces`, `MisledOnlyIfUnlisted` (an action property) and `TypeOK`. The first speaks of
the moments between methods. In the middle of `AddReferringUserUsers` it is false: fields
are set statement by statement, pointers only at the end. The invariant (`Agrees`)
excepts the objects `Handled` and says of them what the end of the method needs:
their field names the user already. There is one lemma per method and per round
of a loop, each with the outcome in which the statement fails; each also shows what
the step does to objects and rows (`Kept`): nobody new is misled, or the object was
`Missed`.

### UserStatementsProofs

`OwnStatements`, `ObjectsAreRows` and `TypesHold` prove `OwnStatement`, `ObjectIsRow` (an action
property) and `TypeOK`. `ExactStatements` adds that in a program in which equal arguments
come with equal options (`OptionsFollow`) no call runs a statement other than its
own. The invariant `CachesSound` says that what is in a cache was built
for some call with its key. This is only of use if two calls with the same key
call for the same statement, or differ in their options only (`KeyDetermines`), the
heart of the proof: names are
run together without separators, and `ethereum_challenge` is the beginning of
`ethereum_challenge_sent`. `NamesInjective` reads a list of names back from its last
name on; `Split`, `SpelledBack`, `CacheKeyBack` and `UpsertKeyBack` take a key apart at its
dots and kinds, neither of which is a piece of a name.

### MigrationsProofs

| Theorem | Property | For |
|---|---|---|
| `NoAddressLost` | `AddressesSurvive` | every start |
| `TypeCorrect` | `TypeOK` | every start |
| `SchemaFollows` | `SchemaIsVersion` | `OnePodOrRecent` |
| `FinishedServes` | `ServesModel` | `OnePodOrRecent` |

The condition of the last two is needed: with two pods on an older database both
properties are false (finding 4). The other two hold there as well, even for a
database that is then stuck.

Three arguments, on top of `RunInv` (`TypeOK`, `Counts`, `Locks`): the recorded versions have
no gap, no runner is more than one file ahead of them, and inside file 20 a runner
holds what its statements make of the committed database, which nobody else can
change as long as they do (`Locks`). So every step commits a whole file, as applied to
the database of that moment, or commits nothing (`StepKind`).

* Addresses. `Sound` says who has an address and that every row has the columns of
  the table. Every file keeps it on every database it does not fail on
  (`SoundUp`), whatever has been applied before. File 20 (`SoundConvert`) clears
  the column and fills it from a copy made in the same transaction; where the addresses
  are bytes already, `decode` has no variant for them and the transaction fails.
* Tables. `SchemaAt` follows a database without users, and the one that is migrated has
  some: an UPDATE or a SET NOT NULL may behave differently. `AgreeUp` shows that
  a file that does not fail does the same to the tables of both. The schemas are
  then followed file by file (`Shape2` to `Shape22`): none of the 22 files fails on an
  empty database, and the last schema is the table of `models.User` (`LastServes`).
* Repetition. Under `OnePodOrRecent` a runner applies the next file, or one past 16
  again (`Orderly`), and the latter fails or changes nothing (`Repeated`): files 17, 19, 20,
  21 and 22 fail, file 18 fails or sets types that are set. `SchemaInv` puts this together.

### Induction

`Among`, `Names` and `SchemaAt` are recursive functions of a number. What they
compute is proved for every number, without an induction theorem that takes a
predicate: `SetInduction`, from the least element of a set of numbers, is stated for
sets, and the set is the one of the numbers for which the claim holds.

### Only model-checked

* The liveness properties `EveryRequestAnswered`, `EveryPodStarts`, `CallsReturn`,
  `UnsubscribeEnds` and `EventsArrive`: the provers have neither fairness nor ENABLED.
* The four violations, which are facts about one behaviour each.

## 7. Not modelled

The Down sections of the migrations: nothing runs them but an operator by hand.
Of `models/users.go` the methods that neither keep state nor are called: `UpdateAll`,
`DeleteAll`, `ReloadAll`, counts, `LoadReferringUserUsers`, and hooks (none is registered).
Of the contract bindings the wrappers of calls and transactions, one library call
each, and the deprecated constructors. Protobuf code, the mock client and
`docs.go`: generated tables, encoders and stubs without state of their own. JWT
validation, request parsing, JSON encoding, logging, metrics, swagger and the
health check: library I/O. The values of timestamps, addresses and codes beyond
the distinctions named above. The clients of the service.
