-------------------------- MODULE UserWritesProofs --------------------------
(***************************************************************************)
(* Theorems about UserWrites, for every table, every set of pods and       *)
(* request slots, and every pool size.  Two inductive invariants carry     *)
(* them.  PoolInv ties the free connections of a pod to its open           *)
(* transactions: without it not even the bounds on free are inductive.     *)
(* TableInv adds what a handler knows about the table between two of its   *)
(* calls: it makes the write-back of SetMigrated a change to one column.   *)
(***************************************************************************)
EXTENDS UserWrites, FiniteSetTheorems, TLAPS

\* A request in progress has a user, and a pending write-back has a row whose
\* timestamp was set, or cleared in the dev environment.
InProgress ==
    \A r \in Req :
        /\ pc[r] # "idle" => sub[r] \in User
        /\ pc[r] = "update" =>
              obj[r] \in Row /\ (obj[r].migrated_at \/ DevEnv)

PoolInv == TypeOK /\ NoConnectionLeak /\ InProgress

-----------------------------------------------------------------------------
(* The statements on the table.                                            *)

\* A DELETE leaves a table, in which the user and every reference to it are
\* gone and every other row is as it was.
LEMMA DeleteRowFacts ==
    ASSUME NEW t \in Table, NEW u \in User
    PROVE  /\ DeleteRow(t, u) \in Table
           /\ \A v \in User : DeleteRow(t, u)[v] = Absent <=> v = u \/ t[v] = Absent
           /\ \A v \in User \ {u} : t[v] # Absent =>
                 /\ DeleteRow(t, u)[v] \in Row
                 /\ DeleteRow(t, u)[v].attrs = t[v].attrs
                 /\ DeleteRow(t, u)[v].referring_user_id =
                       IF t[v].referring_user_id = u THEN NULL
                       ELSE t[v].referring_user_id
    BY TableAssumption DEF Table, Row, DeleteRow, TableAssumption

\* Setting the timestamp of a row in memory changes nothing else of it.
LEMMA SetTimestamp ==
    ASSUME NEW o \in Row, NEW m \in BOOLEAN
    PROVE  LET n == [o EXCEPT !.migrated_at = m]
           IN  /\ n \in Row /\ n.migrated_at = m /\ n.attrs = o.attrs
               /\ n.referring_user_id = o.referring_user_id
    BY DEF Row

\* An UPDATE leaves a table with the same ids, and changes one row at most.
LEMMA UpdateRowFacts ==
    ASSUME NEW t \in Table, NEW u \in User, NEW o \in Row
    PROVE  /\ UpdateRow(t, u, o) \in Table
           /\ \A v \in User : UpdateRow(t, u, o)[v] = Absent <=> t[v] = Absent
           /\ \A v \in User \ {u} : UpdateRow(t, u, o)[v] = t[v]
           /\ t[u] # Absent =>
                 /\ UpdateRow(t, u, o)[u].attrs = o.attrs
                 /\ UpdateRow(t, u, o)[u].referring_user_id = o.referring_user_id
    BY TableAssumption DEF Table, Row, UpdateRow, TableAssumption

-----------------------------------------------------------------------------
(* The pool.                                                               *)

\* The transactions open in a pod are finitely many.
LEMMA HoldersFinite ==
    ASSUME NEW p \in Pod
    PROVE  /\ IsFiniteSet(Holders(p))
           /\ Cardinality(Holders(p)) \in Nat
           /\ IsFiniteSet(Slots(p))
           /\ Cardinality(Slots(p)) \in Nat
           /\ Cardinality(Holders(p)) =< Cardinality(Slots(p))
<1>1. IsFiniteSet(Slots(p))
    BY FS_Subset, WritesAssumption DEF Slots, WritesAssumption
<1>2. Holders(p) \in SUBSET Slots(p)
    BY DEF Holders
<1>3. QED
    BY <1>1, <1>2, FS_Subset, FS_CardinalityType

\* BeginTx takes a connection and opens a transaction.
LEMMA OpenTx ==
    ASSUME PoolInv, NEW r \in Req, ConnAvailable(r), ~tx[r],
           tx' = [tx EXCEPT ![r] = TRUE],
           free' = [free EXCEPT ![PodOf[r]] = @ - 1]
    PROVE  /\ tx' \in [Req -> BOOLEAN]
           /\ free' \in [Pod -> 0 .. MaxOpen]
           /\ \A p \in Pod : free'[p] + Cardinality(Holders(p)') = MaxOpen
<1> USE DEF PoolInv, TypeOK
<1>1. PodOf[r] \in Pod /\ MaxOpen \in Nat
    BY WritesAssumption DEF WritesAssumption
<1>2. tx' \in [Req -> BOOLEAN] /\ free' \in [Pod -> 0 .. MaxOpen]
    BY <1>1 DEF ConnAvailable
<1>3. ASSUME NEW p \in Pod
      PROVE  free'[p] + Cardinality(Holders(p)') = MaxOpen
  <2>1. free[p] + Cardinality(Holders(p)) = MaxOpen
      BY DEF NoConnectionLeak
  <2>2. Cardinality(Holders(p)) \in Nat
      BY HoldersFinite
  <2>3. CASE p = PodOf[r]
    <3>1. Holders(p)' = Holders(p) \cup {r} /\ r \notin Holders(p)
        BY <2>3 DEF Holders, Slots
    <3>2. Cardinality(Holders(p)') = Cardinality(Holders(p)) + 1
      <4>1. IsFiniteSet(Holders(p))
          BY HoldersFinite
      <4>2. QED
          BY <3>1, <4>1, FS_AddElement
    <3>3. free'[p] = free[p] - 1
        BY <2>3
    <3>4. QED
        BY <1>1, <2>1, <2>2, <3>2, <3>3
  <2>4. CASE p # PodOf[r]
    <3>1. Holders(p)' = Holders(p)
        BY <2>4 DEF Holders, Slots
    <3>2. free'[p] = free[p]
        BY <2>4
    <3>3. QED
        BY <2>1, <3>1, <3>2
  <2>5. QED
      BY <2>3, <2>4
<1>4. QED
    BY <1>2, <1>3

\* A handler that returns gives back the connection of its transaction.
LEMMA CloseTx ==
    ASSUME PoolInv, NEW r \in Req, NEW code \in Status, Return(r, code),
           UNCHANGED sub
    PROVE  /\ pc' \in [Req -> Label]
           /\ status' \in [Req -> Status]
           /\ obj' \in [Req -> Row \cup {Absent}]
           /\ tx' \in [Req -> BOOLEAN]
           /\ free' \in [Pod -> 0 .. MaxOpen]
           /\ NoConnectionLeak' /\ InProgress'
<1> USE DEF PoolInv, TypeOK
<1>1. PodOf[r] \in Pod /\ MaxOpen \in Nat
    BY WritesAssumption DEF WritesAssumption
<1>2. /\ pc' \in [Req -> Label] /\ status' \in [Req -> Status]
      /\ obj' \in [Req -> Row \cup {Absent}] /\ tx' \in [Req -> BOOLEAN]
    BY DEF Return, Goto, Label
<1>3. ASSUME NEW p \in Pod
      PROVE  /\ free'[p] \in 0 .. MaxOpen
             /\ free'[p] + Cardinality(Holders(p)') = MaxOpen
  <2>1. free[p] + Cardinality(Holders(p)) = MaxOpen /\ free[p] \in 0 .. MaxOpen
      BY DEF NoConnectionLeak
  <2>2. Cardinality(Holders(p)) \in Nat
      BY HoldersFinite
  <2>3. CASE p = PodOf[r] /\ tx[r]
    <3>1. Holders(p)' = Holders(p) \ {r} /\ r \in Holders(p)
        BY <2>3 DEF Holders, Slots, Return
    <3>2. /\ Cardinality(Holders(p)') = Cardinality(Holders(p)) - 1
          /\ Cardinality(Holders(p)') \in Nat
        BY <3>1, HoldersFinite, FS_RemoveElement, FS_CardinalityType
    <3>3. free'[p] = free[p] + 1
        BY <2>3 DEF Return
    <3>4. QED
        BY <1>1, <2>1, <2>2, <3>2, <3>3
  <2>4. CASE ~(p = PodOf[r] /\ tx[r])
    <3>1. Holders(p)' = Holders(p)
        BY <2>4 DEF Holders, Slots, Return
    <3>2. free'[p] = free[p]
        BY <2>4, <1>1 DEF Return
    <3>3. QED
        BY <2>1, <3>1, <3>2
  <2>5. QED
      BY <2>3, <2>4
<1>4. free' \in [Pod -> 0 .. MaxOpen]
  <2>1. DOMAIN free' = Pod /\ free' = [p \in DOMAIN free' |-> free'[p]]
      BY DEF Return
  <2>2. QED
      BY <2>1, <1>3
<1>5. ASSUME NEW q \in Req, tx'[q]
      PROVE  pc'[q] \notin {"idle", "beginTx"}
    BY <1>5 DEF NoConnectionLeak, Return, Goto
<1>6. InProgress'
    BY DEF InProgress, Return, Goto
<1>7. QED
    BY <1>2, <1>3, <1>4, <1>5, <1>6 DEF NoConnectionLeak
-----------------------------------------------------------------------------
(* PoolInv is inductive.                                                   *)

\* The pools are full and no request is in progress initially.
LEMMA PoolInvInit == Init => PoolInv
<1> SUFFICES ASSUME Init PROVE PoolInv
    OBVIOUS
<1>1. TypeOK
    BY WritesAssumption DEF Init, TypeOK, WritesAssumption, Label, Handler, Status
<1>2. ASSUME NEW p \in Pod
      PROVE  free[p] + Cardinality(Holders(p)) = MaxOpen
  <2>1. Holders(p) = {}
      BY DEF Init, Holders, Slots
  <2>2. QED
      BY <2>1, FS_EmptySet, WritesAssumption DEF Init, WritesAssumption
<1>3. QED
    BY <1>1, <1>2 DEF PoolInv, NoConnectionLeak, InProgress, Init

\* Every step keeps the accounts of the pools.
LEMMA PoolInvStep == PoolInv /\ [Next]_vars => PoolInv'
<1> SUFFICES ASSUME PoolInv, [Next]_vars PROVE PoolInv'
    OBVIOUS
<1> USE DEF PoolInv, TypeOK
<1>a. 500 \in Status /\ 404 \in Status /\ 409 \in Status /\ 204 \in Status
    BY DEF Status
<1>b. ASSUME UNCHANGED <<free, tx>>,
             \A q \in Req : tx[q] => pc'[q] \notin {"idle", "beginTx"}
      PROVE  NoConnectionLeak'
    BY <1>b DEF NoConnectionLeak, Holders, Slots
<1>1. ASSUME NEW r \in Req, DeleteUserBeginTx(r)
      PROVE  PoolInv'
  <2>1. CASE Return(r, 500)
      BY <1>1, <1>a, <2>1, CloseTx DEF DeleteUserBeginTx
  <2>2. CASE ~Return(r, 500)
    <3>1. ~tx[r]
        BY <1>1 DEF DeleteUserBeginTx, NoConnectionLeak
    <3>2. /\ tx' \in [Req -> BOOLEAN] /\ free' \in [Pod -> 0 .. MaxOpen]
          /\ \A p \in Pod : free'[p] + Cardinality(Holders(p)') = MaxOpen
        BY <1>1, <2>2, <3>1, OpenTx DEF DeleteUserBeginTx
    <3>3. pc' = [pc EXCEPT ![r] = "findUser"] /\ tx' = [tx EXCEPT ![r] = TRUE]
        BY <1>1, <2>2 DEF DeleteUserBeginTx, Goto
    <3>4. \A q \in Req : tx'[q] => pc'[q] \notin {"idle", "beginTx"}
        BY <3>3 DEF NoConnectionLeak
    <3>5. NoConnectionLeak'
        BY <3>2, <3>4 DEF NoConnectionLeak
    <3>6. TypeOK'
        BY <1>1, <2>2, <3>2, <3>3 DEF DeleteUserBeginTx, Label
    <3>7. InProgress'
        BY <1>1, <2>2, <3>3 DEF DeleteUserBeginTx, InProgress
    <3>8. QED
        BY <3>5, <3>6, <3>7
  <2>3. QED
      BY <2>1, <2>2
<1>2. ASSUME NEW r \in Req, DeleteUserFindUser(r)
      PROVE  PoolInv'
  <2>1. CASE Return(r, 404) \/ Return(r, 500)
      BY <1>2, <1>a, <2>1, CloseTx DEF DeleteUserFindUser
  <2>2. CASE ~(Return(r, 404) \/ Return(r, 500))
      BY <1>2, <1>b, <2>2
         DEF DeleteUserFindUser, Goto, Label, InProgress, NoConnectionLeak
  <2>3. QED
      BY <2>1, <2>2
<1>3. ASSUME NEW r \in Req, DeleteUserListDevices(r)
      PROVE  PoolInv'
  <2>1. CASE Return(r, 409) \/ Return(r, 500)
      BY <1>3, <1>a, <2>1, CloseTx DEF DeleteUserListDevices
  <2>2. CASE ~(Return(r, 409) \/ Return(r, 500))
      BY <1>3, <1>b, <2>2
         DEF DeleteUserListDevices, Goto, Label, InProgress, NoConnectionLeak
  <2>3. QED
      BY <2>1, <2>2
<1>4. ASSUME NEW r \in Req, DeleteUserDelete(r)
      PROVE  PoolInv'
  <2>1. users' \in Table /\ rows' \in [Req -> {0, 1}]
    <3>1. sub[r] \in User
        BY <1>4 DEF DeleteUserDelete, InProgress
    <3>2. DeleteRow(users, sub[r]) \in Table
        BY <3>1, DeleteRowFacts
    <3>3. QED
        BY <1>4, <3>2 DEF DeleteUserDelete
  <2>2. CASE Return(r, 500)
      BY <1>4, <1>a, <2>1, <2>2, CloseTx DEF DeleteUserDelete
  <2>3. CASE ~Return(r, 500)
      BY <1>4, <1>b, <2>1, <2>3
         DEF DeleteUserDelete, Goto, Label, InProgress, NoConnectionLeak
  <2>4. QED
      BY <2>2, <2>3
<1>5. ASSUME NEW r \in Req, DeleteUserCommit(r)
      PROVE  PoolInv'
    BY <1>5, <1>a, CloseTx DEF DeleteUserCommit
<1>6. ASSUME NEW r \in Req, SetMigratedGetUser(r)
      PROVE  PoolInv'
  <2>1. CASE Return(r, 500)
      BY <1>6, <1>a, <2>1, CloseTx DEF SetMigratedGetUser
  <2>2. CASE ~Return(r, 500)
    <3>1. PICK m \in BOOLEAN :
             /\ m \/ DevEnv
             /\ obj' = [obj EXCEPT ![r] = [users[sub[r]] EXCEPT !.migrated_at = m]]
        BY <1>6, <2>2 DEF SetMigratedGetUser
    <3> DEFINE o == [users[sub[r]] EXCEPT !.migrated_at = m]
    <3>2. sub[r] \in User /\ users[sub[r]] \in Row
        BY <1>6, <2>2 DEF SetMigratedGetUser, InProgress, Table
    <3>a. o \in Row /\ (o.migrated_at \/ DevEnv)
        BY <3>1, <3>2, SetTimestamp
    <3>3. obj' = [obj EXCEPT ![r] = o]
        BY <3>1
    <3> HIDE DEF o
    <3>4. /\ UNCHANGED <<users, devices, op, sub, rows, free, tx, status>>
          /\ pc' = [pc EXCEPT ![r] = "update"] /\ pc[r] = "getUser"
        BY <1>6, <2>2 DEF SetMigratedGetUser, Goto
    <3>5. TypeOK'
        BY <3>3, <3>4, <3>a DEF Label
    <3>6. InProgress'
        BY <3>2, <3>3, <3>4, <3>a DEF InProgress
    <3>7. NoConnectionLeak'
        BY <1>b, <3>4 DEF NoConnectionLeak
    <3>8. QED
        BY <3>5, <3>6, <3>7
  <2>3. QED
      BY <2>1, <2>2
<1>7. ASSUME NEW r \in Req, SetMigratedUpdate(r)
      PROVE  PoolInv'
  <2>1. users' \in Table /\ rows' \in [Req -> {0, 1}]
    <3>1. sub[r] \in User /\ obj[r] \in Row
        BY <1>7 DEF SetMigratedUpdate, InProgress
    <3>2. UpdateRow(users, sub[r], obj[r]) \in Table
        BY <3>1, UpdateRowFacts
    <3>3. QED
        BY <1>7, <3>2 DEF SetMigratedUpdate
  <2>2. QED
      BY <1>7, <1>a, <2>1, CloseTx DEF SetMigratedUpdate
<1>8. ASSUME NEW r \in Req, NEW h \in Handler, NEW u \in User, Receive(r, h, u)
      PROVE  PoolInv'
  <2>1. ~tx[r]
      BY <1>8 DEF Receive, NoConnectionLeak
  <2>2. QED
      BY <1>8, <1>b, <2>1
         DEF Receive, Goto, Label, Status, InProgress, NoConnectionLeak
<1>9. ASSUME NEW u \in User, AddDevice(u) \/ RemoveDevice(u)
      PROVE  PoolInv'
    BY <1>9, <1>b, WritesAssumption
       DEF AddDevice, RemoveDevice, WritesAssumption, InProgress, NoConnectionLeak
<1>10. ASSUME NEW p \in Pod, Crash(p)
       PROVE  PoolInv'
  <2> DEFINE lost == {r \in Req : PodOf[r] = p /\ pc[r] # "idle"}
  <2>1. \A r \in Req : PodOf[r] = p => ~tx'[r]
      BY <1>10 DEF Crash, NoConnectionLeak
  <2>2. ASSUME NEW q \in Pod
        PROVE  free'[q] + Cardinality(Holders(q)') = MaxOpen
    <3>1. CASE q = p
      <4>1. Holders(q)' = {}
          BY <2>1, <3>1 DEF Holders, Slots
      <4>2. QED
          BY <1>10, <3>1, <4>1, FS_EmptySet, WritesAssumption
             DEF Crash, WritesAssumption
    <3>2. CASE q # p
      <4>1. Holders(q)' = Holders(q)
          BY <1>10, <3>2 DEF Holders, Slots, Crash
      <4>2. QED
          BY <1>10, <3>2, <4>1 DEF Crash, NoConnectionLeak
    <3>3. QED
        BY <3>1, <3>2
  <2>3. NoConnectionLeak'
      BY <1>10, <2>2 DEF Crash, NoConnectionLeak
  <2>4. TypeOK'
    <3>1. free' \in [Pod -> 0 .. MaxOpen]
        BY <1>10, WritesAssumption DEF Crash, WritesAssumption
    <3>2. "idle" \in Label
        BY DEF Label
    <3>3. pc' \in [Req -> Label] /\ op' \in [Req -> Handler \cup {"none"}]
        BY <1>10, <3>2 DEF Crash
    <3>4. obj' \in [Req -> Row \cup {Absent}] /\ tx' \in [Req -> BOOLEAN]
        BY <1>10 DEF Crash
    <3>5. QED
        BY <1>10, <3>1, <3>3, <3>4 DEF Crash
  <2>5. InProgress'
      BY <1>10 DEF Crash, InProgress
  <2>6. QED
      BY <2>3, <2>4, <2>5
<1>11. CASE UNCHANGED vars
    BY <1>11, <1>b DEF vars, InProgress, NoConnectionLeak
<1>12. QED
    BY <1>1, <1>2, <1>3, <1>4, <1>5, <1>6, <1>7, <1>8, <1>9, <1>10, <1>11
       DEF Next, Handle, DeleteUser, SetMigrated
\* TypeOK holds: in particular no sequence of requests, failures and crashes
\* drives a pool below zero or above DB.MaxOpenConnections.
THEOREM TypeCorrect == Spec => []TypeOK
<1>1. PoolInv => TypeOK
    BY DEF PoolInv
<1>2. QED
    BY <1>1, PoolInvInit, PoolInvStep, PTL DEF Spec

\* NoConnectionLeak holds: every path through DeleteUser and SetMigrated ends
\* the transaction it opened.
THEOREM ConnectionsReturned == Spec => []NoConnectionLeak
<1>1. PoolInv => NoConnectionLeak
    BY DEF PoolInv
<1>2. QED
    BY <1>1, PoolInvInit, PoolInvStep, PTL DEF Spec

\* Under a light load the DELETE of DeleteUser finds its second connection,
\* whatever else the pod is doing.
THEOREM SecondConnection == Spec => []SecondConnectionAvailable
<1>1. PoolInv => SecondConnectionAvailable
  <2> SUFFICES ASSUME PoolInv, LightLoad, NEW r \in Req, pc[r] = "delete"
               PROVE  ConnAvailable(r)
      BY DEF SecondConnectionAvailable
  <2> DEFINE p == PodOf[r]
  <2>1. p \in Pod /\ MaxOpen \in Nat
      BY WritesAssumption DEF WritesAssumption
  <2>2. /\ Cardinality(Slots(p)) < MaxOpen
        /\ free[p] + Cardinality(Holders(p)) = MaxOpen
        /\ free[p] \in Nat
      BY <2>1 DEF LightLoad, PoolInv, NoConnectionLeak, TypeOK
  <2>3. /\ Cardinality(Holders(p)) \in Nat /\ Cardinality(Slots(p)) \in Nat
        /\ Cardinality(Holders(p)) =< Cardinality(Slots(p))
      BY <2>1, HoldersFinite
  <2>4. QED
      BY <2>1, <2>2, <2>3 DEF ConnAvailable
<1>2. QED
    BY <1>1, PoolInvInit, PoolInvStep, PTL DEF Spec

-----------------------------------------------------------------------------
(* The table.                                                              *)

\* Table t after the migrated_at of user u was set, or cleared.
Stamped(t, u, m) == [t EXCEPT ![u] = [@ EXCEPT !.migrated_at = m]]

TableInv == PoolInv /\ ReferentialIntegrity /\ WriteBackIsFresh

\* Deleting a row that is not there changes nothing: by referential integrity
\* no reference to it is left to set to NULL.
LEMMA DeleteAbsent ==
    ASSUME NEW t \in Table, ForeignKeyHolds(t), NEW u \in User, t[u] = Absent
    PROVE  DeleteRow(t, u) = t
    BY TableAssumption
       DEF Table, Row, DeleteRow, ForeignKeyHolds, Ids, TableAssumption

\* An UPDATE with a fresh object that the foreign key accepts changes
\* migrated_at and nothing else.
LEMMA WriteBack ==
    ASSUME NEW t \in Table, NEW u \in User, NEW o \in Row, t[u] # Absent,
           Fresh(t, u, o), ~ViolatesForeignKey(t, o)
    PROVE  UpdateRow(t, u, o) = Stamped(t, u, o.migrated_at)
<1>1. t[u] \in Row
    BY DEF Table
<1>2. o.attrs = t[u].attrs /\ o.referring_user_id = t[u].referring_user_id
    BY DEF Fresh
<1>3. [o EXCEPT !.created_at = t[u].created_at]
        = [t[u] EXCEPT !.migrated_at = o.migrated_at]
    BY <1>1, <1>2 DEF Row
<1>4. QED
    BY <1>3 DEF UpdateRow, Stamped

\* Seen from the table, a step does nothing, removes a user, or changes the
\* migrated_at of one.
LEMMA TableStep ==
    ASSUME TableInv, [Next]_vars
    PROVE  \/ UNCHANGED users
           \/ \E u \in User : /\ users[u] # Absent
                              /\ users' = DeleteRow(users, u)
           \/ \E u \in User, m \in BOOLEAN :
                 /\ users[u] # Absent
                 /\ m \/ DevEnv
                 /\ users' = Stamped(users, u, m)
<1> DEFINE Goal == \/ UNCHANGED users
                   \/ \E u \in User : /\ users[u] # Absent
                                      /\ users' = DeleteRow(users, u)
                   \/ \E u \in User, m \in BOOLEAN :
                        /\ users[u] # Absent
                        /\ m \/ DevEnv
                        /\ users' = Stamped(users, u, m)
<1>1. users \in Table /\ ForeignKeyHolds(users)
    BY DEF TableInv, PoolInv, TypeOK, ReferentialIntegrity
<1>2. ASSUME NEW r \in Req, DeleteUserDelete(r)
      PROVE  Goal
  <2>1. sub[r] \in User
      BY <1>2 DEF DeleteUserDelete, TableInv, PoolInv, InProgress
  <2>2. UNCHANGED users \/ users' = DeleteRow(users, sub[r])
      BY <1>2 DEF DeleteUserDelete
  <2>3. QED
      BY <1>1, <2>1, <2>2, DeleteAbsent
<1>3. ASSUME NEW r \in Req, SetMigratedUpdate(r)
      PROVE  Goal
  <2>1. /\ sub[r] \in User /\ obj[r] \in Row
        /\ obj[r].migrated_at \/ DevEnv
        /\ Fresh(users, sub[r], obj[r])
      BY <1>3 DEF SetMigratedUpdate, TableInv, PoolInv, InProgress, WriteBackIsFresh
  <2>2. obj[r].migrated_at \in BOOLEAN
      BY <2>1 DEF Row
  <2>3. \/ UNCHANGED users
        \/ /\ users[sub[r]] = Absent \/ ~ViolatesForeignKey(users, obj[r])
           /\ users' = UpdateRow(users, sub[r], obj[r])
      BY <1>3 DEF SetMigratedUpdate
  <2>4. users[sub[r]] = Absent => UpdateRow(users, sub[r], obj[r]) = users
      BY DEF UpdateRow
  <2>5. CASE users[sub[r]] = Absent
      BY <2>3, <2>4, <2>5
  <2>6. CASE users[sub[r]] # Absent /\ ~UNCHANGED users
    <3>1. users' = Stamped(users, sub[r], obj[r].migrated_at)
        BY <1>1, <2>1, <2>3, <2>6, WriteBack
    <3>2. QED
        BY <2>1, <2>2, <2>6, <3>1
  <2>7. QED
      BY <2>5, <2>6
<1>4. CASE UNCHANGED users
    BY <1>4
<1>5. ASSUME NEW r \in Req, Handle(r), ~DeleteUserDelete(r), ~SetMigratedUpdate(r)
      PROVE  UNCHANGED users
    BY <1>5 DEF Handle, DeleteUser, SetMigrated, DeleteUserBeginTx,
                DeleteUserFindUser, DeleteUserListDevices, DeleteUserCommit,
                SetMigratedGetUser
<1>6. QED
    BY <1>2, <1>3, <1>4, <1>5
       DEF Next, vars, Receive, AddDevice, RemoveDevice, Crash

\* What the two kinds of change do to a table that satisfies the foreign key:
\* it still does, nobody appears, and a fresh object stays fresh.
LEMMA RemoveKeeps ==
    ASSUME NEW t \in Table, ForeignKeyHolds(t), NEW u \in User
    PROVE  LET n == DeleteRow(t, u)
           IN  /\ ForeignKeyHolds(n)
               /\ \A v \in User : t[v] = Absent => n[v] = Absent
               /\ \A v \in User, o \in Row : Fresh(t, v, o) => Fresh(n, v, o)
<1> DEFINE n == DeleteRow(t, u)
<1>1. Ids(n) = Ids(t) \ {u}
    BY DeleteRowFacts DEF Ids
<1>2. ForeignKeyHolds(n)
  <2> SUFFICES ASSUME NEW v \in Ids(n)
               PROVE  n[v].referring_user_id \in Ids(n) \cup {NULL}
      BY DEF ForeignKeyHolds
  <2>1. v \in Ids(t) /\ v \in User /\ v # u /\ t[v] # Absent
      BY <1>1 DEF Ids
  <2>2. t[v].referring_user_id \in Ids(t) \cup {NULL}
      BY <2>1 DEF ForeignKeyHolds
  <2>3. n[v].referring_user_id = IF t[v].referring_user_id = u THEN NULL
                                 ELSE t[v].referring_user_id
      BY <2>1, DeleteRowFacts
  <2>4. QED
      BY <1>1, <2>2, <2>3
<1>3. \A v \in User : t[v] = Absent => n[v] = Absent
    BY DeleteRowFacts
<1>4. ASSUME NEW v \in User, NEW o \in Row, Fresh(t, v, o), n[v] # Absent
      PROVE  /\ o.attrs = n[v].attrs
             /\ \/ o.referring_user_id = n[v].referring_user_id
                \/ n[v].referring_user_id = NULL /\ ViolatesForeignKey(n, o)
  <2>1. v # u /\ t[v] # Absent
      BY <1>4, DeleteRowFacts
  <2>2. /\ n[v].attrs = t[v].attrs
        /\ n[v].referring_user_id = IF t[v].referring_user_id = u THEN NULL
                                    ELSE t[v].referring_user_id
      BY <2>1, DeleteRowFacts
  <2>3. o.attrs = t[v].attrs
      BY <1>4, <2>1 DEF Fresh
  <2>4. CASE o.referring_user_id = t[v].referring_user_id
    <3>1. o.referring_user_id = u => ViolatesForeignKey(n, o)
        BY <1>1, TableAssumption DEF ViolatesForeignKey, TableAssumption
    <3>2. QED
        BY <2>2, <2>3, <2>4, <3>1
  <2>5. CASE t[v].referring_user_id = NULL /\ ViolatesForeignKey(t, o)
    <3>1. ViolatesForeignKey(n, o)
        BY <1>1, <2>5 DEF ViolatesForeignKey
    <3>2. QED
        BY <2>2, <2>3, <2>5, <3>1
  <2>6. QED
      BY <1>4, <2>1, <2>4, <2>5 DEF Fresh
<1> HIDE DEF n
<1>5. \A v \in User, o \in Row : Fresh(t, v, o) => Fresh(n, v, o)
    BY <1>4 DEF Fresh
<1>6. QED
    BY <1>2, <1>3, <1>5 DEF n

\* A new timestamp keeps the foreign key, and every write-back fresh.
LEMMA TimestampKeeps ==
    ASSUME NEW t \in Table, ForeignKeyHolds(t), NEW u \in User,
           NEW m \in BOOLEAN, t[u] # Absent
    PROVE  LET n == Stamped(t, u, m)
           IN  /\ ForeignKeyHolds(n)
               /\ \A v \in User : t[v] = Absent => n[v] = Absent
               /\ \A v \in User, o \in Row : Fresh(t, v, o) => Fresh(n, v, o)
<1> DEFINE n == Stamped(t, u, m)
<1>1. ASSUME NEW v \in User
      PROVE  /\ n[v] = Absent <=> t[v] = Absent
             /\ t[v] # Absent => /\ n[v].attrs = t[v].attrs
                                /\ n[v].referring_user_id = t[v].referring_user_id
    BY TableAssumption DEF Table, Row, Stamped, TableAssumption
<1> HIDE DEF n
<1>2. Ids(n) = Ids(t)
    BY <1>1 DEF Ids
<1>3. ForeignKeyHolds(n)
    BY <1>1, <1>2 DEF ForeignKeyHolds, Ids
<1>4. \A v \in User, o \in Row : Fresh(t, v, o) => Fresh(n, v, o)
    BY <1>1, <1>2 DEF Fresh, ViolatesForeignKey
<1>5. QED
    BY <1>1, <1>3, <1>4 DEF n

\* The consequences of TableStep: integrity is kept, users never come back,
\* and objects stay fresh.
LEMMA TableKeeps ==
    ASSUME TableInv, [Next]_vars
    PROVE  /\ ForeignKeyHolds(users')
           /\ \A v \in User : users[v] = Absent => users'[v] = Absent
           /\ \A v \in User, o \in Row : Fresh(users, v, o) => Fresh(users', v, o)
<1>1. users \in Table /\ ForeignKeyHolds(users)
    BY DEF TableInv, PoolInv, TypeOK, ReferentialIntegrity
<1>2. CASE UNCHANGED users
    BY <1>1, <1>2
<1>3. ASSUME NEW u \in User, users' = DeleteRow(users, u)
      PROVE  /\ ForeignKeyHolds(users')
             /\ \A v \in User : users[v] = Absent => users'[v] = Absent
             /\ \A v \in User, o \in Row :
                   Fresh(users, v, o) => Fresh(users', v, o)
    BY <1>1, <1>3, RemoveKeeps
<1>4. ASSUME NEW u \in User, NEW m \in BOOLEAN, users[u] # Absent,
             users' = Stamped(users, u, m)
      PROVE  /\ ForeignKeyHolds(users')
             /\ \A v \in User : users[v] = Absent => users'[v] = Absent
             /\ \A v \in User, o \in Row :
                   Fresh(users, v, o) => Fresh(users', v, o)
    BY <1>1, <1>4, TimestampKeeps
<1>5. QED
    BY <1>2, <1>3, <1>4, TableStep

\* The tables of Init satisfy the foreign key.
LEMMA TableInvInit == Init => TableInv
    BY PoolInvInit DEF TableInv, Init, ReferentialIntegrity, WriteBackIsFresh

\* A pending write-back was read in this step, or was pending before it.
LEMMA PendingUpdate ==
    ASSUME TableInv, [Next]_vars, NEW r \in Req, pc'[r] = "update"
    PROVE  \/ /\ pc[r] = "update"
              /\ UNCHANGED <<sub[r], obj[r]>>
           \/ SetMigratedGetUser(r) /\ ~Return(r, 500)
<1>1. TypeOK
    BY DEF TableInv, PoolInv
<1>2. ASSUME NEW q \in Req, Handle(q)
      PROVE  \/ pc[r] = "update" /\ UNCHANGED <<sub[r], obj[r]>>
             \/ q = r /\ SetMigratedGetUser(q) /\ ~Return(q, 500)
    BY <1>1, <1>2
       DEF TypeOK, Handle, DeleteUser, SetMigrated, DeleteUserBeginTx,
           DeleteUserFindUser, DeleteUserListDevices, DeleteUserDelete,
           DeleteUserCommit, SetMigratedGetUser, SetMigratedUpdate, Goto, Return
<1>3. ASSUME NEW q \in Req, NEW h \in Handler, NEW u \in User, Receive(q, h, u)
      PROVE  pc[r] = "update" /\ UNCHANGED <<sub[r], obj[r]>>
    BY <1>1, <1>3 DEF TypeOK, Receive, Goto
<1>4. ASSUME NEW p \in Pod, Crash(p)
      PROVE  pc[r] = "update" /\ UNCHANGED <<sub[r], obj[r]>>
    BY <1>1, <1>4 DEF TypeOK, Crash
<1>5. QED
    BY <1>2, <1>3, <1>4 DEF Next, vars, AddDevice, RemoveDevice

\* Every step keeps the foreign key and every write-back fresh.
LEMMA TableInvStep == TableInv /\ [Next]_vars => TableInv'
<1> SUFFICES ASSUME TableInv, [Next]_vars PROVE TableInv'
    OBVIOUS
<1>1. PoolInv'
    BY PoolInvStep DEF TableInv
<1>2. ReferentialIntegrity'
    BY TableKeeps DEF ReferentialIntegrity
<1>3. ASSUME NEW r \in Req, pc'[r] = "update"
      PROVE  Fresh(users', sub'[r], obj'[r])
  <2>1. CASE pc[r] = "update" /\ UNCHANGED <<sub[r], obj[r]>>
    <3>1. sub[r] \in User /\ obj[r] \in Row /\ Fresh(users, sub[r], obj[r])
        BY <2>1 DEF TableInv, PoolInv, InProgress, WriteBackIsFresh
    <3>2. QED
        BY <2>1, <3>1, TableKeeps
  <2>2. CASE SetMigratedGetUser(r) /\ ~Return(r, 500)
    <3>1. PICK m \in BOOLEAN :
             obj' = [obj EXCEPT ![r] = [users[sub[r]] EXCEPT !.migrated_at = m]]
        BY <2>2 DEF SetMigratedGetUser
    <3>2. /\ sub[r] \in User /\ users[sub[r]] \in Row
          /\ UNCHANGED <<users, sub>> /\ obj \in [Req -> Row \cup {Absent}]
        BY <2>2 DEF SetMigratedGetUser, TableInv, PoolInv, InProgress, TypeOK, Table
    <3>3. Fresh(users, sub[r], [users[sub[r]] EXCEPT !.migrated_at = m])
        BY <3>2, SetTimestamp DEF Fresh
    <3>4. QED
        BY <3>1, <3>2, <3>3
  <2>3. QED
      BY <1>3, <2>1, <2>2, PendingUpdate
<1>4. QED
    BY <1>1, <1>2, <1>3 DEF TableInv, WriteBackIsFresh

\* The table satisfies users_referring_user_id_fkey in every reachable state.
THEOREM IntegrityKept == Spec => []ReferentialIntegrity
<1>1. TableInv => ReferentialIntegrity
    BY DEF TableInv
<1>2. QED
    BY <1>1, TableInvInit, TableInvStep, PTL DEF Spec

\* The whole-row write-back of SetMigrated never overwrites a concurrent change.
THEOREM NoLostUpdate == Spec => []WriteBackIsFresh
<1>1. TableInv => WriteBackIsFresh
    BY DEF TableInv
<1>2. QED
    BY <1>1, TableInvInit, TableInvStep, PTL DEF Spec

\* DeleteUser and SetMigrated, interleaved in any way with each other, with
\* failures and with crashes, implement the registry: users are removed or get
\* another migrated_at, and nothing else happens to the table.
THEOREM RegistryImplemented == Spec => ImplementsRegistry
<1> USE DEF Registry!Table, Registry!Row, Registry!Ids, Registry!ForeignKeyHolds,
            Registry!DeleteRow
<1>1. Init => Registry!Init
    BY DEF Init, Registry!Init, Table, Row, Ids, ForeignKeyHolds
<1>2. TableInv /\ [Next]_vars => [Registry!Next]_users
  <2> SUFFICES ASSUME TableInv, [Next]_vars, ~UNCHANGED users
               PROVE  Registry!Next
      OBVIOUS
  <2>1. CASE \E u \in User : /\ users[u] # Absent
                            /\ users' = DeleteRow(users, u)
      BY <2>1 DEF Registry!Next, Registry!Remove, DeleteRow
  <2>2. CASE \E u \in User, m \in BOOLEAN :
               /\ users[u] # Absent
               /\ m \/ DevEnv
               /\ users' = Stamped(users, u, m)
      BY <2>2 DEF Registry!Next, Registry!SetMigratedAt, Stamped
  <2>3. QED
      BY <2>1, <2>2, TableStep
<1>3. QED
    BY <1>1, <1>2, TableInvInit, TableInvStep, PTL
       DEF Spec, ImplementsRegistry, Registry!Spec

-----------------------------------------------------------------------------
(* The answers.                                                            *)

\* What a request in progress has recorded so far: its handler, no answer,
\* and for a DeleteUser no row deleted before its DELETE and no row left after.
Recorded ==
    \A r \in Req :
        /\ op[r] # "none" => sub[r] \in User
        /\ pc[r] \in {"beginTx", "findUser", "listDevices", "delete"} =>
              op[r] = "DeleteUser" /\ rows[r] = 0
        /\ pc[r] = "commit" => op[r] = "DeleteUser" /\ users[sub[r]] = Absent
        /\ pc[r] \in {"getUser", "update"} => op[r] = "SetMigrated"
        /\ pc[r] # "idle" => status[r] = 0

AnswerInv == TableInv /\ Recorded /\ DeleteAnswerIsTrue

\* Nothing is answered initially.
LEMMA AnswerInvInit == Init => AnswerInv
    BY TableInvInit DEF AnswerInv, Recorded, DeleteAnswerIsTrue, Init

\* Every step keeps what was answered true.
LEMMA AnswerInvStep == AnswerInv /\ [Next]_vars => AnswerInv'
<1> SUFFICES ASSUME AnswerInv, [Next]_vars PROVE AnswerInv'
    OBVIOUS
<1> DEFINE RecordedOf(r) ==
             /\ op[r] # "none" => sub[r] \in User
             /\ pc[r] \in {"beginTx", "findUser", "listDevices", "delete"} =>
                   op[r] = "DeleteUser" /\ rows[r] = 0
             /\ pc[r] = "commit" =>
                   op[r] = "DeleteUser" /\ users[sub[r]] = Absent
             /\ pc[r] \in {"getUser", "update"} => op[r] = "SetMigrated"
             /\ pc[r] # "idle" => status[r] = 0
           TrueOf(r) ==
             op[r] = "DeleteUser" =>
                /\ status[r] \in {204, 404} => users[sub[r]] = Absent
                /\ status[r] \in {404, 409} => rows[r] = 0
<1>1. TableInv' /\ TypeOK
    BY TableInvStep DEF AnswerInv, TableInv, PoolInv
<1>2. \A v \in User : users[v] = Absent => users'[v] = Absent
    BY TableKeeps DEF AnswerInv
<1>3. \A r \in Req : RecordedOf(r) /\ TrueOf(r)
    BY DEF AnswerInv, Recorded, DeleteAnswerIsTrue
\* A request another one's step leaves alone: only the table may have shrunk.
<1>4. ASSUME NEW r \in Req, UNCHANGED <<pc[r], op[r], sub[r], rows[r], status[r]>>
      PROVE  RecordedOf(r)' /\ TrueOf(r)'
    BY <1>2, <1>3, <1>4
<1> HIDE DEF RecordedOf, TrueOf
<1>5. SUFFICES \A r \in Req : RecordedOf(r)' /\ TrueOf(r)'
    BY <1>1, <1>5 DEF AnswerInv, Recorded, DeleteAnswerIsTrue, RecordedOf, TrueOf
<1> USE <1>3 DEF TypeOK, RecordedOf, TrueOf
<1>6. ASSUME NEW q \in Req, DeleteUserBeginTx(q), NEW r \in Req
      PROVE  RecordedOf(r)' /\ TrueOf(r)'
  <2>1. CASE r = q
      BY <1>1, <1>6, <2>1 DEF DeleteUserBeginTx, Goto, Return
  <2>2. CASE r # q
      BY <1>1, <1>4, <1>6, <2>2 DEF DeleteUserBeginTx, Goto, Return
  <2>3. QED
      BY <2>1, <2>2
<1>7. ASSUME NEW q \in Req, DeleteUserFindUser(q), NEW r \in Req
      PROVE  RecordedOf(r)' /\ TrueOf(r)'
  <2>1. CASE r = q
      BY <1>1, <1>7, <2>1 DEF DeleteUserFindUser, Goto, Return
  <2>2. CASE r # q
      BY <1>1, <1>4, <1>7, <2>2 DEF DeleteUserFindUser, Goto, Return
  <2>3. QED
      BY <2>1, <2>2
<1>8. ASSUME NEW q \in Req, DeleteUserListDevices(q), NEW r \in Req
      PROVE  RecordedOf(r)' /\ TrueOf(r)'
  <2>1. CASE r = q
      BY <1>1, <1>8, <2>1 DEF DeleteUserListDevices, Goto, Return
  <2>2. CASE r # q
      BY <1>1, <1>4, <1>8, <2>2 DEF DeleteUserListDevices, Goto, Return
  <2>3. QED
      BY <2>1, <2>2
<1>9. ASSUME NEW q \in Req, DeleteUserDelete(q), NEW r \in Req
      PROVE  RecordedOf(r)' /\ TrueOf(r)'
  <2>1. CASE r = q
    <3>1. sub[q] \in User /\ users \in Table
        BY <1>1, <1>9 DEF DeleteUserDelete
    <3>2. DeleteRow(users, sub[q])[sub[q]] = Absent
        BY <3>1, DeleteRowFacts
    <3>3. QED
        BY <1>1, <1>9, <2>1, <3>1, <3>2 DEF DeleteUserDelete, Goto, Return
  <2>2. CASE r # q
      BY <1>1, <1>4, <1>9, <2>2 DEF DeleteUserDelete, Goto, Return
  <2>3. QED
      BY <2>1, <2>2
<1>10. ASSUME NEW q \in Req, DeleteUserCommit(q), NEW r \in Req
       PROVE  RecordedOf(r)' /\ TrueOf(r)'
  <2>1. CASE r = q
      BY <1>1, <1>10, <2>1 DEF DeleteUserCommit, Goto, Return
  <2>2. CASE r # q
      BY <1>1, <1>4, <1>10, <2>2 DEF DeleteUserCommit, Goto, Return
  <2>3. QED
      BY <2>1, <2>2
<1>11. ASSUME NEW q \in Req, SetMigrated(q), NEW r \in Req
       PROVE  RecordedOf(r)' /\ TrueOf(r)'
  <2>1. CASE r = q
      BY <1>1, <1>11, <2>1
         DEF SetMigrated, SetMigratedGetUser, SetMigratedUpdate, Goto, Return
  <2>2. CASE r # q
      BY <1>1, <1>4, <1>11, <2>2
         DEF SetMigrated, SetMigratedGetUser, SetMigratedUpdate, Goto, Return
  <2>3. QED
      BY <2>1, <2>2
<1>12. ASSUME NEW q \in Req, NEW h \in Handler, NEW u \in User, Receive(q, h, u),
              NEW r \in Req
       PROVE  RecordedOf(r)' /\ TrueOf(r)'
  <2>1. CASE r = q
      BY <1>1, <1>12, <2>1 DEF Receive, Goto, Handler
  <2>2. CASE r # q
      BY <1>1, <1>4, <1>12, <2>2 DEF Receive, Goto
  <2>3. QED
      BY <2>1, <2>2
<1>13. ASSUME NEW p \in Pod, Crash(p), NEW r \in Req
       PROVE  RecordedOf(r)' /\ TrueOf(r)'
  <2>1. CASE PodOf[r] = p /\ pc[r] # "idle"
      BY <1>1, <1>13, <2>1 DEF Crash
  <2>2. CASE ~(PodOf[r] = p /\ pc[r] # "idle")
      BY <1>1, <1>4, <1>13, <2>2 DEF Crash
  <2>3. QED
      BY <2>1, <2>2
<1>14. ASSUME UNCHANGED <<pc, op, sub, rows, status>>, NEW r \in Req
       PROVE  RecordedOf(r)' /\ TrueOf(r)'
    BY <1>4, <1>14
<1>15. QED
    BY <1>6, <1>7, <1>8, <1>9, <1>10, <1>11, <1>12, <1>13, <1>14
       DEF Next, Handle, DeleteUser, vars, AddDevice, RemoveDevice

\* What DeleteUser answered stays true: nobody it reported deleted or missing
\* is ever in the table again, whatever SetMigrated calls were in flight.
THEOREM AnswersTrue == Spec => []DeleteAnswerIsTrue
<1>1. AnswerInv => DeleteAnswerIsTrue
    BY DEF AnswerInv
<1>2. QED
    BY <1>1, AnswerInvInit, AnswerInvStep, PTL DEF Spec
=============================================================================
