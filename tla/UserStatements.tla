--------------------------- MODULE UserStatements ---------------------------
(***************************************************************************)
(* Insert, Update and Upsert of models.User for goroutines that run at the *)
(* same time: how the statement is built from the columns asked for, the   *)
(* caches of built statements that all goroutines share, and what the      *)
(* statement does to the row and to the object.  One column stands for     *)
(* each kind there is; the name of one is a prefix of the name of another. *)
(***************************************************************************)
EXTENDS Naturals, Sequences, SequencesExt

CONSTANTS Goroutine,
          Id,        \* primary keys
          Calls,     \* calls that a goroutine may make
          MaxCalls   \* bound on the calls made

userAllColumns == {"id", "created_at", "ethereum_challenge", "ethereum_challenge_sent"}
userPrimaryKeyColumns == {"id"}
userColumnsWithDefault == <<"ethereum_challenge", "ethereum_challenge_sent">>
userColumnsWithoutDefault == {"id", "created_at"}
Defaults == ToSet(userColumnsWithDefault)

\* A column name as the pieces that a key is made of.
Name(c) == IF c = "ethereum_challenge_sent" THEN <<"ethereum_challenge", "_sent">>
           ELSE <<c>>
Names(cols) ==
    LET written[n \in Nat] == IF n = 0 THEN <<>> ELSE written[n - 1] \o Name(cols[n])
    IN  written[Len(cols)]

Zero == "zero"      \* the zero value of a field, and the default of a column
Fields == userAllColumns \ userPrimaryKeyColumns

-----------------------------------------------------------------------------
(* boil.Columns: a kind and a list (external).                             *)

Columns == [kind : {"none", "infer", "whitelist", "blacklist", "greylist"},
            cols : Seq(userAllColumns)]

\* What the options of a call of Upsert leave behind: UpsertConflictTarget the columns
\* of another conflict target, UpsertUpdateSet the columns that are set to EXCLUDED
\* instead of those of the call.  The empty list is an option that is not given.
UpsertOptions == [conflictTarget : Seq(userAllColumns), updateSet : Seq(userAllColumns)]
NoOptions == [conflictTarget |-> <<>>, updateSet |-> <<>>]

\* The arguments of a call: Insert has the first list, Update the second, Upsert all.
Ops == {"insert", "update", "upsert"}
Arguments == [op : Ops, insert : Columns, update : Columns, updateOnConflict : BOOLEAN,
              conflict : Seq(userAllColumns), opts : UpsertOptions]

ASSUME StatementsAssumption == MaxCalls \in Nat /\ Calls # {} /\ Calls \subseteq Arguments

Inferred(nz) == userColumnsWithoutDefault \cup ToSet(nz)

InsertColumnSet(columns, nz) ==
    CASE columns.kind = "none"      -> {}
      [] columns.kind = "infer"     -> Inferred(nz)
      [] columns.kind = "whitelist" -> ToSet(columns.cols)
      [] columns.kind = "blacklist" -> Inferred(nz) \ ToSet(columns.cols)
      [] columns.kind = "greylist"  -> Inferred(nz) \cup ToSet(columns.cols)

UpdateColumnSet(columns) ==
    CASE columns.kind = "none"      -> {}
      [] columns.kind = "infer"     -> Fields
      [] columns.kind = "whitelist" -> ToSet(columns.cols)
      [] columns.kind = "blacklist" -> Fields \ ToSet(columns.cols)
      [] columns.kind = "greylist"  -> Fields \cup ToSet(columns.cols)

-----------------------------------------------------------------------------
(* Keys and statements.  nz: the columns with a default for which the      *)
(* object has a value.  No is the error of a list that is empty.           *)

Spelled(columns) == <<columns.kind>> \o Names(columns.cols)

\* Mutant: the columns with a default are left out.
makeCacheKeyOfColumns(columns, nz) == Spelled(columns)

makeCacheKey(columns, nz) ==
    Spelled(columns) \o (IF nz = <<>> THEN <<>> ELSE <<".">> \o Names(nz))

InsertStatement(c, nz) ==
    LET wl == InsertColumnSet(c.insert, nz)
    IN  [cols |-> wl, ret |-> Defaults \ wl]

No == [cols |-> {}, ret |-> {}]

UpdateStatement(c) ==
    LET all == UpdateColumnSet(c.update)
        wl  == IF c.update.kind = "whitelist" THEN all ELSE all \ {"created_at"}
    IN  [cols |-> wl, ret |-> {}]

\* The key of Upsert; the options are not in it.
UpsertKey(c, nz) ==
    <<c.updateOnConflict, ".">> \o Names(c.conflict) \o <<".">> \o Spelled(c.update)
    \o <<".">> \o Spelled(c.insert) \o <<".">> \o Names(nz)

\* An option goes before the argument it replaces, but ret is that of the arguments.
buildUpsertQueryPostgres(c, ret, update, conflict, whitelist) ==
    [cols |-> whitelist, ret |-> ret,
     conflict |-> IF c.opts.conflictTarget = <<>> THEN conflict
                  ELSE ToSet(c.opts.conflictTarget),
     set |-> IF ~c.updateOnConflict \/ update = {} THEN {}
             ELSE IF c.opts.updateSet = <<>> THEN update ELSE ToSet(c.opts.updateSet)]

\* Mutant: what was inserted is not read back.
UpsertReturningOthers(c, nz) ==
    LET insert == InsertColumnSet(c.insert, nz)
        update == UpdateColumnSet(c.update)
        conflict == IF c.conflict = <<>> /\ c.updateOnConflict
                    THEN userPrimaryKeyColumns ELSE ToSet(c.conflict)
    IN  IF c.updateOnConflict /\ update = {} THEN No
        ELSE buildUpsertQueryPostgres(c, userAllColumns \ insert, update, conflict, insert)

UpsertStatement(c, nz) ==
    LET insert == InsertColumnSet(c.insert, nz)
        update == UpdateColumnSet(c.update)
        ret    == userAllColumns \ (insert \cap update)
        conflict == IF c.conflict = <<>> /\ c.updateOnConflict
                    THEN userPrimaryKeyColumns ELSE ToSet(c.conflict)
    IN  IF c.updateOnConflict /\ update = {} THEN No
        ELSE buildUpsertQueryPostgres(c, ret, update, conflict, insert)

Key(c, nz) == CASE c.op = "insert" -> makeCacheKey(c.insert, nz)
                [] c.op = "update" -> makeCacheKey(c.update, <<>>)
                [] c.op = "upsert" -> UpsertKey(c, nz)
Built(c, nz) == CASE c.op = "insert" -> InsertStatement(c, nz)
                  [] c.op = "update" -> UpdateStatement(c)
                  [] c.op = "upsert" -> UpsertStatement(c, nz)

-----------------------------------------------------------------------------
VARIABLES table,    \* the rows that exist, by id
          caches,   \* userInsertCache, userUpdateCache, userUpsertCache
          pc,       \* where the goroutine is
          call,     \* the call it is in
          id, obj,  \* its object: the key and the other fields
          nzDefaults,
          stmt, cached,  \* the statement it runs; whether it was in the cache
          calls     \* number of calls so far

vars == <<table, caches, pc, call, id, obj, nzDefaults, stmt, cached, calls>>

Values == Goroutine \cup {Zero}
NonZeroDefaultSet(o) ==
    LET found[n \in 0 .. Len(userColumnsWithDefault)] ==
            IF n = 0 THEN <<>>
            ELSE IF o[userColumnsWithDefault[n]] # Zero
            THEN Append(found[n - 1], userColumnsWithDefault[n]) ELSE found[n - 1]
    IN  found[Len(userColumnsWithDefault)]

TypeOK ==
    /\ DOMAIN table \subseteq Id /\ \A i \in DOMAIN table : table[i] \in [Fields -> Values]
    /\ pc \in [Goroutine -> {"idle", "exec", "store"}]
    /\ obj \in [Goroutine -> [Fields -> Values]] /\ id \in [Goroutine -> Id]
    /\ DOMAIN caches = Ops /\ cached \in [Goroutine -> BOOLEAN]
    /\ calls \in 0 .. MaxCalls

Init ==
    /\ table = [i \in {} |-> Zero]
    /\ caches = [op \in Ops |-> [k \in {} |-> No]]
    /\ pc = [g \in Goroutine |-> "idle"]
    /\ call \in [Goroutine -> {CHOOSE c \in Calls : TRUE}]
    /\ id \in [Goroutine -> Id]
    /\ obj = [g \in Goroutine |-> [f \in Fields |-> Zero]]
    /\ nzDefaults = [g \in Goroutine |-> <<>>]
    /\ stmt = [g \in Goroutine |-> No]
    /\ cached = [g \in Goroutine |-> FALSE]
    /\ calls = 0

\* The goroutine calls c on an object o: created_at is set unless it is an Update,
\* the cache is read under its lock, and the statement built if it is not there.
Begin(g, c, o) ==
    /\ pc[g] = "idle" /\ calls < MaxCalls
    /\ calls' = calls + 1
    /\ LET o1  == IF c.op = "update" \/ o["created_at"] # Zero THEN o
                  ELSE [o EXCEPT !["created_at"] = g]
           nz  == NonZeroDefaultSet(o1)
           key == Key(c, nz)
           hit == key \in DOMAIN caches[c.op]
           s   == IF hit THEN caches[c.op][key] ELSE Built(c, nz)
       IN  /\ call' = [call EXCEPT ![g] = c]
           /\ obj' = [obj EXCEPT ![g] = o1]
           /\ nzDefaults' = [nzDefaults EXCEPT ![g] = nz]
           /\ cached' = [cached EXCEPT ![g] = hit]
           /\ stmt' = [stmt EXCEPT ![g] = s]
           /\ pc' = [pc EXCEPT ![g] =
                       IF s = No THEN "idle" ELSE "exec"]
    /\ UNCHANGED <<table, caches, id>>

\* Mutant: a column without a value is NULL, whatever the type of the field.
ProposedNull(s, o) == [f \in Fields |-> IF f \in s.cols THEN o[f] ELSE "NULL"]

\* The row that the INSERT of s proposes for the object.
Proposed(s, o) == [f \in Fields |-> IF f \in s.cols THEN o[f] ELSE Zero]
Complete(s) == userColumnsWithoutDefault \subseteq s.cols   \* NOT NULL

\* What the statement makes of the row with the object's id, if any; Refused if a
\* constraint is violated or the conflict target is no unique index.
Refused == [f \in {} |-> Zero]
After(g) ==
    LET s == stmt[g]  c == call[g]  i == id[g]  had == i \in DOMAIN table IN
    CASE c.op = "update" ->
            IF had THEN [f \in Fields |-> IF f \in s.cols THEN obj[g][f] ELSE table[i][f]]
            ELSE Refused
      [] c.op = "insert" ->
            IF had \/ ~Complete(s) THEN Refused ELSE Proposed(s, obj[g])
      [] c.op = "upsert" ->
            IF ~Complete(s) \/ s.conflict \notin {{}, userPrimaryKeyColumns} THEN Refused
            ELSE IF ~had THEN Proposed(s, obj[g])
            ELSE [f \in Fields |-> IF f \in s.set THEN Proposed(s, obj[g])[f]
                                   ELSE table[i][f]]

\* ON CONFLICT DO NOTHING found a conflict: nothing is returned.
Ignored(g) == call[g].op = "upsert" /\ stmt[g].set = {} /\ id[g] \in DOMAIN table

Put(map, k, v) == [x \in DOMAIN map \cup {k} |-> IF x = k THEN v ELSE map[x]]

\* The statement is run, and the columns it returns are read into the object; an
\* UPDATE without a row is no error.  A failure leaves the cache alone.
Exec(g) ==
    /\ pc[g] = "exec"
    /\ \/ /\ After(g) # Refused
          /\ table' = Put(table, id[g], After(g))
          /\ obj' = IF Ignored(g) THEN obj
                    ELSE [obj EXCEPT ![g] = [f \in Fields |->
                            IF f \in stmt[g].ret THEN After(g)[f] ELSE @[f]]]
          /\ pc' = [pc EXCEPT ![g] = "store"]
       \/ /\ call[g].op = "update" /\ id[g] \notin DOMAIN table
          /\ pc' = [pc EXCEPT ![g] = "store"]
          /\ UNCHANGED <<table, obj>>
       \/ /\ pc' = [pc EXCEPT ![g] = "idle"]
          /\ UNCHANGED <<table, obj>>
    /\ UNCHANGED <<caches, call, id, nzDefaults, stmt, cached, calls>>

\* The statement is put into the cache, under its lock, if it was not there.
Store(g) ==
    /\ pc[g] = "store"
    /\ caches' = IF cached[g] THEN caches
                 ELSE [caches EXCEPT ![call[g].op] =
                         Put(@, Key(call[g], nzDefaults[g]), stmt[g])]
    /\ pc' = [pc EXCEPT ![g] = "idle"]
    /\ UNCHANGED <<table, call, id, obj, nzDefaults, stmt, cached, calls>>

\* Objects are new, with or without the columns that have a default.
Objects(g) == {o \in [Fields -> {Zero, g}] : o["created_at"] = Zero}

Next ==
    \E g \in Goroutine :
        \/ \E c \in Calls, o \in Objects(g) : Begin(g, c, o)
        \/ Exec(g) \/ Store(g)

Spec == Init /\ [][Next]_vars

-----------------------------------------------------------------------------
(* Properties.                                                             *)

\* The call without its options.
Plain(c) == [c EXCEPT !.opts = NoOptions]

\* The calls that have all but the options in common with that of g, and call for the
\* statement that g runs.
Origin(g) ==
    {d \in Calls : Plain(d) = Plain(call[g]) /\ stmt[g] = Built(d, nzDefaults[g])}

\* Whatever other goroutines have put into the caches, and whatever their order, a
\* goroutine runs the statement that its own arguments call for, up to the options of
\* Upsert: those may be the ones of another call, as the key (models/users.go:1421)
\* leaves them out.
OwnStatement ==
    \A g \in Goroutine : pc[g] = "exec" => Origin(g) # {}

\* The columns of the call that an UpsertUpdateSet, its own or that of the cached
\* statement, leaves alone when there is a conflict.
LeftAlone(g) ==
    IF id[g] \notin DOMAIN table THEN {}
    ELSE UNION {UpdateColumnSet(call[g].update) \ ToSet(d.opts.updateSet) :
                   d \in {o \in Origin(g) : o.opts.updateSet # <<>>}}

\* After an Insert or Upsert that has written the row, the object is the row: what
\* the statement did not take from the object it has given back to it.  The columns
\* that are LeftAlone are the exception: Upsert takes them for written (line 1472).
ObjectIsRow ==
    [][\A g \in Goroutine :
          pc[g] = "exec" /\ pc'[g] = "store" /\ call[g].op # "update" /\ ~Ignored(g)
              => \A f \in Fields \ LeftAlone(g) : obj'[g][f] = table'[id[g]][f]]_vars
=============================================================================
