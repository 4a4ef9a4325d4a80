---------------------------- MODULE UserRelations ---------------------------
(***************************************************************************)
(* The referral relation of models.User: the column referring_user_id, its *)
(* copy in the objects, and the pointers o.R.ReferringUser and             *)
(* o.R.ReferringUserUsers that the relationship methods keep beside it.    *)
(* The caller holds one object per user and runs the methods on the        *)
(* connection pool, each statement in a transaction of its own; any        *)
(* statement may fail, and DELETE requests of other callers remove users   *)
(* between two statements.  (R = nil and an empty R behave alike.)         *)
(***************************************************************************)
EXTENDS Naturals, Sequences, FiniteSets, SequencesExt

CONSTANTS User,    \* users, with or without a row
          Null,    \* NULL, and the nil pointer
          MaxMany, \* bound on the length of ReferringUserUsers
          MaxCalls \* bound on the calls of methods

ASSUME RelationsAssumption == Null \notin User /\ {MaxMany, MaxCalls} \subseteq Nat

VARIABLES table,   \* referring_user_id of the users that have a row
          ref,     \* o.ReferringUserID
          one,     \* o.R.ReferringUser
          many,    \* o.R.ReferringUserUsers
          op,      \* the method in progress, before its next statement
          doubt,   \* history: objects that a failed method or a DELETE has left behind
          calls    \* number of calls so far

vars == <<table, ref, one, many, op, doubt, calls>>

Ref == User \cup {Null}
Idle == [name |-> "none", o |-> Null, insert |-> FALSE, rel |-> <<>>, left |-> <<>>]
Lists == {<<>>} \cup {<<u>> : u \in User}
         \cup {s \in User \X User : s[1] # s[2]}

TypeOK ==
    /\ DOMAIN table \subseteq User
    /\ \A u \in DOMAIN table : table[u] \in DOMAIN table \cup {Null}
    /\ ref \in [User -> Ref] /\ one \in [User -> Ref]
    /\ \A u \in User : many[u] \in Seq(User) /\ Len(many[u]) =< MaxMany
    /\ op.name \in {"none", "set", "add", "replace", "remove"}

Init ==
    /\ \E S \in SUBSET User : table \in [S -> S \cup {Null}]
    /\ ref = [u \in User |-> IF u \in DOMAIN table THEN table[u] ELSE Null]
    /\ one = [u \in User |-> Null]
    /\ many = [u \in User |-> <<>>]
    /\ op = Idle
    /\ doubt = {} /\ calls = 0

-----------------------------------------------------------------------------
(* Statements.  UPDATE of a row that does not exist changes nothing and is *)
(* no error.                                                               *)

\* Mutant: the table without its foreign key.
CanInsertAny(u, r) == u \notin DOMAIN table

CanInsert(u, r) == u \notin DOMAIN table /\ r \in DOMAIN table \cup {u, Null}
InsertRow(u, r) == [v \in DOMAIN table \cup {u} |-> IF v = u THEN r ELSE table[v]]
CanUpdate(u, r) == u \in DOMAIN table => r \in DOMAIN table \cup {Null}
UpdateRow(u, r) == IF u \in DOMAIN table THEN [table EXCEPT ![u] = r] ELSE table
DeleteRow(u) ==   \* ON DELETE SET NULL
    [v \in DOMAIN table \ {u} |-> IF table[v] = u THEN Null ELSE table[v]]

Call == op = Idle /\ calls < MaxCalls /\ calls' = calls + 1

\* The method returns nil; the object is in line with its row.
Succeed(u) == op' = Idle /\ doubt' = doubt \ {u}

\* It returns the statement's error; what it did before stays done.
Failed(users) == op' = Idle /\ doubt' = doubt \cup users /\ UNCHANGED table

-----------------------------------------------------------------------------
(* Insert, Update, Delete, Reload.                                         *)

Insert(u) ==
    /\ Call
    /\ \/ CanInsert(u, ref[u]) /\ table' = InsertRow(u, ref[u]) /\ UNCHANGED <<op, doubt>>
       \/ Failed({u})
    /\ UNCHANGED <<ref, one, many>>

Update(u) ==
    /\ Call
    /\ \/ CanUpdate(u, ref[u]) /\ table' = UpdateRow(u, ref[u]) /\ UNCHANGED <<op, doubt>>
       \/ Failed({u})
    /\ UNCHANGED <<ref, one, many>>

Delete(u) ==
    /\ Call
    /\ \/ /\ table' = DeleteRow(u)
          /\ op' = Idle /\ doubt' = doubt \cup {v \in User : ref[v] = u}
       \/ Failed({})
    /\ UNCHANGED <<ref, one, many>>

\* *o = *ret: R is lost, but the pointers of other objects to o stay.
Reload(u) ==
    /\ Call /\ u \in DOMAIN table
    /\ ref' = [ref EXCEPT ![u] = table[u]]
    /\ one' = [one EXCEPT ![u] = Null]
    /\ many' = [many EXCEPT ![u] = <<>>]
    /\ doubt' = doubt \ {u}
    /\ UNCHANGED <<table, op>>

-----------------------------------------------------------------------------
(* The methods for the user who referred o.                                *)

SetReferringUserInsert(o, related) ==
    /\ Call /\ Len(many[related]) < MaxMany
    /\ \/ /\ CanInsert(related, ref[related])
          /\ table' = InsertRow(related, ref[related])
          /\ op' = [Idle EXCEPT !.name = "set", !.o = o, !.rel = <<related>>]
          /\ UNCHANGED doubt
       \/ Failed({related})
    /\ UNCHANGED <<ref, one, many>>

SetReferringUser(o, related) ==
    /\ \/ Call
       \/ op.name = "set" /\ op.o = o /\ op.rel = <<related>> /\ UNCHANGED calls
    /\ Len(many[related]) < MaxMany
    /\ \/ /\ CanUpdate(o, related) /\ table' = UpdateRow(o, related)
          /\ ref' = [ref EXCEPT ![o] = related]
          /\ one' = [one EXCEPT ![o] = related]
          /\ many' = [many EXCEPT ![related] = Append(@, o)]
          /\ Succeed(o)
       \/ Failed({o}) /\ UNCHANGED <<ref, one, many>>

\* list[i] = list[len-1]; list = list[:len-1]
Discard(list, i) ==
    [j \in 1 .. Len(list) - 1 |-> IF j = i THEN list[Len(list)] ELSE list[j]]

\* The first entry that is in users, if any, is discarded.
DiscardFirst(list, users) ==
    IF ToSet(list) \cap users = {} THEN list
    ELSE Discard(list, CHOOSE i \in DOMAIN list :
                            list[i] \in users /\ \A j \in 1 .. i - 1 : list[j] \notin users)

\* The first entry of each user of rel is discarded, in the order of rel.
DiscardEach(list, rel) ==
    LET after[n \in 0 .. Len(rel)] ==
            IF n = 0 THEN list ELSE DiscardFirst(after[n - 1], {rel[n]})
    IN  after[Len(rel)]

\* The field is cleared before the UPDATE.  The loop over the list of related
\* passes over the entries whose field equals that of o, which is NULL by now.
RemoveReferringUser(o, related) ==
    /\ Call
    /\ ref' = [ref EXCEPT ![o] = Null]
    /\ \/ /\ table' = UpdateRow(o, Null)
          /\ one' = [one EXCEPT ![o] = Null]
          /\ many' = IF related = Null THEN many
                     ELSE [many EXCEPT ![related] =
                             DiscardFirst(@, {ri \in User : ref'[ri] # ref'[o]})]
          /\ Succeed(o)
       \/ Failed({o}) /\ UNCHANGED <<one, many>>

-----------------------------------------------------------------------------
(* The methods for the users whom o referred.                              *)

Start(name, o, insert, rel) ==
    [name |-> name, o |-> o, insert |-> insert, rel |-> rel, left |-> rel]

AddReferringUserUsers(o, insert, rel) ==
    /\ Call /\ Len(many[o]) + Len(rel) =< MaxMany
    /\ op' = Start("add", o, insert, rel)
    /\ UNCHANGED <<table, ref, one, many, doubt>>

\* One round of the loop: with insert the field is assigned before the INSERT,
\* without after the UPDATE.
AddOne ==
    /\ op.name \in {"add", "replace"} /\ op.left # <<>>
    /\ LET rel == Head(op.left) IN
       \/ /\ IF op.insert
             THEN CanInsert(rel, op.o) /\ table' = InsertRow(rel, op.o)
             ELSE CanUpdate(rel, op.o) /\ table' = UpdateRow(rel, op.o)
          /\ ref' = [ref EXCEPT ![rel] = op.o]
          /\ op' = [op EXCEPT !.left = Tail(@)]
          /\ doubt' = doubt \ {rel}
       \/ /\ ref' = IF op.insert THEN [ref EXCEPT ![rel] = op.o] ELSE ref
          /\ Failed(ToSet(op.rel))
    /\ UNCHANGED <<one, many, calls>>

AddLast ==
    /\ op.name \in {"add", "replace"} /\ op.left = <<>>
    /\ many' = [many EXCEPT ![op.o] = @ \o op.rel]
    /\ one' = [u \in User |-> IF u \in ToSet(op.rel) THEN op.o ELSE one[u]]
    /\ op' = Idle
    /\ UNCHANGED <<table, ref, doubt, calls>>

\* Mutant: the objects of the list keep their field.
SetWithoutLoop(o, insert, rel) ==
    /\ Call /\ Len(rel) =< MaxMany
    /\ \/ /\ table' = [u \in DOMAIN table |-> IF table[u] = o THEN Null ELSE table[u]]
          /\ many' = [many EXCEPT ![o] = <<>>]
          /\ op' = Start("replace", o, insert, rel)
          /\ UNCHANGED <<ref, one, doubt>>
       \/ Failed({}) /\ UNCHANGED <<ref, one, many>>

\* Mutant: the rows of the objects in the list are updated, one by one.
SetByList(o, insert, rel) ==
    /\ Call /\ Len(rel) =< MaxMany
    /\ LET old == ToSet(many[o]) IN
       \/ /\ table' = [u \in DOMAIN table |-> IF u \in old THEN Null ELSE table[u]]
          /\ ref' = [u \in User |-> IF u \in old THEN Null ELSE ref[u]]
          /\ one' = [u \in User |-> IF u \in old THEN Null ELSE one[u]]
          /\ many' = [many EXCEPT ![o] = <<>>]
          /\ op' = Start("replace", o, insert, rel)
          /\ UNCHANGED doubt
       \/ Failed({}) /\ UNCHANGED <<ref, one, many>>

\* UPDATE of every row that names o, then the objects in its list are cleared, and
\* AddReferringUserUsers is called.  An object that names o without being in the
\* list is not found and goes on naming o, which its row no longer does.
SetReferringUserUsers(o, insert, rel) ==
    /\ Call /\ Len(rel) =< MaxMany
    /\ LET old == ToSet(many[o]) IN
       \/ /\ table' = [u \in DOMAIN table |-> IF table[u] = o THEN Null ELSE table[u]]
          /\ ref' = [u \in User |-> IF u \in old THEN Null ELSE ref[u]]
          /\ one' = [u \in User |-> IF u \in old THEN Null ELSE one[u]]
          /\ many' = [many EXCEPT ![o] = <<>>]
          /\ op' = Start("replace", o, insert, rel)
          /\ UNCHANGED doubt
       \/ Failed({}) /\ UNCHANGED <<ref, one, many>>

RemoveReferringUserUsers(o, rel) ==
    /\ Call /\ rel # <<>>
    /\ op' = Start("remove", o, FALSE, rel)
    /\ UNCHANGED <<table, ref, one, many, doubt>>

\* Mutant: the pointer is left to the end.
RemoveOneField ==
    /\ op.name = "remove" /\ op.left # <<>>
    /\ LET rel == Head(op.left) IN
       /\ ref' = [ref EXCEPT ![rel] = Null]
       /\ \/ /\ table' = UpdateRow(rel, Null)
             /\ op' = [op EXCEPT !.left = Tail(@)]
             /\ doubt' = doubt \ {rel}
          \/ Failed(ToSet(op.rel))
    /\ UNCHANGED <<one, many, calls>>

\* One round of the first loop: the object is cleared before the UPDATE.
RemoveOne ==
    /\ op.name = "remove" /\ op.left # <<>>
    /\ LET rel == Head(op.left) IN
       /\ ref' = [ref EXCEPT ![rel] = Null]
       /\ one' = [one EXCEPT ![rel] = Null]
       /\ \/ /\ table' = UpdateRow(rel, Null)
             /\ op' = [op EXCEPT !.left = Tail(@)]
             /\ doubt' = doubt \ {rel}
          \/ Failed(ToSet(op.rel))
    /\ UNCHANGED <<many, calls>>

\* The second loop, by pointer comparison.
RemoveLast ==
    /\ op.name = "remove" /\ op.left = <<>>
    /\ many' = [many EXCEPT ![op.o] = DiscardEach(@, op.rel)]
    /\ op' = Idle
    /\ UNCHANGED <<table, ref, one, doubt, calls>>

-----------------------------------------------------------------------------
\* DeleteUser for another caller, at any time.
OtherDelete(u) ==
    /\ u \in DOMAIN table
    /\ table' = DeleteRow(u)
    /\ doubt' = doubt \cup {v \in User : ref[v] = u}
    /\ UNCHANGED <<ref, one, many, op, calls>>

Next ==
    \/ \E u \in User : Insert(u) \/ Update(u) \/ Delete(u) \/ Reload(u) \/ OtherDelete(u)
    \/ \E o \in User : \E related \in User :
          SetReferringUserInsert(o, related) \/ SetReferringUser(o, related)
    \/ \E o \in User : \E related \in Ref : RemoveReferringUser(o, related)
    \/ \E o \in User : \E rel \in Lists :
          \/ \E insert \in BOOLEAN : \/ AddReferringUserUsers(o, insert, rel)
                                     \/ SetReferringUserUsers(o, insert, rel)
          \/ RemoveReferringUserUsers(o, rel)
    \/ AddOne \/ AddLast \/ RemoveOne \/ RemoveLast

Spec == Init /\ [][Next]_vars

-----------------------------------------------------------------------------
(* Properties.                                                             *)

\* An object whose last method did not fail agrees with itself: the referring user
\* it points to is the one it names.
PointerAgrees ==
    op = Idle => \A o \in User \ doubt : one[o] # Null => ref[o] = one[o]

\* An object whose last method did not fail names a referring user that its row
\* does not have: a later Update would write the referral back.
Misled(u) ==
    u \in DOMAIN table \ doubt /\ ref[u] \notin {table[u], Null}

\* SetReferringUserUsers reaches by its UPDATE every row that names the user, but
\* only the objects in the user's list (models/users.go:1092), and the lists go
\* stale: RemoveReferringUser discards whatever entry differs from o, an object
\* that is loaded is in no list.  So objects do come to be misled; but by no
\* other method, no failure and no DELETE of anybody, and none that was listed.
MisledOnlyIfUnlisted ==
    [][\A u \in User : Misled(u)' /\ ~Misled(u) =>
          /\ op'.name = "replace" /\ op'.o = ref[u] /\ table[u] = ref[u]
          /\ u \notin ToSet(many[ref[u]])]_vars

\* "SetReferringUserUsers removes all previously related items of the user replacing
\* them completely with the passed in related items": from its first statement to
\* its last, the rows that name o are those handled so far, whatever the list of
\* the object held; only a DELETE may take one of them away.
Replaces ==
    op.name = "replace" =>
        LET naming == {u \in DOMAIN table : table[u] = op.o}
            handled == ToSet(op.rel) \ ToSet(op.left)
        IN  naming \subseteq handled /\ (handled \cap DOMAIN table) \ doubt \subseteq naming
=============================================================================
