------------------------- MODULE UserRelationsProofs ------------------------
(***************************************************************************)
(* Proofs about UserRelations, for any number of users and any histories   *)
(* of calls.  The properties speak of the moments between two methods, or  *)
(* of one method; the invariant says what holds in the middle of a method  *)
(* too, where Handled are the objects whose field it has set and whose     *)
(* pointer it sets at its end.                                             *)
(***************************************************************************)
EXTENDS UserRelations, TLAPS

NoRepeats(s) == \A i, j \in DOMAIN s : s[i] = s[j] => i = j

Adding == op.name \in {"add", "replace"}
Handled == IF Adding THEN ToSet(op.rel) \ ToSet(op.left) ELSE {}

-----------------------------------------------------------------------------
(* The inductive invariant.                                                *)

Types ==
    /\ many \in [User -> Seq(User)]
    /\ op \in [name : {"none", "set", "add", "replace", "remove"}, o : Ref,
               insert : BOOLEAN, rel : Seq(User), left : Seq(User)]

\* The method in progress: the users left are among those it was called with.
OpInv ==
    /\ op.name = "none" => op = Idle
    /\ op.name # "none" => op.o \in User
    /\ op.rel \in Lists
    /\ NoRepeats(op.left) /\ ToSet(op.left) \subseteq ToSet(op.rel)
    /\ Adding => Len(many[op.o]) + Len(op.rel) =< MaxMany

\* Objects and their pointers.
Agrees ==
    /\ \A u \in User \ (doubt \cup Handled) : one[u] # Null => ref[u] = one[u]
    /\ \A u \in Handled : ref[u] = op.o

Inv == TypeOK /\ Types /\ OpInv /\ Agrees /\ Replaces

\* What a step does to objects and their rows: nobody new is misled, or it is the
\* step of SetReferringUserUsers that has missed the object u.
Missed(u) ==
    /\ op'.name = "replace" /\ op'.o = ref[u] /\ table[u] = ref[u]
    /\ u \notin ToSet(many[ref[u]])
Kept ==
    \A u \in DOMAIN table' \ doubt' :
        ref'[u] \in {table'[u], Null} \/ Misled(u) \/ Missed(u)

-----------------------------------------------------------------------------
(* Sequences of users.                                                     *)

\* A list without repetitions and what is left after its first entry.
LEMMA TailOf ==
    ASSUME NEW s \in Seq(User), s # <<>>, NoRepeats(s)
    PROVE  /\ Head(s) \in User /\ Head(s) \in ToSet(s) /\ Tail(s) \in Seq(User)
           /\ NoRepeats(Tail(s)) /\ ToSet(Tail(s)) = ToSet(s) \ {Head(s)}
<1> DEFINE t == Tail(s)
<1>1. /\ Len(s) \in Nat /\ Len(s) >= 1 /\ DOMAIN s = 1 .. Len(s) /\ Head(s) = s[1]
      /\ t \in Seq(User) /\ Len(t) = Len(s) - 1 /\ DOMAIN t = 1 .. (Len(s) - 1)
      /\ \A i \in 1 .. (Len(s) - 1) : t[i] = s[i + 1]
  OBVIOUS
<1> HIDE DEF t
<1>2. \A i \in DOMAIN t : t[i] = s[i + 1] /\ i + 1 \in DOMAIN s
  BY <1>1
<1>3. NoRepeats(t)
  <2> SUFFICES ASSUME NEW i \in DOMAIN t, NEW j \in DOMAIN t, t[i] = t[j] PROVE i = j
    BY DEF NoRepeats
  <2>1. i + 1 = j + 1
    BY <1>2 DEF NoRepeats
  <2> QED
    BY <1>1, <2>1
<1>4. 1 \in DOMAIN s /\ Head(s) \in User /\ Head(s) \in ToSet(s)
  BY <1>1 DEF ToSet
<1>5. ToSet(t) \subseteq ToSet(s) \ {Head(s)}
  <2> SUFFICES ASSUME NEW i \in DOMAIN t PROVE t[i] \in ToSet(s) \ {Head(s)}
    BY DEF ToSet
  <2>1. t[i] = s[i + 1] /\ i + 1 \in DOMAIN s /\ i + 1 # 1
    BY <1>1, <1>2
  <2> QED
    BY <1>1, <1>4, <2>1 DEF ToSet, NoRepeats
<1>6. ToSet(s) \ {Head(s)} \subseteq ToSet(t)
  <2> SUFFICES ASSUME NEW i \in DOMAIN s, s[i] # Head(s) PROVE s[i] \in ToSet(t)
    BY DEF ToSet
  <2>1. i # 1 /\ i - 1 \in DOMAIN t /\ t[i - 1] = s[i]
    BY <1>1
  <2> QED
    BY <2>1 DEF ToSet
<1> QED
  BY <1>1, <1>3, <1>4, <1>5, <1>6 DEF t

\* The arguments of the methods have no repeats.
LEMMA ListsType == \A s \in Lists : s \in Seq(User) /\ NoRepeats(s)
<1>1. <<>> \in Seq(User) /\ NoRepeats(<<>>)
  BY DEF NoRepeats
<1>2. ASSUME NEW u \in User PROVE <<u>> \in Seq(User) /\ NoRepeats(<<u>>)
  <2>1. DOMAIN <<u>> = {1}
    OBVIOUS
  <2> QED
    BY <2>1 DEF NoRepeats
<1>3. ASSUME NEW s \in User \X User, s[1] # s[2] PROVE s \in Seq(User) /\ NoRepeats(s)
  <2>1. PICK u \in User, v \in User : s = <<u, v>>
    OBVIOUS
  <2>2. DOMAIN s = {1, 2}
    BY <2>1
  <2>3. s \in Seq(User)
    BY <2>1
  <2> QED
    BY <1>3, <2>2, <2>3 DEF NoRepeats
<1> QED
  BY <1>1, <1>2, <1>3 DEF Lists

\* A discarded entry makes a list shorter, and adds nobody to it.
LEMMA DiscardFirstType ==
    ASSUME NEW list \in Seq(User), NEW users, NEW n \in Nat, Len(list) =< n
    PROVE  DiscardFirst(list, users) \in Seq(User) /\ Len(DiscardFirst(list, users)) =< n
<1>1. CASE ToSet(list) \cap users = {}
  BY <1>1 DEF DiscardFirst
<1>2. CASE ToSet(list) \cap users # {}
  <2>1. Len(list) \in Nat /\ DOMAIN list = 1 .. Len(list) /\ Len(list) # 0
    BY <1>2 DEF ToSet
  <2>2. ASSUME NEW i
        PROVE  Discard(list, i) \in Seq(User) /\ Len(Discard(list, i)) = Len(list) - 1
    <3>1. \A j \in 1 .. Len(list) : list[j] \in User
      OBVIOUS
    <3>2. Discard(list, i) \in [1 .. Len(list) - 1 -> User]
      BY <2>1, <3>1 DEF Discard
    <3>3. Len(list) - 1 \in Nat
      BY <2>1
    <3> QED
      BY <3>2, <3>3
  <2>3. PICK i : DiscardFirst(list, users) = Discard(list, i)
    BY <1>2 DEF DiscardFirst
  <2>4. /\ DiscardFirst(list, users) \in Seq(User)
        /\ Len(DiscardFirst(list, users)) = Len(list) - 1
    BY <2>2, <2>3
  <2> QED
    BY <2>1, <2>4
<1> QED
  BY <1>1, <1>2

\* The recursive function in DiscardEach.
Discards(list, rel, f) ==
    f = [n \in 0 .. Len(rel) |->
            IF n = 0 THEN list ELSE DiscardFirst(f[n - 1], {rel[n]})]

\* Discarding entries leaves a list that is no longer.
LEMMA DiscardEachType ==
    ASSUME NEW list \in Seq(User), NEW rel \in Lists, NEW n \in Nat, Len(list) =< n
    PROVE  DiscardEach(list, rel) \in Seq(User) /\ Len(DiscardEach(list, rel)) =< n
<1>0. Len(rel) \in 0 .. 2
  <2>1. ASSUME NEW s \in User \X User PROVE Len(s) = 2
    <3>1. PICK u \in User, v \in User : s = <<u, v>>
      OBVIOUS
    <3> QED
      BY <3>1
  <2>2. Len(<<>>) = 0 /\ \A u \in User : Len(<<u>>) = 1
    OBVIOUS
  <2> QED
    BY <2>1, <2>2 DEF Lists
<1> DEFINE first == DiscardFirst(list, {rel[1]})
           second == DiscardFirst(first, {rel[2]})
           g == [i \in 0 .. Len(rel) |-> IF i = 0 THEN list ELSE IF i = 1 THEN first ELSE second]
           f == CHOOSE h : Discards(list, rel, h)
<1>1. Discards(list, rel, g)
  <2> SUFFICES ASSUME NEW i \in 0 .. Len(rel)
               PROVE  g[i] = IF i = 0 THEN list ELSE DiscardFirst(g[i - 1], {rel[i]})
    BY DEF Discards
  <2>1. CASE i = 0
    BY <2>1
  <2>2. CASE i = 1
    <3>1. g[1] = first /\ g[0] = list
      BY <1>0, <2>2
    <3> QED
      BY <2>2, <3>1
  <2>3. CASE i = 2
    <3>1. g[2] = second /\ g[1] = first
      BY <1>0, <2>3
    <3> QED
      BY <2>3, <3>1
  <2> QED
    BY <1>0, <2>1, <2>2, <2>3
<1>2. Discards(list, rel, f)
  <2> HIDE DEF g
  <2> QED
    BY <1>1
<1>3. DiscardEach(list, rel) = f[Len(rel)]
  BY DEF DiscardEach, Discards
<1> HIDE DEF f, g, first, second
<1>4. \A i \in 0 .. Len(rel) : f[i] = IF i = 0 THEN list ELSE DiscardFirst(f[i - 1], {rel[i]})
  BY <1>2 DEF Discards
<1>5. f[0] \in Seq(User) /\ Len(f[0]) =< n
  <2>1. 0 \in 0 .. Len(rel)
    BY <1>0
  <2>2. f[0] = list
    BY <1>4, <2>1
  <2> QED
    BY <2>2
<1>6. CASE Len(rel) = 0
  BY <1>3, <1>5, <1>6
<1>7. ASSUME Len(rel) >= 1 PROVE f[1] \in Seq(User) /\ Len(f[1]) =< n
  <2>1. f[1] = DiscardFirst(f[0], {rel[1]})
    <3>1. 1 \in 0 .. Len(rel) /\ 1 - 1 = 0 /\ 1 # 0
      BY <1>0, <1>7
    <3> QED
      BY <1>4, <3>1
  <2> QED
    BY <1>5, <2>1, DiscardFirstType
<1>8. CASE Len(rel) = 1
  BY <1>3, <1>7, <1>8
<1>9. CASE Len(rel) = 2
  <2>1. f[2] = DiscardFirst(f[1], {rel[2]})
    BY <1>4, <1>9
  <2> QED
    BY <1>3, <1>7, <1>9, <2>1, DiscardFirstType
<1> QED
  BY <1>0, <1>6, <1>8, <1>9

-----------------------------------------------------------------------------
(* The table keeps its foreign key.                                        *)

ForeignKey(t) ==
    DOMAIN t \subseteq User /\ \A u \in DOMAIN t : t[u] \in DOMAIN t \cup {Null}

\* An INSERT that the foreign key accepts keeps the foreign key.
LEMMA InsertKey ==
    ASSUME ForeignKey(table), NEW u \in User, NEW r, CanInsert(u, r)
    PROVE  /\ ForeignKey(InsertRow(u, r)) /\ DOMAIN InsertRow(u, r) = DOMAIN table \cup {u}
           /\ InsertRow(u, r)[u] = r /\ u \notin DOMAIN table
           /\ \A v \in DOMAIN table : InsertRow(u, r)[v] = table[v]
  BY DEF ForeignKey, CanInsert, InsertRow

\* An UPDATE that the foreign key accepts keeps it.
LEMMA UpdateKey ==
    ASSUME ForeignKey(table), NEW u \in User, NEW r, CanUpdate(u, r)
    PROVE  /\ ForeignKey(UpdateRow(u, r)) /\ DOMAIN UpdateRow(u, r) = DOMAIN table
           /\ u \in DOMAIN table => UpdateRow(u, r)[u] = r
           /\ \A v \in DOMAIN table \ {u} : UpdateRow(u, r)[v] = table[v]
  BY DEF ForeignKey, CanUpdate, UpdateRow

\* An UPDATE that clears the reference of a user keeps the foreign key and other rows.
LEMMA ClearKey ==
    ASSUME ForeignKey(table), NEW u \in User
    PROVE  /\ ForeignKey(UpdateRow(u, Null)) /\ DOMAIN UpdateRow(u, Null) = DOMAIN table
           /\ u \in DOMAIN table => UpdateRow(u, Null)[u] = Null
           /\ \A v \in DOMAIN table \ {u} : UpdateRow(u, Null)[v] = table[v]
  BY DEF ForeignKey, UpdateRow

\* A DELETE keeps the foreign key, by ON DELETE SET NULL.
LEMMA DeleteKey ==
    ASSUME ForeignKey(table), NEW u \in User
    PROVE  /\ ForeignKey(DeleteRow(u)) /\ DOMAIN DeleteRow(u) = DOMAIN table \ {u}
           /\ \A v \in DOMAIN table \ {u} :
                  DeleteRow(u)[v] = IF table[v] = u THEN Null ELSE table[v]
  BY DEF ForeignKey, DeleteRow

-----------------------------------------------------------------------------
(* Every action preserves the invariant.                                   *)

\* What remains to be shown of an action that ends with no method in progress.
LEMMA Ends ==
    ASSUME Inv, op' = Idle, ForeignKey(table)', ref' \in [User -> Ref],
           one' \in [User -> Ref], many' \in [User -> Seq(User)],
           \A u \in User : Len(many'[u]) =< MaxMany,
           \A u \in User \ doubt' : one'[u] # Null => ref'[u] = one'[u]
    PROVE  Inv'
<1>1. /\ op'.name = "none" /\ op'.rel = <<>> /\ op'.left = <<>>
      /\ op' \in [name : {"none", "set", "add", "replace", "remove"}, o : Ref,
                  insert : BOOLEAN, rel : Seq(User), left : Seq(User)]
  <2>1. <<>> \in Seq(User)
    OBVIOUS
  <2> QED
    BY <2>1 DEF Idle, Ref
<1>2. Handled' = {}
  BY <1>1 DEF Handled, Adding
<1>3. TypeOK'
  BY <1>1 DEF TypeOK, ForeignKey
<1>4. Types'
  BY <1>1 DEF Types
<1>5. OpInv'
  BY <1>1 DEF OpInv, Adding, Lists, NoRepeats, ToSet
<1>6. Agrees'
  BY <1>2 DEF Agrees
<1>7. Replaces'
  BY <1>1 DEF Replaces
<1> QED
  BY <1>3, <1>4, <1>5, <1>6, <1>7 DEF Inv

\* Before a call.
LEMMA Calls ==
    ASSUME Inv, Call
    PROVE  /\ op = Idle /\ ForeignKey(table)
           /\ \A u \in User \ doubt : one[u] # Null => ref[u] = one[u]
<1>1. op = Idle
  BY DEF Call
<1>2. op.name = "none"
  BY <1>1 DEF Idle
<1>3. Handled = {}
  BY <1>2 DEF Handled, Adding
<1> QED
  BY <1>1, <1>3 DEF Inv, TypeOK, ForeignKey, Agrees

\* Insert keeps the invariant.
LEMMA InsertInv ==
    ASSUME Inv, NEW u \in User, Insert(u)
    PROVE  Inv' /\ Kept
<1>0. /\ op' = Idle /\ UNCHANGED <<ref, one, many>>
      /\ \/ CanInsert(u, ref[u]) /\ table' = InsertRow(u, ref[u]) /\ doubt' = doubt
         \/ table' = table /\ doubt' = doubt \cup {u}
  BY Calls DEF Insert, Failed
<1>1. ForeignKey(table) /\ \A v \in User \ doubt : one[v] # Null => ref[v] = one[v]
  BY Calls DEF Insert
<1>2. ForeignKey(table)'
  <2>1. CASE CanInsert(u, ref[u]) /\ table' = InsertRow(u, ref[u])
    <3>1. ForeignKey(InsertRow(u, ref[u]))
      BY <1>1, <2>1, InsertKey
    <3> QED
      BY <2>1, <3>1 DEF ForeignKey
  <2>2. CASE table' = table
    BY <1>1, <2>2 DEF ForeignKey
  <2> QED
    BY <1>0, <2>1, <2>2
<1>3. Kept
  <2>0. \A v \in DOMAIN table \ doubt : ref[v] \in {table[v], Null} \/ Misled(v)
    BY DEF Misled
  <2>1. CASE CanInsert(u, ref[u]) /\ table' = InsertRow(u, ref[u]) /\ doubt' = doubt
    <3>1. /\ DOMAIN table' = DOMAIN table \cup {u} /\ table'[u] = ref[u]
          /\ \A v \in DOMAIN table : table'[v] = table[v]
      BY <2>1 DEF CanInsert, InsertRow
    <3> QED
      BY <1>0, <2>0, <2>1, <3>1 DEF Kept, Misled
  <2>2. CASE table' = table /\ doubt' = doubt \cup {u}
    BY <1>0, <2>0, <2>2 DEF Kept, Misled
  <2> QED
    BY <1>0, <2>1, <2>2
<1> QED
  BY <1>0, <1>1, <1>2, <1>3, Ends DEF Inv, TypeOK, Types

\* Update keeps the invariant.
LEMMA UpdateInv ==
    ASSUME Inv, NEW u \in User, Update(u)
    PROVE  Inv' /\ Kept
<1>0. /\ op' = Idle /\ UNCHANGED <<ref, one, many>>
      /\ \/ CanUpdate(u, ref[u]) /\ table' = UpdateRow(u, ref[u]) /\ doubt' = doubt
         \/ table' = table /\ doubt' = doubt \cup {u}
  BY Calls DEF Update, Failed
<1>1. ForeignKey(table) /\ \A v \in User \ doubt : one[v] # Null => ref[v] = one[v]
  BY Calls DEF Update
<1>2. ForeignKey(table)'
  BY <1>0, <1>1, UpdateKey DEF ForeignKey
<1>3. Kept
  BY <1>0, <1>1, UpdateKey DEF Kept, Misled, Inv
<1> QED
  BY <1>0, <1>1, <1>2, <1>3, Ends DEF Inv, TypeOK, Types

\* Delete keeps the invariant.
LEMMA DeleteInv ==
    ASSUME Inv, NEW u \in User, Delete(u)
    PROVE  Inv' /\ Kept
<1>0. /\ op' = Idle /\ UNCHANGED <<ref, one, many>>
      /\ \/ table' = DeleteRow(u) /\ doubt' = doubt \cup {v \in User : ref[v] = u}
         \/ table' = table /\ doubt' = doubt
  BY Calls DEF Delete, Failed
<1>1. ForeignKey(table) /\ \A v \in User \ doubt : one[v] # Null => ref[v] = one[v]
  BY Calls DEF Delete
<1>2. ForeignKey(table)'
  BY <1>0, <1>1, DeleteKey DEF ForeignKey
<1>3. Kept
  <2>1. CASE table' = DeleteRow(u) /\ doubt' = doubt \cup {v \in User : ref[v] = u}
    <3>1. /\ DOMAIN table' = DOMAIN table \ {u} /\ DOMAIN table \subseteq User
          /\ \A v \in DOMAIN table \ {u} :
                 table'[v] = IF table[v] = u THEN Null ELSE table[v]
      <4>1. /\ DOMAIN DeleteRow(u) = DOMAIN table \ {u}
            /\ \A v \in DOMAIN table \ {u} :
                   DeleteRow(u)[v] = IF table[v] = u THEN Null ELSE table[v]
        BY <1>1, DeleteKey
      <4>2. DOMAIN table \subseteq User
        BY <1>1 DEF ForeignKey
      <4> QED
        BY <2>1, <4>1, <4>2
    <3>2. \A v \in DOMAIN table \ doubt : ref[v] \in {table[v], Null} \/ Misled(v)
      BY DEF Misled
    <3> QED
      BY <1>0, <2>1, <3>1, <3>2 DEF Kept, Misled
  <2>2. CASE table' = table /\ doubt' = doubt
    BY <1>0, <2>2 DEF Kept, Misled, Inv
  <2> QED
    BY <1>0, <2>1, <2>2
<1> QED
  BY <1>0, <1>1, <1>2, <1>3, Ends DEF Inv, TypeOK, Types

\* Reload keeps the invariant.
LEMMA ReloadInv ==
    ASSUME Inv, NEW u \in User, Reload(u)
    PROVE  Inv' /\ Kept
<1>0. /\ op' = Idle /\ table' = table /\ u \in DOMAIN table
      /\ ref' = [ref EXCEPT ![u] = table[u]] /\ one' = [one EXCEPT ![u] = Null]
      /\ many' = [many EXCEPT ![u] = <<>>] /\ doubt' = doubt \ {u}
  BY Calls DEF Reload
<1>1. ForeignKey(table) /\ \A v \in User \ doubt : one[v] # Null => ref[v] = one[v]
  BY Calls DEF Reload
<1>2. /\ ref' \in [User -> Ref] /\ one' \in [User -> Ref]
      /\ \A v \in User \ doubt' : one'[v] # Null => ref'[v] = one'[v]
  <2>1. table[u] \in Ref
    BY <1>0, <1>1 DEF ForeignKey, Ref
  <2> QED
    BY <1>0, <1>1, <2>1 DEF Inv, TypeOK, Ref
<1>3. many' \in [User -> Seq(User)] /\ \A v \in User : Len(many'[v]) =< MaxMany
  <2>1. <<>> \in Seq(User) /\ Len(<<>>) = 0 /\ MaxMany \in Nat
    BY RelationsAssumption DEF RelationsAssumption
  <2> QED
    BY <1>0, <2>1 DEF Inv, TypeOK, Types
<1>4. Kept
  BY <1>0, <1>1 DEF Kept, Misled, Inv, TypeOK, ForeignKey
<1>5. ForeignKey(table)'
  BY <1>0, <1>1 DEF ForeignKey
<1> QED
  BY <1>0, <1>2, <1>3, <1>4, <1>5, Ends

\* The INSERT of SetReferringUser keeps the invariant.
LEMMA SetReferringUserInsertInv ==
    ASSUME Inv, NEW o \in User, NEW related \in User, SetReferringUserInsert(o, related)
    PROVE  Inv' /\ Kept
<1>0. UNCHANGED <<ref, one, many>>
  BY DEF SetReferringUserInsert
<1>1. ForeignKey(table) /\ \A v \in User \ doubt : one[v] # Null => ref[v] = one[v]
  BY Calls DEF SetReferringUserInsert
<1>2. CASE /\ CanInsert(related, ref[related]) /\ table' = InsertRow(related, ref[related])
           /\ op' = [Idle EXCEPT !.name = "set", !.o = o, !.rel = <<related>>]
           /\ doubt' = doubt
  <2>1. /\ op'.name = "set" /\ op'.o = o /\ op'.rel = <<related>> /\ op'.left = <<>>
        /\ op' \in [name : {"none", "set", "add", "replace", "remove"}, o : Ref,
                    insert : BOOLEAN, rel : Seq(User), left : Seq(User)]
    <3>1. <<>> \in Seq(User) /\ <<related>> \in Seq(User) /\ o \in Ref
      BY DEF Ref
    <3> QED
      BY <1>2, <3>1 DEF Idle
  <2>2. Handled' = {}
    BY <2>1 DEF Handled, Adding
  <2>3. /\ DOMAIN table' = DOMAIN table \cup {related} /\ table'[related] = ref[related]
        /\ \A v \in DOMAIN table : table'[v] = table[v]
    BY <1>2 DEF CanInsert, InsertRow
  <2>4. TypeOK'
    <3>1. ForeignKey(table)'
      BY <1>1, <1>2, InsertKey DEF ForeignKey
    <3> QED
      BY <1>0, <2>1, <3>1 DEF Inv, TypeOK, ForeignKey
  <2>5. Types'
    BY <1>0, <2>1 DEF Inv, Types
  <2>6. OpInv'
    BY <2>1 DEF OpInv, Adding, Lists, NoRepeats, ToSet
  <2>7. Agrees'
    BY <1>0, <1>1, <1>2, <2>2 DEF Agrees
  <2>8. Kept
    BY <1>0, <1>2, <2>3 DEF Inv, Kept, Misled
  <2>9. Replaces'
    BY <2>1 DEF Replaces
  <2> QED
    BY <2>4, <2>5, <2>6, <2>7, <2>8, <2>9 DEF Inv
<1>3. CASE Failed({related})
  <2>1. op' = Idle /\ table' = table /\ doubt' = doubt \cup {related}
    BY <1>3 DEF Failed
  <2>2. Kept /\ ForeignKey(table)'
    BY <1>0, <1>1, <2>1 DEF Inv, Kept, Misled, ForeignKey
  <2> QED
    BY <1>0, <1>1, <2>1, <2>2, Ends DEF Inv, TypeOK, Types
<1> QED
  BY <1>2, <1>3 DEF SetReferringUserInsert

\* The UPDATE of SetReferringUser and its pointers keep the invariant.
LEMMA SetReferringUserInv ==
    ASSUME Inv, NEW o \in User, NEW related \in User, SetReferringUser(o, related)
    PROVE  Inv' /\ Kept
<1>1. ForeignKey(table) /\ \A v \in User \ doubt : one[v] # Null => ref[v] = one[v]
  <2>1. CASE Call
    BY <2>1, Calls
  <2>2. CASE op.name = "set"
    <3>1. Handled = {}
      BY <2>2 DEF Handled, Adding
    <3> QED
      BY <3>1 DEF Inv, TypeOK, ForeignKey, Agrees
  <2> QED
    BY <2>1, <2>2 DEF SetReferringUser
<1>2. CASE /\ CanUpdate(o, related) /\ table' = UpdateRow(o, related)
           /\ ref' = [ref EXCEPT ![o] = related] /\ one' = [one EXCEPT ![o] = related]
           /\ many' = [many EXCEPT ![related] = Append(many[related], o)]
           /\ Succeed(o)
  <2>0. op' = Idle /\ doubt' = doubt \ {o} /\ Len(many[related]) < MaxMany
    BY <1>2 DEF Succeed, SetReferringUser
  <2>1. /\ ref' \in [User -> Ref] /\ one' \in [User -> Ref]
        /\ \A v \in User \ doubt' : one'[v] # Null => ref'[v] = one'[v]
    BY <1>1, <1>2, <2>0 DEF Inv, TypeOK, Ref
  <2>2. many' \in [User -> Seq(User)] /\ \A v \in User : Len(many'[v]) =< MaxMany
    <3>1. MaxMany \in Nat
      BY RelationsAssumption DEF RelationsAssumption
    <3>2. many[related] \in Seq(User) /\ Len(many[related]) \in Nat
      BY DEF Inv, Types
    <3>3. /\ Append(many[related], o) \in Seq(User)
          /\ Len(Append(many[related], o)) =< MaxMany
      BY <2>0, <3>1, <3>2
    <3> QED
      BY <1>2, <3>3 DEF Inv, TypeOK, Types
  <2>3. /\ ForeignKey(table') /\ DOMAIN table' = DOMAIN table
        /\ o \in DOMAIN table => table'[o] = related
        /\ \A v \in DOMAIN table \ {o} : table'[v] = table[v]
    BY <1>1, <1>2, UpdateKey
  <2>4. Kept
    BY <1>1, <1>2, <2>0, <2>3 DEF Inv, Kept, Misled, TypeOK, ForeignKey
  <2>5. ForeignKey(table)'
    BY <2>3 DEF ForeignKey
  <2> QED
    BY <2>0, <2>1, <2>2, <2>4, <2>5, Ends
<1>3. CASE Failed({o}) /\ UNCHANGED <<ref, one, many>>
  <2>1. op' = Idle /\ table' = table /\ doubt' = doubt \cup {o}
    BY <1>3 DEF Failed
  <2>2. Kept /\ ForeignKey(table)'
    BY <1>1, <1>3, <2>1 DEF Inv, Kept, Misled, ForeignKey
  <2> QED
    BY <1>1, <1>3, <2>1, <2>2, Ends DEF Inv, TypeOK, Types
<1> QED
  BY <1>2, <1>3 DEF SetReferringUser

\* RemoveReferringUser keeps the invariant.
LEMMA RemoveReferringUserInv ==
    ASSUME Inv, NEW o \in User, NEW related \in Ref, RemoveReferringUser(o, related)
    PROVE  Inv' /\ Kept
<1>0. ref' = [ref EXCEPT ![o] = Null]
  BY DEF RemoveReferringUser
<1>1. ForeignKey(table) /\ \A v \in User \ doubt : one[v] # Null => ref[v] = one[v]
  BY Calls DEF RemoveReferringUser
<1>2. ref' \in [User -> Ref]
  BY <1>0 DEF Inv, TypeOK, Ref
<1>3. CASE /\ table' = UpdateRow(o, Null) /\ one' = [one EXCEPT ![o] = Null]
           /\ many' = IF related = Null THEN many
                      ELSE [many EXCEPT ![related] =
                               DiscardFirst(many[related], {ri \in User : ref'[ri] # ref'[o]})]
           /\ Succeed(o)
  <2>0. op' = Idle /\ doubt' = doubt \ {o}
    BY <1>3 DEF Succeed
  <2>1. /\ one' \in [User -> Ref]
        /\ \A v \in User \ doubt' : one'[v] # Null => ref'[v] = one'[v]
    BY <1>0, <1>1, <1>3, <2>0 DEF Inv, TypeOK, Ref
  <2>2. many' \in [User -> Seq(User)] /\ \A v \in User : Len(many'[v]) =< MaxMany
    <3> DEFINE list == DiscardFirst(many[related], {ri \in User : ref'[ri] # ref'[o]})
    <3>1. CASE related = Null
      BY <1>3, <3>1 DEF Inv, TypeOK, Types
    <3>2. CASE related # Null
      <4>1. related \in User
        BY <3>2 DEF Ref
      <4>2. list \in Seq(User) /\ Len(list) =< MaxMany
        BY <4>1, DiscardFirstType, RelationsAssumption
        DEF Inv, TypeOK, Types, RelationsAssumption
      <4>3. many' = [many EXCEPT ![related] = list]
        BY <1>3, <3>2
      <4> HIDE DEF list
      <4> QED
        BY <4>1, <4>2, <4>3 DEF Inv, TypeOK, Types
    <3> QED
      BY <3>1, <3>2
  <2>3. /\ ForeignKey(table') /\ DOMAIN table' = DOMAIN table
        /\ \A v \in DOMAIN table \ {o} : table'[v] = table[v]
    BY <1>1, <1>3, ClearKey
  <2>4. Kept
    BY <1>0, <1>1, <2>0, <2>3 DEF Inv, Kept, Misled, TypeOK, ForeignKey
  <2>5. ForeignKey(table)'
    BY <2>3 DEF ForeignKey
  <2> QED
    BY <1>2, <2>0, <2>1, <2>2, <2>4, <2>5, Ends
<1>4. CASE Failed({o}) /\ UNCHANGED <<one, many>>
  <2>1. op' = Idle /\ table' = table /\ doubt' = doubt \cup {o}
    BY <1>4 DEF Failed
  <2>2. Kept /\ ForeignKey(table)'
    BY <1>0, <1>1, <2>1 DEF Inv, TypeOK, Kept, Misled, ForeignKey
  <2>3. \A v \in User \ doubt' : one'[v] # Null => ref'[v] = one'[v]
    BY <1>0, <1>1, <1>4, <2>1 DEF Inv, TypeOK
  <2> QED
    BY <1>2, <1>4, <2>1, <2>2, <2>3, Ends DEF Inv, TypeOK, Types
<1> QED
  BY <1>3, <1>4 DEF RemoveReferringUser

\* A method with a list begins: nothing is handled yet.
LEMMA StartFacts ==
    ASSUME NEW name \in {"add", "replace", "remove"}, NEW o \in User,
           NEW insert \in BOOLEAN, NEW rel \in Lists, op' = Start(name, o, insert, rel)
    PROVE  /\ op'.name = name /\ op'.o = o /\ op'.rel = rel /\ op'.left = rel
           /\ op' \in [name : {"none", "set", "add", "replace", "remove"}, o : Ref,
                       insert : BOOLEAN, rel : Seq(User), left : Seq(User)]
           /\ Handled' = {} /\ NoRepeats(op'.left)
<1>1. rel \in Seq(User) /\ NoRepeats(rel) /\ o \in Ref
  BY ListsType DEF Ref
<1>2. /\ op'.name = name /\ op'.o = o /\ op'.rel = rel /\ op'.left = rel
      /\ op' \in [name : {"none", "set", "add", "replace", "remove"}, o : Ref,
                  insert : BOOLEAN, rel : Seq(User), left : Seq(User)]
  BY <1>1 DEF Start
<1>3. Handled' = {}
  BY <1>2 DEF Handled
<1> QED
  BY <1>1, <1>2, <1>3

\* AddReferringUserUsers begins: no object is handled yet.
LEMMA AddReferringUserUsersInv ==
    ASSUME Inv, NEW o \in User, NEW insert \in BOOLEAN, NEW rel \in Lists,
           AddReferringUserUsers(o, insert, rel)
    PROVE  Inv' /\ Kept
<1>0. /\ op' = Start("add", o, insert, rel) /\ Len(many[o]) + Len(rel) =< MaxMany
      /\ UNCHANGED <<table, ref, one, many, doubt>>
  BY DEF AddReferringUserUsers
<1>1. \A v \in User \ doubt : one[v] # Null => ref[v] = one[v]
  BY Calls DEF AddReferringUserUsers
<1>2. /\ op'.name = "add" /\ op'.o = o /\ op'.rel = rel /\ op'.left = rel
      /\ op' \in [name : {"none", "set", "add", "replace", "remove"}, o : Ref,
                  insert : BOOLEAN, rel : Seq(User), left : Seq(User)]
      /\ Handled' = {} /\ NoRepeats(op'.left)
  BY <1>0, StartFacts
<1>3. TypeOK' /\ Types'
  BY <1>0, <1>2 DEF Inv, TypeOK, Types
<1>4. OpInv'
  BY <1>0, <1>2 DEF OpInv, NoRepeats
<1>5. Agrees' /\ Kept /\ Replaces'
  BY <1>0, <1>1, <1>2 DEF Inv, Agrees, Kept, Misled, Replaces
<1> QED
  BY <1>3, <1>4, <1>5 DEF Inv

\* SetReferringUserUsers begins by detaching all users, and no row names the user.
LEMMA SetReferringUserUsersInv ==
    ASSUME Inv, NEW o \in User, NEW insert \in BOOLEAN, NEW rel \in Lists,
           SetReferringUserUsers(o, insert, rel)
    PROVE  Inv' /\ Kept
<1> DEFINE old == ToSet(many[o])
<1>1. ForeignKey(table) /\ \A v \in User \ doubt : one[v] # Null => ref[v] = one[v]
  BY Calls DEF SetReferringUserUsers
<1>2. CASE /\ table' = [u \in DOMAIN table |-> IF table[u] = o THEN Null ELSE table[u]]
           /\ ref' = [u \in User |-> IF u \in old THEN Null ELSE ref[u]]
           /\ one' = [u \in User |-> IF u \in old THEN Null ELSE one[u]]
           /\ many' = [many EXCEPT ![o] = <<>>]
           /\ op' = Start("replace", o, insert, rel)
           /\ doubt' = doubt
  <2>1. /\ op'.name = "replace" /\ op'.o = o /\ op'.rel = rel /\ op'.left = rel
        /\ op' \in [name : {"none", "set", "add", "replace", "remove"}, o : Ref,
                    insert : BOOLEAN, rel : Seq(User), left : Seq(User)]
        /\ Handled' = {} /\ NoRepeats(op'.left)
    BY <1>2, StartFacts
  <2>2. /\ MaxMany \in Nat /\ Null \notin User /\ Len(rel) =< MaxMany
        /\ <<>> \in Seq(User) /\ Len(<<>>) = 0
    BY RelationsAssumption DEF RelationsAssumption, SetReferringUserUsers
  <2>3. /\ many' \in [User -> Seq(User)] /\ \A u \in User : Len(many'[u]) =< MaxMany
        /\ Len(many'[o]) = 0
    BY <1>2, <2>2 DEF Inv, TypeOK, Types
  <2> HIDE DEF old
  <2>4. /\ DOMAIN table' = DOMAIN table /\ DOMAIN table \subseteq User
        /\ \A u \in DOMAIN table : table'[u] = IF table[u] = o THEN Null ELSE table[u]
    BY <1>1, <1>2 DEF ForeignKey
  <2>5. ref' \in [User -> Ref] /\ one' \in [User -> Ref]
    BY <1>2 DEF Inv, TypeOK, Ref
  <2>6. TypeOK'
    BY <1>1, <2>1, <2>3, <2>4, <2>5 DEF TypeOK, ForeignKey
  <2>7. Types'
    BY <2>1, <2>3 DEF Types
  <2>8. OpInv'
    <3>1. Len(rel) \in Nat
      BY ListsType
    <3>2. Len(many'[op'.o]) + Len(op'.rel) =< MaxMany
      BY <2>1, <2>2, <2>3, <3>1
    <3> QED
      BY <2>1, <3>2 DEF OpInv
  <2>9. Agrees'
    BY <1>1, <1>2, <2>1 DEF Agrees
  <2>10. Kept
    <3> SUFFICES ASSUME NEW u \in DOMAIN table' \ doubt', ref'[u] \notin {table'[u], Null}
                 PROVE  Misled(u) \/ Missed(u)
      BY DEF Kept
    <3>1. u \in DOMAIN table \ doubt /\ u \notin old /\ ref'[u] = ref[u]
      BY <1>2, <2>4
    <3>2. CASE ref[u] = o /\ table[u] = o
      BY <2>1, <3>1, <3>2 DEF Missed, old
    <3>3. CASE ~(ref[u] = o /\ table[u] = o)
      BY <2>4, <3>1, <3>3 DEF Misled
    <3> QED
      BY <3>2, <3>3
  <2>11. Replaces'
    BY <2>1, <2>2, <2>4 DEF Replaces
  <2> QED
    BY <2>6, <2>7, <2>8, <2>9, <2>10, <2>11 DEF Inv
<1>3. CASE Failed({}) /\ UNCHANGED <<ref, one, many>>
  <2>1. op' = Idle /\ table' = table /\ doubt' = doubt
    BY <1>3 DEF Failed
  <2>2. Kept /\ ForeignKey(table)'
    BY <1>1, <1>3, <2>1 DEF Inv, Kept, Misled, ForeignKey
  <2> QED
    BY <1>1, <1>3, <2>1, <2>2, Ends DEF Inv, TypeOK, Types
<1> QED
  BY <1>2, <1>3 DEF SetReferringUserUsers

\* RemoveReferringUserUsers begins: nothing is changed yet.
LEMMA RemoveReferringUserUsersInv ==
    ASSUME Inv, NEW o \in User, NEW rel \in Lists, RemoveReferringUserUsers(o, rel)
    PROVE  Inv' /\ Kept
<1>0. op' = Start("remove", o, FALSE, rel) /\ UNCHANGED <<table, ref, one, many, doubt>>
  BY DEF RemoveReferringUserUsers
<1>1. \A v \in User \ doubt : one[v] # Null => ref[v] = one[v]
  BY Calls DEF RemoveReferringUserUsers
<1>2. /\ op'.name = "remove" /\ op'.o = o /\ op'.rel = rel /\ op'.left = rel
      /\ op' \in [name : {"none", "set", "add", "replace", "remove"}, o : Ref,
                  insert : BOOLEAN, rel : Seq(User), left : Seq(User)]
      /\ Handled' = {} /\ NoRepeats(op'.left)
  BY <1>0, StartFacts
<1>3. TypeOK' /\ Types'
  BY <1>0, <1>2 DEF Inv, TypeOK, Types
<1>4. OpInv'
  BY <1>2 DEF OpInv, Adding
<1>5. Agrees' /\ Kept /\ Replaces'
  BY <1>0, <1>1, <1>2 DEF Inv, Agrees, Kept, Misled, Replaces
<1> QED
  BY <1>3, <1>4, <1>5 DEF Inv

\* A round of a loop takes the first of the users left.
LEMMA RoundFacts ==
    ASSUME Inv, op.left # <<>>, op' = [op EXCEPT !.left = Tail(op.left)]
    PROVE  LET rel == Head(op.left)
           IN  /\ op'.name = op.name /\ op'.o = op.o /\ op'.rel = op.rel
               /\ op' \in [name : {"none", "set", "add", "replace", "remove"}, o : Ref,
                           insert : BOOLEAN, rel : Seq(User), left : Seq(User)]
               /\ rel \in User /\ rel \in ToSet(op.rel) /\ rel \notin Handled
               /\ NoRepeats(op'.left) /\ ToSet(op'.left) = ToSet(op.left) \ {rel}
               /\ Handled' = IF Adding THEN Handled \cup {rel} ELSE {}
<1> DEFINE rel == Head(op.left)
<1>1. /\ op.left \in Seq(User) /\ NoRepeats(op.left) /\ ToSet(op.left) \subseteq ToSet(op.rel)
  BY DEF Inv, Types, OpInv
<1>2. /\ rel \in User /\ rel \in ToSet(op.left) /\ Tail(op.left) \in Seq(User)
      /\ NoRepeats(Tail(op.left)) /\ ToSet(Tail(op.left)) = ToSet(op.left) \ {rel}
  BY <1>1, TailOf
<1>3. /\ op'.name = op.name /\ op'.o = op.o /\ op'.rel = op.rel /\ op'.left = Tail(op.left)
      /\ op' \in [name : {"none", "set", "add", "replace", "remove"}, o : Ref,
                  insert : BOOLEAN, rel : Seq(User), left : Seq(User)]
  BY <1>2 DEF Inv, Types
<1> HIDE DEF rel
<1>4. rel \notin Handled /\ Handled' = IF Adding THEN Handled \cup {rel} ELSE {}
  BY <1>1, <1>2, <1>3 DEF Handled, Adding
<1> QED
  BY <1>1, <1>2, <1>3, <1>4 DEF rel

\* A round of AddReferringUserUsers: one more object is handled, or the method fails.
LEMMA AddOneInv ==
    ASSUME Inv, AddOne
    PROVE  Inv' /\ Kept
<1> DEFINE rel == Head(op.left)
<1>0. Adding /\ op.left # <<>> /\ UNCHANGED <<one, many>>
  BY DEF AddOne, Adding
<1>1. /\ op.o \in User /\ ForeignKey(table) /\ ref \in [User -> Ref] /\ one \in [User -> Ref]
      /\ many \in [User -> Seq(User)] /\ \A u \in User : Len(many[u]) =< MaxMany
  BY <1>0 DEF Inv, TypeOK, Types, OpInv, Adding, ForeignKey
<1>2. rel \in User /\ Handled \subseteq ToSet(op.rel) /\ rel \in ToSet(op.rel)
  BY <1>0, TailOf DEF Inv, Types, OpInv, Handled
<1>3. /\ \A u \in User \ (doubt \cup Handled) : one[u] # Null => ref[u] = one[u]
      /\ \A u \in Handled : ref[u] = op.o
      /\ \A u \in DOMAIN table \ doubt : ref[u] \in {table[u], Null} \/ Misled(u)
  BY DEF Inv, Agrees, Misled
<1>4. CASE /\ IF op.insert
              THEN CanInsert(rel, op.o) /\ table' = InsertRow(rel, op.o)
              ELSE CanUpdate(rel, op.o) /\ table' = UpdateRow(rel, op.o)
           /\ ref' = [ref EXCEPT ![rel] = op.o]
           /\ op' = [op EXCEPT !.left = Tail(op.left)]
           /\ doubt' = doubt \ {rel}
  <2>1. /\ op'.name = op.name /\ op'.o = op.o /\ op'.rel = op.rel
        /\ op' \in [name : {"none", "set", "add", "replace", "remove"}, o : Ref,
                    insert : BOOLEAN, rel : Seq(User), left : Seq(User)]
        /\ NoRepeats(op'.left) /\ ToSet(op'.left) = ToSet(op.left) \ {rel}
        /\ Handled' = Handled \cup {rel}
    BY <1>0, <1>4, RoundFacts
  <2> HIDE DEF rel
  <2>2. /\ ForeignKey(table') /\ DOMAIN table' \subseteq DOMAIN table \cup {rel}
        /\ rel \in DOMAIN table' => table'[rel] = op.o
        /\ \A v \in DOMAIN table' \ {rel} : v \in DOMAIN table /\ table'[v] = table[v]
    <3>1. CASE op.insert
      <4>1. CanInsert(rel, op.o) /\ table' = InsertRow(rel, op.o)
        BY <1>4, <3>1
      <4>2. /\ ForeignKey(InsertRow(rel, op.o))
            /\ DOMAIN InsertRow(rel, op.o) = DOMAIN table \cup {rel}
            /\ InsertRow(rel, op.o)[rel] = op.o
            /\ \A v \in DOMAIN table : InsertRow(rel, op.o)[v] = table[v]
        BY <1>1, <1>2, <4>1, InsertKey
      <4> QED
        BY <4>1, <4>2
    <3>2. CASE ~op.insert
      <4>1. CanUpdate(rel, op.o) /\ table' = UpdateRow(rel, op.o)
        BY <1>4, <3>2
      <4> QED
        BY <1>1, <1>2, <4>1, UpdateKey
    <3> QED
      BY <3>1, <3>2
  <2>3. ref' \in [User -> Ref] /\ ref'[rel] = op.o /\ \A u \in User \ {rel} : ref'[u] = ref[u]
    BY <1>1, <1>2, <1>4 DEF Ref
  <2>4. TypeOK'
    BY <1>0, <1>1, <2>1, <2>2, <2>3 DEF TypeOK, ForeignKey, Inv
  <2>5. Types'
    BY <1>0, <1>1, <2>1 DEF Types
  <2>6. OpInv'
    BY <1>0, <2>1 DEF Inv, OpInv, Adding
  <2>7. Agrees'
    <3>1. ASSUME NEW u \in User, u \notin doubt', u \notin Handled', one'[u] # Null
          PROVE  ref'[u] = one'[u]
      BY <1>0, <1>3, <1>4, <2>1, <2>3, <3>1
    <3>2. ASSUME NEW u \in Handled' PROVE ref'[u] = op'.o
      <4>1. Handled \subseteq User
        BY <1>0 DEF Inv, Types, Handled, ToSet
      <4> QED
        BY <1>3, <2>1, <2>3, <4>1
    <3> QED
      BY <3>1, <3>2 DEF Agrees
  <2>8. Kept
    BY <1>1, <1>3, <1>4, <2>2, <2>3 DEF Kept, Misled, ForeignKey
  <2>9. Replaces'
    <3> SUFFICES ASSUME op.name = "replace"
                 PROVE  /\ \A u \in DOMAIN table' : table'[u] = op.o => u \in Handled'
                        /\ \A u \in Handled' : u \in DOMAIN table' /\ u \notin doubt'
                                                  => table'[u] = op.o
      BY <1>0, <2>1 DEF Replaces, Handled, Adding
    <3>1. /\ \A u \in DOMAIN table : table[u] = op.o => u \in Handled
          /\ \A u \in Handled : u \in DOMAIN table /\ u \notin doubt => table[u] = op.o
      BY <1>0 DEF Inv, Replaces, Handled
    <3> QED
      BY <1>4, <2>1, <2>2, <3>1
  <2> QED
    BY <2>4, <2>5, <2>6, <2>7, <2>8, <2>9 DEF Inv
<1>5. CASE /\ ref' = IF op.insert THEN [ref EXCEPT ![rel] = op.o] ELSE ref
           /\ Failed(ToSet(op.rel))
  <2> HIDE DEF rel
  <2>1. op' = Idle /\ table' = table /\ doubt' = doubt \cup ToSet(op.rel)
    BY <1>5 DEF Failed
  <2>2. ref' \in [User -> Ref] /\ \A u \in User \ {rel} : ref'[u] = ref[u]
    BY <1>1, <1>2, <1>5 DEF Ref
  <2>3. \A u \in User \ doubt' : one'[u] # Null => ref'[u] = one'[u]
    BY <1>0, <1>2, <1>3, <2>1, <2>2
  <2>4. Kept /\ ForeignKey(table)'
    BY <1>1, <1>2, <1>3, <2>1, <2>2 DEF Kept, Misled, ForeignKey
  <2> QED
    BY <1>0, <1>1, <2>1, <2>2, <2>3, <2>4, Ends
<1> QED
  BY <1>4, <1>5 DEF AddOne

\* The end of AddReferringUserUsers sets the pointers of the objects handled.
LEMMA AddLastInv ==
    ASSUME Inv, AddLast
    PROVE  Inv' /\ Kept
<1>0. /\ Adding /\ op.left = <<>> /\ op' = Idle /\ UNCHANGED <<table, ref, doubt>>
      /\ many' = [many EXCEPT ![op.o] = many[op.o] \o op.rel]
      /\ one' = [u \in User |-> IF u \in ToSet(op.rel) THEN op.o ELSE one[u]]
  BY DEF AddLast, Adding
<1>1. /\ op.o \in User /\ ForeignKey(table) /\ ref \in [User -> Ref] /\ one \in [User -> Ref]
      /\ many \in [User -> Seq(User)] /\ \A u \in User : Len(many[u]) =< MaxMany
      /\ op.rel \in Seq(User) /\ Len(many[op.o]) + Len(op.rel) =< MaxMany
  BY <1>0 DEF Inv, TypeOK, Types, OpInv, Adding, ForeignKey
<1>2. Handled = ToSet(op.rel)
  BY <1>0 DEF Handled, ToSet
<1>3. many' \in [User -> Seq(User)] /\ \A u \in User : Len(many'[u]) =< MaxMany
  <2>1. many[op.o] \in Seq(User)
    BY <1>1
  <2>2. \A s, t \in Seq(User) : s \o t \in Seq(User) /\ Len(s \o t) = Len(s) + Len(t)
    OBVIOUS
  <2>3. /\ many[op.o] \o op.rel \in Seq(User)
        /\ Len(many[op.o] \o op.rel) =< MaxMany
    BY <1>1, <2>1, <2>2
  <2> QED
    BY <1>0, <1>1, <2>3
<1>4. /\ one' \in [User -> Ref]
      /\ \A u \in User \ doubt' : one'[u] # Null => ref'[u] = one'[u]
  <2>1. /\ \A u \in User \ (doubt \cup Handled) : one[u] # Null => ref[u] = one[u]
        /\ \A u \in Handled : ref[u] = op.o
    BY DEF Inv, Agrees
  <2> QED
    BY <1>0, <1>1, <1>2, <2>1 DEF Ref
<1>5. Kept /\ ForeignKey(table)' /\ ref' \in [User -> Ref]
  BY <1>0, <1>1 DEF Inv, Kept, Misled, ForeignKey
<1> QED
  BY <1>0, <1>3, <1>4, <1>5, Ends

\* A round of RemoveReferringUserUsers: one more object is cleared.
LEMMA RemoveOneInv ==
    ASSUME Inv, RemoveOne
    PROVE  Inv' /\ Kept
<1> DEFINE rel == Head(op.left)
<1>0. /\ op.name = "remove" /\ op.left # <<>> /\ many' = many
      /\ ref' = [ref EXCEPT ![rel] = Null] /\ one' = [one EXCEPT ![rel] = Null]
      /\ \/ /\ table' = UpdateRow(rel, Null) /\ op' = [op EXCEPT !.left = Tail(op.left)]
            /\ doubt' = doubt \ {rel}
         \/ Failed(ToSet(op.rel))
  BY DEF RemoveOne
<1>1. rel \in User
  BY <1>0, TailOf DEF Inv, Types, OpInv
<1> HIDE DEF rel
<1>2. Handled = {} /\ ~Adding
  BY <1>0 DEF Handled, Adding
<1>3. /\ ForeignKey(table) /\ ref \in [User -> Ref] /\ one \in [User -> Ref]
      /\ many \in [User -> Seq(User)] /\ \A u \in User : Len(many[u]) =< MaxMany
      /\ \A u \in User \ doubt : one[u] # Null => ref[u] = one[u]
      /\ \A u \in DOMAIN table \ doubt : ref[u] \in {table[u], Null} \/ Misled(u)
  BY <1>2 DEF Inv, TypeOK, Types, Agrees, Kept, Misled, ForeignKey
<1>4. /\ ref' \in [User -> Ref] /\ one' \in [User -> Ref]
      /\ ref'[rel] = Null /\ one'[rel] = Null
      /\ \A u \in User \ {rel} : ref'[u] = ref[u] /\ one'[u] = one[u]
  BY <1>0, <1>1, <1>3 DEF Ref
<1>5. CASE /\ table' = UpdateRow(rel, Null) /\ op' = [op EXCEPT !.left = Tail(op.left)]
           /\ doubt' = doubt \ {rel}
  <2>1. /\ op'.name = op.name /\ op'.o = op.o /\ op'.rel = op.rel
        /\ op' \in [name : {"none", "set", "add", "replace", "remove"}, o : Ref,
                    insert : BOOLEAN, rel : Seq(User), left : Seq(User)]
        /\ NoRepeats(op'.left) /\ ToSet(op'.left) \subseteq ToSet(op.left)
        /\ Handled' = {}
    BY <1>0, <1>2, <1>5, RoundFacts
  <2>2. /\ ForeignKey(table') /\ DOMAIN table' = DOMAIN table
        /\ \A v \in DOMAIN table \ {rel} : table'[v] = table[v]
    BY <1>1, <1>3, <1>5, ClearKey
  <2>3. TypeOK' /\ Types'
    BY <1>0, <1>3, <1>4, <2>1, <2>2 DEF TypeOK, Types, ForeignKey
  <2>4. OpInv'
    BY <1>0, <2>1 DEF Inv, OpInv, Adding
  <2>5. Agrees'
    BY <1>3, <1>4, <1>5, <2>1 DEF Agrees
  <2>6. Kept
    BY <1>3, <1>4, <1>5, <2>2 DEF Kept, Misled, ForeignKey
  <2>7. Replaces'
    BY <1>0, <2>1 DEF Replaces
  <2> QED
    BY <2>3, <2>4, <2>5, <2>6, <2>7 DEF Inv
<1>6. CASE Failed(ToSet(op.rel))
  <2>1. op' = Idle /\ table' = table /\ doubt' = doubt \cup ToSet(op.rel)
    BY <1>6 DEF Failed
  <2>2. \A u \in User \ doubt' : one'[u] # Null => ref'[u] = one'[u]
    BY <1>3, <1>4, <2>1
  <2>3. Kept /\ ForeignKey(table)'
    BY <1>3, <1>4, <2>1 DEF Kept, Misled, ForeignKey
  <2> QED
    BY <1>0, <1>3, <1>4, <2>1, <2>2, <2>3, Ends
<1> QED
  BY <1>0, <1>5, <1>6

\* The end of RemoveReferringUserUsers shortens the list.
LEMMA RemoveLastInv ==
    ASSUME Inv, RemoveLast
    PROVE  Inv' /\ Kept
<1>0. /\ op.name = "remove" /\ op' = Idle /\ UNCHANGED <<table, ref, one, doubt>>
      /\ many' = [many EXCEPT ![op.o] = DiscardEach(many[op.o], op.rel)]
  BY DEF RemoveLast
<1>1. /\ op.o \in User /\ ForeignKey(table) /\ ref \in [User -> Ref] /\ one \in [User -> Ref]
      /\ many \in [User -> Seq(User)] /\ \A u \in User : Len(many[u]) =< MaxMany
      /\ op.rel \in Lists
  BY <1>0 DEF Inv, TypeOK, Types, OpInv, ForeignKey
<1>2. /\ DiscardEach(many[op.o], op.rel) \in Seq(User)
      /\ Len(DiscardEach(many[op.o], op.rel)) =< MaxMany
  <2>1. MaxMany \in Nat
    BY RelationsAssumption DEF RelationsAssumption
  <2> QED
    BY <1>1, <2>1, DiscardEachType
<1>3. many' \in [User -> Seq(User)] /\ \A u \in User : Len(many'[u]) =< MaxMany
  BY <1>0, <1>1, <1>2
<1>4. Handled = {}
  BY <1>0 DEF Handled, Adding
<1>5. \A u \in User \ doubt' : one'[u] # Null => ref'[u] = one'[u]
  BY <1>0, <1>4 DEF Inv, Agrees
<1>6. Kept /\ ForeignKey(table)'
  BY <1>0, <1>1 DEF Inv, Kept, Misled, ForeignKey
<1> QED
  BY <1>0, <1>1, <1>3, <1>5, <1>6, Ends

\* A DELETE of another caller, in the middle of a method: the objects that name the
\* user are in doubt, those handled for it included.
LEMMA OtherDeleteInv ==
    ASSUME Inv, NEW u \in User, OtherDelete(u)
    PROVE  Inv' /\ Kept
<1>0. /\ table' = DeleteRow(u) /\ doubt' = doubt \cup {v \in User : ref[v] = u}
      /\ UNCHANGED <<ref, one, many, op>>
  BY DEF OtherDelete
<1>1. /\ ForeignKey(table') /\ DOMAIN table' = DOMAIN table \ {u}
      /\ \A v \in DOMAIN table \ {u} :
             table'[v] = IF table[v] = u THEN Null ELSE table[v]
  <2>1. ForeignKey(table)
    BY DEF Inv, TypeOK, ForeignKey
  <2> QED
    BY <1>0, <2>1, DeleteKey
<1>2. Handled' = Handled
  BY <1>0 DEF Handled, Adding
<1>3. TypeOK' /\ Types'
  BY <1>0, <1>1 DEF Inv, TypeOK, Types, ForeignKey
<1>4. OpInv'
  BY <1>0 DEF Inv, OpInv, Adding
<1>5. Agrees'
  BY <1>0, <1>2 DEF Inv, Agrees
<1>6. Kept
  BY <1>0, <1>1 DEF Inv, Kept, Misled, TypeOK
<1>7. Replaces'
  <2> SUFFICES ASSUME op.name = "replace"
               PROVE  /\ \A v \in DOMAIN table' : table'[v] = op.o => v \in Handled
                      /\ \A v \in Handled : v \in DOMAIN table' /\ v \notin doubt'
                                                => table'[v] = op.o
    BY <1>0, <1>2 DEF Replaces, Handled, Adding
  <2>1. /\ \A v \in DOMAIN table : table[v] = op.o => v \in Handled
        /\ \A v \in Handled : v \in DOMAIN table /\ v \notin doubt => table[v] = op.o
        /\ \A v \in Handled : ref[v] = op.o
    BY DEF Inv, Replaces, Handled, Adding, Agrees
  <2>2. op.o # Null /\ Handled \subseteq User
    BY RelationsAssumption DEF Inv, OpInv, Types, Handled, ToSet, RelationsAssumption
  <2> QED
    BY <1>0, <1>1, <2>1, <2>2
<1> QED
  BY <1>3, <1>4, <1>5, <1>6, <1>7 DEF Inv

\* The invariant holds initially.
LEMMA InitInv ==
    ASSUME Init
    PROVE  Inv
<1>1. /\ ref = [u \in User |-> IF u \in DOMAIN table THEN table[u] ELSE Null]
      /\ one = [u \in User |-> Null] /\ many = [u \in User |-> <<>>]
      /\ op = Idle /\ doubt = {}
  BY DEF Init
<1>2. PICK S \in SUBSET User : table \in [S -> S \cup {Null}]
  BY DEF Init
<1>3. DOMAIN table = S /\ \A u \in S : table[u] \in S \cup {Null}
  BY <1>2
<1>4. /\ op.name = "none" /\ op.rel = <<>> /\ op.left = <<>>
      /\ op \in [name : {"none", "set", "add", "replace", "remove"}, o : Ref,
                 insert : BOOLEAN, rel : Seq(User), left : Seq(User)]
  <2>1. <<>> \in Seq(User)
    OBVIOUS
  <2> QED
    BY <1>1, <2>1 DEF Idle, Ref
<1>5. /\ many \in [User -> Seq(User)] /\ \A u \in User : Len(many[u]) =< MaxMany
  <2>1. <<>> \in Seq(User) /\ Len(<<>>) = 0 /\ MaxMany \in Nat
    BY RelationsAssumption DEF RelationsAssumption
  <2> QED
    BY <1>1, <2>1
<1>6. ref \in [User -> Ref] /\ one \in [User -> Ref]
  BY <1>1, <1>3 DEF Ref
<1>7. Handled = {}
  BY <1>4 DEF Handled, Adding
<1>8. TypeOK /\ Types
  BY <1>3, <1>4, <1>5, <1>6 DEF TypeOK, Types
<1>9. OpInv
  BY <1>1, <1>4 DEF OpInv, Adding, Lists, NoRepeats, ToSet
<1>10. Agrees /\ Replaces
  BY <1>1, <1>4, <1>7 DEF Agrees, Replaces
<1> QED
  BY <1>8, <1>9, <1>10 DEF Inv

\* Every step keeps the invariant.
LEMMA NextInv ==
    ASSUME Inv, [Next]_vars
    PROVE  Inv' /\ Kept
<1>1. CASE \E u \in User : Insert(u) \/ Update(u) \/ Delete(u) \/ Reload(u) \/ OtherDelete(u)
  BY <1>1, InsertInv, UpdateInv, DeleteInv, ReloadInv, OtherDeleteInv
<1>2. CASE \E o \in User : \E related \in User :
              SetReferringUserInsert(o, related) \/ SetReferringUser(o, related)
  BY <1>2, SetReferringUserInsertInv, SetReferringUserInv
<1>3. CASE \E o \in User : \E related \in Ref : RemoveReferringUser(o, related)
  BY <1>3, RemoveReferringUserInv
<1>4. CASE \E o \in User : \E rel \in Lists :
              \/ \E insert \in BOOLEAN : \/ AddReferringUserUsers(o, insert, rel)
                                         \/ SetReferringUserUsers(o, insert, rel)
              \/ RemoveReferringUserUsers(o, rel)
  BY <1>4, AddReferringUserUsersInv, SetReferringUserUsersInv, RemoveReferringUserUsersInv
<1>5. CASE AddOne \/ AddLast \/ RemoveOne \/ RemoveLast
  BY <1>5, AddOneInv, AddLastInv, RemoveOneInv, RemoveLastInv
<1>6. CASE UNCHANGED vars
  BY <1>6 DEF vars, Inv, TypeOK, Types, OpInv, Agrees, Kept, Misled, Replaces, Handled, Adding
<1> QED
  BY <1>1, <1>2, <1>3, <1>4, <1>5, <1>6 DEF Next

-----------------------------------------------------------------------------
(* Theorems.                                                               *)

\* The inductive invariant holds in every reachable state.
THEOREM Invariance == Spec => []Inv
  BY InitInv, NextInv, PTL DEF Spec

\* Types: the foreign key of the table among them, and the length of the lists.
THEOREM TypesHold == Spec => []TypeOK
  BY Invariance, PTL DEF Inv

\* An object whose last method did not fail points to the referring user it names.
THEOREM PointersAgree == Spec => []PointerAgrees
<1>1. Inv => PointerAgrees
  <2> SUFFICES ASSUME Inv, op = Idle
               PROVE  \A o \in User \ doubt : one[o] # Null => ref[o] = one[o]
    BY DEF PointerAgrees
  <2>1. Handled = {}
    BY DEF Handled, Adding, Idle
  <2> QED
    BY <2>1 DEF Inv, Agrees
<1> QED
  BY <1>1, Invariance, PTL

\* Such an object comes to name a referring user that its row does not have in one
\* way only: SetReferringUserUsers of that user detaches its row, and the object is
\* not in the user's list.  Failures and DELETEs in between make no other.
THEOREM MisledIfUnlisted == Spec => MisledOnlyIfUnlisted
<1>1. ASSUME Inv, [Next]_vars, NEW u \in User, Misled(u)', ~Misled(u)
      PROVE  Missed(u)
  <2>1. u \in DOMAIN table' \ doubt' /\ ref'[u] \notin {table'[u], Null}
    BY <1>1 DEF Misled
  <2>2. Kept
    BY <1>1, NextInv
  <2> QED
    BY <1>1, <2>1, <2>2 DEF Kept
<1>2. Inv /\ [Next]_vars =>
        [\A u \in User : Misled(u)' /\ ~Misled(u) =>
            /\ op'.name = "replace" /\ op'.o = ref[u] /\ table[u] = ref[u]
            /\ u \notin ToSet(many[ref[u]])]_vars
  BY <1>1 DEF Missed
<1> QED
  BY <1>2, Invariance, PTL DEF Spec, MisledOnlyIfUnlisted

\* SetReferringUserUsers replaces the related users completely: from its first
\* statement to its last the rows that name the user are those handled so far.
THEOREM SetReplaces == Spec => []Replaces
  BY Invariance, PTL DEF Inv
=============================================================================
