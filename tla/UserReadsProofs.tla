--------------------------- MODULE UserReadsProofs ---------------------------
(***************************************************************************)
(* Theorems about UserReads, for every table, whatever other requests do   *)
(* to it while an answer is put together.  The inductive invariant ties    *)
(* together three moments of the life of a row: what it was when the       *)
(* request arrived (asked), what the request has loaded, and what it is    *)
(* now; each is an earlier form of the next.                               *)
(***************************************************************************)
EXTENDS UserReads, FiniteSetTheorems, FunctionTheorems, SequenceTheorems, TLAPS

\* Row r can have become row s: the requests of the registry change only
\* migrated_at, and a DELETE of the referrer the reference to it.
Becomes(r, s) ==
    /\ r \in Row /\ s \in Row
    /\ s.attrs = r.attrs /\ s.created_at = r.created_at
    /\ s.referring_user_id \in {r.referring_user_id, NULL}
    /\ r.migrated_at => s.migrated_at \/ DevEnv

\* Table t can have become table v; nobody comes back.
Follows(t, v) ==
    \A u \in User : v[u] # Absent => t[u] # Absent /\ Becomes(t[u], v[u])

\* What is known of an object o that was loaded for user u, if the table was t when
\* the request arrived and is v now.  Its referrer, if loaded, was there when the
\* request arrived; after the eager load (Whole), one that is missing stays away.
Sound(t, v, u, o) ==
    LET w == o.row.referring_user_id IN
    /\ o \in Object /\ u \in User
    /\ t[u] # Absent /\ Becomes(t[u], o.row)
    /\ v[u] # Absent => Becomes(o.row, v[u])
    /\ o.ref # Absent => w \in User /\ t[w] # Absent /\ o.ref.attrs = t[w].attrs
Whole(v, o) ==
    o.ref = Absent => \/ o.row.referring_user_id = NULL
                      \/ v[o.row.referring_user_id] = Absent

\* Where the request is, and what it has by then.
Stage ==
    /\ status # 0 => pc = "idle"
    /\ pc # "idle" \/ status # 0 =>
          ep \in Endpoint /\ (ep \notin ByWallet => id \in User)
    /\ pc = "idle" /\ status = 0 => found = <<>> /\ better = <<>>
    /\ pc = "query" => found = <<>>
    /\ pc \in {"query", "loadReferrer", "getUserByEth"} => better = <<>>
    /\ better # <<>> => ep = "GetUser"
    /\ pc \in {"getUserByEth", "loadBetter"} => ep = "GetUser" /\ addr # NULL
    /\ pc = "loadBetter" => Len(better) = 1
    /\ pc \in {"vehicles", "aftermarket"} => ep \in HTTP
    /\ pc \notin {"idle", "query"} /\ ep # "GetUsersByEthereumAddress" => Len(found) = 1

\* The table now, and at the time of the request.
TableInv ==
    /\ ForeignKeyHolds(users) /\ ForeignKeyHolds(asked)
    /\ Follows(asked, users)

\* The user whose row is in found[i].
Source(i) == IF better # <<>> /\ pc # "loadBetter" THEN better[1].id ELSE found[i].id

\* Whether the eager load of the referrers has been done.
Eager == pc # "loadReferrer" /\ status # 500

ObjectsInv ==
    /\ \A i \in DOMAIN found :
          Sound(asked, users, Source(i), found[i]) /\ (Eager => Whole(users, found[i]))
    /\ \A i \in DOMAIN better :
          /\ Sound(asked, users, better[i].id, better[i])
          /\ pc # "loadBetter" => Whole(users, better[i])

\* The lookup by address: whom it found, and whom it would find by now.
NoneConfirmed ==
    \A u \in WithAddress(addr) : ~users[u].attrs.email_confirmed
LookupInv ==
    /\ ep \in HTTP /\ found # <<>> => found[1].id = id
    /\ better # <<>> =>
          /\ better[1].row.attrs.ethereum_address = addr
          /\ better[1].row.attrs.email_confirmed \/ NoneConfirmed
          /\ pc # "loadBetter" =>
                found[1].row.attrs.email_confirmed = better[1].row.attrs.email_confirmed
    /\ /\ ep = "GetUser" /\ addr # NULL /\ better = <<>> /\ "lookup" \notin failed
       /\ pc \in {"vehicles", "aftermarket"} \/ status = 200
       => NoneConfirmed

\* The lookups by a confirmed address, which may be NULL: whom they found, and
\* whom they would find by now.
ListInv ==
    /\ ep \in ByWallet =>
          \A i \in DOMAIN found : /\ found[i].row.attrs.ethereum_confirmed
                                  /\ found[i].row.attrs.ethereum_address = addr
    /\ ep = "GetUsersByEthereumAddress" /\ (pc = "loadReferrer" \/ status = 200) =>
          Selected \subseteq {found[i].id : i \in DOMAIN found}
    /\ ep = "GetUserByEthAddr" /\ status = 404 => Selected = {}

\* computeWeb3Used between its two calls.
UsedInv ==
    /\ held \subseteq nft /\ nft \subseteq owned
    /\ pc = "aftermarket" =>
          LET a == found[1].row.attrs
          IN  ~a.web3 /\ a.ethereum_confirmed /\ "vehicle" \notin held
    /\ UsedIsSound

Inv == /\ TypeOK /\ Stage /\ TableInv /\ ObjectsInv
       /\ LookupInv /\ ListInv /\ UsedInv

-----------------------------------------------------------------------------
(* Rows and tables.                                                        *)

\* A row is an earlier form of itself.
LEMMA BecomesItself == ASSUME NEW r \in Row PROVE Becomes(r, r)
    BY DEF Becomes

\* An earlier form of an earlier form is one.
LEMMA BecomesTransitive ==
    ASSUME NEW r, NEW s, NEW t, Becomes(r, s), Becomes(s, t)
    PROVE  Becomes(r, t)
    BY DEF Becomes

\* NULL is no user, so a reference that is not NULL has not changed.
LEMMA BecomesReference ==
    ASSUME NEW r, NEW s, Becomes(r, s), s.referring_user_id # NULL
    PROVE  r.referring_user_id = s.referring_user_id
    BY DEF Becomes

\* A table after a table after a table.
LEMMA FollowsTransitive ==
    ASSUME NEW s, NEW t, NEW v, Follows(s, t), Follows(t, v)
    PROVE  Follows(s, v)
    BY BecomesTransitive DEF Follows

\* A table follows itself.
LEMMA FollowsItself == ASSUME NEW t \in Table PROVE Follows(t, t)
    BY BecomesItself, TableAssumption DEF Follows, Table, TableAssumption

\* What the other requests do to the table.
LEMMA RegistryStep ==
    ASSUME users \in Table, ForeignKeyHolds(users), Registry!Next
    PROVE  users' \in Table /\ ForeignKeyHolds(users') /\ Follows(users, users')
<1>1. ASSUME NEW u \in User, Registry!Remove(u)
      PROVE  users' \in Table /\ ForeignKeyHolds(users') /\ Follows(users, users')
  <2>1. users' = DeleteRow(users, u)
      BY <1>1 DEF Registry!Remove, Registry!DeleteRow, DeleteRow
  <2>2. ASSUME NEW v \in User
        PROVE  \/ users'[v] = Absent /\ (v = u \/ users[v] = Absent)
               \/ /\ v # u /\ users[v] \in Row /\ users'[v] \in Row
                  /\ Becomes(users[v], users'[v])
                  /\ users'[v].referring_user_id =
                        IF users[v].referring_user_id = u THEN NULL
                        ELSE users[v].referring_user_id
      BY <2>1, TableAssumption DEF DeleteRow, Table, Row, TableAssumption, Becomes
  <2>3. users' \in Table
    <3>1. DOMAIN users' = User /\ users' = [v \in User |-> users'[v]]
        BY <2>1 DEF DeleteRow
    <3>2. QED
        BY <2>2, <3>1 DEF Table
  <2>4. Follows(users, users')
      BY <2>2, TableAssumption DEF Follows, TableAssumption
  <2>5. ForeignKeyHolds(users')
      BY <2>2, TableAssumption DEF ForeignKeyHolds, Ids, TableAssumption, Row
  <2>6. QED
      BY <2>3, <2>4, <2>5
<1>2. ASSUME NEW u \in User, NEW m \in BOOLEAN, Registry!SetMigratedAt(u, m)
      PROVE  users' \in Table /\ ForeignKeyHolds(users') /\ Follows(users, users')
  <2>1. /\ users[u] \in Row
        /\ m \/ DevEnv
        /\ users' = [users EXCEPT ![u] = [users[u] EXCEPT !.migrated_at = m]]
      BY <1>2 DEF Registry!SetMigratedAt, Registry!Ids, Table
  <2>2. Becomes(users[u], users'[u])
      BY <2>1 DEF Becomes, Row, Table
  <2>3. \A v \in User \ {u} : users'[v] = users[v]
      BY <2>1 DEF Table
  <2>4. users' \in Table
      BY <2>1, <2>2 DEF Becomes, Table
  <2>5. Follows(users, users')
      BY <2>1, <2>2, <2>3, BecomesItself, TableAssumption
         DEF Follows, Table, TableAssumption
  <2>6. ForeignKeyHolds(users')
    <3>1. users'[u].referring_user_id = users[u].referring_user_id
        BY <2>1 DEF Row, Table
    <3>2. Ids(users') = Ids(users)
        BY <2>1, <2>2, <2>3, TableAssumption DEF Ids, Becomes, TableAssumption
    <3>3. QED
        BY <2>3, <3>1, <3>2 DEF ForeignKeyHolds, Ids
  <2>7. QED
      BY <2>4, <2>5, <2>6
<1>3. QED
    BY <1>1, <1>2 DEF Registry!Next

-----------------------------------------------------------------------------
(* Objects.                                                                *)

\* The sequence of one object.
LEMMA OneElement ==
    ASSUME NEW S, NEW s \in Seq(S), Len(s) = 1
    PROVE  s # <<>> /\ DOMAIN s = {1}
    OBVIOUS

\* What is known of an object stays known while the table changes.
LEMMA SoundLater ==
    ASSUME NEW t, NEW v, NEW v1, Follows(v, v1), NEW u, NEW o, Sound(t, v, u, o)
    PROVE  Sound(t, v1, u, o) /\ (Whole(v, o) => Whole(v1, o))
<1>1. o.row.referring_user_id = NULL \/ o.row.referring_user_id \in User
    BY DEF Sound, Object, Row
<1>2. v1[u] # Absent => Becomes(o.row, v1[u])
    BY BecomesTransitive DEF Sound, Follows
<1>3. QED
    BY <1>1, <1>2 DEF Sound, Whole, Follows

\* A row just read.
LEMMA LoadedSound ==
    ASSUME users \in Table, asked \in Table, TableInv, NEW u \in Ids(users)
    PROVE  Sound(asked, users, u, Loaded(u))
<1>1. u \in User /\ users[u] # Absent /\ users[u] \in Row
    BY DEF Ids, Table
<1>2. /\ Loaded(u) \in Object /\ Loaded(u).row = users[u]
      /\ Loaded(u).ref = Absent
    BY <1>1 DEF Loaded, Object
<1>3. asked[u] # Absent /\ Becomes(asked[u], users[u])
    BY <1>1 DEF TableInv, Follows
<1>4. QED
    BY <1>1, <1>2, <1>3, BecomesItself DEF Sound

\* The eager load completes an object; it changes ref only.
LEMMA EagerSound ==
    ASSUME users \in Table, asked \in Table, TableInv, NEW s \in Seq(Object)
    PROVE  /\ LoadReferringUser(s) \in Seq(Object)
           /\ Len(LoadReferringUser(s)) = Len(s)
           /\ DOMAIN LoadReferringUser(s) = DOMAIN s
           /\ \A i \in DOMAIN s :
                 /\ LoadReferringUser(s)[i].id = s[i].id
                 /\ LoadReferringUser(s)[i].row = s[i].row
                 /\ Whole(users, LoadReferringUser(s)[i])
                 /\ \A u : Sound(asked, users, u, s[i]) =>
                       Sound(asked, users, u, LoadReferringUser(s)[i])
<1> DEFINE l == LoadReferringUser(s)
           R(o) == IF o.row.referring_user_id \in Ids(users)
                   THEN users[o.row.referring_user_id] ELSE Absent
           With(o) == [o EXCEPT !.ref = R(o)]
<1>1. DOMAIN s = 1 .. Len(s) /\ Len(s) \in Nat /\ \A i \in DOMAIN s : s[i] \in Object
    OBVIOUS
<1>2. l = [i \in 1 .. Len(s) |-> With(s[i])]
    BY <1>1 DEF LoadReferringUser
<1>3. ASSUME NEW o \in Object
      PROVE  /\ With(o) \in Object /\ With(o).id = o.id
             /\ With(o).row = o.row /\ With(o).ref = R(o)
  <2>1. R(o) \in Row \cup {Absent}
      BY DEF Table, Ids
  <2>2. QED
      BY <2>1 DEF Object
<1>4. ASSUME NEW o \in Object
      PROVE  /\ Whole(users, With(o))
             /\ \A u : Sound(asked, users, u, o) => Sound(asked, users, u, With(o))
  <2> DEFINE w == o.row.referring_user_id
  <2>1. w = NULL \/ w \in User
      BY DEF Object, Row
  <2>2. R(o) # Absent => /\ w \in User /\ asked[w] # Absent
                         /\ R(o).attrs = asked[w].attrs
      BY DEF Ids, TableInv, Follows, Becomes
  <2>3. R(o) = Absent => w = NULL \/ users[w] = Absent
      BY <2>1 DEF Ids
  <2>4. QED
      BY <1>3, <2>2, <2>3 DEF Sound, Whole
<1> HIDE DEF With
<1>5. \A i \in DOMAIN s : s[i] \in Object /\ l[i] = With(s[i])
    BY <1>1, <1>2
<1>6. l \in Seq(Object) /\ Len(l) = Len(s) /\ DOMAIN l = DOMAIN s
    BY <1>1, <1>2, <1>3
<1>7. ASSUME NEW i \in DOMAIN s
      PROVE  /\ l[i].id = s[i].id /\ l[i].row = s[i].row
             /\ Whole(users, l[i])
             /\ \A u : Sound(asked, users, u, s[i]) => Sound(asked, users, u, l[i])
    BY <1>3, <1>4, <1>5
<1>8. QED
    BY <1>6, <1>7

-----------------------------------------------------------------------------
(* Inv is inductive.                                                       *)

\* The invariant holds initially.
LEMMA InvInit == Init => Inv
<1> SUFFICES ASSUME Init PROVE Inv
    OBVIOUS
<1>1. TypeOK
  <2>1. found \in Seq(Object) /\ better \in Seq(Object) /\ Len(better) =< 1
      BY DEF Init
  <2>2. used \in BOOLEAN
      BY DEF Init
  <2>3. QED
      BY <2>1, <2>2 DEF Init, TypeOK, Label
<1>2. TableInv
    BY <1>1, FollowsItself DEF Init, TableInv, TypeOK
<1>3. QED
    BY <1>1, <1>2
       DEF Init, Inv, Stage, ObjectsInv, LookupInv, ListInv, UsedInv, UsedIsSound, Answered

\* An object among those of Selected is one of the table.
LEMMA SelectedIds == Selected \subseteq Ids(users)
    BY DEF Selected, WithAddress, Ids

\* A request arrives and nothing is loaded yet.
LEMMA AskKeeps ==
    ASSUME Inv, NEW e \in Served, NEW u \in User, NEW a \in Address \cup {NULL},
           Ask(e, u, a)
    PROVE  Inv'
<1> USE DEF Inv, Ask
<1>1. e \in Endpoint
    BY ReadsAssumption DEF ReadsAssumption
<1>2. found = <<>> /\ better = <<>>
    BY DEF Stage
<1>3. TypeOK'
    BY <1>1, <1>2 DEF TypeOK, Label, HTTP, Endpoint
<1>4. Stage'
    BY <1>1, <1>2 DEF Stage, ByWallet
<1>5. TableInv'
    BY FollowsItself DEF TableInv, TypeOK
<1>6. QED
    BY <1>2, <1>3, <1>4, <1>5
       DEF ObjectsInv, LookupInv, ListInv, UsedInv, UsedIsSound, Answered

\* A list in the order NewestFirst has all of S, each once.
LEMMA NewestFirstFacts ==
    ASSUME NEW S \in SUBSET User, NEW s \in NewestFirst(S)
    PROVE  /\ s \in Seq(S)
           /\ \A x \in S : \E i \in DOMAIN s : s[i] = x
<1> DEFINE n == Cardinality(S)
<1>1. IsFiniteSet(S) /\ n \in Nat
    BY ReadsAssumption, FS_Subset, FS_CardinalityType DEF ReadsAssumption
<1>2. /\ s \in [1 .. n -> S]
      /\ \A i, j \in 1 .. n : i < j => s[i] # s[j]
    BY DEF NewestFirst
<1>3. \A i, j \in 1 .. n : s[i] = s[j] => i = j
    BY <1>1, <1>2
<1>4. s \in Injection(1 .. n, S)
    BY <1>2, <1>3 DEF Injection, IsInjective
<1>5. Cardinality(1 .. n) = n
    BY <1>1, FS_Interval
<1>6. s \in Surjection(1 .. n, S)
    BY <1>1, <1>4, <1>5, FS_Injection
<1>7. QED
    BY <1>1, <1>2, <1>6 DEF Surjection

\* The first query: what it loads is what the table has now.
LEMMA QueryKeeps == ASSUME Inv, Query PROVE Inv'
<1> USE DEF Inv
<1>0. /\ pc = "query"
      /\ UNCHANGED <<users, nft, ep, id, addr, better, used, asked, held, owned, failed>>
    BY DEF Query, env
<1>1. /\ users \in Table /\ asked \in Table /\ better = <<>> /\ found = <<>>
      /\ status = 0 /\ ep \in Endpoint /\ (ep \notin ByWallet => id \in User)
    BY <1>0 DEF TypeOK, Stage
<1>2. TableInv'
    BY <1>0 DEF TableInv
<1>3. \A u \in Selected : u \in User /\ Sound(asked, users, u, Loaded(u))
    BY <1>0, <1>1, LoadedSound, SelectedIds DEF Ids
<1>4. \A u \in User : Loaded(u).id = u /\ Loaded(u).row = users[u]
    BY DEF Loaded
<1>5. \A u \in Selected : Loaded(u) \in Object
    BY <1>3 DEF Sound
<1>10. /\ Selected' = Selected
       /\ ep \in ByWallet => \A u \in Selected : /\ users[u].attrs.ethereum_confirmed
                                               /\ users[u].attrs.ethereum_address = addr
    BY <1>0 DEF Selected, WithAddress, Ids
<1>6. CASE /\ UNCHANGED found
           /\ (Answer(404) /\ Selected = {}) \/ Answer(500)
  <2>1. TypeOK' /\ Stage' /\ ObjectsInv' /\ LookupInv' /\ UsedInv'
      BY <1>0, <1>1, <1>6
         DEF TypeOK, Label, Answer, Stage, ObjectsInv, LookupInv, UsedInv, UsedIsSound, Answered
  <2>2. ListInv'
      BY <1>0, <1>1, <1>6, <1>10 DEF Answer, ListInv
  <2>3. QED
      BY <1>2, <2>1, <2>2
<1>7. ASSUME NEW s \in NewestFirst(Selected), ep = "GetUsersByEthereumAddress",
             pc' = "loadReferrer", UNCHANGED status,
             found' = [i \in DOMAIN s |-> Loaded(s[i])]
      PROVE  Inv'
  <2>1. /\ s \in Seq(Selected)
        /\ \A x \in Selected : \E i \in DOMAIN s : s[i] = x
      BY <1>3, NewestFirstFacts
  <2>2. /\ DOMAIN found' = DOMAIN s /\ found' \in Seq(Object)
        /\ \A i \in DOMAIN s : s[i] \in Selected /\ found'[i] = Loaded(s[i])
      BY <1>5, <1>7, <2>1
  <2>3. TypeOK'
      BY <1>0, <1>1, <1>7, <2>2 DEF TypeOK, Label
  <2>4. Stage'
      BY <1>0, <1>1, <1>7 DEF Stage
  <2>5. ObjectsInv'
      BY <1>0, <1>1, <1>3, <1>4, <1>7, <2>2 DEF ObjectsInv, Source, Eager
  <2>6. LookupInv' /\ UsedInv'
      BY <1>0, <1>1, <1>7 DEF LookupInv, UsedInv, UsedIsSound, Answered, HTTP
  <2>7. ListInv'
    <3>1. \A i \in DOMAIN s : found'[i].id = s[i] /\ found'[i].row = users[s[i]]
        BY <1>3, <1>4, <2>2
    <3>2. Selected \subseteq {found'[i].id : i \in DOMAIN found'}
        BY <2>1, <2>2, <3>1
    <3>3. ep \in ByWallet =>
             \A i \in DOMAIN found' : /\ found'[i].row.attrs.ethereum_confirmed
                                      /\ found'[i].row.attrs.ethereum_address = addr
        BY <1>10, <2>2, <3>1
    <3>4. QED
        BY <1>0, <1>1, <1>7, <1>10, <3>2, <3>3 DEF ListInv
  <2>8. QED
      BY <1>2, <2>3, <2>4, <2>5, <2>6, <2>7
<1>8. ASSUME NEW u \in Selected, ep # "GetUsersByEthereumAddress",
             pc' = "loadReferrer", UNCHANGED status, found' = <<Loaded(u)>>
      PROVE  Inv'
  <2>1. /\ found' \in Seq(Object) /\ Len(found') = 1
        /\ DOMAIN found' = {1} /\ found'[1] = Loaded(u)
      BY <1>5, <1>8
  <2>2. TypeOK'
      BY <1>0, <1>1, <1>8, <2>1 DEF TypeOK, Label
  <2>3. Stage'
      BY <1>0, <1>1, <1>8, <2>1 DEF Stage
  <2>4. ObjectsInv'
      BY <1>0, <1>1, <1>3, <1>4, <1>8, <2>1 DEF ObjectsInv, Source, Eager
  <2>5. ep \in HTTP => u = id
      BY DEF Selected, HTTP, ByWallet
  <2>6. LookupInv' /\ UsedInv' /\ ListInv'
    <3>1. LookupInv'
        BY <1>0, <1>1, <1>3, <1>4, <1>8, <2>1, <2>5 DEF LookupInv
    <3>2. ListInv'
        BY <1>0, <1>1, <1>3, <1>4, <1>8, <1>10, <2>1 DEF ListInv
    <3>3. QED
        BY <1>0, <1>1, <1>8, <3>1, <3>2 DEF UsedInv, UsedIsSound, Answered
  <2>7. QED
      BY <1>2, <2>2, <2>3, <2>4, <2>6
<1>9. QED
    BY <1>0, <1>6, <1>7, <1>8 DEF Query

\* The eager load: a referrer that is gone by now is not loaded.
LEMMA LoadReferrerKeeps == ASSUME Inv, LoadReferrer PROVE Inv'
<1> USE DEF Inv
<1>0. /\ pc = "loadReferrer"
      /\ UNCHANGED <<users, nft, ep, id, addr, better, used, asked, held, owned, failed>>
    BY DEF LoadReferrer, env
<1>1. /\ users \in Table /\ asked \in Table /\ found \in Seq(Object) /\ better = <<>>
      /\ status = 0 /\ ep \in Endpoint /\ (ep \notin ByWallet => id \in User)
      /\ ep # "GetUsersByEthereumAddress" => Len(found) = 1
    BY <1>0 DEF TypeOK, Stage
<1>2. TableInv'
    BY <1>0 DEF TableInv
<1>3. CASE UNCHANGED found /\ Answer(500)
    BY <1>0, <1>1, <1>2, <1>3
       DEF TypeOK, Label, Answer, Stage, ObjectsInv, Source, Eager, LookupInv, ListInv, UsedInv,
           UsedIsSound, Answered
<1>4. ASSUME found' = LoadReferringUser(found),
             \/ ep = "GetUser" /\ addr # NULL /\ pc' = "getUserByEth" /\ UNCHANGED status
             \/ /\ ep \in HTTP /\ (ep # "GetUser" \/ addr = NULL)
                /\ pc' = "vehicles" /\ UNCHANGED status
             \/ ep \notin HTTP /\ Answer(200)
      PROVE  Inv'
  <2>1. /\ found' \in Seq(Object) /\ Len(found') = Len(found)
        /\ DOMAIN found' = DOMAIN found
        /\ \A i \in DOMAIN found :
              /\ found'[i].id = found[i].id /\ found'[i].row = found[i].row
              /\ Whole(users, found'[i])
              /\ \A u : Sound(asked, users, u, found[i]) =>
                           Sound(asked, users, u, found'[i])
      BY <1>0, <1>1, <1>4, EagerSound
  <2>2. TypeOK'
      BY <1>0, <1>1, <1>4, <2>1 DEF TypeOK, Label, Answer
  <2>3. Stage'
      BY <1>0, <1>1, <1>4, <2>1 DEF Stage, Answer, HTTP
  <2>4. ObjectsInv'
    <3>1. \A i \in DOMAIN found : Sound(asked, users, found[i].id, found'[i])
        BY <1>0, <1>1, <2>1 DEF ObjectsInv, Source
    <3>2. QED
        BY <1>0, <1>1, <2>1, <3>1 DEF ObjectsInv, Source
  <2>5. LookupInv'
    <3>1. ep \in HTTP => found # <<>> /\ found' # <<>> /\ found'[1].id = id
        BY <1>0, <1>1, <2>1 DEF LookupInv, HTTP
    <3>2. QED
        BY <1>0, <1>1, <1>4, <3>1 DEF LookupInv, Answer, HTTP
  <2>6. UsedInv'
      BY <1>0, <1>1, <1>4, <2>1 DEF UsedInv, UsedIsSound, Answered, Answer
  <2>7. ListInv'
    <3>1. Selected' = Selected
        BY <1>0 DEF Selected, WithAddress, Ids
    <3>2. {found'[i].id : i \in DOMAIN found'} = {found[i].id : i \in DOMAIN found}
        BY <2>1
    <3>3. QED
        BY <1>0, <1>1, <1>4, <2>1, <3>1, <3>2 DEF ListInv, Answer
  <2>8. QED
      BY <1>2, <2>2, <2>3, <2>4, <2>5, <2>6, <2>7
<1>5. QED
    BY <1>3, <1>4 DEF LoadReferrer, Answer

\* The lookup by wallet: the first row has a confirmed email, or none has.
LEMMA GetUserByEthKeeps == ASSUME Inv, GetUserByEth PROVE Inv'
<1> USE DEF Inv
<1>0. /\ pc = "getUserByEth" /\ pc' \in {"vehicles", "loadBetter"}
      /\ UNCHANGED <<users, nft, ep, id, addr, found, used, asked, held, owned, status>>
    BY DEF GetUserByEth, env
<1>1. /\ users \in Table /\ asked \in Table /\ found \in Seq(Object) /\ better = <<>>
      /\ status = 0 /\ ep = "GetUser" /\ addr # NULL /\ id \in User
      /\ Len(found) = 1
    BY <1>0 DEF TypeOK, Stage, ByWallet
<1>2. TableInv'
    BY <1>0 DEF TableInv
<1>3. ListInv' /\ UsedInv'
    BY <1>0, <1>1 DEF ListInv, ByWallet, UsedInv, UsedIsSound, Answered
<1>4. CASE pc' = "vehicles" /\ UNCHANGED better /\ WithAddress(addr) = {} /\ UNCHANGED failed
    BY <1>0, <1>1, <1>2, <1>3, <1>4
       DEF TypeOK, Label, Stage, HTTP, ObjectsInv, Source, Eager, LookupInv, NoneConfirmed,
           WithAddress
<1>5. CASE pc' = "vehicles" /\ UNCHANGED better /\ failed' = failed \cup {"lookup"}
    BY <1>0, <1>1, <1>2, <1>3, <1>5
       DEF TypeOK, Label, Stage, HTTP, ObjectsInv, Source, Eager, LookupInv
<1>6. ASSUME NEW u \in WithAddress(addr), better' = <<Loaded(u)>>, pc' = "loadBetter",
             \A v \in WithAddress(addr) :
                users[v].attrs.email_confirmed => users[u].attrs.email_confirmed,
             UNCHANGED failed
      PROVE  Inv'
  <2>1. /\ u \in User /\ users[u].attrs.ethereum_address = addr
        /\ Sound(asked, users, u, Loaded(u))
      BY <1>0, <1>1, LoadedSound DEF WithAddress, Ids
  <2>2. Loaded(u) \in Object /\ Loaded(u).id = u /\ Loaded(u).row = users[u]
      BY <2>1 DEF Loaded, Sound
  <2>3. /\ better' \in Seq(Object) /\ Len(better') = 1
        /\ DOMAIN better' = {1} /\ better'[1] = Loaded(u)
      BY <1>6, <2>2
  <2>4. TypeOK' /\ Stage'
      BY <1>0, <1>1, <1>6, <2>3 DEF TypeOK, Label, Stage
  <2>5. ObjectsInv'
      BY <1>0, <1>1, <1>6, <2>1, <2>2, <2>3 DEF ObjectsInv, Source, Eager
  <2>6. LookupInv'
      BY <1>0, <1>1, <1>6, <2>1, <2>2, <2>3 DEF LookupInv, NoneConfirmed, WithAddress
  <2>7. QED
      BY <1>2, <1>3, <2>4, <2>5, <2>6
<1>7. QED
    BY <1>4, <1>5, <1>6 DEF GetUserByEth

\* The record of the wallet takes the place of the own one.
LEMMA LoadBetterKeeps == ASSUME Inv, LoadBetter PROVE Inv'
<1> USE DEF Inv
<1>0. /\ pc = "loadBetter" /\ pc' = "vehicles"
      /\ UNCHANGED <<users, nft, ep, id, addr, used, asked, held, owned, status>>
    BY DEF LoadBetter, env
<1>1. /\ users \in Table /\ asked \in Table /\ found \in Seq(Object)
      /\ better \in Seq(Object) /\ Len(better) = 1 /\ better # <<>>
      /\ status = 0 /\ ep = "GetUser" /\ addr # NULL /\ id \in User
      /\ Len(found) = 1 /\ found # <<>>
      /\ DOMAIN found = {1} /\ DOMAIN better = {1}
  <2>1. /\ users \in Table /\ asked \in Table /\ found \in Seq(Object)
        /\ better \in Seq(Object) /\ Len(better) = 1 /\ Len(found) = 1
        /\ status = 0 /\ ep = "GetUser" /\ addr # NULL /\ id \in User
      BY <1>0 DEF TypeOK, Stage, ByWallet
  <2>2. QED
      BY <2>1, OneElement
<1>2. TableInv'
    BY <1>0 DEF TableInv
<1>3. ListInv' /\ UsedInv'
    BY <1>0, <1>1 DEF ListInv, ByWallet, UsedInv, UsedIsSound, Answered
<1>4. /\ Sound(asked, users, id, found[1]) /\ Whole(users, found[1]) /\ found[1].id = id
      /\ Sound(asked, users, better[1].id, better[1])
    BY <1>0, <1>1 DEF ObjectsInv, Source, Eager, LookupInv, HTTP
<1>5. CASE failed' = failed \cup {"lookup"} /\ better' = <<>> /\ UNCHANGED found
  <2>1. TypeOK' /\ Stage'
      BY <1>0, <1>1, <1>5 DEF TypeOK, Label, Stage, HTTP
  <2>2. ObjectsInv'
      BY <1>0, <1>1, <1>4, <1>5 DEF ObjectsInv, Source
  <2>3. LookupInv'
      BY <1>0, <1>1, <1>4, <1>5 DEF LookupInv
  <2>4. QED
      BY <1>2, <1>3, <2>1, <2>2, <2>3
<1>6. ASSUME better' = LoadReferringUser(better), found' = Swap(found, better'),
             UNCHANGED failed
      PROVE  Inv'
  <2> DEFINE b == better'[1]
  <2>1. /\ better' \in Seq(Object) /\ Len(better') = 1 /\ DOMAIN better' = {1}
        /\ better' # <<>> /\ b \in Object
        /\ b.id = better[1].id /\ b.row = better[1].row
        /\ Whole(users, b) /\ Sound(asked, users, b.id, b)
      BY <1>1, <1>4, <1>6, EagerSound
  <2>2. /\ found' \in Seq(Object) /\ Len(found') = 1 /\ DOMAIN found' = {1}
        /\ found' # <<>> /\ found'[1].id = id
        /\ Whole(users, found'[1]) /\ Sound(asked, users, b.id, found'[1])
        /\ found'[1].row.attrs = b.row.attrs
    <3>1. CASE b.id = id
      <4>1. found' = found
          BY <1>6, <3>1 DEF Swap
      <4>2. found[1].row.attrs = asked[id].attrs /\ b.row.attrs = asked[id].attrs
          BY <1>4, <2>1, <3>1 DEF Sound, Becomes
      <4>3. QED
          BY <1>1, <1>4, <3>1, <4>1, <4>2
    <3>2. CASE b.id # id
      <4> DEFINE c == [b EXCEPT !.id = id]
      <4>1. found' = <<c>>
          BY <1>6, <3>2 DEF Swap
      <4>2. c \in Object /\ c.id = id /\ c.row = b.row /\ c.ref = b.ref
          BY <1>1, <2>1 DEF Object
      <4>3. Whole(users, c) /\ Sound(asked, users, b.id, c)
          BY <2>1, <4>2 DEF Whole, Sound
      <4> HIDE DEF c
      <4>4. QED
          BY <4>1, <4>2, <4>3
    <3>3. QED
        BY <3>1, <3>2
  <2>3. TypeOK' /\ Stage'
      BY <1>0, <1>1, <1>6, <2>1, <2>2 DEF TypeOK, Label, Stage, HTTP
  <2>4. ObjectsInv'
      BY <1>0, <2>1, <2>2 DEF ObjectsInv, Source
  <2>5. LookupInv'
    <3>1. NoneConfirmed' = NoneConfirmed
        BY <1>0 DEF NoneConfirmed, WithAddress, Ids
    <3>2. /\ b.row.attrs.ethereum_address = addr
          /\ b.row.attrs.email_confirmed \/ NoneConfirmed
        BY <1>1, <2>1 DEF LookupInv
    <3>3. QED
        BY <1>0, <2>1, <2>2, <3>1, <3>2 DEF LookupInv
  <2>6. QED
      BY <1>2, <1>3, <2>3, <2>4, <2>5
<1>7. QED
    BY <1>5, <1>6 DEF LoadBetter

\* The answer of computeWeb3Used: nothing else changes.
LEMMA UsedKeeps == ASSUME Inv, Vehicles \/ Aftermarket PROVE Inv'
<1> USE DEF Inv
<1>0. /\ pc \in {"vehicles", "aftermarket"}
      /\ UNCHANGED <<users, nft, ep, id, addr, found, better, asked, held, owned>>
      /\ failed' \in {failed, failed \cup {"devices"}}
      /\ \/ pc' = "aftermarket" /\ status' = status /\ used' = used
         \/ pc' = "idle" /\ status' = 200 /\ used' \in BOOLEAN
  <2>1. ASSUME NEW b \in BOOLEAN, NEW e \in {{}, {"devices"}}, AnswerUsed(b, e)
        PROVE  /\ failed' \in {failed, failed \cup {"devices"}}
               /\ pc' = "idle" /\ status' = 200 /\ used' \in BOOLEAN
      BY <2>1 DEF AnswerUsed, Answer
  <2>2. UNCHANGED <<users, nft, ep, id, addr, found, better, asked, held, owned>>
      BY DEF Vehicles, Aftermarket, env
  <2>3. CASE Vehicles
      BY <2>1, <2>2, <2>3 DEF Vehicles
  <2>4. CASE Aftermarket
    <3>1. ("aftermarket" \in nft) \in BOOLEAN
        OBVIOUS
    <3>2. \/ AnswerUsed("aftermarket" \in nft, {})
          \/ AnswerUsed(FALSE, {"devices"})
        BY <2>4 DEF Aftermarket
    <3>3. /\ failed' \in {failed, failed \cup {"devices"}}
          /\ pc' = "idle" /\ status' = 200 /\ used' \in BOOLEAN
        BY <2>1, <3>1, <3>2
    <3>4. QED
        BY <2>2, <2>4, <3>3 DEF Aftermarket
  <2>5. QED
      BY <2>3, <2>4
<1>1. /\ ep \in HTTP /\ status = 0 /\ Len(found) = 1 /\ ep # "GetUsersByEthereumAddress"
    BY <1>0 DEF Stage, HTTP
<1>2. TypeOK' /\ Stage'
    BY <1>0, <1>1 DEF TypeOK, Label, Stage
<1>3. TableInv' /\ ListInv'
    BY <1>0, <1>1 DEF TableInv, ListInv, ByWallet, HTTP
<1>4. ObjectsInv'
    BY <1>0, <1>1 DEF ObjectsInv, Source, Eager
<1>5. LookupInv'
    BY <1>0, <1>1 DEF LookupInv, NoneConfirmed, WithAddress
<1>6. UsedInv'
  <2>1. held \subseteq {"vehicle", "aftermarket"} /\ held \subseteq nft /\ nft \subseteq owned
      BY DEF UsedInv, TypeOK, Kind
  <2>2. CASE Vehicles
      BY <1>0, <1>1, <2>1, <2>2
         DEF Vehicles, AnswerUsed, Answer, UsedInv, UsedIsSound, Answered
  <2>3. CASE Aftermarket
      BY <1>0, <1>1, <2>1, <2>3
         DEF Aftermarket, AnswerUsed, Answer, UsedInv, UsedIsSound, Answered
  <2>4. QED
      BY <2>2, <2>3
<1>7. QED
    BY <1>2, <1>3, <1>4, <1>5, <1>6

\* A step of another request: every object is an earlier form of its row still.
LEMMA OtherRequestKeeps == ASSUME Inv, OtherRequest PROVE Inv'
<1> USE DEF Inv
<1>0. /\ status = 0
      /\ UNCHANGED <<nft, pc, ep, id, addr, found, better, used, status,
                     asked, held, owned, failed>>
    BY DEF OtherRequest
<1>1. /\ users \in Table /\ users' \in Table /\ ForeignKeyHolds(users')
      /\ Follows(users, users')
    BY RegistryStep DEF OtherRequest, TypeOK, TableInv
<1>2. TypeOK' /\ Stage' /\ UsedInv'
    BY <1>0, <1>1 DEF TypeOK, Stage, UsedInv, UsedIsSound, Answered
<1>3. TableInv'
    BY <1>0, <1>1, FollowsTransitive DEF TableInv
<1>4. ObjectsInv'
    BY <1>0, <1>1, SoundLater DEF ObjectsInv, Source, Eager
<1>5. \A u \in Ids(users') :
         u \in Ids(users) /\ users'[u].attrs = users[u].attrs
    BY <1>1 DEF Follows, Becomes, Ids
<1>6. LookupInv'
  <2>1. NoneConfirmed => NoneConfirmed'
      BY <1>0, <1>5 DEF NoneConfirmed, WithAddress
  <2>2. QED
      BY <1>0, <2>1 DEF LookupInv
<1>7. ListInv'
  <2>1. ep \in ByWallet => Selected' \subseteq Selected
      BY <1>0, <1>5 DEF Selected, WithAddress
  <2>2. QED
      BY <1>0, <2>1 DEF ListInv, ByWallet
<1>8. QED
    BY <1>2, <1>3, <1>4, <1>6, <1>7

\* Steps that leave the table and the request alone.
LEMMA OthersKeep == ASSUME Inv, (\E k \in Kind : Move(k)) \/ UNCHANGED vars PROVE Inv'
<1> USE DEF Inv
<1>0. UNCHANGED <<users, pc, ep, id, addr, found, better, used, status, asked, failed>>
    BY DEF Move, vars
<1>1. /\ nft' \subseteq Kind /\ held' \subseteq held /\ held' \subseteq nft'
      /\ nft' \subseteq owned' /\ owned' \subseteq Kind
      /\ pc = "idle" => UNCHANGED <<held, owned>>
    BY DEF Move, vars, TypeOK, UsedInv
<1>2. TypeOK'
    BY <1>0, <1>1 DEF TypeOK
<1>3. Stage' /\ TableInv' /\ ListInv' /\ LookupInv' /\ ObjectsInv'
    BY <1>0 DEF Stage, TableInv, ListInv, LookupInv, ObjectsInv, Source, Eager,
                NoneConfirmed, Selected, WithAddress
<1>4. UsedInv'
    BY <1>0, <1>1 DEF UsedInv, UsedIsSound, Answered
<1>5. QED
    BY <1>2, <1>3, <1>4

\* Every step keeps the invariant.
LEMMA InvStep == Inv /\ [Next]_vars => Inv'
    BY AskKeeps, QueryKeeps, LoadReferrerKeeps, GetUserByEthKeeps, LoadBetterKeeps,
       UsedKeeps, OtherRequestKeeps, OthersKeep
       DEF Next, Done

\* The inductive invariant holds in every reachable state.
LEMMA InvHolds == Spec => []Inv
    BY InvInit, InvStep, PTL DEF Spec

-----------------------------------------------------------------------------
(* The theorems.                                                           *)

\* Types; and a record endpoint that answers 200 has exactly one record to serve.
THEOREM TypesHold == Spec => []TypeOK
    BY InvHolds, PTL DEF Inv

\* web3.used is right about NFTs that move between the two calls to devices-api.
THEOREM UsedSound == Spec => []UsedIsSound
<1>1. Inv => UsedIsSound
    BY DEF Inv, UsedInv
<1>2. QED
    BY <1>1, InvHolds, PTL

\* The lookups by address serve nobody who did not have the address, confirmed, when
\* the request arrived, leave nobody out of the list who still has it, and answer
\* NotFound only if nobody has; deletions in between and a missing address included.
THEOREM LookupsAreExact == Spec => []LookupExact
<1>1. Inv => LookupExact
  <2> SUFFICES ASSUME Inv PROVE LookupExact
      OBVIOUS
  <2>1. ep \in ByWallet => Selected = Holders(users, addr)
      BY DEF Selected, WithAddress, Holders, Confirmed
  <2>2. ASSUME Answered(ByWallet), NEW i \in DOMAIN found
        PROVE  found[i].id \in Holders(asked, addr)
    <3>1. better = <<>>
        BY <2>2 DEF Inv, Stage, Answered, ByWallet
    <3>2. Sound(asked, users, found[i].id, found[i])
        BY <2>2, <3>1 DEF Inv, ObjectsInv, Source
    <3>3. found[i].row.attrs.ethereum_confirmed /\ found[i].row.attrs.ethereum_address = addr
        BY <2>2 DEF Inv, ListInv, Answered
    <3>4. QED
        BY <3>2, <3>3 DEF Sound, Becomes, Holders, Confirmed, Ids
  <2>3. QED
      BY <2>1, <2>2 DEF Inv, ListInv, LookupExact, Answered, ByWallet
<1>2. QED
    BY <1>1, InvHolds, PTL

\* What is served over HTTP: one object, under the caller's id, from the row of
\* the user that Owner names.
LEMMA Served200 ==
    ASSUME Inv, Answered(HTTP)
    PROVE  /\ Len(found) = 1 /\ DOMAIN found = {1} /\ found # <<>>
           /\ found[1].id = id /\ id \in User
           /\ Sound(asked, users, Owner(1), found[1])
           /\ better # <<>> => ep = "GetUser"
<1>1. Len(found) = 1 /\ found \in Seq(Object)
    BY DEF Inv, TypeOK, Answered, HTTP
<1>2. DOMAIN found = {1} /\ found # <<>>
    BY <1>1, OneElement
<1>3. Owner(1) = Source(1)
    BY DEF Owner, Source, Answered
<1>4. QED
    BY <1>1, <1>2, <1>3
       DEF Inv, Stage, LookupInv, ObjectsInv, Answered, HTTP, ByWallet

\* The caller is served under its own id, and with the record of somebody else
\* only if that record has the wallet of the token.
THEOREM CallerIsServed == Spec => []CallerServed
<1>1. Inv => CallerServed
  <2> SUFFICES ASSUME Inv, Answered(HTTP)
               PROVE  /\ found[1].id = id
                      /\ Owner(1) # id => asked[Owner(1)].attrs.ethereum_address = addr
      BY DEF CallerServed
  <2>1. found[1].id = id
      BY Served200
  <2>2. ASSUME Owner(1) # id
        PROVE  asked[Owner(1)].attrs.ethereum_address = addr
    <3>1. better # <<>> /\ Owner(1) = better[1].id
        BY <2>1, <2>2 DEF Owner
    <3>2. better \in Seq(Object) /\ 1 \in DOMAIN better
        BY <3>1 DEF Inv, TypeOK
    <3>3. Sound(asked, users, better[1].id, better[1])
        BY <3>2 DEF Inv, ObjectsInv
    <3>4. better[1].row.attrs.ethereum_address = addr
        BY <3>1 DEF Inv, LookupInv
    <3>5. QED
        BY <3>1, <3>3, <3>4 DEF Sound, Becomes
  <2>3. QED
      BY <2>1, <2>2
<1>2. QED
    BY <1>1, InvHolds, PTL

\* A user who was told that the migration is recorded sees it in every later answer
\* of GetUserV2, outside the dev environment.
THEOREM MigrationIsVisible == Spec => []MigrationVisible
<1>1. Inv => MigrationVisible
  <2> SUFFICES ASSUME Inv, Answered({"GetUserV2"}), ~DevEnv, asked[id].migrated_at
               PROVE  found[1].row.migrated_at
      BY DEF MigrationVisible
  <2>1. Answered(HTTP) /\ ep = "GetUserV2"
      BY DEF Answered, HTTP
  <2>2. Owner(1) = id /\ Sound(asked, users, id, found[1])
      BY <2>1, Served200 DEF Owner
  <2>3. QED
      BY <2>2 DEF Sound, Becomes
<1>2. QED
    BY <1>1, InvHolds, PTL

\* Of the records of the token's wallet, one with a confirmed email is served as
\* long as there is one, although two lookups are made and records disappear.
THEOREM EmailPreferred == Spec => []ConfirmedEmailPreferred
<1>1. Inv => ConfirmedEmailPreferred
  <2> SUFFICES ASSUME Inv, Answered({"GetUser"}), "lookup" \notin failed, addr # NULL
               PROVE  found[1].row.attrs.email_confirmed \/ NoneConfirmed
      BY DEF ConfirmedEmailPreferred, NoneConfirmed
  <2>1. QED
      BY DEF Inv, LookupInv, Answered
<1>2. QED
    BY <1>1, InvHolds, PTL

\* Nobody is shown as the referrer who was not the user's referrer, confirmed, when
\* the request arrived; and none is hidden that the user still has, confirmed.
THEOREM ReferrerTrue == Spec => []ReferrerIsTrue
<1>1. Inv => ReferrerIsTrue
  <2> SUFFICES ASSUME Inv, Answered(Endpoint), NEW i \in DOMAIN found
               PROVE  LET u == Owner(i)
                          w == found[i].row.referring_user_id
                      IN  /\ ShowsReferrer(found[i]) =>
                                asked[u].referring_user_id = w /\ Confirmed(asked, w)
                          /\ /\ Tells(found[i]) /\ ~ShowsReferrer(found[i])
                             /\ users[u] # Absent /\ users[u].referring_user_id # NULL
                             => ~Confirmed(users, users[u].referring_user_id)
      BY DEF ReferrerIsTrue
  <2> DEFINE u == Owner(i)
             o == found[i]
             w == o.row.referring_user_id
  <2>1. Sound(asked, users, u, o) /\ Whole(users, o)
      BY DEF Inv, ObjectsInv, Answered, Owner, Source, Eager
  <2>2. NULL \notin User
      BY TableAssumption DEF TableAssumption
  <2>3. ASSUME ShowsReferrer(o)
        PROVE  asked[u].referring_user_id = w /\ Confirmed(asked, w)
    <3>1. w \in User /\ o.ref.attrs = asked[w].attrs /\ o.ref.attrs.ethereum_confirmed
        BY <2>1, <2>3 DEF ShowsReferrer, Sound
    <3>2. Becomes(asked[u], o.row)
        BY <2>1 DEF Sound
    <3>3. QED
        BY <2>2, <3>1, <3>2, BecomesReference DEF Confirmed
  <2>4. ASSUME Tells(o), ~ShowsReferrer(o), users[u] # Absent,
               users[u].referring_user_id # NULL
        PROVE  ~Confirmed(users, users[u].referring_user_id)
    <3>1. Becomes(o.row, users[u]) /\ u \in User
        BY <2>1, <2>4 DEF Sound
    <3>2. users[u].referring_user_id = w
        BY <2>4, <3>1, BecomesReference
    <3>3. w \in User /\ users[w] # Absent
        BY <2>4, <3>1, <3>2 DEF Inv, TableInv, ForeignKeyHolds, Ids
    <3>4. o.ref # Absent
        BY <2>1, <2>4, <3>2, <3>3 DEF Whole
    <3>5. o.ref.attrs = asked[w].attrs /\ users[w].attrs = asked[w].attrs
        BY <2>1, <3>3, <3>4 DEF Sound, Inv, TableInv, Follows, Becomes
    <3>6. QED
        BY <2>4, <3>2, <3>4, <3>5 DEF Confirmed, ShowsReferrer
  <2>5. QED
      BY <2>3, <2>4
<1>2. QED
    BY <1>1, InvHolds, PTL
=============================================================================
