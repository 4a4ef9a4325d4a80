------------------------------ MODULE UserReads ------------------------------
(***************************************************************************)
(* The read endpoints: GET /v1/user (GetUser) and GET /v2/user (GetUserV2) *)
(* of internal/controllers/user_controller.go and the three calls of the   *)
(* gRPC service of internal/api/users.go.  An answer is put together from  *)
(* several queries and calls, none of them in a transaction; between any   *)
(* two of them other requests change the table (UserRegistry says how) and *)
(* the user's NFTs move.                                                   *)
(*                                                                         *)
(* Reads do not change anything, so one request, in any table, is enough:  *)
(* what it meets from all the others is what the registry and Move allow.  *)
(***************************************************************************)
EXTENDS UsersTable, Naturals, Sequences, FiniteSets

CONSTANTS DevEnv,       \* Settings.Environment = "dev"
          Address,      \* Ethereum addresses
          Served        \* the endpoints that are called

\* The endpoints; the two of ByWallet select records by a confirmed address.
HTTP     == {"GetUser", "GetUserV2"}
ByWallet == {"GetUserByEthAddr", "GetUsersByEthereumAddress"}
Endpoint == HTTP \cup ByWallet \cup {"grpc.GetUser"}

\* The columns of a row that the read endpoints look at; web3 says that
\* auth_provider_id is "web3", referred_at that the column is not NULL.
ASSUME ReadsAssumption ==
    /\ DevEnv \in BOOLEAN
    /\ NULL \notin Address
    /\ Attrs \subseteq [ethereum_address   : Address \cup {NULL},
                        ethereum_confirmed : BOOLEAN,
                        email_confirmed    : BOOLEAN,
                        web3               : BOOLEAN,
                        referred_at        : BOOLEAN]
    /\ CreatedAt \subseteq Nat
    /\ Served \subseteq Endpoint
    /\ IsFiniteSet(User)

VARIABLES users,    \* the table
          nft,      \* the kinds of NFT the asking user holds
          pc,       \* the call the request makes next
          ep,       \* its endpoint
          id,       \* the user id of the token or of the gRPC request
          addr,     \* the ethereum_address claim, or the requested address
          found,    \* the objects loaded, in order
          better,   \* what getUserByEth has loaded so far
          used,     \* web3.used of the answer
          status,   \* status of the last answer, 0 before it
          asked,    \* history: the table when the request arrived
          held,     \* history: kinds of NFT held ever since it arrived
          owned,    \* history: kinds of NFT held at any time since
          failed    \* history: the failed calls that were not reported

vars == <<users, nft, pc, ep, id, addr, found, better, used, status,
          asked, held, owned, failed>>

Label    == {"idle", "query", "loadReferrer", "getUserByEth", "loadBetter",
             "vehicles", "aftermarket"}
Kind     == {"vehicle", "aftermarket"}

\* An object of models.User in memory: R.ReferringUser is ref, or Absent.
Object == [id : User, row : Row, ref : Row \cup {Absent}]

\* Types; an endpoint that serves one record has one when it answers 200.
TypeOK ==
    /\ users \in Table
    /\ nft \subseteq Kind
    /\ pc \in Label
    /\ ep \in Endpoint \cup {"none"}
    /\ id \in User \cup {NULL}
    /\ addr \in Address \cup {NULL}
    /\ found \in Seq(Object)
    /\ better \in Seq(Object) /\ Len(better) =< 1
    /\ status = 200 /\ ep # "GetUsersByEthereumAddress" => Len(found) = 1
    /\ used \in BOOLEAN
    /\ status \in {0, 200, 404, 500}
    /\ asked \in Table
    /\ held \subseteq Kind /\ owned \subseteq Kind
    /\ failed \subseteq {"lookup", "devices"}

Init ==
    /\ users \in Table /\ ForeignKeyHolds(users)
    /\ nft = {}
    /\ pc = "idle" /\ ep = "none" /\ id = NULL /\ addr = NULL
    /\ found = <<>> /\ better = <<>> /\ used = FALSE /\ status = 0
    /\ asked = users /\ held = nft /\ owned = nft /\ failed = {}

-----------------------------------------------------------------------------
(* The queries.                                                            *)

Loaded(u) == [id |-> u, row |-> users[u], ref |-> Absent]

\* Mutant: EQ is a bare "ethereum_address = ?", and in SQL NULL equals nothing.
WithAddressPlain(a) ==
    {u \in Ids(users) : a # NULL /\ users[u].attrs.ethereum_address = a}

\* UserWhere.EthereumAddress.EQ(a): "ethereum_address = ?", and, as it is
\* WhereNullEQ, "ethereum_address IS NULL" for an a that is NULL.
WithAddress(a) == {u \in Ids(users) : users[u].attrs.ethereum_address = a}

\* The rows the first query of the endpoint selects.
Selected ==
    IF ep \in ByWallet
    THEN {u \in WithAddress(addr) : users[u].attrs.ethereum_confirmed}
    ELSE {id} \cap Ids(users)

\* ORDER BY created_at DESC; equal timestamps come in any order.
NewestFirst(S) ==
    {s \in [1 .. Cardinality(S) -> S] :
        \A i, j \in DOMAIN s : i < j =>
            s[i] # s[j] /\ users[s[i]].created_at >= users[s[j]].created_at}

\* LoadReferringUser: the objects of s with the referrers that still exist.
LoadReferringUser(s) ==
    [i \in DOMAIN s |->
        [s[i] EXCEPT !.ref = IF s[i].row.referring_user_id \in Ids(users)
                             THEN users[s[i].row.referring_user_id]
                             ELSE Absent]]

-----------------------------------------------------------------------------
(* A request.                                                              *)

\* The request: a token with a user id and perhaps an address, or the one argument
\* of a gRPC call, whose address may be missing too: null.BytesFrom(nil) is NULL.
\* What the user holds when it arrives can be anything.
Ask(e, u, a) ==
    /\ pc = "idle" /\ status = 0
    /\ pc' = "query" /\ ep' = e
    /\ id' = (IF e \in ByWallet THEN NULL ELSE u)
    /\ addr' = (IF e = "grpc.GetUser" THEN NULL ELSE a)
    /\ nft' \in (IF e \in HTTP THEN SUBSET Kind ELSE {{}})
    /\ asked' = users /\ held' = nft' /\ owned' = nft'
    /\ UNCHANGED <<users, found, better, used, status, failed>>

Answer(code) == pc' = "idle" /\ status' = code

env == <<users, nft, ep, id, addr, asked, held, owned>>

\* Mutant: sql.ErrNoRows is not told apart, the empty object is served.
QueryServingNoRows ==
    /\ pc = "query"
    /\ \/ /\ \E u \in Selected : found' = <<Loaded(u)>>
          /\ pc' = "loadReferrer"
          /\ UNCHANGED status
       \/ Selected = {} /\ Answer(200) /\ UNCHANGED found
    /\ UNCHANGED <<env, better, used, failed>>

Query ==
    /\ pc = "query"
    /\ \/ /\ IF ep = "GetUsersByEthereumAddress"
             THEN \E s \in NewestFirst(Selected) :
                     found' = [i \in DOMAIN s |-> Loaded(s[i])]
             ELSE \E u \in Selected : found' = <<Loaded(u)>>
          /\ pc' = "loadReferrer"
          /\ UNCHANGED status
       \/ /\ Selected = {} /\ ep # "GetUsersByEthereumAddress"
          /\ Answer(404)
          /\ UNCHANGED found
       \/ Answer(500) /\ UNCHANGED found
    /\ UNCHANGED <<env, better, used, failed>>

\* Mutant: the commented-out lookup of GetUserV2 is back.
LoadReferrerSwapInV2 ==
    /\ pc = "loadReferrer"
    /\ found' = LoadReferringUser(found)
    /\ \/ /\ ep \in HTTP
          /\ pc' = IF addr # NULL THEN "getUserByEth" ELSE "vehicles"
          /\ UNCHANGED status
       \/ ep \notin HTTP /\ Answer(200)
    /\ UNCHANGED <<env, better, used, failed>>

\* The gRPC endpoints answer now, the HTTP endpoints go on.
LoadReferrer ==
    /\ pc = "loadReferrer"
    /\ \/ /\ found' = LoadReferringUser(found)
          /\ \/ /\ ep \in HTTP
                /\ pc' = IF ep = "GetUser" /\ addr # NULL
                         THEN "getUserByEth" ELSE "vehicles"
                /\ UNCHANGED status
             \/ ep \notin HTTP /\ Answer(200)
       \/ /\ \E i \in DOMAIN found : found[i].row.referring_user_id # NULL
          /\ Answer(500)
          /\ UNCHANGED found
    /\ UNCHANGED <<env, better, used, failed>>

\* Mutant: getUserByEth without its ORDER BY.
GetUserByEthUnordered ==
    /\ pc = "getUserByEth"
    /\ \E u \in WithAddress(addr) : better' = <<Loaded(u)>>
    /\ pc' = "loadBetter"
    /\ UNCHANGED <<env, found, used, status, failed>>

\* getUserByEth, ORDER BY email_confirmed DESC LIMIT 1.  No row and an error
\* are the same to GetUser: it keeps what it has.
GetUserByEth ==
    /\ pc = "getUserByEth"
    /\ \/ \E u \in WithAddress(addr) :
             /\ \A v \in WithAddress(addr) :
                   users[v].attrs.email_confirmed => users[u].attrs.email_confirmed
             /\ better' = <<Loaded(u)>>
             /\ pc' = "loadBetter"
             /\ UNCHANGED failed
       \/ /\ WithAddress(addr) = {}
          /\ pc' = "vehicles"
          /\ UNCHANGED <<better, failed>>
       \/ pc' = "vehicles" /\ failed' = failed \cup {"lookup"} /\ UNCHANGED better
    /\ UNCHANGED <<env, found, used, status>>

\* Mutant: the id of the other record is not replaced.
SwapKeepingId(s, o) == IF o[1].id = id THEN s ELSE o

\* The record found by address replaces the one found by id, under its id.
Swap(s, o) == IF o[1].id = id THEN s ELSE <<[o[1] EXCEPT !.id = id]>>

LoadBetter ==
    /\ pc = "loadBetter"
    /\ \/ /\ better' = LoadReferringUser(better)
          /\ found' = Swap(found, better')
          /\ UNCHANGED failed
       \/ /\ better[1].row.referring_user_id # NULL
          /\ failed' = failed \cup {"lookup"}
          /\ better' = <<>>
          /\ UNCHANGED found
    /\ pc' = "vehicles"
    /\ UNCHANGED <<env, used, status>>

-----------------------------------------------------------------------------
(* computeWeb3Used; an error leaves used FALSE and is only logged.         *)

AnswerUsed(b, err) ==
    /\ used' = b
    /\ failed' = failed \cup err
    /\ Answer(200)

\* Mutant: a user without vehicles is taken for one without NFTs.
VehiclesOnly ==
    /\ pc = "vehicles"
    /\ LET a == found[1].row.attrs
       IN  AnswerUsed(a.web3 \/ (a.ethereum_confirmed /\ "vehicle" \in nft), {})
    /\ UNCHANGED <<env, found, better>>

Vehicles ==
    /\ pc = "vehicles"
    /\ LET a == found[1].row.attrs
       IN  \/ a.web3 /\ AnswerUsed(TRUE, {})
           \/ ~a.web3 /\ ~a.ethereum_confirmed /\ AnswerUsed(FALSE, {})
           \/ /\ ~a.web3 /\ a.ethereum_confirmed
              /\ \/ "vehicle" \in nft /\ AnswerUsed(TRUE, {})
                 \/ /\ "vehicle" \notin nft
                    /\ pc' = "aftermarket"
                    /\ UNCHANGED <<used, status, failed>>
                 \/ AnswerUsed(FALSE, {"devices"})
    /\ UNCHANGED <<env, found, better>>

Aftermarket ==
    /\ pc = "aftermarket"
    /\ \/ AnswerUsed("aftermarket" \in nft, {})
       \/ AnswerUsed(FALSE, {"devices"})
    /\ UNCHANGED <<env, found, better>>

-----------------------------------------------------------------------------
(* The environment.                                                        *)

Registry == INSTANCE UserRegistry

\* The other requests, as the handlers of UserWrites implement them, up to the
\* moment of the answer.
OtherRequest ==
    /\ status = 0
    /\ Registry!Next
    /\ UNCHANGED <<nft, pc, ep, id, addr, found, better, used, status,
                   asked, held, owned, failed>>

\* The asking user's NFTs change hands (external: devices-api, the chain)
\* between the calls that look at them.  Ask leaves open what the user holds, so an
\* earlier move would only enlarge owned and shrink held.
Move(k) ==
    /\ pc \in {"vehicles", "aftermarket"}
    /\ nft' = IF k \in nft THEN nft \ {k} ELSE nft \cup {k}
    /\ held' = held \cap nft'
    /\ owned' = owned \cup nft'
    /\ UNCHANGED <<users, pc, ep, id, addr, found, better, used, status,
                   asked, failed>>

\* The request has been answered.
Done == pc = "idle" /\ status # 0 /\ UNCHANGED vars

Next ==
    \/ \E e \in Served, u \in User, a \in Address \cup {NULL} : Ask(e, u, a)
    \/ Query \/ LoadReferrer \/ GetUserByEth \/ LoadBetter
    \/ Vehicles \/ Aftermarket
    \/ OtherRequest
    \/ \E k \in Kind : Move(k)
    \/ Done

Spec == Init /\ [][Next]_vars
-----------------------------------------------------------------------------
(* Properties.                                                             *)

Answered(E) == pc = "idle" /\ status = 200 /\ ep \in E

\* The user whose row object i of the answer was read from.
Owner(i) == IF better # <<>> THEN better[1].id ELSE found[i].id

Confirmed(t, u) == t[u].attrs.ethereum_confirmed

\* gRPC speaks of a referrer only if the user was referred (referred_at).
Tells(o) == ep \in HTTP \/ o.row.attrs.referred_at

\* Mutant: formatUser shows a referrer whose address is not confirmed.
ShowsAnyReferrer(o) == Tells(o) /\ o.ref # Absent

\* formatUser shows the referrer of o (referredBy, referrer_valid).
ShowsReferrer(o) ==
    Tells(o) /\ o.ref # Absent /\ o.ref.attrs.ethereum_confirmed

\* pkg/grpc/users.proto:42, "referrer_valid will be false if the referring user has
\* deleted their account or no longer has a confirmed Ethereum address": the
\* referrer is read after the user, yet one that is shown was the user's, with
\* a confirmed address, when the request arrived; and if the answer tells that
\* there is none, the user has none by now or is gone too.
ReferrerIsTrue ==
    Answered(Endpoint) =>
        \A i \in DOMAIN found :
            LET u == Owner(i)
                w == found[i].row.referring_user_id
            IN  /\ ShowsReferrer(found[i]) =>
                      asked[u].referring_user_id = w /\ Confirmed(asked, w)
                /\ /\ Tells(found[i]) /\ ~ShowsReferrer(found[i])
                   /\ users[u] # Absent /\ users[u].referring_user_id # NULL
                   => ~Confirmed(users, users[u].referring_user_id)

\* GetUser: among the records of the token's wallet, one with a confirmed email
\* is served if there still is one when the request ends, unless the lookup
\* failed, although records are deleted between the two lookups.
ConfirmedEmailPreferred ==
    /\ Answered({"GetUser"}) /\ "lookup" \notin failed
    /\ addr # NULL
    => \/ found[1].row.attrs.email_confirmed
       \/ \A u \in WithAddress(addr) : ~users[u].attrs.email_confirmed

\* GetUserV2 shows the caller's own SetMigrated: once it was acknowledged,
\* every later answer says so (outside the dev environment).
MigrationVisible ==
    Answered({"GetUserV2"}) /\ ~DevEnv /\ asked[id].migrated_at
        => found[1].row.migrated_at

\* The id answered, under which devices-api is asked too, is the caller's, and
\* a record of somebody else is served only for the wallet of the token.
CallerServed ==
    Answered(HTTP) =>
        /\ found[1].id = id
        /\ Owner(1) # id => asked[Owner(1)].attrs.ethereum_address = addr

\* The accounts of table t with the confirmed address a.
Holders(t, a) == {u \in Ids(t) : Confirmed(t, u) /\ t[u].attrs.ethereum_address = a}

\* The gRPC lookups by address.  Their queries (api/users.go:77 and 95) run some
\* time after the request arrives and before it is answered; accounts are
\* deleted at any moment.  Whatever is served had the address, confirmed, when
\* the request arrived; an account that still has it when it is answered is in
\* the list; and NotFound is told only if nobody has it by then.  A request
\* without an address is no exception: it is answered with accounts that have
\* no address.
LookupExact ==
    /\ Answered(ByWallet) =>
          {found[i].id : i \in DOMAIN found} \subseteq Holders(asked, addr)
    /\ Answered({"GetUsersByEthereumAddress"}) =>
          Holders(users, addr) \subseteq {found[i].id : i \in DOMAIN found}
    /\ status = 404 /\ ep = "GetUserByEthAddr" => Holders(users, addr) = {}

\* web3.used is TRUE only for a web3 login or a user who held an NFT during
\* the request; FALSE, unless devices-api failed, only for one who held no kind
\* of NFT all through it (NFTs may move between the two calls).
UsedIsSound ==
    Answered(HTTP) =>
        LET a == found[1].row.attrs
        IN  IF used THEN a.web3 \/ owned # {}
            ELSE \/ "devices" \in failed
                 \/ ~a.web3 /\ (a.ethereum_confirmed => held = {})
=============================================================================
