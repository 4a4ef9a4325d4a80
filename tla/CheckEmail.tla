----------------------------- MODULE CheckEmail -----------------------------
(***************************************************************************)
(* POST /v1/check-email (internal/controllers/admin_handlers.go): which of *)
(* the wallets confirmed by the holders of an email are in use on chain.   *)
(* The accounts are read by one query; the chain is then asked for one     *)
(* balance at a time, in the order in which Go walks a map, while blocks   *)
(* with transfers keep coming.                                             *)
(***************************************************************************)
EXTENDS Naturals, FiniteSets

CONSTANTS User,       \* ids of the users with the email in question
          Wallet,     \* Ethereum addresses, 20 bytes long
          Malformed,  \* a value of ethereum_address of any other length
          NULL,       \* SQL NULL in ethereum_address
          Accounts,   \* the rows that may occur
          NoWallet    \* no address is being looked at

ASSUME CheckAssumption ==
    /\ Accounts \subseteq [email_confirmed    : BOOLEAN,
                           ethereum_confirmed : BOOLEAN,
                           ethereum_address   : Wallet \cup {Malformed, NULL},
                           in_app_wallet      : BOOLEAN]
    /\ IsFiniteSet(Wallet)
    /\ Malformed \notin Wallet /\ NULL \notin Wallet /\ NoWallet \notin Wallet
    /\ Malformed # NULL

Contract == {"vehicle", "aftermarket", "token"}

(***************************************************************************)
(* One query reads the accounts, so it does not matter when others come or *)
(* go: accounts does not change.  Of a balance only nonZero matters, so    *)
(* holders gives the wallets with a non-zero balance in each contract.     *)
(***************************************************************************)
VARIABLES accounts,      \* the rows with the email
          holders,       \* the chain
          pc,            \* the call the handler makes next
          inApp,         \* addrsInAppStatus
          todo,          \* its addresses the loop has not reached
          addr,          \* the address the loop looks at
          usedInApp, usedExternal,
          status,        \* 0 before the answer
          always, ever   \* history: holders at every, at some moment so far

vars == <<accounts, holders, pc, inApp, todo, addr, usedInApp, usedExternal,
          status, always, ever>>

TypeOK ==
    /\ accounts \in UNION {[S -> Accounts] : S \in SUBSET User}
    /\ holders \in [Contract -> SUBSET Wallet]
    /\ pc \in {"idle", "query", "dial", "next"} \cup Contract
    /\ inApp \in UNION {[S -> BOOLEAN] : S \in SUBSET Wallet}
    /\ todo \subseteq DOMAIN inApp
    /\ addr \in Wallet \cup {NoWallet}
    /\ usedInApp \in 0 .. Cardinality(Wallet)
    /\ usedExternal \in 0 .. Cardinality(Wallet)
    /\ status \in {0, 200, 400, 500}
    /\ always \in [Contract -> SUBSET Wallet]
    /\ ever \in [Contract -> SUBSET Wallet]

Empty == [a \in {} |-> FALSE]

Init ==
    /\ accounts \in UNION {[S -> Accounts] : S \in SUBSET User}
    /\ holders \in [Contract -> SUBSET Wallet]
    /\ pc = "idle" /\ inApp = Empty /\ todo = {} /\ addr = NoWallet
    /\ usedInApp = 0 /\ usedExternal = 0 /\ status = 0
    /\ always = holders /\ ever = holders

-----------------------------------------------------------------------------

Answer(code) == pc' = "idle" /\ status' = code

\* A request arrives; one whose body does not parse is answered 400.
Ask ==
    /\ pc = "idle"
    /\ inApp' = Empty /\ todo' = {} /\ addr' = NoWallet
    /\ usedInApp' = 0 /\ usedExternal' = 0
    /\ always' = holders /\ ever' = holders
    /\ Answer(400) \/ (pc' = "query" /\ status' = 0)
    /\ UNCHANGED <<accounts, holders>>

\* The accounts the query selects.
Confirmed ==
    {u \in DOMAIN accounts : /\ accounts[u].email_confirmed
                             /\ accounts[u].ethereum_confirmed
                             /\ accounts[u].ethereum_address # NULL}

\* Mutant: the last account of an address decides.
AddrsInAppStatusOfSome(S) ==
    [a \in {accounts[u].ethereum_address : u \in S} \cap Wallet |->
        \A u \in S : accounts[u].ethereum_address = a => accounts[u].in_app_wallet]

\* addrsInAppStatus: an address is in-app if an account of S says so;
\* addresses of a wrong length are skipped.
AddrsInAppStatus(S) ==
    [a \in {accounts[u].ethereum_address : u \in S} \cap Wallet |->
        \E u \in S : accounts[u].ethereum_address = a /\ accounts[u].in_app_wallet]

Query ==
    /\ pc = "query"
    /\ \/ /\ inApp' = AddrsInAppStatus(Confirmed)
          /\ pc' = "dial"
          /\ UNCHANGED status
       \/ Answer(500) /\ UNCHANGED inApp
    /\ UNCHANGED <<accounts, holders, todo, addr, usedInApp, usedExternal,
                   always, ever>>

Dial ==
    /\ pc = "dial"
    /\ \/ pc' = "next" /\ todo' = DOMAIN inApp /\ UNCHANGED status
       \/ Answer(500) /\ UNCHANGED todo
    /\ UNCHANGED <<accounts, holders, inApp, addr, usedInApp, usedExternal,
                   always, ever>>

\* The loop over the map takes any address it has not had, or ends.
NextAddress ==
    /\ pc = "next"
    /\ \/ /\ \E a \in todo : addr' = a /\ todo' = todo \ {a}
          /\ pc' = "vehicle"
          /\ UNCHANGED status
       \/ todo = {} /\ Answer(200) /\ UNCHANGED <<addr, todo>>
    /\ UNCHANGED <<accounts, holders, inApp, usedInApp, usedExternal,
                   always, ever>>

\* What the loop asks after a zero balance in c; only in-app wallets are used
\* if they hold nothing but tokens.
AfterZero(c) ==
    CASE c = "vehicle"     -> "aftermarket"
      [] c = "aftermarket" -> IF inApp[addr] THEN "token" ELSE "next"
      [] c = "token"       -> "next"

\* Mutant: an address with two kinds of NFT counts twice.
BalanceOfCountingKinds(c) ==
    /\ pc = c
    /\ pc' = AfterZero(c)
    /\ usedInApp' = usedInApp + IF addr \in holders[c] /\ inApp[addr] THEN 1 ELSE 0
    /\ usedExternal' =
          usedExternal + IF addr \in holders[c] /\ ~inApp[addr] THEN 1 ELSE 0
    /\ UNCHANGED <<accounts, holders, inApp, todo, addr, status, always, ever>>

\* contract.BalanceOf(addr), and what the handler does with it.
BalanceOf(c) ==
    /\ pc = c
    /\ \/ /\ addr \in holders[c]
          /\ pc' = "next"
          /\ usedInApp' = usedInApp + IF inApp[addr] THEN 1 ELSE 0
          /\ usedExternal' = usedExternal + IF inApp[addr] THEN 0 ELSE 1
          /\ UNCHANGED status
       \/ /\ addr \notin holders[c]
          /\ pc' = AfterZero(c)
          /\ UNCHANGED <<usedInApp, usedExternal, status>>
       \/ Answer(500) /\ UNCHANGED <<usedInApp, usedExternal>>
    /\ UNCHANGED <<accounts, holders, inApp, todo, addr, always, ever>>

\* A block changes who holds something of c (external: the chain).
Block(c, S) ==
    /\ pc # "idle" /\ S # holders[c]
    /\ holders' = [holders EXCEPT ![c] = S]
    /\ always' = [always EXCEPT ![c] = @ \cap S]
    /\ ever' = [ever EXCEPT ![c] = @ \cup S]
    /\ UNCHANGED <<accounts, pc, inApp, todo, addr, usedInApp, usedExternal,
                   status>>

Next ==
    \/ Ask \/ Query \/ Dial \/ NextAddress
    \/ \E c \in Contract : BalanceOf(c)
    \/ \E c \in Contract, S \in SUBSET Wallet : Block(c, S)

Spec == Init /\ [][Next]_vars
-----------------------------------------------------------------------------
(* Properties.                                                             *)

\* The wallets of the email, and those of them that are in-app.
Wallets == {accounts[u].ethereum_address : u \in Confirmed} \cap Wallet
InAppWallets ==
    {a \in Wallets : \E u \in Confirmed :
        accounts[u].ethereum_address = a /\ accounts[u].in_app_wallet}

\* The wallets in use if the chain is h: in-app ones, external ones.
InAppInUse(h) ==
    InAppWallets \cap (h["vehicle"] \cup h["aftermarket"] \cup h["token"])
ExternalInUse(h) ==
    (Wallets \ InAppWallets) \cap (h["vehicle"] \cup h["aftermarket"])

Between(n, S, T) == Cardinality(S) =< n /\ n =< Cardinality(T)

\* Each wallet of the email is counted once and on its side, in whatever order
\* the map is walked and however many accounts share it: one that holds some
\* kind of asset all through the request is counted, one that never holds any
\* is not.  On a chain that stands still the counts are therefore exact.
CountsExact ==
    status = 200 =>
        /\ Between(usedInApp, InAppInUse(always), InAppInUse(ever))
        /\ Between(usedExternal, ExternalInUse(always), ExternalInUse(ever))
=============================================================================
