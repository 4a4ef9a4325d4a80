-------------------------- MODULE CheckEmailProofs --------------------------
(***************************************************************************)
(* Proofs about CheckEmail: the counts of POST /v1/check-email are right   *)
(* for any accounts, wallets and movements of assets.  CountsExact speaks  *)
(* of the answer alone; the induction is over the addresses the loop has   *)
(* finished with, so the invariant says it of those (Counted).             *)
(***************************************************************************)
EXTENDS CheckEmail, FiniteSetTheorems, TLAPS

Looping == pc \in {"next"} \cup Contract

\* The addresses the loop has finished with.
Seen == DOMAIN inApp \ (todo \cup {a \in {addr} : pc \in Contract})

\* The wallets of V that are in use if the chain is h, by side.
InAppSeen(h, V) == InAppInUse(h) \cap V
ExternalSeen(h, V) == ExternalInUse(h) \cap V

-----------------------------------------------------------------------------
(* The inductive invariant.                                                *)

\* What was held all through the request is held now, and that was held once.
History ==
    \A c \in Contract : always[c] \subseteq holders[c] /\ holders[c] \subseteq ever[c]

\* No answer before the end, and nothing is counted before the loop.
Phases ==
    /\ pc # "idle" => status = 0
    /\ pc \in {"query", "dial"} => usedInApp = 0 /\ usedExternal = 0 /\ todo = {}

\* From the query on, the map is that of the accounts with the email.
MapInv == pc = "dial" \/ Looping \/ status = 200 => inApp = AddrsInAppStatus(Confirmed)

\* Where the loop is, and what it has found zero so far: the tokens are asked for
\* only of an in-app address.
LoopInv ==
    /\ pc \in Contract => addr \in DOMAIN inApp /\ addr \notin todo
    /\ pc \in {"aftermarket", "token"} => addr \notin always["vehicle"]
    /\ pc = "token" => addr \notin always["aftermarket"] /\ inApp[addr]
    /\ status = 200 => todo = {}

\* The counts are right for the addresses the loop has finished with.
Counted ==
    Looping \/ status = 200 =>
        /\ Between(usedInApp, InAppSeen(always, Seen), InAppSeen(ever, Seen))
        /\ Between(usedExternal, ExternalSeen(always, Seen), ExternalSeen(ever, Seen))

Inv == TypeOK /\ History /\ Phases /\ MapInv /\ LoopInv /\ Counted

-----------------------------------------------------------------------------
(* Lemmas about the counts.                                                *)

\* The bounds of a count may be relaxed.
LEMMA BetweenRelax ==
    ASSUME NEW n \in Nat, NEW S, NEW T \in SUBSET Wallet, NEW S1 \in SUBSET Wallet,
           NEW T1 \in SUBSET Wallet, S \in SUBSET Wallet,
           Between(n, S, T), S1 \subseteq S, T \subseteq T1
    PROVE  Between(n, S1, T1)
<1>1. IsFiniteSet(S) /\ IsFiniteSet(T1)
  BY FS_Subset, CheckAssumption DEF CheckAssumption
<1>2. Cardinality(S1) =< Cardinality(S) /\ Cardinality(T) =< Cardinality(T1)
  BY <1>1, FS_Subset
<1>3. /\ Cardinality(S1) \in Nat /\ Cardinality(S) \in Nat
      /\ Cardinality(T1) \in Nat /\ Cardinality(T) \in Nat
  BY <1>1, FS_Subset, FS_CardinalityType
<1> QED
  BY <1>2, <1>3 DEF Between

\* A new address that is in use now, and so at some moment, adds one.
LEMMA BetweenCount ==
    ASSUME NEW n \in Nat, NEW S \in SUBSET Wallet, NEW T \in SUBSET Wallet,
           NEW S1 \in SUBSET Wallet, NEW T1 \in SUBSET Wallet, NEW a \in Wallet,
           Between(n, S, T), a \notin S, a \notin T,
           S1 \subseteq S \cup {a}, T \cup {a} \subseteq T1
    PROVE  Between(n + 1, S1, T1)
<1>1. IsFiniteSet(S) /\ IsFiniteSet(T)
  BY FS_Subset, CheckAssumption DEF CheckAssumption
<1>2. /\ Cardinality(S \cup {a}) = Cardinality(S) + 1
      /\ Cardinality(T \cup {a}) = Cardinality(T) + 1
  BY <1>1, FS_AddElement
<1>3. Cardinality(S) \in Nat /\ Cardinality(T) \in Nat
  BY <1>1, FS_CardinalityType
<1>4. Between(n + 1, S \cup {a}, T \cup {a})
  BY <1>2, <1>3 DEF Between
<1> QED
  BY <1>4, BetweenRelax

\* A count of wallets is at most their number.
LEMMA BetweenType ==
    ASSUME NEW n \in Nat, NEW S \in SUBSET Wallet, NEW T \in SUBSET Wallet,
           Between(n, S, T)
    PROVE  n \in 0 .. Cardinality(Wallet)
<1>1. Cardinality(T) =< Cardinality(Wallet) /\ Cardinality(T) \in Nat
  BY FS_Subset, FS_CardinalityType, CheckAssumption DEF CheckAssumption
<1>2. Cardinality(Wallet) \in Nat
  BY FS_CardinalityType, CheckAssumption DEF CheckAssumption
<1> QED
  BY <1>1, <1>2 DEF Between

\* The map has the wallets of the email, each on its side.
LEMMA MapSides ==
    ASSUME inApp = AddrsInAppStatus(Confirmed)
    PROVE  /\ Wallets = DOMAIN inApp
           /\ \A a \in DOMAIN inApp : inApp[a] \in BOOLEAN
           /\ InAppWallets = {a \in DOMAIN inApp : inApp[a]}
<1>1. Wallets = DOMAIN inApp
  BY DEF AddrsInAppStatus, Wallets
<1>2. \A a \in Wallets : inApp[a] =
          (\E u \in Confirmed : accounts[u].ethereum_address = a /\ accounts[u].in_app_wallet)
  BY DEF AddrsInAppStatus, Wallets
<1>3. \A a \in DOMAIN inApp : inApp[a] \in BOOLEAN
  BY <1>1, <1>2, Zenon
<1> QED
  BY <1>1, <1>2, <1>3, Zenon DEF InAppWallets

\* Sets of wallets in use are sets of wallets.
LEMMA SeenType ==
    ASSUME NEW h, NEW V
    PROVE  InAppSeen(h, V) \in SUBSET Wallet /\ ExternalSeen(h, V) \in SUBSET Wallet
  BY DEF InAppSeen, ExternalSeen, InAppInUse, ExternalInUse, InAppWallets, Wallets

-----------------------------------------------------------------------------
(* The invariant holds at first and after every action.                    *)

\* The map before it is filled: no address.
LEMMA EmptyType ==
    Empty \in UNION {[S -> BOOLEAN] : S \in SUBSET Wallet} /\ DOMAIN Empty = {}
<1>1. Empty \in [{} -> BOOLEAN] /\ {} \in SUBSET Wallet
  BY DEF Empty
<1> QED
  BY <1>1

\* The invariant holds initially.
LEMMA InitInv == Init => Inv
<1> SUFFICES ASSUME Init PROVE Inv
  OBVIOUS
<1>1. Cardinality(Wallet) \in Nat
  BY FS_CardinalityType, CheckAssumption DEF CheckAssumption
<1>2. inApp \in UNION {[S -> BOOLEAN] : S \in SUBSET Wallet} /\ DOMAIN inApp = {}
  BY EmptyType DEF Init
<1>3. TypeOK
  <2>1. usedInApp \in 0 .. Cardinality(Wallet) /\ usedExternal \in 0 .. Cardinality(Wallet)
    BY <1>1 DEF Init
  <2>2. todo \subseteq DOMAIN inApp /\ addr \in Wallet \cup {NoWallet}
    BY DEF Init
  <2> QED
    BY <1>2, <2>1, <2>2 DEF Init, TypeOK
<1> QED
  BY <1>3 DEF Init, Inv, History, Phases, MapInv, LoopInv, Counted, Looping, Contract

\* A request arrives: nothing is counted, and the history starts with the chain as it is.
LEMMA AskInv ==
    ASSUME Inv, Ask
    PROVE  Inv'
<1>0. /\ accounts' = accounts /\ holders' = holders /\ inApp' = Empty /\ todo' = {}
      /\ addr' = NoWallet /\ usedInApp' = 0 /\ usedExternal' = 0
      /\ always' = holders /\ ever' = holders
      /\ \/ pc' = "idle" /\ status' = 400
         \/ pc' = "query" /\ status' = 0
  BY DEF Ask, Answer
<1>1. Cardinality(Wallet) \in Nat
  BY FS_CardinalityType, CheckAssumption DEF CheckAssumption
<1>2. inApp' \in UNION {[S -> BOOLEAN] : S \in SUBSET Wallet} /\ DOMAIN inApp' = {}
  BY <1>0, EmptyType
<1>3. TypeOK'
  <2>1. /\ accounts' \in UNION {[S -> Accounts] : S \in SUBSET User}
        /\ holders' \in [Contract -> SUBSET Wallet]
        /\ always' \in [Contract -> SUBSET Wallet] /\ ever' \in [Contract -> SUBSET Wallet]
    BY <1>0 DEF Inv, TypeOK
  <2>2. /\ pc' \in {"idle", "query", "dial", "next"} \cup Contract
        /\ status' \in {0, 200, 400, 500} /\ addr' \in Wallet \cup {NoWallet}
    BY <1>0
  <2> QED
    BY <1>0, <1>1, <1>2, <2>1, <2>2 DEF TypeOK
<1> QED
  BY <1>0, <1>3 DEF Inv, History, Phases, MapInv, LoopInv, Counted, Looping, Contract

\* The query of the accounts keeps the invariant: the map is filled from its rows.
LEMMA QueryInv ==
    ASSUME Inv, Query
    PROVE  Inv'
<1>0. /\ pc = "query"
      /\ UNCHANGED <<accounts, holders, todo, addr, usedInApp, usedExternal, always, ever>>
      /\ \/ inApp' = AddrsInAppStatus(Confirmed) /\ pc' = "dial" /\ status' = status
         \/ pc' = "idle" /\ status' = 500 /\ inApp' = inApp
  BY DEF Query, Answer
<1>1. Confirmed' = Confirmed /\ AddrsInAppStatus(Confirmed)' = AddrsInAppStatus(Confirmed)
  BY <1>0 DEF Confirmed, AddrsInAppStatus
<1>2. AddrsInAppStatus(Confirmed) \in UNION {[S -> BOOLEAN] : S \in SUBSET Wallet}
  <2> DEFINE W == {accounts[u].ethereum_address : u \in Confirmed} \cap Wallet
  <2>1. AddrsInAppStatus(Confirmed) \in [W -> BOOLEAN]
    BY DEF AddrsInAppStatus
  <2> QED
    BY <2>1
<1>3. status = 0 /\ todo = {} /\ usedInApp = 0 /\ usedExternal = 0
  BY <1>0 DEF Inv, Phases
<1>4. TypeOK'
  BY <1>0, <1>2, <1>3 DEF Inv, TypeOK
<1> QED
  BY <1>0, <1>1, <1>3, <1>4
  DEF Inv, History, Phases, MapInv, LoopInv, Counted, Looping, Contract

\* What is derived from the accounts changes with the accounts alone.
LEMMA SameAccounts ==
    ASSUME UNCHANGED accounts
    PROVE  /\ Confirmed' = Confirmed /\ Wallets' = Wallets /\ InAppWallets' = InAppWallets
           /\ AddrsInAppStatus(Confirmed)' = AddrsInAppStatus(Confirmed)
  BY DEF Confirmed, Wallets, InAppWallets, AddrsInAppStatus

\* Connecting keeps the invariant: the loop starts with no address finished.
LEMMA DialInv ==
    ASSUME Inv, Dial
    PROVE  Inv'
<1>0. /\ pc = "dial"
      /\ UNCHANGED <<accounts, holders, inApp, addr, usedInApp, usedExternal, always, ever>>
      /\ \/ pc' = "next" /\ todo' = DOMAIN inApp /\ status' = status
         \/ pc' = "idle" /\ status' = 500 /\ todo' = todo
  BY DEF Dial, Answer
<1>1. status = 0 /\ usedInApp = 0 /\ usedExternal = 0
  BY <1>0 DEF Inv, Phases
<1>2. TypeOK'
  BY <1>0, <1>1 DEF Inv, TypeOK
<1>3. Phases' /\ History'
  BY <1>0, <1>1 DEF Inv, History, Phases
<1>4. MapInv'
  BY <1>0, <1>1, SameAccounts DEF Inv, MapInv
<1>5. LoopInv'
  BY <1>0, <1>1 DEF LoopInv, Contract
<1>6. Counted'
  <2>1. CASE pc' = "next"
    <3>1. Seen' = {}
      BY <1>0, <2>1 DEF Seen, Contract
    <3>2. /\ InAppSeen(always, Seen)' = {} /\ InAppSeen(ever, Seen)' = {}
          /\ ExternalSeen(always, Seen)' = {} /\ ExternalSeen(ever, Seen)' = {}
      BY <3>1 DEF InAppSeen, ExternalSeen
    <3> QED
      BY <1>0, <1>1, <3>2, FS_EmptySet DEF Counted, Between
  <2>2. CASE pc' # "next"
    BY <1>0, <2>2 DEF Counted, Looping, Contract
  <2> QED
    BY <2>1, <2>2
<1> QED
  BY <1>2, <1>3, <1>4, <1>5, <1>6 DEF Inv

\* Picking the next address keeps the invariant; with none left, all are finished.
LEMMA NextAddressInv ==
    ASSUME Inv, NextAddress
    PROVE  Inv'
<1>0. /\ pc = "next"
      /\ UNCHANGED <<accounts, holders, inApp, usedInApp, usedExternal, always, ever>>
      /\ \/ addr' \in todo /\ todo' = todo \ {addr'} /\ pc' = "vehicle" /\ status' = status
         \/ todo = {} /\ pc' = "idle" /\ status' = 200 /\ addr' = addr /\ todo' = todo
  BY DEF NextAddress, Answer
<1>1. status = 0
  BY <1>0 DEF Inv, Phases
<1>2. TypeOK'
  <2>1. todo \subseteq Wallet
    BY DEF Inv, TypeOK
  <2> QED
    BY <1>0, <1>1, <2>1 DEF Inv, TypeOK, Contract
<1>3. Phases' /\ History'
  BY <1>0, <1>1 DEF Inv, History, Phases
<1>4. MapInv'
  BY <1>0, <1>1, SameAccounts DEF Inv, MapInv, Looping
<1>5. LoopInv'
  BY <1>0, <1>1 DEF Inv, TypeOK, LoopInv, Contract
<1>6. Counted'
  <2>1. Seen' = Seen
    BY <1>0 DEF Seen, Contract
  <2>2. /\ InAppSeen(always, Seen)' = InAppSeen(always, Seen)
        /\ InAppSeen(ever, Seen)' = InAppSeen(ever, Seen)
        /\ ExternalSeen(always, Seen)' = ExternalSeen(always, Seen)
        /\ ExternalSeen(ever, Seen)' = ExternalSeen(ever, Seen)
    BY <1>0, <2>1, SameAccounts
    DEF InAppSeen, ExternalSeen, InAppInUse, ExternalInUse
  <2> QED
    BY <1>0, <2>2 DEF Inv, Counted, Looping, Between
<1> QED
  BY <1>2, <1>3, <1>4, <1>5, <1>6 DEF Inv

\* A new block keeps the invariant: always can only shrink and ever only grow.
LEMMA BlockInv ==
    ASSUME Inv, NEW c \in Contract, NEW S \in SUBSET Wallet, Block(c, S)
    PROVE  Inv'
<1>0. /\ pc # "idle"
      /\ holders' = [holders EXCEPT ![c] = S]
      /\ always' = [always EXCEPT ![c] = always[c] \cap S]
      /\ ever' = [ever EXCEPT ![c] = ever[c] \cup S]
      /\ UNCHANGED <<accounts, pc, inApp, todo, addr, usedInApp, usedExternal, status>>
  BY DEF Block
<1>1. status = 0
  BY <1>0 DEF Inv, Phases
<1>2. /\ holders' \in [Contract -> SUBSET Wallet]
      /\ always' \in [Contract -> SUBSET Wallet]
      /\ ever' \in [Contract -> SUBSET Wallet]
  BY <1>0 DEF Inv, TypeOK
<1>3. TypeOK'
  BY <1>0, <1>2 DEF Inv, TypeOK
<1>4. \A d \in Contract : always'[d] \subseteq always[d] /\ ever[d] \subseteq ever'[d]
  BY <1>0 DEF Inv, TypeOK
<1>5. Phases'
  BY <1>0 DEF Inv, Phases
<1>6. History'
  BY <1>0 DEF Inv, TypeOK, History
<1>7. MapInv'
  BY <1>0, SameAccounts DEF Inv, MapInv, Looping
<1>8. LoopInv'
  BY <1>0, <1>4 DEF Inv, LoopInv, Contract
<1>9. Counted'
  <2>1. Seen' = Seen
    BY <1>0 DEF Seen
  <2>2. /\ InAppSeen(always, Seen)' \subseteq InAppSeen(always, Seen)
        /\ InAppSeen(ever, Seen) \subseteq InAppSeen(ever, Seen)'
        /\ ExternalSeen(always, Seen)' \subseteq ExternalSeen(always, Seen)
        /\ ExternalSeen(ever, Seen) \subseteq ExternalSeen(ever, Seen)'
    BY <1>0, <1>4, <2>1, SameAccounts
    DEF InAppSeen, ExternalSeen, InAppInUse, ExternalInUse, Contract
  <2>3. /\ InAppSeen(always, Seen)' \in SUBSET Wallet
        /\ InAppSeen(ever, Seen)' \in SUBSET Wallet
        /\ ExternalSeen(always, Seen)' \in SUBSET Wallet
        /\ ExternalSeen(ever, Seen)' \in SUBSET Wallet
    BY DEF InAppSeen, ExternalSeen, InAppInUse, ExternalInUse, InAppWallets, Wallets
  <2>4. usedInApp \in Nat /\ usedExternal \in Nat
    BY DEF Inv, TypeOK
  <2>5. CASE Looping
    <3>1. /\ Between(usedInApp, InAppSeen(always, Seen), InAppSeen(ever, Seen))
          /\ Between(usedExternal, ExternalSeen(always, Seen), ExternalSeen(ever, Seen))
      BY <2>5 DEF Inv, Counted
    <3>2. /\ Between(usedInApp, InAppSeen(always, Seen)', InAppSeen(ever, Seen)')
          /\ Between(usedExternal, ExternalSeen(always, Seen)', ExternalSeen(ever, Seen)')
      BY <2>2, <2>3, <2>4, <3>1, SeenType, BetweenRelax
    <3> QED
      BY <1>0, <3>2 DEF Counted, Between
  <2>6. CASE ~Looping
    BY <1>0, <1>1, <2>6 DEF Counted, Looping
  <2> QED
    BY <2>5, <2>6
<1> QED
  BY <1>3, <1>5, <1>6, <1>7, <1>8, <1>9 DEF Inv

\* The three outcomes of a balance: counted and done; zero, and on to the next
\* contract or address; an error.  In the first two, an address the loop leaves is
\* one it has finished with.
LEMMA BalanceOfInv ==
    ASSUME Inv, NEW c \in Contract, BalanceOf(c)
    PROVE  Inv'
<1>0. pc = c /\ UNCHANGED <<accounts, holders, inApp, todo, addr, always, ever>>
  BY DEF BalanceOf
<1>1. status = 0 /\ Looping
  BY <1>0 DEF Inv, Phases, Looping, Contract
<1>2. /\ inApp = AddrsInAppStatus(Confirmed)
      /\ Wallets = DOMAIN inApp /\ InAppWallets = {a \in DOMAIN inApp : inApp[a]}
      /\ \A a \in DOMAIN inApp : inApp[a] \in BOOLEAN
  BY <1>1, MapSides DEF Inv, MapInv
<1>3. addr \in DOMAIN inApp /\ addr \notin todo /\ addr \in Wallet
  BY <1>0 DEF Inv, TypeOK, LoopInv
<1>4. usedInApp \in Nat /\ usedExternal \in Nat
  BY DEF Inv, TypeOK
<1>5. /\ Between(usedInApp, InAppSeen(always, Seen), InAppSeen(ever, Seen))
      /\ Between(usedExternal, ExternalSeen(always, Seen), ExternalSeen(ever, Seen))
  BY <1>1 DEF Inv, Counted
<1>6. Seen = DOMAIN inApp \ (todo \cup {addr})
  BY <1>0 DEF Seen
<1>7. History' /\ (inApp' = AddrsInAppStatus(Confirmed)')
  BY <1>0, <1>2, SameAccounts DEF Inv, History
<1>8. MapInv'
  BY <1>7 DEF MapInv
<1> DEFINE V == Seen \cup {addr}
<1>9. ASSUME pc' = "next"
      PROVE  Seen' = V
  BY <1>0, <1>3, <1>6, <1>9 DEF Seen, Contract
<1>10. /\ addr \notin InAppSeen(always, Seen) /\ addr \notin InAppSeen(ever, Seen)
       /\ addr \notin ExternalSeen(always, Seen) /\ addr \notin ExternalSeen(ever, Seen)
  BY <1>6 DEF InAppSeen, ExternalSeen
<1>11. /\ InAppSeen(always, V) \subseteq InAppSeen(always, Seen) \cup {addr}
       /\ InAppSeen(ever, Seen) \subseteq InAppSeen(ever, V)
       /\ ExternalSeen(always, V) \subseteq ExternalSeen(always, Seen) \cup {addr}
       /\ ExternalSeen(ever, Seen) \subseteq ExternalSeen(ever, V)
  BY DEF InAppSeen, ExternalSeen
<1>a. /\ InAppSeen(always, V) \in SUBSET Wallet /\ InAppSeen(ever, V) \in SUBSET Wallet
      /\ InAppSeen(always, Seen) \in SUBSET Wallet /\ InAppSeen(ever, Seen) \in SUBSET Wallet
  BY SeenType
<1>b. /\ ExternalSeen(always, V) \in SUBSET Wallet
      /\ ExternalSeen(ever, V) \in SUBSET Wallet
      /\ ExternalSeen(always, Seen) \in SUBSET Wallet
      /\ ExternalSeen(ever, Seen) \in SUBSET Wallet
  BY SeenType
\* An address that is not counted leaves the count right.
<1>c. ASSUME InAppSeen(always, V) \subseteq InAppSeen(always, Seen)
      PROVE  Between(usedInApp, InAppSeen(always, V), InAppSeen(ever, V))
  BY <1>4, <1>5, <1>11, <1>a, <1>c, BetweenRelax
<1>d. ASSUME ExternalSeen(always, V) \subseteq ExternalSeen(always, Seen)
      PROVE  Between(usedExternal, ExternalSeen(always, V), ExternalSeen(ever, V))
  BY <1>4, <1>5, <1>11, <1>b, <1>d, BetweenRelax
\* The invariant after a step that leaves the address, from the counts.
<1>12. ASSUME pc' = "next", status' = status, usedInApp' \in Nat, usedExternal' \in Nat,
              Between(usedInApp', InAppSeen(always, V), InAppSeen(ever, V)),
              Between(usedExternal', ExternalSeen(always, V), ExternalSeen(ever, V))
       PROVE  Inv'
  <2>1. usedInApp' \in 0 .. Cardinality(Wallet) /\ usedExternal' \in 0 .. Cardinality(Wallet)
    BY <1>12, SeenType, BetweenType
  <2>2. TypeOK'
    BY <1>0, <1>12, <2>1 DEF Inv, TypeOK
  <2>3. Phases' /\ LoopInv'
    BY <1>1, <1>12 DEF Phases, LoopInv, Contract
  <2>4. /\ InAppSeen(always, Seen)' = InAppSeen(always, V)
        /\ InAppSeen(ever, Seen)' = InAppSeen(ever, V)
        /\ ExternalSeen(always, Seen)' = ExternalSeen(always, V)
        /\ ExternalSeen(ever, Seen)' = ExternalSeen(ever, V)
    <3>1. Seen' = V
      BY <1>9, <1>12
    <3> QED
      BY <1>0, <3>1, SameAccounts
      DEF InAppSeen, ExternalSeen, InAppInUse, ExternalInUse
  <2>5. Counted'
    BY <1>12, <2>4 DEF Counted, Between
  <2> QED
    BY <1>7, <1>8, <2>2, <2>3, <2>5 DEF Inv
<1>13. CASE /\ addr \in holders[c] /\ pc' = "next" /\ status' = status
            /\ usedInApp' = usedInApp + IF inApp[addr] THEN 1 ELSE 0
            /\ usedExternal' = usedExternal + IF inApp[addr] THEN 0 ELSE 1
  <2>0. addr \in ever[c]
    BY <1>13 DEF Inv, History
  <2>1. CASE inApp[addr]
    <3>1. usedInApp' = usedInApp + 1 /\ usedExternal' = usedExternal
      BY <1>4, <1>13, <2>1
    <3>2. addr \in InAppSeen(ever, V)
      BY <1>2, <1>3, <2>0, <2>1 DEF InAppSeen, InAppInUse, Contract
    <3>3. Between(usedInApp + 1, InAppSeen(always, V), InAppSeen(ever, V))
      BY <1>3, <1>4, <1>5, <1>10, <1>11, <3>2, SeenType, BetweenCount
    <3>4. ExternalSeen(always, V) \subseteq ExternalSeen(always, Seen)
      BY <1>2, <1>3, <2>1 DEF ExternalSeen, ExternalInUse
    <3>5. Between(usedExternal, ExternalSeen(always, V), ExternalSeen(ever, V))
      BY <1>d, <3>4
    <3> QED
      BY <1>4, <1>12, <1>13, <3>1, <3>3, <3>5
  <2>2. CASE ~inApp[addr]
    <3>1. usedInApp' = usedInApp /\ usedExternal' = usedExternal + 1
      BY <1>4, <1>13, <2>2
    <3>2. addr \in ExternalSeen(ever, V)
      <4>1. c \in {"vehicle", "aftermarket"}
        BY <1>0, <2>2 DEF Inv, LoopInv, Contract
      <4> QED
        BY <1>2, <1>3, <2>0, <2>2, <4>1 DEF ExternalSeen, ExternalInUse
    <3>3. Between(usedExternal + 1, ExternalSeen(always, V), ExternalSeen(ever, V))
      BY <1>3, <1>4, <1>5, <1>10, <1>11, <3>2, SeenType, BetweenCount
    <3>4. InAppSeen(always, V) \subseteq InAppSeen(always, Seen)
      BY <1>2, <1>3, <2>2 DEF InAppSeen, InAppInUse
    <3>5. Between(usedInApp, InAppSeen(always, V), InAppSeen(ever, V))
      BY <1>c, <3>4
    <3> QED
      BY <1>4, <1>12, <1>13, <3>1, <3>3, <3>5
  <2> QED
    BY <2>1, <2>2
<1>14. CASE /\ addr \notin holders[c] /\ pc' = AfterZero(c)
            /\ UNCHANGED <<usedInApp, usedExternal, status>>
  <2>0. addr \notin always[c]
    BY <1>14 DEF Inv, History
  <2>1. CASE pc' = "next"
    <3>1. /\ c \in {"aftermarket", "token"}
          /\ c = "aftermarket" => ~inApp[addr]
      BY <1>14, <2>1 DEF AfterZero, Contract
    <3>2. /\ addr \notin always["vehicle"] /\ addr \notin always["aftermarket"]
          /\ inApp[addr] => addr \notin always["token"]
      BY <1>0, <2>0, <3>1 DEF Inv, LoopInv
    <3>3. /\ InAppSeen(always, V) \subseteq InAppSeen(always, Seen)
          /\ ExternalSeen(always, V) \subseteq ExternalSeen(always, Seen)
      BY <1>2, <1>3, <3>2 DEF InAppSeen, InAppInUse, ExternalSeen, ExternalInUse
    <3>4. /\ Between(usedInApp, InAppSeen(always, V), InAppSeen(ever, V))
          /\ Between(usedExternal, ExternalSeen(always, V), ExternalSeen(ever, V))
      BY <1>c, <1>d, <3>3
    <3> QED
      BY <1>4, <1>12, <1>14, <2>1, <3>4
  <2>2. CASE pc' # "next"
    <3>1. \/ c = "vehicle" /\ pc' = "aftermarket"
          \/ c = "aftermarket" /\ pc' = "token" /\ inApp[addr]
      BY <1>14, <2>2 DEF AfterZero, Contract
    <3>2. TypeOK'
      BY <1>0, <1>14, <3>1 DEF Inv, TypeOK, Contract
    <3>3. Phases'
      BY <1>0, <1>1, <1>14, <3>1 DEF Phases
    <3>4. LoopInv'
      BY <1>0, <1>1, <1>3, <1>14, <2>0, <3>1 DEF Inv, LoopInv, Contract
    <3>5. Seen' = Seen
      BY <1>0, <3>1 DEF Seen, Contract
    <3>6. /\ InAppSeen(always, Seen)' = InAppSeen(always, Seen)
          /\ InAppSeen(ever, Seen)' = InAppSeen(ever, Seen)
          /\ ExternalSeen(always, Seen)' = ExternalSeen(always, Seen)
          /\ ExternalSeen(ever, Seen)' = ExternalSeen(ever, Seen)
      BY <1>0, <3>5, SameAccounts DEF InAppSeen, ExternalSeen, InAppInUse, ExternalInUse
    <3>7. Counted'
      BY <1>5, <1>14, <3>6 DEF Counted, Between
    <3> QED
      BY <1>7, <1>8, <3>2, <3>3, <3>4, <3>7 DEF Inv
  <2> QED
    BY <2>1, <2>2
<1>15. CASE pc' = "idle" /\ status' = 500 /\ UNCHANGED <<usedInApp, usedExternal>>
  <2>1. TypeOK'
    BY <1>0, <1>15 DEF Inv, TypeOK
  <2>2. Phases' /\ LoopInv'
    BY <1>0, <1>15 DEF Phases, LoopInv, Contract
  <2>3. Counted'
    BY <1>15 DEF Counted, Looping, Contract
  <2> QED
    BY <1>7, <1>8, <2>1, <2>2, <2>3 DEF Inv
<1> QED
  BY <1>13, <1>14, <1>15 DEF BalanceOf, Answer

\* Every step keeps the invariant.
LEMMA NextInv == Inv /\ [Next]_vars => Inv'
<1> SUFFICES ASSUME Inv, [Next]_vars PROVE Inv'
  OBVIOUS
<1>1. CASE UNCHANGED vars
  <2>1. Seen' = Seen
    BY <1>1 DEF vars, Seen
  <2>2. /\ InAppSeen(always, Seen)' = InAppSeen(always, Seen)
        /\ InAppSeen(ever, Seen)' = InAppSeen(ever, Seen)
        /\ ExternalSeen(always, Seen)' = ExternalSeen(always, Seen)
        /\ ExternalSeen(ever, Seen)' = ExternalSeen(ever, Seen)
    BY <1>1, <2>1, SameAccounts
    DEF vars, InAppSeen, ExternalSeen, InAppInUse, ExternalInUse
  <2>3. Counted'
    BY <1>1, <2>2 DEF vars, Inv, Counted, Looping, Between
  <2>4. TypeOK' /\ History' /\ Phases' /\ LoopInv'
    BY <1>1 DEF vars, Inv, TypeOK, History, Phases, LoopInv
  <2>5. MapInv'
    BY <1>1, SameAccounts DEF vars, Inv, MapInv, Looping
  <2> QED
    BY <2>3, <2>4, <2>5 DEF Inv
<1> QED
  BY <1>1, AskInv, QueryInv, DialInv, NextAddressInv, BalanceOfInv, BlockInv DEF Next

\* The inductive invariant holds in every reachable state of check-email.
THEOREM Invariance == Spec => []Inv
  BY InitInv, NextInv, PTL DEF Spec

-----------------------------------------------------------------------------
(* Theorems.                                                               *)

\* Every variable of the handler keeps its type; in particular, neither count
\* exceeds the number of wallets there are.
THEOREM TypesHold == Spec => []TypeOK
<1>1. Inv => TypeOK
  BY DEF Inv
<1> QED
  BY <1>1, Invariance, PTL

\* The answer of check-email counts each wallet of the email once and on its
\* side: all that hold assets throughout the request, and none that never does.
THEOREM CountsAreExact == Spec => []CountsExact
<1>1. Inv => CountsExact
  <2> SUFFICES ASSUME Inv, status = 200 PROVE CountsExact
    BY DEF CountsExact
  <2>1. pc = "idle" /\ todo = {} /\ inApp = AddrsInAppStatus(Confirmed)
    BY DEF Inv, Phases, LoopInv, MapInv
  <2>2. Seen = Wallets
    BY <2>1, MapSides DEF Seen, Contract
  <2>3. /\ InAppSeen(always, Seen) = InAppInUse(always)
        /\ InAppSeen(ever, Seen) = InAppInUse(ever)
        /\ ExternalSeen(always, Seen) = ExternalInUse(always)
        /\ ExternalSeen(ever, Seen) = ExternalInUse(ever)
    BY <2>2 DEF InAppSeen, ExternalSeen, InAppInUse, ExternalInUse, InAppWallets
  <2> QED
    BY <2>3 DEF Inv, Counted, CountsExact
<1> QED
  BY <1>1, Invariance, PTL
=============================================================================
