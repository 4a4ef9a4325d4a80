------------------------- MODULE EventIteratorProofs ------------------------
(***************************************************************************)
(* Proofs about EventIterator, for every event of the bindings, any chain  *)
(* and any capacity of the channel: Close releases the goroutine, and the  *)
(* iterator delivers what LogDelivery promises.  What Among selects is     *)
(* shown by induction on the length; the principle is LeastNatural, stated *)
(* for sets of numbers.                                                    *)
(***************************************************************************)
EXTENDS EventIterator, WellFoundedInduction, TLAPS

Matching == {l \in Logged : Matches(event, Query(event, args), l)}
WantedLogs == {l \in Logged : Wanted(event, args, l)}

\* The logs the node returns for the query.
Matched == Among(chain, Matching)

-----------------------------------------------------------------------------
(* The inductive invariant.                                                *)

DeliveredType == delivered \in Seq({Unpack(event, l) : l \in Logs(event)})

\* Before the iterator exists.
Fresh ==
    pc \in {"new", "refused"} =>
        /\ found = <<>> /\ logs = <<>> /\ delivered = <<>>
        /\ ~running /\ ~unsubscribed /\ ~done /\ ~fail /\ ~cut /\ last = "none"

\* What the flags tell of each other, and of the logs left.  The last conjunct is
\* why false and a nil error mean that nothing is missing: unless Close cut it
\* short, the goroutine has ended with everything in the channel.
Flags ==
    /\ ~running /\ pc \notin {"new", "refused"} => unsubscribed
    /\ done => ~running
    /\ fail => last = "false"
    /\ last = "false" => fail \/ (done /\ logs = <<>>)
    /\ unsubscribed /\ ~cut /\ ~fail => found = <<>>

\* The matching logs are, in this order: those delivered, those in the channel and
\* those the goroutine still has.
Flow ==
    pc \notin {"new", "refused"} /\ ~fail =>
        LET f == Len(delivered) + Len(logs)
        IN  /\ f + Len(found) = Len(Matched)
            /\ \A i \in 1 .. Len(delivered) : /\ Matched[i] \in WantedLogs
                                              /\ delivered[i] = Unpack(event, Matched[i])
            /\ \A i \in 1 .. Len(logs) : logs[i] = Matched[Len(delivered) + i]
            /\ \A i \in 1 .. Len(found) : found[i] = Matched[f + i]

Inv == TypeOK /\ DeliveredType /\ Fresh /\ Flags /\ ClosedReleases /\ Flow

-----------------------------------------------------------------------------
(* Numbers.                                                                *)

\* Every non-empty set of numbers has a least element.
LEMMA LeastNatural ==
    ASSUME NEW T \in SUBSET Nat, T # {}
    PROVE  \E n \in T : \A m \in T : n =< m
<1>1. PICK n \in T : \A m \in T : ~(<<m, n>> \in OpToRel(<, Nat))
  BY NatLessThanWellFounded, WFMin, Zenon
<1>2. \A m \in T : ~(m < n)
  BY <1>1 DEF OpToRel
<1> QED
  BY <1>2

\* Induction for sets of numbers.
LEMMA SetInduction ==
    ASSUME NEW T \in SUBSET Nat, 0 \in T, \A n \in T : n + 1 \in T
    PROVE  T = Nat
<1> SUFFICES ASSUME Nat \ T # {} PROVE FALSE
  OBVIOUS
<1>1. PICK n \in Nat \ T : \A m \in Nat \ T : n =< m
  BY LeastNatural
<1>2. n # 0 /\ n - 1 \in Nat
  BY <1>1
<1>3. n - 1 \in T
  BY <1>1, <1>2
<1> QED
  BY <1>1, <1>2, <1>3

-----------------------------------------------------------------------------
(* Among.                                                                  *)

\* The recursive function in Among.
Selects(s, S, f) ==
    f = [n \in Nat |-> IF n = 0 THEN <<>>
                       ELSE IF s[n] \in S THEN Append(f[n - 1], s[n]) ELSE f[n - 1]]
Selection(s, S) == CHOOSE f : Selects(s, S, f)

\* A function that follows the equation as far as k.
SelectsTo(s, S, g, k) ==
    /\ g[0] = <<>>
    /\ \A n \in 1 .. k : g[n] = IF s[n] \in S THEN Append(g[n - 1], s[n]) ELSE g[n - 1]

\* Two functions that select step by step are equal as far as both go.
LEMMA SelectsToUnique ==
    ASSUME NEW s, NEW S, NEW g, NEW h, NEW j \in Nat, NEW k \in Nat,
           SelectsTo(s, S, g, j), SelectsTo(s, S, h, k)
    PROVE  \A n \in Nat : n =< j /\ n =< k => g[n] = h[n]
<1> DEFINE T == {n \in Nat : n =< j /\ n =< k => g[n] = h[n]}
<1>1. 0 \in T
  BY DEF SelectsTo
<1>2. ASSUME NEW n \in T PROVE n + 1 \in T
  <2> SUFFICES ASSUME n + 1 =< j, n + 1 =< k PROVE g[n + 1] = h[n + 1]
    OBVIOUS
  <2>1. g[n] = h[n] /\ n + 1 \in 1 .. j /\ n + 1 \in 1 .. k /\ (n + 1) - 1 = n
    OBVIOUS
  <2> QED
    BY <2>1 DEF SelectsTo
<1>3. T = Nat
  <2> HIDE DEF T
  <2>1. T \in SUBSET Nat
    BY DEF T
  <2> QED
    BY <1>1, <1>2, <2>1, SetInduction
<1> QED
  BY <1>3

\* For every length there is a function that selects step by step.
LEMMA SelectsToExists ==
    ASSUME NEW s, NEW S, NEW k \in Nat
    PROVE  \E g : SelectsTo(s, S, g, k)
<1> DEFINE T == {n \in Nat : \E g : SelectsTo(s, S, g, n)}
<1>1. 0 \in T
  <2>1. SelectsTo(s, S, [n \in {0} |-> <<>>], 0)
    BY DEF SelectsTo
  <2> QED
    BY <2>1
<1>2. ASSUME NEW n \in T PROVE n + 1 \in T
  <2>1. PICK g : SelectsTo(s, S, g, n)
    OBVIOUS
  <2> DEFINE newest == IF s[n + 1] \in S THEN Append(g[n], s[n + 1]) ELSE g[n]
             h == [m \in 0 .. (n + 1) |-> IF m = n + 1 THEN newest ELSE g[m]]
  <2>2. \A m \in 0 .. n : h[m] = g[m]
    OBVIOUS
  <2>3. h[n + 1] = newest
    OBVIOUS
  <2> HIDE DEF h
  <2>4. h[0] = <<>>
    BY <2>1, <2>2 DEF SelectsTo
  <2>5. ASSUME NEW m \in 1 .. (n + 1)
        PROVE  h[m] = IF s[m] \in S THEN Append(h[m - 1], s[m]) ELSE h[m - 1]
    <3>1. h[m - 1] = g[m - 1]
      BY <2>2
    <3>2. CASE m = n + 1
      BY <2>3, <3>1, <3>2
    <3>3. CASE m # n + 1
      BY <2>1, <2>2, <3>1, <3>3 DEF SelectsTo
    <3> QED
      BY <3>2, <3>3
  <2>6. SelectsTo(s, S, h, n + 1)
    BY <2>4, <2>5 DEF SelectsTo
  <2> QED
    BY <2>6
<1>3. T = Nat
  <2> HIDE DEF T
  <2>1. T \in SUBSET Nat
    BY DEF T
  <2> QED
    BY <1>1, <1>2, <2>1, SetInduction
<1> QED
  BY <1>3

\* The recursive function exists, so its equation holds of it.
LEMMA SelectionSelects ==
    ASSUME NEW s, NEW S
    PROVE  /\ Selection(s, S)[0] = <<>>
           /\ \A n \in Nat \ {0} : Selection(s, S)[n] =
                  IF s[n] \in S THEN Append(Selection(s, S)[n - 1], s[n])
                  ELSE Selection(s, S)[n - 1]
<1> DEFINE G(k) == CHOOSE g : SelectsTo(s, S, g, k)
           f == [n \in Nat |-> G(n)[n]]
<1>1. \A k \in Nat : SelectsTo(s, S, G(k), k)
  BY SelectsToExists
<1> HIDE DEF G
<1>2. f[0] = <<>>
  BY <1>1 DEF SelectsTo
<1>3. ASSUME NEW n \in Nat \ {0}
      PROVE  f[n] = IF s[n] \in S THEN Append(f[n - 1], s[n]) ELSE f[n - 1]
  <2>1. n - 1 \in Nat /\ n \in 1 .. n
    OBVIOUS
  <2>2. G(n)[n - 1] = G(n - 1)[n - 1]
    BY <1>1, <2>1, SelectsToUnique
  <2> QED
    BY <1>1, <2>1, <2>2 DEF SelectsTo
<1>4. Selects(s, S, f)
  BY <1>2, <1>3 DEF Selects
<1>5. Selects(s, S, Selection(s, S))
  BY <1>4 DEF Selection
<1> HIDE DEF f
<1> QED
  BY <1>5 DEF Selects

\* Among is the selection at the length of the sequence.
LEMMA AmongSelection ==
    ASSUME NEW s, NEW S
    PROVE  Among(s, S) = Selection(s, S)[Len(s)]
  BY DEF Among, Selection, Selects

\* Among gives a sequence of members of S.
LEMMA AmongType ==
    ASSUME NEW L, NEW s \in Seq(L), NEW S
    PROVE  Among(s, S) \in Seq(S)
<1> DEFINE F == Selection(s, S)
           T == {n \in Nat : F[n] \in Seq(S)}
<1> HIDE DEF F
<1>1. 0 \in T
  <2>1. F[0] = <<>>
    BY SelectionSelects DEF F
  <2>2. F[0] \in Seq(S)
    BY <2>1
  <2> QED
    BY <2>2
<1>2. ASSUME NEW n \in T PROVE n + 1 \in T
  <2>1. F[n + 1] = IF s[n + 1] \in S THEN Append(F[n], s[n + 1]) ELSE F[n]
    <3>1. n + 1 \in Nat \ {0} /\ (n + 1) - 1 = n
      OBVIOUS
    <3> QED
      BY <3>1, SelectionSelects DEF F
  <2>2. F[n + 1] \in Seq(S)
    BY <2>1
  <2> QED
    BY <2>2
<1>3. T = Nat
  <2> HIDE DEF T
  <2>1. T \in SUBSET Nat
    BY DEF T
  <2> QED
    BY <1>1, <1>2, <2>1, SetInduction
<1> QED
  BY <1>3, AmongSelection DEF F

\* What the selections m by M and w by a subset W of it have in common: as long as
\* the members of m are in W, they are those of w.
Agree(m, w, W) ==
    /\ Len(w) =< Len(m)
    /\ \A k \in 0 .. Len(m) : (\A i \in 1 .. k : m[i] \in W) =>
           k =< Len(w) /\ \A i \in 1 .. k : w[i] = m[i]

\* One log more for the first selection, and for the second if it is in W.
LEMMA AgreeAppend ==
    ASSUME NEW M, NEW W \in SUBSET M, NEW m \in Seq(M), NEW w \in Seq(W), Agree(m, w, W),
           NEW x \in M
    PROVE  /\ x \in W => Agree(Append(m, x), Append(w, x), W)
           /\ x \notin W => Agree(Append(m, x), w, W)
<1> DEFINE n == Append(m, x)
<1>1. Len(n) = Len(m) + 1 /\ n[Len(m) + 1] = x /\ \A i \in 1 .. Len(m) : n[i] = m[i]
  OBVIOUS
<1>2. Len(m) \in Nat /\ Len(w) \in Nat /\ Len(w) =< Len(m)
  BY DEF Agree
<1> HIDE DEF n
<1>3. ASSUME x \notin W PROVE Agree(n, w, W)
  <2> SUFFICES ASSUME NEW k \in 0 .. Len(n), \A i \in 1 .. k : n[i] \in W
               PROVE  k =< Len(w) /\ \A i \in 1 .. k : w[i] = n[i]
    BY <1>1, <1>2 DEF Agree
  <2>1. k \in 0 .. Len(m)
    BY <1>1, <1>2, <1>3
  <2>2. \A i \in 1 .. k : n[i] = m[i]
    BY <1>1, <1>2, <2>1
  <2> QED
    BY <2>1, <2>2 DEF Agree
<1>4. ASSUME x \in W PROVE Agree(n, Append(w, x), W)
  <2> DEFINE v == Append(w, x)
  <2>1. Len(v) = Len(w) + 1 /\ v[Len(w) + 1] = x /\ \A i \in 1 .. Len(w) : v[i] = w[i]
    OBVIOUS
  <2> HIDE DEF v
  <2> SUFFICES ASSUME NEW k \in 0 .. Len(n), \A i \in 1 .. k : n[i] \in W
               PROVE  k =< Len(v) /\ \A i \in 1 .. k : v[i] = n[i]
    BY <1>1, <1>2, <2>1 DEF Agree, v
  <2>2. CASE k =< Len(m)
    <3>1. \A i \in 1 .. k : n[i] = m[i]
      BY <1>1, <1>2, <2>2
    <3>2. k \in 0 .. Len(m)
      BY <1>1, <1>2, <2>2
    <3>3. k =< Len(w) /\ \A i \in 1 .. k : w[i] = m[i]
      BY <3>1, <3>2 DEF Agree
    <3> QED
      BY <1>2, <2>1, <3>1, <3>3
  <2>3. CASE k = Len(m) + 1
    <3>1. \A i \in 1 .. Len(m) : n[i] = m[i] /\ m[i] \in W
      BY <1>1, <1>2, <2>3
    <3>2. Len(m) =< Len(w) /\ \A i \in 1 .. Len(m) : w[i] = m[i]
      BY <1>2, <3>1 DEF Agree
    <3> QED
      BY <1>1, <1>2, <2>1, <2>3, <3>1, <3>2
  <2> QED
    BY <1>1, <1>2, <2>2, <2>3
<1> QED
  BY <1>3, <1>4 DEF n

\* The selections from one sequence by a set and by a subset of it agree.
LEMMA AmongAgree ==
    ASSUME NEW L, NEW s \in Seq(L), NEW M, NEW W \in SUBSET M
    PROVE  Agree(Among(s, M), Among(s, W), W)
<1> DEFINE F == Selection(s, M)
           G == Selection(s, W)
           T == {n \in Nat : F[n] \in Seq(M) /\ G[n] \in Seq(W) /\ Agree(F[n], G[n], W)}
<1>1. 0 \in T
  <2>1. F[0] = <<>> /\ G[0] = <<>>
    BY SelectionSelects
  <2> HIDE DEF F, G
  <2>2. Agree(F[0], G[0], W)
    BY <2>1 DEF Agree
  <2>3. F[0] \in Seq(M) /\ G[0] \in Seq(W)
    BY <2>1
  <2> QED
    BY <2>2, <2>3
<1>2. ASSUME NEW n \in T PROVE n + 1 \in T
  <2>1. n + 1 \in Nat \ {0} /\ (n + 1) - 1 = n
    OBVIOUS
  <2>2. /\ F[n + 1] = IF s[n + 1] \in M THEN Append(F[n], s[n + 1]) ELSE F[n]
        /\ G[n + 1] = IF s[n + 1] \in W THEN Append(G[n], s[n + 1]) ELSE G[n]
    <3> HIDE DEF T
    <3> QED
      BY <2>1, SelectionSelects
  <2> HIDE DEF F, G
  <2>3. CASE s[n + 1] \in M
    <3>1. F[n + 1] \in Seq(M) /\ G[n + 1] \in Seq(W)
      BY <2>2
    <3>2. Agree(F[n + 1], G[n + 1], W)
      BY <2>2, <2>3, AgreeAppend
    <3> QED
      BY <3>1, <3>2
  <2>4. CASE s[n + 1] \notin M
    BY <2>2, <2>4
  <2> QED
    BY <2>3, <2>4
<1>3. T = Nat
  <2> HIDE DEF T
  <2>1. T \in SUBSET Nat
    BY DEF T
  <2> QED
    BY <1>1, <1>2, <2>1, SetInduction
<1>4. Agree(F[Len(s)], G[Len(s)], W)
  BY <1>3
<1> QED
  BY <1>4, AmongSelection

-----------------------------------------------------------------------------
(* The events of the bindings.                                             *)

\* Filter and Watch pass the rules in the order in which the contract logs the
\* inputs, and no two inputs have the same name.
WellBound(e) ==
    /\ e.rules = e.inputs
    /\ Len(e.inputs) \in Nat /\ DOMAIN e.inputs = 1 .. Len(e.inputs)
    /\ \A i, j \in DOMAIN e.inputs : e.inputs[i] = e.inputs[j] => i = j

\* Each event of token.go passes its rules in the order of the indexed inputs.
LEMMA TokenEventsWellBound == \A e \in TokenEvents : WellBound(e)
  BY DEF WellBound, Event, TokenABI, TokenEvents, TokenAdminChanged, TokenApproval,
         TokenBeaconUpgraded, TokenDelegateChanged, TokenDelegateVotesChanged,
         TokenInitialized, TokenPaused, TokenRoleAdminChanged, TokenRoleGranted,
         TokenRoleRevoked, TokenTransfer, TokenUnpaused, TokenUpgraded

\* Each event of multi.go passes its rules in the order of the indexed inputs.
LEMMA MultiPrivilegeEventsWellBound == \A e \in MultiPrivilegeEvents : WellBound(e)
  BY DEF WellBound, Event, MultiPrivilegeABI, MultiPrivilegeEvents,
         MultiPrivilegeAdminChanged, MultiPrivilegeApproval,
         MultiPrivilegeApprovalForAll, MultiPrivilegeBeaconUpgraded,
         MultiPrivilegeInitialized, MultiPrivilegePrivilegeCreated,
         MultiPrivilegePrivilegeDisabled, MultiPrivilegePrivilegeEnabled,
         MultiPrivilegePrivilegeSet, MultiPrivilegeRoleAdminChanged,
         MultiPrivilegeRoleGranted, MultiPrivilegeRoleRevoked,
         MultiPrivilegeTransfer, MultiPrivilegeUpgraded

\* The logs the caller wants are those the node returns for the query that can be
\* unpacked.
LEMMA WantedIsMatched ==
    ASSUME NEW e \in TokenEvents \cup MultiPrivilegeEvents,
           NEW given \in Arguments(e), NEW l \in Log
    PROVE  Wanted(e, given, l) <=> Matches(e, Query(e, given), l) /\ Unpacks(e, l)
<1>1. /\ e.rules = e.inputs
      /\ Len(e.inputs) \in Nat /\ DOMAIN e.inputs = 1 .. Len(e.inputs)
      /\ \A i, j \in DOMAIN e.inputs : e.inputs[i] = e.inputs[j] => i = j
  BY TokenEventsWellBound, MultiPrivilegeEventsWellBound DEF WellBound
<1> DEFINE D == DOMAIN e.inputs
           q == Query(e, given)
<1>2. D = 1 .. Len(e.inputs) /\ Len(e.inputs) \in Nat
  BY <1>1
<1>3. /\ q \in Seq(SUBSET Value) /\ Len(q) = Len(e.inputs)
      /\ \A i \in D : q[i] = given[e.inputs[i]]
  <2>1. \A i \in D : given[e.inputs[i]] \in SUBSET Value
    BY <1>1 DEF Arguments
  <2>2. q = [i \in 1 .. Len(e.inputs) |-> given[e.inputs[i]]]
    BY <1>1, <1>2 DEF Query
  <2> QED
    BY <1>2, <2>1, <2>2
<1>4. DOMAIN given = {e.inputs[i] : i \in D}
  BY <1>1 DEF Arguments
<1>5. \A i \in D : Unpack(e, l)[e.inputs[i]] = l.topics[i]
  <2> SUFFICES ASSUME NEW i \in D PROVE Unpack(e, l)[e.inputs[i]] = l.topics[i]
    OBVIOUS
  <2>1. (CHOOSE j \in D : e.inputs[j] = e.inputs[i]) = i
    BY <1>1
  <2> QED
    BY <2>1 DEF Unpack
<1> HIDE DEF q
<1>6. ASSUME Unpacks(e, l)
      PROVE  /\ (\A f \in DOMAIN given : given[f] = {} \/ Unpack(e, l)[f] \in given[f])
                <=> \A i \in D : q[i] = {} \/ l.topics[i] \in q[i]
             /\ DOMAIN q = D
             /\ Len(q) =< Len(l.topics)
  <2>1. DOMAIN q = D
    BY <1>2, <1>3
  <2>2. Len(q) =< Len(l.topics)
    BY <1>2, <1>3, <1>6 DEF Unpacks
  <2>3. (\A f \in DOMAIN given : given[f] = {} \/ Unpack(e, l)[f] \in given[f])
           <=> \A i \in D : \/ given[e.inputs[i]] = {}
                            \/ Unpack(e, l)[e.inputs[i]] \in given[e.inputs[i]]
    BY <1>4
  <2> QED
    BY <1>3, <1>5, <2>1, <2>2, <2>3
<1>7. CASE Unpacks(e, l)
  BY <1>6, <1>7 DEF Wanted, Matches, Unpacks, q
<1>8. CASE ~Unpacks(e, l)
  BY <1>8 DEF Wanted
<1> QED
  BY <1>7, <1>8

\* Logs and the events they unpack to.
Unpacked(e, w) == [i \in DOMAIN w |-> Unpack(e, w[i])]

\* The events of a sequence of logs, one by one.
LEMMA UnpackedIs ==
    ASSUME NEW e, NEW S, NEW w \in Seq(S)
    PROVE  /\ Unpacked(e, w) \in Seq({Unpack(e, l) : l \in S})
           /\ Len(Unpacked(e, w)) = Len(w)
           /\ \A i \in 1 .. Len(w) : Unpacked(e, w)[i] = Unpack(e, w[i])
<1>1. DOMAIN w = 1 .. Len(w) /\ Len(w) \in Nat /\ \A i \in 1 .. Len(w) : w[i] \in S
  OBVIOUS
<1> QED
  BY <1>1 DEF Unpacked

-----------------------------------------------------------------------------
(* The operators.                                                          *)

\* The chain is a sequence of logs of the event.
LEMMA LoggedType ==
    ASSUME TypeOK
    PROVE  Logged \subseteq Logs(event) /\ chain \in Seq(Logged)
<1>1. /\ chain \in Seq(Logs(event)) /\ DOMAIN chain = 1 .. Len(chain) /\ Len(chain) \in Nat
      /\ \A i \in 1 .. Len(chain) : chain[i] \in Logs(event)
  BY DEF TypeOK
<1>2. Logged \subseteq Logs(event)
  BY <1>1 DEF Logged
<1>3. chain \in [1 .. Len(chain) -> Logged]
  BY <1>1 DEF Logged
<1> QED
  BY <1>1, <1>2, <1>3

\* The wanted logs are among those the node is asked for: those that unpack.
LEMMA LogsOfEvent ==
    ASSUME TypeOK
    PROVE  /\ WantedLogs \in SUBSET Matching
           /\ \A l \in Matching : Unpacks(event, l) => l \in WantedLogs
<1>1. /\ event \in TokenEvents \cup MultiPrivilegeEvents /\ args \in Arguments(event)
      /\ \A l \in Logged : l \in Log
  BY IteratorAssumption, LoggedType DEF TypeOK, IteratorAssumption
<1>2. \A l \in Logged : Wanted(event, args, l)
          <=> Matches(event, Query(event, args), l) /\ Unpacks(event, l)
  BY <1>1, WantedIsMatched
<1> QED
  BY <1>2 DEF WantedLogs, Matching

\* What the node returns is a sequence of matching logs.
LEMMA MatchedType ==
    ASSUME TypeOK
    PROVE  Matched \in Seq(Matching) /\ Matched \in Seq(Logs(event))
<1>1. Matched \in Seq(Matching)
  BY AmongType DEF TypeOK, Matched
<1>2. Matching \subseteq Logs(event)
  BY LoggedType DEF Matching
<1> QED
  BY <1>1, <1>2

\* Event, arguments and chain determine what is wanted.
LEMMA SameInput ==
    ASSUME UNCHANGED input
    PROVE  /\ event' = event /\ Matching' = Matching /\ WantedLogs' = WantedLogs
           /\ Matched' = Matched /\ WantedEvents' = WantedEvents
  BY DEF input, Logged, Matching, WantedLogs, Matched, WantedEvents

\* The wanted events are the selected logs, unpacked.
LEMMA WantedEventsAre == WantedEvents = Unpacked(event, Among(chain, WantedLogs))
  BY DEF WantedEvents, WantedLogs, Unpacked

\* No step changes event, arguments or chain.
LEMMA InputFixed == [Next]_vars => UNCHANGED input
  BY DEF Next, Filter, Push, End, CallNext, CallerStep, TakeLog, SubEnded, NoMore,
         CloseReturns, Close, vars, input

-----------------------------------------------------------------------------
(* Types and flags.                                                        *)

\* Every step keeps the types.
LEMMA TypeNext ==
    ASSUME TypeOK, DeliveredType, Next
    PROVE  TypeOK' /\ DeliveredType'
<1>0. Capacity \in Nat \ {0}
  BY IteratorAssumption DEF IteratorAssumption
<1> USE DEF input, iter
<1>1. CASE Filter
  <2>1. Among(chain, Matching) \in Seq(Logs(event))
    BY MatchedType DEF Matched
  <2> QED
    BY <1>1, <2>1 DEF Filter, Matching, TypeOK, DeliveredType
<1>2. CASE Push
  BY <1>0, <1>2 DEF Push, TypeOK, DeliveredType
<1>3. CASE End
  BY <1>3 DEF End, TypeOK, DeliveredType
<1>4. CASE CallNext
  BY <1>4 DEF CallNext, TypeOK, DeliveredType
<1>5. CASE TakeLog
  <2>1. /\ logs \in Seq(Logs(event)) /\ logs # <<>> /\ Len(logs) =< Capacity
    BY <1>5 DEF TakeLog, TypeOK
  <2>2. /\ Head(logs) \in Logs(event) /\ Tail(logs) \in Seq(Logs(event))
        /\ Len(Tail(logs)) =< Capacity
    BY <1>0, <2>1
  <2>3. DeliveredType'
    <3>1. event' = event /\ delivered' \in {delivered, Append(delivered, Unpack(event, Head(logs)))}
      BY <1>5 DEF TakeLog
    <3>2. Unpack(event, Head(logs)) \in {Unpack(event, l) : l \in Logs(event)}
      BY <2>2
    <3> QED
      BY <3>1, <3>2 DEF DeliveredType
  <2> QED
    BY <1>5, <2>2, <2>3 DEF TakeLog, Returns, TypeOK
<1>6. CASE SubEnded
  BY <1>6 DEF SubEnded, TypeOK, DeliveredType
<1>7. CASE NoMore
  BY <1>7 DEF NoMore, Returns, TypeOK, DeliveredType
<1>8. CASE CloseReturns
  BY <1>8 DEF CloseReturns, TypeOK, DeliveredType
<1>9. CASE Close
  BY <1>9 DEF Close, TypeOK, DeliveredType
<1> QED
  BY <1>1, <1>2, <1>3, <1>4, <1>5, <1>6, <1>7, <1>8, <1>9 DEF Next, CallerStep

\* Every step keeps what the flags tell of each other.
LEMMA FlagsNext ==
    ASSUME TypeOK, Fresh, Flags, ClosedReleases, Next
    PROVE  Fresh' /\ Flags' /\ ClosedReleases'
<1> USE DEF input, iter
<1>0. /\ running \in BOOLEAN /\ unsubscribed \in BOOLEAN /\ done \in BOOLEAN
      /\ fail \in BOOLEAN /\ cut \in BOOLEAN
      /\ pc \in {"new", "refused", "idle", "next", "closing"}
      /\ last \in {"none", "true", "false"}
  BY DEF TypeOK
<1>1. CASE Filter
  BY <1>0, <1>1 DEF Filter, Fresh, Flags, ClosedReleases
<1>2. CASE Push
  BY <1>0, <1>2 DEF Push, Fresh, Flags, ClosedReleases
<1>3. CASE End
  BY <1>0, <1>3 DEF End, Fresh, Flags, ClosedReleases
<1>4. CASE CallNext
  BY <1>0, <1>4 DEF CallNext, Fresh, Flags, ClosedReleases
<1>5. CASE TakeLog
  BY <1>0, <1>5 DEF TakeLog, Returns, Fresh, Flags, ClosedReleases
<1>6. CASE SubEnded
  BY <1>0, <1>6 DEF SubEnded, Fresh, Flags, ClosedReleases
<1>7. CASE NoMore
  BY <1>0, <1>7 DEF NoMore, Returns, Fresh, Flags, ClosedReleases
<1>8. CASE CloseReturns
  BY <1>0, <1>8 DEF CloseReturns, Fresh, Flags, ClosedReleases
<1>9. CASE Close
  BY <1>0, <1>9 DEF Close, Fresh, Flags, ClosedReleases
<1> QED
  BY <1>1, <1>2, <1>3, <1>4, <1>5, <1>6, <1>7, <1>8, <1>9 DEF Next, CallerStep

-----------------------------------------------------------------------------
(* The way of the logs.                                                    *)

\* A step that moves no log keeps their order.
LEMMA FlowFrame ==
    ASSUME Flow, UNCHANGED <<input, found, logs, delivered, fail>>,
           pc \notin {"new", "refused"}
    PROVE  Flow'
  BY SameInput DEF Flow

\* Filter: everything is still to come.
LEMMA FilterFlow ==
    ASSUME TypeOK, Fresh, Filter
    PROVE  Flow'
<1> SUFFICES ASSUME pc' \notin {"new", "refused"} PROVE Flow'
  BY DEF Flow
<1>1. /\ UNCHANGED <<input, logs, delivered>> /\ found' = Matched
      /\ logs = <<>> /\ delivered = <<>>
  BY DEF Filter, Matched, Matching, Fresh, iter
<1>2. /\ Len(logs') = 0 /\ Len(delivered') = 0 /\ Len(Matched) \in Nat
  BY <1>1, MatchedType
<1>3. Matched' = Matched
  BY <1>1, SameInput
<1> QED
  BY <1>1, <1>2, <1>3 DEF Flow

\* The goroutine moves a log into the channel, and none is lost.
LEMMA PushFlow ==
    ASSUME TypeOK, DeliveredType, Flow, Push
    PROVE  Flow'
<1>0. /\ found # <<>> /\ UNCHANGED <<input, pc, fail, delivered>>
      /\ logs' = Append(logs, Head(found)) /\ found' = Tail(found)
  BY DEF Push, iter
<1>1. Matched' = Matched /\ WantedLogs' = WantedLogs /\ event' = event
  BY <1>0, SameInput
<1> SUFFICES ASSUME pc \notin {"new", "refused"}, ~fail PROVE Flow'
  BY <1>0 DEF Flow
<1>2. /\ logs \in Seq(Logs(event)) /\ found \in Seq(Logs(event))
      /\ Len(logs) \in Nat /\ Len(found) \in Nat /\ Len(delivered) \in Nat
  BY DEF TypeOK, DeliveredType
<1>3. /\ Len(logs') = Len(logs) + 1 /\ logs'[Len(logs) + 1] = found[1]
      /\ \A i \in 1 .. Len(logs) : logs'[i] = logs[i]
  BY <1>0, <1>2
<1>4. /\ Len(found') = Len(found) - 1 /\ Len(found) >= 1
      /\ \A i \in 1 .. Len(found') : found'[i] = found[i + 1]
  BY <1>0, <1>2
<1> DEFINE d == Len(delivered)
           f == d + Len(logs)
<1>5. /\ f + Len(found) = Len(Matched)
      /\ \A i \in 1 .. Len(delivered) : /\ Matched[i] \in WantedLogs
                                        /\ delivered[i] = Unpack(event, Matched[i])
      /\ \A i \in 1 .. Len(logs) : logs[i] = Matched[d + i]
      /\ \A i \in 1 .. Len(found) : found[i] = Matched[f + i]
  BY DEF Flow
<1>6. d + Len(logs') = f + 1 /\ (f + 1) + Len(found') = f + Len(found)
  BY <1>2, <1>3, <1>4
<1>7. \A i \in 1 .. Len(logs') : logs'[i] = Matched[d + i]
  <2> SUFFICES ASSUME NEW i \in 1 .. Len(logs') PROVE logs'[i] = Matched[d + i]
    OBVIOUS
  <2>1. CASE i = Len(logs) + 1
    <3>1. d + i = f + 1 /\ found[1] = Matched[f + 1]
      BY <1>2, <1>4, <1>5, <2>1
    <3> QED
      BY <1>3, <2>1, <3>1
  <2>2. CASE i \in 1 .. Len(logs)
    BY <1>3, <1>5, <2>2
  <2>3. i = Len(logs) + 1 \/ i \in 1 .. Len(logs)
    BY <1>2, <1>3
  <2> QED
    BY <2>1, <2>2, <2>3
<1>8. \A i \in 1 .. Len(found') : found'[i] = Matched[(f + 1) + i]
  <2> SUFFICES ASSUME NEW i \in 1 .. Len(found') PROVE found'[i] = Matched[(f + 1) + i]
    OBVIOUS
  <2>1. i + 1 \in 1 .. Len(found) /\ f + (i + 1) = (f + 1) + i
    BY <1>2, <1>4
  <2> QED
    BY <1>4, <1>5, <2>1
<1> QED
  BY <1>0, <1>1, <1>5, <1>6, <1>7, <1>8 DEF Flow

\* What the log at the head of the channel is.
LEMMA HeadIsNext ==
    ASSUME TypeOK, DeliveredType, Flow, pc = "next", ~fail, logs # <<>>,
           Unpacks(event, Head(logs))
    PROVE  /\ Len(delivered) + 1 \in 1 .. Len(Matched)
           /\ Head(logs) = Matched[Len(delivered) + 1] /\ Head(logs) \in WantedLogs
<1>1. /\ logs \in Seq(Logs(event)) /\ Matched \in Seq(Matching) /\ Len(Matched) \in Nat
      /\ Len(logs) \in Nat /\ Len(found) \in Nat /\ Len(delivered) \in Nat
  BY MatchedType DEF TypeOK, DeliveredType
<1>2. Len(logs) >= 1 /\ Head(logs) = logs[1]
  BY <1>1
<1>3. /\ Len(delivered) + Len(logs) + Len(found) = Len(Matched)
      /\ \A i \in 1 .. Len(logs) : logs[i] = Matched[Len(delivered) + i]
  BY DEF Flow
<1>4. Len(delivered) + 1 \in 1 .. Len(Matched) /\ 1 \in 1 .. Len(logs)
  BY <1>1, <1>2, <1>3
<1>5. Head(logs) = Matched[Len(delivered) + 1]
  BY <1>2, <1>3, <1>4
<1>6. Head(logs) \in Matching
  BY <1>1, <1>4, <1>5
<1> QED
  BY <1>4, <1>5, <1>6, LogsOfEvent

\* Next moves a log from the channel to the caller, or stops at one that does not unpack.
LEMMA TakeLogFlow ==
    ASSUME TypeOK, DeliveredType, Flow, TakeLog
    PROVE  Flow'
<1>0. /\ pc = "next" /\ ~fail /\ logs # <<>> /\ logs' = Tail(logs)
      /\ UNCHANGED <<input, found>>
      /\ \/ /\ Unpacks(event, Head(logs))
            /\ delivered' = Append(delivered, Unpack(event, Head(logs)))
         \/ fail'
  BY DEF TakeLog
<1> SUFFICES ASSUME ~fail' PROVE Flow'
  BY DEF Flow
<1>1. Matched' = Matched /\ WantedLogs' = WantedLogs /\ event' = event
  BY <1>0, SameInput
<1>2. /\ Unpacks(event, Head(logs))
      /\ delivered' = Append(delivered, Unpack(event, Head(logs)))
  BY <1>0
<1> DEFINE d == Len(delivered)
           f == d + Len(logs)
<1>3. /\ logs \in Seq(Logs(event)) /\ found \in Seq(Logs(event))
      /\ delivered \in Seq({Unpack(event, l) : l \in Logs(event)})
      /\ Len(logs) \in Nat /\ Len(found) \in Nat /\ d \in Nat
  BY DEF TypeOK, DeliveredType
<1>4. Head(logs) = Matched[d + 1] /\ Head(logs) \in WantedLogs
  BY <1>0, <1>2, HeadIsNext
<1>5. /\ Len(logs') = Len(logs) - 1 /\ Len(logs) >= 1
      /\ \A i \in 1 .. Len(logs') : logs'[i] = logs[i + 1]
  BY <1>0, <1>3
<1>6. /\ Len(delivered') = d + 1 /\ delivered'[d + 1] = Unpack(event, Head(logs))
      /\ \A i \in 1 .. d : delivered'[i] = delivered[i]
  BY <1>2, <1>3
<1>7. /\ f + Len(found) = Len(Matched)
      /\ \A i \in 1 .. d : /\ Matched[i] \in WantedLogs
                           /\ delivered[i] = Unpack(event, Matched[i])
      /\ \A i \in 1 .. Len(logs) : logs[i] = Matched[d + i]
      /\ \A i \in 1 .. Len(found) : found[i] = Matched[f + i]
  BY <1>0 DEF Flow
<1>8. (d + 1) + Len(logs') = f
  BY <1>3, <1>5
<1>9. \A i \in 1 .. (d + 1) : /\ Matched[i] \in WantedLogs
                             /\ delivered'[i] = Unpack(event, Matched[i])
  <2> SUFFICES ASSUME NEW i \in 1 .. (d + 1)
               PROVE  Matched[i] \in WantedLogs /\ delivered'[i] = Unpack(event, Matched[i])
    OBVIOUS
  <2>1. i = d + 1 \/ i \in 1 .. d
    BY <1>3
  <2> QED
    BY <1>4, <1>6, <1>7, <2>1
<1>10. \A i \in 1 .. Len(logs') : logs'[i] = Matched[(d + 1) + i]
  <2> SUFFICES ASSUME NEW i \in 1 .. Len(logs') PROVE logs'[i] = Matched[(d + 1) + i]
    OBVIOUS
  <2>1. i + 1 \in 1 .. Len(logs) /\ d + (i + 1) = (d + 1) + i
    BY <1>3, <1>5
  <2> QED
    BY <1>5, <1>7, <2>1
<1> QED
  BY <1>0, <1>1, <1>6, <1>7, <1>8, <1>9, <1>10 DEF Flow

\* Every step keeps the logs together.
LEMMA FlowNext ==
    ASSUME Inv, Next
    PROVE  Flow'
<1> USE DEF Inv
<1>1. CASE Filter
  BY <1>1, FilterFlow
<1>2. CASE Push
  BY <1>2, PushFlow
<1>3. CASE TakeLog
  BY <1>3, TakeLogFlow
<1>4. CASE End
  BY <1>4, FlowFrame DEF End, iter, Fresh
<1>5. CASE CallNext \/ SubEnded \/ NoMore \/ CloseReturns \/ Close
  BY <1>5, FlowFrame DEF CallNext, SubEnded, NoMore, CloseReturns, Close, iter
<1> QED
  BY <1>1, <1>2, <1>3, <1>4, <1>5 DEF Next, CallerStep

-----------------------------------------------------------------------------
(* Theorems.                                                               *)

\* The invariant holds initially.
LEMMA InitInv == Init => Inv
<1> SUFFICES ASSUME Init PROVE Inv
  OBVIOUS
<1>1. PICK n \in 0 .. MaxLogs : chain \in [1 .. n -> Logs(event)]
  BY DEF Init
<1>2. n \in Nat
  BY IteratorAssumption DEF IteratorAssumption
<1>3. chain \in Seq(Logs(event))
  BY <1>1, <1>2
<1>4. /\ <<>> \in Seq(Logs(event)) /\ <<>> \in Seq({Unpack(event, l) : l \in Logs(event)})
      /\ Len(<<>>) = 0
  OBVIOUS
<1>5. DeliveredType
  BY <1>4 DEF Init, DeliveredType
<1>6. found \in Seq(Logs(event)) /\ logs \in Seq(Logs(event)) /\ Len(logs) =< Capacity
  BY <1>4, IteratorAssumption DEF Init, IteratorAssumption
<1>7. TypeOK
  BY <1>3, <1>6 DEF Init, TypeOK
<1> QED
  BY <1>5, <1>7 DEF Init, Inv, Fresh, Flags, ClosedReleases, Flow

\* Every step keeps the invariant.
LEMMA NextInv == Inv /\ [Next]_vars => Inv'
<1> SUFFICES ASSUME Inv, [Next]_vars PROVE Inv'
  OBVIOUS
<1>1. CASE Next
  BY <1>1, TypeNext, FlagsNext, FlowNext DEF Inv
<1>2. CASE UNCHANGED vars
  <2>1. TypeOK' /\ DeliveredType'
    BY <1>2 DEF Inv, vars, TypeOK, DeliveredType
  <2>2. Fresh' /\ Flags' /\ ClosedReleases'
    BY <1>2 DEF Inv, vars, Fresh, Flags, ClosedReleases
  <2>3. Matched' = Matched /\ WantedLogs' = WantedLogs
    BY <1>2, SameInput DEF vars, input
  <2>4. Flow'
    BY <1>2, <2>3 DEF Inv, vars, Flow
  <2> QED
    BY <2>1, <2>2, <2>4 DEF Inv
<1> QED
  BY <1>1, <1>2

\* The inductive invariant holds in every reachable state of an iterator.
THEOREM Invariance == Spec => []Inv
  BY InitInv, NextInv, PTL DEF Spec

\* The channel never holds more than its capacity, and every variable keeps its type.
THEOREM TypesHold == Spec => []TypeOK
<1>1. Inv => TypeOK
  BY DEF Inv
<1> QED
  BY <1>1, Invariance, PTL

\* Once Close has returned, the goroutine that feeds the iterator has ended, for any
\* capacity and any number of logs it still had.
THEOREM CloseReleases == Spec => []ClosedReleases
<1>1. Inv => ClosedReleases
  BY DEF Inv
<1> QED
  BY <1>1, Invariance, PTL

-----------------------------------------------------------------------------
(* The refinement of LogDelivery.                                          *)

\* How the matching logs and the wanted events correspond.
LEMMA WantedPrefix ==
    ASSUME Inv, NEW k \in 0 .. Len(Matched), \A i \in 1 .. k : Matched[i] \in WantedLogs
    PROVE  /\ Len(WantedEvents) \in Nat /\ DOMAIN WantedEvents = 1 .. Len(WantedEvents)
           /\ k =< Len(WantedEvents) /\ Len(WantedEvents) =< Len(Matched)
           /\ \A i \in 1 .. k : WantedEvents[i] = Unpack(event, Matched[i])
<1> DEFINE w == Among(chain, WantedLogs)
<1>1. w \in Seq(WantedLogs)
  BY AmongType DEF Inv, TypeOK
<1>2. Agree(Matched, w, WantedLogs)
  BY LogsOfEvent, AmongAgree DEF Inv, TypeOK, Matched
<1>3. WantedEvents = Unpacked(event, w)
  BY WantedEventsAre
<1> HIDE DEF w
<1>4. /\ k =< Len(w) /\ Len(w) =< Len(Matched) /\ Len(w) \in Nat
      /\ \A i \in 1 .. k : w[i] = Matched[i]
  BY <1>1, <1>2 DEF Agree
<1>5. /\ Len(WantedEvents) = Len(w) /\ DOMAIN WantedEvents = 1 .. Len(WantedEvents)
      /\ \A i \in 1 .. Len(w) : WantedEvents[i] = Unpack(event, w[i])
  <2>1. /\ WantedEvents \in Seq({Unpack(event, l) : l \in WantedLogs})
        /\ Len(WantedEvents) = Len(w)
        /\ \A i \in 1 .. Len(w) : WantedEvents[i] = Unpack(event, w[i])
    BY <1>1, <1>3, UnpackedIs
  <2>2. DOMAIN WantedEvents = 1 .. Len(WantedEvents)
    BY <2>1
  <2> QED
    BY <2>1, <2>2
<1> QED
  BY <1>4, <1>5

\* The event Next presents is the next of the wanted ones.
LEMMA TakeLogDelivers ==
    ASSUME Inv, TakeLog, ~fail'
    PROVE  Delivery!Deliver
<1>0. /\ pc = "next" /\ ~fail /\ logs # <<>> /\ Unpacks(event, Head(logs))
      /\ delivered' = Append(delivered, Unpack(event, Head(logs)))
      /\ last' = "true" /\ UNCHANGED input
  BY DEF TakeLog, Returns
<1> DEFINE k == Len(delivered) + 1
<1>1. Len(delivered) \in Nat /\ Len(Matched) \in Nat
  BY MatchedType DEF Inv, TypeOK, DeliveredType
<1>2. k \in 1 .. Len(Matched) /\ Head(logs) = Matched[k] /\ Head(logs) \in WantedLogs
  BY <1>0, HeadIsNext DEF Inv
<1>3. \A i \in 1 .. Len(delivered) : Matched[i] \in WantedLogs
  BY <1>0 DEF Inv, Flow
<1>4. k \in 0 .. Len(Matched) /\ \A i \in 1 .. k : Matched[i] \in WantedLogs
  <2>1. \A i \in 1 .. k : i = k \/ i \in 1 .. Len(delivered)
    BY <1>1
  <2>2. k \in 0 .. Len(Matched)
    BY <1>1, <1>2
  <2> QED
    BY <1>2, <1>3, <2>1, <2>2
<1>5. /\ Len(WantedEvents) \in Nat /\ k =< Len(WantedEvents)
      /\ WantedEvents[k] = Unpack(event, Head(logs))
  <2>1. k \in 1 .. k
    BY <1>1
  <2> QED
    BY <1>2, <1>4, <2>1, WantedPrefix
<1>6. Len(delivered) < Len(WantedEvents)
  BY <1>1, <1>5
<1>7. last # "false"
  BY <1>0 DEF Inv, Flags
<1>8. WantedEvents' = WantedEvents
  BY <1>0, SameInput
<1>9. State = "open" /\ State' = "open"
  BY <1>0, <1>7 DEF State
<1> QED
  BY <1>0, <1>5, <1>6, <1>8, <1>9 DEF Delivery!Deliver

\* False with a nil error, and no Close before it: all the wanted events were
\* presented.
LEMMA NothingMissing ==
    ASSUME Inv, pc = "next", done, logs = <<>>, ~fail, ~cut
    PROVE  delivered = WantedEvents
<1>1. found = <<>>
  BY DEF Inv, TypeOK, Flags
<1>2. /\ Len(delivered) \in Nat /\ Len(Matched) \in Nat /\ Len(logs) = 0 /\ Len(found) = 0
      /\ delivered \in Seq({Unpack(event, l) : l \in Logs(event)})
  BY <1>1, MatchedType DEF Inv, TypeOK, DeliveredType
<1>3. /\ Len(delivered) = Len(Matched)
      /\ \A i \in 1 .. Len(delivered) : /\ Matched[i] \in WantedLogs
                                        /\ delivered[i] = Unpack(event, Matched[i])
  BY <1>2 DEF Inv, Flow
<1>4. /\ Len(WantedEvents) = Len(delivered)
      /\ DOMAIN WantedEvents = 1 .. Len(delivered)
      /\ \A i \in 1 .. Len(delivered) : WantedEvents[i] = delivered[i]
  <2>1. Len(delivered) \in 0 .. Len(Matched)
    BY <1>2, <1>3
  <2>2. /\ Len(WantedEvents) \in Nat /\ DOMAIN WantedEvents = 1 .. Len(WantedEvents)
        /\ Len(delivered) =< Len(WantedEvents) /\ Len(WantedEvents) =< Len(Matched)
        /\ \A i \in 1 .. Len(delivered) : WantedEvents[i] = Unpack(event, Matched[i])
    BY <1>3, <2>1, WantedPrefix
  <2> QED
    BY <1>2, <1>3, <2>2
<1>5. WantedEvents = [i \in 1 .. Len(delivered) |-> WantedEvents[i]]
  BY <1>4 DEF WantedEvents
<1>6. delivered = [i \in 1 .. Len(delivered) |-> delivered[i]]
  BY <1>2
<1> QED
  BY <1>4, <1>5, <1>6

\* Every step is one of LogDelivery or a stutter.
LEMMA StepRefines ==
    ASSUME Inv, [Next]_vars
    PROVE  [Delivery!Next]_<<WantedEvents, delivered, State>>
<1>0. WantedEvents' = WantedEvents
  BY SameInput, InputFixed
<1>1. /\ fail \in BOOLEAN /\ cut \in BOOLEAN /\ done \in BOOLEAN
      /\ last \in {"none", "true", "false"}
  BY DEF Inv, TypeOK
<1>2. ASSUME delivered' = delivered, State' = State
      PROVE  UNCHANGED <<WantedEvents, delivered, State>>
  BY <1>0, <1>2
<1>3. CASE TakeLog
  <2>1. CASE fail'
    <3>1. delivered' = delivered /\ last' = "false" /\ ~fail /\ logs # <<>>
      BY <1>3, <2>1 DEF TakeLog, Returns
    <3>2. State = "open" /\ State' = "stopped"
      BY <2>1, <3>1 DEF State, Inv, Flags
    <3> QED
      BY <1>0, <3>1, <3>2 DEF Delivery!Next, Delivery!Stop
  <2>2. CASE ~fail'
    BY <1>3, <2>2, TakeLogDelivers DEF Delivery!Next
  <2> QED
    BY <2>1, <2>2
<1>4. CASE NoMore
  <2>0. /\ pc = "next" /\ (fail \/ (done /\ logs = <<>>)) /\ last' = "false"
        /\ UNCHANGED <<fail, cut, delivered>>
    BY <1>4 DEF NoMore, Returns
  <2>1. CASE last = "false"
    BY <1>2, <2>0, <2>1 DEF State
  <2>2. CASE last # "false" /\ cut
    <3>1. State = "open" /\ State' = "stopped"
      BY <2>0, <2>2 DEF State
    <3> QED
      BY <1>0, <2>0, <3>1 DEF Delivery!Next, Delivery!Stop
  <2>3. CASE last # "false" /\ ~cut
    <3>1. ~fail
      BY <2>3 DEF Inv, Flags
    <3>2. State = "open" /\ State' = "complete"
      BY <2>0, <2>3, <3>1 DEF State
    <3>3. delivered = WantedEvents
      BY <2>0, <2>3, <3>1, NothingMissing
    <3> QED
      BY <1>0, <2>0, <3>2, <3>3 DEF Delivery!Next, Delivery!Complete
  <2> QED
    BY <2>1, <2>2, <2>3
<1>5. CASE Close
  <2>1. UNCHANGED <<fail, last, delivered>> /\ cut' = (cut \/ last # "false")
    BY <1>5 DEF Close, iter
  <2>2. State' = State
    BY <1>1, <2>1 DEF State
  <2> QED
    BY <1>2, <2>1, <2>2
<1>6. CASE Filter \/ Push \/ End \/ CallNext \/ SubEnded \/ CloseReturns \/ UNCHANGED vars
  <2>1. UNCHANGED <<fail, last, cut, delivered>>
    BY <1>6 DEF Filter, Push, End, CallNext, SubEnded, CloseReturns, iter, vars
  <2> QED
    BY <1>2, <2>1 DEF State
<1> QED
  BY <1>3, <1>4, <1>5, <1>6 DEF Next, CallerStep

\* The iterator of FilterX implements LogDelivery: for each of the events, any
\* arguments, chain and capacity and any order of the two goroutines, Next presents
\* the wanted events in the order of the chain, and all of them before it returns
\* false, unless Error() says otherwise or Close was called.
THEOREM IteratorDelivers == Spec => ImplementsDelivery
<1>1. Init => Delivery!Init
  BY DEF Init, Delivery!Init, State
<1> QED
  BY <1>1, Invariance, StepRefines, PTL
  DEF Spec, ImplementsDelivery, Delivery!Spec
=============================================================================
