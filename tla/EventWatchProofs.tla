-------------------------- MODULE EventWatchProofs --------------------------
(***************************************************************************)
(* Proofs about EventWatch, for every event of the bindings, any logs and  *)
(* any capacities: what the caller is told and may rely on when it stops   *)
(* (Life), and that the sink gets what LogDelivery promises (Flow).        *)
(***************************************************************************)
EXTENDS EventWatch, TLAPS

-----------------------------------------------------------------------------
(* The inductive invariant.                                                *)

\* The goroutine holds a log it could unpack while it waits for the sink.
SentType ==
    /\ sent \in Seq({Unpack(event, l) : l \in Logs(event)}) /\ read \in Nat
    /\ pc = "send" => held \in Logs(event) /\ Unpacks(event, held)

\* The three parties go through their stages together.
Life ==
    /\ caller = "new" <=> pc = "none"
    /\ caller = "new" <=> upstream = "none"
    /\ result = "none" <=> pc \in {"none", "select", "send"}
    /\ upstream = "closed" <=> pc \in {"returned", "over"}
    /\ err = "open" <=> pc # "over"
    /\ pc = "over" => unsubscribed
    /\ caller \in {"new", "watching"} /\ unsubscribed => pc = "over"
    /\ caller = "stopped" => pc = "over"

\* How an end of the node's subscription gets to the caller.
Endings ==
    /\ upstream \in {"none", "live"} => ended = "no"
    /\ upstream = "nil" => ended = "nil"
    /\ result = "nil" => ended = "nil" \/ caller \in {"unsubscribing", "stopped"}
    /\ err = "closed" /\ told = "none" /\ caller = "watching" => ended = "nil"
    /\ told = "nil" => ended = "nil"

\* The logs on their way to the sink: the one the goroutine holds, those in the
\* channel and those to come.
Holds == IF pc = "send" THEN 1 ELSE 0
Size == Holds + Len(logs) + Len(coming)
At(i) == IF i =< Holds THEN held
         ELSE IF i =< Holds + Len(logs) THEN logs[i - Holds]
         ELSE coming[i - Holds - Len(logs)]

\* The first k of them unpack.
Clean(k) == \A i \in 1 .. k : Unpacks(event, At(i))

\* While the goroutine runs, the logs on their way are the wanted events that have
\* not been sent, as far as the logs unpack; and they are all of these while the node's
\* subscription lasts.
Flow ==
    result = "none" =>
        /\ \A k \in 1 .. Size : Clean(k) => /\ Len(sent) + k =< Len(wanted)
                                             /\ wanted[Len(sent) + k] = Unpack(event, At(k))
        /\ upstream \in {"none", "live"} /\ Clean(Size) => Len(wanted) = Len(sent) + Size

Inv == TypeOK /\ SentType /\ Life /\ Endings /\ Flow

-----------------------------------------------------------------------------
(* The events of the bindings.                                             *)

\* Filter and Watch pass the rules in the order in which the contract logs the
\* inputs, and no two inputs have the same name.
WellBound(e) ==
    /\ e.rules = e.inputs
    /\ Len(e.inputs) \in Nat /\ DOMAIN e.inputs = 1 .. Len(e.inputs)
    /\ \A i, j \in DOMAIN e.inputs : e.inputs[i] = e.inputs[j] => i = j

\* Each event of token.go passes its rules in the order of the indexed inputs.
LEMMA TokenEventsWellBound == \A e \in TokenEvents : WellBound(e)
  BY DEF WellBound, Event, TokenABI, TokenEvents, TokenAdminChanged, TokenApproval,
         TokenBeaconUpgraded, TokenDelegateChanged, TokenDelegateVotesChanged,
         TokenInitialized, TokenPaused, TokenRoleAdminChanged, TokenRoleGranted,
         TokenRoleRevoked, TokenTransfer, TokenUnpaused, TokenUpgraded

\* Each event of multi.go passes its rules in the order of the indexed inputs.
LEMMA MultiPrivilegeEventsWellBound == \A e \in MultiPrivilegeEvents : WellBound(e)
  BY DEF WellBound, Event, MultiPrivilegeABI, MultiPrivilegeEvents,
         MultiPrivilegeAdminChanged, MultiPrivilegeApproval,
         MultiPrivilegeApprovalForAll, MultiPrivilegeBeaconUpgraded,
         MultiPrivilegeInitialized, MultiPrivilegePrivilegeCreated,
         MultiPrivilegePrivilegeDisabled, MultiPrivilegePrivilegeEnabled,
         MultiPrivilegePrivilegeSet, MultiPrivilegeRoleAdminChanged,
         MultiPrivilegeRoleGranted, MultiPrivilegeRoleRevoked,
         MultiPrivilegeTransfer, MultiPrivilegeUpgraded

\* The logs the caller wants are those the node returns for the query that can be
\* unpacked.
LEMMA WantedIsMatched ==
    ASSUME NEW e \in TokenEvents \cup MultiPrivilegeEvents,
           NEW given \in Arguments(e), NEW l \in Log
    PROVE  Wanted(e, given, l) <=> Matches(e, Query(e, given), l) /\ Unpacks(e, l)
<1>1. /\ e.rules = e.inputs
      /\ Len(e.inputs) \in Nat /\ DOMAIN e.inputs = 1 .. Len(e.inputs)
      /\ \A i, j \in DOMAIN e.inputs : e.inputs[i] = e.inputs[j] => i = j
  BY TokenEventsWellBound, MultiPrivilegeEventsWellBound DEF WellBound
<1> DEFINE D == DOMAIN e.inputs
           q == Query(e, given)
<1>2. D = 1 .. Len(e.inputs) /\ Len(e.inputs) \in Nat
  BY <1>1
<1>3. /\ q \in Seq(SUBSET Value) /\ Len(q) = Len(e.inputs)
      /\ \A i \in D : q[i] = given[e.inputs[i]]
  <2>1. \A i \in D : given[e.inputs[i]] \in SUBSET Value
    BY <1>1 DEF Arguments
  <2>2. q = [i \in 1 .. Len(e.inputs) |-> given[e.inputs[i]]]
    BY <1>1, <1>2 DEF Query
  <2> QED
    BY <1>2, <2>1, <2>2
<1>4. DOMAIN given = {e.inputs[i] : i \in D}
  BY <1>1 DEF Arguments
<1>5. \A i \in D : Unpack(e, l)[e.inputs[i]] = l.topics[i]
  <2> SUFFICES ASSUME NEW i \in D PROVE Unpack(e, l)[e.inputs[i]] = l.topics[i]
    OBVIOUS
  <2>1. (CHOOSE j \in D : e.inputs[j] = e.inputs[i]) = i
    BY <1>1
  <2> QED
    BY <2>1 DEF Unpack
<1> HIDE DEF q
<1>6. ASSUME Unpacks(e, l)
      PROVE  /\ (\A f \in DOMAIN given : given[f] = {} \/ Unpack(e, l)[f] \in given[f])
                <=> \A i \in D : q[i] = {} \/ l.topics[i] \in q[i]
             /\ DOMAIN q = D
             /\ Len(q) =< Len(l.topics)
  <2>1. DOMAIN q = D
    BY <1>2, <1>3
  <2>2. Len(q) =< Len(l.topics)
    BY <1>2, <1>3, <1>6 DEF Unpacks
  <2>3. (\A f \in DOMAIN given : given[f] = {} \/ Unpack(e, l)[f] \in given[f])
           <=> \A i \in D : \/ given[e.inputs[i]] = {}
                            \/ Unpack(e, l)[e.inputs[i]] \in given[e.inputs[i]]
    BY <1>4
  <2> QED
    BY <1>3, <1>5, <2>1, <2>2, <2>3
<1>7. CASE Unpacks(e, l)
  BY <1>6, <1>7 DEF Wanted, Matches, Unpacks, q
<1>8. CASE ~Unpacks(e, l)
  BY <1>8 DEF Wanted
<1> QED
  BY <1>7, <1>8

-----------------------------------------------------------------------------
(* Types.                                                                  *)

\* Every step keeps the types.
LEMMA TypeNext ==
    ASSUME TypeOK, SentType, Next
    PROVE  TypeOK' /\ SentType'
<1>0. /\ MaxLogs \in Nat /\ Capacity \in Nat \ {0} /\ SinkSize \in Nat \ {0}
  BY WatchAssumption DEF WatchAssumption
<1> USE DEF input, emitted, node, goroutine, sub, user
<1>1. CASE Watch
  BY <1>1 DEF Watch, TypeOK, SentType
<1>2. CASE Emit
  BY <1>2 DEF Emit, TypeOK, SentType
<1>3. CASE Arrive
  BY <1>0, <1>3 DEF Arrive, TypeOK, SentType
<1>4. CASE NodeEnds
  BY <1>4 DEF NodeEnds, TypeOK, SentType
<1>5. CASE TakeLog
  BY <1>0, <1>5 DEF TakeLog, Return, TypeOK, SentType
<1>6. CASE Send
  BY <1>0, <1>6 DEF Send, TypeOK, SentType
<1>7. CASE SubEnded
  BY <1>7 DEF SubEnded, Return, TypeOK, SentType
<1>8. CASE Quit
  BY <1>8 DEF Quit, Return, TypeOK, SentType
<1>9. CASE Deferred
  BY <1>9 DEF Deferred, TypeOK, SentType
<1>10. CASE Finish
  BY <1>10 DEF Finish, TypeOK, SentType
<1>11. CASE Read
  BY <1>0, <1>11 DEF Read, TypeOK, SentType
<1>12. CASE ReadErr
  BY <1>12 DEF ReadErr, TypeOK, SentType
<1>13. CASE Unsubscribe
  BY <1>13 DEF Unsubscribe, TypeOK, SentType
<1>14. CASE UnsubscribeReturns
  BY <1>14 DEF UnsubscribeReturns, TypeOK, SentType
<1>15. CASE Finished
  BY <1>15 DEF Finished, vars, TypeOK, SentType
<1> QED
  BY <1>1, <1>2, <1>3, <1>4, <1>5, <1>6, <1>7, <1>8, <1>9, <1>10, <1>11, <1>12, <1>13,
     <1>14, <1>15 DEF Next, Goroutine, Caller, Node

-----------------------------------------------------------------------------
(* The stages, and what the caller is told.                                *)

\* Every step keeps the stages of node, goroutine and caller together.
LEMMA LifeNext ==
    ASSUME TypeOK, Life, Endings, Next
    PROVE  Life' /\ Endings'
<1> USE DEF input, emitted, node, goroutine, sub, user
<1>0. /\ unsubscribed \in BOOLEAN /\ result \in {"none", "nil", "error"}
      /\ upstream \in {"none", "live", "error", "nil", "closed"}
      /\ ended \in {"no", "error", "nil"} /\ err \in {"open", "error", "closed"}
      /\ caller \in {"new", "watching", "unsubscribing", "stopped"}
  BY DEF TypeOK
<1>1. CASE Watch
  BY <1>0, <1>1 DEF Watch, Life, Endings
<1>2. CASE Emit
  BY <1>2 DEF Emit, Life, Endings
<1>3. CASE Arrive
  BY <1>3 DEF Arrive, Life, Endings
<1>4. CASE NodeEnds
  BY <1>0, <1>4 DEF NodeEnds, Life, Endings
<1>5. CASE TakeLog
  BY <1>0, <1>5 DEF TakeLog, Return, Life, Endings
<1>6. CASE Send
  BY <1>0, <1>6 DEF Send, Life, Endings
<1>7. CASE SubEnded
  BY <1>0, <1>7 DEF SubEnded, Return, Life, Endings
<1>8. CASE Quit
  BY <1>0, <1>8 DEF Quit, Return, Life, Endings
<1>9. CASE Deferred
  BY <1>0, <1>9 DEF Deferred, Life, Endings
<1>10. CASE Finish
  BY <1>0, <1>10 DEF Finish, Life, Endings
<1>11. CASE Read
  BY <1>11 DEF Read, Life, Endings
<1>12. CASE ReadErr
  BY <1>0, <1>12 DEF ReadErr, Life, Endings
<1>13. CASE Unsubscribe
  BY <1>0, <1>13 DEF Unsubscribe, Life, Endings
<1>14. CASE UnsubscribeReturns
  BY <1>0, <1>14 DEF UnsubscribeReturns, Life, Endings
<1>15. CASE Finished
  BY <1>15 DEF Finished, vars, Life, Endings
<1> QED
  BY <1>1, <1>2, <1>3, <1>4, <1>5, <1>6, <1>7, <1>8, <1>9, <1>10, <1>11, <1>12, <1>13,
     <1>14, <1>15 DEF Next, Goroutine, Caller, Node

-----------------------------------------------------------------------------
(* The way of the logs.                                                    *)

\* The lengths are numbers.
LEMMA Lengths ==
    ASSUME TypeOK, SentType
    PROVE  /\ Len(sent) \in Nat /\ Len(logs) \in Nat /\ Len(coming) \in Nat
           /\ Len(wanted) \in Nat /\ Holds \in 0 .. 1 /\ Size \in Nat
  BY DEF TypeOK, SentType, Holds, Size

\* A step that sends no event and leaves the logs on their way in their order.
LEMMA FlowFrame ==
    ASSUME Size \in Nat, Flow, UNCHANGED <<event, wanted, sent>>,
           Size' = Size, \A i \in 1 .. Size : At(i)' = At(i),
           result' = "none" => result = "none",
           upstream' \in {"none", "live"} => upstream \in {"none", "live"}
    PROVE  Flow'
<1>1. \A k \in 0 .. Size : Clean(k)' <=> Clean(k)
  <2> SUFFICES ASSUME NEW k \in 0 .. Size PROVE Clean(k)' <=> Clean(k)
    OBVIOUS
  <2>1. \A i \in 1 .. k : i \in 1 .. Size
    OBVIOUS
  <2>2. \A i \in 1 .. k : At(i)' = At(i)
    BY <2>1
  <2> HIDE DEF At
  <2> QED
    BY <2>2 DEF Clean
<1>2. Size \in 0 .. Size /\ \A k \in 1 .. Size : k \in 0 .. Size
  OBVIOUS
<1> HIDE DEF At, Clean, Size
<1> QED
  BY <1>1, <1>2 DEF Flow

\* What the goroutine holds, the channel and what is to come have not changed.
LEMMA FlowStays ==
    ASSUME TypeOK, SentType, Flow, UNCHANGED <<event, wanted, sent, logs, coming, held>>,
           pc' = "send" <=> pc = "send", result' = "none" => result = "none",
           upstream' \in {"none", "live"} => upstream \in {"none", "live"}
    PROVE  Flow'
<1>1. Holds' = Holds
  BY DEF Holds
<1>2. Size' = Size /\ \A i \in 1 .. Size : At(i)' = At(i)
  BY <1>1 DEF Size, At
<1> QED
  BY <1>2, Lengths, FlowFrame

\* The caller wants the logs the node is asked for, as far as they unpack.
LEMMA WantedLogs ==
    ASSUME TypeOK, NEW l \in Logs(event)
    PROVE  Wanted(event, args, l)
               <=> Matches(event, Query(event, args), l) /\ Unpacks(event, l)
<1>1. /\ event \in TokenEvents \cup MultiPrivilegeEvents /\ args \in Arguments(event)
      /\ l \in Log
  BY WatchAssumption DEF TypeOK, WatchAssumption
<1> QED
  BY <1>1, WantedIsMatched

\* A log on the chain is one more to come if it matches, and a wanted event if it also
\* unpacks.
LEMMA EmitFlow ==
    ASSUME TypeOK, SentType, Life, Flow, Emit
    PROVE  Flow'
<1>0. upstream # "none" /\ UNCHANGED <<event, args, upstream, logs, pc, held, result, sent>>
  BY DEF Emit, input, goroutine
<1>1. PICK l \in Logs(event) :
          /\ wanted' = IF Wanted(event, args, l) THEN Append(wanted, Unpack(event, l))
                       ELSE wanted
          /\ coming' = IF upstream = "live" /\ Matches(event, Query(event, args), l)
                       THEN Append(coming, l) ELSE coming
  BY DEF Emit
<1>2. Wanted(event, args, l) <=> Matches(event, Query(event, args), l) /\ Unpacks(event, l)
  BY WantedLogs
<1>3. /\ Len(sent) \in Nat /\ Len(logs) \in Nat /\ Len(coming) \in Nat
      /\ Len(wanted) \in Nat /\ Holds \in 0 .. 1 /\ Size \in Nat
  BY Lengths
<1>4. /\ coming \in Seq(Logs(event))
      /\ wanted \in Seq({Unpack(event, k) : k \in Logs(event)})
  BY DEF TypeOK
<1> SUFFICES ASSUME result = "none" PROVE Flow'
  BY <1>0 DEF Flow
<1>5. /\ \A k \in 1 .. Size : Clean(k) => /\ Len(sent) + k =< Len(wanted)
                                           /\ wanted[Len(sent) + k] = Unpack(event, At(k))
      /\ upstream = "live" /\ Clean(Size) => Len(wanted) = Len(sent) + Size
  BY DEF Flow
<1>6. /\ Len(wanted') \in Nat /\ Len(wanted) =< Len(wanted')
      /\ \A i \in 1 .. Len(wanted) : wanted'[i] = wanted[i]
  BY <1>1, <1>4
<1>7. ASSUME NEW k \in 1 .. Size, Clean(k)
      PROVE  /\ Len(sent) + k =< Len(wanted')
             /\ wanted'[Len(sent) + k] = Unpack(event, At(k))
  <2>1. Len(sent) + k =< Len(wanted) /\ wanted[Len(sent) + k] = Unpack(event, At(k))
    BY <1>5, <1>7
  <2>2. Len(sent) + k \in 1 .. Len(wanted)
    BY <1>3, <2>1
  <2> HIDE DEF At, Clean, Size
  <2> QED
    BY <1>3, <1>6, <2>1, <2>2
<1>8. Holds' = Holds
  BY <1>0 DEF Holds
<1>9. CASE upstream = "live" /\ Matches(event, Query(event, args), l)
  <2>1. /\ Len(coming') = Len(coming) + 1 /\ coming'[Len(coming) + 1] = l
        /\ \A i \in 1 .. Len(coming) : coming'[i] = coming[i]
    BY <1>1, <1>4, <1>9
  <2>2. PICK n \in Nat : n = Size
    BY <1>3
  <2>3. /\ Size' = n + 1 /\ n + 1 - Holds - Len(logs) = Len(coming) + 1
        /\ ~(n + 1 =< Holds) /\ ~(n + 1 =< Holds + Len(logs))
    <3>1. n = Holds + Len(logs) + Len(coming)
      BY <2>2 DEF Size
    <3>2. Size' = Holds + Len(logs) + (Len(coming) + 1)
      BY <1>0, <1>8, <2>1 DEF Size
    <3> QED
      BY <1>3, <3>1, <3>2
  <2>4. At(n + 1)' = l
    <3>1. \A i \in Nat : ~(i =< Holds) /\ ~(i =< Holds + Len(logs))
                            => At(i)' = coming'[i - Holds - Len(logs)]
      BY <1>0, <1>8 DEF At
    <3> HIDE DEF At
    <3>2. PICK m \in Nat : m = n + 1
      OBVIOUS
    <3>3. At(m)' = coming'[m - Holds - Len(logs)]
      BY <2>3, <3>1, <3>2
    <3>4. m - Holds - Len(logs) = Len(coming) + 1
      BY <1>3, <2>3, <3>2
    <3> QED
      BY <2>1, <3>2, <3>3, <3>4
  <2>5. ASSUME NEW i \in 1 .. n PROVE At(i)' = At(i)
    <3>1. ~(i =< Holds + Len(logs)) => i - Holds - Len(logs) \in 1 .. Len(coming)
      BY <1>3, <2>2 DEF Size
    <3> QED
      BY <1>0, <1>8, <2>1, <3>1 DEF At
  <2>6. ASSUME NEW k \in 0 .. n PROVE Clean(k)' <=> Clean(k)
    <3>1. \A i \in 1 .. k : At(i)' = At(i)
      BY <2>5
    <3> HIDE DEF At
    <3> QED
      BY <1>0, <3>1 DEF Clean
  <2>7. Clean(n + 1)' => Clean(n) /\ Unpacks(event, l)
    <3>1. n + 1 \in 1 .. (n + 1) /\ \A i \in 1 .. n : i \in 1 .. (n + 1)
      OBVIOUS
    <3> HIDE DEF At
    <3> QED
      BY <1>0, <2>4, <2>5, <3>1 DEF Clean
  <2> HIDE DEF At, Clean, Size
  <2>8. ASSUME Clean(n + 1)'
        PROVE  /\ Len(wanted') = Len(sent) + (n + 1)
               /\ wanted'[Len(sent) + (n + 1)] = Unpack(event, l)
    <3>1. Clean(n) /\ Unpacks(event, l) /\ Len(wanted) = Len(sent) + n
      BY <1>5, <1>9, <2>2, <2>7, <2>8
    <3>2. wanted' = Append(wanted, Unpack(event, l))
      BY <1>1, <1>2, <1>9, <3>1
    <3>3. Len(wanted) + 1 = Len(sent) + (n + 1)
      BY <1>3, <3>1
    <3>4. Len(wanted') = Len(wanted) + 1 /\ wanted'[Len(wanted) + 1] = Unpack(event, l)
      BY <1>4, <3>2
    <3> QED
      BY <3>3, <3>4
  <2>9. ASSUME NEW k \in 1 .. (n + 1), Clean(k)'
        PROVE  /\ Len(sent) + k =< Len(wanted')
               /\ wanted'[Len(sent) + k] = Unpack(event, At(k)')
    <3>1. CASE k = n + 1
      BY <1>6, <2>4, <2>8, <2>9, <3>1
    <3>2. CASE k # n + 1
      <4>1. k \in 1 .. n /\ k \in 0 .. n
        BY <3>2
      <4>2. Clean(k) /\ At(k)' = At(k)
        BY <2>5, <2>6, <2>9, <4>1
      <4> QED
        BY <1>7, <2>2, <4>1, <4>2
    <3> QED
      BY <3>1, <3>2
  <2>10. Clean(Size)' <=> Clean(n + 1)'
    BY <2>3 DEF Clean
  <2> QED
    BY <1>0, <2>3, <2>8, <2>9, <2>10 DEF Flow
<1>10. CASE ~(upstream = "live" /\ Matches(event, Query(event, args), l))
  <2>1. coming' = coming /\ (upstream = "live" => wanted' = wanted)
    BY <1>1, <1>2, <1>10
  <2>2. Size' = Size
    BY <1>0, <1>8, <2>1 DEF Size
  <2>3. \A i : At(i)' = At(i)
    BY <1>0, <1>8, <2>1 DEF At
  <2> HIDE DEF At, Size
  <2>4. \A k : Clean(k)' <=> Clean(k)
    BY <1>0, <2>3 DEF Clean
  <2> HIDE DEF Clean
  <2> QED
    BY <1>0, <1>5, <1>7, <2>1, <2>2, <2>3, <2>4 DEF Flow
<1> QED
  BY <1>9, <1>10

\* A notification of the node moves a log into the channel, and none is lost.
LEMMA ArriveFlow ==
    ASSUME TypeOK, SentType, Flow, Arrive
    PROVE  Flow'
<1>0. /\ coming # <<>> /\ UNCHANGED <<event, wanted, upstream, pc, held, result, sent>>
      /\ logs' = Append(logs, Head(coming)) /\ coming' = Tail(coming)
  BY DEF Arrive, input, emitted, goroutine
<1>1. Holds' = Holds
  BY <1>0 DEF Holds
<1>2. logs \in Seq(Logs(event)) /\ coming \in Seq(Logs(event))
  BY DEF TypeOK
<1>3. /\ Len(logs) \in Nat /\ Len(coming) \in Nat /\ Holds \in 0 .. 1 /\ Size \in Nat
  BY Lengths
<1>4. /\ Len(logs') = Len(logs) + 1 /\ logs'[Len(logs) + 1] = coming[1]
      /\ \A i \in 1 .. Len(logs) : logs'[i] = logs[i]
  BY <1>0, <1>2
<1>5. /\ Len(coming') = Len(coming) - 1 /\ Len(coming) >= 1
      /\ \A i \in 1 .. Len(coming') : coming'[i] = coming[i + 1]
  BY <1>0, <1>2
<1>6. Size' = Size
  BY <1>1, <1>3, <1>4, <1>5 DEF Size
<1>7. ASSUME NEW i \in 1 .. Size PROVE At(i)' = At(i)
  <2>1. CASE i =< Holds
    BY <1>0, <1>1, <2>1 DEF At
  <2>2. CASE ~(i =< Holds) /\ i =< Holds + Len(logs)
    <3>1. i - Holds \in 1 .. Len(logs) /\ i =< Holds + (Len(logs) + 1)
      BY <1>3, <2>2
    <3> QED
      BY <1>1, <1>4, <2>2, <3>1 DEF At
  <2>3. CASE i = Holds + (Len(logs) + 1)
    <3>1. /\ ~(i =< Holds) /\ ~(i =< Holds + Len(logs))
          /\ i - Holds = Len(logs) + 1 /\ i - Holds - Len(logs) = 1
      BY <1>3, <2>3
    <3> QED
      BY <1>1, <1>4, <2>3, <3>1 DEF At
  <2>4. CASE i > Holds + (Len(logs) + 1)
    <3> DEFINE j == i - Holds - (Len(logs) + 1)
    <3>1. /\ ~(i =< Holds) /\ ~(i =< Holds + Len(logs)) /\ ~(i =< Holds + (Len(logs) + 1))
          /\ j \in 1 .. Len(coming') /\ i - Holds - Len(logs) = j + 1
      BY <1>3, <1>5, <2>4 DEF Size
    <3>2. coming'[j] = coming[j + 1]
      BY <1>5, <3>1
    <3> QED
      BY <1>1, <1>4, <3>1, <3>2 DEF At
  <2> QED
    BY <1>3, <2>1, <2>2, <2>3, <2>4
<1> QED
  BY <1>0, <1>3, <1>6, <1>7, FlowFrame

\* The goroutine holds the log it took, or ends at one that does not unpack.
LEMMA TakeLogFlow ==
    ASSUME TypeOK, SentType, Flow, TakeLog
    PROVE  Flow'
<1>0. /\ pc = "select" /\ logs # <<>> /\ logs' = Tail(logs)
      /\ UNCHANGED <<event, wanted, coming, upstream, sent>>
      /\ \/ held' = Head(logs) /\ pc' = "send" /\ result' = result
         \/ result' = "error"
  BY DEF TakeLog, Return, input, node, emitted
<1> SUFFICES ASSUME result' = "none" PROVE Flow'
  BY DEF Flow
<1>1. held' = Head(logs) /\ Holds = 0 /\ Holds' = 1 /\ result' = result
  BY <1>0 DEF Holds
<1>2. logs \in Seq(Logs(event))
  BY DEF TypeOK
<1>3. Len(logs) \in Nat /\ Len(coming) \in Nat /\ Size \in Nat
  BY Lengths
<1>4. /\ Len(logs') = Len(logs) - 1 /\ Len(logs) >= 1 /\ held' = logs[1]
      /\ \A i \in 1 .. Len(logs') : logs'[i] = logs[i + 1]
  BY <1>0, <1>1, <1>2
<1>5. Size' = Size
  BY <1>0, <1>1, <1>3, <1>4 DEF Size
<1>6. ASSUME NEW i \in 1 .. Size PROVE At(i)' = At(i)
  <2>1. CASE i = 1
    BY <1>1, <1>3, <1>4, <2>1 DEF At
  <2>2. CASE i # 1 /\ i =< Len(logs)
    <3>1. i - 1 \in 1 .. Len(logs') /\ (i - 1) + 1 = i /\ i - 0 = i
      BY <1>3, <1>4, <2>2
    <3>2. logs'[i - 1] = logs[i]
      BY <1>4, <3>1
    <3>3. ~(i =< 1) /\ ~(i =< 0) /\ i =< 1 + Len(logs') /\ i =< 0 + Len(logs)
      BY <1>3, <1>4, <2>2
    <3> QED
      BY <1>1, <3>1, <3>2, <3>3 DEF At
  <2>3. CASE i > Len(logs)
    <3>1. /\ ~(i =< 1) /\ ~(i =< 0) /\ ~(i =< 1 + Len(logs')) /\ ~(i =< 0 + Len(logs))
          /\ i - 1 - Len(logs') = i - 0 - Len(logs)
      BY <1>3, <1>4, <2>3
    <3> QED
      BY <1>0, <1>1, <3>1 DEF At
  <2> QED
    BY <1>3, <2>1, <2>2, <2>3
<1> QED
  BY <1>0, <1>1, <1>3, <1>5, <1>6, FlowFrame

\* The goroutine moves the event it holds into the sink.
LEMMA SendFlow ==
    ASSUME TypeOK, SentType, Life, Flow, Send
    PROVE  Flow'
<1>0. /\ pc = "send" /\ pc' = "select" /\ sent' = Append(sent, Unpack(event, held))
      /\ UNCHANGED <<event, wanted, coming, upstream, logs, result>>
  BY DEF Send, input, node, emitted
<1>1. Holds = 1 /\ Holds' = 0 /\ result = "none" /\ Unpacks(event, held)
  BY <1>0 DEF Holds, Life, SentType
<1>2. /\ Len(sent) \in Nat /\ Len(logs) \in Nat /\ Len(coming) \in Nat
      /\ Len(wanted) \in Nat /\ Size \in Nat
  BY Lengths
<1>3. Len(sent') = Len(sent) + 1
  BY <1>0 DEF SentType
<1>4. Size' = Size - 1 /\ Size >= 1 /\ (Size - 1) + 1 = Size
  BY <1>0, <1>1, <1>2 DEF Size
<1>5. At(1) = held
  BY <1>1 DEF At
<1>6. ASSUME NEW i \in 1 .. Size' PROVE At(i)' = At(i + 1)
  <2>1. /\ ~(i =< 0) /\ ~(i + 1 =< 1) /\ i - 0 = (i + 1) - 1
        /\ i =< 0 + Len(logs) <=> i + 1 =< 1 + Len(logs)
        /\ i - 0 - Len(logs) = (i + 1) - 1 - Len(logs)
    BY <1>2, <1>4
  <2> QED
    BY <1>0, <1>1, <2>1 DEF At
<1>7. ASSUME NEW k \in 0 .. Size', Clean(k)' PROVE Clean(k + 1)
  <2> SUFFICES ASSUME NEW i \in 1 .. (k + 1) PROVE Unpacks(event, At(i))
    BY DEF Clean
  <2>1. CASE i = 1
    BY <1>1, <1>5, <2>1
  <2>2. CASE i # 1
    <3>1. i - 1 \in 1 .. k /\ i - 1 \in 1 .. Size' /\ (i - 1) + 1 = i
      BY <1>2, <1>4, <2>2
    <3>2. Unpacks(event', At(i - 1)')
      BY <1>7, <3>1 DEF Clean
    <3>3. At(i - 1)' = At(i)
      BY <1>6, <3>1
    <3> QED
      BY <1>0, <3>2, <3>3
  <2> QED
    BY <2>1, <2>2
<1>8. /\ \A k \in 1 .. Size : Clean(k) => /\ Len(sent) + k =< Len(wanted)
                                           /\ wanted[Len(sent) + k] = Unpack(event, At(k))
      /\ upstream \in {"none", "live"} /\ Clean(Size) => Len(wanted) = Len(sent) + Size
  BY <1>1 DEF Flow
<1> HIDE DEF At, Clean, Size
<1>9. ASSUME NEW k \in 1 .. Size', Clean(k)'
      PROVE  /\ Len(sent') + k =< Len(wanted)
             /\ wanted[Len(sent') + k] = Unpack(event, At(k)')
  <2>1. /\ k \in 0 .. Size' /\ k + 1 \in 1 .. Size
        /\ Len(sent') + k = Len(sent) + (k + 1)
    BY <1>2, <1>3, <1>4
  <2>2. Clean(k + 1)
    BY <1>7, <1>9, <2>1
  <2>3. At(k)' = At(k + 1)
    BY <1>6
  <2> QED
    BY <1>8, <2>1, <2>2, <2>3
<1>10. ASSUME upstream \in {"none", "live"}, Clean(Size)'
       PROVE  Len(wanted) = Len(sent') + Size'
  <2>1. PICK n \in Nat : n = Size'
    BY <1>2, <1>4
  <2>2. Clean(n)'
    BY <1>10, <2>1 DEF Clean
  <2>3. n \in 0 .. Size' /\ n + 1 = Size
    BY <1>2, <1>4, <2>1
  <2>4. Clean(Size)
    BY <1>7, <2>2, <2>3
  <2> QED
    BY <1>2, <1>3, <1>4, <1>8, <1>10, <2>4
<1> QED
  BY <1>0, <1>9, <1>10 DEF Flow

\* Every step keeps the logs together.
LEMMA FlowNext ==
    ASSUME Inv, Next
    PROVE  Flow'
<1> USE DEF Inv
<1>0. ASSUME result' # "none" PROVE Flow'
  BY <1>0 DEF Flow
<1>1. CASE Watch
  BY <1>1, FlowStays DEF Watch, Life, input, emitted
<1>2. CASE Emit
  BY <1>2, EmitFlow
<1>3. CASE Arrive
  BY <1>3, ArriveFlow
<1>4. CASE NodeEnds
  BY <1>4, FlowStays DEF NodeEnds, input, emitted, goroutine
<1>5. CASE TakeLog
  BY <1>5, TakeLogFlow
<1>6. CASE Send
  BY <1>6, SendFlow
<1>7. CASE SubEnded \/ Quit
  BY <1>0, <1>7 DEF SubEnded, Quit, Return
<1>8. CASE Deferred \/ Finish
  BY <1>0, <1>8 DEF Deferred, Finish, Life
<1>9. CASE Read \/ ReadErr \/ Unsubscribe \/ UnsubscribeReturns
  BY <1>9, FlowStays
  DEF Read, ReadErr, Unsubscribe, UnsubscribeReturns, input, node, emitted, goroutine
<1>10. CASE Finished
  BY <1>10, FlowStays DEF Finished, vars
<1> QED
  BY <1>1, <1>2, <1>3, <1>4, <1>5, <1>6, <1>7, <1>8, <1>9, <1>10
  DEF Next, Goroutine, Caller, Node

-----------------------------------------------------------------------------
(* Theorems.                                                               *)

\* The invariant holds initially.
LEMMA InitInv == Init => Inv
<1> SUFFICES ASSUME Init PROVE Inv
  OBVIOUS
<1>1. TypeOK /\ SentType
  <2>1. <<>> \in Seq(Logs(event)) /\ <<>> \in Seq({Unpack(event, l) : l \in Logs(event)})
        /\ Len(<<>>) = 0
    OBVIOUS
  <2>2. Capacity \in Nat /\ SinkSize \in Nat
    BY WatchAssumption DEF WatchAssumption
  <2>3. /\ chain \in Seq(Logs(event)) /\ coming \in Seq(Logs(event))
        /\ wanted \in Seq({Unpack(event, l) : l \in Logs(event)})
        /\ logs \in Seq(Logs(event)) /\ Len(logs) =< Capacity
        /\ read =< Len(sent) /\ Len(sent) =< read + SinkSize
    BY <2>1, <2>2 DEF Init
  <2>4. SentType
    BY <2>1 DEF Init, SentType
  <2> QED
    BY <2>3, <2>4 DEF Init, TypeOK
<1>2. Life /\ Endings
  BY DEF Init, Life, Endings
<1>3. Len(logs) = 0 /\ Len(coming) = 0 /\ Len(sent) = 0 /\ Len(wanted) = 0 /\ Holds = 0
  BY DEF Init, Holds
<1>4. Flow
  BY <1>3 DEF Flow, Size
<1> QED
  BY <1>1, <1>2, <1>4 DEF Inv

\* Every step keeps the invariant.
LEMMA NextInv == Inv /\ [Next]_vars => Inv'
<1> SUFFICES ASSUME Inv, [Next]_vars PROVE Inv'
  OBVIOUS
<1>1. CASE Next
  BY <1>1, TypeNext, LifeNext, FlowNext DEF Inv
<1>2. CASE UNCHANGED vars
  <2>1. TypeOK' /\ SentType'
    BY <1>2 DEF Inv, vars, TypeOK, SentType
  <2>2. Life' /\ Endings'
    BY <1>2 DEF Inv, vars, Life, Endings
  <2>3. Flow'
    BY <1>2, FlowStays DEF Inv, vars
  <2> QED
    BY <2>1, <2>2, <2>3 DEF Inv
<1> QED
  BY <1>1, <1>2

\* The inductive invariant holds in every reachable state of a watch.
THEOREM Invariance == Spec => []Inv
  BY InitInv, NextInv, PTL DEF Spec

\* The channels never hold more than their capacity, whatever the capacities and
\* the order of node, goroutine and caller; and every variable keeps its type.
THEOREM TypesHold == Spec => []TypeOK
<1>1. Inv => TypeOK
  BY DEF Inv
<1> QED
  BY <1>1, Invariance, PTL

\* When Unsubscribe has returned, the goroutine of WatchX has run its deferred
\* call: it writes to the sink no more, and the node's subscription is closed.
THEOREM StopReleases == Spec => []StoppedReleases
<1>1. Inv => StoppedReleases
  BY DEF Inv, Life, StoppedReleases
<1> QED
  BY <1>1, Invariance, PTL

\* A caller of WatchX that gets nil from Err() has a client that was closed: no
\* error of the connection or of UnpackLog is lost on the way.
THEOREM ErrorsAreTold == Spec => []ErrorIsTold
<1>1. Inv => ErrorIsTold
  BY DEF Inv, Endings, ErrorIsTold
<1> QED
  BY <1>1, Invariance, PTL

-----------------------------------------------------------------------------
(* The refinement of LogDelivery.                                          *)

\* The chain logs one more event: the wanted events grow by at most one.
LEMMA EmitGrows ==
    ASSUME TypeOK, Emit
    PROVE  Delivery!Grow \/ wanted' = wanted
<1>0. UNCHANGED <<result, sent>>
  BY DEF Emit, goroutine
<1>1. PICK l \in Logs(event) :
          wanted' = IF Wanted(event, args, l) THEN Append(wanted, Unpack(event, l))
                    ELSE wanted
  BY DEF Emit
<1>2. wanted \in Seq({Unpack(event, k) : k \in Logs(event)})
  BY DEF TypeOK
<1>3. CASE wanted' = Append(wanted, Unpack(event, l))
  <2>1. Len(wanted') = Len(wanted) + 1 /\ SubSeq(wanted', 1, Len(wanted)) = wanted
    BY <1>2, <1>3
  <2> QED
    BY <1>0, <2>1 DEF Delivery!Grow
<1> QED
  BY <1>1, <1>3

\* The event sent is the next of the wanted ones.
LEMMA SendDelivers ==
    ASSUME Inv, Send
    PROVE  Delivery!Deliver
<1>0. /\ pc = "send" /\ sent' = Append(sent, Unpack(event, held))
      /\ UNCHANGED <<event, wanted, result>>
  BY DEF Send, input, node, emitted
<1>1. result = "none" /\ Unpacks(event, held)
  BY <1>0 DEF Inv, Life, SentType
<1>2. /\ Len(sent) \in Nat /\ Len(wanted) \in Nat
      /\ Len(logs) \in Nat /\ Len(coming) \in Nat
  BY Lengths DEF Inv
<1>3. Holds = 1 /\ At(1) = held
  BY <1>0 DEF Holds, At
<1>4. 1 \in 1 .. Size
  BY <1>2, <1>3 DEF Size
<1>5. Clean(1)
  BY <1>1, <1>3 DEF Clean
<1>6. Len(sent) + 1 =< Len(wanted) /\ wanted[Len(sent) + 1] = Unpack(event, held)
  BY <1>1, <1>3, <1>4, <1>5 DEF Inv, Flow
<1>7. Len(sent) < Len(wanted)
  BY <1>2, <1>6
<1> QED
  BY <1>0, <1>1, <1>6, <1>7 DEF Delivery!Deliver

\* Every step is one of LogDelivery or a stutter.
LEMMA StepRefines ==
    ASSUME Inv, [Next]_vars
    PROVE  [Delivery!Next]_<<wanted, sent, IF result = "none" THEN "open" ELSE "stopped">>
<1> DEFINE state == IF result = "none" THEN "open" ELSE "stopped"
<1>0. ASSUME UNCHANGED <<wanted, sent, result>>
      PROVE  UNCHANGED <<wanted, sent, state>>
  BY <1>0
<1>1. ASSUME UNCHANGED <<wanted, sent>>, result = "none", result' # "none"
      PROVE  Delivery!Stop
  BY <1>1 DEF Delivery!Stop
<1>2. CASE Emit
  <2>1. UNCHANGED <<sent, result>>
    BY <1>2 DEF Emit, goroutine
  <2> QED
    BY <1>2, <2>1, EmitGrows DEF Inv, Delivery!Next
<1>3. CASE Send
  BY <1>3, SendDelivers DEF Delivery!Next
<1>4. CASE TakeLog
  <2>1. UNCHANGED <<wanted, sent>> /\ result = "none"
    BY <1>4 DEF TakeLog, node, emitted, Inv, Life
  <2>2. result' = result \/ result' = "error"
    BY <1>4 DEF TakeLog, Return
  <2> QED
    BY <1>0, <1>1, <2>1, <2>2 DEF Delivery!Next
<1>5. CASE SubEnded \/ Quit
  <2>1. UNCHANGED <<wanted, sent>> /\ result = "none" /\ result' # "none"
    BY <1>5 DEF SubEnded, Quit, Return, node, emitted, Inv, Life
  <2> QED
    BY <1>1, <2>1 DEF Delivery!Next
<1>6. CASE Watch \/ Arrive \/ NodeEnds \/ Deferred \/ Finish
  <2>1. UNCHANGED <<wanted, sent, result>>
    BY <1>6 DEF Watch, Arrive, NodeEnds, Deferred, Finish, node, emitted, goroutine
  <2> QED
    BY <1>0, <2>1
<1>7. CASE Read \/ ReadErr \/ Unsubscribe \/ UnsubscribeReturns
  <2>1. UNCHANGED <<wanted, sent, result>>
    BY <1>7 DEF Read, ReadErr, Unsubscribe, UnsubscribeReturns, node, emitted, goroutine
  <2> QED
    BY <1>0, <2>1
<1>8. CASE Finished \/ UNCHANGED vars
  <2>1. UNCHANGED <<wanted, sent, result>>
    BY <1>8 DEF Finished, vars
  <2> QED
    BY <1>0, <2>1
<1> QED
  BY <1>2, <1>3, <1>4, <1>5, <1>6, <1>7, <1>8 DEF Next, Goroutine, Caller, Node

\* WatchX implements LogDelivery: for each of the events, any arguments and logs,
\* any capacities and any order of node, goroutine and caller, the sink gets the
\* wanted events in the order of the chain, none twice and none skipped.
THEOREM WatchDelivers == Spec => ImplementsDelivery
<1>1. Init => Delivery!Init
  BY DEF Init, Delivery!Init
<1> QED
  BY <1>1, Invariance, StepRefines, PTL
  DEF Spec, ImplementsDelivery, Delivery!Spec
=============================================================================
