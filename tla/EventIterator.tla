---------------------------- MODULE EventIterator ---------------------------
(***************************************************************************)
(* FilterX of a contract binding and the iterator it returns, for any event*)
(* X.  The caller's goroutine runs Next and Close; a goroutine started by  *)
(* bind.FilterLogs feeds the logs that the node has returned into a channel*)
(* and closes the subscription's error channel when it ends.               *)
(***************************************************************************)
EXTENDS ContractLogs, FiniteSets

CONSTANTS Events,     \* events of the bindings
          Logs(_),    \* logs the contract may have for a query of the event
          MaxLogs,    \* bound on the logs in the range of the query
          Capacity    \* of the channel, 128 in bind.FilterLogs

ASSUME IteratorAssumption ==
    /\ Events \subseteq TokenEvents \cup MultiPrivilegeEvents
    /\ \A e \in Events : Logs(e) \subseteq Log
    /\ MaxLogs \in Nat /\ Capacity \in Nat \ {0}

VARIABLES event, args,  \* what the caller asked for
          chain,        \* the logs in the range of blocks asked for
          found,        \* those the node returned and the goroutine still has
          logs,         \* the channel it.logs
          running,      \* the goroutine has not ended (it.sub.Err() is open)
          unsubscribed, \* the subscription's flag, set by Close or at the end
          done, fail,   \* fields of the iterator
          pc,           \* where the caller is
          last,         \* what Next returned last
          cut,          \* Close was called before Next returned false
          delivered     \* history: the events Next has presented

vars == <<event, args, chain, found, logs, running, unsubscribed, done, fail,
          pc, last, cut, delivered>>

iter == <<done, fail, last, delivered>>
input == <<event, args, chain>>

TypeOK ==
    /\ event \in Events /\ args \in Arguments(event)
    /\ chain \in Seq(Logs(event)) /\ found \in Seq(Logs(event))
    /\ logs \in Seq(Logs(event)) /\ Len(logs) =< Capacity
    /\ {running, unsubscribed, done, fail, cut} \subseteq BOOLEAN
    /\ pc \in {"new", "refused", "idle", "next", "closing"}
    /\ last \in {"none", "true", "false"}

Init ==
    /\ event \in Events /\ args \in Arguments(event)
    /\ chain \in UNION {[1 .. n -> Logs(event)] : n \in 0 .. MaxLogs}
    /\ found = <<>> /\ logs = <<>> /\ delivered = <<>>
    /\ running = FALSE /\ unsubscribed = FALSE /\ cut = FALSE
    /\ done = FALSE /\ fail = FALSE
    /\ pc = "new" /\ last = "none"

Logged == {chain[i] : i \in DOMAIN chain}

\* Filter: the node answers the query, and the goroutine is started; or the call
\* returns the node's error.
Filter ==
    /\ pc \in {"new", "refused"}
    /\ \/ /\ found' = Among(chain, {l \in Logged : Matches(event, Query(event, args), l)})
          /\ running' = TRUE
          /\ pc' = "idle"
       \/ pc' = "refused" /\ UNCHANGED <<found, running>>
    /\ UNCHANGED <<input, logs, unsubscribed, iter, cut>>

-----------------------------------------------------------------------------
(* The goroutine of bind.FilterLogs (external).                            *)

\* Mutant: a channel without a bound.
PushAlways ==
    /\ running /\ found # <<>>
    /\ logs' = Append(logs, Head(found))
    /\ found' = Tail(found)
    /\ UNCHANGED <<input, running, unsubscribed, iter, pc, cut>>

Push ==
    /\ running /\ found # <<>> /\ Len(logs) < Capacity
    /\ logs' = Append(logs, Head(found))
    /\ found' = Tail(found)
    /\ UNCHANGED <<input, running, unsubscribed, iter, pc, cut>>

\* It has delivered everything, or is told to quit.
End ==
    /\ running /\ (found = <<>> \/ unsubscribed)
    /\ running' = FALSE /\ unsubscribed' = TRUE
    /\ UNCHANGED <<input, found, logs, iter, pc, cut>>

-----------------------------------------------------------------------------
(* The caller.                                                             *)

CallNext ==
    /\ pc = "idle"
    /\ pc' = "next"
    /\ UNCHANGED <<input, found, logs, running, unsubscribed, iter, cut>>

Returns(b) == pc' = "idle" /\ last' = b

\* Receive from it.logs, in progress or draining; a log that cannot be unpacked
\* is the end.
TakeLog ==
    /\ pc = "next" /\ ~fail /\ logs # <<>>
    /\ logs' = Tail(logs)
    /\ \/ /\ Unpacks(event, Head(logs))
          /\ delivered' = Append(delivered, Unpack(event, Head(logs)))
          /\ Returns("true")
          /\ UNCHANGED fail
       \/ /\ ~Unpacks(event, Head(logs))
          /\ fail' = TRUE
          /\ Returns("false")
          /\ UNCHANGED delivered
    /\ UNCHANGED <<input, found, running, unsubscribed, done, cut>>

\* Mutant: done is not set, and Next calls itself for ever.
SubEndedForgotten == pc = "next" /\ ~fail /\ ~done /\ ~running /\ UNCHANGED vars

\* Receive from the closed it.sub.Err(): done, err is nil, and Next is called again.
SubEnded ==
    /\ pc = "next" /\ ~fail /\ ~done /\ ~running
    /\ done' = TRUE
    /\ UNCHANGED <<input, found, logs, running, unsubscribed, fail, pc, last, cut,
                   delivered>>

\* Failed before, or done and the channel is empty.
NoMore ==
    /\ pc = "next" /\ (fail \/ (done /\ logs = <<>>))
    /\ Returns("false")
    /\ UNCHANGED <<input, found, logs, running, unsubscribed, done, fail, cut,
                   delivered>>

\* Mutant: Unsubscribe does not wait.
CloseAtOnce ==
    /\ pc = "idle"
    /\ unsubscribed' = TRUE
    /\ cut' = (cut \/ last # "false")
    /\ UNCHANGED <<input, found, logs, running, iter, pc>>

\* Close, that is, Unsubscribe: returns at once if the goroutine has ended or was
\* told so before.
Close ==
    /\ pc = "idle"
    /\ cut' = (cut \/ last # "false")
    /\ unsubscribed' = TRUE
    /\ pc' = IF unsubscribed THEN "idle" ELSE "closing"
    /\ UNCHANGED <<input, found, logs, running, iter>>

CloseReturns ==
    /\ pc = "closing" /\ ~running
    /\ pc' = "idle"
    /\ UNCHANGED <<input, found, logs, running, unsubscribed, iter, cut>>

CallerStep == TakeLog \/ SubEnded \/ NoMore \/ CloseReturns
Next == Filter \/ Push \/ End \/ CallNext \/ CallerStep \/ Close

Spec == Init /\ [][Next]_vars

\* Both goroutines run; nothing is assumed about the calls the caller makes.
FairSpec == Spec /\ WF_vars(Push \/ End) /\ WF_vars(CallerStep)

-----------------------------------------------------------------------------
(* Properties.                                                             *)

\* The iterator delivers what LogDelivery promises: the events whose fields the
\* arguments admit, in the order of the chain, whatever the goroutines' order and
\* the size of the channel; all of them if Next returns false, Error() is nil and
\* the caller has not closed the iterator.
WantedEvents ==
    LET w == Among(chain, {l \in Logged : Wanted(event, args, l)})
    IN  [i \in DOMAIN w |-> Unpack(event, w[i])]
State ==
    IF last # "false" THEN "open" ELSE IF fail \/ cut THEN "stopped" ELSE "complete"
Delivery == INSTANCE LogDelivery
                WITH wanted <- WantedEvents, delivered <- delivered, state <- State
ImplementsDelivery == Delivery!Spec

\* "Close terminates the iteration process, releasing any pending underlying
\* resources": when Close has returned, the goroutine has ended, also if it was
\* blocked on a full channel.
ClosedReleases == unsubscribed /\ pc \in {"idle", "next"} => ~running

\* Next and Close return: the caller and the goroutine never wait for each other.
CallsReturn == (pc \in {"next", "closing"}) ~> (pc = "idle")
=============================================================================
