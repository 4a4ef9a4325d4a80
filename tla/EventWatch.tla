----------------------------- MODULE EventWatch -----------------------------
(***************************************************************************)
(* WatchX of a contract binding, for any event X.  The goroutine it starts *)
(* moves the logs of the node's subscription into the caller's sink until  *)
(* that subscription ends, a log cannot be unpacked, or the caller         *)
(* unsubscribes.  event.NewSubscription (go-ethereum) runs the goroutine   *)
(* and gives the caller Err() and Unsubscribe().                           *)
(***************************************************************************)
EXTENDS ContractLogs

CONSTANTS Events,     \* events of the bindings
          Logs(_),    \* logs the contract may emit
          MaxLogs,    \* bound on the logs emitted while the caller watches
          Capacity,   \* of the channel of logs, 128 in bind.WatchLogs
          SinkSize    \* capacity of the caller's sink

ASSUME WatchAssumption ==
    /\ Events \subseteq TokenEvents \cup MultiPrivilegeEvents
    /\ \A e \in Events : Logs(e) \subseteq Log
    /\ MaxLogs \in Nat /\ Capacity \in Nat \ {0} /\ SinkSize \in Nat \ {0}

VARIABLES event, args,  \* what the caller asked for
          chain,        \* history: the logs emitted since the call
          wanted,       \* history: the events among them that the caller wants
          coming,       \* those the node owes the subscription
          logs,         \* the channel of logs
          upstream,     \* the node's subscription: "none", "live", "error" or
                        \* "nil" (its Err() has that value), "closed"
          ended,        \* history: how the node's subscription ended by itself
          pc,           \* where the goroutine is
          held,         \* the log it is handling
          result,       \* what it has returned
          unsubscribed, err,  \* fields of the subscription: flag and channel
          caller, told, \* where the caller is, and what Err() gave it
          sent, read    \* history: the events sent to the sink; number read

vars == <<event, args, chain, wanted, coming, logs, upstream, ended, pc, held, result,
          unsubscribed, err, caller, told, sent, read>>

input == <<event, args>>
emitted == <<chain, wanted>>
node == <<emitted, coming, upstream, ended>>
goroutine == <<pc, held, result>>
sub == <<unsubscribed, err>>
user == <<caller, told, read>>

NoLog == [name |-> "none"]

TypeOK ==
    /\ event \in Events /\ args \in Arguments(event)
    /\ chain \in Seq(Logs(event)) /\ coming \in Seq(Logs(event))
    /\ wanted \in Seq({Unpack(event, l) : l \in Logs(event)})
    /\ logs \in Seq(Logs(event)) /\ Len(logs) =< Capacity
    /\ upstream \in {"none", "live", "error", "nil", "closed"}
    /\ ended \in {"no", "error", "nil"}
    /\ pc \in {"none", "select", "send", "returning", "returned", "over"}
    /\ held \in Logs(event) \cup {NoLog} /\ result \in {"none", "nil", "error"}
    /\ unsubscribed \in BOOLEAN /\ err \in {"open", "error", "closed"}
    /\ caller \in {"new", "watching", "unsubscribing", "stopped"}
    /\ told \in {"none", "nil", "error"}
    /\ read =< Len(sent) /\ Len(sent) =< read + SinkSize

Init ==
    /\ event \in Events /\ args \in Arguments(event)
    /\ chain = <<>> /\ wanted = <<>> /\ coming = <<>> /\ logs = <<>>
    /\ sent = <<>> /\ read = 0
    /\ upstream = "none" /\ ended = "no"
    /\ pc = "none" /\ held = NoLog /\ result = "none"
    /\ unsubscribed = FALSE /\ err = "open"
    /\ caller = "new" /\ told = "none"

\* WatchLogs subscribes at the node, and the goroutine is started; or the node's
\* error is returned, and nothing is left behind.
Watch ==
    /\ caller = "new"
    /\ \/ /\ upstream' = "live" /\ pc' = "select" /\ caller' = "watching"
       \/ UNCHANGED <<upstream, pc, caller>>
    /\ UNCHANGED <<input, emitted, coming, ended, logs, held, result, sub, told, sent, read>>

-----------------------------------------------------------------------------
(* The node and its subscription (external).                               *)

Emit ==
    /\ upstream # "none" /\ Len(chain) < MaxLogs
    /\ \E l \in Logs(event) :
          /\ chain' = Append(chain, l)
          /\ wanted' = IF Wanted(event, args, l) THEN Append(wanted, Unpack(event, l))
                       ELSE wanted
          /\ coming' = IF upstream = "live" /\ Matches(event, Query(event, args), l)
                       THEN Append(coming, l) ELSE coming
    /\ UNCHANGED <<input, upstream, ended, logs, goroutine, sub, user, sent>>

Arrive ==
    /\ upstream = "live" /\ coming # <<>> /\ Len(logs) < Capacity
    /\ logs' = Append(logs, Head(coming))
    /\ coming' = Tail(coming)
    /\ UNCHANGED <<input, emitted, upstream, ended, goroutine, sub, user, sent>>

\* The connection breaks ("error") or the client is closed ("nil").
NodeEnds ==
    /\ upstream = "live"
    /\ ended' \in {"error", "nil"} /\ upstream' = ended'
    /\ UNCHANGED <<input, emitted, coming, logs, goroutine, sub, user, sent>>

-----------------------------------------------------------------------------
(* The goroutine.                                                          *)

Return(r) == pc' = "returning" /\ result' = r /\ held' = NoLog

\* Mutant: the error of UnpackLog is not looked at.
TakeAnyLog ==
    /\ pc = "select" /\ logs # <<>>
    /\ logs' = Tail(logs)
    /\ held' = Head(logs) /\ pc' = "send"
    /\ UNCHANGED <<input, node, result, sub, user, sent>>

\* Mutant: the receive from logs is outside the loop.
TakeOneLog ==
    /\ pc = "select" /\ logs # <<>> /\ sent = <<>>
    /\ logs' = Tail(logs)
    /\ \/ /\ Unpacks(event, Head(logs))
          /\ held' = Head(logs) /\ pc' = "send" /\ UNCHANGED result
       \/ ~Unpacks(event, Head(logs)) /\ Return("error")
    /\ UNCHANGED <<input, node, sub, user, sent>>

\* case log := <-logs
TakeLog ==
    /\ pc = "select" /\ logs # <<>>
    /\ logs' = Tail(logs)
    /\ \/ /\ Unpacks(event, Head(logs))
          /\ held' = Head(logs) /\ pc' = "send" /\ UNCHANGED result
       \/ ~Unpacks(event, Head(logs)) /\ Return("error")
    /\ UNCHANGED <<input, node, sub, user, sent>>

\* Mutant: the event is handed over without waiting for the caller.
SendAlways ==
    /\ pc = "send"
    /\ sent' = Append(sent, Unpack(event, held))
    /\ pc' = "select" /\ held' = NoLog
    /\ UNCHANGED <<input, node, logs, result, sub, user>>

\* case sink <- event
Send ==
    /\ pc = "send" /\ Len(sent) < read + SinkSize
    /\ sent' = Append(sent, Unpack(event, held))
    /\ pc' = "select" /\ held' = NoLog
    /\ UNCHANGED <<input, node, logs, result, sub, user>>

\* Mutant: the error is not passed on.
SubEndedNil ==
    /\ pc \in {"select", "send"} /\ upstream \in {"error", "nil"}
    /\ Return("nil")
    /\ UNCHANGED <<input, node, logs, sub, user, sent>>

\* case err := <-sub.Err(), of either select
SubEnded ==
    /\ pc \in {"select", "send"} /\ upstream \in {"error", "nil"}
    /\ Return(upstream)
    /\ UNCHANGED <<input, node, logs, sub, user, sent>>

\* Mutant: the inner select does not look at quit.
QuitIdle ==
    /\ pc = "select" /\ unsubscribed
    /\ Return("nil")
    /\ UNCHANGED <<input, node, logs, sub, user, sent>>

\* case <-quit, of either select
Quit ==
    /\ pc \in {"select", "send"} /\ unsubscribed
    /\ Return("nil")
    /\ UNCHANGED <<input, node, logs, sub, user, sent>>

\* Mutant: the deferred call is missing.
NoDefer ==
    /\ pc = "returning"
    /\ pc' = "returned"
    /\ UNCHANGED <<input, node, logs, held, result, sub, user, sent>>

\* defer sub.Unsubscribe()
Deferred ==
    /\ pc = "returning"
    /\ upstream' = "closed" /\ coming' = <<>>
    /\ pc' = "returned"
    /\ UNCHANGED <<input, emitted, ended, logs, held, result, sub, user, sent>>

\* event.NewSubscription: the result is kept for Err() unless the caller has
\* unsubscribed, and Err() is closed (external).
Finish ==
    /\ pc = "returned"
    /\ unsubscribed' = TRUE
    /\ err' = IF ~unsubscribed /\ result = "error" THEN "error" ELSE "closed"
    /\ pc' = "over"
    /\ UNCHANGED <<input, node, logs, held, result, user, sent>>

-----------------------------------------------------------------------------
(* The caller.                                                             *)

Read ==
    /\ read < Len(sent)
    /\ read' = read + 1
    /\ UNCHANGED <<input, node, logs, goroutine, sub, caller, told, sent>>

\* A receive from Err() while watching.
ReadErr ==
    /\ caller = "watching" /\ told = "none" /\ err # "open"
    /\ told' = IF err = "error" THEN "error" ELSE "nil"
    /\ err' = "closed"
    /\ UNCHANGED <<input, node, logs, goroutine, unsubscribed, caller, sent, read>>

\* Unsubscribe: closes quit and waits until Err() is closed, unless the flag is
\* set already (external).
Unsubscribe ==
    /\ caller = "watching"
    /\ unsubscribed' = TRUE
    /\ caller' = IF unsubscribed THEN "stopped" ELSE "unsubscribing"
    /\ UNCHANGED <<input, node, logs, goroutine, err, told, sent, read>>

UnsubscribeReturns ==
    /\ caller = "unsubscribing" /\ err # "open"
    /\ caller' = "stopped"
    /\ UNCHANGED <<input, node, logs, goroutine, sub, told, sent, read>>

-----------------------------------------------------------------------------
Goroutine == TakeLog \/ Send \/ SubEnded \/ Quit \/ Deferred \/ Finish
Caller == Watch \/ Read \/ ReadErr \/ Unsubscribe \/ UnsubscribeReturns
Node == Emit \/ Arrive \/ NodeEnds
\* Nobody has anything left to do.
Finished == caller = "stopped" /\ pc = "over" /\ UNCHANGED vars

Next == Goroutine \/ Caller \/ Node \/ Finished

Spec == Init /\ [][Next]_vars

\* The goroutines run; the caller may never read its sink.
FairSpec == Spec /\ WF_vars(Goroutine) /\ WF_vars(UnsubscribeReturns)

\* The node delivers, and the caller reads.
Reading == WF_vars(Arrive) /\ WF_vars(Read)

-----------------------------------------------------------------------------
(* Properties.                                                             *)

\* What the caller finds in its sink is what LogDelivery promises: the events it
\* wants, in the order of the chain, none skipped while the subscription lasts,
\* and nothing after the goroutine has returned.
Delivery == INSTANCE LogDelivery
                WITH wanted <- wanted, delivered <- sent,
                     state <- IF result = "none" THEN "open" ELSE "stopped"
ImplementsDelivery == Delivery!Spec

\* When Unsubscribe has returned, the goroutine is over and so is the node's
\* subscription: nothing writes to a sink that the caller may now close, and the
\* node does not go on sending.
StoppedReleases == caller = "stopped" => pc \in {"returned", "over"} /\ upstream = "closed"

\* A caller that reads nil from Err() knows that the client was closed: a broken
\* connection, or a log that cannot be unpacked, is never taken for a regular end.
ErrorIsTold == told = "nil" => ended = "nil"

\* Unsubscribe returns, whether or not anybody reads the sink.
UnsubscribeEnds == (caller = "unsubscribing") ~> (caller = "stopped")

\* If the node delivers and the caller reads, every wanted event gets to the sink
\* while the subscription lasts.
EventsArrive ==
    Reading => \A n \in 1 .. MaxLogs :
        (Len(wanted) >= n) ~>
            \/ Len(sent) >= n
            \/ ended # "no" \/ caller # "watching"
            \/ \E i \in DOMAIN chain : /\ Matches(event, Query(event, args), chain[i])
                                      /\ ~Unpacks(event, chain[i])
=============================================================================
