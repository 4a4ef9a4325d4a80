----------------------------- MODULE LogDelivery ----------------------------
(***************************************************************************)
(* What the event code of a contract binding promises to its caller: the   *)
(* wanted events, in the order of the chain, each once, none left out; and *)
(* if it says that there are no more, all of them.                         *)
(***************************************************************************)
EXTENDS Naturals, Sequences

VARIABLES wanted,     \* the wanted events the chain has logged so far
          delivered,  \* the events the caller has been given
          state       \* "open"; "complete": no more; "stopped": given up

Init == delivered = <<>> /\ state = "open"

\* The chain logs another event the caller wants.
Grow ==
    /\ Len(wanted') = Len(wanted) + 1
    /\ SubSeq(wanted', 1, Len(wanted)) = wanted
    /\ UNCHANGED <<delivered, state>>

Deliver ==
    /\ state = "open"
    /\ Len(delivered) < Len(wanted)
    /\ delivered' = Append(delivered, wanted[Len(delivered) + 1])
    /\ UNCHANGED <<wanted, state>>

Complete ==
    /\ state = "open" /\ delivered = wanted
    /\ state' = "complete"
    /\ UNCHANGED <<wanted, delivered>>

\* An error, or the caller's own wish.
Stop ==
    /\ state = "open"
    /\ state' = "stopped"
    /\ UNCHANGED <<wanted, delivered>>

Next == Grow \/ Deliver \/ Complete \/ Stop

Spec == Init /\ [][Next]_<<wanted, delivered, state>>
=============================================================================
