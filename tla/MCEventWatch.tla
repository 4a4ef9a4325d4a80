---------------------------- MODULE MCEventWatch ----------------------------
(* Instances of EventWatch for TLC.                                        *)
EXTENDS EventWatch

AllEvents == TokenEvents \cup MultiPrivilegeEvents

\* All topics equal; and, for the events with fewer than three indexed inputs, a log
\* that does not decode.
SomeLogs(e) ==
    LET Is(v, data) ==
            [name |-> e.name, topics |-> [i \in DOMAIN e.inputs |-> v], data |-> data]
    IN  {Is(v, TRUE) : v \in Value}
        \cup (IF Len(e.inputs) = 3 THEN {} ELSE {Is(CHOOSE v \in Value : TRUE, FALSE)})
=============================================================================
