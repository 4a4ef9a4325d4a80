--------------------------- MODULE MCEventIterator --------------------------
(* Instances of EventIterator for TLC.                                     *)
EXTENDS EventIterator

AllEvents == TokenEvents \cup MultiPrivilegeEvents

\* Logs whose topics are equal or differ in one position; a log of another event;
\* for the events with fewer than three indexed inputs, one with data that does not
\* decode and one that indexes one more input.
SomeLogs(e) ==
    LET n == Len(e.inputs)
        Is(name, topics, data) == [name |-> name, topics |-> topics, data |-> data]
        Same(k) == [i \in 1 .. k |-> CHOOSE v \in Value : TRUE]
        One(k) == {t \in [1 .. k -> Value] :
                      \A i, j \in 1 .. k : t[i] # Same(k)[i] /\ t[j] # Same(k)[j] => i = j}
    IN  {Is(e.name, t, TRUE) : t \in One(n)}
        \cup {Is("Other", Same(n), TRUE)}
        \cup (IF n = 3 THEN {} ELSE {Is(e.name, Same(n), FALSE),
                                     Is(e.name, Same(n + 1), TRUE)})
=============================================================================
