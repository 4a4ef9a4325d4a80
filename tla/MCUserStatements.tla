-------------------------- MODULE MCUserStatements --------------------------
(* Instances of UserStatements for TLC.                                    *)
EXTENDS UserStatements

Lists == {<<"ethereum_challenge">>, <<"ethereum_challenge_sent">>,
          <<"id", "created_at", "ethereum_challenge_sent">>}
SomeColumns == {[kind |-> k, cols |-> <<>>] : k \in {"none", "infer"}}
               \cup [kind : {"whitelist", "blacklist", "greylist"}, cols : Lists]
Infer == [kind |-> "infer", cols |-> <<>>]

Call(op, insert, update, on, conflict, opts) ==
    [op |-> op, insert |-> insert, update |-> update, updateOnConflict |-> on,
     conflict |-> conflict, opts |-> opts]

Inserts == {Call("insert", c, Infer, FALSE, <<>>, NoOptions) : c \in SomeColumns}
Updates == {Call("update", Infer, c, FALSE, <<>>, NoOptions) : c \in SomeColumns}

\* What an INSERT can be complete with, and some updates.
UpsertColumns(on, conflict, opts) ==
    {Call("upsert", i, u, on, conflict, opts) :
        i \in {c \in SomeColumns : c = Infer \/ (c.kind # "blacklist" /\ Len(c.cols) = 3)},
        u \in {c \in SomeColumns : c.kind \notin {"blacklist", "greylist"} /\ Len(c.cols) < 2}}

\* With options: one column is updated instead of those of the call, or the conflict
\* target is a column without a unique index.
OneColumn == [NoOptions EXCEPT !.updateSet = <<"ethereum_challenge">>]
NoIndex   == [NoOptions EXCEPT !.conflictTarget = <<"ethereum_challenge">>]
Upserts ==
    UNION {UpsertColumns(on, conflict, NoOptions) :
              on \in BOOLEAN, conflict \in {<<>>, <<"id">>}}
    \cup UNION {UpsertColumns(TRUE, <<>>, opts) : opts \in {OneColumn, NoIndex}}

Symmetry == Permutations(Goroutine)

SomeCalls == Inserts \cup Updates \cup Upserts
=============================================================================
