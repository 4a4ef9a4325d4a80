---------------------------- MODULE MCMigrations ----------------------------
(* Instances of Migrations for TLC.                                        *)
EXTENDS Migrations

CONSTANTS r1, r2

\* One pod from any version, and two from any version after the last file that
\* drops what earlier files add.
SafeStarts ==
    [version : 0 .. Last, pods : {{r1}}] \cup [version : 16 .. Last, pods : {{r1, r2}}]

TwoPodsAtOnce == {[version |-> 0, pods |-> {r1, r2}]}
=============================================================================
