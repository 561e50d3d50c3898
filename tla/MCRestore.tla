------------------------------- MODULE MCRestore -------------------------------
(* Instances of Restore for TLC.                                           *)
EXTENDS RestoreInvariant

CONSTANTS r1, r2, key, knowledge

TwoRestores == {r1, r2}
Profiles == {Db, Wal, key, knowledge}
Directories == {knowledge}
\* r1 includes the knowledge directory, r2 was made without it.
TwoCovers == [r \in TwoRestores |-> IF r = r1 THEN {Db, key, knowledge} ELSE {Db, key}]
Order == [n \in Profiles |->
            IF n = Db THEN 1 ELSE IF n = Wal THEN 2 ELSE IF n = key THEN 3 ELSE 4]

\* Every point of a start.
AllPoints == Pcs \ {"down", "serving"}
BeforeCommit == Forward
AllTry == Forward \cup Committed

=============================================================================
