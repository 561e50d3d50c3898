---------------------------- MODULE RestoredProfile ----------------------------
(***************************************************************************)
(* What restoring a backup promises, whatever is interrupted or fails: the *)
(* profile the application will next open changes only by taking over all  *)
(* the parts one archive covers, at once.                                  *)
(***************************************************************************)
CONSTANTS Parts, Restores, Covers, First, None
VARIABLE profile          \* profile[n]: where part n comes from, None if missing

Init == profile \in [Parts -> {First, None}]

Install(r) == profile' = [n \in Parts |-> IF n \in Covers[r] THEN r ELSE profile[n]]

Next == \E r \in Restores : Install(r)

Spec == Init /\ [][Next]_profile

=============================================================================
