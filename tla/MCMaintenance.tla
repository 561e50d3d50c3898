---------------------------- MODULE MCMaintenance ----------------------------
(* Instances of Maintenance for TLC.                                       *)
EXTENDS Maintenance

CONSTANTS u1, u2, o1, o2, report, notes, x, y

\* One request selects three files, two of one name and two of one text; the
\* other a file of the first's name and of the last's text.
MCFiles == [u \in {u1, u2} |->
  IF u = u1 THEN <<[stem |-> report, text |-> x], [stem |-> notes, text |-> x],
                   [stem |-> notes, text |-> y]>>
  ELSE <<[stem |-> report, text |-> y]>>]
MCOperations == [o \in {o1, o2} |-> IF o = o1 THEN "backup" ELSE "restore"]

=============================================================================
