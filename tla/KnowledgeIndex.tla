---------------------------- MODULE KnowledgeIndex ----------------------------
(***************************************************************************)
(* What knowledge search is promised by ingestion, whatever the worker,    *)
(* the handlers and crashes do: for each document it sees nothing or the   *)
(* whole of one revision.  A revision is shown at once, where nothing is   *)
(* shown, and taken away at once, possibly with those of other documents.  *)
(***************************************************************************)
EXTENDS Naturals

CONSTANTS Docs, Batches, Revisions
VARIABLE shown          \* shown[d]: the <<revision, part>> pairs a search may return

Whole(d, r) == {<<r, b>> : b \in 1..Batches[d]}

Init == shown = [d \in Docs |-> {}]

Publish(d) ==
  /\ shown[d] = {}
  /\ \E r \in Revisions : shown' = [shown EXCEPT ![d] = Whole(d, r)]

Withdraw(S) == shown' = [d \in Docs |-> IF d \in S THEN {} ELSE shown[d]]

Next == (\E d \in Docs : Publish(d)) \/ (\E S \in SUBSET Docs : Withdraw(S))

Spec == Init /\ [][Next]_shown

=============================================================================
