--------------------------- MODULE RestoreInvariant ---------------------------
(* The inductive invariant behind the theorems about Restore.              *)
EXTENDS Restore

\* What each program point knows of the journal and of the pending directory.
PointInv ==
  /\ pc \in {"serving", "validate", "write", "drop"} => journal = NoJournal
  /\ pc \in {"validate", "write"} => staged \in Restores
  /\ pc = "write" => staged \in made /\ \A n \in Covers[staged] : pending[n] # None
  /\ pc \in Forward \cup Backward => journal.phase = "open"
  /\ pc \in Committed \cup Recommitted => journal.phase = "committed"
  /\ pc \in Forward => staged = of
  /\ pc \in {"install", "return"} => name \in todo
  /\ pc \in {"remap", "close", "commit"} => todo = {}

\* A history directory holds something only once its restore is journalled.
HistoryInv ==
  /\ journal.phase # "none" => of \in made
  /\ journal.phase = "none" => journal = NoJournal
  /\ \A r \in Restores : r \notin made => saved[r] = NoParts /\ discarded[r] = NoParts
  /\ pc = "write" => saved[staged] = NoParts /\ discarded[staged] = NoParts

\* The pending directory holds only parts of its own archive.
PendingInv ==
  /\ \A n \in Names : pending[n] \in {None, staged}
  /\ staged # None => \A n \in Names : pending[n] # None => n \in Covers[staged]

\* What is in the history directory of an open transaction was there before.
OpenInv ==
  journal.phase = "open" =>
    /\ journal.existed \subseteq Moved(of)
    /\ \A n \in Names : saved[of][n] # None => n \in journal.existed

\* Moving forward: entries still to do are untouched, the others are replaced.
ForwardInv ==
  pc \in Forward =>
    /\ todo \subseteq Moved(of)
    /\ discarded[of] = NoParts
    /\ \A n \in todo : n \in Covers[of] => pending[n] = of
    /\ \A n \in todo : ~(pc = "install" /\ n = name) =>
         saved[of][n] = None /\ (root[n] # None <=> n \in journal.existed)
    /\ \A n \in Moved(of) \ todo :
         /\ n \in journal.existed <=> saved[of][n] # None
         /\ n # Wal => root[n] = of
    /\ Wal \notin todo /\ pc # "close" => root[Wal] = None
    /\ pc = "commit" => of \in mapped
    /\ pc = "install" => root[name] = None /\ (name \in journal.existed <=> saved[of][name] # None)

\* Rolling back: entries already undone are as they were.
BackwardInv ==
  /\ pc \in Backward => todo \subseteq Moved(of) /\ \A n \in Moved(of) \ todo :
       saved[of][n] = None /\ (n \notin journal.existed => root[n] = None \/ (n \in Dirs /\ root[n] = Blank))
  /\ pc = "return" => (saved[of][name] # None => root[name] = None)
       /\ (name \notin journal.existed => root[name] = None)

\* A file is put aside at most once, so nothing in failed-replacement is
\* overwritten.
DiscardInv ==
  journal.phase = "open" => \A n \in Names \ (Dirs \cup {Wal}) :
    discarded[of][n] # None => root[n] = None \/ ~Undoable(n)

IInv ==
  /\ TypeOK /\ PointInv /\ HistoryInv /\ PendingInv /\ OpenInv
  /\ ForwardInv /\ BackwardInv /\ DiscardInv /\ Whole(Settled)

=============================================================================
