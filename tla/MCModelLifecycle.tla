-------------------------- MODULE MCModelLifecycle --------------------------
EXTENDS ModelLifecycleInvariant, TLC

CONSTANTS c1, c2, e1, h1, h2

TwoChat == {c1, c2}
ThreeModels == {c1, c2, e1}
Roles2 == [m \in TwoChat |-> "chat"]
Roles3 == [m \in ThreeModels |-> IF m = e1 THEN "embedding" ELSE "chat"]
OneHandler == {h1}
TwoHandlers == {h1, h2}
\* Chat models are interchangeable, and so are handlers; used for safety only.
Symmetry == Permutations(TwoChat) \cup Permutations(TwoHandlers)
=============================================================================
