----------------------------- MODULE ModelSlots -----------------------------
(***************************************************************************)
(* What the model runtime promises of memory: one slot for each role, and  *)
(* a model enters a slot only after the previous one has left it.          *)
(***************************************************************************)
CONSTANTS Models, Role, Ports

VARIABLE resident  \* the llama-server processes of each role

Roles == {"chat", "embedding"}
Process(r) == {p \in [model : Models, port : Ports] : Role[p.model] = r}

Init == resident = [r \in Roles |-> {}]

Enter(r) ==
  /\ resident[r] = {}
  /\ \E p \in Process(r) : resident' = [resident EXCEPT ![r] = {p}]

Leave(r) ==
  /\ resident[r] # {}
  /\ resident' = [resident EXCEPT ![r] = {}]

Next == \E r \in Roles : Enter(r) \/ Leave(r)

Spec == Init /\ [][Next]_resident
=============================================================================
