----------------------------- MODULE MCSupervisor ------------------------------
(* Instances of Supervisor. *)
EXTENDS SupervisorProperties
===============================================================================
