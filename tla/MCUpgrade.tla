------------------------------- MODULE MCUpgrade -------------------------------
(* Instances of Upgrade for TLC.                                           *)
EXTENDS Upgrade

CONSTANTS old, recent

=============================================================================
