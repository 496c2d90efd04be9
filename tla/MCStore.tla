------------------------------ MODULE MCStore ------------------------------
(* Calls that take turns, under every failure; and calls that overlap. *)
EXTENDS CanonicalStore

MCSettings ==
  {[overlap |-> FALSE, faults |-> FaultKinds], [overlap |-> TRUE, faults |-> {}]}
=============================================================================
