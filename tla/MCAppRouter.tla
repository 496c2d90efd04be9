---------------------------- MODULE MCAppRouter ----------------------------
(***************************************************************************)
(* TLC instances of AppRouter. Slots and files are interchangeable: no     *)
(* definition picks one of them by name, so the runs without a liveness    *)
(* property may use the symmetry.                                          *)
(***************************************************************************)
EXTENDS AppRouter, TLC

SlotsAndFiles == Permutations(Ops) \cup Permutations(Files)
=============================================================================
