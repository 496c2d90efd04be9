------------------------------ MODULE SnapshotStore ------------------------------
(***************************************************************************)
(* What RebuildAll promises to the next process that opens the store: a    *)
(* complete snapshot or nothing at all.  The snapshot only grows, it may   *)
(* be lost as a whole, and what replaces it holds every change of the      *)
(* rebuilds that have returned without an error.                           *)
(***************************************************************************)
EXTENDS Naturals

CONSTANTS
  Change,   \* the changes the archive takes up
  Nothing   \* no snapshot

VARIABLES
  snapshot,  \* the changes a fresh process sees, or Nothing
  acked      \* the changes of the rebuilds that returned without an error

vars == <<snapshot, acked>>

Init == snapshot = Nothing /\ acked = {}

\* A rebuild takes effect; it returns with or without an error.
Publish ==
  \E s \in SUBSET Change :
    /\ snapshot # Nothing => snapshot \subseteq s
    /\ acked \subseteq s
    /\ snapshot' = s
    /\ \E a \in SUBSET s : acked \subseteq a /\ acked' = a

\* The store must be built again.
Lose == snapshot' = Nothing /\ UNCHANGED acked

Spec == Init /\ [][Publish \/ Lose]_vars
=================================================================================
