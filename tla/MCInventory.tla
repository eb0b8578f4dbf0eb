---------------------------- MODULE MCInventory ----------------------------
(* Inventory with the constants of the TLC runs that are not plain values.  *)
EXTENDS Inventory, TLC

\* Stock is only received.
Received == {2}

Symmetry == Permutations(Workers) \cup Permutations(Reservations)

=============================================================================
