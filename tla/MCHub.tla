------------------------------- MODULE MCHub -------------------------------
(* Hub with the symmetry of the TLC runs.                                   *)
EXTENDS Hub, TLC

Symmetry == Permutations(Clients)

=============================================================================
