------------------------------- MODULE Totals -------------------------------
(***************************************************************************)
(* The sum of a function whose values are natural numbers, as the number   *)
(* of units it stands for: f[x] units for each x of its domain.  A sum     *)
(* written as a cardinality can be reasoned about without induction.       *)
(***************************************************************************)
EXTENDS Integers, FiniteSets

Units(f) == UNION {{x} \X (1..f[x]) : x \in DOMAIN f}

Total(f) == Cardinality(Units(f))

=============================================================================
