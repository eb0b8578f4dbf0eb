---------------------------- MODULE StockHolds ----------------------------
(***************************************************************************)
(* What the inventory service promises about one product: stock is held    *)
(* for somebody only while enough of it is not held for anybody else, and  *)
(* a hold ends at most once.  There is no counter, no version, no cache    *)
(* and no request here; Inventory is shown to implement this.              *)
(***************************************************************************)
EXTENDS Integers, Totals

CONSTANT Holders   \* whoever stock can be held for

VARIABLES
  onHand,          \* the quantity in the warehouse
  holds            \* holder -> the quantity held for it

Init ==
  /\ onHand = 0
  /\ holds = [h \in Holders |-> 0]

\* Stock comes in or goes out; what is held stays held.
Adjust == UNCHANGED holds

\* A new hold fits into what is there.
Hold(h) ==
  /\ holds[h] = 0
  /\ holds'[h] > 0
  /\ holds' = [holds EXCEPT ![h] = holds'[h]]
  /\ Total(holds') <= onHand
  /\ UNCHANGED onHand

\* A request hands the stock it holds over to the reservation it recorded.
Pass(h, k) ==
  /\ holds[h] > 0 /\ holds[k] = 0
  /\ holds' = [holds EXCEPT ![h] = 0, ![k] = holds[h]]
  /\ UNCHANGED onHand

Drop(h) ==
  /\ holds[h] > 0
  /\ holds' = [holds EXCEPT ![h] = 0]
  /\ UNCHANGED onHand

Next ==
  \/ Adjust
  \/ \E h \in Holders : Hold(h) \/ Drop(h)
  \/ \E h, k \in Holders : Pass(h, k)

Spec == Init /\ [][Next]_<<onHand, holds>>

=============================================================================
