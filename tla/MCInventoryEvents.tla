------------------------- MODULE MCInventoryEvents -------------------------
(***************************************************************************)
(* Instances of InventoryEvents: three orders over two products.           *)
(***************************************************************************)
EXTENDS InventoryEvents

MCProducts == {"p1", "p2"}
MCOrderIds == {"o1", "o2", "o3"}
MCItemsOf ==
  [o \in MCOrderIds |->
     CASE o = "o1" -> <<"p1", "p2">> [] o = "o2" -> <<"p2", "p1", "p1">> [] o = "o3" -> <<"p2">>]

Created(o, env) == [type |-> "order.created", order |-> o, enveloped |-> env]

\* Messages as the types of the handler describe them, and one as CreateOrder
\* writes it: an order, one that there is not enough stock for, a cancellation,
\* the first order again, and a third one without the envelope.
MixedLog ==
  << Created("o1", TRUE),
     Created("o2", TRUE),
     [type |-> "order.cancelled", order |-> "o1", enveloped |-> TRUE],
     Created("o1", TRUE),
     Created("o3", FALSE) >>

MixedStock == [p \in MCProducts |-> IF p = "p1" THEN 2 ELSE 3]

\* Messages as CreateOrder of the order service writes them.
WrittenLog == << Created("o1", FALSE), Created("o2", FALSE) >>

\* A warehouse id that is empty finds no row.
UnreachableStock == [p \in MCProducts |-> 0]

=============================================================================
