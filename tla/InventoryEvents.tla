--------------------------- MODULE InventoryEvents ---------------------------
(***************************************************************************)
(* The inventory service's handler of order events                         *)
(* (order_event_handler.go) behind its consumer group: the members of      *)
(* Consumer, whose handler reserves the items of an order one by one.      *)
(*                                                                         *)
(* The handler knows the inventory by the interface InventoryUseCase: a    *)
(* call of ReserveStock takes one unit and writes one reservation, or      *)
(* returns an error, and the error does not tell how far it got (Inventory *)
(* shows how it can stop half way).  Nothing in a request identifies the   *)
(* message it comes from.                                                  *)
(***************************************************************************)
EXTENDS Consumer, Sequences, Totals

CONSTANTS
  Products,   \* what the orders are about
  OrderIds,   \* orders
  ItemsOf,    \* order -> the products of its items, one unit each
  Log,        \* the messages of the partition, in order
  Stock       \* product -> units that the handler's requests, which name no
              \* warehouse, can reach

MessageTypes == {"order.created", "order.cancelled"}

\* enveloped: is the payload wrapped in "data", as the handler's types say.
\* Handle ignores every other type of event.
Message == [type : MessageTypes, order : OrderIds, enveloped : BOOLEAN]

ASSUME EventsAssumption ==
  /\ IsFiniteSet(Members)
  /\ IsFiniteSet(OrderIds)
  /\ ItemsOf \in [OrderIds -> Seq(Products)]
  /\ Log \in Seq(Message)
  /\ Len(Log) = MsgCount
  /\ Stock \in [Products -> Nat]
  /\ Poison = {msg \in Msgs : Log[msg].type = "order.cancelled"}

VARIABLES
  done,       \* member -> items it has reserved in this attempt
  available,  \* product -> units not reserved
  rows,       \* order -> number of the item -> reservations written for it
  reported    \* orders with a message inventory.reservation_failed

handlerVars == <<done, available, rows, reported>>
eventVars == <<vars, handlerVars>>

-----------------------------------------------------------------------------
\* json.Unmarshal of a payload without "data" leaves the order id and the items
\* empty and returns no error.
Decoded(msg) ==
  IF Log[msg].type = "order.created" /\ Log[msg].enveloped
  THEN ItemsOf[Log[msg].order]
  ELSE <<>>

Order(m) == Log[member[m].msg].order
Items(m) == Decoded(member[m].msg)

\* The item that the loop of handleOrderCreated is at.
Item(m) == done[m] + 1
Product(m) == Items(m)[Item(m)]

InLoop(m) == /\ member[m].at = "handling"
             /\ member[m].msg \notin Poison
             /\ Item(m) <= Len(Items(m))

\* Mutant: one unit more than there is.
InStockOrNone(n) == n >= 0
InStock(n) == n > 0

TakeUnit(m) == available' = [available EXCEPT ![Product(m)] = @ - 1]

\* Mutant: the row of an item is written once, the unit is taken every time.
WriteRowOnce(m) == rows' = [rows EXCEPT ![Order(m)][Item(m)] = 1]
WriteRow(m) == rows' = [rows EXCEPT ![Order(m)][Item(m)] = @ + 1]

Leave(m) == done' = [done EXCEPT ![m] = 0]

-----------------------------------------------------------------------------
(* Handle.                                                                 *)

ReserveItem(m) ==
  /\ InLoop(m)
  /\ InStock(available[Product(m)])
  /\ TakeUnit(m)
  /\ WriteRow(m)
  /\ done' = [done EXCEPT ![m] = @ + 1]
  /\ UNCHANGED <<vars, reported>>

\* publishInventoryReservationFailed: both the writer and the message name the
\* topic, and kafka-go refuses the write; the error is logged.
Reported(r, o) == IF TopicAccepted(TRUE, TRUE) THEN r \cup {o} ELSE r

\* Mutant: a failed item is logged and the loop goes on.
SkipItem(m) == done' = [done EXCEPT ![m] = @ + 1] /\ UNCHANGED member
\* handleOrderCreated returns the error.
GiveUpAttempt(m) == Leave(m) /\ AttemptFailed(m)

\* ReserveStock returns an error: there is no stock; or a statement failed,
\* before anything happened, after the unit was taken, or with the answer to
\* the COMMIT.
ReserveFails(m) ==
  /\ InLoop(m)
  /\ \/ /\ ~InStock(available[Product(m)])
        /\ UNCHANGED <<available, rows, errors>>
     \/ /\ Error
        /\ \/ UNCHANGED <<available, rows>>
           \/ InStock(available[Product(m)]) /\ TakeUnit(m) /\ UNCHANGED rows
           \/ InStock(available[Product(m)]) /\ TakeUnit(m) /\ WriteRow(m)
  /\ reported' = Reported(reported, Order(m))
  /\ GiveUpAttempt(m)
  /\ UNCHANGED <<committed, owner, position, handled, dead, crashes, rebalances>>

\* The loop is over, or there was nothing to do.
HandlerReturns(m) ==
  /\ HandleMessage(m)
  /\ ~InLoop(m)
  /\ Leave(m)
  /\ UNCHANGED <<available, rows, reported>>

\* ReleaseReservation is called with the order id (or with "") in place of a
\* reservation id: no reservation is found, in any attempt.
HandleOrderCancelled(m) ==
  /\ member[m].msg \in Poison
  /\ HandlerFails(m)
  /\ UNCHANGED handlerVars

\* The process dies.  Inside ReserveStock that can be after the UPDATE of the
\* counter, which is not part of the transaction, and before the COMMIT of the row.
CrashInHandler(m) ==
  /\ Crash(m)
  /\ \/ UNCHANGED available
     \/ InLoop(m) /\ InStock(available[Product(m)]) /\ TakeUnit(m)
  /\ Leave(m)
  /\ UNCHANGED <<rows, reported>>

-----------------------------------------------------------------------------
EventInit ==
  /\ Init
  /\ done = [m \in Members |-> 0]
  /\ available = Stock
  /\ rows = [o \in OrderIds |-> [i \in DOMAIN ItemsOf[o] |-> 0]]
  /\ reported = {}

Handler(m) ==
  ReserveItem(m) \/ ReserveFails(m) \/ HandlerReturns(m) \/ HandleOrderCancelled(m)

Consume(m) ==
  /\ \/ FetchMessage(m) \/ CommitFirst(m) \/ CommitFirstFails(m)
     \/ SendToDLQ(m) \/ CommitMessages(m)
  /\ UNCHANGED handlerVars

AssignTo(m) == Assign(m) /\ UNCHANGED handlerVars

EventNext ==
  \/ \E m \in Members :
       Handler(m) \/ Consume(m) \/ AssignTo(m) \/ CrashInHandler(m)
  \/ Rebalance /\ UNCHANGED handlerVars

EventSpec == EventInit /\ [][EventNext]_eventVars

\* As in Consumer: a member goes on, and a partition finds an owner.
EventFairSpec ==
  /\ EventSpec
  /\ \A m \in Members : WF_eventVars(Handler(m) \/ Consume(m))
  /\ WF_eventVars(\E m \in Members : AssignTo(m))

-----------------------------------------------------------------------------
(* Properties.                                                             *)

EventTypeOK ==
  /\ TypeOK
  /\ done \in [Members -> Nat]
  /\ available \in [Products -> Nat]
  /\ \A o \in OrderIds : rows[o] \in [DOMAIN ItemsOf[o] -> Nat]
  /\ reported \subseteq OrderIds

\* An order is reserved from its first item on: whatever fails, is retried, is
\* delivered twice or runs on two members at once, an item never has more
\* reservations than the items before it.
ReservedInOrder ==
  \A o \in OrderIds : \A i, j \in DOMAIN ItemsOf[o] :
    i < j => rows[o][i] >= rows[o][j]

CreatedMsgs(o) == {msg \in Msgs : Log[msg].type = "order.created" /\ Log[msg].order = o}

\* A message can reserve an item once per attempt, because nothing tells the
\* inventory that it has been asked before; but not more often, and the last
\* item of the order once, unless an error hides that it was reserved.
DuplicatesBounded ==
  rebalances = 0 =>
    \A o \in OrderIds : \A i \in DOMAIN ItemsOf[o] :
      /\ rows[o][i] <= Cardinality(CreatedMsgs(o)) * (MaxRetries + 1)
      /\ i = Len(ItemsOf[o]) => rows[o][i] <= Cardinality(CreatedMsgs(o)) + errors

\* The items of the orders that are about p, by order and number.
ItemsFor(p) ==
  UNION {{o} \X {i \in DOMAIN ItemsOf[o] : ItemsOf[o][i] = p} : o \in OrderIds}

RowsOf(p) == Total([x \in ItemsFor(p) |-> rows[x[1]][x[2]]])

\* Units that were taken have a reservation, except for at most one per error and
\* one per crash.
UnitsAccounted ==
  \A p \in Products :
    /\ RowsOf(p) + available[p] <= Stock[p]
    /\ Stock[p] <= RowsOf(p) + available[p] + errors + crashes

\* The handler's success says that what it decoded is reserved, whatever failed, was
\* retried or was cut short before: every item it found in the message.  And an
\* order gets reservations only through a message that the handler can read; one
\* whose messages all lack the envelope has none, although they count as handled.
HandledAsDecoded ==
  /\ \A msg \in Msgs :
       handled[msg] > 0 =>
         \A i \in DOMAIN Decoded(msg) : rows[Log[msg].order][i] > 0
  /\ \A o \in OrderIds : \A i \in DOMAIN ItemsOf[o] :
       rows[o][i] > 0 => \E msg \in CreatedMsgs(o) : Log[msg].enveloped

\* What event_design.md promises of an order.created message: when the handler has
\* returned without an error, every item of the order is reserved.
HandledIsReserved ==
  \A o \in OrderIds : \A msg \in CreatedMsgs(o) :
    handled[msg] > 0 => \A i \in DOMAIN ItemsOf[o] : rows[o][i] > 0

-----------------------------------------------------------------------------
(* The invariant that DuplicatesBounded follows from.                      *)

\* The owner of the partition handles an order.created message of o.
Underway(o) ==
  /\ owner \in Members
  /\ member[owner].at = "handling" /\ member[owner].msg \in CreatedMsgs(o)

\* Attempts that have failed, and the one in progress if it has reserved item i.
Attempt(o) == IF Underway(o) THEN member[owner].attempt ELSE 0
Now(o, i) == IF Underway(o) /\ i <= done[owner] THEN 1 ELSE 0

\* The messages of o that will not be handled any more.
Past(o) == {msg \in CreatedMsgs(o) : msg < committed \/ (msg = committed /\ ~Underway(o))}

\* Every reservation of an item belongs to an attempt, and every one of the last
\* item to a message or to an error.
Counted(o) ==
  \A i \in DOMAIN ItemsOf[o] :
    /\ rows[o][i] <= Cardinality(Past(o)) * (MaxRetries + 1) + Attempt(o) + Now(o, i)
    /\ i = Len(ItemsOf[o]) => rows[o][i] <= Cardinality(Past(o)) + errors + Now(o, i)

AttemptsIInv == rebalances = 0 => \A o \in OrderIds : Counted(o)

-----------------------------------------------------------------------------
(* The invariant that ReservedInOrder and HandledAsDecoded follow from.    *)

\* The members whose loop is between two items of an order.
Between(o, i, j) == {m \in Members : done[m] \in i..(j - 1) /\ Order(m) = o}

\* Every loop between two items has reserved the first and not the second.
LoopsCounted ==
  \A o \in OrderIds : \A i, j \in DOMAIN ItemsOf[o] :
    i < j => rows[o][i] >= rows[o][j] + Cardinality(Between(o, i, j))

LoopConsistent(m) ==
  done[m] > 0 =>
    /\ member[m].at = "handling" /\ member[m].msg \notin Poison
    /\ done[m] <= Len(Items(m))
    /\ \A i \in 1..done[m] : rows[Order(m)][i] > 0

EventIInv ==
  /\ IInv /\ EventTypeOK
  /\ rows = [o \in OrderIds |-> rows[o]]
  /\ LoopsCounted
  /\ \A m \in Members : LoopConsistent(m)
  /\ HandledAsDecoded

=============================================================================
