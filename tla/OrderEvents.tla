---------------------------- MODULE OrderEvents ----------------------------
(***************************************************************************)
(* The order service together with its consumer of inventory events: the   *)
(* requests of Orders, and the handler of inventory_event_handler.go that  *)
(* calls the same use cases, driven by handleWithRetry of the consumer.    *)
(* Some workers are the consumer goroutines of the replicas, the others    *)
(* serve HTTP.                                                             *)
(*                                                                         *)
(* The offset of an event is committed before it is handled (Consumer), so *)
(* a crash drops it; an event can be delivered again at any time, because  *)
(* the producer may repeat it.  An event "inventory.released" is only      *)
(* logged and changes nothing here.                                        *)
(***************************************************************************)
EXTENDS Orders, Totals

CONSTANTS
  Consumers,  \* the workers that handle inventory events
  MaxRetries  \* ConsumerConfig.MaxRetries

ASSUME ConsumersAssumption ==
  /\ Consumers \subseteq Workers
  /\ IsFiniteSet(Consumers)
  /\ MaxRetries \in Nat

VARIABLES
  delivery    \* consumer -> the event it handles and the attempt

eventVars == <<vars, delivery>>

-----------------------------------------------------------------------------
EventTypes == {"inventory.reserved", "inventory.reservation_failed"}

Delivery == [type : EventTypes \cup {"none"}, order : OrderIds \cup {NoOrder},
             attempt : 0..MaxRetries]

NoDelivery == [type |-> "none", order |-> NoOrder, attempt |-> 0]

Handling(c) == delivery[c].type # "none"

\* handleInventoryReserved confirms, handleReservationFailed cancels.
Handle(c, type, o) ==
  IF type = "inventory.reserved" THEN ConfirmOrder(c, o) ELSE CancelOrder(c, o)

\* The inventory service answers to an order.created event: the order exists.
Deliver(c, type, o) ==
  /\ ~Handling(c)
  /\ orders[o].status # "none"
  /\ Handle(c, type, o)
  /\ delivery' = [delivery EXCEPT ![c] = [type |-> type, order |-> o, attempt |-> 0]]

\* Mutant: an error of the use case is logged and not returned.
NeverFailed(r) == FALSE
\* What the handler returns as an error.  ConfirmOrder has no error for an
\* order that is decided already, CancelOrder has.
Failed(r) == r \in {"internal", "notFound", "notCancellable"}

\* Mutant: one attempt less than the loop waits for.
PastLastAttempt(n) == n > MaxRetries
LastAttempt(n) == n = MaxRetries

\* Mutant: an attempt goes on where the one before it failed.
ResumeAtUpdate == "update"
\* Every attempt reads the order again, through the cache.
ResumeAt == "cacheGet"

\* The use case has returned to the handler, the handler to handleWithRetry.
Returned(c) == Handling(c) /\ job[c].at = "idle"

\* Another attempt is a request that no bound holds back.
Retry(c) ==
  /\ Returned(c)
  /\ Failed(reply[c])
  /\ delivery[c].attempt < MaxRetries
  /\ delivery' = [delivery EXCEPT ![c].attempt = @ + 1]
  /\ Start(c, NewJob(IF delivery[c].type = "inventory.reserved" THEN "confirm" ELSE "cancel",
                     ResumeAt, delivery[c].order, NoKey))
  /\ requests' = requests + 1

\* handleWithRetry returns: the event is handled, or given up (sendToDLQ).
Done(c) ==
  /\ Returned(c)
  /\ ~Failed(reply[c]) \/ LastAttempt(delivery[c].attempt)
  /\ delivery' = [delivery EXCEPT ![c] = NoDelivery]
  /\ UNCHANGED vars

\* The process stops: its event has been committed and is not seen again.
Crash(c) ==
  /\ Handling(c)
  /\ delivery' = [delivery EXCEPT ![c] = NoDelivery]
  /\ \/ Fail(c)
     \/ job[c].at = "idle" /\ UNCHANGED vars

-----------------------------------------------------------------------------
HttpRequest(w) ==
  \/ \E k \in Keys : CreateOrder(w, k)
  \/ \E o \in OrderIds : CancelOrder(w, o) \/ GetOrder(w, o)

EventInit == Init /\ delivery = [c \in Consumers |-> NoDelivery]

EventNext ==
  \/ \E c \in Consumers :
       \/ \E type \in EventTypes, o \in OrderIds : Deliver(c, type, o)
       \/ Retry(c) \/ Done(c) \/ Crash(c)
  \/ /\ \/ \E w \in Workers \ Consumers : HttpRequest(w)
        \/ \E w \in Workers : Step(w) \/ Fail(w) \/ RedisFail(w)
        \/ \E o \in OrderIds : CacheExpire(o)
     /\ UNCHANGED delivery

EventSpec == EventInit /\ [][EventNext]_eventVars

\* Requests and events that were started go on by themselves, and cache entries
\* expire.
EventFairSpec ==
  /\ EventSpec
  /\ \A w \in Workers : WF_eventVars(Step(w) /\ UNCHANGED delivery)
  /\ \A c \in Consumers : WF_eventVars(Retry(c) \/ Done(c))
  /\ \A o \in OrderIds : WF_eventVars(CacheExpire(o) /\ UNCHANGED delivery)

-----------------------------------------------------------------------------
(* Properties.                                                             *)

EventTypeOK == TypeOK /\ delivery \in [Consumers -> Delivery]

Decided(o) == orders[o].status # "pending_payment"

\* An event that the consumer is done with has taken effect: its order is
\* decided, although the handler looks at a cached status and may be told of
\* an error after its transaction was committed.  Only more faults than there
\* are retries can leave the order pending.
EventTakesEffect ==
  [][\A c \in Consumers :
       Done(c) =>
         Decided(delivery[c].order) \/ faults > MaxRetries]_eventVars

\* What the consumer knows of the event it handles: every attempt that has
\* ended without a decision of the order has cost a fault.  With it
\* EventTakesEffect follows from one step.
EventConsistent(c) ==
  LET o == delivery[c].order
  IN  Handling(c) =>
        /\ o \in OrderIds /\ orders[o].status # "none"
        /\ job[c].at # "idle" =>
             /\ job[c].op \in {"cancel", "confirm"} /\ job[c].order = o
             /\ Decided(o) \/ faults >= delivery[c].attempt
        /\ job[c].at = "idle" =>
             \/ Decided(o)
             \/ Failed(reply[c]) /\ faults > delivery[c].attempt

EventIInv == IInv /\ EventTypeOK /\ \A c \in Consumers : EventConsistent(c)

\* No event occupies its consumer for ever: neither one for an order that can
\* no longer be cancelled nor one whose order is decided by somebody else.
EventsEnd == \A c \in Consumers : Handling(c) ~> ~Handling(c)

\* Every consumer can add as many requests as it has retries.
AllRequestsBound == MaxRequests + MaxRetries * Cardinality(Consumers)

Left(c) == IF Handling(c) THEN MaxRetries - delivery[c].attempt ELSE 0

RetriesLeft == Total([c \in Consumers |-> Left(c)])

\* The retries that are still to come fit under the bound.
RequestsBounded == requests + RetriesLeft <= AllRequestsBound

AllRequests == INSTANCE Orders WITH MaxRequests <- AllRequestsBound

\* The consumer adds no behaviour to the orders: whatever it does with an event
\* is a sequence of requests as Orders has them, so that what is proved of
\* Orders holds with the consumer, its retries and its crashes as well.
ImplementsOrders == AllRequests!Spec

=============================================================================
