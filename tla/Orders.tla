------------------------------- MODULE Orders -------------------------------
(***************************************************************************)
(* The order service: the tables orders and outbox_events, the Redis       *)
(* entries of the orders, and the requests that work on them.  A worker is *)
(* a goroutine of any replica, serving an HTTP request or an inventory     *)
(* event; the replicas share Postgres and Redis.                           *)
(*                                                                         *)
(* Each write use case reads first, decides on what it read, and then runs *)
(* one transaction that changes the order and inserts the outbox event.    *)
(* The transactions are atomic, the gap between the read and the           *)
(* transaction is not protected by anything: UpdateStatusInTx names the id *)
(* only, and no write path deletes the cache entry.                        *)
(***************************************************************************)
EXTENDS Naturals, Sequences, FiniteSets

CONSTANTS
  Workers,        \* goroutines that serve requests
  OrderIds,       \* ids that uuid.New() hands out to orders
  Keys,           \* idempotency keys
  NoKey, NoOrder, \* no key, no order
  MaxRequests,    \* bound: writing requests accepted in a run
  MaxFaults       \* bound: failed statements, lost calls and crashes

ASSUME ConstantsAssumption ==
  /\ NoKey \notin Keys
  /\ NoOrder \notin OrderIds
  /\ MaxRequests \in Nat
  /\ MaxFaults \in Nat

VARIABLES
  orders,    \* id -> status and idempotency key
  outbox,    \* id -> the types of the events written for the order, in order
  cache,     \* id -> set of at most one cached status
  job,       \* worker -> the request it serves and how far it got
  reply,     \* worker -> the answer to its last request
  requests,  \* writing requests accepted so far
  faults     \* faults so far

vars == <<orders, outbox, cache, job, reply, requests, faults>>

-----------------------------------------------------------------------------
\* The statuses some code path writes; "none" is an order that is not there.
Statuses == {"pending_payment", "processing", "cancelled"}

Order == [status : Statuses \cup {"none"}, key : Keys \cup {NoKey}]

Job == [op : {"none", "create", "get", "cancel", "confirm"},
        at : {"idle", "lookup", "insert", "cacheGet", "dbGet", "cacheSet", "update"},
        order : OrderIds \cup {NoOrder}, key : Keys \cup {NoKey},
        copy : Statuses \cup {"none"}]

Replies == {"none", "created", "duplicate", "internal", "found", "notFound",
            "cancelled", "notCancellable", "confirmed", "skipped"}

NewJob(op, at, o, k) ==
  [op |-> op, at |-> at, order |-> o, key |-> k, copy |-> "none"]

IdleJob == NewJob("none", "idle", NoOrder, NoKey)

\* Mutant: only a paid order can be cancelled.
CanCancelPaidOnly(status) == status = "paid"
\* Only "pending_payment" and "paid" can be cancelled; nothing writes "paid".
CanCancel(status) == status = "pending_payment"

CanConfirm(status) == status = "pending_payment"

Start(w, j) ==
  /\ job[w].at = "idle"
  /\ job' = [job EXCEPT ![w] = j]
  /\ reply' = [reply EXCEPT ![w] = "none"]
  /\ UNCHANGED <<orders, outbox, cache, faults>>

Accept(w, j) ==
  /\ requests < MaxRequests
  /\ requests' = requests + 1
  /\ Start(w, j)

Answer(w, r) ==
  /\ job' = [job EXCEPT ![w] = IdleJob]
  /\ reply' = [reply EXCEPT ![w] = r]

GoTo(w, step) ==
  /\ job' = [job EXCEPT ![w].at = step]
  /\ UNCHANGED reply

\* The transaction is committed; the answer to COMMIT can still be lost, and
\* the use case then returns an error.
Committed(w, r) ==
  \/ Answer(w, r) /\ UNCHANGED faults
  \/ Answer(w, "internal") /\ faults < MaxFaults /\ faults' = faults + 1

-----------------------------------------------------------------------------
(* CreateOrder.  A request without a key gets a key of its own.            *)

CreateOrder(w, k) == Accept(w, NewJob("create", "lookup", NoOrder, k))

HasKey(k) == \E o \in OrderIds : orders[o].status # "none" /\ orders[o].key = k

\* An error of the lookup counts as "no such order".
GetByIdempotencyKey(w) ==
  /\ job[w].at = "lookup"
  /\ \/ HasKey(job[w].key) /\ Answer(w, "duplicate") /\ UNCHANGED faults
     \/ ~HasKey(job[w].key) /\ GoTo(w, "insert") /\ UNCHANGED faults
     \/ /\ HasKey(job[w].key) /\ GoTo(w, "insert")
        /\ faults < MaxFaults /\ faults' = faults + 1
  /\ UNCHANGED <<orders, outbox, cache, requests>>

\* Mutant: the table has no UNIQUE index on idempotency_key.
KeyFreeAlways(k) == TRUE
\* UNIQUE (idempotency_key)
KeyFree(k) == ~HasKey(k)

\* One transaction: the order, its items and the event order.created.
InsertOrder(w) ==
  /\ job[w].at = "insert"
  /\ IF KeyFree(job[w].key)
     THEN \E o \in OrderIds :
            /\ orders[o].status = "none"
            /\ orders' = [orders EXCEPT ![o] = [status |-> "pending_payment",
                                                key |-> job[w].key]]
            /\ outbox' = [outbox EXCEPT ![o] = Append(@, "order.created")]
            /\ Committed(w, "created")
     ELSE /\ UNCHANGED <<orders, outbox, faults>>
          /\ Answer(w, "internal")
  /\ UNCHANGED <<cache, requests>>

-----------------------------------------------------------------------------
(* Requests that start by reading the order through the cache.             *)

CancelOrder(w, o) == Accept(w, NewJob("cancel", "cacheGet", o, NoKey))

\* Called for an event inventory.reserved.
ConfirmOrder(w, o) == Accept(w, NewJob("confirm", "cacheGet", o, NoKey))

GetOrder(w, o) ==
  /\ Start(w, NewJob("get", "cacheGet", o, NoKey))
  /\ UNCHANGED requests

\* What a request does once it knows a status of its order.
Decide(w, status) ==
  CASE job[w].op = "get" -> Answer(w, "found")
    [] job[w].op = "cancel" /\ ~CanCancel(status) -> Answer(w, "notCancellable")
    [] job[w].op = "confirm" /\ ~CanConfirm(status) -> Answer(w, "skipped")
    [] OTHER -> /\ job' = [job EXCEPT ![w].at = "update", ![w].copy = status]
                /\ UNCHANGED reply

CacheHit(w) ==
  /\ job[w].at = "cacheGet"
  /\ \E status \in cache[job[w].order] : Decide(w, status)
  /\ UNCHANGED <<orders, outbox, cache, requests, faults>>

CacheMiss(w) ==
  /\ job[w].at = "cacheGet"
  /\ cache[job[w].order] = {}
  /\ GoTo(w, "dbGet")
  /\ UNCHANGED <<orders, outbox, cache, requests, faults>>

\* Mutant: sql.ErrNoRows is not told apart from an order.
NotMissing(status) == FALSE
Missing(status) == status = "none"

DbGet(w) ==
  /\ job[w].at = "dbGet"
  /\ LET status == orders[job[w].order].status
     IN  IF Missing(status)
         THEN Answer(w, "notFound")
         ELSE /\ job' = [job EXCEPT ![w].at = "cacheSet", ![w].copy = status]
              /\ UNCHANGED reply
  /\ UNCHANGED <<orders, outbox, cache, requests, faults>>

CacheSet(w) ==
  /\ job[w].at = "cacheSet"
  /\ cache' = [cache EXCEPT ![job[w].order] = {job[w].copy}]
  /\ Decide(w, job[w].copy)
  /\ UNCHANGED <<orders, outbox, requests, faults>>

Target(op) == IF op = "cancel" THEN "cancelled" ELSE "processing"
Event(op) == IF op = "cancel" THEN "order.cancelled" ELSE "order.confirmed"

\* One transaction: UPDATE orders SET status ... WHERE id = $3, whatever the
\* status is by now, and the event.  The cache entry stays.
UpdateStatusInTx(w) ==
  /\ job[w].at = "update"
  /\ orders' = [orders EXCEPT ![job[w].order].status = Target(job[w].op)]
  /\ outbox' = [outbox EXCEPT ![job[w].order] = Append(@, Event(job[w].op))]
  /\ Committed(w, IF job[w].op = "cancel" THEN "cancelled" ELSE "confirmed")
  /\ UNCHANGED <<cache, requests>>

-----------------------------------------------------------------------------
(* The environment.                                                        *)

\* Mutant: entries are stored without a time to live.
CacheNeverExpires(o) == FALSE /\ UNCHANGED vars
CacheExpire(o) ==
  /\ cache[o] # {}
  /\ cache' = [cache EXCEPT ![o] = {}]
  /\ UNCHANGED <<orders, outbox, job, reply, requests, faults>>

\* A statement fails, the client goes away, or the process dies; an open
\* transaction is rolled back.
Fail(w) ==
  /\ job[w].at # "idle"
  /\ faults < MaxFaults
  /\ faults' = faults + 1
  /\ Answer(w, "internal")
  /\ UNCHANGED <<orders, outbox, cache, requests>>

\* Redis fails: a GET is a miss, a SET is skipped.
RedisFail(w) ==
  /\ faults < MaxFaults
  /\ faults' = faults + 1
  /\ \/ /\ job[w].at = "cacheGet"
        /\ cache[job[w].order] # {}
        /\ GoTo(w, "dbGet")
     \/ /\ job[w].at = "cacheSet"
        /\ Decide(w, job[w].copy)
  /\ UNCHANGED <<orders, outbox, cache, requests>>

-----------------------------------------------------------------------------
Init ==
  /\ orders = [o \in OrderIds |-> [status |-> "none", key |-> NoKey]]
  /\ outbox = [o \in OrderIds |-> <<>>]
  /\ cache = [o \in OrderIds |-> {}]
  /\ job = [w \in Workers |-> IdleJob]
  /\ reply = [w \in Workers |-> "none"]
  /\ requests = 0
  /\ faults = 0

Step(w) ==
  \/ GetByIdempotencyKey(w) \/ InsertOrder(w)
  \/ CacheHit(w) \/ CacheMiss(w) \/ DbGet(w) \/ CacheSet(w)
  \/ UpdateStatusInTx(w)

Request(w) ==
  \/ \E k \in Keys : CreateOrder(w, k)
  \/ \E o \in OrderIds : CancelOrder(w, o) \/ ConfirmOrder(w, o) \/ GetOrder(w, o)

Next ==
  \/ \E w \in Workers : Request(w) \/ Step(w) \/ Fail(w) \/ RedisFail(w)
  \/ \E o \in OrderIds : CacheExpire(o)

Spec == Init /\ [][Next]_vars

-----------------------------------------------------------------------------
(* Properties.                                                             *)

TypeOK ==
  /\ orders \in [OrderIds -> Order]
  /\ outbox \in [OrderIds -> Seq({"order.created", "order.cancelled", "order.confirmed"})]
  /\ cache \in [OrderIds -> SUBSET Statuses]
  /\ job \in [Workers -> Job]
  /\ reply \in [Workers -> Replies]
  /\ requests \in Nat
  /\ faults \in Nat

\* However many requests carry one key at the same time, on however many
\* replicas, at most one order exists for it.
OneOrderPerKey ==
  \A o, p \in OrderIds :
    orders[o].status # "none" /\ orders[o].key = orders[p].key => o = p

\* A copy of a status can be out of date in one direction only: an order that
\* a copy shows as decided is decided.
CopyTrails(o, status) ==
  status # "none" => /\ orders[o].status # "none"
                     /\ status # "pending_payment" =>
                          orders[o].status # "pending_payment"

\* What a worker knows about its request at each step; with it the properties
\* here become inductive.
JobConsistent(j) ==
  /\ j.at \in {"lookup", "insert"} => j.op = "create" /\ j.key \in Keys
  /\ j.at \in {"cacheGet", "dbGet", "cacheSet"} =>
       j.op \in {"get", "cancel", "confirm"} /\ j.order \in OrderIds
  /\ j.at = "update" => j.op \in {"cancel", "confirm"} /\ j.order \in OrderIds
  /\ j.at \in {"cacheSet", "update"} => j.copy # "none"
  /\ j.copy # "none" => j.order \in OrderIds /\ CopyTrails(j.order, j.copy)

IInv ==
  /\ TypeOK
  /\ OneOrderPerKey
  /\ \A o \in OrderIds : orders[o].status # "none" <=> orders[o].key \in Keys
  /\ \A w \in Workers : JobConsistent(job[w])
  /\ \A o \in OrderIds : \A status \in cache[o] : CopyTrails(o, status)

\* CancelOrder and ConfirmOrder decide on a status up to five minutes old, yet
\* they never turn down a request they should have served: when either refuses,
\* the order is no longer pending.
RefusalsAreTrue ==
  [][\A w \in Workers :
       reply[w] = "none" /\ reply'[w] \in {"notCancellable", "skipped"} =>
         orders[job[w].order].status \notin {"none", "pending_payment"}]_vars

Fresh(o) == cache[o] \subseteq {orders[o].status}

\* Once the writes have stopped, the cache converges to the table although no
\* write ever deletes an entry.
CacheConverges == <>[](\A o \in OrderIds : Fresh(o))

\* An order is decided once: its outbox holds at most one event that cancels
\* or confirms it.
DecidedOnce == \A o \in OrderIds : Len(outbox[o]) <= 2

=============================================================================
