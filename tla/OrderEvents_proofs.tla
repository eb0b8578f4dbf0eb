-------------------------- MODULE OrderEvents_proofs --------------------------
(***************************************************************************)
(* The order service, for any number of workers, orders, keys, requests    *)
(* and faults, and then the same service with its consumer of inventory    *)
(* events, for any number of consumers and retries.  The invariant of      *)
(* Orders is kept by the steps of the consumer as well, because each of    *)
(* them is a request or the end of one.                                    *)
(***************************************************************************)
EXTENDS OrderEvents, Totals_proofs, TLAPS

-----------------------------------------------------------------------------
(* Orders.                                                                 *)

USE DEF Statuses, Order, Job, Replies, NewJob, IdleJob, Delivery, EventTypes, NoDelivery

LEMMA InitIInv == Init => IInv
<1> SUFFICES ASSUME Init PROVE IInv
  OBVIOUS
<1> USE ConstantsAssumption DEF Init
<1>1. TypeOK
  BY DEF TypeOK
<1>2. OneOrderPerKey
  BY DEF OneOrderPerKey
<1>3. \A w \in Workers : JobConsistent(job[w])
  BY DEF JobConsistent
<1>4. \A o \in OrderIds : orders[o].status # "none" <=> orders[o].key \in Keys
  OBVIOUS
<1> QED
  BY <1>1, <1>2, <1>3, <1>4 DEF IInv

\* The job of one worker is replaced by a consistent one.
LEMMA ReplaceJob ==
  ASSUME IInv, NEW w \in Workers, NEW j \in Job, JobConsistent(j),
         job' = [job EXCEPT ![w] = j]
  PROVE  /\ job' \in [Workers -> Job]
         /\ \A v \in Workers : JobConsistent(job'[v])
<1>1. job \in [Workers -> Job] /\ \A v \in Workers : JobConsistent(job[v])
  BY DEF IInv, TypeOK
<1>2. \A v \in Workers : job'[v] = IF v = w THEN j ELSE job[v]
  BY <1>1
<1> QED
  BY <1>1, <1>2

LEMMA AnswerJob ==
  ASSUME IInv, NEW w \in Workers, NEW r \in Replies, Answer(w, r)
  PROVE  /\ job' \in [Workers -> Job]
         /\ \A v \in Workers : JobConsistent(job'[v])
         /\ reply' \in [Workers -> Replies]
<1>1. IdleJob \in Job /\ JobConsistent(IdleJob)
  BY DEF JobConsistent
<1>2. reply' \in [Workers -> Replies]
  BY DEF Answer, IInv, TypeOK
<1> QED
  BY <1>1, <1>2, ReplaceJob DEF Answer

LEMMA GoToJob ==
  ASSUME IInv, NEW w \in Workers, NEW step \in {"insert", "dbGet"}, GoTo(w, step),
         step = "insert" => job[w].at = "lookup",
         step = "dbGet" => job[w].at \in {"cacheGet", "dbGet"}
  PROVE  /\ job' \in [Workers -> Job]
         /\ \A v \in Workers : JobConsistent(job'[v])
         /\ reply' \in [Workers -> Replies]
<1> DEFINE j == [job[w] EXCEPT !.at = step]
<1>1. job[w] \in Job /\ JobConsistent(job[w])
  BY DEF IInv, TypeOK
<1>2. j \in Job
  BY <1>1
<1>3. JobConsistent(j)
  BY <1>1 DEF JobConsistent
<1>4. job' = [job EXCEPT ![w] = j]
  BY DEF GoTo, IInv, TypeOK
<1> HIDE DEF j
<1> QED
  BY <1>2, <1>3, <1>4, ReplaceJob DEF GoTo, IInv, TypeOK

\* The copy a request takes of a status that trails its order.
LEMMA CopyJob ==
  ASSUME IInv, NEW w \in Workers, NEW status \in Statuses,
         NEW step \in {"cacheSet", "update"},
         job[w].at \in {"cacheGet", "dbGet", "cacheSet"},
         step = "update" => job[w].op \in {"cancel", "confirm"},
         CopyTrails(job[w].order, status),
         job' = [job EXCEPT ![w].at = step, ![w].copy = status]
  PROVE  /\ job' \in [Workers -> Job]
         /\ \A v \in Workers : JobConsistent(job'[v])
<1> DEFINE j == [job[w] EXCEPT !.at = step, !.copy = status]
<1>1. job[w] \in Job /\ JobConsistent(job[w])
  BY DEF IInv, TypeOK
<1>2. job' = [job EXCEPT ![w] = j]
  BY DEF IInv, TypeOK
<1>3. j \in Job
  BY <1>1
<1>4. /\ j.op = job[w].op /\ j.at = step /\ j.order = job[w].order
      /\ j.copy = status
  BY <1>1
<1> HIDE DEF j
<1>5. JobConsistent(j)
  BY <1>1, <1>4 DEF JobConsistent
<1> QED
  BY <1>2, <1>3, <1>5, ReplaceJob

LEMMA DecideJob ==
  ASSUME IInv, NEW w \in Workers, NEW status \in Statuses,
         job[w].at \in {"cacheGet", "cacheSet"},
         CopyTrails(job[w].order, status), Decide(w, status)
  PROVE  /\ job' \in [Workers -> Job]
         /\ \A v \in Workers : JobConsistent(job'[v])
         /\ reply' \in [Workers -> Replies]
<1>1. JobConsistent(job[w]) /\ reply \in [Workers -> Replies]
  BY DEF IInv, TypeOK
<1>2. \/ \E r \in Replies : Answer(w, r)
      \/ /\ job[w].op \in {"cancel", "confirm"}
         /\ job' = [job EXCEPT ![w].at = "update", ![w].copy = status]
         /\ UNCHANGED reply
  BY <1>1 DEF Decide, JobConsistent
<1> QED
  BY <1>1, <1>2, AnswerJob, CopyJob

\* A step that leaves the orders alone.
LEMMA SameOrders ==
  ASSUME IInv, UNCHANGED orders, TypeOK',
         \A v \in Workers : JobConsistent(job'[v]),
         \A o \in OrderIds : \A status \in cache'[o] : CopyTrails(o, status)
  PROVE  IInv'
<1>1. OneOrderPerKey'
  BY DEF IInv, OneOrderPerKey
<1>2. \A v \in Workers : JobConsistent(job[v])'
  BY DEF JobConsistent, CopyTrails
<1>3. \A o \in OrderIds : \A status \in cache'[o] : CopyTrails(o, status)'
  BY DEF CopyTrails
<1> QED
  BY <1>1, <1>2, <1>3 DEF IInv

\* Every entry of the cache, as a copy.
LEMMA CachedCopies ==
  ASSUME IInv
  PROVE  /\ cache \in [OrderIds -> SUBSET Statuses]
         /\ \A o \in OrderIds : \A status \in cache[o] : CopyTrails(o, status)
BY DEF IInv, TypeOK

LEMMA StartIInv ==
  ASSUME IInv, NEW w \in Workers, NEW j \in Job, JobConsistent(j), Start(w, j),
         requests' \in Nat
  PROVE  IInv'
<1>1. job' = [job EXCEPT ![w] = j]
  BY DEF Start
<1>2. TypeOK'
  BY <1>1, ReplaceJob DEF Start, IInv, TypeOK
<1> QED
  BY <1>1, <1>2, ReplaceJob, SameOrders, CachedCopies DEF Start

LEMMA RequestIInv ==
  ASSUME IInv, NEW w \in Workers, Request(w)
  PROVE  IInv'
<1> USE ConstantsAssumption
<1>1. requests \in Nat /\ requests + 1 \in Nat
  BY DEF IInv, TypeOK
<1>2. ASSUME NEW k \in Keys, CreateOrder(w, k) PROVE IInv'
  <2>1. /\ NewJob("create", "lookup", NoOrder, k) \in Job
        /\ JobConsistent(NewJob("create", "lookup", NoOrder, k))
    BY DEF JobConsistent
  <2> QED
    BY <1>1, <1>2, <2>1, StartIInv DEF CreateOrder, Accept
<1>3. ASSUME NEW o \in OrderIds, NEW op \in {"get", "cancel", "confirm"},
             Start(w, NewJob(op, "cacheGet", o, NoKey)), requests' \in Nat
      PROVE  IInv'
  <2>1. /\ NewJob(op, "cacheGet", o, NoKey) \in Job
        /\ JobConsistent(NewJob(op, "cacheGet", o, NoKey))
    BY DEF JobConsistent
  <2> QED
    BY <1>3, <2>1, StartIInv
<1>4. ASSUME NEW o \in OrderIds, CancelOrder(w, o) \/ ConfirmOrder(w, o) \/ GetOrder(w, o)
      PROVE  IInv'
  BY <1>1, <1>3, <1>4 DEF CancelOrder, ConfirmOrder, GetOrder, Accept
<1> QED
  BY <1>2, <1>4 DEF Request

LEMMA LookupIInv ==
  ASSUME IInv, NEW w \in Workers, GetByIdempotencyKey(w)
  PROVE  IInv'
<1>1. /\ job' \in [Workers -> Job]
      /\ \A v \in Workers : JobConsistent(job'[v])
      /\ reply' \in [Workers -> Replies]
  BY AnswerJob, GoToJob DEF GetByIdempotencyKey
<1>2. TypeOK'
  BY <1>1 DEF GetByIdempotencyKey, IInv, TypeOK
<1> QED
  BY <1>1, <1>2, SameOrders, CachedCopies DEF GetByIdempotencyKey

\* A transaction on the orders that never undoes an order or a decision.
LEMMA NewOrders ==
  ASSUME IInv, TypeOK', UNCHANGED cache,
         \A v \in Workers : JobConsistent(job'[v]),
         OneOrderPerKey',
         \A o \in OrderIds : orders'[o].status # "none" <=> orders'[o].key \in Keys,
         \A o \in OrderIds :
           orders[o].status # "none" =>
             /\ orders'[o].status # "none"
             /\ orders[o].status # "pending_payment" =>
                  orders'[o].status # "pending_payment"
  PROVE  IInv'
<1>1. ASSUME NEW o \in OrderIds, NEW status, CopyTrails(o, status)
      PROVE  CopyTrails(o, status)'
  BY <1>1 DEF CopyTrails
<1>2. \A v \in Workers : JobConsistent(job[v])'
  BY <1>1 DEF JobConsistent
<1>3. \A o \in OrderIds : \A status \in cache'[o] : CopyTrails(o, status)'
  BY <1>1, CachedCopies
<1> QED
  BY <1>2, <1>3 DEF IInv

LEMMA InsertIInv ==
  ASSUME IInv, NEW w \in Workers, InsertOrder(w)
  PROVE  IInv'
<1>1. job[w] \in Job /\ job[w].key \in Keys
  BY DEF InsertOrder, IInv, TypeOK, JobConsistent
<1>2. /\ job' \in [Workers -> Job]
      /\ \A v \in Workers : JobConsistent(job'[v])
      /\ reply' \in [Workers -> Replies]
  BY AnswerJob DEF InsertOrder, Committed
<1>3. CASE ~KeyFree(job[w].key)
  <2>1. TypeOK'
    BY <1>2, <1>3 DEF InsertOrder, IInv, TypeOK
  <2> QED
    BY <1>2, <1>3, <2>1, SameOrders, CachedCopies DEF InsertOrder
<1>4. CASE KeyFree(job[w].key)
  <2>1. PICK o \in OrderIds :
          /\ orders[o].status = "none"
          /\ orders' = [orders EXCEPT ![o] = [status |-> "pending_payment",
                                              key |-> job[w].key]]
          /\ outbox' = [outbox EXCEPT ![o] = Append(@, "order.created")]
    BY <1>4 DEF InsertOrder
  <2>2. orders \in [OrderIds -> Order] /\ orders' \in [OrderIds -> Order]
    BY <1>1, <2>1 DEF IInv, TypeOK
  <2>3. outbox' \in [OrderIds -> Seq({"order.created", "order.cancelled", "order.confirmed"})]
    BY <2>1 DEF IInv, TypeOK
  <2>4. TypeOK'
    BY <1>2, <2>2, <2>3, <1>4 DEF InsertOrder, Committed, IInv, TypeOK
  <2>5. /\ orders'[o].status = "pending_payment" /\ orders'[o].key = job[w].key
        /\ \A p \in OrderIds \ {o} : orders'[p] = orders[p]
    BY <2>1, <2>2
  <2>6. \A p \in OrderIds : orders[p].status # "none" <=> orders[p].key \in Keys
    BY DEF IInv
  <2>7. \A p \in OrderIds : orders[p].key # job[w].key
    BY <1>1, <1>4, <2>6 DEF KeyFree, HasKey
  <2>8. OneOrderPerKey'
    BY <2>5, <2>7 DEF IInv, OneOrderPerKey
  <2>9. \A p \in OrderIds : orders'[p].status # "none" <=> orders'[p].key \in Keys
    BY <1>1, <2>5, <2>6
  <2>10. \A p \in OrderIds :
           orders[p].status # "none" =>
             /\ orders'[p].status # "none"
             /\ orders[p].status # "pending_payment" =>
                  orders'[p].status # "pending_payment"
    BY <2>1, <2>5
  <2>11. UNCHANGED cache
    BY DEF InsertOrder
  <2> QED
    BY <1>2, <2>4, <2>8, <2>9, <2>10, <2>11, NewOrders
<1> QED
  BY <1>3, <1>4

LEMMA ReadIInv ==
  ASSUME IInv, NEW w \in Workers,
         CacheHit(w) \/ CacheMiss(w) \/ DbGet(w) \/ CacheSet(w)
  PROVE  IInv'
<1>1. /\ job[w] \in Job /\ JobConsistent(job[w])
      /\ orders \in [OrderIds -> Order]
  BY DEF IInv, TypeOK
<1>2. job[w].order \in OrderIds
  BY <1>1 DEF CacheHit, CacheMiss, DbGet, CacheSet, JobConsistent
<1>3. /\ job' \in [Workers -> Job]
      /\ \A v \in Workers : JobConsistent(job'[v])
      /\ reply' \in [Workers -> Replies]
  <2>1. CASE CacheHit(w)
    BY <1>2, <2>1, CachedCopies, DecideJob DEF CacheHit
  <2>2. CASE CacheMiss(w)
    BY <2>2, GoToJob DEF CacheMiss
  <2>3. CASE DbGet(w)
    <3> DEFINE status == orders[job[w].order].status
    <3>1. CASE Missing(status)
      BY <2>3, <3>1, AnswerJob DEF DbGet
    <3>2. CASE ~Missing(status)
      <4>1. status \in Statuses
        BY <1>1, <1>2, <3>2 DEF Missing
      <4>2. CopyTrails(job[w].order, status)
        BY <4>1 DEF CopyTrails
      <4>3. /\ job[w].at = "dbGet" /\ UNCHANGED reply
            /\ job' = [job EXCEPT ![w].at = "cacheSet", ![w].copy = status]
        BY <2>3, <3>2 DEF DbGet
      <4>4. reply' \in [Workers -> Replies]
        BY <4>3 DEF IInv, TypeOK
      <4> HIDE DEF status
      <4> QED
        BY <4>1, <4>2, <4>3, <4>4, CopyJob
    <3> QED
      BY <3>1, <3>2
  <2>4. CASE CacheSet(w)
    <3>1. job[w].copy \in Statuses /\ CopyTrails(job[w].order, job[w].copy)
      BY <1>1, <2>4 DEF CacheSet, JobConsistent
    <3> QED
      BY <2>4, <3>1, DecideJob DEF CacheSet
  <2> QED
    BY <2>1, <2>2, <2>3, <2>4
<1>4. /\ cache' \in [OrderIds -> SUBSET Statuses]
      /\ \A o \in OrderIds : \A status \in cache'[o] : CopyTrails(o, status)
  <2>1. CASE UNCHANGED cache
    BY <2>1, CachedCopies
  <2>2. CASE CacheSet(w)
    <3>1. job[w].copy \in Statuses /\ CopyTrails(job[w].order, job[w].copy)
      BY <1>1, <2>2 DEF CacheSet, JobConsistent
    <3>2. cache' = [cache EXCEPT ![job[w].order] = {job[w].copy}]
      BY <2>2 DEF CacheSet
    <3> QED
      BY <1>2, <3>1, <3>2, CachedCopies
  <2> QED
    BY <2>1, <2>2 DEF CacheHit, CacheMiss, DbGet
<1>5. TypeOK'
  BY <1>3, <1>4 DEF CacheHit, CacheMiss, DbGet, CacheSet, IInv, TypeOK
<1> QED
  BY <1>3, <1>4, <1>5, SameOrders DEF CacheHit, CacheMiss, DbGet, CacheSet

LEMMA UpdateIInv ==
  ASSUME IInv, NEW w \in Workers, UpdateStatusInTx(w)
  PROVE  IInv'
<1> DEFINE o == job[w].order
           status == Target(job[w].op)
<1>1. /\ job[w] \in Job /\ JobConsistent(job[w])
      /\ orders \in [OrderIds -> Order]
  BY DEF IInv, TypeOK
<1>2. o \in OrderIds /\ orders[o].status # "none"
  BY <1>1 DEF UpdateStatusInTx, JobConsistent, CopyTrails
<1>3. status \in {"cancelled", "processing"}
  BY DEF Target
<1>4. /\ job' \in [Workers -> Job]
      /\ \A v \in Workers : JobConsistent(job'[v])
      /\ reply' \in [Workers -> Replies]
  BY AnswerJob DEF UpdateStatusInTx, Committed
<1>5. orders' = [orders EXCEPT ![o].status = status] /\ UNCHANGED cache
  BY DEF UpdateStatusInTx
<1> HIDE DEF o, status
<1>6. /\ orders' \in [OrderIds -> Order]
      /\ orders'[o].status = status /\ orders'[o].key = orders[o].key
      /\ \A p \in OrderIds \ {o} : orders'[p] = orders[p]
  BY <1>1, <1>2, <1>3, <1>5
<1>7. outbox' \in [OrderIds -> Seq({"order.created", "order.cancelled", "order.confirmed"})]
  BY <1>2 DEF UpdateStatusInTx, Event, IInv, TypeOK, o
<1>8. TypeOK'
  BY <1>4, <1>6, <1>7 DEF UpdateStatusInTx, Committed, IInv, TypeOK
<1>9. OneOrderPerKey'
  <2>1. \A p \in OrderIds : /\ orders'[p].key = orders[p].key
                            /\ orders'[p].status # "none" => orders[p].status # "none"
    BY <1>2, <1>6
  <2> QED
    BY <2>1 DEF IInv, OneOrderPerKey
<1>10. \A p \in OrderIds : orders'[p].status # "none" <=> orders'[p].key \in Keys
  BY <1>2, <1>3, <1>6 DEF IInv
<1>11. \A p \in OrderIds :
         orders[p].status # "none" =>
           /\ orders'[p].status # "none"
           /\ orders[p].status # "pending_payment" =>
                orders'[p].status # "pending_payment"
  BY <1>3, <1>6
<1> QED
  BY <1>4, <1>5, <1>8, <1>9, <1>10, <1>11, NewOrders

LEMMA FaultIInv ==
  ASSUME IInv, NEW w \in Workers, Fail(w) \/ RedisFail(w)
  PROVE  IInv'
<1>1. job[w] \in Job /\ JobConsistent(job[w]) /\ faults' \in Nat
  BY DEF Fail, RedisFail, IInv, TypeOK
<1>2. /\ job' \in [Workers -> Job]
      /\ \A v \in Workers : JobConsistent(job'[v])
      /\ reply' \in [Workers -> Replies]
  <2>1. CASE Fail(w)
    BY <2>1, AnswerJob DEF Fail
  <2>2. CASE job[w].at = "cacheGet" /\ GoTo(w, "dbGet")
    BY <2>2, GoToJob
  <2>3. CASE job[w].at = "cacheSet" /\ Decide(w, job[w].copy)
    <3>1. job[w].copy \in Statuses /\ CopyTrails(job[w].order, job[w].copy)
      BY <1>1, <2>3 DEF JobConsistent
    <3> QED
      BY <2>3, <3>1, DecideJob
  <2> QED
    BY <2>1, <2>2, <2>3 DEF RedisFail
<1>3. TypeOK'
  BY <1>1, <1>2 DEF Fail, RedisFail, IInv, TypeOK
<1> QED
  BY <1>2, <1>3, SameOrders, CachedCopies DEF Fail, RedisFail

LEMMA ExpireIInv ==
  ASSUME IInv, NEW o \in OrderIds, CacheExpire(o)
  PROVE  IInv'
<1>1. /\ cache' \in [OrderIds -> SUBSET Statuses]
      /\ \A p \in OrderIds : \A status \in cache'[p] : CopyTrails(p, status)
  BY CachedCopies DEF CacheExpire
<1>2. TypeOK'
  BY <1>1 DEF CacheExpire, IInv, TypeOK
<1>3. \A v \in Workers : JobConsistent(job'[v])
  BY DEF CacheExpire, IInv
<1> QED
  BY <1>1, <1>2, <1>3, SameOrders DEF CacheExpire

LEMMA StepIInv == IInv /\ [Next]_vars => IInv'
<1> SUFFICES ASSUME IInv, [Next]_vars PROVE IInv'
  OBVIOUS
<1>1. ASSUME NEW w \in Workers, Request(w) \/ Step(w) \/ Fail(w) \/ RedisFail(w)
      PROVE  IInv'
  BY <1>1, RequestIInv, LookupIInv, InsertIInv, ReadIInv, UpdateIInv, FaultIInv
  DEF Step
<1>2. ASSUME NEW o \in OrderIds, CacheExpire(o) PROVE IInv'
  BY <1>2, ExpireIInv
<1>3. CASE UNCHANGED vars
  BY <1>3 DEF vars, IInv, TypeOK, OneOrderPerKey, JobConsistent, CopyTrails
<1> QED
  BY <1>1, <1>2, <1>3 DEF Next

\* The invariant that carries the theorems below: a copy of a status, in Redis
\* or in the hands of a worker, shows a decision only if there is one, and an
\* order has a key from the day it exists.
THEOREM Invariance == Spec => []IInv
<1> QED
  BY InitIInv, StepIInv, PTL DEF Spec

\* The state keeps its type; a worker never acts on an order that is missing.
THEOREM TypeCorrect == Spec => []TypeOK
<1>1. IInv => TypeOK
  BY DEF IInv
<1> QED
  BY <1>1, Invariance, PTL

\* The lookup of CreateOrder may miss an order that is just being inserted, but
\* the unique index leaves one order per idempotency key.
THEOREM OneOrderForAKey == Spec => []OneOrderPerKey
<1>1. IInv => OneOrderPerKey
  BY DEF IInv
<1> QED
  BY <1>1, Invariance, PTL

\* A request that Decide refuses is about an order that is decided.
LEMMA DecideRefuses ==
  ASSUME IInv, NEW w \in Workers, NEW status \in Statuses,
         CopyTrails(job[w].order, status), Decide(w, status),
         NEW v \in Workers, reply[v] = "none",
         reply'[v] \in {"notCancellable", "skipped"}
  PROVE  orders[job[v].order].status \notin {"none", "pending_payment"}
<1>1. reply \in [Workers -> Replies]
  BY DEF IInv, TypeOK
<1>2. v = w /\ status # "pending_payment"
  BY <1>1 DEF Decide, Answer, CanCancel, CanConfirm
<1> QED
  BY <1>2 DEF CopyTrails

Refused(v) == reply[v] = "none" /\ reply'[v] \in {"notCancellable", "skipped"}

\* A step that refuses the request of v finds the order decided.
LEMMA RefusalStep ==
  ASSUME IInv, [Next]_vars, NEW v \in Workers, Refused(v)
  PROVE  orders[job[v].order].status \notin {"none", "pending_payment"}
<1> DEFINE True == orders[job[v].order].status \notin {"none", "pending_payment"}
<1>1. ASSUME NEW w \in Workers, NEW r \in Replies \ {"notCancellable", "skipped"},
             Answer(w, r)
      PROVE  FALSE
  BY <1>1 DEF Refused, Answer, IInv, TypeOK
<1>2. ~UNCHANGED reply
  BY DEF Refused
<1>3. ASSUME NEW w \in Workers, Request(w) PROVE FALSE
  BY <1>3 DEF Refused, Request, CreateOrder, CancelOrder, ConfirmOrder, GetOrder,
              Accept, Start, IInv, TypeOK
<1>4. ASSUME NEW w \in Workers, GetByIdempotencyKey(w) \/ InsertOrder(w)
                                \/ CacheMiss(w) \/ UpdateStatusInTx(w) \/ Fail(w)
      PROVE  FALSE
  BY <1>1, <1>2, <1>4
  DEF GetByIdempotencyKey, InsertOrder, CacheMiss, UpdateStatusInTx, Fail, GoTo, Committed
<1>5. ASSUME NEW w \in Workers, DbGet(w) PROVE FALSE
  BY <1>1, <1>2, <1>5 DEF DbGet
<1>6. ASSUME NEW w \in Workers, CacheHit(w) PROVE True
  <2>1. job[w].order \in OrderIds
    BY <1>6 DEF CacheHit, IInv, JobConsistent
  <2> QED
    BY <1>6, <2>1, CachedCopies, DecideRefuses DEF CacheHit, Refused
<1>7. ASSUME NEW w \in Workers, CacheSet(w) \/ RedisFail(w) PROVE True
  <2>1. job[w].at = "cacheSet" /\ Decide(w, job[w].copy)
    BY <1>2, <1>7 DEF CacheSet, RedisFail, GoTo
  <2>2. job[w].copy \in Statuses /\ CopyTrails(job[w].order, job[w].copy)
    BY <2>1 DEF IInv, TypeOK, JobConsistent
  <2> QED
    BY <2>1, <2>2, DecideRefuses DEF Refused
<1>8. ASSUME NEW o \in OrderIds, CacheExpire(o) PROVE FALSE
  BY <1>2, <1>8 DEF CacheExpire
<1> QED
  BY <1>2, <1>3, <1>4, <1>5, <1>6, <1>7, <1>8 DEF Next, Step, vars

\* CancelOrder and ConfirmOrder refuse a request only when the order is decided,
\* although the status they decide on may be out of date.
THEOREM RefusalsTrue == Spec => RefusalsAreTrue
<1>1. IInv /\ [Next]_vars =>
        [\A w \in Workers :
           reply[w] = "none" /\ reply'[w] \in {"notCancellable", "skipped"} =>
             orders[job[w].order].status \notin {"none", "pending_payment"}]_vars
  BY RefusalStep DEF Refused
<1> QED
  BY <1>1, Invariance, PTL DEF Spec, RefusalsAreTrue

-----------------------------------------------------------------------------
(* OrderEvents.                                                            *)

LEMMA EventInitIInv == EventInit => EventIInv
<1> SUFFICES ASSUME EventInit PROVE EventIInv
  OBVIOUS
<1>1. IInv /\ TypeOK
  BY InitIInv DEF EventInit, IInv
<1>2. delivery \in [Consumers -> Delivery] /\ \A c \in Consumers : ~Handling(c)
  BY ConsumersAssumption DEF EventInit, Handling
<1> QED
  BY <1>1, <1>2 DEF EventIInv, EventTypeOK, EventConsistent

\* A step of the event specification is one of Orders, or another attempt.
LEMMA StepOfOrders ==
  ASSUME [EventNext]_eventVars, \A c \in Consumers : ~Retry(c)
  PROVE  [Next]_vars
<1> USE ConsumersAssumption
<1>1. ASSUME NEW c \in Consumers, NEW type \in EventTypes, NEW o \in OrderIds,
             Deliver(c, type, o)
      PROVE  Next
  BY <1>1 DEF Deliver, Handle, Next, Request
<1>2. ASSUME NEW c \in Consumers, Done(c) \/ Crash(c) PROVE [Next]_vars
  BY <1>2 DEF Done, Crash, Next
<1>3. ASSUME NEW w \in Workers, HttpRequest(w) PROVE Next
  BY <1>3 DEF HttpRequest, Next, Request
<1>4. ASSUME NEW w \in Workers, Step(w) \/ Fail(w) \/ RedisFail(w) PROVE Next
  BY <1>4 DEF Next
<1>5. ASSUME NEW o \in OrderIds, CacheExpire(o) PROVE Next
  BY <1>5 DEF Next
<1>6. CASE UNCHANGED eventVars
  BY <1>6 DEF eventVars
<1> QED
  BY <1>1, <1>2, <1>3, <1>4, <1>5, <1>6 DEF EventNext

LEMMA RetryIInv ==
  ASSUME EventIInv, NEW c \in Consumers, Retry(c)
  PROVE  IInv'
<1> USE ConsumersAssumption, ConstantsAssumption
<1>1. IInv /\ delivery[c].order \in OrderIds /\ requests' \in Nat
  BY DEF EventIInv, EventConsistent, Retry, Returned, IInv, TypeOK
<1>2. PICK op \in {"confirm", "cancel"} :
        Start(c, NewJob(op, "cacheGet", delivery[c].order, NoKey))
  BY DEF Retry, ResumeAt
<1>3. /\ NewJob(op, "cacheGet", delivery[c].order, NoKey) \in Job
      /\ JobConsistent(NewJob(op, "cacheGet", delivery[c].order, NoKey))
  BY <1>1 DEF JobConsistent
<1> QED
  BY <1>1, <1>2, <1>3, StartIInv

LEMMA EventStepOrders ==
  ASSUME EventIInv, [EventNext]_eventVars
  PROVE  IInv'
BY RetryIInv, StepOfOrders, StepIInv DEF EventIInv

\* No step undoes an order, a decision or a fault.
LEMMA OrdersOnly ==
  ASSUME IInv, [Next]_vars
  PROVE  /\ faults' \in Nat /\ faults' >= faults
         /\ \A o \in OrderIds :
              orders[o].status # "none" =>
                orders'[o].status # "none" /\ (Decided(o) => Decided(o)')
<1> USE DEF Decided
<1>1. /\ faults \in Nat /\ orders \in [OrderIds -> Order] /\ job \in [Workers -> Job]
      /\ \A w \in Workers : JobConsistent(job[w])
  BY DEF IInv, TypeOK
<1>2. ASSUME NEW w \in Workers, Request(w) PROVE UNCHANGED <<orders, faults>>
  BY <1>2 DEF Request, CreateOrder, CancelOrder, ConfirmOrder, GetOrder, Accept, Start
<1>3. ASSUME NEW w \in Workers,
             GetByIdempotencyKey(w) \/ CacheHit(w) \/ CacheMiss(w) \/ DbGet(w)
             \/ CacheSet(w) \/ Fail(w) \/ RedisFail(w)
      PROVE  UNCHANGED orders /\ faults' \in {faults, faults + 1}
  BY <1>3 DEF GetByIdempotencyKey, CacheHit, CacheMiss, DbGet, CacheSet, Fail, RedisFail
<1>4. ASSUME NEW w \in Workers, InsertOrder(w)
      PROVE  /\ faults' \in {faults, faults + 1}
             /\ \A o \in OrderIds : orders[o].status # "none" => orders'[o] = orders[o]
  BY <1>1, <1>4 DEF InsertOrder, Committed
<1>5. ASSUME NEW w \in Workers, UpdateStatusInTx(w)
      PROVE  /\ faults' \in {faults, faults + 1}
             /\ \A o \in OrderIds : \/ orders'[o] = orders[o]
                                    \/ orders'[o].status \in {"cancelled", "processing"}
  <2>1. job[w].order \in OrderIds
    BY <1>1, <1>5 DEF UpdateStatusInTx, JobConsistent
  <2> QED
    BY <1>1, <1>5, <2>1 DEF UpdateStatusInTx, Committed, Target
<1>6. ASSUME NEW o \in OrderIds, CacheExpire(o) PROVE UNCHANGED <<orders, faults>>
  BY <1>6 DEF CacheExpire
<1>7. CASE UNCHANGED vars
  BY <1>1, <1>7 DEF vars
<1> QED
  BY <1>1, <1>2, <1>3, <1>4, <1>5, <1>6, <1>7 DEF Next, Step

LEMMA Forward ==
  ASSUME EventIInv, [EventNext]_eventVars
  PROVE  /\ faults' \in Nat /\ faults' >= faults
         /\ \A o \in OrderIds :
              orders[o].status # "none" =>
                orders'[o].status # "none" /\ (Decided(o) => Decided(o)')
<1>1. ASSUME NEW c \in Consumers, Retry(c) PROVE UNCHANGED <<orders, faults>>
  BY <1>1 DEF Retry, Start
<1>2. faults \in Nat
  BY DEF EventIInv, IInv, TypeOK
<1> QED
  BY <1>1, <1>2, StepOfOrders, OrdersOnly DEF EventIInv, Decided

\* A consumer that takes no part in a step.
LEMMA Bystander ==
  ASSUME EventIInv, [EventNext]_eventVars, NEW c \in Consumers,
         job'[c] = job[c], reply'[c] = reply[c], delivery'[c] = delivery[c]
  PROVE  EventConsistent(c)'
<1>1. EventConsistent(c) /\ delivery[c] \in Delivery /\ faults \in Nat
  BY DEF EventIInv, EventTypeOK, IInv, TypeOK
<1>2. /\ Handling(c)' = Handling(c)
      /\ Failed(reply[c])' = Failed(reply[c])
  BY DEF Handling, Failed
<1>3. /\ faults' \in Nat /\ faults' >= faults
      /\ \A o \in OrderIds :
           orders[o].status # "none" =>
             orders'[o].status # "none" /\ (Decided(o) => Decided(o)')
  BY Forward
<1>4. Handling(c) => delivery[c].attempt \in Nat
  BY <1>1, ConsumersAssumption DEF Handling
<1> QED
  BY <1>1, <1>2, <1>3, <1>4 DEF EventConsistent, Decided

\* What a request leaves alone of the other workers.
LEMMA OwnJobOnly ==
  ASSUME IInv, NEW w \in Workers, NEW v \in Workers, v # w,
         Request(w) \/ Step(w) \/ Fail(w) \/ RedisFail(w)
  PROVE  job'[v] = job[v] /\ reply'[v] = reply[v]
<1>1. job \in [Workers -> Job] /\ reply \in [Workers -> Replies]
  BY DEF IInv, TypeOK
<1>2. \A r : Answer(w, r) => job'[v] = job[v] /\ reply'[v] = reply[v]
  BY <1>1 DEF Answer
<1>3. \A step : GoTo(w, step) => job'[v] = job[v] /\ reply'[v] = reply[v]
  BY <1>1 DEF GoTo
<1>4. \A status : Decide(w, status) => job'[v] = job[v] /\ reply'[v] = reply[v]
  BY <1>1, <1>2 DEF Decide
<1>5. \A j : Start(w, j) => job'[v] = job[v] /\ reply'[v] = reply[v]
  BY <1>1 DEF Start
<1>6. CASE Request(w)
  BY <1>5, <1>6 DEF Request, CreateOrder, CancelOrder, ConfirmOrder, GetOrder, Accept
<1>7. CASE GetByIdempotencyKey(w)
  BY <1>2, <1>3, <1>7 DEF GetByIdempotencyKey
<1>8. CASE InsertOrder(w) \/ UpdateStatusInTx(w)
  BY <1>2, <1>8 DEF InsertOrder, UpdateStatusInTx, Committed
<1>9. CASE CacheHit(w) \/ CacheMiss(w) \/ CacheSet(w)
  BY <1>3, <1>4, <1>9 DEF CacheHit, CacheMiss, CacheSet
<1>10. CASE DbGet(w)
  BY <1>1, <1>2, <1>10 DEF DbGet
<1>11. CASE Fail(w) \/ RedisFail(w)
  BY <1>2, <1>3, <1>4, <1>11 DEF Fail, RedisFail
<1> QED
  BY <1>6, <1>7, <1>8, <1>9, <1>10, <1>11 DEF Step

\* A step of the consumer inside an attempt: the attempt goes on with the same
\* order, or it ends with the order decided, or it ends with a fault.
LEMMA InsideAttempt ==
  ASSUME IInv, NEW c \in Workers, job[c].at # "idle",
         job[c].op \in {"cancel", "confirm"}, orders[job[c].order].status # "none",
         Step(c) \/ Fail(c) \/ RedisFail(c)
  PROVE  \/ /\ job'[c].at # "idle"
            /\ job'[c].op = job[c].op /\ job'[c].order = job[c].order
         \/ job'[c].at = "idle" /\ orders'[job[c].order].status # "pending_payment"
         \/ job'[c].at = "idle" /\ reply'[c] = "internal" /\ faults' = faults + 1
<1> DEFINE GoesOn == /\ job'[c].at # "idle"
                     /\ job'[c].op = job[c].op /\ job'[c].order = job[c].order
<1>1. /\ job \in [Workers -> Job] /\ reply \in [Workers -> Replies]
      /\ orders \in [OrderIds -> Order] /\ JobConsistent(job[c])
  BY DEF IInv, TypeOK
<1>2. job[c].at \in {"cacheGet", "dbGet", "cacheSet", "update"} /\ job[c].order \in OrderIds
  BY <1>1 DEF JobConsistent
<1>3. ASSUME NEW r, Answer(c, r) PROVE job'[c].at = "idle" /\ reply'[c] = r
  BY <1>1, <1>3 DEF Answer
<1>4. ASSUME GoTo(c, "dbGet") PROVE GoesOn
  BY <1>1, <1>4 DEF GoTo
<1>5. ASSUME NEW status \in Statuses, CopyTrails(job[c].order, status),
             Decide(c, status)
      PROVE  \/ GoesOn
             \/ job'[c].at = "idle" /\ orders[job[c].order].status # "pending_payment"
  <2>1. CASE \E r : Answer(c, r) /\ status # "pending_payment"
    BY <1>3, <1>5, <2>1 DEF CopyTrails
  <2>2. CASE job' = [job EXCEPT ![c].at = "update", ![c].copy = status]
    BY <1>1, <2>2
  <2> QED
    BY <1>5, <2>1, <2>2 DEF Decide, CanCancel, CanConfirm
<1>6. CASE CacheHit(c)
  <2>1. PICK status \in cache[job[c].order] : Decide(c, status)
    BY <1>6 DEF CacheHit
  <2>2. CopyTrails(job[c].order, status) /\ status \in Statuses
    BY <1>2, <2>1, CachedCopies
  <2> QED
    BY <1>5, <1>6, <2>1, <2>2 DEF CacheHit
<1>7. CASE CacheMiss(c)
  BY <1>4, <1>7 DEF CacheMiss
<1>8. CASE DbGet(c)
  <2>1. job' = [job EXCEPT ![c].at = "cacheSet", ![c].copy = orders[job[c].order].status]
    BY <1>8 DEF DbGet, Missing
  <2> QED
    BY <1>1, <2>1
<1>9. ASSUME job[c].at = "cacheSet"
      PROVE  CopyTrails(job[c].order, job[c].copy) /\ job[c].copy \in Statuses
  BY <1>1, <1>9 DEF JobConsistent
<1>10. CASE CacheSet(c)
  BY <1>5, <1>9, <1>10 DEF CacheSet
<1>11. CASE UpdateStatusInTx(c)
  <2>1. job'[c].at = "idle"
    BY <1>3, <1>11 DEF UpdateStatusInTx, Committed
  <2>2. orders'[job[c].order].status = Target(job[c].op)
    BY <1>1, <1>2, <1>11 DEF UpdateStatusInTx
  <2> QED
    BY <2>1, <2>2 DEF Target
<1>12. CASE Fail(c)
  BY <1>3, <1>12 DEF Fail
<1>13. CASE RedisFail(c)
  BY <1>4, <1>5, <1>9, <1>13 DEF RedisFail
<1>14. ~(GetByIdempotencyKey(c) \/ InsertOrder(c))
  BY <1>2 DEF GetByIdempotencyKey, InsertOrder
<1> QED
  BY <1>6, <1>7, <1>8, <1>10, <1>11, <1>12, <1>13, <1>14 DEF Step

LEMMA AttemptConsistent ==
  ASSUME EventIInv, [EventNext]_eventVars, NEW c \in Consumers,
         Step(c) \/ Fail(c) \/ RedisFail(c), UNCHANGED delivery
  PROVE  EventConsistent(c)'
<1> DEFINE o == delivery[c].order
<1>1. /\ EventConsistent(c) /\ delivery[c] \in Delivery /\ faults \in Nat
      /\ c \in Workers /\ job[c] \in Job
  BY ConsumersAssumption DEF EventIInv, EventTypeOK, IInv, TypeOK
<1>2. Handling(c)' = Handling(c)
  BY DEF Handling
<1>3. job[c].at # "idle"
  BY DEF Step, GetByIdempotencyKey, InsertOrder, CacheHit, CacheMiss, DbGet, CacheSet,
         UpdateStatusInTx, Fail, RedisFail
<1>4. CASE ~Handling(c)
  BY <1>2, <1>4 DEF EventConsistent
<1>5. CASE Handling(c)
  <2>1. /\ o \in OrderIds /\ orders[o].status # "none" /\ job[c].order = o
        /\ job[c].op \in {"cancel", "confirm"}
        /\ Decided(o) \/ faults >= delivery[c].attempt
    BY <1>1, <1>3, <1>5 DEF EventConsistent
  <2>2. /\ orders'[o].status # "none" /\ (Decided(o) => Decided(o)')
        /\ faults' \in Nat /\ faults' >= faults
    BY <2>1, Forward
  <2>3. \/ /\ job'[c].at # "idle" /\ job'[c].op = job[c].op /\ job'[c].order = o
        \/ job'[c].at = "idle" /\ orders'[o].status # "pending_payment"
        \/ job'[c].at = "idle" /\ reply'[c] = "internal" /\ faults' = faults + 1
    BY <1>1, <1>3, <2>1, InsideAttempt DEF EventIInv
  <2>4. delivery[c].attempt \in Nat
    BY <1>1, ConsumersAssumption
  <2>5. o' = o /\ delivery'[c].attempt = delivery[c].attempt
    OBVIOUS
  <2>6. /\ reply'[c] = "internal" => Failed(reply[c])'
        /\ orders'[o].status # "pending_payment" <=> Decided(o)'
    BY <2>5 DEF Failed, Decided
  <2> HIDE DEF o
  <2>7. /\ job'[c].at # "idle" =>
             /\ job'[c].op \in {"cancel", "confirm"} /\ job'[c].order = o
             /\ Decided(o)' \/ faults' >= delivery[c].attempt
        /\ job'[c].at = "idle" =>
             \/ Decided(o)'
             \/ Failed(reply[c])' /\ faults' > delivery[c].attempt
    BY <1>1, <2>1, <2>2, <2>3, <2>4, <2>6
  <2> QED
    BY <2>1, <2>2, <2>5, <2>7 DEF EventConsistent, o, Decided
<1> QED
  BY <1>4, <1>5

LEMMA EventStepConsistent ==
  ASSUME EventIInv, [EventNext]_eventVars
  PROVE  /\ delivery' \in [Consumers -> Delivery]
         /\ \A c \in Consumers : EventConsistent(c)'
<1> USE ConsumersAssumption
<1>1. /\ IInv /\ delivery \in [Consumers -> Delivery] /\ job \in [Workers -> Job]
      /\ reply \in [Workers -> Replies] /\ faults \in Nat
      /\ \A c \in Consumers : EventConsistent(c)
  BY DEF EventIInv, EventTypeOK, IInv, TypeOK
<1>2. ASSUME NEW c \in Consumers, NEW type \in EventTypes, NEW o \in OrderIds,
             Deliver(c, type, o)
      PROVE  /\ delivery' \in [Consumers -> Delivery]
             /\ \A d \in Consumers : EventConsistent(d)'
  <2>1. PICK op \in {"confirm", "cancel"} : Start(c, NewJob(op, "cacheGet", o, NoKey))
    BY <1>2 DEF Deliver, Handle, ConfirmOrder, CancelOrder, Accept
  <2>2. /\ delivery' = [delivery EXCEPT ![c] = [type |-> type, order |-> o, attempt |-> 0]]
        /\ orders[o].status # "none"
    BY <1>2 DEF Deliver
  <2>3. delivery' \in [Consumers -> Delivery]
    BY <1>1, <2>2
  <2>4. ASSUME NEW d \in Consumers \ {c} PROVE EventConsistent(d)'
    BY <1>1, <2>1, <2>2, Bystander DEF Start
  <2>5. EventConsistent(c)'
    BY <1>1, <2>1, <2>2 DEF Start, EventConsistent
  <2> QED
    BY <2>3, <2>4, <2>5
<1>3. ASSUME NEW c \in Consumers, Retry(c)
      PROVE  /\ delivery' \in [Consumers -> Delivery]
             /\ \A d \in Consumers : EventConsistent(d)'
  <2>1. PICK op \in {"confirm", "cancel"} :
          Start(c, NewJob(op, "cacheGet", delivery[c].order, NoKey))
    BY <1>3 DEF Retry, ResumeAt
  <2>2. /\ delivery' = [delivery EXCEPT ![c].attempt = @ + 1]
        /\ Handling(c) /\ job[c].at = "idle" /\ delivery[c].attempt < MaxRetries
    BY <1>3 DEF Retry, Returned
  <2>3. /\ delivery' \in [Consumers -> Delivery]
        /\ delivery[c].attempt \in Nat
        /\ delivery'[c].order = delivery[c].order
        /\ delivery'[c].attempt = delivery[c].attempt + 1
        /\ \A d \in Consumers \ {c} : delivery'[d] = delivery[d]
    BY <1>1, <2>2
  <2>4. ASSUME NEW d \in Consumers \ {c} PROVE EventConsistent(d)'
    BY <1>1, <2>1, <2>3, Bystander DEF Start
  <2>5. EventConsistent(c)'
    <3>1. /\ job'[c] = NewJob(op, "cacheGet", delivery[c].order, NoKey)
          /\ UNCHANGED <<orders, faults>>
      BY <1>1, <2>1 DEF Start
    <3>2. /\ delivery[c].order \in OrderIds /\ orders[delivery[c].order].status # "none"
          /\ Decided(delivery[c].order) \/ faults > delivery[c].attempt
      BY <1>1, <2>2 DEF EventConsistent
    <3>3. Decided(delivery[c].order) => Decided(delivery[c].order)'
      BY <2>3, <3>1 DEF Decided
    <3> QED
      BY <1>1, <2>3, <3>1, <3>2, <3>3 DEF EventConsistent
  <2> QED
    BY <2>3, <2>4, <2>5
<1>4. ASSUME NEW c \in Consumers, Done(c) \/ Crash(c)
      PROVE  /\ delivery' \in [Consumers -> Delivery]
             /\ \A d \in Consumers : EventConsistent(d)'
  <2>1. /\ delivery' = [delivery EXCEPT ![c] = NoDelivery]
        /\ Fail(c) \/ UNCHANGED vars
    BY <1>4 DEF Done, Crash
  <2>2. delivery' \in [Consumers -> Delivery]
    BY <1>1, <2>1
  <2>3. ASSUME NEW d \in Consumers \ {c} PROVE EventConsistent(d)'
    <3>1. job'[d] = job[d] /\ reply'[d] = reply[d]
      BY <1>1, <2>1, OwnJobOnly DEF vars
    <3> QED
      BY <1>1, <2>1, <3>1, Bystander
  <2>4. EventConsistent(c)'
    BY <1>1, <2>1 DEF EventConsistent, Handling
  <2> QED
    BY <2>2, <2>3, <2>4
<1>5. ASSUME UNCHANGED delivery, NEW w \in Workers,
             (w \notin Consumers /\ HttpRequest(w)) \/ Step(w) \/ Fail(w) \/ RedisFail(w)
      PROVE  \A d \in Consumers : EventConsistent(d)'
  <2>1. HttpRequest(w) => Request(w)
    BY DEF HttpRequest, Request
  <2>2. ASSUME NEW d \in Consumers, d # w PROVE EventConsistent(d)'
    BY <1>1, <1>5, <2>1, <2>2, OwnJobOnly, Bystander
  <2>3. ASSUME w \in Consumers PROVE EventConsistent(w)'
    BY <1>5, <2>3, AttemptConsistent
  <2> QED
    BY <2>2, <2>3
<1>6. ASSUME UNCHANGED <<delivery, job, reply>>
      PROVE  \A d \in Consumers : EventConsistent(d)'
  BY <1>6, Bystander
<1> QED
  BY <1>1, <1>2, <1>3, <1>4, <1>5, <1>6 DEF EventNext, CacheExpire, eventVars, vars

\* The invariant behind the theorems of this module.
THEOREM EventInvariance == EventSpec => []EventIInv
<1>1. EventIInv /\ [EventNext]_eventVars => EventIInv'
  BY EventStepOrders, EventStepConsistent DEF EventIInv, EventTypeOK, IInv
<1> QED
  BY <1>1, EventInitIInv, PTL DEF EventSpec

\* The type of the state, with the consumers and their events.
THEOREM EventTypeCorrect == EventSpec => []EventTypeOK
<1>1. EventIInv => EventTypeOK
  BY DEF EventIInv
<1> QED
  BY <1>1, EventInvariance, PTL

\* One order for an idempotency key also while events are handled and retried.
THEOREM EventOneOrderForAKey == EventSpec => []OneOrderPerKey
<1>1. EventIInv => OneOrderPerKey
  BY DEF EventIInv, IInv
<1> QED
  BY <1>1, EventInvariance, PTL

\* A request or an event is refused only when the order is decided, retries of
\* handleWithRetry included.
THEOREM EventRefusalsTrue == EventSpec => RefusalsAreTrue
<1>1. ASSUME EventIInv, NEW c \in Consumers, Retry(c), NEW v \in Workers, Refused(v)
      PROVE  FALSE
  BY <1>1 DEF Refused, Retry, Start, EventIInv, IInv, TypeOK
<1>2. EventIInv /\ [EventNext]_eventVars =>
        [\A w \in Workers :
           reply[w] = "none" /\ reply'[w] \in {"notCancellable", "skipped"} =>
             orders[job[w].order].status \notin {"none", "pending_payment"}]_vars
  BY <1>1, StepOfOrders, RefusalStep DEF Refused, EventIInv
<1> QED
  BY <1>2, EventInvariance, PTL DEF EventSpec, RefusalsAreTrue

\* When handleWithRetry returns, the order of its event is decided, unless there
\* have been more faults than it has retries.
THEOREM EventHasTakenEffect == EventSpec => EventTakesEffect
<1>1. ASSUME EventIInv, NEW c \in Consumers, Done(c)
      PROVE  Decided(delivery[c].order) \/ faults > MaxRetries
  <2>1. \/ Decided(delivery[c].order)
        \/ Failed(reply[c]) /\ faults > delivery[c].attempt
    BY <1>1 DEF Done, Returned, EventIInv, EventConsistent
  <2> QED
    BY <1>1, <2>1 DEF Done, LastAttempt
<1>2. EventIInv /\ [EventNext]_eventVars =>
        [\A c \in Consumers :
           Done(c) => Decided(delivery[c].order) \/ faults > MaxRetries]_eventVars
  BY <1>1
<1> QED
  BY <1>2, EventInvariance, PTL DEF EventSpec, EventTakesEffect

-----------------------------------------------------------------------------
(* OrderEvents implements Orders.                                          *)

LEMMA LeftType ==
  ASSUME delivery \in [Consumers -> Delivery]
  PROVE  /\ [c \in Consumers |-> Left(c)] \in [Consumers -> Nat]
         /\ \A c \in Consumers : Left(c) \in Nat /\ Left(c) <= MaxRetries
         /\ RetriesLeft = Total([c \in Consumers |-> Left(c)])
<1>1. ASSUME NEW c \in Consumers PROVE Left(c) \in Nat /\ Left(c) <= MaxRetries
  BY ConsumersAssumption DEF Left, Handling
<1> QED
  BY <1>1 DEF RetriesLeft

\* However the events are spread over the consumers.
LEMMA RetriesLeftBound ==
  ASSUME delivery \in [Consumers -> Delivery]
  PROVE  RetriesLeft \in Nat /\ RetriesLeft <= MaxRetries * Cardinality(Consumers)
<1> DEFINE f == [c \in Consumers |-> Left(c)]
<1>1. /\ f \in [Consumers -> Nat] /\ \A c \in Consumers : f[c] <= MaxRetries
      /\ RetriesLeft = Total(f)
  BY LeftType
<1> HIDE DEF f
<1> QED
  BY <1>1, ConsumersAssumption, TotalType, TotalBound

\* One consumer has fewer or as many retries left, the others as many as before.
LEMMA RetriesLeftStep ==
  ASSUME delivery \in [Consumers -> Delivery], delivery' \in [Consumers -> Delivery],
         NEW c \in Consumers, \A d \in Consumers \ {c} : delivery'[d] = delivery[d]
  PROVE  RetriesLeft' = RetriesLeft + Left(c)' - Left(c)
<1> DEFINE f == [d \in Consumers |-> Left(d)]
           g == [d \in Consumers |-> Left(d)']
<1>1. f \in [Consumers -> Nat] /\ RetriesLeft = Total(f) /\ f[c] = Left(c)
  BY LeftType
<1>2. \A d \in Consumers : Left(d)' \in Nat
  BY ConsumersAssumption DEF Left, Handling
<1>3. g \in [Consumers -> Nat] /\ g[c] = Left(c)'
  BY <1>2
<1>4. RetriesLeft' = Total(g)
  BY DEF RetriesLeft
<1>5. \A d \in Consumers \ {c} : g[d] = f[d]
  BY DEF Left, Handling
<1> HIDE DEF f, g
<1> QED
  BY <1>1, <1>3, <1>4, <1>5, ConsumersAssumption, TotalUpdate

\* A step that is not another attempt adds a request only below MaxRequests.
LEMMA RequestsStep ==
  ASSUME [Next]_vars
  PROVE  UNCHANGED requests \/ (requests < MaxRequests /\ requests' = requests + 1)
<1>1. ASSUME NEW w \in Workers, Request(w)
      PROVE  UNCHANGED requests \/ (requests < MaxRequests /\ requests' = requests + 1)
  BY <1>1 DEF Request, CreateOrder, CancelOrder, ConfirmOrder, GetOrder, Accept
<1>2. ASSUME NEW w \in Workers, Step(w) \/ Fail(w) \/ RedisFail(w)
      PROVE  UNCHANGED requests
  BY <1>2 DEF Step, GetByIdempotencyKey, InsertOrder, CacheHit, CacheMiss, DbGet,
              CacheSet, UpdateStatusInTx, Fail, RedisFail
<1>3. ASSUME NEW o \in OrderIds, CacheExpire(o) PROVE UNCHANGED requests
  BY <1>3 DEF CacheExpire
<1> QED
  BY <1>1, <1>2, <1>3 DEF Next, vars

\* Either no consumer takes a new event, or a request below MaxRequests starts.
LEMMA DeliveryStep ==
  ASSUME [EventNext]_eventVars
  PROVE  \/ UNCHANGED delivery
         \/ requests < MaxRequests /\ requests' = requests + 1
         \/ \E c \in Consumers : Retry(c)
         \/ /\ UNCHANGED requests
            /\ \E c \in Consumers : delivery' = [delivery EXCEPT ![c] = NoDelivery]
<1>1. ASSUME NEW c \in Consumers, NEW type \in EventTypes, NEW o \in OrderIds,
             Deliver(c, type, o)
      PROVE  requests < MaxRequests /\ requests' = requests + 1
  BY <1>1 DEF Deliver, Handle, ConfirmOrder, CancelOrder, Accept
<1>2. ASSUME NEW c \in Consumers, Done(c) \/ Crash(c)
      PROVE  UNCHANGED requests /\ delivery' = [delivery EXCEPT ![c] = NoDelivery]
  BY <1>2 DEF Done, Crash, Fail, vars
<1> QED
  BY <1>1, <1>2 DEF EventNext, eventVars

LEMMA BoundedStep ==
  ASSUME EventIInv, EventIInv', RequestsBounded, [EventNext]_eventVars
  PROVE  RequestsBounded'
<1> DEFINE B == MaxRetries * Cardinality(Consumers)
<1>1. /\ delivery \in [Consumers -> Delivery] /\ delivery' \in [Consumers -> Delivery]
      /\ requests \in Nat /\ requests' \in Nat
  BY DEF EventIInv, EventTypeOK, TypeOK
<1>2. /\ RetriesLeft \in Nat /\ RetriesLeft <= B
      /\ B \in Nat /\ MaxRequests \in Nat
  <2>1. Cardinality(Consumers) \in Nat
    BY ConsumersAssumption, FS_CardinalityType
  <2> QED
    BY <1>1, <2>1, RetriesLeftBound, ConsumersAssumption, ConstantsAssumption
<1>3. RetriesLeft' \in Nat /\ RetriesLeft' <= B
  <2> DEFINE g == [d \in Consumers |-> Left(d)']
  <2>1. \A d \in Consumers : Left(d)' \in Nat /\ Left(d)' <= MaxRetries
    BY <1>1, ConsumersAssumption DEF Left, Handling
  <2>2. g \in [Consumers -> Nat] /\ \A d \in Consumers : g[d] <= MaxRetries
    BY <2>1
  <2>3. RetriesLeft' = Total(g)
    BY DEF RetriesLeft
  <2> HIDE DEF g
  <2> QED
    BY <2>2, <2>3, ConsumersAssumption, TotalType, TotalBound
<1> HIDE DEF B
<1>4. requests + RetriesLeft <= MaxRequests + B
  BY DEF RequestsBounded, AllRequestsBound, B
<1>5. requests' + RetriesLeft' <= MaxRequests + B
  <2>1. CASE requests < MaxRequests /\ requests' = requests + 1
    <3>1. requests' \in Nat /\ requests' <= MaxRequests
      BY <1>1, <1>2, <2>1
    <3>2. MaxRequests \in Nat /\ B \in Nat
      BY <1>2
    <3>3. \A m, n, k, b \in Nat : m <= k /\ n <= b => m + n <= k + b
      OBVIOUS
    <3> QED
      BY <1>3, <3>1, <3>2, <3>3
  <2>2. ASSUME UNCHANGED delivery, UNCHANGED requests
        PROVE  requests' + RetriesLeft' <= MaxRequests + B
    BY <1>4, <2>2 DEF RetriesLeft, Left, Handling
  <2>3. ASSUME NEW c \in Consumers, Retry(c)
        PROVE  requests' + RetriesLeft' <= MaxRequests + B
    <3>1. /\ requests' = requests + 1 /\ delivery[c].attempt < MaxRetries /\ Handling(c)
          /\ delivery' = [delivery EXCEPT ![c].attempt = @ + 1]
      BY <2>3 DEF Retry, Returned
    <3>2. /\ delivery[c].attempt \in Nat
          /\ \A d \in Consumers \ {c} : delivery'[d] = delivery[d]
          /\ delivery'[c].type = delivery[c].type
          /\ delivery'[c].attempt = delivery[c].attempt + 1
      BY <1>1, <3>1
    <3>3. RetriesLeft' = RetriesLeft + Left(c)' - Left(c)
      BY <1>1, <3>2, RetriesLeftStep
    <3>4. /\ Left(c)' = MaxRetries - (delivery[c].attempt + 1)
          /\ Left(c) = MaxRetries - delivery[c].attempt
      BY <3>1, <3>2 DEF Left, Handling
    <3> QED
      BY <1>1, <1>2, <1>4, <3>1, <3>2, <3>3, <3>4, ConsumersAssumption
  <2>4. ASSUME NEW c \in Consumers, delivery' = [delivery EXCEPT ![c] = NoDelivery],
               UNCHANGED requests
        PROVE  requests' + RetriesLeft' <= MaxRequests + B
    <3>1. RetriesLeft' = RetriesLeft + Left(c)' - Left(c)
      BY <1>1, <2>4, RetriesLeftStep
    <3>2. Left(c)' = 0
      BY <1>1, <2>4 DEF Left, Handling
    <3>3. Left(c) \in Nat
      BY <1>1, LeftType
    <3> QED
      BY <1>1, <1>2, <1>4, <2>4, <3>1, <3>2, <3>3
  <2>5. CASE \A c \in Consumers : ~Retry(c)
    <3>1. UNCHANGED requests \/ (requests < MaxRequests /\ requests' = requests + 1)
      BY <2>5, StepOfOrders, RequestsStep
    <3>2. \/ UNCHANGED delivery
          \/ requests < MaxRequests /\ requests' = requests + 1
          \/ /\ UNCHANGED requests
             /\ \E c \in Consumers : delivery' = [delivery EXCEPT ![c] = NoDelivery]
      BY <2>5, DeliveryStep
    <3> QED
      BY <2>1, <2>2, <2>4, <3>1, <3>2
  <2> QED
    BY <2>3, <2>5
<1> QED
  BY <1>5 DEF RequestsBounded, AllRequestsBound, B

\* A step of Orders is one of Orders with the larger bound.
LEMMA MoreRequests ==
  ASSUME TypeOK, [Next]_vars
  PROVE  [AllRequests!Next]_vars
<1>1. requests \in Nat /\ (requests < MaxRequests => requests < AllRequestsBound)
  <2>1. Cardinality(Consumers) \in Nat
    BY ConsumersAssumption, FS_CardinalityType
  <2>2. MaxRetries * Cardinality(Consumers) \in Nat
    BY <2>1, ConsumersAssumption
  <2> QED
    BY <2>2, ConstantsAssumption DEF TypeOK, AllRequestsBound
<1>2. ASSUME NEW w \in Workers, Request(w) PROVE AllRequests!Request(w)
  BY <1>1, <1>2
  DEF Request, CreateOrder, CancelOrder, ConfirmOrder, GetOrder, Accept, Start,
      AllRequests!Request, AllRequests!CreateOrder, AllRequests!CancelOrder,
      AllRequests!ConfirmOrder, AllRequests!GetOrder, AllRequests!Accept,
      AllRequests!Start, AllRequests!NewJob
<1>3. ASSUME NEW w \in Workers, Step(w) PROVE AllRequests!Step(w)
  <2> USE DEF GoTo, Answer, Committed, Decide, CanCancel, CanConfirm,
        AllRequests!GoTo, AllRequests!Answer, AllRequests!Committed, AllRequests!Decide,
        AllRequests!CanCancel, AllRequests!CanConfirm, AllRequests!IdleJob,
        AllRequests!NewJob
  <2>1. GetByIdempotencyKey(w) => AllRequests!GetByIdempotencyKey(w)
    BY DEF GetByIdempotencyKey, HasKey, AllRequests!GetByIdempotencyKey, AllRequests!HasKey
  <2>2. InsertOrder(w) => AllRequests!InsertOrder(w)
    BY DEF InsertOrder, KeyFree, HasKey, AllRequests!InsertOrder, AllRequests!KeyFree,
           AllRequests!HasKey
  <2>3. CacheHit(w) => AllRequests!CacheHit(w)
    BY DEF CacheHit, AllRequests!CacheHit
  <2>4. CacheMiss(w) => AllRequests!CacheMiss(w)
    BY DEF CacheMiss, AllRequests!CacheMiss
  <2>5. DbGet(w) => AllRequests!DbGet(w)
    BY DEF DbGet, Missing, AllRequests!DbGet, AllRequests!Missing
  <2>6. CacheSet(w) => AllRequests!CacheSet(w)
    BY DEF CacheSet, AllRequests!CacheSet
  <2>7. UpdateStatusInTx(w) => AllRequests!UpdateStatusInTx(w)
    BY DEF UpdateStatusInTx, Target, Event, AllRequests!UpdateStatusInTx,
           AllRequests!Target, AllRequests!Event
  <2> QED
    BY <1>3, <2>1, <2>2, <2>3, <2>4, <2>5, <2>6, <2>7 DEF Step, AllRequests!Step
<1>4. ASSUME NEW w \in Workers, Fail(w) \/ RedisFail(w)
      PROVE  AllRequests!Fail(w) \/ AllRequests!RedisFail(w)
  BY <1>4
  DEF Fail, RedisFail, GoTo, Answer, Decide, CanCancel, CanConfirm,
      AllRequests!Fail, AllRequests!RedisFail, AllRequests!GoTo, AllRequests!Answer,
      AllRequests!Decide, AllRequests!CanCancel, AllRequests!CanConfirm,
      AllRequests!IdleJob, AllRequests!NewJob
<1>5. ASSUME NEW o \in OrderIds, CacheExpire(o) PROVE AllRequests!CacheExpire(o)
  BY <1>5 DEF CacheExpire, AllRequests!CacheExpire
<1> QED
  BY <1>2, <1>3, <1>4, <1>5 DEF Next, AllRequests!Next

\* Another attempt is a request to confirm or to cancel the order of the event.
LEMMA RetryIsRequest ==
  ASSUME EventIInv, RequestsBounded, NEW c \in Consumers, Retry(c)
  PROVE  AllRequests!Next
<1> USE ConsumersAssumption
<1>1. /\ delivery \in [Consumers -> Delivery] /\ requests \in Nat
      /\ delivery[c].order \in OrderIds
  BY DEF EventIInv, EventTypeOK, TypeOK, EventConsistent, Retry, Returned
<1>2. requests < AllRequestsBound
  <2> DEFINE f == [d \in Consumers |-> Left(d)]
  <2>1. /\ f \in [Consumers -> Nat] /\ RetriesLeft = Total(f) /\ f[c] = Left(c)
    BY <1>1, LeftType
  <2> HIDE DEF f
  <2>2. Left(c) <= RetriesLeft
    BY <2>1, TotalAtLeast
  <2>3. Left(c) >= 1 /\ Left(c) \in Nat
    BY <1>1 DEF Retry, Returned, Left
  <2>4. RetriesLeft \in Nat
    BY <1>1, RetriesLeftBound
  <2>5. AllRequestsBound \in Nat
    BY ConstantsAssumption, FS_CardinalityType DEF AllRequestsBound
  <2> QED
    BY <1>1, <2>2, <2>3, <2>4, <2>5 DEF RequestsBounded
<1>3. /\ Start(c, NewJob(IF delivery[c].type = "inventory.reserved" THEN "confirm" ELSE "cancel",
                         "cacheGet", delivery[c].order, NoKey))
      /\ requests' = requests + 1
  BY DEF Retry, ResumeAt
<1>4. \/ AllRequests!ConfirmOrder(c, delivery[c].order)
      \/ AllRequests!CancelOrder(c, delivery[c].order)
  BY <1>2, <1>3
  DEF Start, AllRequests!ConfirmOrder, AllRequests!CancelOrder, AllRequests!Accept,
      AllRequests!Start, AllRequests!NewJob
<1> QED
  BY <1>1, <1>4 DEF AllRequests!Next, AllRequests!Request

\* The order service with its consumer, its retries and its crashes is the order
\* service with more requests: handleWithRetry and the handlers of
\* inventory_event_handler.go do nothing to the orders that ConfirmOrder and
\* CancelOrder do not do.
THEOREM OrdersImplemented == EventSpec => ImplementsOrders
<1>1. EventInit => AllRequests!Init /\ RequestsBounded
  <2> SUFFICES ASSUME EventInit PROVE AllRequests!Init /\ RequestsBounded
    OBVIOUS
  <2>1. AllRequests!Init
    BY DEF EventInit, Init, AllRequests!Init, AllRequests!IdleJob, AllRequests!NewJob
  <2>2. delivery \in [Consumers -> Delivery] /\ requests = 0
    BY EventInitIInv DEF EventIInv, EventTypeOK, EventInit, Init
  <2>3. Cardinality(Consumers) \in Nat
    BY ConsumersAssumption, FS_CardinalityType
  <2>4. MaxRetries * Cardinality(Consumers) \in Nat
    BY <2>3, ConsumersAssumption
  <2> QED
    BY <2>1, <2>2, <2>4, RetriesLeftBound, ConstantsAssumption
    DEF RequestsBounded, AllRequestsBound
<1>2. EventIInv /\ EventIInv' /\ RequestsBounded /\ [EventNext]_eventVars
        => RequestsBounded'
  BY BoundedStep
<1>3. EventIInv /\ RequestsBounded /\ [EventNext]_eventVars
        => [AllRequests!Next]_(AllRequests!vars)
  <2> SUFFICES ASSUME EventIInv, RequestsBounded, [EventNext]_eventVars
               PROVE  [AllRequests!Next]_vars
    BY DEF vars, AllRequests!vars
  <2>1. TypeOK
    BY DEF EventIInv, EventTypeOK
  <2> QED
    BY <2>1, RetryIsRequest, StepOfOrders, MoreRequests
<1> QED
  BY <1>1, <1>2, <1>3, EventInvariance, PTL
  DEF EventSpec, ImplementsOrders, AllRequests!Spec

=============================================================================
