----------------------------- MODULE Inventory -----------------------------
(***************************************************************************)
(* The stock of one product in one warehouse, as the inventory service     *)
(* keeps it: the row of table inventory, the rows of table                 *)
(* inventory_reservations that refer to it, the totals of table            *)
(* inventory_movements, and the two Redis entries that cache the row.      *)
(* Every statement the service sends names one (product, warehouse), so    *)
(* the rows of different products do not interact.                         *)
(*                                                                         *)
(* A worker is a goroutine serving one HTTP request or one Kafka message   *)
(* at a time.  Its steps are the points at which it talks to Postgres or   *)
(* to Redis: between two of them every other worker may run.  The code     *)
(* opens a transaction in ReserveStock and ReleaseReservation, but only    *)
(* the reservation row and the movement row are written through it; the    *)
(* other statements go to the pool and commit by themselves.               *)
(***************************************************************************)
EXTENDS Integers, FiniteSets, Totals

CONSTANTS
  Workers,             \* goroutines that serve requests
  Reservations,        \* ids that uuid.New() hands out to reservations
  Quantities,          \* quantities asked for by ReserveStock
  Changes,             \* quantities given to UpdateStock, negative for "out"
  NoReservation,       \* the id of no reservation
  OrderItemIdNotNull,  \* does the schema declare order_item_id NOT NULL
  ReleasesMayOverlap,  \* may two requests release one reservation at a time
  MaxRequests,         \* bound: writing requests accepted in a run
  MaxFaults            \* bound: failed statements, lost calls and crashes

ASSUME ConstantsAssumption ==
  /\ Quantities \subseteq Int
  /\ Changes \subseteq Int
  /\ IsFiniteSet(Workers)
  /\ IsFiniteSet(Reservations)
  /\ Workers \cap Reservations = {}
  /\ NoReservation \notin Reservations
  /\ OrderItemIdNotNull \in BOOLEAN
  /\ ReleasesMayOverlap \in BOOLEAN
  /\ MaxRequests \in Nat
  /\ MaxFaults \in Nat

VARIABLES
  row,        \* the inventory row
  cache,      \* cache key -> set of at most one cached copy of the row
  resv,       \* the table inventory_reservations
  moves,      \* net quantities recorded in inventory_movements
  job,        \* worker -> the request it serves and how far it got
  requests,   \* writing requests accepted so far
  faults      \* faults so far

vars == <<row, cache, resv, moves, job, requests, faults>>

-----------------------------------------------------------------------------
(* Data.  Version -1 stands for a row that is not there (sql.ErrNoRows).   *)

Row == [onHand : Int, reserved : Nat, version : Nat \cup {-1}]
Absent == [onHand |-> 0, reserved |-> 0, version |-> -1]

CacheKeys == {"byWarehouse", "byProduct"}

Reservation == [status : {"none", "reserved", "released"}, qty : Nat]

Steps == {"idle", "cacheGet", "dbGet", "cacheSet", "create", "updateStock",
          "reserveQuantity", "updateStatus", "releaseQuantity", "cacheDelete",
          "commitReservation", "writeMovement"}

Job == [op : {"none", "get", "reserve", "release", "update"},
        at : Steps, qty : Int, copy : Row,
        rid : Reservations \cup {NoReservation}]

NewJob(op, at, q, r) ==
  [op |-> op, at |-> at, qty |-> q, copy |-> Absent, rid |-> r]

IdleJob == NewJob("none", "idle", 0, NoReservation)

\* Mutant: reserved stock counted as available.
AvailableAll(inv) == inv.onHand
Available(inv) == inv.onHand - inv.reserved

\* GetStock reads by product, the writers by product and warehouse.
KeyOf(op) == IF op = "get" THEN "byProduct" ELSE "byWarehouse"

Accept(w, j) ==
  /\ job[w].at = "idle"
  /\ requests < MaxRequests
  /\ requests' = requests + 1
  /\ job' = [job EXCEPT ![w] = j]
  /\ UNCHANGED <<row, cache, resv, moves, faults>>

Return(w) == job' = [job EXCEPT ![w] = IdleJob]

GoTo(w, step) == job' = [job EXCEPT ![w].at = step]

-----------------------------------------------------------------------------
(* Entry points.                                                           *)

\* Bound: a request to reserve is accepted while an unused id is left for it.
IdLeft == Cardinality({v \in Workers : job[v].op = "reserve"})
            < Cardinality({r \in Reservations : resv[r].status = "none"})

\* A quantity that is not positive is refused before anything is read.
ReserveStock(w, q) ==
  /\ q > 0
  /\ IdLeft
  /\ Accept(w, NewJob("reserve", "cacheGet", q, NoReservation))

UpdateStock(w, d) ==
  Accept(w, NewJob("update", "cacheGet", d, NoReservation))

\* Mutant: a reservation released before is released again.
ReleasableTwice(rsv) == rsv.status # "none"
Releasable(rsv) == rsv.status = "reserved"

\* GetByID and the test of its answer: a reservation that is unknown or no
\* longer "reserved" ends the request at once.
ReleaseReservation(w, r) ==
  /\ Releasable(resv[r])
  /\ ReleasesMayOverlap \/ \A v \in Workers : job[v].rid # r
  /\ Accept(w, NewJob("release", "updateStatus", resv[r].qty, r))

GetStock(w) ==
  /\ job[w].at = "idle"
  /\ job' = [job EXCEPT ![w] = NewJob("get", "cacheGet", 0, NoReservation)]
  /\ UNCHANGED <<row, cache, resv, moves, requests, faults>>

-----------------------------------------------------------------------------
(* Reading the row through the cache.                                      *)

\* Mutant: ReserveStock does not look at the copy it read.
AfterReadUnchecked(op, q, inv) ==
  CASE op = "reserve" -> "reserveQuantity"
    [] op = "update"  -> "updateStock"
    [] OTHER          -> "idle"

\* Where a request goes once it has its copy of the row.
AfterRead(op, q, inv) ==
  CASE op = "reserve" -> IF Available(inv) < q THEN "idle" ELSE "reserveQuantity"
    [] op = "update"  -> "updateStock"
    [] OTHER          -> "idle"

Proceed(w, inv) ==
  LET next == AfterRead(job[w].op, job[w].qty, inv)
  IN  IF next = "idle" THEN Return(w)
      ELSE job' = [job EXCEPT ![w].at = next, ![w].copy = inv]

CacheHit(w) ==
  /\ job[w].at = "cacheGet"
  /\ \E inv \in cache[KeyOf(job[w].op)] : Proceed(w, inv)
  /\ UNCHANGED <<row, cache, resv, moves, requests, faults>>

CacheMiss(w) ==
  /\ job[w].at = "cacheGet"
  /\ cache[KeyOf(job[w].op)] = {}
  /\ GoTo(w, "dbGet")
  /\ UNCHANGED <<row, cache, resv, moves, requests, faults>>

\* No row: UpdateStock goes on to create it, ReserveStock gives up, and
\* GetStock has an empty list like any other answer.
DbGet(w) ==
  /\ job[w].at = "dbGet"
  /\ IF row = Absent /\ job[w].op # "get"
     THEN IF job[w].op = "update" THEN GoTo(w, "create") ELSE Return(w)
     ELSE job' = [job EXCEPT ![w].at = "cacheSet", ![w].copy = row]
  /\ UNCHANGED <<row, cache, resv, moves, requests, faults>>

CacheSet(w) ==
  /\ job[w].at = "cacheSet"
  /\ cache' = [cache EXCEPT ![KeyOf(job[w].op)] = {job[w].copy}]
  /\ Proceed(w, job[w].copy)
  /\ UNCHANGED <<row, resv, moves, requests, faults>>

-----------------------------------------------------------------------------
(* Writing.                                                                *)

\* INSERT under UNIQUE (product_id, warehouse_id).
Create(w) ==
  /\ job[w].at = "create"
  /\ IF row = Absent
     THEN /\ row' = [onHand |-> job[w].qty, reserved |-> 0, version |-> 0]
          /\ GoTo(w, "cacheDelete")
     ELSE UNCHANGED row /\ Return(w)
  /\ UNCHANGED <<cache, resv, moves, requests, faults>>

\* WHERE version = $5
VersionMatches(inv, copy) == inv.version = copy.version

AdjustOnHand(w) ==
  /\ job[w].at = "updateStock"
  /\ IF VersionMatches(row, job[w].copy)
     THEN /\ row' = [row EXCEPT !.onHand = @ + job[w].qty, !.version = @ + 1]
          /\ GoTo(w, "cacheDelete")
     ELSE UNCHANGED row /\ Return(w)
  /\ UNCHANGED <<cache, resv, moves, requests, faults>>

\* WHERE version = $5 AND (quantity_on_hand - quantity_reserved) >= $1
CanReserve(inv, copy, q) == VersionMatches(inv, copy) /\ Available(inv) >= q

\* Mutants: the UPDATE leaves the version as it is, or has the sign wrong.
ReservedSameVersion(inv, q) == [inv EXCEPT !.reserved = @ + q]
ReservedNegated(inv, q) == [inv EXCEPT !.reserved = @ - q, !.version = @ + 1]
Reserved(inv, q) == [inv EXCEPT !.reserved = @ + q, !.version = @ + 1]

ReserveQuantity(w) ==
  /\ job[w].at = "reserveQuantity"
  /\ IF CanReserve(row, job[w].copy, job[w].qty)
     THEN /\ row' = Reserved(row, job[w].qty)
          /\ GoTo(w, "cacheDelete")
     ELSE UNCHANGED row /\ Return(w)
  /\ UNCHANGED <<cache, resv, moves, requests, faults>>

\* UPDATE ... WHERE id = $3, whatever the status is by now.
UpdateStatus(w) ==
  /\ job[w].at = "updateStatus"
  /\ resv' = [resv EXCEPT ![job[w].rid].status = "released"]
  /\ GoTo(w, "releaseQuantity")
  /\ UNCHANGED <<row, cache, moves, requests, faults>>

\* Mutant: quantity_reserved > $1.
ReleasedStrict(inv, q) ==
  IF inv.reserved > q THEN [inv EXCEPT !.reserved = @ - q] ELSE inv

\* WHERE quantity_reserved >= $1; no row updated is no error.
Released(inv, q) ==
  IF inv.reserved >= q THEN [inv EXCEPT !.reserved = @ - q] ELSE inv

ReleaseQuantity(w) ==
  /\ job[w].at = "releaseQuantity"
  /\ row' = Released(row, job[w].qty)
  /\ GoTo(w, "cacheDelete")
  /\ UNCHANGED <<cache, resv, moves, requests, faults>>

EmptyCache == [k \in CacheKeys |-> {}]

AfterWrite(op) == IF op = "reserve" THEN "commitReservation" ELSE "writeMovement"

\* One DEL of both keys.
CacheDelete(w) ==
  /\ job[w].at = "cacheDelete"
  /\ cache' = EmptyCache
  /\ GoTo(w, AfterWrite(job[w].op))
  /\ UNCHANGED <<row, resv, moves, requests, faults>>

\* Mutant: a reservation is recorded with the sign of a release.
RecordedUnsigned(m, op, q) ==
  IF op = "update" THEN [m EXCEPT !.onHand = @ + q]
                   ELSE [m EXCEPT !.reserved = @ + q]

\* The movement row of an operation: "in" and "out" carry the change of the
\* stock, "reserve" the negated and "release" the plain quantity.
Recorded(m, op, q) ==
  CASE op = "reserve" -> [m EXCEPT !.reserved = @ - q]
    [] op = "release" -> [m EXCEPT !.reserved = @ + q]
    [] OTHER          -> [m EXCEPT !.onHand = @ + q]

\* The transaction of ReserveStock: the reservation row, with order_item_id
\* NULL, and the movement row, then COMMIT.  Nobody sees it before that.
CommitReservation(w) ==
  /\ job[w].at = "commitReservation"
  /\ IF OrderItemIdNotNull
     THEN UNCHANGED <<resv, moves>>
     ELSE \E r \in Reservations :
            /\ resv[r].status = "none"
            /\ resv' = [resv EXCEPT ![r] = [status |-> "reserved",
                                            qty |-> job[w].qty]]
            /\ moves' = Recorded(moves, "reserve", job[w].qty)
  /\ Return(w)
  /\ UNCHANGED <<row, cache, requests, faults>>

\* The movement row of a release (the only write of its transaction, then
\* COMMIT) or of an update (no transaction).
WriteMovement(w) ==
  /\ job[w].at = "writeMovement"
  /\ moves' = Recorded(moves, job[w].op, job[w].qty)
  /\ Return(w)
  /\ UNCHANGED <<row, cache, resv, requests, faults>>

-----------------------------------------------------------------------------
(* The environment.                                                        *)

\* The time to live of a cache entry runs out.
CacheExpire(k) ==
  /\ cache[k] # {}
  /\ cache' = [cache EXCEPT ![k] = {}]
  /\ UNCHANGED <<row, resv, moves, job, requests, faults>>

\* The request stops before its next statement: the statement fails, the
\* client goes away and cancels the context, or the process dies.  The open
\* transaction is rolled back, what was committed stays.  An error of the
\* movement INSERT, which the code drops, ends the same way: inside a
\* transaction it makes COMMIT fail, outside one there is only the missing row.
Fail(w) ==
  /\ job[w].at # "idle"
  /\ faults < MaxFaults
  /\ faults' = faults + 1
  /\ Return(w)
  /\ UNCHANGED <<row, cache, resv, moves, requests>>

\* A Redis error: a GET counts as a miss, a SET or a DEL is only logged.
RedisFail(w) ==
  /\ faults < MaxFaults
  /\ faults' = faults + 1
  /\ \/ /\ job[w].at = "cacheGet"
        /\ cache[KeyOf(job[w].op)] # {}
        /\ GoTo(w, "dbGet")
     \/ /\ job[w].at = "cacheSet"
        /\ Proceed(w, job[w].copy)
     \/ /\ job[w].at = "cacheDelete"
        /\ GoTo(w, AfterWrite(job[w].op))
  /\ UNCHANGED <<row, cache, resv, moves, requests>>

-----------------------------------------------------------------------------
Init ==
  /\ row = Absent
  /\ cache = EmptyCache
  /\ resv = [r \in Reservations |-> [status |-> "none", qty |-> 0]]
  /\ moves = [onHand |-> 0, reserved |-> 0]
  /\ job = [w \in Workers |-> IdleJob]
  /\ requests = 0
  /\ faults = 0

Step(w) ==
  \/ CacheHit(w) \/ CacheMiss(w) \/ DbGet(w) \/ CacheSet(w)
  \/ Create(w) \/ AdjustOnHand(w) \/ ReserveQuantity(w)
  \/ UpdateStatus(w) \/ ReleaseQuantity(w)
  \/ CacheDelete(w) \/ CommitReservation(w) \/ WriteMovement(w)

Next ==
  \/ \E w \in Workers :
       \/ \E q \in Quantities : ReserveStock(w, q)
       \/ \E d \in Changes : UpdateStock(w, d)
       \/ \E r \in Reservations : ReleaseReservation(w, r)
       \/ GetStock(w)
       \/ Step(w)
       \/ Fail(w)
       \/ RedisFail(w)
  \/ \E k \in CacheKeys : CacheExpire(k)

Spec == Init /\ [][Next]_vars

-----------------------------------------------------------------------------
(* Properties.                                                             *)

TypeOK ==
  /\ row \in Row
  /\ cache \in [CacheKeys -> SUBSET Row]
  /\ resv \in [Reservations -> Reservation]
  /\ moves \in [onHand : Int, reserved : Int]
  /\ job \in [Workers -> Job]
  /\ requests \in Nat
  /\ faults \in Nat

\* A copy of the row is never newer than the row, and while its version is
\* still the row's the copy can differ in one way only: it shows more reserved
\* stock, because ReleaseQuantity does not raise the version.
Trails(inv) ==
  /\ inv.version <= row.version
  /\ inv.version = row.version => /\ inv.onHand = row.onHand
                                  /\ inv.reserved >= row.reserved

\* Every copy in Redis and in the hands of a worker trails the row, whatever
\* the order of late SETs, lost DELs and expiries: optimistic locking on a
\* cached version is as good as on a version just read from the table.
CopiesTrail ==
  /\ \A k \in CacheKeys : \A inv \in cache[k] : Trails(inv)
  /\ \A w \in Workers : Trails(job[w].copy)

\* When the version ReserveStock read is still the row's, the stock it found
\* available is available: the UPDATE that ReserveStock sends can be refused
\* for its version only, so ErrConcurrentModification is the true reason.
VersionGuardsAvailability ==
  \A w \in Workers :
    job[w].at = "reserveQuantity" /\ row.version = job[w].copy.version
      => Available(row) >= job[w].qty

\* As long as UpdateStock never takes stock out, the reserved quantity stays
\* between zero and the quantity on hand, through every race of reservations,
\* releases and stale cache entries.
NoOversell ==
  (\A d \in Changes : d >= 0) => /\ 0 <= row.reserved
                                 /\ row.reserved <= row.onHand

\* What a worker knows about its request at each step, and what an absent row
\* is: with these the invariants above become inductive.
JobConsistent(j) ==
  /\ j.op = "reserve" => j.qty > 0
  /\ j.op = "update" => j.qty \in Changes
  /\ j.op = "release" => j.qty >= 0 /\ j.rid \in Reservations
  /\ j.at \in {"create", "updateStock"} => j.op = "update"
  /\ j.at = "reserveQuantity" => j.op = "reserve" /\ Available(j.copy) >= j.qty
  /\ j.at = "commitReservation" => j.op = "reserve"
  /\ j.at \in {"updateStatus", "releaseQuantity"} => j.op = "release"

IInv ==
  /\ TypeOK
  /\ \A w \in Workers : JobConsistent(job[w])
  /\ row.version = -1 => row = Absent
  /\ CopiesTrail
  /\ NoOversell

\* The quantity a request has added to the counter and not committed as a
\* reservation yet.
HeldBy(j) ==
  IF j.op = "reserve" /\ j.at \in {"cacheDelete", "commitReservation"}
  THEN j.qty ELSE 0

\* The stock held right now for a worker (its ReserveQuantity went through and
\* its reservation is not committed yet) or for a reservation (it is
\* "reserved", or just marked "released" with ReleaseQuantity still to come).
HeldFor(h) ==
  IF h \in Workers THEN HeldBy(job[h])
  ELSE IF \/ resv[h].status = "reserved"
          \/ \E w \in Workers : job[w].rid = h /\ job[w].at = "releaseQuantity"
       THEN resv[h].qty ELSE 0

Held == [h \in Workers \cup Reservations |-> HeldFor(h)]

\* The counter quantity_reserved covers everything that is held, although the
\* counter, the reservation rows and the requests are written by separate
\* transactions.  Without faults it is exactly what is held, where the schema
\* lets ReserveStock insert its reservation.  True as long as no two requests release
\* one reservation at a time (ReleasesMayOverlap = FALSE), which the code does not
\* prevent: ReservedMatchesRows shows what happens otherwise.
HoldsCovered ==
  /\ Total(Held) <= row.reserved
  /\ faults = 0 /\ ~OrderItemIdNotNull => Total(Held) = row.reserved

Quiescent == \A w \in Workers : job[w].at = "idle"

\* Between requests, and as long as nothing failed, the movements recorded so
\* far add up to the stock on hand and to the reservations, under either schema, and
\* to the counter where the schema lets ReserveStock insert its reservation.  Like
\* HoldsCovered this needs releases that do not overlap.
AuditTrail ==
  Quiescent /\ faults = 0 => /\ row.onHand = moves.onHand
                             /\ Total(Held) = -moves.reserved
                             /\ ~OrderItemIdNotNull => row.reserved = -moves.reserved

\* The quantity a request has written to the row and not to the movements yet,
\* by the kind of its movement.
Unrecorded(kind, j) ==
  IF /\ j.at \in {"cacheDelete", "commitReservation", "writeMovement"}
     /\ CASE kind = "in"  -> j.op = "update" /\ j.qty > 0
          [] kind = "out" -> j.op = "update" /\ j.qty < 0
          [] OTHER        -> j.op = kind
  THEN IF j.qty < 0 THEN -j.qty ELSE j.qty
  ELSE 0

Outstanding(kind) == Total([w \in Workers |-> Unrecorded(kind, job[w])])

\* The audit trail in the middle of requests: what it lacks is what the
\* requests under way have not recorded yet.
AuditTrailInFlight ==
  faults = 0 =>
    /\ row.onHand = moves.onHand + Outstanding("in") - Outstanding("out")
    /\ Total(Held) = Outstanding("reserve") - Outstanding("release") - moves.reserved

\* What a request that releases a reservation knows about it, and which
\* requests reach the bookkeeping after a write.
ReleaseConsistent(j) ==
  /\ j.op = "release" <=> j.rid \in Reservations
  /\ j.at = "updateStatus" => resv[j.rid] = [status |-> "reserved", qty |-> j.qty]
  /\ j.at = "releaseQuantity" => resv[j.rid] = [status |-> "released", qty |-> j.qty]
  /\ j.at = "cacheDelete" => j.op \in {"reserve", "release", "update"}
  /\ j.at = "writeMovement" => j.op \in {"release", "update"}

\* Inductive when a reservation is released by one request at a time.
ReleasesIInv ==
  /\ \A w \in Workers : ReleaseConsistent(job[w])
  /\ \A v, w \in Workers : v # w /\ job[v].rid \in Reservations => job[v].rid # job[w].rid
  /\ \A r \in Reservations : resv[r].status # "none" => resv[r].qty > 0

HoldsIInv == ReleasesIInv /\ HoldsCovered /\ AuditTrailInFlight

\* Between requests the counter equals the reservations that are "reserved",
\* as if ReserveStock and ReleaseReservation each wrote the counter and the
\* reservation row in one transaction.
ReservedMatchesRows ==
  Quiescent => row.reserved =
    Total([r \in Reservations |-> IF resv[r].status = "reserved" THEN resv[r].qty ELSE 0])

Holds == INSTANCE StockHolds WITH
           Holders <- Workers \cup Reservations,
           onHand <- row.onHand,
           holds <- Held

\* The service implements the promise, as long as no two requests release one
\* reservation at a time: every step of the code is a legal hold, handover or drop,
\* or changes no hold.
ImplementsHolds == Holds!Spec

=============================================================================
