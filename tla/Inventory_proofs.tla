-------------------------- MODULE Inventory_proofs --------------------------
(***************************************************************************)
(* Invariants of Inventory for any number of workers, reservations,        *)
(* requests and faults.  The first half, up to VersionIsEnough, holds with *)
(* overlapping releases too.  The theorems about holds and movements       *)
(* assume that a reservation is released by one request at a time: two     *)
(* that overlap give its stock back twice, which is what                   *)
(* ReservedMatchesRows is violated by.                                     *)
(***************************************************************************)
EXTENDS Inventory, Totals_proofs, TLAPS

USE DEF Row, Absent, CacheKeys, Reservation, Steps, Job, NewJob, IdleJob

LEMMA InitIInv == Init => IInv
<1> SUFFICES ASSUME Init PROVE IInv
  OBVIOUS
<1> USE ConstantsAssumption DEF Init, EmptyCache
<1>1. TypeOK
  BY DEF TypeOK
<1>2. \A w \in Workers : JobConsistent(job[w])
  BY DEF JobConsistent
<1>3. CopiesTrail
  BY DEF CopiesTrail, Trails
<1>4. NoOversell
  BY DEF NoOversell
<1> QED
  BY <1>1, <1>2, <1>3, <1>4 DEF IInv

\* The row is a copy of itself, and so is an absent row of any other.
LEMMA RowTrails == IInv => Trails(Absent) /\ Trails(row)
BY DEF IInv, TypeOK, Trails

\* The job of one worker is replaced by a consistent one.
LEMMA ReplaceJob ==
  ASSUME IInv, NEW w \in Workers, NEW j \in Job,
         JobConsistent(j), Trails(j.copy),
         job' = [job EXCEPT ![w] = j]
  PROVE  /\ job' \in [Workers -> Job]
         /\ \A v \in Workers : JobConsistent(job'[v])
         /\ \A v \in Workers : Trails(job'[v].copy)
<1>1. /\ job \in [Workers -> Job]
      /\ \A v \in Workers : JobConsistent(job[v])
      /\ \A v \in Workers : Trails(job[v].copy)
  BY DEF IInv, TypeOK, CopiesTrail
<1>2. job' \in [Workers -> Job]
  BY <1>1
<1>3. \A v \in Workers : job'[v] = IF v = w THEN j ELSE job[v]
  BY <1>1
<1> QED
  BY <1>1, <1>2, <1>3

LEMMA IdleConsistent == IdleJob \in Job /\ JobConsistent(IdleJob)
BY DEF JobConsistent

LEMMA ReturnJob ==
  ASSUME IInv, NEW w \in Workers, Return(w)
  PROVE  /\ job' \in [Workers -> Job]
         /\ \A v \in Workers : JobConsistent(job'[v])
         /\ \A v \in Workers : Trails(job'[v].copy)
<1>1. Trails(IdleJob.copy)
  BY RowTrails
<1> QED
  BY <1>1, IdleConsistent, ReplaceJob DEF Return

\* The steps of a write that a request reaches with its copy unchanged.
LEMMA GoToJob ==
  ASSUME IInv, NEW w \in Workers, NEW step \in Steps, GoTo(w, step),
         step \in {"create", "updateStock"} => job[w].op = "update",
         step = "reserveQuantity" =>
           job[w].op = "reserve" /\ Available(job[w].copy) >= job[w].qty,
         step = "commitReservation" => job[w].op = "reserve",
         step \in {"updateStatus", "releaseQuantity"} => job[w].op = "release"
  PROVE  /\ job' \in [Workers -> Job]
         /\ \A v \in Workers : JobConsistent(job'[v])
         /\ \A v \in Workers : Trails(job'[v].copy)
<1> DEFINE j == [job[w] EXCEPT !.at = step]
<1>1. job[w] \in Job /\ JobConsistent(job[w]) /\ Trails(job[w].copy)
  BY DEF IInv, TypeOK, CopiesTrail
<1>2. j \in Job /\ JobConsistent(j)
  BY <1>1 DEF JobConsistent
<1>3. Trails(j.copy)
  BY <1>1
<1>4. job' = [job EXCEPT ![w] = j]
  BY DEF GoTo, IInv, TypeOK
<1> HIDE DEF j
<1> QED
  BY <1>2, <1>3, <1>4, ReplaceJob

\* A request that has its copy of the row.
LEMMA ProceedJob ==
  ASSUME IInv, NEW w \in Workers, NEW inv \in Row, Trails(inv), Proceed(w, inv)
  PROVE  /\ job' \in [Workers -> Job]
         /\ \A v \in Workers : JobConsistent(job'[v])
         /\ \A v \in Workers : Trails(job'[v].copy)
<1> DEFINE next == AfterRead(job[w].op, job[w].qty, inv)
           j == [job[w] EXCEPT !.at = next, !.copy = inv]
<1>1. CASE next = "idle"
  BY <1>1, ReturnJob DEF Proceed
<1>2. CASE next # "idle"
  <2>1. job[w] \in Job /\ JobConsistent(job[w])
    BY DEF IInv, TypeOK
  <2>2. \/ job[w].op = "reserve" /\ next = "reserveQuantity" /\ ~(Available(inv) < job[w].qty)
        \/ job[w].op = "update" /\ next = "updateStock"
    BY <1>2, <2>1 DEF AfterRead
  <2>3. job' = [job EXCEPT ![w] = j]
    BY <1>2, <2>1 DEF Proceed, IInv, TypeOK
  <2> HIDE DEF next
  <2>4. j \in Job
    BY <2>1, <2>2
  <2>5. JobConsistent(j)
    BY <2>1, <2>2 DEF JobConsistent, Available
  <2>6. Trails(j.copy)
    BY <2>1
  <2> HIDE DEF j
  <2> QED
    BY <2>3, <2>4, <2>5, <2>6, ReplaceJob
<1> QED
  BY <1>1, <1>2

\* A step that leaves the row alone.
LEMMA SameRow ==
  ASSUME IInv, UNCHANGED row, TypeOK',
         \A v \in Workers : JobConsistent(job'[v]),
         \A v \in Workers : Trails(job'[v].copy),
         \A k \in CacheKeys : \A inv \in cache'[k] : Trails(inv)
  PROVE  IInv'
<1>1. CopiesTrail'
  BY DEF CopiesTrail, Trails
<1>2. NoOversell'
  BY DEF IInv, NoOversell
<1> QED
  BY <1>1, <1>2 DEF IInv, JobConsistent, Available

\* A write to the row: what trailed the old row trails the new one.
LEMMA NewRow ==
  ASSUME IInv, TypeOK', UNCHANGED cache, row'.version >= 0, NoOversell',
         \A v \in Workers : JobConsistent(job'[v]),
         \A v \in Workers : Trails(job'[v].copy),
         \/ row'.version > row.version
         \/ /\ row'.version = row.version
            /\ row'.onHand = row.onHand
            /\ row'.reserved <= row.reserved
  PROVE  IInv'
<1>1. /\ row \in Row /\ row' \in Row
      /\ cache \in [CacheKeys -> SUBSET Row]
      /\ job' \in [Workers -> Job]
  BY DEF IInv, TypeOK
<1>2. ASSUME NEW inv \in Row, Trails(inv) PROVE Trails(inv)'
  BY <1>1, <1>2 DEF Trails
<1>3. CopiesTrail'
  <2>1. \A k \in CacheKeys : \A inv \in cache[k] : inv \in Row /\ Trails(inv)
    BY <1>1 DEF IInv, CopiesTrail
  <2>2. \A v \in Workers : job'[v].copy \in Row
    BY <1>1
  <2> QED
    BY <1>1, <1>2, <2>1, <2>2 DEF CopiesTrail, Trails
<1> QED
  BY <1>1, <1>3 DEF IInv, JobConsistent, Available

LEMMA AcceptIInv ==
  ASSUME IInv, NEW w \in Workers, NEW j \in Job, Accept(w, j),
         JobConsistent(j), j.copy = Absent
  PROVE  IInv'
<1>1. Trails(j.copy)
  BY RowTrails
<1>2. job' = [job EXCEPT ![w] = j]
  BY DEF Accept
<1>3. TypeOK'
  BY <1>1, <1>2, ReplaceJob DEF Accept, IInv, TypeOK
<1> QED
  BY <1>1, <1>2, <1>3, ReplaceJob, SameRow DEF Accept, IInv, CopiesTrail

LEMMA EntryIInv ==
  ASSUME IInv, NEW w \in Workers,
         \/ \E q \in Quantities : ReserveStock(w, q)
         \/ \E d \in Changes : UpdateStock(w, d)
         \/ \E r \in Reservations : ReleaseReservation(w, r)
         \/ GetStock(w)
  PROVE  IInv'
<1> USE ConstantsAssumption
<1>1. ASSUME NEW q \in Quantities, ReserveStock(w, q) PROVE IInv'
  <2> DEFINE j == NewJob("reserve", "cacheGet", q, NoReservation)
  <2>1. j \in Job /\ JobConsistent(j) /\ j.copy = Absent
    BY <1>1 DEF ReserveStock, JobConsistent
  <2> QED
    BY <1>1, <2>1, AcceptIInv DEF ReserveStock
<1>2. ASSUME NEW d \in Changes, UpdateStock(w, d) PROVE IInv'
  <2> DEFINE j == NewJob("update", "cacheGet", d, NoReservation)
  <2>1. j \in Job /\ JobConsistent(j) /\ j.copy = Absent
    BY DEF JobConsistent
  <2> QED
    BY <1>2, <2>1, AcceptIInv DEF UpdateStock
<1>3. ASSUME NEW r \in Reservations, ReleaseReservation(w, r) PROVE IInv'
  <2> DEFINE j == NewJob("release", "updateStatus", resv[r].qty, r)
  <2>1. resv[r].qty \in Nat
    BY DEF IInv, TypeOK
  <2>2. j \in Job /\ JobConsistent(j) /\ j.copy = Absent
    BY <2>1 DEF JobConsistent
  <2> QED
    BY <1>3, <2>2, AcceptIInv DEF ReleaseReservation
<1>4. CASE GetStock(w)
  <2> DEFINE j == NewJob("get", "cacheGet", 0, NoReservation)
  <2>1. j \in Job /\ JobConsistent(j) /\ Trails(j.copy)
    BY RowTrails DEF JobConsistent
  <2>2. job' = [job EXCEPT ![w] = j]
    BY <1>4 DEF GetStock
  <2>3. TypeOK'
    BY <1>4, <2>1, <2>2, ReplaceJob DEF GetStock, IInv, TypeOK
  <2> QED
    BY <1>4, <2>1, <2>2, <2>3, ReplaceJob, SameRow
    DEF GetStock, IInv, CopiesTrail
<1> QED
  BY <1>1, <1>2, <1>3, <1>4

\* Reading the row, the cache entries in between, and every way to stop early.
LEMMA ReadIInv ==
  ASSUME IInv, NEW w \in Workers,
         CacheHit(w) \/ CacheMiss(w) \/ DbGet(w) \/ CacheSet(w)
  PROVE  IInv'
<1>1. /\ job[w] \in Job /\ JobConsistent(job[w]) /\ Trails(job[w].copy)
      /\ KeyOf(job[w].op) \in CacheKeys
      /\ cache \in [CacheKeys -> SUBSET Row]
      /\ \A k \in CacheKeys : \A inv \in cache[k] : Trails(inv)
  BY DEF IInv, TypeOK, CopiesTrail, KeyOf
<1>2. CASE CacheHit(w)
  <2>1. PICK inv \in cache[KeyOf(job[w].op)] : Proceed(w, inv)
    BY <1>2 DEF CacheHit
  <2>2. inv \in Row /\ Trails(inv)
    BY <1>1
  <2>3. TypeOK'
    BY <1>2, <2>1, <2>2, ProceedJob DEF CacheHit, IInv, TypeOK
  <2> QED
    BY <1>1, <1>2, <2>1, <2>2, <2>3, ProceedJob, SameRow DEF CacheHit
<1>3. CASE CacheMiss(w)
  <2>1. /\ job' \in [Workers -> Job]
        /\ \A v \in Workers : JobConsistent(job'[v])
        /\ \A v \in Workers : Trails(job'[v].copy)
    BY <1>3, GoToJob DEF CacheMiss
  <2>2. TypeOK'
    BY <1>3, <2>1 DEF CacheMiss, IInv, TypeOK
  <2> QED
    BY <1>1, <1>3, <2>1, <2>2, SameRow DEF CacheMiss
<1>4. CASE DbGet(w)
  <2>1. /\ job' \in [Workers -> Job]
        /\ \A v \in Workers : JobConsistent(job'[v])
        /\ \A v \in Workers : Trails(job'[v].copy)
    <3>1. CASE GoTo(w, "create") /\ job[w].op = "update"
      BY <3>1, GoToJob
    <3>2. CASE Return(w)
      BY <3>2, ReturnJob
    <3>3. CASE job' = [job EXCEPT ![w].at = "cacheSet", ![w].copy = row]
      <4> DEFINE j == [job[w] EXCEPT !.at = "cacheSet", !.copy = row]
      <4>1. j \in Job /\ JobConsistent(j) /\ j.copy = row
        BY <1>1 DEF JobConsistent, IInv, TypeOK
      <4>2. job' = [job EXCEPT ![w] = j]
        BY <3>3 DEF IInv, TypeOK
      <4> HIDE DEF j
      <4> QED
        BY <4>1, <4>2, ReplaceJob, RowTrails
    <3> QED
      BY <1>4, <3>1, <3>2, <3>3 DEF DbGet
  <2>2. TypeOK'
    BY <1>4, <2>1 DEF DbGet, IInv, TypeOK
  <2> QED
    BY <1>1, <1>4, <2>1, <2>2, SameRow DEF DbGet
<1>5. CASE CacheSet(w)
  <2>1. job[w].copy \in Row
    BY <1>1
  <2>2. cache' \in [CacheKeys -> SUBSET Row]
    BY <1>1, <1>5, <2>1 DEF CacheSet
  <2>3. \A k \in CacheKeys : \A inv \in cache'[k] : Trails(inv)
    BY <1>1, <1>5 DEF CacheSet
  <2>4. TypeOK'
    BY <1>1, <1>5, <2>1, <2>2, ProceedJob DEF CacheSet, IInv, TypeOK
  <2> QED
    BY <1>1, <1>5, <2>1, <2>3, <2>4, ProceedJob, SameRow DEF CacheSet
<1> QED
  BY <1>2, <1>3, <1>4, <1>5

LEMMA EnvironmentIInv ==
  ASSUME IInv,
         \/ \E w \in Workers : Fail(w) \/ RedisFail(w)
         \/ \E k \in CacheKeys : CacheExpire(k)
  PROVE  IInv'
<1>1. /\ cache \in [CacheKeys -> SUBSET Row]
      /\ \A k \in CacheKeys : \A inv \in cache[k] : Trails(inv)
      /\ job \in [Workers -> Job]
      /\ \A v \in Workers : JobConsistent(job[v]) /\ Trails(job[v].copy)
  BY DEF IInv, TypeOK, CopiesTrail
<1>2. ASSUME NEW w \in Workers, Fail(w) PROVE IInv'
  <2>1. TypeOK'
    BY <1>2, ReturnJob DEF Fail, IInv, TypeOK
  <2> QED
    BY <1>1, <1>2, <2>1, ReturnJob, SameRow DEF Fail
<1>3. ASSUME NEW w \in Workers, RedisFail(w) PROVE IInv'
  <2>1. /\ job' \in [Workers -> Job]
        /\ \A v \in Workers : JobConsistent(job'[v])
        /\ \A v \in Workers : Trails(job'[v].copy)
    <3>1. CASE GoTo(w, "dbGet")
      BY <3>1, GoToJob
    <3>2. CASE Proceed(w, job[w].copy)
      BY <1>1, <3>2, ProceedJob
    <3>3. CASE GoTo(w, AfterWrite(job[w].op))
      BY <1>1, <3>3, GoToJob DEF AfterWrite
    <3> QED
      BY <1>3, <3>1, <3>2, <3>3 DEF RedisFail
  <2>2. TypeOK'
    BY <1>3, <2>1 DEF RedisFail, IInv, TypeOK
  <2> QED
    BY <1>1, <1>3, <2>1, <2>2, SameRow DEF RedisFail
<1>4. ASSUME NEW k \in CacheKeys, CacheExpire(k) PROVE IInv'
  <2>1. cache' \in [CacheKeys -> SUBSET Row]
    BY <1>1, <1>4 DEF CacheExpire
  <2>2. \A l \in CacheKeys : \A inv \in cache'[l] : Trails(inv)
    BY <1>1, <1>4 DEF CacheExpire
  <2>3. TypeOK'
    BY <1>4, <2>1 DEF CacheExpire, IInv, TypeOK
  <2> QED
    BY <1>1, <1>4, <2>2, <2>3, SameRow DEF CacheExpire
<1> QED
  BY <1>2, <1>3, <1>4

\* The statements that write the row.
LEMMA WriteIInv ==
  ASSUME IInv, NEW w \in Workers,
         Create(w) \/ AdjustOnHand(w) \/ ReserveQuantity(w) \/ ReleaseQuantity(w)
  PROVE  IInv'
<1> USE ConstantsAssumption
<1>1. /\ job[w] \in Job /\ JobConsistent(job[w])
      /\ row \in Row
      /\ \A k \in CacheKeys : \A inv \in cache[k] : Trails(inv)
  BY DEF IInv, TypeOK, CopiesTrail
<1>2. CASE Create(w)
  <2>1. /\ job' \in [Workers -> Job]
        /\ \A v \in Workers : JobConsistent(job'[v])
        /\ \A v \in Workers : Trails(job'[v].copy)
    BY <1>1, <1>2, GoToJob, ReturnJob DEF Create
  <2>2. CASE UNCHANGED row
    <3>1. TypeOK'
      BY <1>2, <2>1, <2>2 DEF Create, IInv, TypeOK
    <3> QED
      BY <1>1, <1>2, <2>1, <2>2, <3>1, SameRow DEF Create
  <2>3. CASE row' # row
    <3>1. /\ row = Absent /\ job[w].op = "update"
          /\ row' = [onHand |-> job[w].qty, reserved |-> 0, version |-> 0]
          /\ row' \in Row
      BY <1>1, <1>2, <2>3 DEF Create, JobConsistent
    <3>2. NoOversell'
      BY <1>1, <3>1 DEF NoOversell, JobConsistent
    <3>3. TypeOK'
      BY <1>2, <2>1, <3>1 DEF Create, IInv, TypeOK
    <3> QED
      BY <1>2, <2>1, <3>1, <3>2, <3>3, NewRow DEF Create
  <2> QED
    BY <2>2, <2>3
<1>3. CASE AdjustOnHand(w)
  <2>1. /\ job' \in [Workers -> Job]
        /\ \A v \in Workers : JobConsistent(job'[v])
        /\ \A v \in Workers : Trails(job'[v].copy)
    BY <1>1, <1>3, GoToJob, ReturnJob DEF AdjustOnHand
  <2>2. CASE UNCHANGED row
    <3>1. TypeOK'
      BY <1>3, <2>1, <2>2 DEF AdjustOnHand, IInv, TypeOK
    <3> QED
      BY <1>1, <1>3, <2>1, <2>2, <3>1, SameRow DEF AdjustOnHand
  <2>3. CASE row' # row
    <3>1. /\ job[w].op = "update"
          /\ row' = [onHand |-> row.onHand + job[w].qty, reserved |-> row.reserved,
                     version |-> row.version + 1]
          /\ row' \in Row
          /\ row'.version > row.version /\ row'.version >= 0
      <4>1. row' = [row EXCEPT !.onHand = @ + job[w].qty, !.version = @ + 1]
        BY <1>3, <2>3 DEF AdjustOnHand
      <4>2. row' = [onHand |-> row.onHand + job[w].qty, reserved |-> row.reserved,
                    version |-> row.version + 1]
        BY <1>1, <4>1
      <4>3. job[w].op = "update" /\ job[w].qty \in Int
        BY <1>1, <1>3 DEF AdjustOnHand, JobConsistent
      <4> QED
        BY <1>1, <4>2, <4>3
    <3>2. NoOversell'
      BY <1>1, <3>1 DEF NoOversell, JobConsistent, IInv
    <3>3. TypeOK'
      BY <1>3, <2>1, <3>1 DEF AdjustOnHand, IInv, TypeOK
    <3> QED
      BY <1>3, <2>1, <3>1, <3>2, <3>3, NewRow DEF AdjustOnHand
  <2> QED
    BY <2>2, <2>3
<1>4. CASE ReserveQuantity(w)
  <2>1. /\ job' \in [Workers -> Job]
        /\ \A v \in Workers : JobConsistent(job'[v])
        /\ \A v \in Workers : Trails(job'[v].copy)
    BY <1>1, <1>4, GoToJob, ReturnJob DEF ReserveQuantity
  <2>2. CASE UNCHANGED row
    <3>1. TypeOK'
      BY <1>4, <2>1, <2>2 DEF ReserveQuantity, IInv, TypeOK
    <3> QED
      BY <1>1, <1>4, <2>1, <2>2, <3>1, SameRow DEF ReserveQuantity
  <2>3. CASE row' # row
    <3>1. /\ job[w].qty > 0 /\ row.onHand - row.reserved >= job[w].qty
          /\ row' = [onHand |-> row.onHand, reserved |-> row.reserved + job[w].qty,
                     version |-> row.version + 1]
          /\ row' \in Row
          /\ row'.version > row.version /\ row'.version >= 0
      <4>1. row' = [row EXCEPT !.reserved = @ + job[w].qty, !.version = @ + 1]
        BY <1>4, <2>3 DEF ReserveQuantity, Reserved
      <4>2. row' = [onHand |-> row.onHand, reserved |-> row.reserved + job[w].qty,
                    version |-> row.version + 1]
        BY <1>1, <4>1
      <4>3. /\ job[w].qty \in Int /\ job[w].qty > 0
            /\ row.onHand - row.reserved >= job[w].qty
        BY <1>1, <1>4, <2>3 DEF ReserveQuantity, JobConsistent, CanReserve, Available
      <4> QED
        BY <1>1, <4>2, <4>3
    <3>2. NoOversell'
      BY <1>1, <3>1 DEF NoOversell
    <3>3. TypeOK'
      BY <1>4, <2>1, <3>1 DEF ReserveQuantity, IInv, TypeOK
    <3> QED
      BY <1>4, <2>1, <3>1, <3>2, <3>3, NewRow DEF ReserveQuantity
  <2> QED
    BY <2>2, <2>3
<1>5. CASE ReleaseQuantity(w)
  <2>1. /\ job' \in [Workers -> Job]
        /\ \A v \in Workers : JobConsistent(job'[v])
        /\ \A v \in Workers : Trails(job'[v].copy)
    BY <1>1, <1>5, GoToJob, ReturnJob DEF ReleaseQuantity
  <2>2. CASE UNCHANGED row
    <3>1. TypeOK'
      BY <1>5, <2>1, <2>2 DEF ReleaseQuantity, IInv, TypeOK
    <3> QED
      BY <1>1, <1>5, <2>1, <2>2, <3>1, SameRow DEF ReleaseQuantity
  <2>3. CASE row' # row
    <3>1. /\ job[w].qty >= 0 /\ row.reserved >= job[w].qty /\ row.version # -1
          /\ row' = [onHand |-> row.onHand, reserved |-> row.reserved - job[w].qty,
                     version |-> row.version]
          /\ row' \in Row
          /\ row'.version = row.version /\ row'.version >= 0
          /\ row'.reserved <= row.reserved
      BY <1>1, <1>5, <2>3 DEF ReleaseQuantity, JobConsistent, Released, IInv
    <3>2. NoOversell'
      BY <1>1, <3>1 DEF NoOversell, IInv
    <3>3. TypeOK'
      BY <1>5, <2>1, <3>1 DEF ReleaseQuantity, IInv, TypeOK
    <3> QED
      BY <1>5, <2>1, <3>1, <3>2, <3>3, NewRow DEF ReleaseQuantity
  <2> QED
    BY <2>2, <2>3
<1> QED
  BY <1>2, <1>3, <1>4, <1>5

\* The statements that follow a write of the row, or precede it.
LEMMA BookkeepingIInv ==
  ASSUME IInv, NEW w \in Workers,
         \/ UpdateStatus(w) \/ CacheDelete(w)
         \/ CommitReservation(w) \/ WriteMovement(w)
  PROVE  IInv'
<1>1. /\ job[w] \in Job /\ JobConsistent(job[w])
      /\ resv \in [Reservations -> Reservation]
      /\ moves \in [onHand : Int, reserved : Int]
      /\ \A k \in CacheKeys : \A inv \in cache[k] : Trails(inv)
  BY DEF IInv, TypeOK, CopiesTrail
<1>2. CASE UpdateStatus(w)
  <2>1. /\ job' \in [Workers -> Job]
        /\ \A v \in Workers : JobConsistent(job'[v])
        /\ \A v \in Workers : Trails(job'[v].copy)
    BY <1>1, <1>2, GoToJob DEF UpdateStatus, JobConsistent
  <2>2. resv' \in [Reservations -> Reservation]
    BY <1>1, <1>2 DEF UpdateStatus, JobConsistent
  <2>3. TypeOK'
    BY <1>2, <2>1, <2>2 DEF UpdateStatus, IInv, TypeOK
  <2> QED
    BY <1>1, <1>2, <2>1, <2>3, SameRow DEF UpdateStatus
<1>3. CASE CacheDelete(w)
  <2>1. /\ job' \in [Workers -> Job]
        /\ \A v \in Workers : JobConsistent(job'[v])
        /\ \A v \in Workers : Trails(job'[v].copy)
    BY <1>1, <1>3, GoToJob DEF CacheDelete, AfterWrite
  <2>2. TypeOK'
    BY <1>3, <2>1 DEF CacheDelete, EmptyCache, IInv, TypeOK
  <2> QED
    BY <1>3, <2>1, <2>2, SameRow DEF CacheDelete, EmptyCache
<1>4. CASE CommitReservation(w)
  <2>1. /\ resv' \in [Reservations -> Reservation]
        /\ moves' \in [onHand : Int, reserved : Int]
    BY <1>1, <1>4 DEF CommitReservation, JobConsistent, Recorded
  <2>2. TypeOK'
    BY <1>4, <2>1, ReturnJob DEF CommitReservation, IInv, TypeOK
  <2> QED
    BY <1>1, <1>4, <2>2, ReturnJob, SameRow DEF CommitReservation
<1>5. CASE WriteMovement(w)
  <2>1. moves' \in [onHand : Int, reserved : Int]
    BY <1>1, <1>5 DEF WriteMovement, Recorded
  <2>2. TypeOK'
    BY <1>5, <2>1, ReturnJob DEF WriteMovement, IInv, TypeOK
  <2> QED
    BY <1>1, <1>5, <2>2, ReturnJob, SameRow DEF WriteMovement
<1> QED
  BY <1>2, <1>3, <1>4, <1>5

\* The inductive invariant holds in every reachable state.
THEOREM Invariance == Spec => []IInv
<1>1. IInv /\ [Next]_vars => IInv'
  <2> SUFFICES ASSUME IInv, [Next]_vars PROVE IInv'
    OBVIOUS
  <2>1. CASE UNCHANGED vars
    BY <2>1 DEF vars, IInv, TypeOK, CopiesTrail, Trails, NoOversell,
                JobConsistent, Available
  <2>2. CASE Next
    BY <2>2, EntryIInv, ReadIInv, WriteIInv, BookkeepingIInv, EnvironmentIInv
    DEF Next, Step
  <2> QED
    BY <2>1, <2>2
<1> QED
  BY <1>1, InitIInv, PTL DEF Spec

\* Every variable keeps its type; in particular no sequence of releases makes
\* quantity_reserved negative.
THEOREM TypeCorrect == Spec => []TypeOK
BY Invariance, PTL DEF IInv

\* However GET, SET, DEL and expiry interleave with the writes, the copies of
\* the row in Redis and in the hands of requests trail the row.
THEOREM CopiesAlwaysTrail == Spec => []CopiesTrail
BY Invariance, PTL DEF IInv

\* Reservations and releases alone never let the reserved quantity leave the
\* interval from zero to the quantity on hand.
THEOREM NeverOversold == Spec => []NoOversell
BY Invariance, PTL DEF IInv

\* The UPDATE of ReserveQuantity is refused only because of its version.
THEOREM VersionIsEnough == Spec => []VersionGuardsAvailability
<1>1. IInv => VersionGuardsAvailability
  <2> SUFFICES ASSUME IInv, NEW w \in Workers, job[w].at = "reserveQuantity",
                      row.version = job[w].copy.version
               PROVE  Available(row) >= job[w].qty
    BY DEF VersionGuardsAvailability
  <2>1. /\ job[w] \in Job /\ row \in Row
        /\ JobConsistent(job[w]) /\ Trails(job[w].copy)
    BY DEF IInv, TypeOK, CopiesTrail
  <2> QED
    BY <2>1 DEF JobConsistent, Trails, Available
<1> QED
  BY <1>1, Invariance, PTL

-----------------------------------------------------------------------------
(* One request at a time releases a reservation.                           *)

\* The job of one worker is replaced; the table stays as it is.
LEMMA ReleasesReplace ==
  ASSUME IInv, ReleasesIInv, UNCHANGED resv, NEW w \in Workers, NEW j \in Job,
         job' = [job EXCEPT ![w] = j], ReleaseConsistent(j),
         \A v \in Workers \ {w} : j.rid \in Reservations => job[v].rid # j.rid
  PROVE  ReleasesIInv'
<1>1. job \in [Workers -> Job]
  BY DEF IInv, TypeOK
<1>2. \A v \in Workers : job'[v] = IF v = w THEN j ELSE job[v]
  BY <1>1
<1>3. \A v \in Workers : ReleaseConsistent(job'[v])
  BY <1>2 DEF ReleasesIInv
<1>4. \A v \in Workers : ReleaseConsistent(job[v])'
  BY <1>3 DEF ReleaseConsistent
<1>5. \A u, v \in Workers : u # v /\ job'[u].rid \in Reservations => job'[u].rid # job'[v].rid
  BY <1>2 DEF ReleasesIInv
<1> QED
  BY <1>4, <1>5 DEF ReleasesIInv

LEMMA ReleasesReturn ==
  ASSUME IInv, ReleasesIInv, UNCHANGED resv, NEW w \in Workers, Return(w)
  PROVE  ReleasesIInv'
<1>1. ReleaseConsistent(IdleJob) /\ IdleJob \in Job /\ IdleJob.rid \notin Reservations
  BY ConstantsAssumption DEF ReleaseConsistent
<1> QED
  BY <1>1, ReleasesReplace DEF Return

\* A request goes on with the reservation it had, if it had one.
LEMMA ReleasesGoOn ==
  ASSUME IInv, ReleasesIInv, UNCHANGED resv, NEW w \in Workers, NEW j \in Job,
         job' = [job EXCEPT ![w] = j],
         j.op = job[w].op, j.rid = job[w].rid,
         j.at \notin {"updateStatus", "releaseQuantity"},
         j.at = "cacheDelete" => j.op \in {"reserve", "release", "update"},
         j.at = "writeMovement" => j.op \in {"release", "update"}
  PROVE  ReleasesIInv'
<1>1. ReleaseConsistent(job[w])
  BY DEF ReleasesIInv
<1>2. ReleaseConsistent(j)
  BY <1>1 DEF ReleaseConsistent
<1>3. \A v \in Workers \ {w} : j.rid \in Reservations => job[v].rid # j.rid
  BY DEF ReleasesIInv
<1> QED
  BY <1>2, <1>3, ReleasesReplace

LEMMA ReleasesGoTo ==
  ASSUME IInv, ReleasesIInv, UNCHANGED resv, NEW w \in Workers, NEW step \in Steps,
         GoTo(w, step), step \notin {"updateStatus", "releaseQuantity"},
         step = "cacheDelete" => job[w].op \in {"reserve", "release", "update"},
         step = "writeMovement" => job[w].op \in {"release", "update"}
  PROVE  ReleasesIInv'
<1> DEFINE j == [job[w] EXCEPT !.at = step]
<1>1. job \in [Workers -> Job] /\ job[w] \in Job
  BY DEF IInv, TypeOK
<1>2. /\ j \in Job /\ j.op = job[w].op /\ j.rid = job[w].rid /\ j.at = step
      /\ job' = [job EXCEPT ![w] = j]
  BY <1>1 DEF GoTo
<1> HIDE DEF j
<1> QED
  BY <1>2, ReleasesGoOn

LEMMA ReleasesProceed ==
  ASSUME IInv, ReleasesIInv, UNCHANGED resv, NEW w \in Workers, NEW inv \in Row,
         Proceed(w, inv)
  PROVE  ReleasesIInv'
<1> DEFINE next == AfterRead(job[w].op, job[w].qty, inv)
           j == [job[w] EXCEPT !.at = next, !.copy = inv]
<1>1. CASE next = "idle"
  BY <1>1, ReleasesReturn DEF Proceed
<1>2. CASE next # "idle"
  <2>1. job \in [Workers -> Job] /\ job[w] \in Job
    BY DEF IInv, TypeOK
  <2>2. next \in {"reserveQuantity", "updateStock"}
    BY <1>2, <2>1 DEF AfterRead
  <2>3. job' = [job EXCEPT ![w] = j]
    BY <1>2, <2>1 DEF Proceed
  <2> HIDE DEF next
  <2>4. j \in Job /\ j.op = job[w].op /\ j.rid = job[w].rid /\ j.at = next
    BY <2>1, <2>2
  <2> HIDE DEF j
  <2> QED
    BY <2>2, <2>3, <2>4, ReleasesGoOn
<1> QED
  BY <1>1, <1>2

LEMMA ReleasesStep ==
  ASSUME ~ReleasesMayOverlap, IInv, ReleasesIInv, [Next]_vars
  PROVE  ReleasesIInv'
<1>0. /\ job \in [Workers -> Job] /\ resv \in [Reservations -> Reservation]
      /\ row \in Row /\ cache \in [CacheKeys -> SUBSET Row]
      /\ \A w \in Workers : /\ JobConsistent(job[w]) /\ ReleaseConsistent(job[w])
                            /\ KeyOf(job[w].op) \in CacheKeys
  BY DEF IInv, TypeOK, ReleasesIInv, KeyOf
<1>1. ASSUME NEW w \in Workers, NEW q \in Quantities, ReserveStock(w, q)
      PROVE ReleasesIInv'
  <2> DEFINE j == NewJob("reserve", "cacheGet", q, NoReservation)
  <2>1. j \in Job /\ ReleaseConsistent(j) /\ j.rid \notin Reservations
    BY ConstantsAssumption DEF ReleaseConsistent
  <2> QED
    BY <1>1, <2>1, ReleasesReplace DEF ReserveStock, Accept
<1>2. ASSUME NEW w \in Workers, NEW d \in Changes, UpdateStock(w, d)
      PROVE ReleasesIInv'
  <2> DEFINE j == NewJob("update", "cacheGet", d, NoReservation)
  <2>1. j \in Job /\ ReleaseConsistent(j) /\ j.rid \notin Reservations
    BY ConstantsAssumption DEF ReleaseConsistent
  <2> QED
    BY <1>2, <2>1, ReleasesReplace DEF UpdateStock, Accept
<1>3. ASSUME NEW w \in Workers, NEW r \in Reservations, ReleaseReservation(w, r)
      PROVE ReleasesIInv'
  <2> DEFINE j == NewJob("release", "updateStatus", resv[r].qty, r)
  <2>1. resv[r] = [status |-> "reserved", qty |-> resv[r].qty] /\ resv[r].qty \in Nat
    BY <1>0, <1>3 DEF ReleaseReservation, Releasable
  <2>2. j \in Job /\ ReleaseConsistent(j) /\ j.rid = r
    BY <2>1 DEF ReleaseConsistent
  <2>3. \A v \in Workers : job[v].rid # r
    BY <1>3 DEF ReleaseReservation
  <2> QED
    BY <1>3, <2>2, <2>3, ReleasesReplace DEF ReleaseReservation, Accept
<1>4. ASSUME NEW w \in Workers, GetStock(w) PROVE ReleasesIInv'
  <2> DEFINE j == NewJob("get", "cacheGet", 0, NoReservation)
  <2>1. j \in Job /\ ReleaseConsistent(j) /\ j.rid \notin Reservations
    BY ConstantsAssumption DEF ReleaseConsistent
  <2> QED
    BY <1>4, <2>1, ReleasesReplace DEF GetStock
<1>5. ASSUME NEW w \in Workers, CacheHit(w) \/ CacheMiss(w) \/ DbGet(w) \/ CacheSet(w)
      PROVE ReleasesIInv'
  <2>0. job[w] \in Job /\ job[w].copy \in Row
    BY <1>0
  <2>1. CASE CacheHit(w)
    <3>1. PICK inv \in cache[KeyOf(job[w].op)] : Proceed(w, inv)
      BY <2>1 DEF CacheHit
    <3>2. inv \in Row
      BY <1>0
    <3> QED
      BY <2>1, <3>1, <3>2, ReleasesProceed DEF CacheHit
  <2>2. CASE CacheMiss(w)
    BY <2>2, ReleasesGoTo DEF CacheMiss
  <2>3. CASE DbGet(w)
    <3>1. CASE GoTo(w, "create")
      BY <2>3, <3>1, ReleasesGoTo DEF DbGet
    <3>2. CASE Return(w)
      BY <2>3, <3>2, ReleasesReturn DEF DbGet
    <3>3. CASE job' = [job EXCEPT ![w].at = "cacheSet", ![w].copy = row]
      <4> DEFINE j == [job[w] EXCEPT !.at = "cacheSet", !.copy = row]
      <4>1. /\ j \in Job /\ j.op = job[w].op /\ j.rid = job[w].rid /\ j.at = "cacheSet"
            /\ job' = [job EXCEPT ![w] = j]
        BY <1>0, <2>0, <3>3
      <4> HIDE DEF j
      <4> QED
        BY <2>3, <4>1, ReleasesGoOn DEF DbGet
    <3> QED
      BY <2>3, <3>1, <3>2, <3>3 DEF DbGet
  <2>4. CASE CacheSet(w)
    BY <2>0, <2>4, ReleasesProceed DEF CacheSet
  <2> QED
    BY <1>5, <2>1, <2>2, <2>3, <2>4
<1>6. ASSUME NEW w \in Workers, Create(w) \/ AdjustOnHand(w) \/ ReserveQuantity(w)
      PROVE ReleasesIInv'
  <2>1. UNCHANGED resv /\ job[w].op \in {"reserve", "update"}
    BY <1>0, <1>6 DEF Create, AdjustOnHand, ReserveQuantity, JobConsistent
  <2>2. GoTo(w, "cacheDelete") \/ Return(w)
    BY <1>6 DEF Create, AdjustOnHand, ReserveQuantity
  <2> QED
    BY <2>1, <2>2, ReleasesGoTo, ReleasesReturn
<1>7. ASSUME NEW w \in Workers, UpdateStatus(w) PROVE ReleasesIInv'
  <2> DEFINE r == job[w].rid
             j == [job[w] EXCEPT !.at = "releaseQuantity"]
  <2>1. /\ job[w].op = "release" /\ r \in Reservations
        /\ resv[r] = [status |-> "reserved", qty |-> job[w].qty]
        /\ job[w] \in Job
    BY <1>0, <1>7 DEF UpdateStatus, JobConsistent, ReleaseConsistent
  <2>2. /\ resv'[r] = [status |-> "released", qty |-> job[w].qty]
        /\ \A k \in Reservations \ {r} : resv'[k] = resv[k]
    BY <1>0, <1>7, <2>1 DEF UpdateStatus
  <2>3. /\ job' = [job EXCEPT ![w] = j]
        /\ j.op = job[w].op /\ j.rid = r /\ j.qty = job[w].qty /\ j.at = "releaseQuantity"
    BY <1>0, <1>7, <2>1 DEF UpdateStatus, GoTo
  <2> HIDE DEF j
  <2>4. \A v \in Workers : job'[v] = IF v = w THEN j ELSE job[v]
    BY <1>0, <2>3
  <2>5. \A v \in Workers \ {w} : job[v].rid # r
    BY <2>1 DEF ReleasesIInv
  <2>6. ReleaseConsistent(job[w])'
    BY <2>1, <2>2, <2>3, <2>4 DEF ReleaseConsistent
  <2>7. ASSUME NEW v \in Workers \ {w} PROVE ReleaseConsistent(job[v])'
    <3>1. ReleaseConsistent(job[v]) /\ JobConsistent(job[v]) /\ job'[v] = job[v]
      BY <1>0, <2>4
    <3>2. job[v].op = "release" => resv'[job[v].rid] = resv[job[v].rid]
      BY <2>2, <2>5, <3>1 DEF ReleaseConsistent
    <3> QED
      BY <3>1, <3>2 DEF ReleaseConsistent, JobConsistent
  <2>8. \A u, v \in Workers : u # v /\ job'[u].rid \in Reservations => job'[u].rid # job'[v].rid
    BY <2>3, <2>4 DEF ReleasesIInv
  <2>9. \A k \in Reservations : resv'[k].status # "none" => resv'[k].qty > 0
    BY <2>1, <2>2 DEF ReleasesIInv
  <2> QED
    BY <2>6, <2>7, <2>8, <2>9 DEF ReleasesIInv
<1>8. ASSUME NEW w \in Workers, ReleaseQuantity(w) \/ CacheDelete(w) PROVE ReleasesIInv'
  <2>1. ReleaseConsistent(job[w]) /\ JobConsistent(job[w]) /\ UNCHANGED resv
    BY <1>0, <1>8 DEF ReleaseQuantity, CacheDelete
  <2> QED
    BY <1>8, <2>1, ReleasesGoTo
    DEF ReleaseQuantity, CacheDelete, AfterWrite, ReleaseConsistent, JobConsistent
<1>9. ASSUME NEW w \in Workers, CommitReservation(w) PROVE ReleasesIInv'
  <2>1. CASE UNCHANGED resv
    BY <1>9, <2>1, ReleasesReturn DEF CommitReservation
  <2>2. CASE \E r \in Reservations :
               /\ resv[r].status = "none"
               /\ resv' = [resv EXCEPT ![r] = [status |-> "reserved", qty |-> job[w].qty]]
    <3>1. PICK r \in Reservations :
               /\ resv[r].status = "none"
               /\ resv' = [resv EXCEPT ![r] = [status |-> "reserved", qty |-> job[w].qty]]
      BY <2>2
    <3>2. job[w].qty > 0
      BY <1>0, <1>9 DEF CommitReservation, JobConsistent
    <3>3. \A v \in Workers : job'[v] = IF v = w THEN IdleJob ELSE job[v]
      BY <1>0, <1>9 DEF CommitReservation, Return
    <3>4. ASSUME NEW v \in Workers PROVE ReleaseConsistent(job[v])'
      <4>1. CASE v = w
        BY <3>3, <4>1, ConstantsAssumption DEF ReleaseConsistent
      <4>2. CASE v # w
        <5>1. ReleaseConsistent(job[v]) /\ JobConsistent(job[v]) /\ job'[v] = job[v]
          BY <1>0, <3>3, <4>2
        <5>2. ASSUME job[v].at \in {"updateStatus", "releaseQuantity"}
              PROVE  resv'[job[v].rid] = resv[job[v].rid]
          BY <1>0, <3>1, <5>1, <5>2 DEF ReleaseConsistent, JobConsistent
        <5> QED
          BY <5>1, <5>2 DEF ReleaseConsistent
      <4> QED
        BY <4>1, <4>2
    <3>5. \A u, v \in Workers : u # v /\ job'[u].rid \in Reservations => job'[u].rid # job'[v].rid
      BY <3>3, ConstantsAssumption DEF ReleasesIInv
    <3>6. \A k \in Reservations : resv'[k].status # "none" => resv'[k].qty > 0
      BY <1>0, <3>1, <3>2 DEF ReleasesIInv
    <3> QED
      BY <3>4, <3>5, <3>6 DEF ReleasesIInv
  <2> QED
    BY <1>9, <2>1, <2>2 DEF CommitReservation
<1>10. ASSUME NEW w \in Workers, WriteMovement(w) \/ Fail(w) PROVE ReleasesIInv'
  BY <1>10, ReleasesReturn DEF WriteMovement, Fail
<1>11. ASSUME NEW w \in Workers, RedisFail(w) PROVE ReleasesIInv'
  <2>1. UNCHANGED resv /\ job[w].copy \in Row /\ ReleaseConsistent(job[w])
    BY <1>0, <1>11 DEF RedisFail
  <2>2. CASE GoTo(w, "dbGet")
    BY <2>1, <2>2, ReleasesGoTo
  <2>3. CASE Proceed(w, job[w].copy)
    BY <2>1, <2>3, ReleasesProceed
  <2>4. CASE job[w].at = "cacheDelete" /\ GoTo(w, AfterWrite(job[w].op))
    BY <2>1, <2>4, ReleasesGoTo DEF AfterWrite, ReleaseConsistent
  <2> QED
    BY <1>11, <2>2, <2>3, <2>4 DEF RedisFail
<1>12. ASSUME UNCHANGED <<job, resv>> PROVE ReleasesIInv'
  BY <1>12 DEF ReleasesIInv, ReleaseConsistent
<1> QED
  BY <1>1, <1>2, <1>3, <1>4, <1>5, <1>6, <1>7, <1>8, <1>9, <1>10, <1>11, <1>12
  DEF Next, Step, CacheExpire, vars

-----------------------------------------------------------------------------
(* What is held, and how much the counter shows.                           *)

LEMMA HeldType ==
  ASSUME IInv
  PROVE  /\ IsFiniteSet(Workers \cup Reservations)
         /\ Held \in [Workers \cup Reservations -> Nat]
         /\ Total(Held) \in Nat
         /\ \A w \in Workers : HeldBy(job[w]) \in Nat
<1>1. IsFiniteSet(Workers \cup Reservations)
  BY ConstantsAssumption, FS_Union
<1>2. \A w \in Workers : HeldBy(job[w]) \in Nat
  BY DEF IInv, TypeOK, JobConsistent, HeldBy
<1>3. \A r \in Reservations : resv[r].qty \in Nat
  BY DEF IInv, TypeOK
<1>4. Held \in [Workers \cup Reservations -> Nat]
  BY <1>2, <1>3 DEF Held, HeldFor
<1> QED
  BY <1>1, <1>2, <1>4, TotalType

LEMMA HeldValues ==
  /\ \A w \in Workers : Held[w] = HeldBy(job[w])
  /\ \A r \in Reservations :
       Held[r] = IF \/ resv[r].status = "reserved"
                    \/ \E w \in Workers : job[w].rid = r /\ job[w].at = "releaseQuantity"
                 THEN resv[r].qty ELSE 0
BY ConstantsAssumption DEF Held, HeldFor

\* One job changes, away from ReleaseQuantity, and the table does not: at most
\* what is held for that worker changes.
LEMMA HeldJob ==
  ASSUME IInv, IInv', UNCHANGED resv, NEW w \in Workers,
         job' = [job EXCEPT ![w] = job'[w]],
         job[w].at # "releaseQuantity", job'[w].at # "releaseQuantity"
  PROVE  Held' = [Held EXCEPT ![w] = HeldBy(job'[w])]
<1> DEFINE H == Workers \cup Reservations
<1>1. job \in [Workers -> Job] /\ Held \in [H -> Nat] /\ DOMAIN Held' = H
      /\ Held' = [h \in H |-> Held'[h]]
  BY HeldType DEF IInv, TypeOK, Held
<1>0. /\ \A v \in Workers : Held'[v] = HeldBy(job'[v])
      /\ \A r \in Reservations :
           Held'[r] = IF \/ resv[r].status = "reserved"
                         \/ \E v \in Workers : job'[v].rid = r /\ job'[v].at = "releaseQuantity"
                      THEN resv[r].qty ELSE 0
  BY ConstantsAssumption DEF Held, HeldFor, HeldBy
<1>2. \A v \in Workers \ {w} : job'[v] = job[v]
  BY <1>1
<1>3. \A v \in Workers : Held'[v] = IF v = w THEN HeldBy(job'[w]) ELSE Held[v]
  BY <1>0, <1>2, HeldValues
<1>4. \A r \in Reservations : Held'[r] = Held[r]
  <2> TAKE r \in Reservations
  <2>1. (\E v \in Workers : job'[v].rid = r /\ job'[v].at = "releaseQuantity")
          <=> (\E v \in Workers : job[v].rid = r /\ job[v].at = "releaseQuantity")
    BY <1>2
  <2> QED
    BY <1>0, <2>1, HeldValues
<1>5. \A h \in H : Held'[h] = [Held EXCEPT ![w] = HeldBy(job'[w])][h]
  BY <1>1, <1>3, <1>4, ConstantsAssumption
<1> QED
  BY <1>1, <1>5

\* What is held for one holder changes: the total changes by as much.
LEMMA HeldUpdate ==
  ASSUME IInv, NEW h \in Workers \cup Reservations, NEW n \in Nat,
         Held' = [Held EXCEPT ![h] = n]
  PROVE  Total(Held') = Total(Held) + n - Held[h]
<1> DEFINE g == [Held EXCEPT ![h] = n]
           H == Workers \cup Reservations
<1>1. IsFiniteSet(H) /\ Held \in [H -> Nat]
  BY HeldType
<1>2. g \in [H -> Nat] /\ g[h] = n /\ \A k \in H \ {h} : g[k] = Held[k]
  BY <1>1
<1> HIDE DEF g, H
<1>3. h \in H
  BY DEF H
<1>4. Total(g) = Total(Held) + g[h] - Held[h]
  BY <1>1, <1>2, <1>3, TotalUpdate
<1>5. Held' = g
  BY DEF g
<1> QED
  BY <1>2, <1>4, <1>5

\* The total of the promise is the total of the service.
LEMMA SameTotal == \A f : Holds!Total(f) = Total(f)
BY DEF Holds!Total, Holds!Units, Holds!Cardinality, Total, Units, Cardinality

LEMMA UnrecordedType ==
  ASSUME IInv, NEW kind
  PROVE  /\ [w \in Workers |-> Unrecorded(kind, job[w])] \in [Workers -> Nat]
         /\ Outstanding(kind) \in Nat
         /\ \A w \in Workers : Unrecorded(kind, job[w]) \in Nat
<1>1. \A w \in Workers : job[w].qty \in Int
  BY DEF IInv, TypeOK
<1>2. \A w \in Workers : Unrecorded(kind, job[w]) \in Nat
  BY <1>1 DEF Unrecorded
<1> QED
  BY <1>2, ConstantsAssumption, TotalType DEF Outstanding

\* One job changes: what is outstanding changes by as much.
LEMMA OutstandingJob ==
  ASSUME IInv, IInv', NEW w \in Workers, job' = [job EXCEPT ![w] = job'[w]],
         NEW kind
  PROVE  Outstanding(kind)' = Outstanding(kind) + Unrecorded(kind, job'[w])
                                - Unrecorded(kind, job[w])
<1> DEFINE f == [v \in Workers |-> Unrecorded(kind, job[v])]
           g == [v \in Workers |-> Unrecorded(kind, job'[v])]
<1>1. f \in [Workers -> Nat]
  BY UnrecordedType
<1>2. g \in [Workers -> Nat]
  <2>1. \A v \in Workers : job'[v].qty \in Int
    BY DEF IInv, TypeOK
  <2> QED
    BY <2>1 DEF Unrecorded
<1>3. \A v \in Workers \ {w} : job'[v] = job[v]
  BY DEF IInv, TypeOK
<1>4. Total(g) = Total(f) + g[w] - f[w]
  <2>1. \A v \in Workers \ {w} : g[v] = f[v]
    BY <1>3
  <2> HIDE DEF f, g
  <2> QED
    BY <1>1, <1>2, <2>1, ConstantsAssumption, TotalUpdate
<1>5. Outstanding(kind) = Total(f) /\ Outstanding(kind)' = Total(g)
  BY DEF Outstanding, Unrecorded
<1> QED
  BY <1>4, <1>5

\* What the steps below have to show of the next state: the counter covers the
\* holds, the movements account for the row, and the promise of StockHolds is kept.
HoldsKept ==
  /\ HoldsCovered'
  /\ AuditTrailInFlight'
  /\ [Holds!Next]_<<row.onHand, Held>>

\* Away from the bookkeeping a request neither holds anything nor owes a movement.
LEMMA NothingOwed ==
  ASSUME NEW j, j.at \notin {"cacheDelete", "commitReservation", "writeMovement"}
  PROVE  HeldBy(j) = 0 /\ \A kind : Unrecorded(kind, j) = 0
BY DEF HeldBy, Unrecorded

\* A step that changes no hold and owes no more and no less than before.
LEMMA QuietStep ==
  ASSUME IInv, IInv', HoldsIInv, UNCHANGED <<resv, moves>>,
         row'.onHand = row.onHand, row'.reserved = row.reserved,
         faults' = 0 => faults = 0,
         NEW w \in Workers, job' = [job EXCEPT ![w] = job'[w]],
         job[w].at # "releaseQuantity", job'[w].at # "releaseQuantity",
         HeldBy(job'[w]) = HeldBy(job[w]),
         \A kind : Unrecorded(kind, job'[w]) = Unrecorded(kind, job[w])
  PROVE  HoldsKept
<1>1. Held' = Held
  <2>1. Held' = [Held EXCEPT ![w] = HeldBy(job'[w])] /\ Held[w] = HeldBy(job[w])
    BY HeldJob, HeldValues
  <2>2. Held \in [Workers \cup Reservations -> Nat]
    BY HeldType
  <2> QED
    BY <2>1, <2>2
<1>2. \A kind \in {"in", "out", "reserve", "release"} : Outstanding(kind)' = Outstanding(kind)
  <2> TAKE kind \in {"in", "out", "reserve", "release"}
  <2>1. /\ Outstanding(kind)' = Outstanding(kind) + Unrecorded(kind, job'[w])
                                  - Unrecorded(kind, job[w])
        /\ Unrecorded(kind, job[w]) \in Nat /\ Outstanding(kind) \in Nat
    BY OutstandingJob, UnrecordedType
  <2> QED
    BY <2>1
<1>3. HoldsCovered'
  BY <1>1 DEF HoldsIInv, HoldsCovered
<1>4. AuditTrailInFlight'
  BY <1>1, <1>2 DEF HoldsIInv, AuditTrailInFlight
<1>5. [Holds!Next]_<<row.onHand, Held>>
  BY <1>1 DEF Holds!Next, Holds!Adjust
<1> QED
  BY <1>3, <1>4, <1>5 DEF HoldsKept

\* A request that has written nothing yet goes on, or ends.
LEMMA QuietJob ==
  ASSUME IInv, IInv', HoldsIInv, UNCHANGED <<row, resv, moves>>,
         faults' = 0 => faults = 0,
         NEW w \in Workers, job' = [job EXCEPT ![w] = job'[w]],
         job[w].at \notin {"releaseQuantity", "cacheDelete", "commitReservation",
                           "writeMovement"},
         job'[w].at \notin {"releaseQuantity", "cacheDelete", "commitReservation",
                            "writeMovement"}
  PROVE  HoldsKept
<1>1. /\ HeldBy(job[w]) = 0 /\ HeldBy(job'[w]) = 0
      /\ \A kind : Unrecorded(kind, job[w]) = 0 /\ Unrecorded(kind, job'[w]) = 0
  BY NothingOwed
<1> QED
  BY <1>1, QuietStep

LEMMA ReturnShape ==
  ASSUME IInv, NEW w \in Workers, Return(w)
  PROVE  job' = [job EXCEPT ![w] = job'[w]] /\ job'[w] = IdleJob
BY DEF Return, IInv, TypeOK

LEMMA GoToShape ==
  ASSUME IInv, NEW w \in Workers, NEW step, GoTo(w, step)
  PROVE  /\ job' = [job EXCEPT ![w] = job'[w]]
         /\ job'[w].at = step /\ job'[w].op = job[w].op
         /\ job'[w].qty = job[w].qty /\ job'[w].rid = job[w].rid
BY DEF GoTo, IInv, TypeOK

LEMMA ProceedShape ==
  ASSUME IInv, NEW w \in Workers, NEW inv, Proceed(w, inv)
  PROVE  /\ job' = [job EXCEPT ![w] = job'[w]]
         /\ job'[w].at \in {"idle", "reserveQuantity", "updateStock"}
<1> DEFINE next == AfterRead(job[w].op, job[w].qty, inv)
<1>1. job \in [Workers -> Job] /\ job[w] \in Job
  BY DEF IInv, TypeOK
<1>2. next \in {"idle", "reserveQuantity", "updateStock"}
  BY <1>1 DEF AfterRead
<1>3. CASE next = "idle"
  BY <1>3, ReturnShape DEF Proceed
<1>4. CASE next # "idle"
  <2>1. job' = [job EXCEPT ![w].at = next, ![w].copy = inv]
    BY <1>4 DEF Proceed
  <2> HIDE DEF next
  <2> QED
    BY <1>1, <1>2, <2>1
<1> QED
  BY <1>3, <1>4

LEMMA HoldsEntry ==
  ASSUME IInv, IInv', HoldsIInv, NEW w \in Workers,
         \/ \E q \in Quantities : ReserveStock(w, q)
         \/ \E d \in Changes : UpdateStock(w, d)
         \/ \E r \in Reservations : ReleaseReservation(w, r)
         \/ GetStock(w)
  PROVE  HoldsKept
<1>1. PICK j : /\ job' = [job EXCEPT ![w] = j] /\ j.at \in {"cacheGet", "updateStatus"}
               /\ job[w].at = "idle" /\ UNCHANGED <<row, resv, moves, faults>>
  <2>1. CASE \E q \in Quantities : ReserveStock(w, q)
    <3>1. PICK q \in Quantities : ReserveStock(w, q)
      BY <2>1
    <3> WITNESS NewJob("reserve", "cacheGet", q, NoReservation)
    <3> QED
      BY <3>1 DEF ReserveStock, Accept
  <2>2. CASE \E d \in Changes : UpdateStock(w, d)
    <3>1. PICK d \in Changes : UpdateStock(w, d)
      BY <2>2
    <3> WITNESS NewJob("update", "cacheGet", d, NoReservation)
    <3> QED
      BY <3>1 DEF UpdateStock, Accept
  <2>3. CASE \E r \in Reservations : ReleaseReservation(w, r)
    <3>1. PICK r \in Reservations : ReleaseReservation(w, r)
      BY <2>3
    <3> WITNESS NewJob("release", "updateStatus", resv[r].qty, r)
    <3> QED
      BY <3>1 DEF ReleaseReservation, Accept
  <2>4. CASE GetStock(w)
    <3> WITNESS NewJob("get", "cacheGet", 0, NoReservation)
    <3> QED
      BY <2>4 DEF GetStock
  <2> QED
    BY <2>1, <2>2, <2>3, <2>4
<1>2. job' = [job EXCEPT ![w] = job'[w]] /\ job'[w].at = j.at
  BY <1>1 DEF IInv, TypeOK
<1> QED
  BY <1>1, <1>2, QuietJob

LEMMA HoldsRead ==
  ASSUME IInv, IInv', HoldsIInv, NEW w \in Workers,
         CacheHit(w) \/ CacheMiss(w) \/ DbGet(w) \/ CacheSet(w)
  PROVE  HoldsKept
<1>1. /\ UNCHANGED <<row, resv, moves, faults>>
      /\ job[w].at \in {"cacheGet", "dbGet", "cacheSet"}
  BY DEF CacheHit, CacheMiss, DbGet, CacheSet
<1>2. \/ \E inv : Proceed(w, inv)
      \/ \E step \in {"dbGet", "create"} : GoTo(w, step)
      \/ Return(w)
      \/ job' = [job EXCEPT ![w].at = "cacheSet", ![w].copy = row]
  BY DEF CacheHit, CacheMiss, DbGet, CacheSet
<1>3. /\ job' = [job EXCEPT ![w] = job'[w]]
      /\ job'[w].at \in {"idle", "reserveQuantity", "updateStock", "dbGet", "create",
                         "cacheSet"}
  <2>1. CASE job' = [job EXCEPT ![w].at = "cacheSet", ![w].copy = row]
    <3> DEFINE j == [job[w] EXCEPT !.at = "cacheSet", !.copy = row]
    <3>1. job \in [Workers -> Job] /\ job[w] \in Job
      BY DEF IInv, TypeOK
    <3>2. job' = [job EXCEPT ![w] = j] /\ j.at = "cacheSet"
      BY <2>1, <3>1
    <3> HIDE DEF j
    <3> QED
      BY <3>1, <3>2
  <2> QED
    BY <1>2, <2>1, ProceedShape, GoToShape, ReturnShape
<1> QED
  BY <1>1, <1>3, QuietJob

\* UpdateStock has changed the stock; the movement is still owed.
LEMMA HoldsAdjust ==
  ASSUME IInv, IInv', HoldsIInv, UNCHANGED <<resv, moves, faults>>,
         NEW w \in Workers, GoTo(w, "cacheDelete"),
         job[w].at \in {"create", "updateStock"},
         row'.onHand = row.onHand + job[w].qty, row'.reserved = row.reserved
  PROVE  HoldsKept
<1>1. /\ job' = [job EXCEPT ![w] = job'[w]]
      /\ job'[w].at = "cacheDelete" /\ job'[w].op = "update" /\ job'[w].qty = job[w].qty
      /\ job[w].qty \in Int /\ row.onHand \in Int /\ moves.onHand \in Int
  BY GoToShape DEF IInv, TypeOK, JobConsistent
<1>2. HeldBy(job[w]) = 0 /\ HeldBy(job'[w]) = 0 /\ \A kind : Unrecorded(kind, job[w]) = 0
  BY <1>1, NothingOwed DEF HeldBy
<1>3. Held' = Held
  <2>1. Held' = [Held EXCEPT ![w] = HeldBy(job'[w])] /\ Held[w] = HeldBy(job[w])
    BY <1>1, HeldJob, HeldValues
  <2> QED
    BY <1>2, <2>1, HeldType
<1>4. /\ Outstanding("reserve")' = Outstanding("reserve")
      /\ Outstanding("release")' = Outstanding("release")
      /\ Outstanding("in")' - Outstanding("out")'
           = Outstanding("in") - Outstanding("out") + job[w].qty
  <2>1. \A kind \in {"in", "out", "reserve", "release"} :
          /\ Outstanding(kind)' = Outstanding(kind) + Unrecorded(kind, job'[w])
          /\ Outstanding(kind) \in Nat
    <3> TAKE kind \in {"in", "out", "reserve", "release"}
    <3>1. Outstanding(kind)' = Outstanding(kind) + Unrecorded(kind, job'[w]) - 0
      BY <1>1, <1>2, OutstandingJob
    <3>2. Outstanding(kind) \in Nat /\ Unrecorded(kind, job'[w]) \in Nat
      BY <1>1, UnrecordedType DEF Unrecorded
    <3> QED
      BY <3>1, <3>2
  <2>2. /\ Unrecorded("in", job'[w]) = IF job[w].qty > 0 THEN job[w].qty ELSE 0
        /\ Unrecorded("out", job'[w]) = IF job[w].qty < 0 THEN -job[w].qty ELSE 0
        /\ Unrecorded("reserve", job'[w]) = 0 /\ Unrecorded("release", job'[w]) = 0
    BY <1>1 DEF Unrecorded
  <2> QED
    BY <1>1, <2>1, <2>2
<1>5. HoldsCovered'
  BY <1>3 DEF HoldsIInv, HoldsCovered
<1>6. AuditTrailInFlight'
  <2>1. /\ Outstanding("in") \in Nat /\ Outstanding("out") \in Nat
        /\ Outstanding("in")' \in Int /\ Outstanding("out")' \in Int
    <3>1. \A v \in Workers : job'[v].qty \in Int
      BY DEF IInv, TypeOK
    <3>2. \A kind : [v \in Workers |-> Unrecorded(kind, job'[v])] \in [Workers -> Nat]
      BY <3>1 DEF Unrecorded
    <3>3. \A kind : Total([v \in Workers |-> Unrecorded(kind, job'[v])]) \in Nat
      BY <3>2, ConstantsAssumption, TotalType
    <3>4. \A kind : Outstanding(kind)' \in Nat
      BY <3>3 DEF Outstanding, Unrecorded
    <3> QED
      BY <3>4, UnrecordedType
  <2> QED
    BY <1>1, <1>3, <1>4, <2>1 DEF HoldsIInv, AuditTrailInFlight
<1>7. [Holds!Next]_<<row.onHand, Held>>
  BY <1>3 DEF Holds!Next, Holds!Adjust
<1> QED
  BY <1>5, <1>6, <1>7 DEF HoldsKept

\* UpdateStock: the stock changes, or the version or the row was against it.
LEMMA HoldsUpdate ==
  ASSUME IInv, IInv', HoldsIInv, NEW w \in Workers, Create(w) \/ AdjustOnHand(w)
  PROVE  HoldsKept
<1>1. row \in Row /\ job[w].qty \in Int
  BY DEF IInv, TypeOK
<1>2. UNCHANGED <<resv, moves, faults>> /\ job[w].at \in {"create", "updateStock"}
  BY DEF Create, AdjustOnHand
<1>3. CASE UNCHANGED row /\ Return(w)
  BY <1>2, <1>3, ReturnShape, QuietJob
<1>4. CASE Create(w) /\ row = Absent
  <2>1. row'.onHand = row.onHand + job[w].qty /\ row'.reserved = row.reserved
        /\ GoTo(w, "cacheDelete")
    BY <1>1, <1>4 DEF Create
  <2> QED
    BY <1>2, <2>1, HoldsAdjust
<1>5. CASE AdjustOnHand(w) /\ VersionMatches(row, job[w].copy)
  <2>1. row'.onHand = row.onHand + job[w].qty /\ row'.reserved = row.reserved
        /\ GoTo(w, "cacheDelete")
    BY <1>1, <1>5 DEF AdjustOnHand
  <2> QED
    BY <1>2, <2>1, HoldsAdjust
<1> QED
  BY <1>3, <1>4, <1>5 DEF Create, AdjustOnHand

\* ReserveStock: the UPDATE that goes through is a hold that fits into the stock.
LEMMA HoldsReserve ==
  ASSUME IInv, IInv', HoldsIInv, NEW w \in Workers, ReserveQuantity(w)
  PROVE  HoldsKept
<1>1. /\ row \in Row /\ job[w].qty \in Int /\ job[w].qty > 0 /\ job[w].op = "reserve"
      /\ job[w].at = "reserveQuantity" /\ UNCHANGED <<resv, moves, faults>>
  BY DEF IInv, TypeOK, JobConsistent, ReserveQuantity
<1>2. CASE ~CanReserve(row, job[w].copy, job[w].qty)
  <2>1. UNCHANGED row /\ Return(w)
    BY <1>2 DEF ReserveQuantity
  <2> QED
    BY <1>1, <2>1, ReturnShape, QuietJob
<1>3. CASE CanReserve(row, job[w].copy, job[w].qty)
  <2> DEFINE q == job[w].qty
  <2>1. /\ row'.onHand = row.onHand /\ row'.reserved = row.reserved + q
        /\ row.onHand - row.reserved >= q /\ GoTo(w, "cacheDelete")
    BY <1>1, <1>3 DEF ReserveQuantity, Reserved, CanReserve, Available
  <2>2. /\ job' = [job EXCEPT ![w] = job'[w]] /\ job'[w].qty = q
        /\ job'[w].at = "cacheDelete" /\ job'[w].op = "reserve"
    BY <1>1, <2>1, GoToShape
  <2>3. /\ HeldBy(job[w]) = 0 /\ HeldBy(job'[w]) = q
        /\ \A kind : Unrecorded(kind, job[w]) = 0
    BY <1>1, <2>2, NothingOwed DEF HeldBy
  <2>4. Held' = [Held EXCEPT ![w] = q] /\ Held[w] = 0
    BY <1>1, <2>2, <2>3, HeldJob, HeldValues
  <2>5. /\ IsFiniteSet(Workers \cup Reservations)
        /\ Held \in [Workers \cup Reservations -> Nat] /\ Total(Held) \in Nat
    BY HeldType
  <2>6. Held' \in [Workers \cup Reservations -> Nat] /\ Held'[w] = q
        /\ \A h \in (Workers \cup Reservations) \ {w} : Held'[h] = Held[h]
    BY <1>1, <2>4, <2>5
  <2>7. Total(Held') = Total(Held) + q
    <3>1. q \in Nat /\ w \in Workers \cup Reservations
      BY <1>1
    <3>2. Total(Held') = Total(Held) + q - Held[w]
      BY <2>4, <3>1, HeldUpdate
    <3> QED
      BY <2>4, <2>5, <3>1, <3>2
  <2>8. HoldsCovered'
    BY <1>1, <2>1, <2>5, <2>7 DEF HoldsIInv, HoldsCovered
  <2>9. AuditTrailInFlight'
    <3>1. /\ Unrecorded("reserve", job'[w]) = q /\ Unrecorded("release", job'[w]) = 0
          /\ Unrecorded("in", job'[w]) = 0 /\ Unrecorded("out", job'[w]) = 0
      BY <1>1, <2>2 DEF Unrecorded
    <3>2. \A kind : /\ Outstanding(kind)' = Outstanding(kind) + Unrecorded(kind, job'[w]) - 0
                    /\ Outstanding(kind) \in Nat
      BY <2>2, <2>3, OutstandingJob, UnrecordedType
    <3>3. /\ Outstanding("reserve")' = Outstanding("reserve") + q
          /\ Outstanding("release")' = Outstanding("release")
          /\ Outstanding("in")' = Outstanding("in")
          /\ Outstanding("out")' = Outstanding("out")
      BY <1>1, <3>1, <3>2
    <3>4. moves.reserved \in Int /\ Outstanding("reserve") \in Nat /\ Outstanding("release") \in Nat
      BY <3>2 DEF IInv, TypeOK
    <3> QED
      BY <1>1, <2>1, <2>5, <2>7, <3>3, <3>4 DEF HoldsIInv, AuditTrailInFlight
  <2>10. Holds!Hold(w)
    <3>1. Total(Held') <= row.onHand
      BY <1>1, <2>1, <2>5, <2>7 DEF HoldsIInv, HoldsCovered
    <3>2. Holds!Total(Held') <= row.onHand
      BY <3>1, SameTotal
    <3> QED
      BY <1>1, <2>1, <2>4, <2>6, <3>2 DEF Holds!Hold
  <2> QED
    BY <2>8, <2>9, <2>10 DEF HoldsKept, Holds!Next
<1> QED
  BY <1>2, <1>3

\* UpdateStatus: the reservation is "released" now and still held until the
\* counter is brought down.
LEMMA HoldsStatus ==
  ASSUME IInv, IInv', HoldsIInv, NEW w \in Workers, UpdateStatus(w)
  PROVE  HoldsKept
<1> DEFINE r == job[w].rid
           H == Workers \cup Reservations
<1>0. job \in [Workers -> Job] /\ resv \in [Reservations -> Reservation]
  BY DEF IInv, TypeOK
<1>1. /\ r \in Reservations /\ resv[r] = [status |-> "reserved", qty |-> job[w].qty]
      /\ job[w].at = "updateStatus" /\ UNCHANGED <<row, moves, faults>>
  BY DEF IInv, HoldsIInv, ReleasesIInv, JobConsistent, ReleaseConsistent, UpdateStatus
<1>2. /\ job' = [job EXCEPT ![w] = job'[w]]
      /\ job'[w].at = "releaseQuantity" /\ job'[w].rid = r
      /\ \A v \in Workers \ {w} : job'[v] = job[v]
  BY <1>0, GoToShape DEF UpdateStatus
<1>3. /\ resv'[r].qty = resv[r].qty /\ resv'[r].status = "released"
      /\ \A k \in Reservations \ {r} : resv'[k] = resv[k]
  BY <1>0, <1>1 DEF UpdateStatus
<1>4. /\ \A v \in Workers : Held'[v] = HeldBy(job'[v])
      /\ \A k \in Reservations :
           Held'[k] = IF \/ resv'[k].status = "reserved"
                         \/ \E v \in Workers : job'[v].rid = k /\ job'[v].at = "releaseQuantity"
                      THEN resv'[k].qty ELSE 0
      /\ Held' = [h \in H |-> Held'[h]]
  BY ConstantsAssumption DEF Held, HeldFor, HeldBy
<1>5. HeldBy(job[w]) = 0 /\ HeldBy(job'[w]) = 0
      /\ \A kind : Unrecorded(kind, job[w]) = 0 /\ Unrecorded(kind, job'[w]) = 0
  BY <1>1, <1>2, NothingOwed
<1>6. \A v \in Workers : Held'[v] = Held[v]
  BY <1>2, <1>4, <1>5, HeldValues
<1>7. \A k \in Reservations : Held'[k] = Held[k]
  <2> TAKE k \in Reservations
  <2>1. CASE k = r
    BY <1>1, <1>2, <1>3, <1>4, <2>1, HeldValues
  <2>2. CASE k # r
    <3>1. (\E v \in Workers : job'[v].rid = k /\ job'[v].at = "releaseQuantity")
            <=> (\E v \in Workers : job[v].rid = k /\ job[v].at = "releaseQuantity")
      BY <1>1, <1>2, <2>2
    <3> QED
      BY <1>3, <1>4, <2>2, <3>1, HeldValues
  <2> QED
    BY <2>1, <2>2
<1>8. Held' = Held
  BY <1>4, <1>6, <1>7, HeldType
<1>9. \A kind : Outstanding(kind)' = Outstanding(kind)
  <2> TAKE kind
  <2>1. Outstanding(kind)' = Outstanding(kind) + 0 - 0 /\ Outstanding(kind) \in Nat
    BY <1>2, <1>5, OutstandingJob, UnrecordedType
  <2> QED
    BY <2>1
<1>10. HoldsCovered' /\ AuditTrailInFlight'
  BY <1>1, <1>8, <1>9 DEF HoldsIInv, HoldsCovered, AuditTrailInFlight
<1> QED
  BY <1>8, <1>10 DEF HoldsKept, Holds!Next, Holds!Adjust

\* The job of a request that was at ReleaseQuantity moves on: the reservation
\* is not held any more, because no other request is releasing it.
LEMMA HeldReleased ==
  ASSUME IInv, IInv', HoldsIInv, UNCHANGED resv, NEW w \in Workers,
         job' = [job EXCEPT ![w] = job'[w]],
         job[w].at = "releaseQuantity", job'[w].at # "releaseQuantity",
         HeldBy(job'[w]) = 0
  PROVE  /\ job[w].rid \in Reservations
         /\ job[w].qty \in Nat /\ job[w].qty > 0
         /\ Held[job[w].rid] = job[w].qty
         /\ Held' = [Held EXCEPT ![job[w].rid] = 0]
<1> DEFINE r == job[w].rid
           H == Workers \cup Reservations
<1>0. job \in [Workers -> Job] /\ resv \in [Reservations -> Reservation]
      /\ \A v \in Workers \ {w} : job'[v] = job[v]
  BY DEF IInv, TypeOK
<1>1. r \in Reservations /\ resv[r] = [status |-> "released", qty |-> job[w].qty]
  BY DEF IInv, HoldsIInv, ReleasesIInv, JobConsistent, ReleaseConsistent
<1>2. job[w].qty \in Nat /\ job[w].qty > 0
  BY <1>0, <1>1 DEF HoldsIInv, ReleasesIInv
<1>3. \A v \in Workers \ {w} : job[v].rid # r
  BY <1>1 DEF HoldsIInv, ReleasesIInv
<1>4. /\ \A v \in Workers : Held'[v] = HeldBy(job'[v])
      /\ \A k \in Reservations :
           Held'[k] = IF \/ resv[k].status = "reserved"
                         \/ \E v \in Workers : job'[v].rid = k /\ job'[v].at = "releaseQuantity"
                      THEN resv[k].qty ELSE 0
      /\ Held' = [h \in H |-> Held'[h]]
  BY ConstantsAssumption DEF Held, HeldFor, HeldBy
<1>5. HeldBy(job[w]) = 0
  BY NothingOwed
<1>6. \A v \in Workers : Held'[v] = Held[v]
  BY <1>0, <1>4, <1>5, HeldValues
<1>7. Held[r] = job[w].qty /\ Held'[r] = 0
  BY <1>0, <1>1, <1>3, <1>4, HeldValues
<1>8. \A k \in Reservations \ {r} : Held'[k] = Held[k]
  <2> TAKE k \in Reservations \ {r}
  <2>1. (\E v \in Workers : job'[v].rid = k /\ job'[v].at = "releaseQuantity")
          <=> (\E v \in Workers : job[v].rid = k /\ job[v].at = "releaseQuantity")
    BY <1>0
  <2> QED
    BY <1>4, <2>1, HeldValues
<1>9. Held \in [H -> Nat]
  BY HeldType
<1>10. \A h \in H : Held'[h] = [Held EXCEPT ![r] = 0][h]
  BY <1>1, <1>6, <1>7, <1>8, <1>9, ConstantsAssumption
<1>11. Held' = [Held EXCEPT ![r] = 0]
  BY <1>4, <1>9, <1>10
<1> QED
  BY <1>1, <1>2, <1>7, <1>11

\* ReleaseQuantity: the counter has what is held, so the UPDATE goes through.
LEMMA HoldsRelease ==
  ASSUME IInv, IInv', HoldsIInv, NEW w \in Workers, ReleaseQuantity(w)
  PROVE  HoldsKept
<1> DEFINE r == job[w].rid
           q == job[w].qty
<1>1. /\ row \in Row /\ job[w].op = "release" /\ job[w].at = "releaseQuantity"
      /\ UNCHANGED <<resv, moves, faults>>
      /\ moves.reserved \in Int
  BY DEF IInv, TypeOK, JobConsistent, ReleaseQuantity
<1>2. /\ job' = [job EXCEPT ![w] = job'[w]] /\ job'[w].qty = q
      /\ job'[w].at = "cacheDelete" /\ job'[w].op = "release"
  BY <1>1, GoToShape DEF ReleaseQuantity
<1>3. HeldBy(job'[w]) = 0 /\ \A kind : Unrecorded(kind, job[w]) = 0
  BY <1>1, <1>2, NothingOwed DEF HeldBy
<1>4. /\ r \in Reservations /\ q \in Nat /\ q > 0 /\ Held[r] = q
      /\ Held' = [Held EXCEPT ![r] = 0]
  BY <1>1, <1>2, <1>3, HeldReleased
<1>5. /\ IsFiniteSet(Workers \cup Reservations)
      /\ Held \in [Workers \cup Reservations -> Nat] /\ Total(Held) \in Nat
  BY HeldType
<1>6. q <= Total(Held)
  <2>1. r \in Workers \cup Reservations
    BY <1>4
  <2>2. Held[r] <= Total(Held)
    BY <1>5, <2>1, TotalAtLeast
  <2> QED
    BY <1>4, <2>2
<1>7. Total(Held') = Total(Held) - q
  <2>1. r \in Workers \cup Reservations
    BY <1>4
  <2>2. Total(Held') = Total(Held) + 0 - Held[r]
    BY <1>4, <2>1, HeldUpdate
  <2> QED
    BY <1>4, <1>5, <2>2
<1>8. row'.onHand = row.onHand /\ row'.reserved = row.reserved - q
  <2>1. row.reserved >= q
    BY <1>1, <1>4, <1>5, <1>6 DEF HoldsIInv, HoldsCovered
  <2> QED
    BY <1>1, <2>1 DEF ReleaseQuantity, Released
<1>9. HoldsCovered'
  BY <1>1, <1>4, <1>5, <1>7, <1>8 DEF HoldsIInv, HoldsCovered
<1>10. AuditTrailInFlight'
  <2>1. /\ Unrecorded("release", job'[w]) = q /\ Unrecorded("reserve", job'[w]) = 0
        /\ Unrecorded("in", job'[w]) = 0 /\ Unrecorded("out", job'[w]) = 0
    BY <1>2, <1>4 DEF Unrecorded
  <2>2. \A kind : /\ Outstanding(kind)' = Outstanding(kind) + Unrecorded(kind, job'[w]) - 0
                  /\ Outstanding(kind) \in Nat
    BY <1>2, <1>3, OutstandingJob, UnrecordedType
  <2>3. /\ Outstanding("release")' = Outstanding("release") + q
        /\ Outstanding("reserve")' = Outstanding("reserve")
        /\ Outstanding("in")' = Outstanding("in")
        /\ Outstanding("out")' = Outstanding("out")
        /\ Outstanding("reserve") \in Nat /\ Outstanding("release") \in Nat
    BY <1>4, <2>1, <2>2
  <2> QED
    BY <1>1, <1>4, <1>5, <1>7, <1>8, <2>3 DEF HoldsIInv, AuditTrailInFlight
<1>11. Holds!Drop(r)
  BY <1>4, <1>8 DEF Holds!Drop
<1> QED
  BY <1>4, <1>9, <1>10, <1>11 DEF HoldsKept, Holds!Next

\* COMMIT: the request hands its hold to the reservation it recorded.  Where
\* order_item_id is NOT NULL the reservation cannot be recorded and the hold is
\* dropped, with the counter left as it is.
LEMMA HoldsCommit ==
  ASSUME IInv, IInv', HoldsIInv, NEW w \in Workers, CommitReservation(w)
  PROVE  HoldsKept
<1> DEFINE q == job[w].qty
           H == Workers \cup Reservations
<1>0. /\ job \in [Workers -> Job] /\ resv \in [Reservations -> Reservation]
      /\ row \in Row /\ moves \in [onHand : Int, reserved : Int]
      /\ \A v \in Workers : ReleaseConsistent(job[v])
  BY DEF IInv, TypeOK, HoldsIInv, ReleasesIInv
<1>1. /\ job[w].op = "reserve" /\ job[w].at = "commitReservation"
      /\ q \in Nat /\ q > 0 /\ UNCHANGED <<row, faults>>
  BY DEF IInv, TypeOK, JobConsistent, CommitReservation
<1>2. job' = [job EXCEPT ![w] = job'[w]] /\ job'[w] = IdleJob
  BY ReturnShape DEF CommitReservation
<1>3. /\ HeldBy(job[w]) = q /\ HeldBy(job'[w]) = 0
      /\ \A kind : Unrecorded(kind, job'[w]) = 0
  BY <1>1, <1>2, NothingOwed DEF HeldBy
<1>4. /\ IsFiniteSet(H) /\ Held \in [H -> Nat] /\ Total(Held) \in Nat /\ Held[w] = q
  BY <1>3, HeldType, HeldValues
<1>a. /\ Outstanding("reserve")' = Outstanding("reserve") - q
      /\ Outstanding("release")' = Outstanding("release")
      /\ Outstanding("in")' = Outstanding("in")
      /\ Outstanding("out")' = Outstanding("out")
      /\ Outstanding("reserve") \in Nat /\ Outstanding("release") \in Nat
  <2>1. /\ Unrecorded("reserve", job[w]) = q /\ Unrecorded("release", job[w]) = 0
        /\ Unrecorded("in", job[w]) = 0 /\ Unrecorded("out", job[w]) = 0
    BY <1>1 DEF Unrecorded
  <2>2. \A kind : /\ Outstanding(kind)' = Outstanding(kind) + 0 - Unrecorded(kind, job[w])
                  /\ Outstanding(kind) \in Nat
    BY <1>2, <1>3, OutstandingJob, UnrecordedType
  <2> QED
    BY <1>1, <2>1, <2>2
<1>5. CASE OrderItemIdNotNull
  <2>1. UNCHANGED <<resv, moves>>
    BY <1>5 DEF CommitReservation
  <2>2. Held' = [Held EXCEPT ![w] = 0]
    BY <1>1, <1>2, <1>3, <2>1, HeldJob
  <2>3. Total(Held') = Total(Held) + 0 - Held[w]
    BY <2>2, HeldUpdate
  <2>4. HoldsCovered'
    BY <1>0, <1>1, <1>4, <1>5, <2>3 DEF HoldsIInv, HoldsCovered
  <2>6. AuditTrailInFlight'
    BY <1>0, <1>1, <1>4, <1>a, <2>1, <2>3 DEF HoldsIInv, AuditTrailInFlight
  <2>5. Holds!Drop(w)
    BY <1>1, <1>4, <2>2 DEF Holds!Drop
  <2> QED
    BY <2>4, <2>5, <2>6 DEF HoldsKept, Holds!Next
<1>6. CASE ~OrderItemIdNotNull
  <2>1. PICK r \in Reservations :
          /\ resv[r].status = "none"
          /\ resv' = [resv EXCEPT ![r] = [status |-> "reserved", qty |-> q]]
          /\ moves' = Recorded(moves, "reserve", q)
    BY <1>6 DEF CommitReservation
  <2>2. /\ resv'[r] = [status |-> "reserved", qty |-> q]
        /\ \A k \in Reservations \ {r} : resv'[k] = resv[k]
        /\ moves'.onHand = moves.onHand /\ moves'.reserved = moves.reserved - q
    BY <1>0, <2>1 DEF Recorded
  <2>3. /\ \A v \in Workers : Held'[v] = HeldBy(job'[v])
        /\ \A k \in Reservations :
             Held'[k] = IF \/ resv'[k].status = "reserved"
                           \/ \E v \in Workers : job'[v].rid = k /\ job'[v].at = "releaseQuantity"
                        THEN resv'[k].qty ELSE 0
        /\ Held' = [h \in H |-> Held'[h]]
    BY ConstantsAssumption DEF Held, HeldFor, HeldBy
  <2>4. \A v \in Workers \ {w} : job'[v] = job[v]
    BY <1>0, <1>2
  <2>5. \A v \in Workers : Held'[v] = IF v = w THEN 0 ELSE Held[v]
    BY <1>3, <2>3, <2>4, HeldValues
  <2>6. Held[r] = 0
    <3>1. ASSUME NEW v \in Workers, job[v].rid = r, job[v].at = "releaseQuantity"
          PROVE  FALSE
      <4>1. resv[r] = [status |-> "released", qty |-> job[v].qty]
        BY <1>0, <3>1 DEF ReleaseConsistent
      <4>2. resv[r].status = "released"
        BY <4>1
      <4> QED
        BY <2>1, <4>2
    <3> QED
      BY <2>1, <3>1, HeldValues
  <2>7. Held'[r] = q
    BY <2>2, <2>3
  <2>8. \A k \in Reservations \ {r} : Held'[k] = Held[k]
    <3> TAKE k \in Reservations \ {r}
    <3>1. (\E v \in Workers : job'[v].rid = k /\ job'[v].at = "releaseQuantity")
            <=> (\E v \in Workers : job[v].rid = k /\ job[v].at = "releaseQuantity")
      BY <1>1, <1>2, <2>4
    <3> QED
      BY <2>2, <2>3, <3>1, HeldValues
  <2>9. w # r /\ w \in H /\ r \in H
    BY ConstantsAssumption
  <2>10. Held' = [Held EXCEPT ![w] = 0, ![r] = Held[w]]
    <3>1. \A h \in H : Held'[h] = [Held EXCEPT ![w] = 0, ![r] = Held[w]][h]
      BY <1>4, <2>5, <2>6, <2>7, <2>8, <2>9
    <3> QED
      BY <1>4, <2>3, <3>1
  <2>11. Total(Held') = Total(Held)
    <3> DEFINE g == [Held EXCEPT ![w] = 0, ![r] = Held[w]]
    <3>1. /\ g \in [H -> Nat] /\ g[w] = 0 /\ g[r] = q
          /\ \A h \in H \ {w, r} : g[h] = Held[h]
      BY <1>4, <2>9
    <3> HIDE DEF g, H
    <3>2. Total(g) = Total(Held) + g[w] + g[r] - Held[w] - Held[r]
      <4>1. IsFiniteSet(H) /\ Held \in [H -> Nat] /\ w \in H /\ r \in H /\ w # r
        BY <1>4, <2>9
      <4> QED
        BY <3>1, <4>1, TotalMove
    <3>3. Held' = g
      BY <2>10 DEF g
    <3> QED
      BY <1>1, <1>4, <2>6, <3>1, <3>2, <3>3
  <2>12. HoldsCovered'
    BY <1>1, <2>11 DEF HoldsIInv, HoldsCovered
  <2>13. AuditTrailInFlight'
    BY <1>0, <1>1, <1>4, <1>a, <2>2, <2>11 DEF HoldsIInv, AuditTrailInFlight
  <2>14. Holds!Pass(w, r)
    BY <1>1, <1>4, <2>6, <2>10 DEF Holds!Pass
  <2> QED
    BY <2>9, <2>12, <2>13, <2>14 DEF HoldsKept, Holds!Next
<1> QED
  BY <1>5, <1>6

\* The movement of a release or of an update is written at last.
LEMMA HoldsMovement ==
  ASSUME IInv, IInv', HoldsIInv, NEW w \in Workers, WriteMovement(w)
  PROVE  HoldsKept
<1> DEFINE q == job[w].qty
<1>1. /\ row \in Row /\ moves \in [onHand : Int, reserved : Int]
      /\ q \in Int /\ job[w].op \in {"release", "update"}
      /\ job[w].op = "release" => q >= 0
      /\ job[w].at = "writeMovement" /\ UNCHANGED <<row, resv, faults>>
  BY DEF IInv, TypeOK, HoldsIInv, ReleasesIInv, JobConsistent, ReleaseConsistent, WriteMovement
<1>2. job' = [job EXCEPT ![w] = job'[w]] /\ job'[w] = IdleJob
  BY ReturnShape DEF WriteMovement
<1>3. /\ HeldBy(job[w]) = 0 /\ HeldBy(job'[w]) = 0
      /\ \A kind : Unrecorded(kind, job'[w]) = 0
  BY <1>1, <1>2, NothingOwed DEF HeldBy
<1>4. Held' = Held
  <2>1. Held' = [Held EXCEPT ![w] = 0] /\ Held[w] = 0
    BY <1>1, <1>2, <1>3, HeldJob, HeldValues
  <2> QED
    BY <2>1, HeldType
<1>5. \A kind : /\ Outstanding(kind)' = Outstanding(kind) + 0 - Unrecorded(kind, job[w])
                /\ Outstanding(kind) \in Nat
  BY <1>2, <1>3, OutstandingJob, UnrecordedType
<1>6. AuditTrailInFlight'
  <2>1. CASE job[w].op = "release"
    <3>1. /\ Unrecorded("release", job[w]) = q /\ Unrecorded("reserve", job[w]) = 0
          /\ Unrecorded("in", job[w]) = 0 /\ Unrecorded("out", job[w]) = 0
      BY <1>1, <2>1 DEF Unrecorded
    <3>2. moves'.onHand = moves.onHand /\ moves'.reserved = moves.reserved + q
      BY <1>1, <2>1 DEF WriteMovement, Recorded
    <3>3. /\ Outstanding("release")' = Outstanding("release") - q
          /\ Outstanding("reserve")' = Outstanding("reserve")
          /\ Outstanding("in")' = Outstanding("in")
          /\ Outstanding("out")' = Outstanding("out")
          /\ Outstanding("reserve") \in Nat /\ Outstanding("release") \in Nat
      BY <1>1, <1>5, <3>1
    <3> QED
      BY <1>1, <1>4, <3>2, <3>3, HeldType DEF HoldsIInv, AuditTrailInFlight
  <2>2. CASE job[w].op = "update"
    <3>1. /\ Unrecorded("in", job[w]) = IF q > 0 THEN q ELSE 0
          /\ Unrecorded("out", job[w]) = IF q < 0 THEN -q ELSE 0
          /\ Unrecorded("reserve", job[w]) = 0 /\ Unrecorded("release", job[w]) = 0
      BY <1>1, <2>2 DEF Unrecorded
    <3>2. moves'.onHand = moves.onHand + q /\ moves'.reserved = moves.reserved
      BY <1>1, <2>2 DEF WriteMovement, Recorded
    <3>3. /\ Outstanding("in")' = Outstanding("in") - (IF q > 0 THEN q ELSE 0)
          /\ Outstanding("out")' = Outstanding("out") - (IF q < 0 THEN -q ELSE 0)
          /\ Outstanding("reserve")' = Outstanding("reserve")
          /\ Outstanding("release")' = Outstanding("release")
          /\ Outstanding("in") \in Nat /\ Outstanding("out") \in Nat
      BY <1>1, <1>5, <3>1
    <3> QED
      BY <1>1, <1>4, <3>2, <3>3, HeldType DEF HoldsIInv, AuditTrailInFlight
  <2> QED
    BY <1>1, <2>1, <2>2
<1>7. HoldsCovered'
  BY <1>1, <1>4 DEF HoldsIInv, HoldsCovered
<1> QED
  BY <1>4, <1>6, <1>7 DEF HoldsKept, Holds!Next, Holds!Adjust

\* DEL of the cache entries, by Redis or given up: nothing is held or recorded.
LEMMA HoldsDelete ==
  ASSUME IInv, IInv', HoldsIInv, UNCHANGED <<row, resv, moves>>,
         faults' = 0 => faults = 0, NEW w \in Workers,
         job[w].at = "cacheDelete", GoTo(w, AfterWrite(job[w].op))
  PROVE  HoldsKept
<1>1. /\ job' = [job EXCEPT ![w] = job'[w]]
      /\ job'[w].at = AfterWrite(job[w].op) /\ job'[w].op = job[w].op
      /\ job'[w].qty = job[w].qty
  BY GoToShape
<1>2. /\ HeldBy(job'[w]) = HeldBy(job[w])
      /\ \A kind : Unrecorded(kind, job'[w]) = Unrecorded(kind, job[w])
      /\ job'[w].at # "releaseQuantity"
  BY <1>1 DEF AfterWrite, HeldBy, Unrecorded
<1> QED
  BY <1>1, <1>2, QuietStep

\* The request stops: what it held is dropped with it, the counter is not.
LEMMA HoldsFail ==
  ASSUME IInv, IInv', HoldsIInv, NEW w \in Workers, Fail(w)
  PROVE  HoldsKept
<1>1. /\ UNCHANGED <<row, resv, moves>> /\ faults' > 0 /\ row \in Row
  BY DEF IInv, TypeOK, Fail
<1>2. job' = [job EXCEPT ![w] = job'[w]] /\ job'[w] = IdleJob
  BY ReturnShape DEF Fail
<1>3. HeldBy(job'[w]) = 0
  BY <1>2, NothingOwed
<1>4. AuditTrailInFlight'
  BY <1>1 DEF AuditTrailInFlight
<1>5. Held \in [Workers \cup Reservations -> Nat] /\ Total(Held) \in Nat
  BY HeldType
<1>6. \/ Held' = Held
      \/ \E h \in Workers \cup Reservations : Held[h] > 0 /\ Held' = [Held EXCEPT ![h] = 0]
  <2>1. CASE job[w].at = "releaseQuantity"
    <3>1. job[w].rid \in Workers \cup Reservations /\ Held[job[w].rid] > 0
          /\ Held' = [Held EXCEPT ![job[w].rid] = 0]
      BY <1>1, <1>2, <1>3, <2>1, HeldReleased
    <3> QED
      BY <3>1
  <2>2. CASE job[w].at # "releaseQuantity"
    <3>1. Held' = [Held EXCEPT ![w] = 0]
      BY <1>1, <1>2, <1>3, <2>2, HeldJob
    <3>2. CASE Held[w] = 0
      BY <1>5, <3>1, <3>2
    <3>3. CASE Held[w] # 0
      <4>1. Held[w] > 0
        BY <1>5, <3>3
      <4> QED
        BY <3>1, <4>1
    <3> QED
      BY <3>2, <3>3
  <2> QED
    BY <2>1, <2>2
<1>7. CASE Held' = Held
  <2>1. HoldsCovered'
    BY <1>1, <1>7 DEF HoldsIInv, HoldsCovered
  <2> QED
    BY <1>4, <1>7, <2>1 DEF HoldsKept, Holds!Next, Holds!Adjust
<1>8. CASE \E h \in Workers \cup Reservations :
             Held[h] > 0 /\ Held' = [Held EXCEPT ![h] = 0]
  <2>1. PICK h \in Workers \cup Reservations :
               Held[h] > 0 /\ Held' = [Held EXCEPT ![h] = 0]
    BY <1>8
  <2>2. Total(Held') = Total(Held) + 0 - Held[h]
    BY <2>1, HeldUpdate
  <2>3. HoldsCovered'
    BY <1>1, <1>5, <2>1, <2>2 DEF HoldsIInv, HoldsCovered
  <2>4. Holds!Drop(h)
    BY <1>1, <2>1 DEF Holds!Drop
  <2> QED
    BY <1>4, <2>3, <2>4 DEF HoldsKept, Holds!Next
<1> QED
  BY <1>6, <1>7, <1>8

LEMMA HoldsStep ==
  ASSUME ~ReleasesMayOverlap, IInv, IInv', HoldsIInv, [Next]_vars
  PROVE  HoldsKept
<1>1. ASSUME NEW w \in Workers,
             \/ \E q \in Quantities : ReserveStock(w, q)
             \/ \E d \in Changes : UpdateStock(w, d)
             \/ \E r \in Reservations : ReleaseReservation(w, r)
             \/ GetStock(w)
      PROVE  HoldsKept
  BY <1>1, HoldsEntry
<1>2. ASSUME NEW w \in Workers, Step(w) PROVE HoldsKept
  <2>1. CASE CacheDelete(w)
    BY <2>1, HoldsDelete DEF CacheDelete
  <2> QED
    BY <1>2, <2>1, HoldsRead, HoldsUpdate, HoldsReserve, HoldsStatus, HoldsRelease,
       HoldsCommit, HoldsMovement DEF Step
<1>3. ASSUME NEW w \in Workers, RedisFail(w) PROVE HoldsKept
  <2>1. UNCHANGED <<row, resv, moves>> /\ (faults' = 0 => faults = 0)
    BY <1>3 DEF RedisFail, IInv, TypeOK
  <2>2. CASE job[w].at = "cacheGet" /\ GoTo(w, "dbGet")
    BY <2>1, <2>2, GoToShape, QuietJob
  <2>3. CASE job[w].at = "cacheSet" /\ Proceed(w, job[w].copy)
    BY <2>1, <2>3, ProceedShape, QuietJob
  <2>4. CASE job[w].at = "cacheDelete" /\ GoTo(w, AfterWrite(job[w].op))
    BY <2>1, <2>4, HoldsDelete
  <2> QED
    BY <1>3, <2>2, <2>3, <2>4 DEF RedisFail
<1>4. ASSUME UNCHANGED <<row, resv, moves, job, faults>> PROVE HoldsKept
  <2>1. Held' = Held
    BY <1>4 DEF Held, HeldFor, HeldBy
  <2>2. \A kind : Outstanding(kind)' = Outstanding(kind)
    BY <1>4 DEF Outstanding, Unrecorded
  <2>3. HoldsCovered' /\ AuditTrailInFlight'
    BY <1>4, <2>1, <2>2 DEF HoldsIInv, HoldsCovered, AuditTrailInFlight
  <2> QED
    BY <2>1, <2>3 DEF HoldsKept, Holds!Next, Holds!Adjust
<1> QED
  BY <1>1, <1>2, <1>3, <1>4, HoldsFail DEF Next, CacheExpire, vars

LEMMA HoldsInit == Init => HoldsIInv /\ Holds!Init
<1> SUFFICES ASSUME Init PROVE HoldsIInv /\ Holds!Init
  OBVIOUS
<1> USE ConstantsAssumption DEF Init
<1>1. ReleasesIInv
  BY DEF ReleasesIInv, ReleaseConsistent
<1>2. Held = [h \in Workers \cup Reservations |-> 0]
  BY DEF Held, HeldFor, HeldBy
<1>3. Total(Held) = 0
  BY <1>2, TotalZero
<1>4. \A kind : Outstanding(kind) = 0
  <2> TAKE kind
  <2> DEFINE f == [w \in Workers |-> Unrecorded(kind, job[w])]
  <2>1. f \in [Workers -> Nat] /\ \A w \in Workers : f[w] = 0
    BY NothingOwed
  <2> HIDE DEF f
  <2>2. Total(f) = 0
    BY <2>1, TotalZero
  <2> QED
    BY <2>2 DEF Outstanding, f
<1>5. HoldsCovered /\ AuditTrailInFlight
  BY <1>3, <1>4 DEF HoldsCovered, AuditTrailInFlight
<1> QED
  BY <1>1, <1>2, <1>5 DEF HoldsIInv, Holds!Init

LEMMA HoldsInvariance ==
  ASSUME ~ReleasesMayOverlap
  PROVE  Spec => []HoldsIInv
<1>1. IInv /\ IInv' /\ HoldsIInv /\ [Next]_vars => HoldsIInv'
  <2> SUFFICES ASSUME IInv, IInv', HoldsIInv, [Next]_vars PROVE HoldsIInv'
    OBVIOUS
  <2>1. ReleasesIInv'
    BY ReleasesStep DEF HoldsIInv
  <2>2. HoldsKept
    BY HoldsStep
  <2> QED
    BY <2>1, <2>2 DEF HoldsKept, HoldsIInv
<1>2. Init => HoldsIInv
  BY HoldsInit
<1> QED
  BY <1>1, <1>2, Invariance, PTL DEF Spec

\* The counter, the reservation rows and the requests are written by separate
\* transactions; still quantity_reserved covers everything that is held, through
\* every race, crash and failed statement, and without faults it is exact, as
\* long as no two requests release one reservation at a time.
THEOREM CounterCoversHolds ==
  ASSUME ~ReleasesMayOverlap
  PROVE  Spec => []HoldsCovered
<1>1. HoldsIInv => HoldsCovered
  BY DEF HoldsIInv
<1> QED
  BY <1>1, HoldsInvariance, PTL

\* Whenever no request is under way and nothing failed, the movements recorded add
\* up to the stock on hand and to the reservations, under either schema, and to the
\* counter where a reservation can be inserted, as long as no two requests release
\* one reservation at a time.
THEOREM MovementsAddUp ==
  ASSUME ~ReleasesMayOverlap
  PROVE  Spec => []AuditTrail
<1>1. IInv /\ HoldsIInv => AuditTrail
  <2> SUFFICES ASSUME IInv, HoldsIInv, Quiescent, faults = 0
               PROVE  /\ row.onHand = moves.onHand /\ Total(Held) = -moves.reserved
                      /\ ~OrderItemIdNotNull => row.reserved = -moves.reserved
    BY DEF AuditTrail
  <2>1. \A kind : Outstanding(kind) = 0
    <3> TAKE kind
    <3> DEFINE f == [w \in Workers |-> Unrecorded(kind, job[w])]
    <3>1. f \in [Workers -> Nat] /\ \A w \in Workers : f[w] = 0
      BY NothingOwed DEF Quiescent
    <3> HIDE DEF f
    <3>2. Total(f) = 0
      BY <3>1, TotalZero
    <3> QED
      BY <3>2 DEF Outstanding, f
  <2>2. row \in Row /\ moves \in [onHand : Int, reserved : Int]
    BY DEF IInv, TypeOK
  <2> QED
    BY <2>1, <2>2 DEF HoldsIInv, AuditTrailInFlight, HoldsCovered
<1> QED
  BY <1>1, HoldsInvariance, Invariance, PTL

\* The service implements the promise of StockHolds: however requests, caches
\* and crashes interleave, a hold is granted only out of stock that nobody else
\* holds, and ends once, as long as no two requests release one reservation at a
\* time.
THEOREM HoldsImplemented ==
  ASSUME ~ReleasesMayOverlap
  PROVE  Spec => ImplementsHolds
<1>1. IInv /\ IInv' /\ HoldsIInv /\ [Next]_vars => [Holds!Next]_<<row.onHand, Held>>
  BY HoldsStep DEF HoldsKept
<1>2. Init => Holds!Init
  BY HoldsInit
<1> QED
  BY <1>1, <1>2, HoldsInvariance, Invariance, PTL DEF Spec, ImplementsHolds, Holds!Spec

=============================================================================
