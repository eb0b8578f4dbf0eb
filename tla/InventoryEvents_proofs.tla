------------------------ MODULE InventoryEvents_proofs ------------------------
(***************************************************************************)
(* The handler of order events, for any number of members, messages,       *)
(* orders, items, retries, errors, crashes and rebalances: in which order  *)
(* the items of an order are reserved, and what its success says.          *)
(***************************************************************************)
EXTENDS InventoryEvents, Consumer_proofs, Totals_proofs

\* Every message of the partition is one that the handler can be given.
LEMMA LogTyped ==
  ASSUME NEW msg \in Msgs
  PROVE  Log[msg] \in Message
<1>1. Log \in Seq(Message) /\ Len(Log) = MsgCount
  BY EventsAssumption
<1> QED
  BY <1>1 DEF Msgs

\* The items of an order are numbered from one.
LEMMA ItemNumbers ==
  ASSUME NEW o \in OrderIds
  PROVE  /\ ItemsOf[o] \in Seq(Products) /\ Len(ItemsOf[o]) \in Nat
         /\ DOMAIN ItemsOf[o] = 1..Len(ItemsOf[o])
         /\ \A i \in DOMAIN ItemsOf[o] : i \in Nat \ {0} /\ ItemsOf[o][i] \in Products
<1>1. ItemsOf[o] \in Seq(Products)
  BY EventsAssumption
<1> QED
  BY <1>1

LEMMA BetweenFinite ==
  ASSUME NEW o, NEW i, NEW j
  PROVE  IsFiniteSet(Between(o, i, j)) /\ Cardinality(Between(o, i, j)) \in Nat
<1>1. Between(o, i, j) \in SUBSET Members
  BY DEF Between
<1> QED
  BY <1>1, EventsAssumption, FS_Subset, FS_CardinalityType

LEMMA EventInitIInv == EventInit => EventIInv
<1> SUFFICES ASSUME EventInit PROVE EventIInv
  OBVIOUS
<1>1. IInv /\ TypeOK
  BY InitIInv DEF EventInit, IInv
<1>2. /\ EventTypeOK /\ rows = [o \in OrderIds |-> rows[o]]
      /\ \A m \in Members : LoopConsistent(m)
  BY <1>1, EventsAssumption DEF EventInit, EventTypeOK, LoopConsistent
<1>3. LoopsCounted
  <2> SUFFICES ASSUME NEW o \in OrderIds, NEW i \in DOMAIN ItemsOf[o],
                      NEW j \in DOMAIN ItemsOf[o], i < j
               PROVE  rows[o][i] >= rows[o][j] + Cardinality(Between(o, i, j))
    BY DEF LoopsCounted
  <2>1. i \in Nat \ {0} /\ j \in Nat
    BY ItemNumbers
  <2>2. Between(o, i, j) = {}
    BY <2>1 DEF Between, EventInit
  <2> QED
    BY <2>2, FS_EmptySet DEF EventInit
<1>4. HandledAsDecoded
  BY DEF HandledAsDecoded, EventInit, Init
<1> QED
  BY <1>1, <1>2, <1>3, <1>4 DEF EventIInv

\* Whoever handles a message with a k-th item handles an order with one.
LEMMA LoopItems ==
  ASSUME EventIInv, NEW m \in Members, member[m].at = "handling",
         NEW k \in Nat \ {0}, k <= Len(Items(m))
  PROVE  /\ member[m].msg \in Msgs /\ Order(m) \in OrderIds
         /\ Items(m) = ItemsOf[Order(m)]
         /\ member[m].msg \in CreatedMsgs(Order(m)) /\ Log[member[m].msg].enveloped
         /\ \A i \in 1..k : i \in DOMAIN ItemsOf[Order(m)]
<1>1. member[m].msg \in Msgs
  BY Knows DEF EventIInv
<1>2. Log[member[m].msg] \in Message
  BY <1>1, LogTyped
<1>3. Order(m) \in OrderIds
  BY <1>2 DEF Order, Message
<1>4. Items(m) # <<>>
  <2>1. 1 <= Len(Items(m)) \/ Len(Items(m)) \notin Nat
    OBVIOUS
  <2> QED
    BY <2>1
<1>5. /\ Items(m) = ItemsOf[Order(m)]
      /\ member[m].msg \in CreatedMsgs(Order(m)) /\ Log[member[m].msg].enveloped
  BY <1>1, <1>2, <1>4 DEF Items, Decoded, Order, CreatedMsgs, Message
<1> QED
  BY <1>1, <1>3, <1>5, ItemNumbers

\* What holds of a member inside the loop of handleOrderCreated.
LEMMA InTheLoop ==
  ASSUME EventIInv, NEW m \in Members, InLoop(m)
  PROVE  /\ member[m].msg \in Msgs /\ Order(m) \in OrderIds
         /\ Items(m) = ItemsOf[Order(m)]
         /\ member[m].msg \in CreatedMsgs(Order(m)) /\ Log[member[m].msg].enveloped
         /\ done[m] \in Nat /\ Item(m) \in DOMAIN ItemsOf[Order(m)]
         /\ Product(m) \in Products
<1>1. done[m] \in Nat /\ Item(m) \in Nat \ {0}
  BY DEF EventIInv, EventTypeOK, Item
<1>2. /\ member[m].msg \in Msgs /\ Order(m) \in OrderIds
      /\ Items(m) = ItemsOf[Order(m)]
      /\ member[m].msg \in CreatedMsgs(Order(m)) /\ Log[member[m].msg].enveloped
      /\ Item(m) \in DOMAIN ItemsOf[Order(m)]
  BY <1>1, LoopItems DEF InLoop
<1> QED
  BY <1>1, <1>2, ItemNumbers DEF Product

\* Steps of the consumer and of the group keep what Consumer promises.
LEMMA EventStepConsumer ==
  ASSUME EventIInv, [EventNext]_eventVars
  PROVE  IInv'
<1>1. IInv
  BY DEF EventIInv
<1>2. ASSUME NEW m \in Members, ReserveFails(m) PROVE IInv'
  <2>1. AttemptEnds(m)
    BY <1>1, <1>2, Knows DEF ReserveFails, GiveUpAttempt, InLoop, Error, AttemptEnds
  <2> QED
    BY <1>1, <2>1, FinishIInv
<1>3. ASSUME NEW m \in Members, Handler(m) \/ Consume(m) \/ AssignTo(m) \/ CrashInHandler(m),
             ~ReserveFails(m)
      PROVE  [Next]_vars
  BY <1>3 DEF Handler, Consume, AssignTo, ReserveItem, HandlerReturns,
              HandleOrderCancelled, CrashInHandler, Next, Work
<1>4. CASE UNCHANGED eventVars
  BY <1>1, <1>4, StepIInv DEF eventVars
<1> QED
  BY <1>1, <1>2, <1>3, <1>4, StepIInv DEF EventNext, Next

\* No reservation is taken back.
RowsGrow ==
  \A o \in OrderIds : \A i \in DOMAIN ItemsOf[o] :
    rows[o][i] \in Nat /\ rows'[o][i] \in Nat /\ rows'[o][i] >= rows[o][i]

\* A member that stays in its loop where it is, or is in none.
Settled(n) == done'[n] = 0 \/ (done'[n] = done[n] /\ member'[n] = member[n])

LEMMA SettledMember ==
  ASSUME EventIInv, RowsGrow, NEW n \in Members, Settled(n)
  PROVE  LoopConsistent(n)'
<1>1. CASE done'[n] = 0
  BY <1>1 DEF LoopConsistent
<1>2. CASE done'[n] = done[n] /\ member'[n] = member[n] /\ done[n] > 0
  <2>1. /\ Items(n)' = Items(n) /\ Order(n)' = Order(n) /\ LoopConsistent(n)
        /\ done[n] \in Nat
    BY <1>2 DEF Items, Order, EventIInv, EventTypeOK
  <2>2. Order(n) \in OrderIds /\ \A i \in 1..done[n] : i \in DOMAIN ItemsOf[Order(n)]
    BY <1>2, <2>1, LoopItems DEF LoopConsistent
  <2>3. \A i \in 1..done[n] : rows'[Order(n)][i] > 0
    BY <1>2, <2>1, <2>2 DEF RowsGrow, LoopConsistent
  <2> QED
    BY <1>2, <2>1, <2>3 DEF LoopConsistent
<1>3. done[n] \in Nat
  BY DEF EventIInv, EventTypeOK
<1> QED
  BY <1>1, <1>2, <1>3 DEF Settled

\* Items that the handler decodes from a message are those of its order.
LEMMA DecodedItems ==
  ASSUME NEW msg \in Msgs, NEW i \in DOMAIN Decoded(msg)
  PROVE  /\ Log[msg].order \in OrderIds /\ i \in DOMAIN ItemsOf[Log[msg].order]
         /\ Decoded(msg) = ItemsOf[Log[msg].order]
<1>1. Log[msg] \in Message
  BY LogTyped
<1>2. Decoded(msg) # <<>>
  OBVIOUS
<1> QED
  BY <1>1, <1>2 DEF Decoded, Message

LEMMA StillReserved ==
  ASSUME EventIInv, RowsGrow, UNCHANGED handled,
         \A o \in OrderIds : \A i \in DOMAIN ItemsOf[o] :
           rows'[o][i] > 0 => rows[o][i] > 0 \/ \E msg \in CreatedMsgs(o) : Log[msg].enveloped
  PROVE  HandledAsDecoded'
<1>1. ASSUME NEW msg \in Msgs, handled[msg] > 0, NEW i \in DOMAIN Decoded(msg)
      PROVE  rows'[Log[msg].order][i] > 0
  <2>1. rows[Log[msg].order][i] > 0
    BY <1>1 DEF EventIInv, HandledAsDecoded
  <2> QED
    BY <2>1, DecodedItems DEF RowsGrow
<1>2. ASSUME NEW o \in OrderIds, NEW i \in DOMAIN ItemsOf[o], rows'[o][i] > 0
      PROVE  \E msg \in CreatedMsgs(o) : Log[msg].enveloped
  BY <1>2 DEF EventIInv, HandledAsDecoded
<1> QED
  BY <1>1, <1>2 DEF HandledAsDecoded, CreatedMsgs, Decoded

LEMMA SettledLoops ==
  ASSUME EventIInv, \A n \in Members : Settled(n), UNCHANGED rows
  PROVE  LoopsCounted' /\ RowsGrow
<1>1. ASSUME NEW o \in OrderIds, NEW i \in DOMAIN ItemsOf[o],
             NEW j \in DOMAIN ItemsOf[o], i < j
      PROVE  (rows[o][i] >= rows[o][j] + Cardinality(Between(o, i, j)))'
  <2>1. i \in Nat \ {0} /\ j \in Nat
    BY ItemNumbers
  <2>2. Between(o, i, j)' \in SUBSET Between(o, i, j)
    <3> SUFFICES ASSUME NEW n \in Members, done'[n] \in i..(j - 1), Order(n)' = o
                 PROVE  done[n] \in i..(j - 1) /\ Order(n) = o
      BY DEF Between
    <3>1. done'[n] # 0
      BY <2>1
    <3> QED
      BY <3>1 DEF Settled, Order
  <2>3. /\ Cardinality(Between(o, i, j)') \in Nat
        /\ Cardinality(Between(o, i, j)') <= Cardinality(Between(o, i, j))
    BY <2>2, BetweenFinite, FS_Subset, FS_CardinalityType
  <2>4. /\ rows[o][i] \in Nat /\ rows[o][j] \in Nat
        /\ rows[o][i] >= rows[o][j] + Cardinality(Between(o, i, j))
    BY <1>1 DEF EventIInv, EventTypeOK, LoopsCounted
  <2> QED
    BY <2>3, <2>4, BetweenFinite
<1>2. RowsGrow
  BY DEF RowsGrow, EventIInv, EventTypeOK
<1> QED
  BY <1>1, <1>2 DEF LoopsCounted

\* One more row for the item at the loop of m.
LEMMA RowWritten ==
  ASSUME EventIInv, NEW m \in Members, InLoop(m), WriteRow(m)
  PROVE  /\ rows' = [o \in OrderIds |-> rows'[o]]
         /\ \A o \in OrderIds : rows'[o] \in [DOMAIN ItemsOf[o] -> Nat]
         /\ \A o \in OrderIds : \A i \in DOMAIN ItemsOf[o] :
              /\ rows[o][i] \in Nat
              /\ rows'[o][i] = IF o = Order(m) /\ i = Item(m) THEN rows[o][i] + 1
                               ELSE rows[o][i]
<1> DEFINE p == Order(m)
           k == Item(m)
<1>1. p \in OrderIds /\ k \in DOMAIN ItemsOf[p]
  BY InTheLoop
<1>2. /\ rows = [o \in OrderIds |-> rows[o]]
      /\ \A o \in OrderIds : rows[o] \in [DOMAIN ItemsOf[o] -> Nat]
  BY DEF EventIInv, EventTypeOK
<1>3. rows' = [rows EXCEPT ![p][k] = @ + 1]
  BY DEF WriteRow
<1> HIDE DEF p, k
<1>4. rows'[p] = [rows[p] EXCEPT ![k] = @ + 1] /\ \A o \in OrderIds \ {p} : rows'[o] = rows[o]
  BY <1>1, <1>2, <1>3
<1>5. rows'[p] \in [DOMAIN ItemsOf[p] -> Nat] /\ rows'[p][k] = rows[p][k] + 1
      /\ \A i \in DOMAIN ItemsOf[p] \ {k} : rows'[p][i] = rows[p][i]
  BY <1>1, <1>2, <1>4
<1>6. rows' = [o \in OrderIds |-> rows'[o]]
  BY <1>2, <1>3
<1> QED
  BY <1>2, <1>4, <1>5, <1>6 DEF p, k

\* One member more, one member less.
LEMMA OneMember ==
  ASSUME NEW S, IsFiniteSet(S), NEW m
  PROVE  /\ Cardinality(S) \in Nat
         /\ Cardinality(S \cup {m}) \in Nat /\ Cardinality(S \cup {m}) <= Cardinality(S) + 1
         /\ Cardinality(S \ {m}) \in Nat /\ Cardinality(S \ {m}) <= Cardinality(S)
         /\ m \in S => Cardinality(S \ {m}) = Cardinality(S) - 1
<1>1. IsFiniteSet(S \cup {m}) /\ IsFiniteSet(S \ {m})
  BY FS_AddElement, FS_RemoveElement
<1>2. /\ Cardinality(S) \in Nat /\ Cardinality(S \cup {m}) \in Nat
      /\ Cardinality(S \ {m}) \in Nat
  BY <1>1, FS_CardinalityType
<1>3. /\ Cardinality(S \cup {m}) = IF m \in S THEN Cardinality(S) ELSE Cardinality(S) + 1
      /\ Cardinality(S \ {m}) = IF m \in S THEN Cardinality(S) - 1 ELSE Cardinality(S)
  BY FS_AddElement, FS_RemoveElement
<1> QED
  BY <1>2, <1>3

\* Reserving one more item keeps the loops counted: the item gains a row, and
\* the loop of m is behind it instead of before it.
LEMMA ReserveCounted ==
  ASSUME EventIInv, NEW m \in Members, ReserveItem(m)
  PROVE  LoopsCounted'
<1> SUFFICES ASSUME NEW o \in OrderIds, NEW i \in DOMAIN ItemsOf[o],
                    NEW j \in DOMAIN ItemsOf[o], i < j
             PROVE  rows'[o][i] >= rows'[o][j] + Cardinality(Between(o, i, j)')
  BY DEF LoopsCounted
<1> DEFINE B == Between(o, i, j)
           C == Between(o, i, j)'
           here == o = Order(m)
           k == Item(m)
<1>1. i \in Nat \ {0} /\ j \in Nat /\ i # j
  BY ItemNumbers
<1>2. /\ InLoop(m) /\ WriteRow(m) /\ UNCHANGED member
      /\ done \in [Members -> Nat] /\ done' = [done EXCEPT ![m] = @ + 1]
  BY DEF ReserveItem, vars, EventIInv, EventTypeOK
<1>3. /\ rows[o][i] \in Nat /\ rows[o][j] \in Nat
      /\ rows'[o][i] = IF here /\ i = k THEN rows[o][i] + 1 ELSE rows[o][i]
      /\ rows'[o][j] = IF here /\ j = k THEN rows[o][j] + 1 ELSE rows[o][j]
  BY <1>2, RowWritten
<1>4. rows[o][i] >= rows[o][j] + Cardinality(B)
  BY DEF EventIInv, LoopsCounted
<1>5. IsFiniteSet(B) /\ Cardinality(B) \in Nat
  BY BetweenFinite
<1>6. /\ k \in Nat /\ done[m] = k - 1 /\ done'[m] = k
      /\ \A n \in Members \ {m} : done'[n] = done[n]
      /\ \A n \in Members : Order(n)' = Order(n)
  BY <1>2 DEF Item, Order
<1>7. /\ m \in B <=> k - 1 \in i..(j - 1) /\ here
      /\ m \in C <=> k \in i..(j - 1) /\ here
  BY <1>6 DEF Between
<1>8. \A n \in Members \ {m} : n \in C <=> n \in B
  BY <1>6 DEF Between
<1>9. B \subseteq Members /\ C \subseteq Members
  BY DEF Between
<1> HIDE DEF B, C, here, k
<1>10. CASE here /\ i = k
  <2>1. C = B \cup {m}
    <3>1. m \in C
      BY <1>1, <1>6, <1>7, <1>10
    <3> QED
      BY <1>8, <1>9, <3>1
  <2>2. Cardinality(C) \in Nat /\ Cardinality(C) <= Cardinality(B) + 1
    BY <1>5, <2>1, OneMember
  <2> QED
    BY <1>1, <1>3, <1>4, <1>5, <1>10, <2>2 DEF C
<1>11. CASE here /\ j = k
  <2>1. m \in B /\ C = B \ {m}
    <3>1. m \in B /\ m \notin C
      BY <1>1, <1>6, <1>7, <1>11
    <3> QED
      BY <1>8, <1>9, <3>1
  <2>2. Cardinality(C) \in Nat /\ Cardinality(C) = Cardinality(B) - 1
    BY <1>5, <2>1, OneMember
  <2> QED
    BY <1>1, <1>3, <1>4, <1>5, <1>11, <2>2 DEF C
<1>12. CASE ~here \/ (i # k /\ j # k)
  <2>1. C = B
    <3>1. m \in C <=> m \in B
      BY <1>1, <1>6, <1>7, <1>12
    <3> QED
      BY <1>8, <1>9, <3>1
  <2> QED
    BY <1>3, <1>4, <1>12, <2>1 DEF C
<1> QED
  BY <1>10, <1>11, <1>12

\* So does reserving it without an answer: the loop of m ends.
LEMMA LostCounted ==
  ASSUME EventIInv, NEW m \in Members, InLoop(m), WriteRow(m), Leave(m),
         \A n \in Members \ {m} : member'[n] = member[n]
  PROVE  LoopsCounted'
<1> SUFFICES ASSUME NEW o \in OrderIds, NEW i \in DOMAIN ItemsOf[o],
                    NEW j \in DOMAIN ItemsOf[o], i < j
             PROVE  rows'[o][i] >= rows'[o][j] + Cardinality(Between(o, i, j)')
  BY DEF LoopsCounted
<1> DEFINE B == Between(o, i, j)
           k == Item(m)
<1>1. i \in Nat \ {0} /\ j \in Nat
  BY ItemNumbers
<1>2. done \in [Members -> Nat] /\ done' = [done EXCEPT ![m] = 0]
  BY DEF Leave, EventIInv, EventTypeOK
<1>3. /\ rows[o][i] \in Nat /\ rows[o][j] \in Nat
      /\ rows'[o][i] = IF o = Order(m) /\ i = k THEN rows[o][i] + 1 ELSE rows[o][i]
      /\ rows'[o][j] = IF o = Order(m) /\ j = k THEN rows[o][j] + 1 ELSE rows[o][j]
  BY RowWritten
<1>4. rows[o][i] >= rows[o][j] + Cardinality(B)
  BY DEF EventIInv, LoopsCounted
<1>5. IsFiniteSet(B) /\ Cardinality(B) \in Nat
  BY BetweenFinite
<1>6. Between(o, i, j)' = B \ {m}
  <2>1. done'[m] \notin i..(j - 1)
    BY <1>1, <1>2
  <2>2. \A n \in Members \ {m} : done'[n] = done[n] /\ Order(n)' = Order(n)
    BY <1>2 DEF Order
  <2> QED
    BY <2>1, <2>2 DEF Between
<1>7. /\ Cardinality(B \ {m}) \in Nat /\ Cardinality(B \ {m}) <= Cardinality(B)
      /\ m \in B => Cardinality(B \ {m}) = Cardinality(B) - 1
  BY <1>5, OneMember
<1>8. o = Order(m) /\ j = k => m \in B
  <2>1. done[m] \in Nat /\ k = done[m] + 1
    BY <1>2 DEF Item
  <2> QED
    BY <1>1, <2>1 DEF Between
<1> HIDE DEF B, k
<1> QED
  BY <1>3, <1>4, <1>5, <1>6, <1>7, <1>8

\* A step in which no reservation is written and nothing is handled.
LEMMA QuietStep ==
  ASSUME EventIInv, IInv', \A n \in Members : Settled(n), done' \in [Members -> Nat],
         available' \in [Products -> Nat], UNCHANGED <<rows, reported, handled>>
  PROVE  EventIInv'
<1>1. LoopsCounted' /\ \A n \in Members : LoopConsistent(n)'
  BY SettledLoops, SettledMember
<1>2. HandledAsDecoded'
  BY SettledLoops, StillReserved
<1>3. EventTypeOK' /\ rows' = [o \in OrderIds |-> rows'[o]]
  BY DEF EventIInv, EventTypeOK, IInv
<1> QED
  BY <1>1, <1>2, <1>3 DEF EventIInv

\* A step of m that writes a reservation.
LEMMA WritingStep ==
  ASSUME EventIInv, IInv', NEW m \in Members, InLoop(m), WriteRow(m), TakeUnit(m),
         InStock(available[Product(m)]), LoopsCounted',
         \A n \in Members \ {m} : Settled(n), LoopConsistent(m)',
         done' \in [Members -> Nat], UNCHANGED <<reported, handled>>
  PROVE  EventIInv'
<1>1. RowsGrow
  BY RowWritten DEF RowsGrow
<1>2. \A n \in Members : LoopConsistent(n)'
  BY <1>1, SettledMember
<1>3. HandledAsDecoded'
  <2>1. ASSUME NEW o \in OrderIds, NEW i \in DOMAIN ItemsOf[o], rows'[o][i] > 0
        PROVE  rows[o][i] > 0 \/ \E msg \in CreatedMsgs(o) : Log[msg].enveloped
    BY <2>1, RowWritten, InTheLoop
  <2> QED
    BY <1>1, <2>1, StillReserved
<1>4. available' \in [Products -> Nat]
  BY InTheLoop DEF TakeUnit, InStock, EventIInv, EventTypeOK
<1>5. EventTypeOK' /\ rows' = [o \in OrderIds |-> rows'[o]]
  BY <1>4, RowWritten DEF EventIInv, EventTypeOK, IInv
<1> QED
  BY <1>2, <1>3, <1>5 DEF EventIInv

LEMMA ReserveIInv ==
  ASSUME EventIInv, IInv', NEW m \in Members, ReserveItem(m)
  PROVE  EventIInv'
<1>1. /\ InLoop(m) /\ WriteRow(m) /\ TakeUnit(m) /\ InStock(available[Product(m)])
      /\ UNCHANGED <<member, reported, handled>>
      /\ done' = [done EXCEPT ![m] = @ + 1] /\ done \in [Members -> Nat]
  BY DEF ReserveItem, vars, EventIInv, EventTypeOK
<1>2. done' \in [Members -> Nat] /\ \A n \in Members \ {m} : Settled(n)
  BY <1>1 DEF Settled
<1>3. LoopConsistent(m)'
  <2>1. /\ Order(m)' = Order(m) /\ Items(m)' = Items(m)
        /\ done'[m] = done[m] + 1 /\ Item(m) = done[m] + 1 /\ done[m] \in Nat
        /\ member[m].at = "handling" /\ member[m].msg \notin Poison
        /\ Item(m) <= Len(Items(m))
    BY <1>1 DEF Order, Items, Item, InLoop
  <2>2. \A i \in 1..done[m] : rows[Order(m)][i] > 0
    BY <2>1 DEF EventIInv, LoopConsistent
  <2>3. Order(m) \in OrderIds /\ \A i \in 1..(done[m] + 1) : i \in DOMAIN ItemsOf[Order(m)]
    BY <2>1, LoopItems
  <2>4. \A i \in 1..(done[m] + 1) : rows'[Order(m)][i] > 0
    BY <1>1, <2>1, <2>2, <2>3, RowWritten
  <2> QED
    BY <1>1, <2>1, <2>4 DEF LoopConsistent
<1> QED
  BY <1>1, <1>2, <1>3, ReserveCounted, WritingStep

LEMMA FailIInv ==
  ASSUME EventIInv, IInv', NEW m \in Members, ReserveFails(m)
  PROVE  EventIInv'
<1>1. /\ InLoop(m) /\ Leave(m) /\ AttemptFailed(m) /\ UNCHANGED <<reported, handled>>
      /\ done \in [Members -> Nat] /\ available \in [Products -> Nat]
  BY DEF ReserveFails, GiveUpAttempt, Reported, TopicAccepted, EventIInv, EventTypeOK
<1>2. /\ done' \in [Members -> Nat] /\ done'[m] = 0
      /\ \A n \in Members \ {m} : done'[n] = done[n] /\ member'[n] = member[n]
  BY <1>1, Knows DEF Leave, AttemptFailed, GoTo, Become, EventIInv
<1>3. \A n \in Members : Settled(n)
  BY <1>2 DEF Settled
<1>4. CASE UNCHANGED rows /\ available' \in [Products -> Nat]
  BY <1>1, <1>2, <1>3, <1>4, QuietStep
<1>5. CASE WriteRow(m) /\ TakeUnit(m) /\ InStock(available[Product(m)])
  <2>1. LoopsCounted'
    BY <1>1, <1>2, <1>5, LostCounted
  <2>2. LoopConsistent(m)'
    BY <1>2 DEF LoopConsistent
  <2> QED
    BY <1>1, <1>2, <1>3, <1>5, <2>1, <2>2, WritingStep
<1>6. ASSUME TakeUnit(m), InStock(available[Product(m)])
      PROVE  available' \in [Products -> Nat]
  BY <1>1, <1>6, InTheLoop DEF TakeUnit, InStock
<1> QED
  BY <1>1, <1>4, <1>5, <1>6 DEF ReserveFails

LEMMA ReturnIInv ==
  ASSUME EventIInv, IInv', NEW m \in Members, HandlerReturns(m)
  PROVE  EventIInv'
<1> DEFINE msg == member[m].msg
<1>1. /\ member[m].at = "handling" /\ msg \notin Poison /\ msg \in Msgs
      /\ ~InLoop(m) /\ Leave(m) /\ UNCHANGED <<available, rows, reported>>
      /\ handled' = [handled EXCEPT ![msg] = @ + 1] /\ handled \in [Msgs -> Nat]
      /\ done \in [Members -> Nat]
  BY Knows DEF HandlerReturns, HandleMessage, EventIInv, EventTypeOK
<1>2. /\ done' \in [Members -> Nat] /\ done'[m] = 0
      /\ \A n \in Members \ {m} : done'[n] = done[n] /\ member'[n] = member[n]
  BY <1>1, Knows DEF Leave, HandlerReturns, HandleMessage, GoTo, Become, EventIInv
<1>3. \A n \in Members : Settled(n)
  BY <1>2 DEF Settled
<1>4. LoopsCounted' /\ \A n \in Members : LoopConsistent(n)'
  BY <1>1, <1>3, SettledLoops, SettledMember
<1>5. ASSUME NEW i \in DOMAIN Decoded(msg) PROVE rows[Order(m)][i] > 0
  <2>1. /\ Items(m) = ItemsOf[Order(m)] /\ Order(m) \in OrderIds
        /\ i \in DOMAIN ItemsOf[Order(m)]
    BY <1>1, <1>5, DecodedItems DEF Items, Order
  <2>2. Len(ItemsOf[Order(m)]) \in Nat /\ i \in 1..Len(ItemsOf[Order(m)])
    BY <2>1, ItemNumbers
  <2>3. done[m] \in Nat /\ done[m] + 1 > Len(ItemsOf[Order(m)])
    BY <1>1, <2>1, <2>2 DEF InLoop, Item
  <2>4. i \in 1..done[m] /\ done[m] > 0
    BY <2>2, <2>3
  <2> QED
    BY <2>4 DEF EventIInv, LoopConsistent
<1>6. HandledAsDecoded'
  <2>1. ASSUME NEW x \in Msgs, handled'[x] > 0, NEW i \in DOMAIN Decoded(x)
        PROVE  rows[Log[x].order][i] > 0
    <3>1. CASE x = msg
      BY <1>5, <2>1, <3>1 DEF Order
    <3>2. CASE x # msg
      <4>1. handled'[x] = handled[x]
        BY <1>1, <3>2
      <4> QED
        BY <2>1, <4>1 DEF EventIInv, HandledAsDecoded
    <3> QED
      BY <3>1, <3>2
  <2>2. \A o \in OrderIds : \A i \in DOMAIN ItemsOf[o] :
          rows[o][i] > 0 => \E x \in CreatedMsgs(o) : Log[x].enveloped
    BY DEF EventIInv, HandledAsDecoded
  <2> QED
    BY <1>1, <2>1, <2>2 DEF HandledAsDecoded, CreatedMsgs, Decoded
<1>7. EventTypeOK' /\ rows' = [o \in OrderIds |-> rows'[o]]
  BY <1>1, <1>2 DEF EventIInv, EventTypeOK, IInv
<1> QED
  BY <1>4, <1>6, <1>7 DEF EventIInv

LEMMA EventStepIInv == EventIInv /\ [EventNext]_eventVars => EventIInv'
<1> SUFFICES ASSUME EventIInv, [EventNext]_eventVars PROVE EventIInv'
  OBVIOUS
<1>1. IInv'
  BY EventStepConsumer
<1>2. /\ done \in [Members -> Nat] /\ available \in [Products -> Nat]
      /\ member \in [Members -> Member] /\ \A n \in Members : LoopConsistent(n)
  BY DEF EventIInv, EventTypeOK, TypeOK
<1>3. ASSUME NEW m \in Members, UNCHANGED handlerVars, UNCHANGED handled,
             member[m].at # "handling" \/ member[m].msg \in Poison,
             \E r : member' = [member EXCEPT ![m] = r]
      PROVE  EventIInv'
  <2>1. done[m] = 0
    BY <1>2, <1>3 DEF LoopConsistent
  <2>2. \A n \in Members : Settled(n)
    BY <1>2, <1>3, <2>1 DEF Settled, handlerVars
  <2> QED
    BY <1>1, <1>2, <1>3, <2>2, QuietStep DEF handlerVars
<1>4. ASSUME NEW m \in Members, HandleOrderCancelled(m) PROVE EventIInv'
  BY <1>3, <1>4 DEF HandleOrderCancelled, HandlerFails, AttemptFailed, GoTo, Become
<1>5. ASSUME NEW m \in Members, Consume(m) PROVE EventIInv'
  BY <1>3, <1>5 DEF Consume, FetchMessage, CommitFirst, CommitFirstFails, SendToDLQ,
                    CommitMessages, GoTo, Become
<1>6. ASSUME UNCHANGED handlerVars, UNCHANGED <<member, handled>> PROVE EventIInv'
  BY <1>1, <1>2, <1>6, QuietStep DEF Settled, handlerVars
<1>7. ASSUME NEW m \in Members, CrashInHandler(m) PROVE EventIInv'
  <2>1. /\ done' \in [Members -> Nat] /\ \A n \in Members : Settled(n)
        /\ UNCHANGED <<rows, reported, handled>>
    BY <1>2, <1>7 DEF CrashInHandler, Crash, Become, Leave, Settled
  <2>2. CASE UNCHANGED available
    BY <1>1, <1>2, <2>1, <2>2, QuietStep
  <2>3. CASE InLoop(m) /\ InStock(available[Product(m)]) /\ TakeUnit(m)
    <3>1. available' \in [Products -> Nat]
      BY <1>2, <2>3, InTheLoop DEF TakeUnit, InStock
    <3> QED
      BY <1>1, <2>1, <3>1, QuietStep
  <2> QED
    BY <1>7, <2>2, <2>3 DEF CrashInHandler
<1>8. CASE UNCHANGED eventVars
  BY <1>6, <1>8 DEF eventVars, vars
<1> QED
  BY <1>1, <1>4, <1>5, <1>6, <1>7, <1>8, ReserveIInv, FailIInv, ReturnIInv
  DEF EventNext, Handler, AssignTo, Assign, Rebalance

\* The invariant behind the theorems below.
THEOREM EventInvariance == EventSpec => []EventIInv
<1> QED
  BY EventInitIInv, EventStepIInv, PTL DEF EventSpec

\* The state keeps its type: no unit is reserved that is not there.
THEOREM EventTypeCorrect == EventSpec => []EventTypeOK
<1>1. EventIInv => EventTypeOK
  BY DEF EventIInv
<1> QED
  BY <1>1, EventInvariance, PTL

\* handleOrderCreated reserves from the first item on, and no retry, duplicate,
\* crash or second owner of the partition gets ahead of that order.
THEOREM AlwaysReservedInOrder == EventSpec => []ReservedInOrder
<1>1. ASSUME EventIInv, NEW o \in OrderIds, NEW i \in DOMAIN ItemsOf[o],
             NEW j \in DOMAIN ItemsOf[o], i < j
      PROVE  rows[o][i] >= rows[o][j]
  BY <1>1, BetweenFinite DEF EventIInv, EventTypeOK, LoopsCounted
<1>2. EventIInv => ReservedInOrder
  BY <1>1 DEF ReservedInOrder
<1> QED
  BY <1>2, EventInvariance, PTL

\* For payloads of either shape: a message that was handled without an error has
\* every item that the handler decoded reserved, and an order none of whose messages
\* has the envelope, as CreateOrder writes them, has no reservation at all.
THEOREM SuccessIsReserved == EventSpec => []HandledAsDecoded
<1>1. EventIInv => HandledAsDecoded
  BY DEF EventIInv
<1> QED
  BY <1>1, EventInvariance, PTL

\* The handler changes nothing about the consumer: without a rebalance no
\* message is handled twice, also when attempts fail for want of stock.
THEOREM HandlerAtMostOnce == EventSpec => []HandledAtMostOnce
<1>1. EventIInv => HandledAtMostOnce
  BY DEF EventIInv, IInv
<1> QED
  BY <1>1, EventInvariance, PTL

-----------------------------------------------------------------------------
(* Units and reservations.                                                 *)

LEMMA ItemsForFinite ==
  ASSUME NEW p
  PROVE  /\ IsFiniteSet(ItemsFor(p))
         /\ \A x \in ItemsFor(p) :
              /\ x = <<x[1], x[2]>> /\ x[1] \in OrderIds
              /\ x[2] \in DOMAIN ItemsOf[x[1]] /\ ItemsOf[x[1]][x[2]] = p
         /\ \A o \in OrderIds : \A i \in DOMAIN ItemsOf[o] :
              ItemsOf[o][i] = p => <<o, i>> \in ItemsFor(p)
<1> DEFINE I(o) == {i \in DOMAIN ItemsOf[o] : ItemsOf[o][i] = p}
           S == {{o} \X I(o) : o \in OrderIds}
<1>1. ASSUME NEW o \in OrderIds PROVE IsFiniteSet({o} \X I(o))
  <2>1. IsFiniteSet(1..Len(ItemsOf[o])) /\ I(o) \subseteq 1..Len(ItemsOf[o])
    <3>1. Len(ItemsOf[o]) \in Nat /\ DOMAIN ItemsOf[o] = 1..Len(ItemsOf[o])
      BY ItemNumbers
    <3>2. IsFiniteSet(1..Len(ItemsOf[o]))
      BY <3>1, FS_Interval
    <3> QED
      BY <3>1, <3>2
  <2>2. IsFiniteSet(I(o)) /\ IsFiniteSet({o})
    BY <2>1, FS_Subset, FS_Singleton
  <2> HIDE DEF I
  <2> QED
    BY <2>2, FS_Product
<1>2. IsFiniteSet(S)
  <2> DEFINE f == [o \in OrderIds |-> {o} \X I(o)]
  <2>1. S = {f[o] : o \in OrderIds}
    OBVIOUS
  <2>2. f \in Surjection(OrderIds, S)
    BY DEF Surjection
  <2> HIDE DEF S, f
  <2> QED
    BY <2>2, EventsAssumption, FS_Surjection
<1>3. \A T \in S : IsFiniteSet(T)
  BY <1>1
<1>4. IsFiniteSet(UNION S)
  <2> HIDE DEF S
  <2> QED
    BY <1>2, <1>3, FS_UNION
<1>5. ItemsFor(p) = UNION S
  BY DEF ItemsFor
<1> QED
  BY <1>4, <1>5

LEMMA RowsOfType ==
  ASSUME EventIInv, NEW p
  PROVE  /\ [x \in ItemsFor(p) |-> rows[x[1]][x[2]]] \in [ItemsFor(p) -> Nat]
         /\ RowsOf(p) \in Nat
<1> DEFINE f == [x \in ItemsFor(p) |-> rows[x[1]][x[2]]]
<1>1. \A o \in OrderIds : \A i \in DOMAIN ItemsOf[o] : rows[o][i] \in Nat
  BY DEF EventIInv, EventTypeOK
<1>2. f \in [ItemsFor(p) -> Nat]
  BY <1>1, ItemsForFinite
<1>3. RowsOf(p) = Total(f)
  BY DEF RowsOf
<1> HIDE DEF f
<1>4. RowsOf(p) \in Nat
  BY <1>2, <1>3, ItemsForFinite, TotalType
<1> QED
  BY <1>2, <1>4 DEF f

\* A reservation counts for the product of its item.
LEMMA RowsOfWritten ==
  ASSUME EventIInv, NEW m \in Members, InLoop(m), WriteRow(m), NEW p \in Products
  PROVE  RowsOf(p)' = IF p = Product(m) THEN RowsOf(p) + 1 ELSE RowsOf(p)
<1> DEFINE f == [x \in ItemsFor(p) |-> rows[x[1]][x[2]]]
           g == [x \in ItemsFor(p) |-> rows'[x[1]][x[2]]]
           y == <<Order(m), Item(m)>>
<1>1. f \in [ItemsFor(p) -> Nat] /\ RowsOf(p) = Total(f) /\ RowsOf(p) \in Nat
  BY RowsOfType DEF RowsOf
<1>2. /\ \A x \in ItemsFor(p) : x = <<x[1], x[2]>> /\ x[1] \in OrderIds
                                /\ x[2] \in DOMAIN ItemsOf[x[1]]
      /\ IsFiniteSet(ItemsFor(p))
  BY ItemsForFinite
<1>3. \A x \in ItemsFor(p) :
        g[x] \in Nat /\ g[x] = IF x = y THEN f[x] + 1 ELSE f[x]
  <2> SUFFICES ASSUME NEW x \in ItemsFor(p)
               PROVE  g[x] \in Nat /\ g[x] = IF x = y THEN f[x] + 1 ELSE f[x]
    OBVIOUS
  <2>1. x = y <=> x[1] = Order(m) /\ x[2] = Item(m)
    BY <1>2
  <2> QED
    BY <1>2, <2>1, RowWritten
<1>4. g \in [ItemsFor(p) -> Nat]
  BY <1>3
<1>5. RowsOf(p)' = Total(g)
  BY EventsAssumption DEF RowsOf, ItemsFor
<1>6. y \in ItemsFor(p) <=> p = Product(m)
  <2>1. /\ Order(m) \in OrderIds /\ Item(m) \in DOMAIN ItemsOf[Order(m)]
        /\ Product(m) = ItemsOf[Order(m)][Item(m)]
    BY InTheLoop DEF Product
  <2> QED
    BY <2>1, ItemsForFinite
<1>7. CASE p = Product(m)
  <2>1. y \in ItemsFor(p) /\ g[y] = f[y] + 1 /\ f[y] \in Nat
        /\ \A x \in ItemsFor(p) \ {y} : g[x] = f[x]
    BY <1>1, <1>3, <1>6, <1>7
  <2> HIDE DEF f, g, y
  <2>2. Total(g) = Total(f) + g[y] - f[y]
    BY <1>1, <1>2, <1>4, <2>1, TotalUpdate
  <2> QED
    BY <1>1, <1>5, <1>7, <2>1, <2>2
<1>8. CASE p # Product(m)
  <2>1. \A x \in ItemsFor(p) : g[x] = f[x]
    BY <1>3, <1>6, <1>8
  <2>2. g = f
    BY <2>1
  <2> HIDE DEF f, g
  <2> QED
    BY <1>1, <1>5, <1>8, <2>2
<1> QED
  BY <1>7, <1>8

\* A unit of the product of m's item is taken, with a reservation or, at the
\* price of an error or a crash, without one.
LEMMA UnitTaken ==
  ASSUME EventIInv, UnitsAccounted, NEW m \in Members, InLoop(m), TakeUnit(m),
         InStock(available[Product(m)]), errors' \in Nat, crashes' \in Nat,
         \/ WriteRow(m) /\ errors' + crashes' >= errors + crashes
         \/ UNCHANGED rows /\ errors' + crashes' = errors + crashes + 1
  PROVE  UnitsAccounted'
<1> SUFFICES ASSUME NEW p \in Products
             PROVE  /\ RowsOf(p)' + available'[p] <= Stock[p]
                    /\ Stock[p] <= RowsOf(p)' + available'[p] + errors' + crashes'
  BY DEF UnitsAccounted
<1>1. /\ RowsOf(p) \in Nat /\ available[p] \in Nat /\ Stock[p] \in Nat
      /\ errors \in Nat /\ crashes \in Nat
      /\ RowsOf(p) + available[p] <= Stock[p]
      /\ Stock[p] <= RowsOf(p) + available[p] + errors + crashes
  BY RowsOfType, EventsAssumption DEF UnitsAccounted, EventIInv, EventTypeOK, TypeOK
<1>2. available'[p] = IF p = Product(m) THEN available[p] - 1 ELSE available[p]
  BY DEF TakeUnit, EventIInv, EventTypeOK
<1>3. \/ /\ RowsOf(p)' = IF p = Product(m) THEN RowsOf(p) + 1 ELSE RowsOf(p)
         /\ errors' + crashes' >= errors + crashes
      \/ RowsOf(p)' = RowsOf(p) /\ errors' + crashes' = errors + crashes + 1
  <2>1. CASE WriteRow(m) /\ errors' + crashes' >= errors + crashes
    BY <2>1, RowsOfWritten
  <2>2. CASE UNCHANGED rows /\ errors' + crashes' = errors + crashes + 1
    BY <2>2 DEF RowsOf, ItemsFor
  <2> QED
    BY <2>1, <2>2
<1>4. p = Product(m) => available[p] > 0
  BY DEF InStock
<1>5. CASE p = Product(m)
  <2>1. available'[p] = available[p] - 1 /\ available[p] > 0
    BY <1>2, <1>4, <1>5
  <2>2. CASE RowsOf(p)' = RowsOf(p) + 1 /\ errors' + crashes' >= errors + crashes
    <3>1. RowsOf(p)' + available'[p] = RowsOf(p) + available[p]
      BY <1>1, <2>1, <2>2
    <3>2. Stock[p] <= RowsOf(p) + available[p] + errors' + crashes'
      BY <1>1, <2>2
    <3> QED
      BY <1>1, <2>1, <2>2, <3>1, <3>2
  <2>3. CASE RowsOf(p)' = RowsOf(p) /\ errors' + crashes' = errors + crashes + 1
    <3>1. RowsOf(p)' + available'[p] = RowsOf(p) + available[p] - 1
      BY <1>1, <2>1, <2>3
    <3>2. RowsOf(p) + available[p] - 1 <= Stock[p]
      BY <1>1
    <3>3. Stock[p] <= RowsOf(p) + available[p] - 1 + (errors + crashes + 1)
      BY <1>1
    <3>4. Stock[p] <= RowsOf(p) + available[p] - 1 + errors' + crashes'
      BY <1>1, <2>3, <3>3
    <3> QED
      BY <3>1, <3>2, <3>4
  <2> QED
    BY <1>3, <1>5, <2>2, <2>3
<1>6. CASE p # Product(m)
  <2>1. RowsOf(p)' = RowsOf(p) /\ available'[p] = available[p]
    BY <1>2, <1>3, <1>6
  <2>2. errors' + crashes' >= errors + crashes
    BY <1>1, <1>3
  <2>3. Stock[p] <= RowsOf(p) + available[p] + errors' + crashes'
    BY <1>1, <2>2
  <2> QED
    BY <1>1, <2>1, <2>3
<1> QED
  BY <1>5, <1>6

LEMMA UnitsStep ==
  ASSUME EventIInv, UnitsAccounted, [EventNext]_eventVars
  PROVE  UnitsAccounted'
<1>1. errors \in Nat /\ crashes \in Nat /\ available \in [Products -> Nat]
  BY DEF EventIInv, EventTypeOK, TypeOK
<1>2. ASSUME UNCHANGED <<available, rows>>, errors' \in {errors, errors + 1},
             crashes' \in {crashes, crashes + 1}
      PROVE  UnitsAccounted'
  <2> SUFFICES ASSUME NEW p \in Products
               PROVE  /\ RowsOf(p)' + available'[p] <= Stock[p]
                      /\ Stock[p] <= RowsOf(p)' + available'[p] + errors' + crashes'
    BY DEF UnitsAccounted
  <2>1. /\ RowsOf(p) \in Nat /\ available[p] \in Nat /\ Stock[p] \in Nat
        /\ RowsOf(p) + available[p] <= Stock[p]
        /\ Stock[p] <= RowsOf(p) + available[p] + errors + crashes
    BY <1>1, RowsOfType, EventsAssumption DEF UnitsAccounted
  <2>2. RowsOf(p)' = RowsOf(p)
    BY <1>2 DEF RowsOf, ItemsFor
  <2> QED
    BY <1>1, <1>2, <2>1, <2>2
<1>3. ASSUME NEW m \in Members, ReserveItem(m) PROVE UnitsAccounted'
  BY <1>1, <1>3, UnitTaken DEF ReserveItem, vars
<1>4. ASSUME NEW m \in Members, ReserveFails(m) PROVE UnitsAccounted'
  <2>1. CASE UNCHANGED <<available, rows>>
    BY <1>2, <1>4, <2>1 DEF ReserveFails, Error
  <2>2. CASE /\ Error /\ InStock(available[Product(m)]) /\ TakeUnit(m)
             /\ UNCHANGED rows \/ WriteRow(m)
    <3>1. /\ errors' \in Nat /\ crashes' \in Nat /\ InLoop(m)
          /\ errors' + crashes' = errors + crashes + 1
          /\ errors' + crashes' >= errors + crashes
      BY <1>1, <1>4, <2>2 DEF ReserveFails, Error
    <3> QED
      BY <2>2, <3>1, UnitTaken
  <2> QED
    BY <1>4, <2>1, <2>2 DEF ReserveFails
<1>5. ASSUME NEW m \in Members, HandlerReturns(m) \/ HandleOrderCancelled(m) \/ Consume(m)
      PROVE  UnitsAccounted'
  BY <1>2, <1>5 DEF HandlerReturns, HandleMessage, HandleOrderCancelled, HandlerFails,
    Consume, FetchMessage, CommitFirst, CommitFirstFails, SendToDLQ, CommitMessages,
    Error, handlerVars
<1>6. ASSUME NEW m \in Members, AssignTo(m) PROVE UnitsAccounted'
  BY <1>2, <1>6 DEF AssignTo, Assign, handlerVars
<1>9. ASSUME NEW m \in Members, CrashInHandler(m) PROVE UnitsAccounted'
  <2>1. crashes' = crashes + 1 /\ errors' = errors /\ UNCHANGED rows
    BY <1>9 DEF CrashInHandler, Crash
  <2>2. CASE UNCHANGED available
    BY <1>2, <2>1, <2>2
  <2>3. CASE InLoop(m) /\ InStock(available[Product(m)]) /\ TakeUnit(m)
    <3>1. /\ errors' \in Nat /\ crashes' \in Nat
          /\ errors' + crashes' = errors + crashes + 1
      BY <1>1, <2>1
    <3> QED
      BY <2>1, <2>3, <3>1, UnitTaken
  <2> QED
    BY <1>9, <2>2, <2>3 DEF CrashInHandler
<1>7. CASE Rebalance /\ UNCHANGED handlerVars
  BY <1>2, <1>7 DEF Rebalance, handlerVars
<1>8. CASE UNCHANGED eventVars
  BY <1>2, <1>8 DEF eventVars, handlerVars, vars
<1> QED
  BY <1>3, <1>4, <1>5, <1>6, <1>7, <1>8, <1>9 DEF EventNext, Handler

\* Every unit that handleOrderCreated took is reserved for an item of an order,
\* but for one per error and one per crash at most, because the counter is written
\* outside the transaction of the row; no retry and no second delivery makes a unit
\* disappear on its own.
THEOREM UnitsMatchRows == EventSpec => []UnitsAccounted
<1>1. EventInit => UnitsAccounted
  <2> SUFFICES ASSUME EventInit, NEW p \in Products
               PROVE  /\ RowsOf(p) + available[p] <= Stock[p]
                      /\ Stock[p] <= RowsOf(p) + available[p] + errors + crashes
    BY DEF UnitsAccounted
  <2> DEFINE f == [x \in ItemsFor(p) |-> rows[x[1]][x[2]]]
  <2>1. \A o \in OrderIds : \A i \in DOMAIN ItemsOf[o] : rows[o][i] = 0
    BY DEF EventInit
  <2>2. f \in [ItemsFor(p) -> Nat] /\ \A x \in ItemsFor(p) : f[x] = 0
    BY <2>1, ItemsForFinite
  <2>3. RowsOf(p) = Total(f)
    BY DEF RowsOf
  <2> HIDE DEF f
  <2>4. RowsOf(p) = 0
    BY <2>2, <2>3, TotalZero
  <2>5. available[p] = Stock[p] /\ Stock[p] \in Nat /\ errors = 0 /\ crashes = 0
    BY EventsAssumption DEF EventInit, Init
  <2> QED
    BY <2>4, <2>5
<1>2. EventIInv /\ UnitsAccounted /\ [EventNext]_eventVars => UnitsAccounted'
  BY UnitsStep
<1> QED
  BY <1>1, <1>2, EventInvariance, PTL DEF EventSpec

-----------------------------------------------------------------------------
(* How often an item can be reserved.                                      *)

LEMMA PastFinite ==
  ASSUME NEW o \in OrderIds
  PROVE  /\ IsFiniteSet(Past(o)) /\ Cardinality(Past(o)) \in Nat
         /\ IsFiniteSet(CreatedMsgs(o)) /\ Cardinality(CreatedMsgs(o)) \in Nat
         /\ Past(o) \subseteq CreatedMsgs(o)
<1>1. IsFiniteSet(Msgs)
  BY ConstantsAssumption, FS_Interval DEF Msgs
<1>2. Past(o) \subseteq CreatedMsgs(o) /\ CreatedMsgs(o) \subseteq Msgs
  BY DEF Past, CreatedMsgs
<1>3. IsFiniteSet(CreatedMsgs(o)) /\ IsFiniteSet(Past(o))
  <2>1. IsFiniteSet(CreatedMsgs(o))
    BY <1>1, <1>2, FS_Subset
  <2> QED
    BY <1>2, <2>1, FS_Subset
<1> QED
  BY <1>2, <1>3, FS_CardinalityType

LEMMA CountTypes ==
  ASSUME EventIInv, NEW o \in OrderIds, NEW i
  PROVE  Attempt(o) \in 0..MaxRetries /\ Now(o, i) \in {0, 1}
<1>1. Attempt(o) \in 0..MaxRetries
  BY ConstantsAssumption DEF Attempt, Underway, EventIInv, IInv, TypeOK, Member
<1> QED
  BY <1>1 DEF Now

LEMMA NextCountTypes ==
  ASSUME EventIInv', NEW o \in OrderIds, NEW i
  PROVE  Attempt(o)' \in 0..MaxRetries /\ Now(o, i)' \in {0, 1}
<1>1. Attempt(o)' \in 0..MaxRetries
  BY ConstantsAssumption DEF Attempt, Underway, EventIInv, IInv, TypeOK, Member
<1> QED
  BY <1>1 DEF Now

LEMMA TimesMonotone ==
  ASSUME NEW a \in Nat, NEW b \in Nat, NEW c \in Nat, a <= b
  PROVE  a * c \in Nat /\ b * c \in Nat /\ a * c <= b * c
<1>1. \A d \in Nat : d * c \in Nat /\ (a + d) * c = a * c + d * c
  OBVIOUS
<1>2. b - a \in Nat /\ a + (b - a) = b
  OBVIOUS
<1>3. a * c \in Nat /\ (b - a) * c \in Nat /\ b * c = a * c + (b - a) * c
  BY <1>1, <1>2
<1> QED
  BY <1>3

\* Without a rebalance, a message of o that is being handled is the one the
\* offset of the group is at, and it is not a past one.
LEMMA UnderwayAtOffset ==
  ASSUME EventIInv, rebalances = 0, NEW o \in OrderIds, Underway(o)
  PROVE  /\ member[owner].msg = committed /\ committed \in CreatedMsgs(o)
         /\ committed \notin Past(o)
<1>1. member[owner].msg = committed
  BY DEF EventIInv, IInv, SingleReader, Underway
<1>2. committed \in Nat
  BY DEF EventIInv, IInv, TypeOK
<1> QED
  BY <1>1, <1>2 DEF Underway, Past

\* Whoever handles a message is the owner of the partition.
LEMMA OwnerHandles ==
  ASSUME EventIInv, rebalances = 0, NEW m \in Members, member[m].at # "reading"
  PROVE  owner = m
BY DEF EventIInv, IInv, SingleReader

\* More past messages, more attempts, more errors and no new reservation.
LEMMA CountedGrows ==
  ASSUME EventIInv, EventIInv', NEW o \in OrderIds, Counted(o),
         Past(o) \subseteq Past(o)', rows'[o] = rows[o], errors' >= errors,
         Attempt(o)' >= Attempt(o),
         \A i \in DOMAIN ItemsOf[o] : Now(o, i)' >= Now(o, i)
  PROVE  Counted(o)'
<1> SUFFICES ASSUME NEW i \in DOMAIN ItemsOf[o]
             PROVE  /\ rows'[o][i] <= Cardinality(Past(o)') * (MaxRetries + 1)
                                       + Attempt(o)' + Now(o, i)'
                    /\ i = Len(ItemsOf[o]) =>
                         rows'[o][i] <= Cardinality(Past(o)') + errors' + Now(o, i)'
  BY DEF Counted
<1> DEFINE n == Cardinality(Past(o))
           k == Cardinality(Past(o)')
<1>1. n \in Nat /\ k \in Nat /\ n <= k
  <2>1. IsFiniteSet(Past(o)') /\ k \in Nat
    <3>1. Past(o)' \subseteq CreatedMsgs(o)
      BY DEF Past, CreatedMsgs
    <3> QED
      BY <3>1, PastFinite, FS_Subset, FS_CardinalityType
  <2> QED
    BY <2>1, PastFinite, FS_Subset
<1>2. /\ Attempt(o) \in Nat /\ Now(o, i) \in Nat
      /\ Attempt(o)' \in Nat /\ Now(o, i)' \in Nat
  BY CountTypes, NextCountTypes
<1>3. rows[o][i] \in Nat /\ errors \in Nat /\ errors' \in Nat
  BY DEF EventIInv, EventTypeOK, TypeOK
<1>4. n * (MaxRetries + 1) <= k * (MaxRetries + 1)
      /\ n * (MaxRetries + 1) \in Nat /\ k * (MaxRetries + 1) \in Nat
  BY <1>1, ConstantsAssumption, TimesMonotone
<1>5. /\ rows[o][i] <= n * (MaxRetries + 1) + Attempt(o) + Now(o, i)
      /\ i = Len(ItemsOf[o]) => rows[o][i] <= n + errors + Now(o, i)
  BY DEF Counted
<1> HIDE DEF n, k
<1>6. rows[o][i] <= k * (MaxRetries + 1) + Attempt(o)' + Now(o, i)'
  BY <1>2, <1>3, <1>4, <1>5
<1>7. i = Len(ItemsOf[o]) => rows[o][i] <= k + errors' + Now(o, i)'
  BY <1>1, <1>2, <1>3, <1>5
<1> QED
  BY <1>6, <1>7 DEF k

\* An item of o gets a reservation only in an attempt that had none for it yet,
\* and that an error ends.
RowAtAnError(o) ==
  /\ errors' \in {errors, errors + 1}
  /\ \A i \in DOMAIN ItemsOf[o] :
       \/ rows'[o][i] = rows[o][i]
       \/ rows'[o][i] = rows[o][i] + 1 /\ Now(o, i) = 0 /\ errors' = errors + 1

\* The numbers that the lemmas below compare.
LEMMA Numbers ==
  ASSUME EventIInv, EventIInv', NEW o \in OrderIds, Counted(o),
         NEW i \in DOMAIN ItemsOf[o]
  PROVE  /\ rows[o][i] \in Nat /\ rows'[o][i] \in Nat /\ errors \in Nat /\ errors' \in Nat
         /\ Attempt(o) \in Nat /\ Attempt(o) <= MaxRetries /\ Now(o, i) \in {0, 1}
         /\ Attempt(o)' \in Nat /\ Now(o, i)' \in {0, 1}
         /\ Cardinality(Past(o)) \in Nat
         /\ Cardinality(Past(o)) * (MaxRetries + 1) \in Nat
         /\ rows[o][i] <= Cardinality(Past(o)) * (MaxRetries + 1) + Attempt(o) + Now(o, i)
         /\ i = Len(ItemsOf[o]) => rows[o][i] <= Cardinality(Past(o)) + errors + Now(o, i)
<1>1. rows[o][i] \in Nat /\ rows'[o][i] \in Nat /\ errors \in Nat /\ errors' \in Nat
  BY DEF EventIInv, EventTypeOK, TypeOK
<1>2. /\ Attempt(o) \in Nat /\ Attempt(o) <= MaxRetries /\ Now(o, i) \in {0, 1}
      /\ Attempt(o)' \in Nat /\ Now(o, i)' \in {0, 1}
  BY ConstantsAssumption, CountTypes, NextCountTypes
<1>3. Cardinality(Past(o)) \in Nat /\ MaxRetries + 1 \in Nat
  BY ConstantsAssumption, PastFinite
<1>4. Cardinality(Past(o)) * (MaxRetries + 1) \in Nat
  BY <1>3, TimesMonotone
<1> QED
  BY <1>1, <1>2, <1>3, <1>4 DEF Counted

\* The message of o is over: it counts as a past one, with all its attempts.
LEMMA CountedLeaves ==
  ASSUME EventIInv, EventIInv', rebalances = 0, NEW o \in OrderIds, Counted(o),
         Underway(o), ~Underway(o)', UNCHANGED committed, RowAtAnError(o)
  PROVE  Counted(o)'
<1> DEFINE n == Cardinality(Past(o))
           R == MaxRetries + 1
<1>1. Cardinality(Past(o)') = n + 1
  <2>1. Past(o)' = Past(o) \cup {committed} /\ committed \notin Past(o)
    BY UnderwayAtOffset DEF Past, CreatedMsgs
  <2> QED
    BY <2>1, PastFinite, FS_AddElement
<1>2. MaxRetries \in Nat /\ n \in Nat
  BY ConstantsAssumption, PastFinite
<1>3. (n + 1) * R = n * R + R
  BY <1>2
<1> SUFFICES ASSUME NEW i \in DOMAIN ItemsOf[o]
             PROVE  /\ rows'[o][i] <= (n + 1) * R + Attempt(o)' + Now(o, i)'
                    /\ i = Len(ItemsOf[o]) => rows'[o][i] <= (n + 1) + errors' + Now(o, i)'
  BY <1>1 DEF Counted
<1>4. /\ rows[o][i] \in Nat /\ rows'[o][i] \in Nat /\ errors \in Nat /\ errors' \in Nat
      /\ Attempt(o) \in Nat /\ Attempt(o) <= MaxRetries /\ Now(o, i) \in {0, 1}
      /\ Attempt(o)' \in Nat /\ Now(o, i)' \in {0, 1} /\ n * R \in Nat
      /\ rows[o][i] <= n * R + Attempt(o) + Now(o, i)
      /\ i = Len(ItemsOf[o]) => rows[o][i] <= n + errors + Now(o, i)
  BY Numbers
<1>5. \/ rows'[o][i] = rows[o][i] /\ errors' >= errors
      \/ rows'[o][i] = rows[o][i] + 1 /\ Now(o, i) = 0 /\ errors' = errors + 1
  BY <1>4 DEF RowAtAnError
<1>6. R = MaxRetries + 1
  OBVIOUS
<1> HIDE DEF n, R
<1>7. rows'[o][i] <= n * R + Attempt(o) + 1
  BY <1>4, <1>5
<1>8. rows'[o][i] <= n * R + R + Attempt(o)' + Now(o, i)'
  BY <1>2, <1>4, <1>6, <1>7
<1>9. i = Len(ItemsOf[o]) => rows'[o][i] <= (n + 1) + errors' + Now(o, i)'
  <2> SUFFICES ASSUME i = Len(ItemsOf[o])
               PROVE  rows'[o][i] <= (n + 1) + errors' + Now(o, i)'
    OBVIOUS
  <2>1. /\ n \in Nat /\ rows[o][i] \in Nat /\ errors \in Nat /\ errors' \in Nat
        /\ Now(o, i) \in {0, 1} /\ Now(o, i)' \in {0, 1}
        /\ rows[o][i] <= n + errors + Now(o, i)
    BY <1>2, <1>4
  <2>2. CASE rows'[o][i] = rows[o][i] /\ errors' >= errors
    BY <2>1, <2>2
  <2>3. CASE rows'[o][i] = rows[o][i] + 1 /\ Now(o, i) = 0 /\ errors' = errors + 1
    BY <2>1, <2>3
  <2> QED
    BY <1>5, <2>2, <2>3
<1> QED
  BY <1>3, <1>8, <1>9

\* The next attempt: the failed one counts, and it did not get past the last item.
LEMMA CountedRetries ==
  ASSUME EventIInv, EventIInv', NEW o \in OrderIds, Counted(o),
         Underway(o), Underway(o)', UNCHANGED committed, Attempt(o)' = Attempt(o) + 1,
         Now(o, Len(ItemsOf[o])) = 0, RowAtAnError(o)
  PROVE  Counted(o)'
<1> DEFINE n == Cardinality(Past(o))
           R == MaxRetries + 1
<1>1. Past(o)' = Past(o)
  BY DEF Past, CreatedMsgs
<1> SUFFICES ASSUME NEW i \in DOMAIN ItemsOf[o]
             PROVE  /\ rows'[o][i] <= n * R + Attempt(o)' + Now(o, i)'
                    /\ i = Len(ItemsOf[o]) => rows'[o][i] <= n + errors' + Now(o, i)'
  BY <1>1 DEF Counted
<1>2. /\ rows[o][i] \in Nat /\ rows'[o][i] \in Nat /\ errors \in Nat /\ errors' \in Nat
      /\ Attempt(o) \in Nat /\ Now(o, i) \in {0, 1} /\ n \in Nat
      /\ Now(o, i)' \in {0, 1} /\ n * R \in Nat
      /\ rows[o][i] <= n * R + Attempt(o) + Now(o, i)
      /\ i = Len(ItemsOf[o]) => rows[o][i] <= n + errors + Now(o, i)
  BY Numbers
<1>3. \/ rows'[o][i] = rows[o][i] /\ errors' >= errors
      \/ rows'[o][i] = rows[o][i] + 1 /\ Now(o, i) = 0 /\ errors' = errors + 1
  BY <1>2 DEF RowAtAnError
<1> HIDE DEF n, R
<1>4. rows'[o][i] <= n * R + (Attempt(o) + 1) + Now(o, i)'
  BY <1>2, <1>3
<1>5. i = Len(ItemsOf[o]) => rows'[o][i] <= n + errors' + Now(o, i)'
  BY <1>2, <1>3
<1> QED
  BY <1>4, <1>5

\* One more item of the attempt in progress.
LEMMA CountedReserves ==
  ASSUME EventIInv, EventIInv', NEW o \in OrderIds, Counted(o),
         Underway(o), Underway(o)', UNCHANGED <<committed, errors>>,
         Attempt(o)' = Attempt(o),
         \A i \in DOMAIN ItemsOf[o] :
           rows'[o][i] - rows[o][i] = Now(o, i)' - Now(o, i)
  PROVE  Counted(o)'
<1> DEFINE n == Cardinality(Past(o))
           R == MaxRetries + 1
<1>1. Past(o)' = Past(o)
  BY DEF Past, CreatedMsgs
<1> SUFFICES ASSUME NEW i \in DOMAIN ItemsOf[o]
             PROVE  /\ rows'[o][i] <= n * R + Attempt(o)' + Now(o, i)'
                    /\ i = Len(ItemsOf[o]) => rows'[o][i] <= n + errors' + Now(o, i)'
  BY <1>1 DEF Counted
<1>2. /\ rows[o][i] \in Nat /\ rows'[o][i] \in Nat /\ errors \in Nat
      /\ Attempt(o) \in Nat /\ Now(o, i) \in {0, 1} /\ n \in Nat
      /\ Now(o, i)' \in {0, 1} /\ n * R \in Nat
      /\ rows[o][i] <= n * R + Attempt(o) + Now(o, i)
      /\ i = Len(ItemsOf[o]) => rows[o][i] <= n + errors + Now(o, i)
  BY Numbers
<1>3. rows'[o][i] - rows[o][i] = Now(o, i)' - Now(o, i)
  OBVIOUS
<1> HIDE DEF n, R
<1>4. rows'[o][i] <= n * R + Attempt(o) + Now(o, i)'
  BY <1>2, <1>3
<1>5. i = Len(ItemsOf[o]) => rows'[o][i] <= n + errors + Now(o, i)'
  <2>1. \A r, s, e, k \in Nat : \A w, v \in {0, 1} :
          r <= k + e + w /\ s - r = v - w => s <= k + e + v
    OBVIOUS
  <2> QED
    BY <1>2, <1>3, <2>1
<1> QED
  BY <1>4, <1>5

\* An order without a message in progress: at most one of its messages starts.
LEMMA CountedElsewhere ==
  ASSUME EventIInv, EventIInv', NEW o \in OrderIds, Counted(o), ~Underway(o),
         committed' > committed \/ (committed' = committed /\ ~Underway(o)'),
         rows'[o] = rows[o], errors' \in {errors, errors + 1}
  PROVE  Counted(o)'
<1>1. committed \in Nat /\ committed' \in Nat /\ errors \in Nat /\ errors' \in Nat
  BY DEF EventIInv, IInv, TypeOK
<1>2. Past(o) \subseteq Past(o)'
  BY <1>1, ConstantsAssumption DEF Past, CreatedMsgs, Msgs
<1>3. Attempt(o) = 0 /\ \A i \in DOMAIN ItemsOf[o] : Now(o, i) = 0
  BY DEF Attempt, Now
<1>4. Attempt(o)' >= 0 /\ \A i \in DOMAIN ItemsOf[o] : Now(o, i)' >= 0
  <2>1. Attempt(o)' \in Nat
    BY ConstantsAssumption, NextCountTypes
  <2>2. \A i \in DOMAIN ItemsOf[o] : Now(o, i)' \in {0, 1}
    BY NextCountTypes
  <2> QED
    BY <2>1, <2>2
<1>5. errors' >= errors
  BY <1>1
<1> QED
  BY <1>2, <1>3, <1>4, <1>5, CountedGrows

\* A message that is handled by m is one of a single order, whose rows m writes.
LEMMA OneOrder ==
  ASSUME EventIInv, NEW m \in Members, InLoop(m)
  PROVE  /\ member[m].msg \in CreatedMsgs(Order(m))
         /\ \A o \in OrderIds : member[m].msg \in CreatedMsgs(o) => o = Order(m)
         /\ WriteRow(m) => \A o \in OrderIds \ {Order(m)} : rows'[o] = rows[o]
<1>1. member[m].msg \in Msgs /\ Order(m) \in OrderIds /\ Item(m) \in DOMAIN ItemsOf[Order(m)]
  BY InTheLoop
<1>2. Log[member[m].msg].type = "order.created"
  <2>1. Log[member[m].msg] \in Message
    BY <1>1, LogTyped
  <2>2. Log[member[m].msg].type # "order.cancelled"
    BY <1>1, EventsAssumption DEF InLoop
  <2> QED
    BY <2>1, <2>2 DEF Message, MessageTypes
<1>3. WriteRow(m) => \A o \in OrderIds \ {Order(m)} : rows'[o] = rows[o]
  BY <1>1 DEF WriteRow, EventIInv
<1> QED
  BY <1>1, <1>2, <1>3 DEF CreatedMsgs, Order

LEMMA IdleOrder ==
  ASSUME EventIInv, EventIInv', rebalances = 0, NEW o \in OrderIds, Counted(o),
         ~Underway(o), NEW m \in Members,
         Handler(m) \/ Consume(m) \/ AssignTo(m) \/ CrashInHandler(m)
  PROVE  Counted(o)'
<1>1. /\ errors \in Nat /\ committed \in Nat /\ member \in [Members -> Member]
      /\ NoMember \notin Members /\ owner \in Members \cup {NoMember}
      /\ \A n \in Members : n # owner => member[n].at = "reading"
      /\ CreatedMsgs(o)' = CreatedMsgs(o)
  BY ConstantsAssumption DEF EventIInv, IInv, TypeOK, SingleReader, CreatedMsgs
<1>2. CASE FetchMessage(m) /\ UNCHANGED handlerVars
  <2>1. ~Underway(o)' /\ UNCHANGED <<committed, rows, errors>>
    BY <1>1, <1>2 DEF Underway, FetchMessage, Become, handlerVars
  <2> QED
    BY <1>1, <2>1, CountedElsewhere
<1>3. CASE CommitFirst(m) /\ UNCHANGED handlerVars
  <2>1. /\ owner = m /\ member[m].msg > committed /\ committed' = member[m].msg
        /\ UNCHANGED <<rows, errors>>
    BY <1>1, <1>3 DEF CommitFirst, CommittedAs, handlerVars, EventIInv, IInv, SingleReader
  <2> QED
    BY <1>1, <2>1, CountedElsewhere
<1>4. CASE CommitFirstFails(m) /\ UNCHANGED handlerVars
  <2>1. /\ owner = m /\ member[m].msg > committed
        /\ committed' = committed \/ committed' > committed
        /\ UNCHANGED rows /\ errors' = errors + 1 /\ ~Underway(o)'
    BY <1>1, <1>4
    DEF CommitFirstFails, Error, Become, Reading, handlerVars, Underway, EventIInv, IInv,
        SingleReader
  <2> QED
    BY <1>1, <2>1, CountedElsewhere
<1>5. CASE (SendToDLQ(m) \/ CommitMessages(m)) /\ UNCHANGED handlerVars
  <2>1. /\ owner = m /\ member[m].msg = committed /\ UNCHANGED <<rows, committed>>
        /\ errors' \in {errors, errors + 1} /\ ~Underway(o)'
    BY <1>1, <1>5
    DEF SendToDLQ, CommitMessages, Error, GoTo, Become, Reading, handlerVars, Underway,
        EventIInv, IInv, SingleReader
  <2> QED
    BY <2>1, CountedElsewhere
<1>6. CASE AssignTo(m)
  <2>1. UNCHANGED <<rows, committed, errors>> /\ ~Underway(o)'
    BY <1>1, <1>6 DEF AssignTo, Assign, handlerVars, Underway
  <2> QED
    BY <1>1, <2>1, CountedElsewhere
<1>7. CASE CrashInHandler(m)
  <2>1. UNCHANGED <<rows, committed, errors>> /\ ~Underway(o)'
    BY <1>1, <1>7 DEF CrashInHandler, Crash, Become, Reading, Underway
  <2> QED
    BY <1>1, <2>1, CountedElsewhere
<1>8. CASE HandleOrderCancelled(m)
  <2>1. owner = m /\ member[m].msg \in Poison
    BY <1>1, <1>8 DEF HandleOrderCancelled, HandlerFails
  <2>2. member'[m].msg = member[m].msg /\ owner' = owner
    BY <1>1, <1>8 DEF HandleOrderCancelled, HandlerFails, AttemptFailed, GoTo, Become
  <2>3. member[m].msg \notin CreatedMsgs(o)
    BY <2>1, EventsAssumption DEF CreatedMsgs
  <2>4. UNCHANGED <<rows, committed, errors>> /\ ~Underway(o)'
    BY <1>1, <1>8, <2>1, <2>2, <2>3
    DEF HandleOrderCancelled, HandlerFails, handlerVars, Underway
  <2> QED
    BY <1>1, <2>4, CountedElsewhere
<1>9. CASE HandlerReturns(m)
  <2>1. owner = m
    BY <1>1, <1>9 DEF HandlerReturns, HandleMessage
  <2>2. UNCHANGED <<rows, committed, errors>> /\ ~Underway(o)'
    BY <1>1, <1>9, <2>1 DEF HandlerReturns, HandleMessage, GoTo, Become, Underway
  <2> QED
    BY <1>1, <2>2, CountedElsewhere
<1>10. CASE ReserveItem(m) \/ ReserveFails(m)
  <2>1. InLoop(m) /\ owner = m /\ UNCHANGED <<owner, committed>>
    BY <1>1, <1>10 DEF ReserveItem, ReserveFails, InLoop, vars
  <2>2. member[m].msg \notin CreatedMsgs(o) /\ o # Order(m)
    BY <2>1, OneOrder DEF Underway, InLoop
  <2>3. member'[m].msg = member[m].msg
    BY <1>1, <1>10 DEF ReserveItem, ReserveFails, vars, GiveUpAttempt, AttemptFailed,
                       GoTo, Become
  <2>4. rows'[o] = rows[o]
    BY <1>10, <2>1, <2>2, OneOrder DEF ReserveItem, ReserveFails
  <2>5. errors' \in {errors, errors + 1}
    BY <1>10 DEF ReserveItem, ReserveFails, vars, Error
  <2>6. ~Underway(o)'
    BY <1>1, <2>1, <2>2, <2>3 DEF Underway
  <2> QED
    BY <2>1, <2>4, <2>5, <2>6, CountedElsewhere
<1> QED
  BY <1>2, <1>3, <1>4, <1>5, <1>6, <1>7, <1>8, <1>9, <1>10 DEF Handler, Consume

\* The steps of the handler while it works on a message of o.
LEMMA BusyOrder ==
  ASSUME EventIInv, EventIInv', rebalances = 0, NEW o \in OrderIds, Counted(o),
         Underway(o), NEW m \in Members,
         Handler(m) \/ Consume(m) \/ AssignTo(m) \/ CrashInHandler(m)
  PROVE  Counted(o)'
<1>1. /\ errors \in Nat /\ committed \in Nat /\ member \in [Members -> Member]
      /\ NoMember \notin Members /\ owner \in Members /\ done \in [Members -> Nat]
      /\ \A n \in Members : n # owner => member[n].at = "reading"
      /\ CreatedMsgs(o)' = CreatedMsgs(o)
      /\ member[owner].at = "handling" /\ member[owner].msg \in CreatedMsgs(o)
  BY ConstantsAssumption
  DEF EventIInv, EventTypeOK, IInv, TypeOK, SingleReader, CreatedMsgs, Underway
<1>2. member[owner].msg \notin Poison
  BY <1>1, EventsAssumption DEF CreatedMsgs
<1>3. ASSUME ReserveItem(m) PROVE Counted(o)'
  <2>1. /\ InLoop(m) /\ owner = m /\ WriteRow(m) /\ o = Order(m)
        /\ UNCHANGED <<owner, committed, member, errors>>
        /\ done' = [done EXCEPT ![m] = @ + 1]
    BY <1>1, <1>3, OneOrder DEF ReserveItem, InLoop, vars
  <2>2. Underway(o)' /\ Attempt(o)' = Attempt(o)
    BY <1>1, <2>1 DEF Underway, Attempt
  <2>3. ASSUME NEW i \in DOMAIN ItemsOf[o]
        PROVE  rows'[o][i] - rows[o][i] = Now(o, i)' - Now(o, i)
    <3>1. /\ rows[o][i] \in Nat
          /\ rows'[o][i] = IF i = Item(m) THEN rows[o][i] + 1 ELSE rows[o][i]
      BY <2>1, RowWritten
    <3>2. i \in Nat /\ done[m] \in Nat /\ done'[m] = done[m] + 1 /\ Item(m) = done[m] + 1
      BY <1>1, <2>1, ItemNumbers DEF Item
    <3>3. /\ Now(o, i) = IF i <= done[m] THEN 1 ELSE 0
          /\ Now(o, i)' = IF i <= done[m] + 1 THEN 1 ELSE 0
      BY <2>1, <2>2, <3>2 DEF Now
    <3> QED
      BY <3>1, <3>2, <3>3
  <2> QED
    BY <2>1, <2>2, <2>3, CountedReserves
<1>4. ASSUME ReserveFails(m) PROVE Counted(o)'
  <2>1. /\ InLoop(m) /\ owner = m /\ o = Order(m) /\ AttemptFailed(m)
        /\ UNCHANGED <<owner, committed>>
    BY <1>1, <1>4, OneOrder DEF ReserveFails, InLoop, GiveUpAttempt
  <2>2. /\ done[m] \in Nat /\ Len(ItemsOf[o]) \in Nat
        /\ done[m] + 1 <= Len(ItemsOf[o]) /\ Item(m) = done[m] + 1
    BY <1>1, <2>1, InTheLoop, ItemNumbers DEF InLoop, Item
  <2>3. Now(o, Item(m)) = 0 /\ Now(o, Len(ItemsOf[o])) = 0
    BY <2>1, <2>2 DEF Now
  <2>4. RowAtAnError(o)
    <3>1. CASE UNCHANGED rows
      BY <1>4, <3>1 DEF RowAtAnError, ReserveFails, Error
    <3>2. CASE WriteRow(m) /\ Error
      <4>1. \A i \in DOMAIN ItemsOf[o] :
              rows'[o][i] = IF i = Item(m) THEN rows[o][i] + 1 ELSE rows[o][i]
        BY <2>1, <3>2, RowWritten
      <4> QED
        BY <2>3, <3>2, <4>1 DEF RowAtAnError, Error
    <3> QED
      BY <1>4, <3>1, <3>2 DEF ReserveFails
  <2>5. CASE member[m].attempt < MaxRetries
    <3>1. member'[m] = [at |-> "handling", msg |-> member[m].msg,
                        attempt |-> member[m].attempt + 1]
      BY <1>1, <2>1, <2>5 DEF AttemptFailed, NextAttempt, Become
    <3>2. Underway(o)' /\ Attempt(o)' = Attempt(o) + 1
      BY <1>1, <2>1, <3>1 DEF Underway, Attempt
    <3> QED
      BY <2>1, <2>3, <2>4, <3>2, CountedRetries
  <2>6. CASE ~(member[m].attempt < MaxRetries)
    <3>1. member'[m].at = "deadLetter"
      BY <1>1, <2>1, <2>6 DEF AttemptFailed, GoTo, Become
    <3>2. ~Underway(o)'
      BY <2>1, <3>1 DEF Underway
    <3> QED
      BY <2>1, <2>4, <3>2, CountedLeaves
  <2> QED
    BY <2>5, <2>6
<1>5. ASSUME HandlerReturns(m) PROVE Counted(o)'
  <2>1. owner = m /\ UNCHANGED <<owner, committed, rows, errors>>
    BY <1>1, <1>5 DEF HandlerReturns, HandleMessage
  <2>2. ~Underway(o)'
    BY <1>1, <1>5, <2>1 DEF HandlerReturns, HandleMessage, GoTo, Become, Underway
  <2> QED
    BY <2>1, <2>2, CountedLeaves DEF RowAtAnError
<1>6. ASSUME CrashInHandler(m) PROVE Counted(o)'
  <2>1. Crash(m) /\ Leave(m) /\ UNCHANGED <<rows, committed, errors>>
    BY <1>6 DEF CrashInHandler, Crash
  <2>2. CASE m = owner
    <3>1. ~Underway(o)'
      BY <1>1, <2>1, <2>2 DEF Crash, Underway
    <3> QED
      BY <2>1, <3>1, CountedLeaves DEF RowAtAnError
  <2>3. CASE m # owner
    <3>1. owner' = owner /\ member'[owner] = member[owner] /\ done'[owner] = done[owner]
      BY <1>1, <2>1, <2>3 DEF Crash, Become, Leave
    <3>2. Underway(o)' = Underway(o) /\ Attempt(o)' = Attempt(o)
          /\ \A i \in DOMAIN ItemsOf[o] : Now(o, i)' = Now(o, i)
      BY <1>1, <3>1 DEF Underway, Attempt, Now
    <3>3. Past(o)' = Past(o)
      BY <2>1, <3>2 DEF Past, CreatedMsgs
    <3> QED
      BY <2>1, <3>2, <3>3 DEF Counted
  <2> QED
    BY <2>2, <2>3
<1>7. ~HandleOrderCancelled(m)
  BY <1>1, <1>2 DEF HandleOrderCancelled, HandlerFails
<1>8. ~Consume(m) /\ ~AssignTo(m)
  BY <1>1 DEF Consume, FetchMessage, CommitFirst, CommitFirstFails, SendToDLQ,
              CommitMessages, AssignTo, Assign
<1> QED
  BY <1>3, <1>4, <1>5, <1>6, <1>7, <1>8 DEF Handler

LEMMA AttemptsStep ==
  ASSUME EventIInv, EventIInv', AttemptsIInv, [EventNext]_eventVars
  PROVE  AttemptsIInv'
<1>1. CASE Rebalance
  <2>1. rebalances' # 0
    BY <1>1 DEF Rebalance, EventIInv, IInv, TypeOK
  <2> QED
    BY <2>1 DEF AttemptsIInv
<1>2. CASE UNCHANGED eventVars
  BY <1>2 DEF eventVars, handlerVars, vars, AttemptsIInv, Counted, Past, Attempt, Now,
              Underway, CreatedMsgs
<1>3. ASSUME NEW m \in Members,
             Handler(m) \/ Consume(m) \/ AssignTo(m) \/ CrashInHandler(m)
      PROVE  AttemptsIInv'
  <2>1. UNCHANGED rebalances
    BY <1>3 DEF Handler, ReserveItem, ReserveFails, HandlerReturns, HandleMessage,
      HandleOrderCancelled, HandlerFails, Consume, FetchMessage, CommitFirst,
      CommitFirstFails, SendToDLQ, CommitMessages, AssignTo, Assign, CrashInHandler,
      Crash, vars
  <2> SUFFICES ASSUME rebalances = 0, NEW o \in OrderIds PROVE Counted(o)'
    BY <2>1 DEF AttemptsIInv
  <2>2. Counted(o)
    BY DEF AttemptsIInv
  <2> QED
    BY <1>3, <2>2, IdleOrder, BusyOrder
<1> QED
  BY <1>1, <1>2, <1>3 DEF EventNext

\* Without a rebalance a message of an order reserves each item once per attempt
\* at most, and the last one once: more than that takes an error that hides a
\* reservation.  For every number of members, messages, items and retries.
THEOREM FewDuplicates == EventSpec => []DuplicatesBounded
<1>1. EventInit => AttemptsIInv
  <2> SUFFICES ASSUME EventInit, NEW o \in OrderIds PROVE Counted(o)
    BY DEF AttemptsIInv
  <2>1. EventIInv
    BY EventInitIInv
  <2> SUFFICES ASSUME NEW i \in DOMAIN ItemsOf[o]
               PROVE  /\ rows[o][i] <= Cardinality(Past(o)) * (MaxRetries + 1)
                                        + Attempt(o) + Now(o, i)
                      /\ i = Len(ItemsOf[o]) =>
                           rows[o][i] <= Cardinality(Past(o)) + errors + Now(o, i)
    BY DEF Counted
  <2>2. rows[o][i] = 0 /\ errors = 0
    BY DEF EventInit, Init
  <2>3. Attempt(o) \in Nat /\ Now(o, i) \in {0, 1}
    BY <2>1, ConstantsAssumption, CountTypes
  <2>4. /\ Cardinality(Past(o)) \in Nat
        /\ Cardinality(Past(o)) * (MaxRetries + 1) \in Nat
    BY ConstantsAssumption, PastFinite, TimesMonotone
  <2> QED
    BY <2>2, <2>3, <2>4
<1>2. EventIInv /\ EventIInv' /\ AttemptsIInv /\ [EventNext]_eventVars => AttemptsIInv'
  BY AttemptsStep
<1>3. EventIInv /\ AttemptsIInv => DuplicatesBounded
  <2> SUFFICES ASSUME EventIInv, AttemptsIInv, rebalances = 0, NEW o \in OrderIds,
                      NEW i \in DOMAIN ItemsOf[o]
               PROVE  /\ rows[o][i] <= Cardinality(CreatedMsgs(o)) * (MaxRetries + 1)
                      /\ i = Len(ItemsOf[o]) =>
                           rows[o][i] <= Cardinality(CreatedMsgs(o)) + errors
    BY DEF DuplicatesBounded
  <2> DEFINE n == Cardinality(Past(o))
             c == Cardinality(CreatedMsgs(o))
             R == MaxRetries + 1
  <2>1. /\ n \in Nat /\ c \in Nat /\ n <= c /\ R \in Nat
        /\ rows[o][i] \in Nat /\ errors \in Nat /\ MaxRetries \in Nat
    BY ConstantsAssumption, PastFinite, FS_Subset DEF EventIInv, EventTypeOK, TypeOK
  <2>2. /\ rows[o][i] <= n * R + Attempt(o) + Now(o, i)
        /\ i = Len(ItemsOf[o]) => rows[o][i] <= n + errors + Now(o, i)
    BY DEF AttemptsIInv, Counted
  <2>3. Attempt(o) \in 0..MaxRetries /\ Now(o, i) \in {0, 1}
    BY CountTypes
  <2>4. CASE ~Underway(o)
    <3>1. Attempt(o) = 0 /\ Now(o, i) = 0
      BY <2>4 DEF Attempt, Now
    <3>2. n * R \in Nat /\ c * R \in Nat /\ n * R <= c * R
      BY <2>1, TimesMonotone
    <3> HIDE DEF n, c, R
    <3> QED
      BY <2>1, <2>2, <3>1, <3>2 DEF c, R
  <2>5. CASE Underway(o)
    <3>1. n + 1 <= c
      <4>1. /\ committed \in CreatedMsgs(o) /\ committed \notin Past(o)
            /\ Past(o) \subseteq CreatedMsgs(o)
        BY <2>5, PastFinite, UnderwayAtOffset
      <4>2. Past(o) \subseteq CreatedMsgs(o) /\ Past(o) # CreatedMsgs(o)
        BY <4>1
      <4>3. n < c
        BY <4>2, PastFinite, FS_Subset
      <4> QED
        BY <2>1, <4>3
    <3>2. (n + 1) * R \in Nat /\ c * R \in Nat /\ (n + 1) * R <= c * R /\ n * R \in Nat
      BY <2>1, <3>1, TimesMonotone
    <3>3. (n + 1) * R = n * R + R
      BY <2>1
    <3>4. R = MaxRetries + 1
      OBVIOUS
    <3> HIDE DEF n, c, R
    <3>5. rows[o][i] <= c * R
      BY <2>1, <2>2, <2>3, <3>2, <3>3, <3>4
    <3>6. i = Len(ItemsOf[o]) => rows[o][i] <= c + errors
      BY <2>1, <2>2, <2>3, <3>1
    <3> QED
      BY <3>5, <3>6 DEF c, R
  <2> QED
    BY <2>4, <2>5
<1> QED
  BY <1>1, <1>2, <1>3, EventInvariance, PTL DEF EventSpec

=============================================================================
