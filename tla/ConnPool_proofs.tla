-------------------------- MODULE ConnPool_proofs --------------------------
(***************************************************************************)
(* ConnPool for any number of goroutines and connections: what stops the   *)
(* pool is a set of transactions, one for every connection, that wait for  *)
(* a second connection, and nothing else.                                  *)
(***************************************************************************)
EXTENDS ConnPool, FiniteSetTheorems, TLAPS

\* Transactions are opened by ReserveStock and ReleaseReservation only, once,
\* and end with a commit; every use case has at least one call.
LEMMA CallsShape ==
  ASSUME NEW g \in Goroutines, NEW o \in OpsOf(g)
  PROVE  /\ o \in Ops /\ o # "none"
         /\ Len(Calls(o)) \in Nat \ {0}
         /\ g \in Holders => Calls(o)[Len(Calls(o))] = "commit"
         /\ \A i \in 1..Len(Calls(o)) :
              Calls(o)[i] = "begin" =>
                /\ g \in Holders
                /\ i < Len(Calls(o))
                /\ \A j \in (i + 1)..Len(Calls(o)) : Calls(o)[j] # "begin"
<1>1. CASE o = "ReserveStock"
  BY <1>1 DEF OpsOf, Ops, Calls, ReserveStock
<1>2. CASE o = "ReleaseReservation"
  BY <1>2 DEF OpsOf, Ops, Calls, ReleaseReservation
<1>3. CASE o = "UpdateStock"
  BY <1>3 DEF OpsOf, Ops, Calls, UpdateStock
<1>4. CASE o = "GetStock"
  BY <1>4 DEF OpsOf, Ops, Calls, GetStock
<1> QED
  BY <1>1, <1>2, <1>3, <1>4 DEF OpsOf

-----------------------------------------------------------------------------
\* Nothing is lent when the service starts.
LEMMA InitInv == Init => IInv
<1> SUFFICES ASSUME Init PROVE IInv
  OBVIOUS
<1>1. TypeOK
  BY DEF Init, TypeOK
<1>2. \A g \in Goroutines : ~Busy(g) /\ g \notin txs /\ g \notin stmts
  BY DEF Init, Busy
<1> QED
  BY <1>1, <1>2 DEF IInv

\* The part of IInv that speaks of one goroutine.
Consistent(g) ==
  /\ Busy(g) => op[g] \in OpsOf(g) /\ pc[g] \in 1..Len(Calls(op[g]))
  /\ ~Busy(g) => g \notin txs /\ g \notin stmts
  /\ g \in txs => /\ g \in Holders
                  /\ \A i \in pc[g]..Len(Calls(op[g])) :
                       Calls(op[g])[i] # "begin"
  /\ g \in stmts => At(g, "read") \/ At(g, "query")

\* A step of one goroutine does not touch what the others are at.
LEMMA OthersKeep ==
  ASSUME NEW g \in Goroutines, NEW h \in Goroutines, h # g,
         Consistent(h),
         op'[h] = op[h], pc'[h] = pc[h],
         h \in txs' <=> h \in txs,
         h \in stmts' <=> h \in stmts
  PROVE  Consistent(h)'
BY DEF Consistent, Busy, At

\* Returning from a use case gives back what the goroutine held.
LEMMA ReturnKeeps ==
  ASSUME IInv, NEW g \in Goroutines, Return(g),
         txs' = txs \ {g}, stmts' = stmts \ {g}
  PROVE  IInv'
<1>1. TypeOK'
  BY DEF IInv, TypeOK, Return
<1>2. Consistent(g)'
  BY DEF IInv, TypeOK, Return, Consistent, Busy
<1>3. ASSUME NEW h \in Goroutines, h # g PROVE Consistent(h)'
  <2>1. Consistent(h)
    BY <1>3 DEF IInv, Consistent
  <2>2. op'[h] = op[h] /\ pc'[h] = pc[h]
    BY <1>3 DEF IInv, TypeOK, Return
  <2>3. (h \in txs' <=> h \in txs) /\ (h \in stmts' <=> h \in stmts)
    BY <1>3
  <2> QED
    BY <1>3, <2>1, <2>2, <2>3, OthersKeep
<1> QED
  BY <1>1, <1>2, <1>3 DEF IInv, Consistent

\* Going to the next call: an ended use case has no transaction and no
\* statement, a later call does not begin a second transaction.
LEMMA AdvanceKeeps ==
  ASSUME IInv, NEW g \in Goroutines, Busy(g), Advance(g),
         g \in txs' => g \in Holders,
         g \in txs' =>
           /\ pc[g] < Len(Calls(op[g]))
           /\ \A i \in (pc[g] + 1)..Len(Calls(op[g])) : Calls(op[g])[i] # "begin",
         g \notin stmts',
         \A h \in Goroutines \ {g} :
           (h \in txs' <=> h \in txs) /\ (h \in stmts' <=> h \in stmts)
  PROVE  /\ op' \in [Goroutines -> Ops \cup {"none"}]
         /\ pc' \in [Goroutines -> Nat]
         /\ \A h \in Goroutines : Consistent(h)'
<1>0. op[g] \in OpsOf(g) /\ pc[g] \in 1..Len(Calls(op[g])) /\ Len(Calls(op[g])) \in Nat
  BY CallsShape DEF IInv
<1>1. op' \in [Goroutines -> Ops \cup {"none"}] /\ pc' \in [Goroutines -> Nat]
  BY <1>0 DEF IInv, TypeOK, Advance, NextCall
<1>2. Consistent(g)'
  <2>1. CASE pc[g] < Len(Calls(op[g]))
    <3>1. op'[g] = op[g] /\ pc'[g] = pc[g] + 1
      BY <2>1 DEF IInv, TypeOK, Advance, NextCall
    <3> QED
      BY <1>0, <2>1, <3>1 DEF Consistent, Busy
  <2>2. CASE ~(pc[g] < Len(Calls(op[g])))
    <3>1. op'[g] = "none" /\ pc'[g] = 0
      BY <2>2 DEF IInv, TypeOK, Advance
    <3> QED
      BY <2>2, <3>1 DEF Consistent, Busy
  <2> QED
    BY <2>1, <2>2
<1>3. ASSUME NEW h \in Goroutines, h # g PROVE Consistent(h)'
  <2>1. Consistent(h)
    BY <1>3 DEF IInv, Consistent
  <2>2. op'[h] = op[h] /\ pc'[h] = pc[h]
    BY <1>3 DEF IInv, TypeOK, Advance, NextCall
  <2> QED
    BY <1>3, <2>1, <2>2, OthersKeep
<1> QED
  BY <1>1, <1>2, <1>3

\* Inside a transaction the commit is still to come, and no other begin is.
LEMMA InsideTx ==
  ASSUME IInv, NEW g \in Goroutines, Busy(g), ~At(g, "commit"), g \in txs
  PROVE  /\ g \in Holders /\ pc[g] < Len(Calls(op[g]))
         /\ \A i \in (pc[g] + 1)..Len(Calls(op[g])) : Calls(op[g])[i] # "begin"
<1>1. op[g] \in OpsOf(g) /\ pc[g] \in 1..Len(Calls(op[g])) /\ g \in Holders
  BY DEF IInv
<1>2. Len(Calls(op[g])) \in Nat /\ Calls(op[g])[Len(Calls(op[g]))] = "commit"
  BY <1>1, CallsShape
<1>3. pc[g] # Len(Calls(op[g]))
  BY <1>2 DEF At
<1> QED
  BY <1>1, <1>2, <1>3 DEF IInv

\* Each call of a use case, and each way out of it, keeps the invariant.
LEMMA NextInv == IInv /\ [Next]_vars => IInv'
<1> SUFFICES ASSUME IInv, [Next]_vars PROVE IInv'
  OBVIOUS
<1>1. ASSUME NEW g \in Goroutines, Start(g) PROVE IInv'
  <2>1. PICK o \in OpsOf(g) : op' = [op EXCEPT ![g] = o]
    BY <1>1 DEF Start
  <2>2. o \in Ops /\ o # "none" /\ Len(Calls(o)) \in Nat \ {0}
    BY CallsShape
  <2>3. TypeOK'
    BY <1>1, <2>1, <2>2 DEF IInv, TypeOK, Start
  <2>4. Consistent(g)'
    BY <1>1, <2>1, <2>2 DEF IInv, TypeOK, Start, Consistent, Busy
  <2>5. ASSUME NEW h \in Goroutines, h # g PROVE Consistent(h)'
    <3>1. Consistent(h) /\ op'[h] = op[h] /\ pc'[h] = pc[h]
      BY <1>1, <2>1, <2>5 DEF IInv, TypeOK, Start, Consistent
    <3> QED
      BY <1>1, <2>5, <3>1, OthersKeep DEF Start
  <2> QED
    BY <2>3, <2>4, <2>5 DEF IInv, Consistent
<1>2. ASSUME NEW g \in Goroutines, CacheHit(g) PROVE IInv'
  <2>1. Busy(g) /\ ~At(g, "commit")
    BY <1>2 DEF CacheHit, At
  <2>2. g \in txs => /\ g \in Holders /\ pc[g] < Len(Calls(op[g]))
                    /\ \A i \in (pc[g] + 1)..Len(Calls(op[g])) :
                         Calls(op[g])[i] # "begin"
    BY <2>1, InsideTx
  <2> QED
    BY <1>2, <2>1, <2>2, AdvanceKeeps
    DEF CacheHit, IInv, TypeOK, Consistent
<1>3. ASSUME NEW g \in Goroutines, Borrow(g) PROVE IInv'
  <2>1. TypeOK'
    BY <1>3 DEF IInv, TypeOK, Borrow
  <2>2. Consistent(g)'
    BY <1>3 DEF IInv, Borrow, Waiting, Consistent, Busy, At
  <2>3. ASSUME NEW h \in Goroutines, h # g PROVE Consistent(h)'
    BY <1>3, <2>3, OthersKeep DEF IInv, Borrow, Consistent
  <2> QED
    BY <2>1, <2>2, <2>3 DEF IInv, Consistent
<1>4. ASSUME NEW g \in Goroutines, Finish(g) PROVE IInv'
  <2>1. Busy(g) /\ ~At(g, "commit")
    BY <1>4 DEF Finish, IInv, At
  <2>2. g \in txs => /\ g \in Holders /\ pc[g] < Len(Calls(op[g]))
                    /\ \A i \in (pc[g] + 1)..Len(Calls(op[g])) :
                         Calls(op[g])[i] # "begin"
    BY <2>1, InsideTx
  <2> QED
    BY <1>4, <2>1, <2>2, AdvanceKeeps DEF Finish, IInv, TypeOK, Consistent
<1>5. ASSUME NEW g \in Goroutines, Begin(g) PROVE IInv'
  <2>1. Busy(g) /\ g \notin stmts
    BY <1>5 DEF Begin, IInv, At
  <2>2. op[g] \in OpsOf(g) /\ pc[g] \in 1..Len(Calls(op[g])) /\ Len(Calls(op[g])) \in Nat
    BY <2>1, CallsShape DEF IInv
  <2>3. g \notin txs
    BY <1>5, <2>2 DEF Begin, IInv, At
  <2>4. /\ g \in Holders /\ pc[g] < Len(Calls(op[g]))
        /\ \A i \in (pc[g] + 1)..Len(Calls(op[g])) : Calls(op[g])[i] # "begin"
    BY <1>5, <2>2, CallsShape DEF Begin, At
  <2> QED
    BY <1>5, <2>1, <2>4, AdvanceKeeps DEF Begin, IInv, TypeOK, Consistent
<1>6. ASSUME NEW g \in Goroutines, Exec(g) PROVE IInv'
  <2>1. Busy(g) /\ ~At(g, "commit") /\ g \notin stmts
    BY <1>6 DEF Exec, IInv, At
  <2>2. g \in txs => /\ g \in Holders /\ pc[g] < Len(Calls(op[g]))
                    /\ \A i \in (pc[g] + 1)..Len(Calls(op[g])) :
                         Calls(op[g])[i] # "begin"
    BY <2>1, InsideTx
  <2> QED
    BY <1>6, <2>1, <2>2, AdvanceKeeps
    DEF Exec, IInv, TypeOK, Consistent
<1>7. ASSUME NEW g \in Goroutines, Commit(g) \/ ReturnEarly(g) \/ GiveUp(g) PROVE IInv'
  <2>1. g \notin stmts => stmts \ {g} = stmts
    OBVIOUS
  <2>2. CASE Commit(g)
    <3>1. g \notin stmts
      BY <2>2 DEF Commit, IInv, At
    <3> QED
      BY <2>1, <2>2, <3>1, ReturnKeeps DEF Commit
  <2>3. CASE ReturnEarly(g)
    BY <2>3, ReturnKeeps DEF ReturnEarly, RolledBack
  <2>4. CASE GiveUp(g)
    BY <2>1, <2>4, ReturnKeeps DEF GiveUp, RolledBack, Waiting
  <2> QED
    BY <1>7, <2>2, <2>3, <2>4
<1>8. CASE UNCHANGED vars
  BY <1>8 DEF vars, IInv, TypeOK, Busy, At
<1> QED
  BY <1>1, <1>2, <1>3, <1>4, <1>5, <1>6, <1>7, <1>8 DEF Next, Take, Run

\* The goroutines that hold the connection of a transaction and wait for another.
HeldAndWaiting == {g \in Holders : g \in txs /\ Waiting(g)}

LEMMA InitWithinLimit == Init => InUse <= MaxOpenConns
BY FS_EmptySet, ConstantsAssumption DEF Init, InUse

\* What lending a connection does to the number of goroutines that have one.
LEMMA LentFinite ==
  ASSUME TypeOK, NEW g \in Goroutines
  PROVE  /\ IsFiniteSet(txs) /\ Cardinality(txs) \in Nat
         /\ IsFiniteSet(stmts) /\ Cardinality(stmts) \in Nat
         /\ Cardinality(txs \cup {g}) \in {Cardinality(txs), Cardinality(txs) + 1}
         /\ Cardinality(stmts \cup {g}) \in {Cardinality(stmts), Cardinality(stmts) + 1}
<1>1. IsFiniteSet(Goroutines)
  BY ConstantsAssumption, FS_Union DEF Goroutines
<1>2. IsFiniteSet(txs) /\ IsFiniteSet(stmts)
  BY <1>1, FS_Subset DEF TypeOK
<1> QED
  BY <1>2, FS_CardinalityType, FS_AddElement

\* The pool never lends more than it has.
LEMMA WithinLimit ==
  ASSUME IInv, InUse <= MaxOpenConns, [Next]_vars
  PROVE  (InUse <= MaxOpenConns)'
<1>1. ASSUME NEW g \in Goroutines, Take(g) PROVE (InUse <= MaxOpenConns)'
  <2>1. /\ InUse < MaxOpenConns
        /\ \/ txs' = txs /\ stmts' = stmts \cup {g}
           \/ txs' = txs \cup {g} /\ stmts' = stmts
    BY <1>1 DEF Take, Borrow, Begin
  <2>2. /\ Cardinality(txs) \in Nat /\ Cardinality(stmts) \in Nat
        /\ Cardinality(txs) + Cardinality(stmts) < MaxOpenConns
        /\ Cardinality(txs') \in {Cardinality(txs), Cardinality(txs) + 1}
        /\ Cardinality(stmts') \in {Cardinality(stmts), Cardinality(stmts) + 1}
        /\ txs' = txs \/ stmts' = stmts
    BY <2>1, LentFinite DEF IInv, InUse
  <2>3. Cardinality(txs') + Cardinality(stmts') <= Cardinality(txs) + Cardinality(stmts) + 1
    BY <2>2
  <2> QED
    BY <2>2, <2>3, ConstantsAssumption DEF InUse
<1>2. ASSUME NEW g \in Goroutines,
             Start(g) \/ CacheHit(g) \/ Run(g) \/ ReturnEarly(g) \/ GiveUp(g)
      PROVE  (InUse <= MaxOpenConns)'
  <2>1. txs' \in {txs, txs \ {g}} /\ stmts' \in {stmts, stmts \ {g}}
    BY <1>2 DEF Start, CacheHit, Run, Finish, Exec, Commit, ReturnEarly, GiveUp, RolledBack
  <2>2. /\ Cardinality(txs') \in Nat /\ Cardinality(txs') <= Cardinality(txs)
        /\ Cardinality(stmts') \in Nat /\ Cardinality(stmts') <= Cardinality(stmts)
        /\ Cardinality(txs) \in Nat /\ Cardinality(stmts) \in Nat
    <3>1. /\ IsFiniteSet(txs) /\ IsFiniteSet(stmts)
          /\ txs' \subseteq txs /\ stmts' \subseteq stmts
      BY <2>1, LentFinite DEF IInv
    <3> QED
      BY <3>1, FS_Subset, FS_CardinalityType
  <2> QED
    BY <2>2, ConstantsAssumption DEF InUse
<1>3. CASE UNCHANGED vars
  BY <1>3 DEF vars, InUse
<1> QED
  BY <1>1, <1>2, <1>3 DEF Next

\* A stuck pool has lent every connection to a transaction that waits.
LEMMA StuckByHolders ==
  ASSUME IInv, InUse <= MaxOpenConns, Stuck
  PROVE  /\ txs = HeldAndWaiting
         /\ Cardinality(HeldAndWaiting) = MaxOpenConns
<1>1. \A g \in txs \cup stmts : g \in Goroutines /\ Busy(g) /\ Waiting(g)
  BY DEF Stuck, IInv, TypeOK
<1>2. stmts = {}
  BY <1>1 DEF Waiting
<1>3. txs = HeldAndWaiting
  BY <1>1 DEF HeldAndWaiting, IInv, TypeOK
<1>4. InUse = Cardinality(txs) /\ Cardinality(txs) \in Nat
  <2>1. Cardinality(txs) \in Nat /\ Cardinality(stmts) = 0
    BY <1>2, FS_EmptySet, LentFinite DEF Stuck, IInv
  <2> QED
    BY <2>1 DEF InUse
<1> QED
  BY <1>3, <1>4, ConstantsAssumption DEF Stuck

-----------------------------------------------------------------------------
\* What the use cases hold at each of their database calls: a transaction is
\* never followed by a second one, and a goroutine without a request has nothing.
THEOREM Invariant == Spec => []IInv
BY InitInv, NextInv, PTL DEF Spec

\* However the use cases return, the pool stops only when as many ReserveStock and
\* ReleaseReservation transactions as there are connections all wait for a second
\* one, for any number of requests of each kind and any limit of the pool.
THEOREM OnlyHoldersStop == Spec => []StuckMeansHeld
<1>1. IInv /\ InUse <= MaxOpenConns => StuckMeansHeld
  BY StuckByHolders DEF StuckMeansHeld, HeldAndWaiting
<1>2. IInv /\ InUse <= MaxOpenConns /\ [Next]_vars => (InUse <= MaxOpenConns)'
  BY WithinLimit
<1> QED
  BY <1>1, <1>2, InitWithinLimit, Invariant, PTL DEF Spec

\* So a limit above the number of such requests that run at a time is enough, and
\* nothing in the service keeps their number below its limit of 25.
THEOREM PoolNeverStuck ==
  ASSUME Cardinality(Holders) < MaxOpenConns
  PROVE  Spec => []~Stuck
<1>1. IInv /\ StuckMeansHeld => ~Stuck
  <2> SUFFICES ASSUME StuckMeansHeld, Stuck PROVE FALSE
    OBVIOUS
  <2>1. Cardinality(HeldAndWaiting) = MaxOpenConns
    BY DEF StuckMeansHeld, HeldAndWaiting
  <2>2. /\ Cardinality(Holders) \in Nat
        /\ Cardinality(HeldAndWaiting) <= Cardinality(Holders)
    <3>1. HeldAndWaiting \subseteq Holders
      BY DEF HeldAndWaiting
    <3> QED
      BY <3>1, FS_Subset, FS_CardinalityType, ConstantsAssumption
  <2> QED
    BY <2>1, <2>2, ConstantsAssumption
<1> QED
  BY <1>1, Invariant, OnlyHoldersStop, PTL

=============================================================================
