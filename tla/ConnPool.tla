------------------------------ MODULE ConnPool ------------------------------
(***************************************************************************)
(* The database connections of the inventory service.  sqlx.DB lends at    *)
(* most MaxOpenConns connections (pkg/database/postgres.go); a statement   *)
(* on the pool borrows one until it returns, a transaction keeps one from  *)
(* BeginTxx to its end.                                                    *)
(*                                                                         *)
(* ReserveStock and ReleaseReservation open a transaction and then call    *)
(* repository methods that go to the pool: they hold one connection while  *)
(* they wait for a second one.  Nothing but a client that goes away ends   *)
(* such a wait, and the calls of the event handler have a context that is  *)
(* never cancelled.                                                        *)
(***************************************************************************)
EXTENDS Naturals, Sequences, FiniteSets

CONSTANTS
  Holders,      \* goroutines that serve ReserveStock and ReleaseReservation
  Others,       \* goroutines that serve GetStock and UpdateStock
  MaxOpenConns  \* db.SetMaxOpenConns

ASSUME ConstantsAssumption ==
  /\ IsFiniteSet(Holders)
  /\ IsFiniteSet(Others)
  /\ Holders \cap Others = {}
  /\ MaxOpenConns \in Nat \ {0}

VARIABLES
  op,     \* goroutine -> the use case it runs
  pc,     \* goroutine -> the database call of the use case it is at
  txs,    \* goroutines with an open transaction
  stmts   \* goroutines with a statement running on a pool connection

vars == <<op, pc, txs, stmts>>

-----------------------------------------------------------------------------
(* The database calls of the use cases, in order:                          *)
(*   "read"    a query on the pool that the cache may answer instead, or   *)
(*             that is not needed (the warehouse by its code)              *)
(*   "query"   a query on the pool                                         *)
(*   "begin"   BeginTxx                                                    *)
(*   "exec"    a statement inside the transaction                          *)
(*   "record"  a movement inside the transaction; its error is dropped     *)
(*   "commit"  Commit                                                      *)

\* The counter is raised on the pool, the rows are written in the transaction.
ReserveStock ==
  <<"read", "read", "begin", "query", "exec", "record", "commit">>

\* Status and counter on the pool, the movement in the transaction.
ReleaseReservation ==
  <<"query", "begin", "query", "query", "record", "commit">>

\* The row is created or updated, then the movement is written.
UpdateStock == <<"read", "read", "query", "query">>

GetStock == <<"read">>

Calls(o) ==
  CASE o = "ReserveStock" -> ReserveStock
    [] o = "ReleaseReservation" -> ReleaseReservation
    [] o = "UpdateStock" -> UpdateStock
    [] o = "GetStock" -> GetStock
    [] OTHER -> <<>>

Goroutines == Holders \cup Others

OpsOf(g) ==
  IF g \in Holders THEN {"ReserveStock", "ReleaseReservation"}
                   ELSE {"UpdateStock", "GetStock"}

Ops == {"ReserveStock", "ReleaseReservation", "UpdateStock", "GetStock"}

Busy(g) == op[g] # "none"
At(g, call) == Busy(g) /\ Calls(op[g])[pc[g]] = call

\* A goroutine whose next call needs a connection of the pool.
Waiting(g) == g \notin stmts /\ (At(g, "read") \/ At(g, "query") \/ At(g, "begin"))

\* Connections that are lent.
InUse == Cardinality(txs) + Cardinality(stmts)

-----------------------------------------------------------------------------
Start(g) ==
  /\ ~Busy(g)
  /\ \E o \in OpsOf(g) : op' = [op EXCEPT ![g] = o]
  /\ pc' = [pc EXCEPT ![g] = 1]
  /\ UNCHANGED <<txs, stmts>>

\* The use case returns.
Return(g) ==
  /\ op' = [op EXCEPT ![g] = "none"]
  /\ pc' = [pc EXCEPT ![g] = 0]

\* Mutant: the use case returns without the deferred Rollback.
LeftOpen(g) == txs
\* The deferred Rollback of a use case that returns before its Commit.
RolledBack(g) == txs \ {g}

\* Mutant: a call is repeated until the use case returns early.
SameCall(i) == i
NextCall(i) == i + 1

\* The next call, or the return after the last one.
Advance(g) ==
  IF pc[g] < Len(Calls(op[g]))
  THEN pc' = [pc EXCEPT ![g] = NextCall(@)] /\ UNCHANGED op
  ELSE pc' = [pc EXCEPT ![g] = 0] /\ op' = [op EXCEPT ![g] = "none"]

\* The cache answers, or there is nothing to look up: no connection is needed.
CacheHit(g) ==
  /\ At(g, "read")
  /\ g \notin stmts
  /\ Advance(g)
  /\ UNCHANGED <<txs, stmts>>

\* The pool lends a connection for a statement.
Borrow(g) ==
  /\ Waiting(g) /\ ~At(g, "begin")
  /\ InUse < MaxOpenConns
  /\ stmts' = stmts \cup {g}
  /\ UNCHANGED <<op, pc, txs>>

Finish(g) ==
  /\ g \in stmts
  /\ stmts' = stmts \ {g}
  /\ Advance(g)
  /\ UNCHANGED txs

Begin(g) ==
  /\ At(g, "begin")
  /\ InUse < MaxOpenConns
  /\ txs' = txs \cup {g}
  /\ Advance(g)
  /\ UNCHANGED stmts

Exec(g) ==
  /\ At(g, "exec") \/ At(g, "record")
  /\ Advance(g)
  /\ UNCHANGED <<txs, stmts>>

\* The transaction is over also when Commit returns an error.
Commit(g) ==
  /\ At(g, "commit")
  /\ Return(g)
  /\ txs' = txs \ {g}
  /\ UNCHANGED stmts

\* A statement that fails, a stock too small, a reservation already released:
\* an early return after a call that had its connection.
ReturnEarly(g) ==
  /\ Busy(g)
  /\ g \in stmts \/ At(g, "exec")
  /\ Return(g)
  /\ txs' = RolledBack(g)
  /\ stmts' = stmts \ {g}

\* The client goes away while its request waits for a connection, or no
\* connection to the database can be made.
GiveUp(g) ==
  /\ Waiting(g)
  /\ Return(g)
  /\ txs' = RolledBack(g)
  /\ UNCHANGED stmts

-----------------------------------------------------------------------------
Init ==
  /\ op = [g \in Goroutines |-> "none"]
  /\ pc = [g \in Goroutines |-> 0]
  /\ txs = {} /\ stmts = {}

Take(g) == Borrow(g) \/ Begin(g)
Run(g) == Finish(g) \/ Exec(g) \/ Commit(g)

Next ==
  \E g \in Goroutines :
    Start(g) \/ CacheHit(g) \/ Take(g) \/ Run(g) \/ ReturnEarly(g) \/ GiveUp(g)

Spec == Init /\ [][Next]_vars

\* A statement comes back, and a goroutine that waits is picked some time if
\* connections keep becoming free: the pool chooses among the waiting ones at
\* random.  Nobody has to give up, fail or be served from the cache.
FairSpec ==
  /\ Spec
  /\ \A g \in Goroutines : WF_vars(Run(g)) /\ SF_vars(Take(g))

-----------------------------------------------------------------------------
(* Properties.                                                             *)

TypeOK ==
  /\ op \in [Goroutines -> Ops \cup {"none"}]
  /\ pc \in [Goroutines -> Nat]
  /\ txs \subseteq Goroutines
  /\ stmts \subseteq Goroutines

\* Somebody waits for a connection, and nobody who has one gives it back by
\* himself: he waits for another one, or his request is over.
Stuck ==
  /\ InUse >= MaxOpenConns
  /\ \E g \in Goroutines : Waiting(g)
  /\ \A g \in txs \cup stmts : Waiting(g) \/ ~Busy(g)

\* The only thing that can stop the pool is that every connection belongs to a
\* transaction of ReserveStock or ReleaseReservation whose request waits for a
\* second one: no early return, failed statement or client that went away keeps a
\* connection, and no reader or UpdateStock takes part in a stop.
StuckMeansHeld ==
  Stuck => Cardinality({g \in Holders : g \in txs /\ Waiting(g)}) = MaxOpenConns

\* What the use cases hold at each call; StuckMeansHeld follows from it.
IInv ==
  /\ TypeOK
  /\ \A g \in Goroutines :
       /\ Busy(g) => op[g] \in OpsOf(g) /\ pc[g] \in 1..Len(Calls(op[g]))
       /\ ~Busy(g) => g \notin txs /\ g \notin stmts
       /\ g \in txs => /\ g \in Holders
                       /\ \A i \in pc[g]..Len(Calls(op[g])) :
                            Calls(op[g])[i] # "begin"
       /\ g \in stmts => At(g, "read") \/ At(g, "query")

\* Every request comes to its end, although none of them gives up, unless the pool
\* stops in the way that StuckMeansHeld describes.
EveryRequestEnds == \A g \in Goroutines : Busy(g) ~> ~Busy(g) \/ Stuck

=============================================================================
