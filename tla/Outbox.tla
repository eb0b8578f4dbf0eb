------------------------------- MODULE Outbox -------------------------------
(***************************************************************************)
(* The outbox publishers of the order service: every replica runs one, and *)
(* all of them poll the table outbox_events and write what they claim to   *)
(* Kafka.  A publisher claims a batch in one transaction (SELECT ... FOR   *)
(* UPDATE SKIP LOCKED, then UPDATE ... SET status = 'CLAIMED'), then goes  *)
(* through the batch: it writes the event to Kafka and marks the row.      *)
(* Nothing ever looks at a row again that left PENDING.                    *)
(***************************************************************************)
EXTENDS Naturals, FiniteSets

CONSTANTS
  Publishers,   \* one per replica of the order service
  Events,       \* events that the transactions of the service insert
  NoEvent,      \* no event
  Stamps,       \* values of created_at, in whole seconds
  BatchSize,    \* the limit of ClaimBatch
  MaxErrors,    \* bound: statements and Kafka writes that fail
  MaxCrashes    \* bound: publishers that stop in the middle of a batch

ASSUME ConstantsAssumption ==
  /\ IsFiniteSet(Events)
  /\ NoEvent \notin Events
  /\ Stamps \subseteq Nat
  /\ BatchSize \in Nat \ {0}
  /\ MaxErrors \in Nat
  /\ MaxCrashes \in Nat

VARIABLES
  status,     \* event -> the status of its row, "none" before the insert
  created,    \* event -> its created_at
  pub,        \* publisher -> how far it got, and the batch it works on
  writes,     \* event -> how often a publisher handed it to Kafka
  accepted,   \* the events whose write reported no error
  delivered,  \* the events that reached their topic
  errors,     \* errors so far
  crashes     \* crashes so far

vars == <<status, created, pub, writes, accepted, delivered, errors, crashes>>

-----------------------------------------------------------------------------
Statuses == {"none", "PENDING", "CLAIMED", "PUBLISHED", "FAILED"}

\* "claiming": rows locked, transaction open; "writing": batch holds the events
\* still to be written; "marking": event was written, with outcome ok.
Publisher == [at : {"waiting", "claiming", "writing", "marking"},
              batch : SUBSET Events, event : Events \cup {NoEvent}, ok : BOOLEAN]

At(step, batch) == [at |-> step, batch |-> batch, event |-> NoEvent, ok |-> FALSE]

Waiting == At("waiting", {})

\* Mutant: FOR UPDATE without effect, a plain SELECT.
LockedNever(e) == FALSE
Locked(e) == \E p \in Publishers : pub[p].at = "claiming" /\ e \in pub[p].batch

Error == errors < MaxErrors /\ errors' = errors + 1

-----------------------------------------------------------------------------
(* The transactions of the order service.                                  *)

\* An event commits with the second its request read from the clock, which
\* may be earlier than that of an event committed before it.
Insert(e, t) ==
  /\ status[e] = "none"
  /\ status' = [status EXCEPT ![e] = "PENDING"]
  /\ created' = [created EXCEPT ![e] = t]
  /\ UNCHANGED <<pub, writes, accepted, delivered, errors, crashes>>

-----------------------------------------------------------------------------
(* ClaimBatch.                                                             *)

Claimable == {e \in Events : status[e] = "PENDING" /\ ~Locked(e)}

\* Mutant: nothing is claimed until a whole batch is there.
OldestOfFull(S) ==
  {B \in SUBSET S : Cardinality(B) = BatchSize
                    /\ \A e \in B, f \in S \ B : created[e] <= created[f]}
\* ORDER BY created_at ASC LIMIT $1: of several events of one second any.
OldestOf(S) ==
  {B \in SUBSET S :
     /\ Cardinality(B) <= BatchSize
     /\ Cardinality(B) < BatchSize => B = S
     /\ \A e \in B, f \in S \ B : created[e] <= created[f]}

\* No rows found ends the round without a change.
SelectPending(p) ==
  /\ pub[p].at = "waiting"
  /\ \E B \in OldestOf(Claimable) :
       /\ B # {}
       /\ pub' = [pub EXCEPT ![p] = At("claiming", B)]
  /\ UNCHANGED <<status, created, writes, accepted, delivered, errors, crashes>>

\* SET status = 'CLAIMED'
Claimed(old) == "CLAIMED"

WithClaimed(B) == [e \in Events |-> IF e \in B THEN Claimed(status[e]) ELSE status[e]]

CommitClaim(p) ==
  /\ pub[p].at = "claiming"
  /\ status' = WithClaimed(pub[p].batch)
  /\ pub' = [pub EXCEPT ![p] = At("writing", pub[p].batch)]
  /\ UNCHANGED <<created, writes, accepted, delivered, errors, crashes>>

\* An error of any statement of the transaction: it is rolled back, or it was
\* the answer to the COMMIT that got lost.
ClaimFails(p) ==
  /\ pub[p].at = "claiming"
  /\ Error
  /\ status' \in {status, WithClaimed(pub[p].batch)}
  /\ pub' = [pub EXCEPT ![p] = Waiting]
  /\ UNCHANGED <<created, writes, accepted, delivered, crashes>>

-----------------------------------------------------------------------------
(* publishBatch.                                                           *)

\* The events of a batch are written in the order they were read.
IsNext(e, batch) == e \in batch /\ \A f \in batch : created[e] <= created[f]

Written(e, batch, ok) ==
  [at |-> "marking", batch |-> batch \ {e}, event |-> e, ok |-> ok]

\* NewOutboxPublisher leaves the RequiredAcks of its kafka.Writer at zero, which
\* is kafka-go's RequireNone.
RequiredAcks == 0

\* What may have reached the topic when WriteMessages returns.  Success says that
\* the broker has the message only if an acknowledgement was asked for, and when
\* it reports an error the broker may have the message all the same.
DeliveredAfter(e, ok) ==
  IF ok /\ RequiredAcks # 0 THEN {delivered \cup {e}}
                            ELSE {delivered, delivered \cup {e}}

\* publishEvent
PublishEvent(p, e) ==
  /\ pub[p].at = "writing"
  /\ IsNext(e, pub[p].batch)
  /\ writes' = [writes EXCEPT ![e] = @ + 1]
  /\ \E ok \in BOOLEAN :
       /\ pub' = [pub EXCEPT ![p] = Written(e, pub[p].batch, ok)]
       /\ delivered' \in DeliveredAfter(e, ok)
       /\ \/ ok /\ accepted' = accepted \cup {e} /\ UNCHANGED errors
          \/ ~ok /\ Error /\ UNCHANGED accepted
  /\ UNCHANGED <<status, created, crashes>>

\* Mutant: the loop ends with the first event.
ContinueNever(batch) == Waiting
\* The rest of the batch, or the end of it.
Continue(batch) == IF batch = {} THEN Waiting ELSE At("writing", batch)

\* Mutant: the outcome of the write is not looked at.
MarkAlwaysPublished(ok) == "PUBLISHED"
MarkOf(ok) == IF ok THEN "PUBLISHED" ELSE "FAILED"

\* MarkPublished or MarkFailed.
Marked(p) == [status EXCEPT ![pub[p].event] = MarkOf(pub[p].ok)]

Mark(p) ==
  /\ pub[p].at = "marking"
  /\ status' = Marked(p)
  /\ pub' = [pub EXCEPT ![p] = Continue(pub[p].batch)]
  /\ UNCHANGED <<created, writes, accepted, delivered, errors, crashes>>

\* An error of the UPDATE is logged only; it may have been carried out.
MarkFails(p) ==
  /\ pub[p].at = "marking"
  /\ Error
  /\ status' \in {status, Marked(p)}
  /\ pub' = [pub EXCEPT ![p] = Continue(pub[p].batch)]
  /\ UNCHANGED <<created, writes, accepted, delivered, crashes>>

\* The process dies or is told to stop; an open transaction is rolled back.
Crash(p) ==
  /\ pub[p].at # "waiting"
  /\ crashes < MaxCrashes
  /\ crashes' = crashes + 1
  /\ pub' = [pub EXCEPT ![p] = Waiting]
  /\ UNCHANGED <<status, created, writes, accepted, delivered, errors>>

-----------------------------------------------------------------------------
Init ==
  /\ status = [e \in Events |-> "none"]
  /\ created = [e \in Events |-> 0]
  /\ pub = [p \in Publishers |-> Waiting]
  /\ writes = [e \in Events |-> 0]
  /\ accepted = {} /\ delivered = {}
  /\ errors = 0
  /\ crashes = 0

Work(p) ==
  \/ SelectPending(p) \/ CommitClaim(p) \/ Mark(p)
  \/ \E e \in Events : PublishEvent(p, e)

Next ==
  \/ \E e \in Events, t \in Stamps : Insert(e, t)
  \/ \E p \in Publishers : Work(p) \/ ClaimFails(p) \/ MarkFails(p) \/ Crash(p)

Spec == Init /\ [][Next]_vars

\* The ticker of a publisher fires every five seconds, and a batch that was
\* claimed is worked off.
FairSpec == Spec /\ \A p \in Publishers : WF_vars(Work(p))

-----------------------------------------------------------------------------
(* Properties.                                                             *)

TypeOK ==
  /\ status \in [Events -> Statuses]
  /\ created \in [Events -> Nat]
  /\ pub \in [Publishers -> Publisher]
  /\ writes \in [Events -> Nat]
  /\ accepted \subseteq Events
  /\ delivered \subseteq Events
  /\ errors \in Nat
  /\ crashes \in Nat

\* No event is handed to Kafka twice, by one publisher or by two: concurrent
\* claims, rollbacks, failed updates and crashes included.
WrittenAtMostOnce == \A e \in Events : writes[e] <= 1

\* A row that is done with says how its write ended, although the write, the
\* mark and the claim can each fail with their effect done or not; and an event
\* that has reached its topic, reported or not, is not up for a claim again.  (The
\* row does not say that the event is in its topic: with no acknowledgement asked
\* for, PUBLISHED means only that the write reported no error.)
StatusTellsOutcome ==
  \A e \in Events :
    /\ status[e] = "PUBLISHED" => e \in accepted
    /\ status[e] = "FAILED" => writes[e] > 0 /\ e \notin accepted
    /\ e \in delivered => status[e] \notin {"none", "PENDING"}

\* The events a publisher still has to write or to mark.
InHand(p) == pub[p].batch \cup {pub[p].event}

Orphans ==
  {e \in Events : status[e] = "CLAIMED" /\ \A p \in Publishers : e \notin InHand(p)}

\* A claimed event that no publisher works on is one that a fault left behind,
\* and one fault leaves at most one batch behind.
OrphansBounded == Cardinality(Orphans) <= BatchSize * (errors + crashes)

\* What a publisher knows about the events in its hands; with it the properties
\* above become inductive.
PublisherConsistent(p) ==
  /\ pub[p].at \in {"waiting", "claiming", "writing"} <=> pub[p].event = NoEvent
  /\ pub[p].at = "waiting" => pub[p].batch = {}
  /\ pub[p].at = "claiming" => \A e \in pub[p].batch : status[e] = "PENDING"
  /\ pub[p].at \in {"writing", "marking"} =>
       \A e \in pub[p].batch : status[e] = "CLAIMED" /\ writes[e] = 0
  /\ pub[p].at = "marking" =>
       /\ status[pub[p].event] = "CLAIMED"
       /\ pub[p].event \notin pub[p].batch
       /\ writes[pub[p].event] > 0
       /\ pub[p].ok <=> pub[p].event \in accepted

\* Two publishers never have an event in their hands at the same time.
HandsDisjoint ==
  \A p, q \in Publishers : p # q => InHand(p) \cap InHand(q) \subseteq {NoEvent}

IInv ==
  /\ TypeOK
  /\ WrittenAtMostOnce
  /\ StatusTellsOutcome
  /\ HandsDisjoint
  /\ \A p \in Publishers : PublisherConsistent(p)
  /\ \A e \in Events : status[e] \in {"none", "PENDING"} => writes[e] = 0
  /\ \A e \in accepted \cup delivered : writes[e] > 0

\* What a fault can leave behind: a publisher never holds more than one batch.
BatchesBounded == \A p \in Publishers : Cardinality(InHand(p) \ {NoEvent}) <= BatchSize

OrphansIInv == IInv /\ BatchesBounded /\ OrphansBounded

\* No event is left waiting or in progress for ever: each ends as published, as
\* failed, or as one of the few that OrphansBounded allows.
EventuallySettled ==
  \A e \in Events :
    status[e] = "PENDING" ~>
      status[e] \in {"PUBLISHED", "FAILED"} \/ e \in Orphans

=============================================================================
