---------------------------- MODULE Outbox_proofs ----------------------------
(***************************************************************************)
(* Invariants of Outbox for any number of publishers and events, any batch *)
(* size and any number of errors and crashes.                              *)
(***************************************************************************)
EXTENDS Outbox, FiniteSetTheorems, TLAPS

USE DEF Statuses, Publisher, At, Waiting

LEMMA InitIInv == Init => IInv
<1> SUFFICES ASSUME Init PROVE IInv
  OBVIOUS
<1> USE ConstantsAssumption DEF Init
<1>1. TypeOK
  BY DEF TypeOK
<1>2. WrittenAtMostOnce /\ StatusTellsOutcome /\ HandsDisjoint
  BY DEF WrittenAtMostOnce, StatusTellsOutcome, HandsDisjoint, InHand
<1>3. \A p \in Publishers : PublisherConsistent(p)
  BY DEF PublisherConsistent
<1> QED
  BY <1>1, <1>2, <1>3 DEF IInv

\* The facts about one publisher that every step below starts from.
LEMMA Knows ==
  ASSUME IInv, NEW p \in Publishers
  PROVE  /\ pub \in [Publishers -> Publisher] /\ pub[p] \in Publisher
         /\ PublisherConsistent(p)
         /\ status \in [Events -> Statuses]
         /\ writes \in [Events -> Nat]
         /\ accepted \subseteq Events /\ delivered \subseteq Events
         /\ errors \in Nat /\ crashes \in Nat
         /\ created \in [Events -> Nat]
BY DEF IInv, TypeOK

\* A publisher whose hands only become emptier.
LEMMA FewerInHand ==
  ASSUME IInv, NEW p \in Publishers, NEW r \in Publisher,
         pub' = [pub EXCEPT ![p] = r],
         r.batch \cup {r.event} \subseteq InHand(p) \cup {NoEvent}
  PROVE  HandsDisjoint'
<1>1. pub \in [Publishers -> Publisher]
  BY DEF IInv, TypeOK
<1>2. \A q \in Publishers : InHand(q)' \subseteq InHand(q) \cup {NoEvent}
  BY <1>1 DEF InHand
<1> QED
  BY <1>2 DEF IInv, HandsDisjoint

LEMMA InsertIInv ==
  ASSUME IInv, NEW e \in Events, NEW t \in Stamps, Insert(e, t)
  PROVE  IInv'
<1> USE ConstantsAssumption
<1>1. TypeOK'
  BY DEF Insert, IInv, TypeOK
<1>2. /\ status'[e] = "PENDING" /\ status[e] = "none"
      /\ \A f \in Events \ {e} : status'[f] = status[f]
  BY DEF Insert, IInv, TypeOK
<1>3. WrittenAtMostOnce' /\ StatusTellsOutcome' /\ HandsDisjoint'
  BY <1>2 DEF Insert, IInv, WrittenAtMostOnce, StatusTellsOutcome, HandsDisjoint, InHand
<1>4. ASSUME NEW p \in Publishers PROVE PublisherConsistent(p)'
  BY <1>2, Knows DEF Insert, PublisherConsistent
<1> QED
  BY <1>1, <1>2, <1>3, <1>4 DEF Insert, IInv

LEMMA SelectIInv ==
  ASSUME IInv, NEW p \in Publishers, SelectPending(p)
  PROVE  IInv'
<1> USE ConstantsAssumption
<1>1. PICK B \in SUBSET Claimable : pub' = [pub EXCEPT ![p] = At("claiming", B)]
  BY DEF SelectPending, OldestOf
<1>2. B \subseteq Events /\ \A e \in B : status[e] = "PENDING" /\ ~Locked(e)
  BY <1>1 DEF Claimable
<1>3. /\ pub'[p] = At("claiming", B)
      /\ \A q \in Publishers \ {p} : pub'[q] = pub[q]
      /\ pub' \in [Publishers -> Publisher]
  BY <1>1, <1>2, Knows
<1>4. TypeOK'
  BY <1>3 DEF SelectPending, IInv, TypeOK
<1>5. ASSUME NEW q \in Publishers \ {p} PROVE InHand(q) \cap B = {}
  <2>1. PublisherConsistent(q) /\ pub[q] \in Publisher
    BY Knows
  <2> QED
    BY <1>2, <2>1 DEF InHand, PublisherConsistent, Locked
<1>6. HandsDisjoint'
  <2>1. InHand(p)' = B \cup {NoEvent} /\ \A q \in Publishers \ {p} : InHand(q)' = InHand(q)
    BY <1>3 DEF InHand
  <2> QED
    BY <1>5, <2>1 DEF IInv, HandsDisjoint
<1>7. ASSUME NEW q \in Publishers PROVE PublisherConsistent(q)'
  BY <1>2, <1>3, Knows DEF SelectPending, PublisherConsistent
<1>8. WrittenAtMostOnce' /\ StatusTellsOutcome'
  BY DEF SelectPending, IInv, WrittenAtMostOnce, StatusTellsOutcome
<1> QED
  BY <1>4, <1>6, <1>7, <1>8 DEF SelectPending, IInv

\* The rows of p's batch become CLAIMED, and p goes on with them or without.
LEMMA ClaimIInv ==
  ASSUME IInv, NEW p \in Publishers, NEW r \in {At("writing", pub[p].batch), Waiting},
         pub[p].at = "claiming", status' = WithClaimed(pub[p].batch),
         pub' = [pub EXCEPT ![p] = r],
         UNCHANGED <<created, writes, accepted, delivered>>, errors' \in Nat, crashes' \in Nat
  PROVE  IInv'
<1> USE ConstantsAssumption
<1>1. r \in Publisher
  <2>1. pub[p].batch \subseteq Events
    BY Knows
  <2>2. At("writing", pub[p].batch) \in Publisher /\ Waiting \in Publisher
    BY <2>1
  <2> HIDE DEF At, Waiting, Publisher
  <2> QED
    BY <2>2
<1>2. /\ pub'[p] = r /\ \A q \in Publishers \ {p} : pub'[q] = pub[q]
      /\ pub' \in [Publishers -> Publisher] /\ r \in Publisher
  BY <1>1, Knows
<1>3. /\ \A e \in pub[p].batch : status'[e] = "CLAIMED" /\ status[e] = "PENDING"
      /\ \A e \in Events \ pub[p].batch : status'[e] = status[e]
      /\ status' \in [Events -> Statuses]
  BY Knows DEF WithClaimed, Claimed, PublisherConsistent
<1>4. TypeOK'
  BY <1>2, <1>3 DEF IInv, TypeOK
<1>5. HandsDisjoint'
  BY <1>2, FewerInHand DEF InHand
<1>6. ASSUME NEW q \in Publishers PROVE PublisherConsistent(q)'
  <2>1. CASE q = p
    BY <1>2, <1>3, <2>1, Knows DEF PublisherConsistent, IInv
  <2>2. CASE q # p
    <3>1. pub'[q] = pub[q] /\ InHand(q) \cap pub[p].batch = {}
      BY <1>2, <2>2, Knows DEF IInv, HandsDisjoint, InHand
    <3> QED
      BY <1>3, <3>1, Knows DEF PublisherConsistent, InHand
  <2> QED
    BY <2>1, <2>2
<1>7. WrittenAtMostOnce' /\ StatusTellsOutcome'
  BY <1>3 DEF IInv, WrittenAtMostOnce, StatusTellsOutcome
<1> QED
  BY <1>3, <1>4, <1>5, <1>6, <1>7 DEF IInv

LEMMA PublishIInv ==
  ASSUME IInv, NEW p \in Publishers, NEW e \in Events, PublishEvent(p, e)
  PROVE  IInv'
<1> USE ConstantsAssumption
<1>1. PICK ok \in BOOLEAN :
        /\ pub' = [pub EXCEPT ![p] = Written(e, pub[p].batch, ok)]
        /\ delivered' \in DeliveredAfter(e, ok)
        /\ \/ ok /\ accepted' = accepted \cup {e} /\ UNCHANGED errors
           \/ ~ok /\ Error /\ UNCHANGED accepted
  BY DEF PublishEvent
<1> DEFINE r == Written(e, pub[p].batch, ok)
<1>2. /\ pub[p].at = "writing" /\ e \in pub[p].batch
      /\ UNCHANGED <<status, created, crashes>>
      /\ status[e] = "CLAIMED" /\ writes[e] = 0
      /\ delivered' \subseteq Events /\ accepted' \subseteq Events
      /\ errors' \in Nat
  BY <1>1, Knows DEF PublishEvent, IsNext, PublisherConsistent, DeliveredAfter, Error
<1>a. /\ e \notin accepted /\ (ok <=> e \in accepted')
      /\ \A f \in Events \ {e} : f \in accepted' <=> f \in accepted
  BY <1>1, <1>2 DEF IInv
<1>b. \A f \in Events \ {e} : f \in delivered' <=> f \in delivered
  BY <1>1 DEF DeliveredAfter
<1>3. r \in Publisher /\ r.batch \cup {r.event} \subseteq InHand(p)
  BY <1>2, Knows DEF Written, InHand
<1>4. /\ pub'[p] = r /\ \A q \in Publishers \ {p} : pub'[q] = pub[q]
      /\ pub' \in [Publishers -> Publisher]
  BY <1>1, <1>3, Knows
<1>5. /\ writes'[e] = 1 /\ \A f \in Events \ {e} : writes'[f] = writes[f]
      /\ writes' \in [Events -> Nat]
  BY <1>2, Knows DEF PublishEvent
<1>6. TypeOK'
  BY <1>2, <1>4, <1>5 DEF IInv, TypeOK
<1>7. HandsDisjoint'
  BY <1>1, <1>3, FewerInHand
<1>8. ASSUME NEW q \in Publishers PROVE PublisherConsistent(q)'
  <2>1. CASE q = p
    BY <1>2, <1>a, <1>4, <1>5, <2>1, Knows DEF PublisherConsistent, Written
  <2>2. CASE q # p
    <3>1. pub'[q] = pub[q] /\ e \notin InHand(q)
      BY <1>2, <1>4, <2>2 DEF IInv, HandsDisjoint, InHand
    <3> QED
      BY <1>2, <1>a, <1>5, <3>1, Knows DEF PublisherConsistent, InHand
  <2> QED
    BY <2>1, <2>2
<1>9. WrittenAtMostOnce' /\ StatusTellsOutcome'
  BY <1>2, <1>a, <1>b, <1>5 DEF IInv, WrittenAtMostOnce, StatusTellsOutcome
<1>10. \A f \in accepted' \cup delivered' : writes'[f] > 0
  BY <1>2, <1>a, <1>b, <1>5 DEF IInv
<1> QED
  BY <1>2, <1>5, <1>6, <1>7, <1>8, <1>9, <1>10 DEF IInv

\* p lets go of the event it wrote, whose row it marked or failed to mark.
LEMMA MarkIInv ==
  ASSUME IInv, NEW p \in Publishers, pub[p].at = "marking",
         status' \in {status, Marked(p)},
         pub' = [pub EXCEPT ![p] = Continue(pub[p].batch)],
         UNCHANGED <<created, writes, accepted, delivered>>, errors' \in Nat, crashes' \in Nat
  PROVE  IInv'
<1> USE ConstantsAssumption
<1> DEFINE r == Continue(pub[p].batch)
           e == pub[p].event
<1>1. /\ e \in Events /\ status[e] = "CLAIMED" /\ e \notin pub[p].batch
      /\ pub[p].ok \in BOOLEAN /\ writes[e] > 0 /\ (pub[p].ok <=> e \in accepted)
  BY Knows DEF PublisherConsistent
<1>2. r \in Publisher /\ r.batch \cup {r.event} \subseteq InHand(p) \cup {NoEvent}
  BY Knows DEF Continue, InHand
<1>3. /\ pub'[p] = r /\ \A q \in Publishers \ {p} : pub'[q] = pub[q]
      /\ pub' \in [Publishers -> Publisher]
  BY <1>2, Knows
<1>4. /\ \A f \in Events \ {e} : status'[f] = status[f]
      /\ status'[e] \in {"CLAIMED", "FAILED", "PUBLISHED"}
      /\ status'[e] = "PUBLISHED" => pub[p].ok
      /\ status'[e] = "FAILED" => ~pub[p].ok
      /\ status' \in [Events -> Statuses]
  BY <1>1, Knows DEF Marked, MarkOf
<1>5. TypeOK'
  BY <1>3, <1>4 DEF IInv, TypeOK
<1>6. HandsDisjoint'
  BY <1>2, FewerInHand
<1>7. ASSUME NEW q \in Publishers PROVE PublisherConsistent(q)'
  <2>1. CASE q = p
    BY <1>1, <1>3, <1>4, <2>1, Knows DEF PublisherConsistent, Continue
  <2>2. CASE q # p
    <3>1. pub'[q] = pub[q] /\ e \notin InHand(q)
      BY <1>1, <1>3, <2>2 DEF IInv, HandsDisjoint, InHand
    <3> QED
      BY <1>4, <3>1, Knows DEF PublisherConsistent, InHand
  <2> QED
    BY <2>1, <2>2
<1>8. WrittenAtMostOnce' /\ StatusTellsOutcome'
  BY <1>1, <1>4 DEF IInv, WrittenAtMostOnce, StatusTellsOutcome
<1> QED
  BY <1>1, <1>4, <1>5, <1>6, <1>7, <1>8 DEF IInv

\* p drops everything and no row changes: a crash, or a claim rolled back.
LEMMA StopIInv ==
  ASSUME IInv, NEW p \in Publishers, pub' = [pub EXCEPT ![p] = Waiting],
         UNCHANGED <<status, created, writes, accepted, delivered>>,
         errors' \in Nat, crashes' \in Nat
  PROVE  IInv'
<1> USE ConstantsAssumption
<1>1. Waiting \in Publisher
  OBVIOUS
<1>2. /\ pub'[p] = Waiting /\ \A q \in Publishers \ {p} : pub'[q] = pub[q]
      /\ pub' \in [Publishers -> Publisher]
  BY <1>1, Knows
<1>3. TypeOK'
  BY <1>2 DEF IInv, TypeOK
<1>4. HandsDisjoint'
  BY <1>1, FewerInHand
<1>5. ASSUME NEW q \in Publishers PROVE PublisherConsistent(q)'
  BY <1>2, Knows DEF PublisherConsistent
<1>6. WrittenAtMostOnce' /\ StatusTellsOutcome'
  BY DEF IInv, WrittenAtMostOnce, StatusTellsOutcome
<1> QED
  BY <1>3, <1>4, <1>5, <1>6 DEF IInv

LEMMA StepIInv == IInv /\ [Next]_vars => IInv'
<1> SUFFICES ASSUME IInv, [Next]_vars PROVE IInv'
  OBVIOUS
<1> USE ConstantsAssumption
<1>1. errors \in Nat /\ crashes \in Nat /\ errors + 1 \in Nat /\ crashes + 1 \in Nat
  BY DEF IInv, TypeOK
<1>2. ASSUME NEW e \in Events, NEW t \in Stamps, Insert(e, t) PROVE IInv'
  BY <1>2, InsertIInv
<1>3. ASSUME NEW p \in Publishers, SelectPending(p) PROVE IInv'
  BY <1>3, SelectIInv
<1>4. ASSUME NEW p \in Publishers, CommitClaim(p) PROVE IInv'
  BY <1>1, <1>4, ClaimIInv DEF CommitClaim
<1>5. ASSUME NEW p \in Publishers, ClaimFails(p) PROVE IInv'
  BY <1>1, <1>5, ClaimIInv, StopIInv DEF ClaimFails, Error
<1>6. ASSUME NEW p \in Publishers, NEW e \in Events, PublishEvent(p, e) PROVE IInv'
  BY <1>6, PublishIInv
<1>7. ASSUME NEW p \in Publishers, Mark(p) \/ MarkFails(p) PROVE IInv'
  BY <1>1, <1>7, MarkIInv DEF Mark, MarkFails, Error
<1>8. ASSUME NEW p \in Publishers, Crash(p) PROVE IInv'
  BY <1>1, <1>8, StopIInv DEF Crash
<1>9. CASE UNCHANGED vars
  BY <1>9 DEF vars, IInv, TypeOK, WrittenAtMostOnce, StatusTellsOutcome,
              HandsDisjoint, InHand, PublisherConsistent
<1> QED
  BY <1>2, <1>3, <1>4, <1>5, <1>6, <1>7, <1>8, <1>9 DEF Next, Work

\* The invariant that carries the theorems below: every event in the hands of
\* a publisher is in the hands of that publisher only, with the row and the
\* number of writes that go with its step.
THEOREM Invariance == Spec => []IInv
<1> QED
  BY InitIInv, StepIInv, PTL DEF Spec

\* No event is handed to Kafka twice, however many replicas poll the table and
\* whatever fails: the row lock of ClaimBatch covers the time until the row is
\* CLAIMED, and nothing selects it after that.
THEOREM AtMostOnce == Spec => []WrittenAtMostOnce
<1>1. IInv => WrittenAtMostOnce
  BY DEF IInv
<1> QED
  BY <1>1, Invariance, PTL

\* A row says PUBLISHED only if its write reported no error, and FAILED only if it
\* was written and reported one: no mark goes to the row of another event, and no
\* late or repeated mark of another publisher overwrites it.  An event in its topic
\* has left PENDING for good, whatever its write reported.
THEOREM StatusTruthful == Spec => []StatusTellsOutcome
<1>1. IInv => StatusTellsOutcome
  BY DEF IInv
<1> QED
  BY <1>1, Invariance, PTL

-----------------------------------------------------------------------------
(* What the faults leave behind.                                           *)

LEMMA FiniteHands ==
  ASSUME IInv
  PROVE  /\ IsFiniteSet(Orphans) /\ Cardinality(Orphans) \in Nat
         /\ \A p \in Publishers : IsFiniteSet(InHand(p) \ {NoEvent})
                                  /\ Cardinality(InHand(p) \ {NoEvent}) \in Nat
<1>1. Orphans \subseteq Events
  BY DEF Orphans
<1>2. ASSUME NEW p \in Publishers PROVE InHand(p) \ {NoEvent} \subseteq Events
  BY Knows DEF InHand
<1> QED
  BY <1>1, <1>2, ConstantsAssumption, FS_Subset, FS_CardinalityType

\* What becomes of the hands of p in a step is what it held before, or a batch
\* that ClaimBatch selected.
LEMMA HandsStep ==
  ASSUME IInv, [Next]_vars, NEW p \in Publishers
  PROVE  \/ InHand(p)' \subseteq InHand(p) \cup {NoEvent}
         \/ \E B \in SUBSET Events :
              Cardinality(B) <= BatchSize /\ InHand(p)' = B \cup {NoEvent}
<1> USE DEF InHand
<1>1. CASE UNCHANGED pub
  BY <1>1
<1>2. ASSUME NEW q \in Publishers, q # p, NEW r, pub' = [pub EXCEPT ![q] = r]
      PROVE  InHand(p)' = InHand(p)
  BY <1>2, Knows
<1>3. ASSUME SelectPending(p)
      PROVE  \E B \in SUBSET Events :
               Cardinality(B) <= BatchSize /\ InHand(p)' = B \cup {NoEvent}
  <2>1. PICK B \in SUBSET Claimable :
          Cardinality(B) <= BatchSize /\ pub' = [pub EXCEPT ![p] = At("claiming", B)]
    BY <1>3 DEF SelectPending, OldestOf
  <2> QED
    BY <2>1, Knows DEF Claimable
<1>4. ASSUME CommitClaim(p) \/ ClaimFails(p) \/ Mark(p) \/ MarkFails(p) \/ Crash(p)
      PROVE  InHand(p)' \subseteq InHand(p) \cup {NoEvent}
  BY <1>4, Knows DEF CommitClaim, ClaimFails, Mark, MarkFails, Crash, Continue
<1>5. ASSUME NEW e \in Events, PublishEvent(p, e)
      PROVE  InHand(p)' \subseteq InHand(p) \cup {NoEvent}
  BY <1>5, Knows DEF PublishEvent, Written, IsNext
<1>6. ASSUME NEW q \in Publishers, q # p,
             Work(q) \/ ClaimFails(q) \/ MarkFails(q) \/ Crash(q)
      PROVE  InHand(p)' = InHand(p)
  <2>1. \E r : pub' = [pub EXCEPT ![q] = r]
    BY <1>6 DEF Work, SelectPending, CommitClaim, Mark, PublishEvent, ClaimFails,
                MarkFails, Crash
  <2> QED
    BY <1>2, <1>6, <2>1
<1> QED
  BY <1>1, <1>3, <1>4, <1>5, <1>6 DEF Next, Work, Insert, vars

LEMMA BatchesStep ==
  ASSUME IInv, BatchesBounded, [Next]_vars
  PROVE  BatchesBounded'
<1> SUFFICES ASSUME NEW p \in Publishers
             PROVE  Cardinality(InHand(p)' \ {NoEvent}) <= BatchSize
  BY DEF BatchesBounded
<1>1. CASE InHand(p)' \subseteq InHand(p) \cup {NoEvent}
  <2>1. InHand(p)' \ {NoEvent} \subseteq InHand(p) \ {NoEvent}
    BY <1>1
  <2>2. /\ Cardinality(InHand(p)' \ {NoEvent}) <= Cardinality(InHand(p) \ {NoEvent})
        /\ Cardinality(InHand(p)' \ {NoEvent}) \in Nat
    BY <2>1, FiniteHands, FS_Subset, FS_CardinalityType
  <2> QED
    BY <2>2, FiniteHands, ConstantsAssumption DEF BatchesBounded
<1>2. ASSUME NEW B \in SUBSET Events, Cardinality(B) <= BatchSize,
             InHand(p)' = B \cup {NoEvent}
      PROVE  Cardinality(InHand(p)' \ {NoEvent}) <= BatchSize
  <2>1. InHand(p)' \ {NoEvent} = B
    BY <1>2, ConstantsAssumption
  <2> QED
    BY <1>2, <2>1
<1> QED
  BY <1>1, <1>2, HandsStep

\* A step without a fault leaves no event behind: a row becomes CLAIMED in the
\* hands of its publisher, and leaves them written, with another status.
LEMMA NothingLeftBehind ==
  ASSUME IInv, NEW p \in Publishers, Work(p)
  PROVE  Orphans' \subseteq Orphans
<1> USE DEF InHand
<1> SUFFICES ASSUME NEW e \in Events, status'[e] = "CLAIMED",
                    \A q \in Publishers : e \notin InHand(q)'
             PROVE  status[e] = "CLAIMED" /\ \A q \in Publishers : e \notin InHand(q)
  BY DEF Orphans
<1>1. ASSUME NEW r, pub' = [pub EXCEPT ![p] = r]
      PROVE  /\ \A q \in Publishers \ {p} : e \notin InHand(q)
             /\ e \notin r.batch /\ e # r.event
  BY <1>1, Knows
<1>2. CASE SelectPending(p)
  <2>1. PublisherConsistent(p) /\ pub[p].at = "waiting" /\ e # NoEvent
    BY <1>2, Knows, ConstantsAssumption DEF SelectPending
  <2>2. e \notin InHand(p)
    BY <2>1 DEF PublisherConsistent
  <2>3. status[e] = "CLAIMED" /\ \E r : pub' = [pub EXCEPT ![p] = r]
    BY <1>2 DEF SelectPending
  <2> QED
    BY <1>1, <2>2, <2>3
<1>3. CASE CommitClaim(p)
  <2>1. e \notin pub[p].batch /\ \A q \in Publishers \ {p} : e \notin InHand(q)
    BY <1>1, <1>3 DEF CommitClaim
  <2>2. status[e] = "CLAIMED"
    BY <1>3, <2>1, Knows DEF CommitClaim, WithClaimed
  <2>3. pub[p].event = NoEvent
    BY <1>3, Knows DEF CommitClaim, PublisherConsistent
  <2> QED
    BY <2>1, <2>2, <2>3, ConstantsAssumption
<1>4. CASE Mark(p)
  <2>1. e \notin pub[p].batch /\ \A q \in Publishers \ {p} : e \notin InHand(q)
    BY <1>1, <1>4 DEF Mark, Continue
  <2>2. pub[p].event \in Events
    BY <1>4, Knows DEF Mark, PublisherConsistent
  <2>3. e # pub[p].event /\ status[e] = "CLAIMED"
    BY <1>4, <2>2, Knows DEF Mark, Marked, MarkOf
  <2> QED
    BY <2>1, <2>3
<1>5. ASSUME NEW f \in Events, PublishEvent(p, f)
      PROVE  status[e] = "CLAIMED" /\ \A q \in Publishers : e \notin InHand(q)
  <2>1. PICK ok \in BOOLEAN : pub' = [pub EXCEPT ![p] = Written(f, pub[p].batch, ok)]
    BY <1>5 DEF PublishEvent
  <2> DEFINE r == Written(f, pub[p].batch, ok)
  <2> HIDE DEF r
  <2>2. /\ e \notin r.batch /\ e # r.event
        /\ \A q \in Publishers \ {p} : e \notin InHand(q)
    <3>1. pub' = [pub EXCEPT ![p] = r]
      BY <2>1 DEF r
    <3> QED
      BY <1>1, <3>1
  <2>3. pub[p].event = NoEvent /\ status[e] = "CLAIMED"
    BY <1>5, Knows DEF PublishEvent, PublisherConsistent
  <2>4. r.batch = pub[p].batch \ {f} /\ r.event = f
    BY DEF r, Written
  <2> QED
    BY <2>2, <2>3, <2>4, ConstantsAssumption
<1> QED
  BY <1>2, <1>3, <1>4, <1>5 DEF Work

\* A fault of p leaves behind what p had in its hands, and no more.
LEMMA LeftBehind ==
  ASSUME IInv, NEW p \in Publishers, ClaimFails(p) \/ MarkFails(p) \/ Crash(p)
  PROVE  Orphans' \subseteq Orphans \cup (InHand(p) \ {NoEvent})
<1> USE DEF InHand
<1> SUFFICES ASSUME NEW e \in Events, status'[e] = "CLAIMED", e \notin InHand(p),
                    \A q \in Publishers : e \notin InHand(q)'
             PROVE  status[e] = "CLAIMED" /\ \A q \in Publishers : e \notin InHand(q)
  BY ConstantsAssumption DEF Orphans
<1>1. \A q \in Publishers \ {p} : e \notin InHand(q)
  BY Knows DEF ClaimFails, MarkFails, Crash
<1>2. status[e] = "CLAIMED"
  BY Knows DEF ClaimFails, MarkFails, Crash, WithClaimed, Marked
<1> QED
  BY <1>1, <1>2

LEMMA OrphansStep ==
  ASSUME IInv, BatchesBounded, OrphansBounded, [Next]_vars
  PROVE  OrphansBounded'
<1>1. /\ errors \in Nat /\ crashes \in Nat /\ BatchSize \in Nat
      /\ IsFiniteSet(Orphans) /\ Cardinality(Orphans) \in Nat
      /\ Cardinality(Orphans) <= BatchSize * (errors + crashes)
  BY FiniteHands, ConstantsAssumption DEF IInv, TypeOK, OrphansBounded
<1>2. ASSUME Orphans' \subseteq Orphans,
             UNCHANGED <<errors, crashes>> \/ (errors' = errors + 1 /\ crashes' = crashes)
      PROVE  OrphansBounded'
  <2>1. Cardinality(Orphans') <= Cardinality(Orphans) /\ Cardinality(Orphans') \in Nat
    BY <1>1, <1>2, FS_Subset, FS_CardinalityType
  <2>2. BatchSize * (errors' + crashes') \in Nat
        /\ BatchSize * (errors + crashes) <= BatchSize * (errors' + crashes')
    <3>1. CASE UNCHANGED <<errors, crashes>>
      BY <1>1, <3>1
    <3>2. CASE errors' = errors + 1 /\ crashes' = crashes
      <4>1. BatchSize * (errors' + crashes') = BatchSize * (errors + crashes) + BatchSize
        BY <1>1, <3>2
      <4> QED
        BY <1>1, <4>1
    <3> QED
      BY <1>2, <3>1, <3>2
  <2> QED
    BY <1>1, <2>1, <2>2 DEF OrphansBounded
<1>3. ASSUME NEW e \in Events, NEW t \in Stamps, Insert(e, t) PROVE OrphansBounded'
  <2>1. Orphans' \subseteq Orphans
    BY <1>3 DEF Insert, Orphans, InHand, IInv, TypeOK
  <2> QED
    BY <1>2, <1>3, <2>1 DEF Insert
<1>4. ASSUME NEW p \in Publishers, Work(p) PROVE OrphansBounded'
  <2>1. UNCHANGED <<errors, crashes>> \/ (errors' = errors + 1 /\ crashes' = crashes)
    BY <1>4 DEF Work, SelectPending, CommitClaim, Mark, PublishEvent, Error
  <2> QED
    BY <1>2, <1>4, <2>1, NothingLeftBehind
<1>5. ASSUME NEW p \in Publishers, ClaimFails(p) \/ MarkFails(p) \/ Crash(p)
      PROVE  OrphansBounded'
  <2> DEFINE H == InHand(p) \ {NoEvent}
  <2>1. /\ IsFiniteSet(H) /\ Cardinality(H) \in Nat /\ Cardinality(H) <= BatchSize
        /\ Orphans' \subseteq Orphans \cup H
    BY <1>5, FiniteHands, LeftBehind DEF BatchesBounded
  <2> HIDE DEF H
  <2>2. /\ IsFiniteSet(Orphans \cup H)
        /\ Cardinality(Orphans \cup H) <= Cardinality(Orphans) + Cardinality(H)
    <3>1. IsFiniteSet(Orphans \cap H) /\ Cardinality(Orphans \cap H) \in Nat
      BY <1>1, <2>1, FS_Intersection, FS_CardinalityType
    <3>2. /\ IsFiniteSet(Orphans \cup H)
          /\ Cardinality(Orphans \cup H)
               = Cardinality(Orphans) + Cardinality(H) - Cardinality(Orphans \cap H)
      BY <1>1, <2>1, FS_Union
    <3> QED
      BY <1>1, <2>1, <3>1, <3>2
  <2>3. Cardinality(Orphans') <= Cardinality(Orphans \cup H) /\ Cardinality(Orphans') \in Nat
        /\ Cardinality(Orphans \cup H) \in Nat
    BY <2>1, <2>2, FS_Subset, FS_CardinalityType
  <2>4. errors' + crashes' = errors + crashes + 1
    BY <1>1, <1>5 DEF ClaimFails, MarkFails, Crash, Error
  <2>5. BatchSize * (errors' + crashes') = BatchSize * (errors + crashes) + BatchSize
    BY <1>1, <2>4
  <2> QED
    BY <1>1, <2>1, <2>2, <2>3, <2>5 DEF OrphansBounded
<1>6. CASE UNCHANGED vars
  BY <1>6 DEF vars, OrphansBounded, Orphans, InHand
<1> QED
  BY <1>3, <1>4, <1>5, <1>6 DEF Next

\* The claimed rows that nobody works on any more, and that no publisher selects
\* again, are the remains of faults: one batch of ClaimBatch's limit at most for
\* every error and every crash, however many replicas poll the table.
THEOREM FewOrphans == Spec => []OrphansBounded
<1>1. Init => BatchesBounded /\ OrphansBounded
  <2> SUFFICES ASSUME Init PROVE BatchesBounded /\ OrphansBounded
    OBVIOUS
  <2>1. Orphans = {} /\ \A p \in Publishers : InHand(p) \ {NoEvent} = {}
    BY DEF Init, Orphans, InHand
  <2>2. Cardinality({}) = 0
    BY FS_EmptySet
  <2>3. BatchSize * (errors + crashes) = 0 /\ 0 <= BatchSize
    BY ConstantsAssumption DEF Init
  <2> QED
    BY <2>1, <2>2, <2>3 DEF BatchesBounded, OrphansBounded
<1>2. IInv /\ BatchesBounded /\ OrphansBounded /\ [Next]_vars
        => BatchesBounded' /\ OrphansBounded'
  BY BatchesStep, OrphansStep
<1> QED
  BY <1>1, <1>2, Invariance, PTL DEF Spec

=============================================================================
