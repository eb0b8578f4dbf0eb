--------------------------- MODULE Consumer_proofs ---------------------------
(***************************************************************************)
(* Invariants of Consumer for any number of members, messages, retries,    *)
(* errors, crashes and rebalances.                                         *)
(***************************************************************************)
EXTENDS Consumer, FiniteSetTheorems, TLAPS

USE ConstantsAssumption DEF Msgs, Member, Reading

LEMMA InitIInv == Init => IInv
<1> SUFFICES ASSUME Init PROVE IInv
  OBVIOUS
<1> USE DEF Init
<1>1. TypeOK
  BY DEF TypeOK
<1>2. HandledAtMostOnce /\ SingleReader
  BY DEF HandledAtMostOnce, SingleReader
<1> QED
  BY <1>1, <1>2 DEF IInv

LEMMA Knows ==
  ASSUME IInv, NEW m \in Members
  PROVE  /\ member \in [Members -> Member] /\ member[m] \in Member
         /\ member[m].at = "reading" <=> member[m].msg = 0
         /\ member[m].at # "reading" => member[m].msg \in Msgs
         /\ committed \in 0..MsgCount /\ position \in 1..(MsgCount + 1)
         /\ owner \in Members \cup {NoMember}
         /\ handled \in [Msgs -> Nat] /\ dead \subseteq Msgs
         /\ errors \in Nat /\ crashes \in Nat /\ rebalances \in Nat
BY DEF IInv, TypeOK

\* One member changes; the others stay as they are.
LEMMA ReplaceMember ==
  ASSUME IInv, NEW m \in Members, NEW r \in Member, Become(m, r)
  PROVE  /\ member' \in [Members -> Member]
         /\ member'[m] = r
         /\ \A n \in Members \ {m} : member'[n] = member[n]
BY Knows DEF Become

\* While the partition was never taken from a live member, m is the only one
\* that can have a message in hand.
LEMMA OnlyOwner ==
  ASSUME IInv, rebalances = 0, NEW m \in Members, member[m].at # "reading"
  PROVE  /\ owner = m /\ position > committed
         /\ \A n \in Members \ {m} : member[n].at = "reading"
         /\ \A msg \in Msgs : msg > committed => handled[msg] = 0
         /\ member[m].at = "committing" =>
              member[m].msg > committed /\ member[m].msg < position
         /\ member[m].at \in {"handling", "deadLetter", "recommitting"} =>
              member[m].msg = committed
         /\ member[m].at \in {"handling", "deadLetter"} => handled[member[m].msg] = 0
BY DEF IInv, SingleReader

\* The same facts after a step, put together again.
LEMMA StillOnlyOwner ==
  ASSUME NEW m \in Members,
         \A n \in Members \ {m} : member'[n].at = "reading",
         owner' # m => member'[m].at = "reading",
         owner' # NoMember => position' > committed',
         \A msg \in Msgs : msg > committed' => handled'[msg] = 0,
         member'[m].at = "committing" =>
           member'[m].msg > committed' /\ member'[m].msg < position',
         member'[m].at \in {"handling", "deadLetter", "recommitting"} =>
           member'[m].msg = committed',
         member'[m].at \in {"handling", "deadLetter"} => handled'[member'[m].msg] = 0
  PROVE  SingleReader'
BY DEF SingleReader

LEMMA FetchIInv ==
  ASSUME IInv, NEW m \in Members, FetchMessage(m)
  PROVE  IInv'
<1>1. /\ member' \in [Members -> Member]
      /\ member'[m] = [at |-> "committing", msg |-> position, attempt |-> 0]
      /\ \A n \in Members \ {m} : member'[n] = member[n]
  BY ReplaceMember DEF FetchMessage
<1>2. position' = position + 1 /\ position \in Msgs /\ owner = m
  BY DEF FetchMessage
<1>3. TypeOK'
  BY <1>1, <1>2 DEF FetchMessage, IInv, TypeOK
<1>4. \A n \in Members : (member[n].at = "reading" <=> member[n].msg = 0)'
  BY <1>1, <1>2 DEF IInv
<1>5. HandledAtMostOnce'
  BY DEF FetchMessage, IInv, HandledAtMostOnce
<1>6. ASSUME rebalances = 0 PROVE SingleReader'
  <2>1. /\ SingleReader /\ position > committed
        /\ \A n \in Members \ {m} : member[n].at = "reading"
        /\ \A msg \in Msgs : msg > committed => handled[msg] = 0
    BY <1>2, <1>6 DEF IInv, SingleReader
  <2>2. position' > committed /\ position \in Nat /\ position < position'
    BY <1>2, <2>1, Knows
  <2>3. UNCHANGED <<committed, owner, handled>>
    BY DEF FetchMessage
  <2> QED
    BY <1>1, <1>2, <2>1, <2>2, <2>3, StillOnlyOwner
<1> QED
  BY <1>3, <1>4, <1>5, <1>6 DEF FetchMessage, IInv

LEMMA CommitIInv ==
  ASSUME IInv, NEW m \in Members, CommitFirst(m) \/ CommitFirstFails(m)
  PROVE  IInv'
<1>1. PICK r \in {[at |-> "handling", msg |-> member[m].msg, attempt |-> 0], Reading} :
        /\ Become(m, r)
        /\ committed' \in {committed, member[m].msg}
        /\ r # Reading => committed' = member[m].msg
  BY DEF CommitFirst, CommitFirstFails, GoTo, CommittedAs
<1>2. /\ member[m].at = "committing" /\ member[m].msg \in Msgs
      /\ errors' \in Nat
      /\ UNCHANGED <<owner, position, handled, dead, crashes, rebalances>>
  BY Knows DEF CommitFirst, CommitFirstFails, Error
<1>3. r \in Member
  BY <1>2
<1>4. /\ member' \in [Members -> Member] /\ member'[m] = r
      /\ \A n \in Members \ {m} : member'[n] = member[n]
  BY <1>1, <1>3, ReplaceMember
<1>5. TypeOK'
  BY <1>1, <1>2, <1>4, Knows DEF IInv, TypeOK
<1>6. \A n \in Members : (member[n].at = "reading" <=> member[n].msg = 0)'
  BY <1>2, <1>4 DEF IInv
<1>7. HandledAtMostOnce'
  BY <1>2 DEF IInv, HandledAtMostOnce
<1>8. ASSUME rebalances = 0 PROVE SingleReader'
  <2>1. /\ owner = m /\ position > committed /\ position > member[m].msg
        /\ member[m].msg > committed
        /\ \A n \in Members \ {m} : member[n].at = "reading"
        /\ \A msg \in Msgs : msg > committed => handled[msg] = 0
    BY <1>2, <1>8, OnlyOwner
  <2>2. /\ position' > committed'
        /\ \A msg \in Msgs : msg > committed' => handled'[msg] = 0
    BY <1>1, <1>2, <2>1, Knows
  <2>3. handled'[member[m].msg] = 0
    BY <1>2, <2>1
  <2> QED
    BY <1>1, <1>2, <1>4, <2>1, <2>2, <2>3, StillOnlyOwner
<1> QED
  BY <1>2, <1>5, <1>6, <1>7, <1>8 DEF IInv

LEMMA HandleIInv ==
  ASSUME IInv, NEW m \in Members, HandleMessage(m)
  PROVE  IInv'
<1> DEFINE r == [at |-> "recommitting", msg |-> member[m].msg, attempt |-> 0]
<1>1. /\ member[m].at = "handling" /\ member[m].msg \in Msgs
      /\ handled' = [handled EXCEPT ![member[m].msg] = @ + 1]
      /\ UNCHANGED <<committed, owner, position, dead, errors, crashes, rebalances>>
  BY Knows DEF HandleMessage
<1>2. /\ member' \in [Members -> Member] /\ member'[m] = r
      /\ \A n \in Members \ {m} : member'[n] = member[n]
  BY <1>1, ReplaceMember DEF HandleMessage, GoTo
<1>3. TypeOK'
  BY <1>1, <1>2, Knows DEF IInv, TypeOK
<1>4. \A n \in Members : (member[n].at = "reading" <=> member[n].msg = 0)'
  BY <1>1, <1>2 DEF IInv
<1>5. ASSUME rebalances = 0
      PROVE  SingleReader' /\ \A msg \in Msgs : handled'[msg] <= 1
  <2>1. /\ owner = m /\ position > committed /\ handled[member[m].msg] = 0
        /\ member[m].msg = committed
        /\ \A n \in Members \ {m} : member[n].at = "reading"
        /\ \A msg \in Msgs : msg > committed => handled[msg] = 0
    BY <1>1, <1>5, OnlyOwner
  <2>2. /\ handled'[member[m].msg] = 1
        /\ \A msg \in Msgs \ {member[m].msg} : handled'[msg] = handled[msg]
    BY <1>1, <2>1, Knows
  <2>3. \A msg \in Msgs : handled[msg] <= 1
    BY <1>5 DEF IInv, HandledAtMostOnce
  <2>4. \A msg \in Msgs : handled'[msg] <= 1
    BY <2>2, <2>3
  <2>5. \A msg \in Msgs : msg > committed' => handled'[msg] = 0
    BY <1>1, <2>1, <2>2, Knows
  <2> QED
    BY <1>1, <1>2, <2>1, <2>4, <2>5, StillOnlyOwner
<1> QED
  BY <1>1, <1>3, <1>4, <1>5 DEF IInv, HandledAtMostOnce

\* An attempt of the handler fails, for whatever reason.
AttemptEnds(m) ==
  /\ member[m].at = "handling"
  /\ AttemptFailed(m)
  /\ errors' \in Nat
  /\ UNCHANGED <<committed, owner, position, handled, dead, crashes, rebalances>>

\* The steps of m between the handler and the next message, the failures of the
\* handler included: they move the group's offset to the message at most.
LEMMA FinishIInv ==
  ASSUME IInv, NEW m \in Members,
         AttemptEnds(m) \/ SendToDLQ(m) \/ CommitMessages(m)
  PROVE  IInv'
<1>1. /\ member[m].at \in {"handling", "deadLetter", "recommitting"}
      /\ member[m].msg \in Msgs /\ member[m].attempt \in 0..MaxRetries
      /\ UNCHANGED <<owner, position, handled, crashes, rebalances>>
      /\ committed' \in {committed, member[m].msg}
      /\ dead' \subseteq Msgs /\ errors' \in Nat
  BY Knows DEF AttemptEnds, SendToDLQ, CommitMessages, Error, Kept, TopicAccepted
<1>2. PICK r \in Member :
        /\ Become(m, r)
        /\ \/ r = Reading
           \/ /\ r.msg = member[m].msg
              /\ r.at \in {"handling", "deadLetter", "recommitting"}
              /\ r.at \in {"handling", "deadLetter"} => member[m].at = "handling"
  <2>1. CASE AttemptEnds(m)
    <3>1. CASE member[m].attempt < MaxRetries
      <4> DEFINE r == [at |-> "handling", msg |-> member[m].msg,
                       attempt |-> NextAttempt(member[m].attempt)]
      <4>1. r \in Member
        BY <1>1, <3>1 DEF NextAttempt
      <4>2. Become(m, r) /\ member[m].at = "handling"
        BY <2>1, <3>1 DEF AttemptEnds, AttemptFailed
      <4> QED
        BY <4>1, <4>2
    <3>2. CASE ~(member[m].attempt < MaxRetries)
      <4> DEFINE r == [at |-> "deadLetter", msg |-> member[m].msg, attempt |-> 0]
      <4>1. r \in Member
        BY <1>1
      <4>2. Become(m, r) /\ member[m].at = "handling"
        BY <2>1, <3>2 DEF AttemptEnds, AttemptFailed, GoTo
      <4> QED
        BY <4>1, <4>2
    <3> QED
      BY <3>1, <3>2
  <2>2. CASE SendToDLQ(m)
    <3> DEFINE r == [at |-> "recommitting", msg |-> member[m].msg, attempt |-> 0]
    <3>1. r \in Member /\ Become(m, r)
      BY <1>1, <2>2 DEF SendToDLQ, GoTo
    <3> QED
      BY <3>1
  <2>3. CASE CommitMessages(m)
    BY <2>3 DEF CommitMessages
  <2> QED
    BY <2>1, <2>2, <2>3
<1>3. /\ member' \in [Members -> Member] /\ member'[m] = r
      /\ \A n \in Members \ {m} : member'[n] = member[n]
  BY <1>2, ReplaceMember
<1>4. TypeOK'
  BY <1>1, <1>3, Knows DEF IInv, TypeOK
<1>5. \A n \in Members : (member[n].at = "reading" <=> member[n].msg = 0)'
  BY <1>1, <1>2, <1>3 DEF IInv
<1>6. HandledAtMostOnce'
  BY <1>1 DEF IInv, HandledAtMostOnce
<1>7. ASSUME rebalances = 0 PROVE SingleReader'
  <2>1. /\ owner = m /\ position > committed
        /\ member[m].msg = committed /\ committed' = committed
        /\ member[m].at = "handling" => handled[member[m].msg] = 0
        /\ \A n \in Members \ {m} : member[n].at = "reading"
        /\ \A msg \in Msgs : msg > committed => handled[msg] = 0
    BY <1>1, <1>7, OnlyOwner
  <2> QED
    BY <1>1, <1>2, <1>3, <2>1, StillOnlyOwner
<1> QED
  BY <1>1, <1>4, <1>5, <1>6, <1>7 DEF IInv

LEMMA GroupIInv ==
  ASSUME IInv, Rebalance \/ \E m \in Members : Assign(m) \/ Crash(m)
  PROVE  IInv'
<1>1. CASE Rebalance
  <2>1. rebalances' # 0 /\ TypeOK'
    BY <1>1 DEF Rebalance, IInv, TypeOK
  <2> QED
    BY <1>1, <2>1 DEF Rebalance, IInv, HandledAtMostOnce
<1>2. ASSUME NEW m \in Members, Assign(m) PROVE IInv'
  <2>1. position' = committed + 1 /\ committed \in 0..MsgCount
    BY <1>2, Knows DEF Assign
  <2>2. TypeOK'
    BY <1>2, <2>1 DEF Assign, IInv, TypeOK
  <2>3. ASSUME rebalances = 0 PROVE SingleReader'
    <3>1. /\ \A n \in Members : member'[n].at = "reading"
          /\ \A msg \in Msgs : msg > committed' => handled'[msg] = 0
      BY <1>2, <2>3 DEF Assign, IInv, SingleReader
    <3>2. position' > committed'
      BY <1>2, <2>1 DEF Assign
    <3> QED
      BY <3>1, <3>2, StillOnlyOwner
  <2> QED
    BY <1>2, <2>2, <2>3 DEF Assign, IInv, HandledAtMostOnce
<1>3. ASSUME NEW m \in Members, Crash(m) PROVE IInv'
  <2>1. /\ member' \in [Members -> Member] /\ member'[m] = Reading
        /\ \A n \in Members \ {m} : member'[n] = member[n]
    BY <1>3, ReplaceMember DEF Crash
  <2>2. TypeOK'
    BY <1>3, <2>1 DEF Crash, IInv, TypeOK
  <2>3. ASSUME rebalances = 0 PROVE SingleReader'
    BY <1>3, <2>1, <2>3 DEF Crash, IInv, SingleReader
  <2>4. \A n \in Members : (member[n].at = "reading" <=> member[n].msg = 0)'
    BY <2>1 DEF IInv
  <2> QED
    BY <1>3, <2>2, <2>3, <2>4 DEF Crash, IInv, HandledAtMostOnce
<1> QED
  BY <1>1, <1>2, <1>3

LEMMA StepIInv == IInv /\ [Next]_vars => IInv'
<1> SUFFICES ASSUME IInv, [Next]_vars PROVE IInv'
  OBVIOUS
<1>1. ASSUME NEW m \in Members, Work(m) PROVE IInv'
  <2>1. HandlerFails(m) => AttemptEnds(m)
    BY Knows DEF HandlerFails, AttemptEnds, Error
  <2> QED
    BY <1>1, <2>1, FetchIInv, CommitIInv, HandleIInv, FinishIInv DEF Work
<1>2. CASE UNCHANGED vars
  BY <1>2 DEF vars, IInv, TypeOK, HandledAtMostOnce, SingleReader
<1> QED
  BY <1>1, <1>2, GroupIInv DEF Next

\* The invariant behind the theorem: while the partition is not taken from a
\* live member, only its owner has a message in hand, and the group's offset is
\* exactly that message as soon as the handler may run.
THEOREM Invariance == Spec => []IInv
<1> QED
  BY InitIInv, StepIInv, PTL DEF Spec

\* Committing before handling makes the consumer at-most-once under crashes and
\* failed commits, for every number of members and messages.
THEOREM AtMostOnce == Spec => []HandledAtMostOnce
<1>1. IInv => HandledAtMostOnce
  BY DEF IInv
<1> QED
  BY <1>1, Invariance, PTL

-----------------------------------------------------------------------------
(* The messages that get lost.                                             *)

LEMMA FiniteMissed ==
  /\ IsFiniteSet(Missed) /\ Cardinality(Missed) \in Nat
  /\ IsFiniteSet(Poison) /\ Cardinality(Poison) \in Nat
<1>1. IsFiniteSet(Msgs)
  BY FS_Interval
<1>2. Missed \subseteq Msgs /\ Poison \subseteq Msgs
  BY DEF Missed
<1> QED
  BY <1>1, <1>2, FS_Subset, FS_CardinalityType

\* A step after which nobody has got further, and whose messages in progress
\* stay in progress except for those in X, misses those in X at most.
LEMMA MissedStep ==
  ASSUME NEW X,
         \A msg \in Msgs : handled'[msg] = 0 => handled[msg] = 0,
         dead \subseteq dead',
         \A msg \in Msgs :
           Reached(msg)' => \/ Reached(msg)
                            \/ \E m \in Members : InProgress(m)' /\ member'[m].msg = msg,
         \A m \in Members :
           InProgress(m) => \/ member[m].msg \in X
                            \/ InProgress(m)' /\ member'[m].msg = member[m].msg
                            \/ handled'[member[m].msg] # 0
  PROVE  Missed' \subseteq Missed \cup X
BY DEF Missed

\* What a step of m does to the others.
LEMMA OthersAsBefore ==
  ASSUME NEW m \in Members, NEW r, Become(m, r), IInv
  PROVE  /\ member'[m] = r
         /\ \A n \in Members \ {m} : /\ member'[n] = member[n]
                                     /\ InProgress(n)' = InProgress(n)
BY Knows DEF Become, InProgress

LEMMA FetchMisses ==
  ASSUME IInv, NEW m \in Members, FetchMessage(m)
  PROVE  Missed' \subseteq Missed
<1>1. /\ member'[m] = [at |-> "committing", msg |-> position, attempt |-> 0]
      /\ member[m].at = "reading" /\ owner = m /\ position \in Msgs
      /\ position' = position + 1
      /\ UNCHANGED <<committed, owner, handled, dead>>
      /\ \A n \in Members \ {m} : member'[n] = member[n] /\ InProgress(n)' = InProgress(n)
  BY OthersAsBefore DEF FetchMessage
<1>2. InProgress(m)' /\ member'[m].msg = position /\ ~InProgress(m)
  BY <1>1 DEF InProgress
<1>3. ASSUME NEW msg \in Msgs, Reached(msg)'
      PROVE  \/ Reached(msg)
             \/ \E n \in Members : InProgress(n)' /\ member'[n].msg = msg
  <2>1. CASE msg = position
    BY <1>2, <2>1
  <2>2. CASE msg < position
    BY <1>1, <2>2 DEF Reached
  <2>3. CASE msg > position
    BY <1>1, <1>3, <2>3 DEF Reached
  <2> QED
    BY <1>1, <2>1, <2>2, <2>3
<1>4. Missed' \subseteq Missed \cup {}
  BY <1>1, <1>2, <1>3, MissedStep
<1> QED
  BY <1>4

\* The steps with which m keeps its message or puts it down.
LEMMA HandMisses ==
  ASSUME IInv, NEW m \in Members, NEW X, NEW r, Become(m, r),
         r.msg \in {0, member[m].msg},
         committed' \in {committed, member[m].msg},
         UNCHANGED <<owner, position>> \/ owner' = NoMember,
         dead \subseteq dead',
         \A msg \in Msgs : handled'[msg] = 0 => handled[msg] = 0,
         InProgress(m) => \/ member[m].msg \in X
                          \/ r.at \in {"committing", "handling"} /\ r.msg = member[m].msg
                          \/ handled'[member[m].msg] # 0
  PROVE  Missed' \subseteq Missed \cup X
<1>1. /\ member'[m] = r
      /\ \A n \in Members \ {m} : member'[n] = member[n] /\ InProgress(n)' = InProgress(n)
  BY OthersAsBefore
<1>2. InProgress(m) => \/ member[m].msg \in X
                       \/ InProgress(m)' /\ member'[m].msg = member[m].msg
                       \/ handled'[member[m].msg] # 0
  BY <1>1 DEF InProgress
<1>3. ASSUME NEW msg \in Msgs, Reached(msg)' PROVE Reached(msg)
  <2>1. CASE msg <= committed'
    BY <2>1 DEF Reached
  <2>2. CASE owner' # NoMember /\ msg < position'
    BY <2>2 DEF Reached
  <2>3. ASSUME NEW n \in Members, msg <= member'[n].msg PROVE Reached(msg)
    <3>1. member'[n].msg \in {0, member[n].msg}
      BY <1>1
    <3> QED
      BY <2>3, <3>1 DEF Reached
  <2> QED
    BY <1>3, <2>1, <2>2, <2>3 DEF Reached
<1> QED
  BY <1>1, <1>2, <1>3, MissedStep

\* Every step misses at most one message, and none without a fault.
LEMMA WorkMisses ==
  ASSUME IInv, NEW m \in Members, Work(m) \/ Crash(m)
  PROVE  \/ Missed' \subseteq Missed /\ errors' + crashes' >= errors + crashes
         \/ /\ \E msg \in Msgs : Missed' \subseteq Missed \cup {msg}
            /\ errors' + crashes' = errors + crashes + 1
<1>1. /\ errors \in Nat /\ crashes \in Nat /\ handled \in [Msgs -> Nat]
      /\ member[m].at # "reading" => member[m].msg \in Msgs
      /\ member[m].at = "reading" => member[m].msg = 0
  BY Knows
<1>2. CASE FetchMessage(m)
  BY <1>1, <1>2, FetchMisses DEF FetchMessage
<1>3. CASE CommitFirst(m)
  <2> DEFINE r == [at |-> "handling", msg |-> member[m].msg, attempt |-> 0]
  <2>1. Missed' \subseteq Missed \cup {}
    BY <1>3, HandMisses DEF CommitFirst, GoTo, CommittedAs
  <2> QED
    BY <1>1, <1>3, <2>1 DEF CommitFirst
<1>4. CASE CommitFirstFails(m)
  <2>1. Missed' \subseteq Missed \cup {member[m].msg}
    BY <1>4, HandMisses DEF CommitFirstFails
  <2>2. errors' + crashes' = errors + crashes + 1 /\ member[m].msg \in Msgs
    BY <1>1, <1>4 DEF CommitFirstFails, Error
  <2> QED
    BY <2>1, <2>2
<1>5. CASE HandleMessage(m)
  <2>1. /\ member[m].msg \in Msgs
        /\ handled'[member[m].msg] # 0
        /\ \A msg \in Msgs : handled'[msg] = 0 => handled[msg] = 0
    BY <1>1, <1>5 DEF HandleMessage
  <2>2. Missed' \subseteq Missed \cup {}
    BY <1>5, <2>1, HandMisses DEF HandleMessage, GoTo
  <2> QED
    BY <1>1, <1>5, <2>2 DEF HandleMessage
<1>6. CASE HandlerFails(m)
  <2>1. Missed' \subseteq Missed \cup {member[m].msg}
    <3>1. \E r : Become(m, r) /\ r.msg = member[m].msg
      BY <1>6 DEF HandlerFails, AttemptFailed, GoTo
    <3> QED
      BY <1>6, <3>1, HandMisses DEF HandlerFails
  <2>2. CASE member[m].msg \in Poison
    <3>1. Missed' \subseteq Missed
      BY <2>1, <2>2 DEF Missed
    <3> QED
      BY <1>1, <1>6, <2>2, <3>1 DEF HandlerFails
  <2>3. CASE member[m].msg \notin Poison
    <3>1. errors' + crashes' = errors + crashes + 1 /\ member[m].msg \in Msgs
      BY <1>1, <1>6, <2>3 DEF HandlerFails, Error
    <3> QED
      BY <2>1, <3>1
  <2> QED
    BY <2>2, <2>3
<1>7. CASE SendToDLQ(m)
  <2>1. dead \subseteq dead' /\ ~InProgress(m)
    BY <1>7 DEF SendToDLQ, Kept, InProgress
  <2>2. Missed' \subseteq Missed \cup {}
    BY <1>7, <2>1, HandMisses DEF SendToDLQ, GoTo
  <2> QED
    BY <1>1, <1>7, <2>2 DEF SendToDLQ
<1>8. CASE CommitMessages(m)
  <2>1. Missed' \subseteq Missed \cup {}
    BY <1>8, HandMisses DEF CommitMessages, InProgress
  <2> QED
    BY <1>1, <1>8, <2>1 DEF CommitMessages, Error
<1>9. CASE Crash(m)
  <2>1. Missed' \subseteq Missed \cup {member[m].msg}
    BY <1>9, HandMisses DEF Crash
  <2>2. errors' + crashes' = errors + crashes + 1
    BY <1>1, <1>9 DEF Crash
  <2>3. CASE member[m].msg = 0
    <3>1. 0 \notin Missed'
      BY DEF Missed
    <3>2. Missed' \subseteq Missed
      BY <2>1, <2>3, <3>1
    <3> QED
      BY <1>1, <2>2, <3>2
  <2>4. CASE member[m].msg # 0
    BY <1>1, <2>1, <2>2, <2>4
  <2> QED
    BY <2>3, <2>4
<1> QED
  BY <1>2, <1>3, <1>4, <1>5, <1>6, <1>7, <1>8, <1>9 DEF Work

LEMMA MissedBoundedStep ==
  ASSUME IInv, MissedBounded, [Next]_vars
  PROVE  MissedBounded'
<1>1. /\ errors \in Nat /\ crashes \in Nat /\ Cardinality(Missed) <= errors + crashes
      /\ IsFiniteSet(Missed) /\ Cardinality(Missed) \in Nat
  BY FiniteMissed DEF IInv, TypeOK, MissedBounded
<1>2. ASSUME Missed' \subseteq Missed, errors' + crashes' >= errors + crashes,
             errors' + crashes' \in Nat
      PROVE  MissedBounded'
  <2>1. Cardinality(Missed') <= Cardinality(Missed) /\ Cardinality(Missed') \in Nat
    BY <1>1, <1>2, FS_Subset, FS_CardinalityType
  <2> QED
    BY <1>1, <1>2, <2>1 DEF MissedBounded
<1>3. ASSUME NEW msg \in Msgs, Missed' \subseteq Missed \cup {msg},
             errors' + crashes' = errors + crashes + 1
      PROVE  MissedBounded'
  <2>1. /\ IsFiniteSet(Missed \cup {msg})
        /\ Cardinality(Missed \cup {msg}) \in {Cardinality(Missed), Cardinality(Missed) + 1}
    BY <1>1, FS_AddElement
  <2>2. /\ Cardinality(Missed') <= Cardinality(Missed \cup {msg})
        /\ Cardinality(Missed') \in Nat
    BY <1>3, <2>1, FS_Subset, FS_CardinalityType
  <2> QED
    BY <1>1, <1>3, <2>1, <2>2 DEF MissedBounded
<1>4. errors' + crashes' \in Nat
  <2>1. IInv'
    BY StepIInv
  <2>2. errors' \in Nat /\ crashes' \in Nat
    BY <2>1 DEF IInv, TypeOK
  <2>3. \A a, b \in Nat : a + b \in Nat
    OBVIOUS
  <2> QED
    BY <2>2, <2>3
<1>5. ASSUME NEW m \in Members, Work(m) \/ Crash(m) PROVE MissedBounded'
  <2>1. \/ Missed' \subseteq Missed /\ errors' + crashes' >= errors + crashes
        \/ /\ \E msg \in Msgs : Missed' \subseteq Missed \cup {msg}
           /\ errors' + crashes' = errors + crashes + 1
    BY <1>5, WorkMisses
  <2> QED
    BY <1>2, <1>3, <1>4, <2>1
<1>6. ASSUME Rebalance \/ \E m \in Members : Assign(m) PROVE MissedBounded'
  <2>1. /\ UNCHANGED <<committed, member, handled, dead, errors, crashes>>
        /\ owner' = NoMember \/ position' = committed + 1
    BY <1>6 DEF Rebalance, Assign
  <2>2. \A msg \in Msgs : Reached(msg)' => Reached(msg)
    BY <2>1, StepIInv DEF Reached, IInv, TypeOK
  <2>3. Missed' \subseteq Missed
    BY <2>1, <2>2 DEF Missed, InProgress
  <2> QED
    BY <1>1, <1>2, <1>4, <2>1, <2>3
<1>7. CASE UNCHANGED vars
  BY <1>7 DEF vars, MissedBounded, Missed, Reached, InProgress
<1> QED
  BY <1>5, <1>6, <1>7 DEF Next

\* Committing the offset before the handler runs loses one message at most for
\* every crash and every error, whatever the rebalances, besides those that the
\* handler never accepts: for every number of members, messages and retries.
THEOREM FewLost == Spec => []LossBounded
<1>1. Init => MissedBounded
  <2> SUFFICES ASSUME Init PROVE MissedBounded
    OBVIOUS
  <2>1. Missed = {}
    BY DEF Init, Missed, Reached
  <2> QED
    BY <2>1, FS_EmptySet DEF Init, MissedBounded
<1>2. IInv /\ MissedBounded => LossBounded
  <2> SUFFICES ASSUME IInv, MissedBounded PROVE LossBounded
    OBVIOUS
  <2>1. Lost \subseteq Missed \cup Poison
    BY DEF Lost, Missed, Reached
  <2>2. /\ IsFiniteSet(Missed) /\ Cardinality(Missed) \in Nat
        /\ IsFiniteSet(Poison) /\ Cardinality(Poison) \in Nat
    BY FiniteMissed
  <2>3. /\ IsFiniteSet(Missed \cup Poison)
        /\ Cardinality(Missed \cup Poison)
             = Cardinality(Missed) + Cardinality(Poison) - Cardinality(Missed \cap Poison)
    BY <2>2, FS_Union
  <2>4. Cardinality(Missed \cap Poison) \in Nat
    BY <2>2, FS_Intersection, FS_CardinalityType
  <2>5. Cardinality(Lost) <= Cardinality(Missed \cup Poison) /\ Cardinality(Lost) \in Nat
    BY <2>1, <2>3, FS_Subset, FS_CardinalityType
  <2>6. errors \in Nat /\ crashes \in Nat
    BY DEF IInv, TypeOK
  <2> QED
    BY <2>2, <2>3, <2>4, <2>5, <2>6 DEF LossBounded, MissedBounded
<1>3. IInv /\ MissedBounded /\ [Next]_vars => MissedBounded'
  BY MissedBoundedStep
<1> QED
  BY <1>1, <1>2, <1>3, Invariance, PTL DEF Spec

=============================================================================
