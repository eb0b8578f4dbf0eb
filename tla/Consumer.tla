------------------------------ MODULE Consumer ------------------------------
(***************************************************************************)
(* The Kafka consumer that both services run (pkg/kafka/consumer.go): the  *)
(* members of one consumer group, one per replica, and one partition of    *)
(* its topic, from the fetch of a message to the retries of the handler    *)
(* and the dead letter topic.                                              *)
(*                                                                         *)
(* ReadMessage of kafka-go, called on a reader with a group id, commits    *)
(* the offset of the message before it returns it.  The explicit           *)
(* CommitMessages after the handler commits the same offset once more.     *)
(* The group coordinator and the reader are external: they are modelled by *)
(* what Start and handleWithRetry can see of them.                         *)
(***************************************************************************)
EXTENDS Naturals, FiniteSets

CONSTANTS
  Members,        \* the replicas of the service
  NoMember,       \* the partition belongs to nobody
  MsgCount,       \* bound: messages in the partition
  Poison,         \* messages that the handler never accepts
  MaxRetries,     \* ConsumerConfig.MaxRetries; NewConsumer replaces 0 by 3
  DLQConfigured,  \* is ConsumerConfig.DLQTopic set
  MaxErrors,      \* bound: failed commits and transient errors of the handler
  MaxCrashes,     \* bound: members that stop
  MaxRebalances   \* bound: times the partition is taken from a live member

ASSUME ConstantsAssumption ==
  /\ NoMember \notin Members
  /\ MsgCount \in Nat
  /\ Poison \subseteq 1..MsgCount
  /\ MaxRetries \in Nat \ {0}
  /\ DLQConfigured \in BOOLEAN
  /\ MaxErrors \in Nat
  /\ MaxCrashes \in Nat
  /\ MaxRebalances \in Nat

VARIABLES
  committed,   \* the group's offset: messages up to it are not handed out again
  owner,       \* the member the partition is assigned to
  position,    \* the message its owner fetches next
  member,      \* member -> what it does, the message and the attempt
  handled,     \* message -> times the handler succeeded
  dead,        \* messages in the dead letter topic
  errors, crashes, rebalances

vars == <<committed, owner, position, member, handled, dead, errors, crashes, rebalances>>

-----------------------------------------------------------------------------
Msgs == 1..MsgCount

Member == [at : {"reading", "committing", "handling", "deadLetter", "recommitting"},
           msg : 0..MsgCount, attempt : 0..MaxRetries]

Reading == [at |-> "reading", msg |-> 0, attempt |-> 0]

Become(m, r) == member' = [member EXCEPT ![m] = r]
GoTo(m, step) == Become(m, [at |-> step, msg |-> member[m].msg, attempt |-> 0])

Error == errors < MaxErrors /\ errors' = errors + 1

-----------------------------------------------------------------------------
(* ReadMessage.                                                            *)

FetchMessage(m) ==
  /\ owner = m
  /\ member[m].at = "reading"
  /\ position \in Msgs
  /\ Become(m, [at |-> "committing", msg |-> position, attempt |-> 0])
  /\ position' = position + 1
  /\ UNCHANGED <<committed, owner, handled, dead, errors, crashes, rebalances>>

\* Mutants: only the commit after the handler; an offset that is one too far.
NotCommitted(old, msg) == old
CommittedAhead(old, msg) == IF msg < MsgCount THEN msg + 1 ELSE msg
CommittedAs(old, msg) == msg

CommitFirst(m) ==
  /\ member[m].at = "committing"
  /\ committed' = CommittedAs(committed, member[m].msg)
  /\ GoTo(m, "handling")
  /\ UNCHANGED <<owner, position, handled, dead, errors, crashes, rebalances>>

\* ReadMessage returns the error and not the message; Start logs it and reads
\* the next message.  The broker may have carried out the commit.
CommitFirstFails(m) ==
  /\ member[m].at = "committing"
  /\ Error
  /\ committed' \in {committed, member[m].msg}
  /\ Become(m, Reading)
  /\ UNCHANGED <<owner, position, handled, dead, crashes, rebalances>>

-----------------------------------------------------------------------------
(* handleWithRetry and sendToDLQ.                                          *)

HandleMessage(m) ==
  /\ member[m].at = "handling"
  /\ member[m].msg \notin Poison
  /\ handled' = [handled EXCEPT ![member[m].msg] = @ + 1]
  /\ GoTo(m, "recommitting")
  /\ UNCHANGED <<committed, owner, position, dead, errors, crashes, rebalances>>

\* Mutant: the loop does not count.
SameAttempt(attempt) == attempt
NextAttempt(attempt) == attempt + 1

\* for attempt := 0; attempt <= MaxRetries; attempt++.  The wait between two
\* attempts can only be cut short by a context that is cancelled, and the one
\* of a message with headers (every message has some) never is.
AttemptFailed(m) ==
  IF member[m].attempt < MaxRetries
  THEN Become(m, [at |-> "handling", msg |-> member[m].msg,
                  attempt |-> NextAttempt(member[m].attempt)])
  ELSE GoTo(m, "deadLetter")

HandlerFails(m) ==
  /\ member[m].at = "handling"
  /\ \/ member[m].msg \in Poison /\ UNCHANGED errors
     \/ member[m].msg \notin Poison /\ Error
  /\ AttemptFailed(m)
  /\ UNCHANGED <<committed, owner, position, handled, dead, crashes, rebalances>>

\* kafka-go wants the topic in the writer or in the message, and in one only.
TopicAccepted(inWriter, inMessage) == inWriter # inMessage

\* NewConsumer creates the writer without a topic, and sendToDLQ a message
\* without one: the topic of the configuration only decides whether to try.
Kept(d, msg) ==
  IF DLQConfigured /\ TopicAccepted(FALSE, FALSE) THEN d \cup {msg} ELSE d

\* An error of the write is logged.
SendToDLQ(m) ==
  /\ member[m].at = "deadLetter"
  /\ dead' = Kept(dead, member[m].msg)
  /\ GoTo(m, "recommitting")
  /\ UNCHANGED <<committed, owner, position, handled, errors, crashes, rebalances>>

\* The explicit CommitMessages; an error is logged.
CommitMessages(m) ==
  /\ member[m].at = "recommitting"
  /\ \/ committed' = member[m].msg /\ UNCHANGED errors
     \/ committed' = committed /\ Error
  /\ Become(m, Reading)
  /\ UNCHANGED <<owner, position, handled, dead, crashes, rebalances>>

-----------------------------------------------------------------------------
(* The group.                                                              *)

\* The new owner starts behind the offset of the group.
Assign(m) ==
  /\ owner = NoMember
  /\ owner' = m
  /\ position' = committed + 1
  /\ UNCHANGED <<committed, member, handled, dead, errors, crashes, rebalances>>

\* The partition is taken from a member that goes on with its message.
Rebalance ==
  /\ owner # NoMember
  /\ rebalances < MaxRebalances
  /\ rebalances' = rebalances + 1
  /\ owner' = NoMember
  /\ UNCHANGED <<committed, position, member, handled, dead, errors, crashes>>

Crash(m) ==
  /\ crashes < MaxCrashes
  /\ crashes' = crashes + 1
  /\ owner' = IF owner = m THEN NoMember ELSE owner
  /\ Become(m, Reading)
  /\ UNCHANGED <<committed, position, handled, dead, errors, rebalances>>

-----------------------------------------------------------------------------
Init ==
  /\ committed = 0
  /\ owner = NoMember
  /\ position = 1
  /\ member = [m \in Members |-> Reading]
  /\ handled = [msg \in Msgs |-> 0]
  /\ dead = {}
  /\ errors = 0 /\ crashes = 0 /\ rebalances = 0

Work(m) ==
  \/ FetchMessage(m) \/ CommitFirst(m) \/ CommitFirstFails(m)
  \/ HandleMessage(m) \/ HandlerFails(m) \/ SendToDLQ(m) \/ CommitMessages(m)

Next ==
  \/ \E m \in Members : Work(m) \/ Assign(m) \/ Crash(m)
  \/ Rebalance

Spec == Init /\ [][Next]_vars

\* A member goes on with what it does, and a partition finds an owner.
FairSpec ==
  /\ Spec
  /\ \A m \in Members : WF_vars(Work(m))
  /\ WF_vars(\E m \in Members : Assign(m))

-----------------------------------------------------------------------------
(* Properties.                                                             *)

TypeOK ==
  /\ committed \in 0..MsgCount
  /\ owner \in Members \cup {NoMember}
  /\ position \in 1..(MsgCount + 1)
  /\ member \in [Members -> Member]
  /\ handled \in [Msgs -> Nat]
  /\ dead \subseteq Msgs
  /\ errors \in Nat /\ crashes \in Nat /\ rebalances \in Nat

\* As long as the partition is not taken from a live member, no message is
\* handled twice, whatever crashes and whichever commit fails.  (With a
\* rebalance a message can be: the old owner still holds it.)
HandledAtMostOnce == rebalances = 0 => \A msg \in Msgs : handled[msg] <= 1

\* Messages that the group will not see again and that left no trace.
Lost ==
  {msg \in Msgs : /\ msg <= committed
                  /\ handled[msg] = 0 /\ msg \notin dead
                  /\ \A m \in Members : member[m].msg # msg}

\* Committing first costs at most one message per crash or error, also across
\* rebalances; on top of that come the messages the handler never accepts.
LossBounded == Cardinality(Lost) <= errors + crashes + Cardinality(Poison)

\* The group, its owner or some member has got as far as msg.
Reached(msg) ==
  \/ msg <= committed
  \/ owner # NoMember /\ msg < position
  \/ \E m \in Members : msg <= member[m].msg

InProgress(m) == member[m].at \in {"committing", "handling"}

\* Messages somebody gave up, the offset of the group not yet past all of them;
\* each was given up by an error or a crash, so that LossBounded follows.
Missed ==
  {msg \in Msgs \ Poison : /\ Reached(msg)
                          /\ handled[msg] = 0 /\ msg \notin dead
                          /\ \A m \in Members : InProgress(m) => member[m].msg # msg}

MissedBounded == Cardinality(Missed) <= errors + crashes

\* What holds while no message is in two hands; with it HandledAtMostOnce is
\* inductive.
SingleReader ==
  /\ \A m \in Members : m # owner => member[m].at = "reading"
  /\ owner # NoMember => position > committed
  /\ \A m \in Members :
       /\ member[m].at = "committing" =>
            member[m].msg > committed /\ member[m].msg < position
       /\ member[m].at \in {"handling", "deadLetter", "recommitting"} =>
            member[m].msg = committed
       /\ member[m].at \in {"handling", "deadLetter"} => handled[member[m].msg] = 0
  /\ \A msg \in Msgs : msg > committed => handled[msg] = 0

IInv ==
  /\ TypeOK
  /\ HandledAtMostOnce
  /\ \A m \in Members : member[m].at = "reading" <=> member[m].msg = 0
  /\ rebalances = 0 => SingleReader

\* Neither a poison message, nor a failed commit, nor a crash or a rebalance
\* stops the group: it always gets to the end of the partition.
Drains ==
  <>[](/\ owner # NoMember
       /\ position = MsgCount + 1
       /\ \A m \in Members : member[m].at = "reading")

=============================================================================
