----------------------------- MODULE Hub_proofs -----------------------------
(***************************************************************************)
(* Invariants of Hub for any set of clients and channels and any size of   *)
(* the buffers.                                                            *)
(***************************************************************************)
EXTENDS Hub, TLAPS

USE ConstantsAssumption

LEMMA InitIInv == Init => IInv
<1> SUFFICES ASSUME Init PROVE IInv
  OBVIOUS
<1> USE DEF Init
<1>1. TypeOK
  BY DEF TypeOK, ReaderSteps, Cast, Panics, Select
<1>2. HubNeverPanics /\ LeaversLeave /\ MapConsistent
  BY DEF HubNeverPanics, LeaversLeave, MapConsistent, Select
<1> QED
  BY <1>1, <1>2 DEF IInv

\* One reader moves; the others stay where they are.
LEMMA MoveReader ==
  ASSUME TypeOK, NEW c \in Clients, NEW step \in ReaderSteps, ReaderGoes(c, step)
  PROVE  /\ reader' \in [Clients -> ReaderSteps]
         /\ reader'[c] = step
         /\ \A d \in Clients \ {c} : reader'[d] = reader[d]
BY DEF TypeOK, ReaderGoes

\* The map, the hub and the subscriber stay as they are, and one reader that is
\* not about to unregister moves on: nothing the invariant says is disturbed.
LEMMA ReaderOnly ==
  ASSUME IInv, UNCHANGED <<clients, closed, hub, cast>>,
         panic' \notin {"broadcast", "closeTwice"},
         NEW c \in Clients, NEW step \in ReaderSteps, ReaderGoes(c, step),
         step \notin {"new", "registering"} \/ reader[c] = "new",
         step \notin {"closing", "done"} \/ reader[c] \in {"closing", "done"}
  PROVE  HubNeverPanics' /\ LeaversLeave' /\ MapConsistent'
<1>1. /\ reader'[c] = step
      /\ \A d \in Clients \ {c} : reader'[d] = reader[d]
  BY MoveReader DEF IInv
<1>2. \A d \in Clients : Started(d) => Started(d)'
  BY <1>1 DEF Started
<1>3. \A d \in Clients : reader'[d] \in {"closing", "done"}
                           => reader[d] \in {"closing", "done"}
  BY <1>1
<1>4. /\ cast.slow \subseteq Clients /\ clients \subseteq Clients
      /\ closed \subseteq Clients
  BY DEF IInv, TypeOK, Cast
<1>5. MapConsistent'
  BY <1>2, <1>3, <1>4 DEF IInv, MapConsistent
<1>6. LeaversLeave'
  BY <1>3 DEF IInv, LeaversLeave
<1> QED
  BY <1>5, <1>6 DEF HubNeverPanics

\* Nothing of what the invariant relates changes.
LEMMA Elsewhere ==
  ASSUME IInv, UNCHANGED <<clients, closed, reader, hub, cast>>,
         panic' \notin {"broadcast", "closeTwice"}
  PROVE  HubNeverPanics' /\ LeaversLeave' /\ MapConsistent'
BY DEF IInv, HubNeverPanics, LeaversLeave, MapConsistent, Started

-----------------------------------------------------------------------------
LEMMA PumpsIInv ==
  ASSUME IInv, NEW c \in Clients,
         \/ Connect(c) \/ StartPumps(c)
         \/ ReadMessage(c) \/ AddChannel(c) \/ RemoveChannel(c) \/ SendJSON(c)
         \/ ReadFails(c) \/ CloseConn(c)
  PROVE  IInv'
<1> USE DEF IInv
<1>1. CASE Connect(c)
  <2>1. TypeOK'
    BY <1>1, MoveReader DEF Connect, ReaderSteps, TypeOK
  <2> QED
    BY <1>1, <2>1, ReaderOnly DEF Connect, ReaderSteps, Alive
<1>2. CASE StartPumps(c)
  <2>1. TypeOK'
    BY <1>2, MoveReader DEF StartPumps, ReaderSteps, TypeOK
  <2> QED
    BY <1>2, <2>1, ReaderOnly DEF StartPumps, ReaderSteps, Alive
<1>3. CASE ReadMessage(c)
  <2>1. PICK step \in {"adding", "removing", "replying"} : ReaderGoes(c, step)
    BY <1>3 DEF ReadMessage
  <2>2. TypeOK'
    BY <1>3, <2>1, MoveReader DEF ReadMessage, ReaderSteps, TypeOK
  <2> QED
    BY <1>3, <2>1, <2>2, ReaderOnly DEF ReadMessage, ReaderSteps, Alive
<1>4. CASE AddChannel(c)
  <2>1. TypeOK'
    BY <1>4, MoveReader DEF AddChannel, ReaderSteps, TypeOK
  <2> QED
    BY <1>4, <2>1, ReaderOnly DEF AddChannel, ReaderSteps, Alive
<1>5. CASE RemoveChannel(c)
  <2>1. TypeOK'
    BY <1>5, MoveReader DEF RemoveChannel, DropChannel, ReaderSteps, TypeOK
  <2> QED
    BY <1>5, <2>1, ReaderOnly DEF RemoveChannel, ReaderSteps, Alive
<1>6. CASE SendJSON(c)
  <2>1. CASE c \in closed
    <3>1. TypeOK'
      BY <1>6, <2>1 DEF SendJSON, TypeOK, Panics
    <3> QED
      BY <1>6, <2>1, <3>1, Elsewhere DEF SendJSON
  <2>2. CASE c \notin closed
    <3>1. buffered' \in [Clients -> 0..BufferSize]
      BY <1>6, <2>2 DEF SendJSON, Room, TypeOK
    <3>2. TypeOK'
      BY <1>6, <2>2, <3>1, MoveReader DEF SendJSON, ReaderSteps, TypeOK
    <3> QED
      BY <1>6, <2>2, <3>2, ReaderOnly DEF SendJSON, ReaderSteps, Alive
  <2> QED
    BY <2>1, <2>2
<1>7. CASE ReadFails(c)
  <2>1. TypeOK'
    BY <1>7, MoveReader DEF ReadFails, AfterReadError, ReaderSteps, TypeOK
  <2> QED
    BY <1>7, <2>1, ReaderOnly DEF ReadFails, AfterReadError, ReaderSteps, Alive
<1>8. CASE CloseConn(c)
  <2>1. TypeOK'
    BY <1>8, MoveReader DEF CloseConn, ReaderSteps, TypeOK
  <2> QED
    BY <1>8, <2>1, ReaderOnly DEF CloseConn, ReaderSteps, Alive
<1> QED
  BY <1>1, <1>2, <1>3, <1>4, <1>5, <1>6, <1>7, <1>8

LEMMA WriterIInv ==
  ASSUME IInv, NEW c \in Clients,
         \/ WriteMessage(c) \/ WriteFails(c) \/ WriteClose(c)
         \/ CountChannels(c) \/ PeerGone(c)
  PROVE  IInv'
<1> USE DEF IInv
<1>1. buffered' \in [Clients -> 0..BufferSize]
  BY DEF WriteMessage, WriteFails, WriteClose, CountChannels, PeerGone, TypeOK
<1>2. /\ UNCHANGED <<clients, closed, reader, hub, cast, channels, gauge, late, panic>>
      /\ panic = "none"
  BY DEF WriteMessage, WriteFails, WriteClose, WriterEnds, CountChannels, PeerGone, Alive
<1>3. /\ writer' \in [Clients -> {"new", "select", "done"}]
      /\ conn' \in [Clients -> {"open", "gone", "closed"}]
      /\ stats' \in Clients \cup {NoClient}
  BY DEF WriteMessage, WriteFails, WriteClose, WriterEnds, Closed, CountChannels, PeerGone,
         TypeOK
<1>4. TypeOK'
  BY <1>1, <1>2, <1>3 DEF TypeOK
<1> QED
  BY <1>2, <1>4, Elsewhere

LEMMA StatsIInv ==
  ASSUME IInv, StatsDone \/ MapRace
  PROVE  IInv'
<1> USE DEF IInv
<1>1. TypeOK'
  BY DEF StatsDone, MapRace, TypeOK, Panics
<1> QED
  BY <1>1, Elsewhere DEF StatsDone, MapRace, Alive

-----------------------------------------------------------------------------
LEMMA HubIInv ==
  ASSUME IInv, HubStep
  PROVE  IInv'
<1> USE DEF IInv
<1>1. ASSUME NEW c \in Clients, ReceiveRegister(c) PROVE IInv'
  <2>1. /\ reader' \in [Clients -> ReaderSteps] /\ reader'[c] = "counting"
        /\ \A d \in Clients \ {c} : reader'[d] = reader[d]
    BY <1>1, MoveReader DEF ReceiveRegister, ReaderSteps
  <2>2. TypeOK'
    BY <1>1, <2>1 DEF ReceiveRegister, TypeOK
  <2>3. LeaversLeave'
    BY <1>1, <2>1 DEF ReceiveRegister, LeaversLeave
  <2>4. c \notin clients \cup closed
    BY <1>1 DEF ReceiveRegister, MapConsistent, Started
  <2>5. MapConsistent'
    BY <1>1, <2>1, <2>2, <2>4 DEF ReceiveRegister, MapConsistent, Started, TypeOK, Cast
  <2> QED
    BY <1>1, <2>2, <2>3, <2>5 DEF ReceiveRegister, HubNeverPanics
<1>2. ASSUME NEW c \in Clients, ReceiveFromReader(c) PROVE IInv'
  <2>1. /\ reader' \in [Clients -> ReaderSteps] /\ reader'[c] = "closing"
        /\ \A d \in Clients \ {c} : reader'[d] = reader[d]
    BY <1>2, MoveReader DEF ReceiveFromReader, ReaderSteps
  <2>2. TypeOK'
    BY <1>2, <2>1 DEF ReceiveFromReader, TypeOK
  <2>3. LeaversLeave'
    BY <1>2, <2>1 DEF ReceiveFromReader, LeaversLeave
  <2>4. MapConsistent'
    BY <1>2, <2>1, <2>2 DEF ReceiveFromReader, MapConsistent, Started, TypeOK, Cast
  <2> QED
    BY <1>2, <2>2, <2>3, <2>4 DEF ReceiveFromReader, HubNeverPanics
<1>3. ASSUME NEW c \in Clients, ReceiveFromCast(c) PROVE IInv'
  <2>1. TypeOK'
    BY <1>3 DEF ReceiveFromCast, TypeOK, Cast
  <2>2. LeaversLeave'
    BY <1>3 DEF ReceiveFromCast, LeaversLeave
  <2>3. MapConsistent'
    BY <1>3 DEF ReceiveFromCast, MapConsistent, Started, TypeOK, Cast
  <2> QED
    BY <1>3, <2>1, <2>2, <2>3 DEF ReceiveFromCast, HubNeverPanics
<1>4. CASE Lock
  <2>1. TypeOK'
    BY <1>4 DEF Lock, TypeOK
  <2>2. hub'.at = hub.at /\ hub'.client = hub.client
    BY <1>4 DEF Lock, TypeOK
  <2> QED
    BY <1>4, <2>1, <2>2 DEF Lock, HubNeverPanics, LeaversLeave, MapConsistent, Started
<1>5. CASE AddToMap
  <2>1. hub.client \in Clients
    BY <1>5 DEF AddToMap, MapConsistent
  <2>2. TypeOK'
    BY <1>5, <2>1 DEF AddToMap, Select, TypeOK
  <2>3. LeaversLeave'
    BY <1>5 DEF AddToMap, LeaversLeave, MapConsistent
  <2>4. MapConsistent'
    BY <1>5 DEF AddToMap, Select, MapConsistent, Started
  <2> QED
    BY <1>5, <2>2, <2>3, <2>4 DEF AddToMap, HubNeverPanics
<1>6. CASE RemoveFromMap
  \* Under Lock the subscriber is not walking, and who is in the map was not
  \* closed before.
  <2>1. hub.client \in Clients /\ cast.at \notin {"walk", "send"}
    BY <1>6 DEF RemoveFromMap, MapConsistent, LockGranted, RLocked
  <2>2. panic' = panic
    BY <1>6 DEF RemoveFromMap, MayClose, MapConsistent
  <2>3. /\ clients' = clients \ {hub.client}
        /\ closed' \subseteq closed \cup {hub.client}
        /\ hub' = Select
        /\ UNCHANGED <<buffered, channels, conn, reader, writer, cast, stats, late>>
    BY <1>6 DEF RemoveFromMap, MayClose
  <2>4. TypeOK'
    BY <1>6, <2>1, <2>2, <2>3 DEF RemoveFromMap, Select, TypeOK
  <2>5. LeaversLeave'
    BY <1>6, <2>3 DEF RemoveFromMap, LeaversLeave
  <2>6. MapConsistent'
    BY <1>6, <2>1, <2>3 DEF RemoveFromMap, Select, MapConsistent, Started
  <2> QED
    BY <2>2, <2>4, <2>5, <2>6 DEF HubNeverPanics
<1> QED
  BY <1>1, <1>2, <1>3, <1>4, <1>5, <1>6 DEF HubStep

-----------------------------------------------------------------------------
LEMMA RoutesType == Routes \subseteq Seq(Channels)
<1>1. \A a \in Channels : <<a>> \in Seq(Channels)
  OBVIOUS
<1>2. \A p \in Channels \X Channels : <<p[1], p[2]>> \in Seq(Channels)
  OBVIOUS
<1> SUFFICES ASSUME NEW r \in Routes PROVE r \in Seq(Channels)
  OBVIOUS
<1>3. CASE r = <<>>
  BY <1>3
<1>4. CASE \E a \in Channels : r = <<a>>
  BY <1>1, <1>4
<1>5. CASE \E p \in {q \in Channels \X Channels : q[1] # q[2]} : r = <<p[1], p[2]>>
  BY <1>2, <1>5
<1> QED
  BY <1>3, <1>4, <1>5 DEF Routes

LEMMA TailType ==
  ASSUME NEW s \in Seq(Channels), s # <<>>
  PROVE  Head(s) \in Channels /\ Tail(s) \in Seq(Channels)
OBVIOUS

LEMMA CastIInv ==
  ASSUME IInv, HandleMessage \/ CastStep
  PROVE  IInv'
<1> USE DEF IInv
<1>0. /\ cast.todo \subseteq Clients /\ cast.slow \subseteq Clients
      /\ cast.to \in Clients \cup {NoClient} /\ cast.route \in Seq(Channels)
      /\ clients \subseteq Clients
  BY DEF TypeOK, Cast
<1>1. CASE HandleMessage
  <2>1. TypeOK'
    BY <1>1, RoutesType DEF HandleMessage, TypeOK, Cast
  <2>2. UNCHANGED <<clients, closed, reader, hub, panic>> /\ cast'.at = "next"
        /\ cast'.slow = cast.slow
    BY <1>1 DEF HandleMessage, TypeOK, Cast
  <2> QED
    BY <2>1, <2>2 DEF HubNeverPanics, LeaversLeave, MapConsistent, Started
<1>2. CASE BroadcastToChannel
  <2>1. TypeOK'
    BY <1>2, <1>0 DEF BroadcastToChannel, TypeOK, Cast
  <2>2. /\ UNCHANGED <<clients, closed, reader, hub, panic>>
        /\ cast'.slow = cast.slow /\ cast'.at # "send"
        /\ cast'.at = "walk" => cast'.route # <<>> /\ cast'.todo = clients
    BY <1>2 DEF BroadcastToChannel, TypeOK, Cast
  <2> QED
    BY <2>1, <2>2 DEF HubNeverPanics, LeaversLeave, MapConsistent, Started
<1>3. ASSUME NEW c \in Clients, HasChannel(c) PROVE IInv'
  <2>1. TypeOK'
    BY <1>3, <1>0 DEF HasChannel, TypeOK, Cast
  <2>2. /\ UNCHANGED <<clients, closed, reader, hub, panic>>
        /\ cast'.slow = cast.slow /\ cast'.route = cast.route
        /\ cast'.todo \subseteq cast.todo
        /\ cast'.at = "send" => cast'.to = c
        /\ cast.at = "walk" /\ c \in cast.todo
    BY <1>3 DEF HasChannel, TypeOK, Cast
  <2> QED
    BY <2>1, <2>2 DEF HubNeverPanics, LeaversLeave, MapConsistent, Started
<1>4. CASE TrySend
  \* RLock is held, so the client is still in the map and its channel open;
  \* the step is then one of the two branches of the select.
  <2>1. cast.to \in clients /\ cast.to \in Clients /\ cast.to \notin closed
        /\ Started(cast.to) /\ cast.route # <<>>
    BY <1>4, <1>0 DEF TrySend, MapConsistent
  <2>2. /\ UNCHANGED <<clients, closed, channels, conn, reader, writer, hub, stats,
                       gauge, panic>>
        /\ cast.at = "send"
    BY <1>4, <2>1 DEF TrySend
  <2>3. /\ buffered \in [Clients -> 0..BufferSize] /\ cast \in Cast
        /\ late \in [Clients -> [Channels -> Int]] /\ Head(cast.route) \in Channels
    BY <1>0, <2>1, TailType DEF TypeOK
  <2>4. /\ cast' \in Cast
        /\ cast'.slow \subseteq cast.slow \cup {cast.to}
        /\ cast'.route = cast.route /\ cast'.todo = cast.todo
        /\ cast'.at = "walk"
    <3>1. CASE cast' = [cast EXCEPT !.at = "walk", !.to = NoClient]
      BY <2>3, <3>1 DEF Cast
    <3>2. CASE cast' = [cast EXCEPT !.at = "walk", !.to = NoClient,
                                    !.slow = @ \cup {cast.to}]
      BY <2>1, <2>3, <3>2 DEF Cast
    <3> QED
      BY <1>4, <2>1, <3>1, <3>2 DEF TrySend
  <2>5. /\ buffered' \in [Clients -> 0..BufferSize]
        /\ late' \in [Clients -> [Channels -> Int]]
    <3>1. CASE Room(buffered[cast.to])
      <4>1. /\ buffered' = [buffered EXCEPT ![cast.to] = @ + 1]
            /\ late' = [late EXCEPT ![cast.to][Head(cast.route)] =
                          IF @ = -1 THEN -1 ELSE @ + 1]
        BY <1>4, <2>1, <3>1 DEF TrySend
      <4>2. buffered' \in [Clients -> 0..BufferSize]
        BY <2>1, <2>3, <3>1, <4>1 DEF Room
      <4>3. late' \in [Clients -> [Channels -> Int]]
        BY <2>1, <2>3, <4>1
      <4> QED
        BY <4>2, <4>3
    <3>2. CASE ~(Room(buffered[cast.to]))
      BY <1>4, <2>1, <2>3, <3>2 DEF TrySend
    <3> QED
      BY <3>1, <3>2
  <2>6. TypeOK'
    BY <2>2, <2>4, <2>5 DEF TypeOK
  <2> QED
    BY <2>1, <2>2, <2>4, <2>6 DEF HubNeverPanics, LeaversLeave, MapConsistent, Started
<1>5. CASE WalkEnds
  <2>1. cast.route # <<>>
    BY <1>5 DEF WalkEnds, MapConsistent
  <2>2. TypeOK'
    BY <1>5, <1>0, <2>1, TailType DEF WalkEnds, TypeOK, Cast
  <2>3. /\ UNCHANGED <<clients, closed, reader, hub, panic>>
        /\ cast'.slow = cast.slow /\ cast'.at \in {"next", "unregister"}
    BY <1>5 DEF WalkEnds, TypeOK, Cast
  <2> QED
    BY <2>2, <2>3 DEF HubNeverPanics, LeaversLeave, MapConsistent, Started
<1> QED
  BY <1>1, <1>2, <1>3, <1>4, <1>5 DEF CastStep

LEMMA StepIInv == IInv /\ [Next]_vars => IInv'
<1> SUFFICES ASSUME IInv, [Next]_vars PROVE IInv'
  OBVIOUS
<1>1. ASSUME NEW c \in Clients, ClientStep(c) PROVE IInv'
  BY <1>1, PumpsIInv, WriterIInv DEF ClientStep
<1>2. CASE UNCHANGED vars
  BY <1>2 DEF vars, IInv, TypeOK, HubNeverPanics, LeaversLeave, MapConsistent, Started
<1> QED
  BY <1>1, <1>2, HubIInv, CastIInv, StatsIInv DEF Next

\* The invariant behind the theorems: a client in the map is open, and while
\* the subscriber holds RLock the clients it still has to visit are in the map.
THEOREM Invariance == Spec => []IInv
<1> QED
  BY InitIInv, StepIInv, PTL DEF Spec

\* The state keeps its type; in particular no buffer ever holds more messages
\* than NewClient made room for.
THEOREM TypeCorrect == Spec => []TypeOK
<1>1. IInv => TypeOK
  BY DEF IInv
<1> QED
  BY <1>1, Invariance, PTL

\* With any number of clients and any buffer size, the hub closes a channel at
\* most once and BroadcastToChannel never sends on a closed channel.
THEOREM HubSafe == Spec => []HubNeverPanics
<1>1. IInv => HubNeverPanics
  BY DEF IInv
<1> QED
  BY <1>1, Invariance, PTL

\* Nobody stays in the map of clients after its ReadPump has unregistered it,
\* whatever the hub received before.
THEOREM NoClientLeaks == Spec => []LeaversLeave
<1>1. IInv => LeaversLeave
  BY DEF IInv
<1> QED
  BY <1>1, Invariance, PTL

-----------------------------------------------------------------------------
\* Whoever does not touch the channels, the counts of late messages and the
\* subscriber leaves them consistent.
LEMMA LateElsewhere ==
  ASSUME LateConsistent, UNCHANGED <<late, channels, cast>>
  PROVE  LateConsistent'
BY DEF LateConsistent

\* The subscriber begins a send only to a client that has the channel, and a
\* send that ends is not repeated.
LEMMA LateCast ==
  ASSUME IInv, LateConsistent, HandleMessage \/ CastStep
  PROVE  LateConsistent'
<1> USE DEF IInv
<1>0. /\ cast \in Cast /\ cast.route \in Seq(Channels)
      /\ late \in [Clients -> [Channels -> Int]]
  BY DEF TypeOK, Cast
<1>1. CASE HandleMessage \/ BroadcastToChannel \/ WalkEnds
  <2>1. cast'.at # "send" /\ UNCHANGED <<late, channels>>
    BY <1>0, <1>1 DEF HandleMessage, BroadcastToChannel, WalkEnds, Cast
  <2> QED
    BY <2>1 DEF LateConsistent
<1>2. ASSUME NEW c \in Clients, HasChannel(c) PROVE LateConsistent'
  <2>1. UNCHANGED <<late, channels>> /\ cast.at = "walk" /\ cast'.route = cast.route
    BY <1>0, <1>2 DEF HasChannel, Cast
  <2>2. cast'.at = "send" => cast'.to = c /\ Head(cast.route) \in channels[c]
    BY <1>0, <1>2 DEF HasChannel, Cast
  <2> QED
    BY <2>1, <2>2 DEF LateConsistent
<1>3. CASE TrySend
  <2>1. cast.to \in Clients /\ cast.to \notin closed /\ Head(cast.route) \in Channels
    <3>1. cast.route # <<>> /\ cast.to \in clients
      BY <1>3 DEF TrySend, MapConsistent
    <3> QED
      BY <1>0, <3>1, TailType DEF MapConsistent, TypeOK
  <2>2. channels' = channels /\ cast.at = "send" /\ cast'.at = "walk"
    BY <1>0, <1>3, <2>1 DEF TrySend, Cast
  <2>3. CASE UNCHANGED late
    BY <2>2, <2>3 DEF LateConsistent
  <2>4. CASE late' = [late EXCEPT ![cast.to][Head(cast.route)] =
                        IF @ = -1 THEN -1 ELSE @ + 1]
    <3> DEFINE n == late[cast.to][Head(cast.route)]
    <3>1. n \in {-1, 0}
      BY <2>1, <2>2 DEF LateConsistent
    <3>2. /\ late'[cast.to][Head(cast.route)] \in {-1, 1}
          /\ late'[cast.to][Head(cast.route)] = -1 <=> n = -1
      BY <1>0, <2>1, <2>4, <3>1
    <3>3. \A c \in Clients : \A ch \in Channels :
            c # cast.to \/ ch # Head(cast.route) => late'[c][ch] = late[c][ch]
      BY <1>0, <2>1, <2>4
    <3> QED
      BY <2>1, <2>2, <3>2, <3>3 DEF LateConsistent
  <2> QED
    BY <1>3, <2>1, <2>3, <2>4 DEF TrySend
<1> QED
  BY <1>1, <1>2, <1>3 DEF CastStep

LEMMA LateStep == IInv /\ LateConsistent /\ [Next]_vars => LateConsistent'
<1> SUFFICES ASSUME IInv, LateConsistent, [Next]_vars PROVE LateConsistent'
  OBVIOUS
<1>0. /\ late \in [Clients -> [Channels -> Int]]
      /\ channels \in [Clients -> SUBSET Channels]
  BY DEF IInv, TypeOK
<1>1. ASSUME NEW c \in Clients, AddChannel(c) PROVE LateConsistent'
  <2>1. PICK chs \in SUBSET Channels :
          /\ channels' = [channels EXCEPT ![c] = @ \cup chs]
          /\ late' = [late EXCEPT ![c] =
                        [ch \in Channels |-> IF ch \in chs THEN -1 ELSE @[ch]]]
    BY <1>1 DEF AddChannel
  <2>2. \A d \in Clients : \A ch \in Channels :
          IF d = c /\ ch \in chs THEN late'[d][ch] = -1
          ELSE late'[d][ch] = late[d][ch] /\ (ch \in channels'[d] <=> ch \in channels[d])
    BY <1>0, <2>1
  <2>3. cast' = cast
    BY <1>1 DEF AddChannel
  <2> QED
    BY <2>2, <2>3 DEF LateConsistent
<1>2. ASSUME NEW c \in Clients, RemoveChannel(c) PROVE LateConsistent'
  <2>1. PICK ch \in Channels :
          /\ channels' = [channels EXCEPT ![c] = @ \ {ch}]
          /\ late' = [late EXCEPT ![c][ch] = IF @ = -1 THEN 0 ELSE @]
    BY <1>2 DEF RemoveChannel, DropChannel
  <2>2. /\ late'[c][ch] = IF late[c][ch] = -1 THEN 0 ELSE late[c][ch]
        /\ ch \notin channels'[c]
    BY <1>0, <2>1
  <2>3. \A d \in Clients : \A k \in Channels : d # c \/ k # ch =>
          late'[d][k] = late[d][k] /\ (k \in channels'[d] <=> k \in channels[d])
    BY <1>0, <2>1
  <2>4. cast' = cast
    BY <1>2 DEF RemoveChannel
  <2> QED
    BY <2>2, <2>3, <2>4 DEF LateConsistent
<1>3. ASSUME NEW c \in Clients, ReceiveFromCast(c) PROVE LateConsistent'
  <2>1. cast'.at # "send" /\ UNCHANGED <<late, channels>>
    BY <1>3 DEF ReceiveFromCast, IInv, TypeOK, Cast
  <2> QED
    BY <2>1 DEF LateConsistent
<1>4. ASSUME NEW c \in Clients, ClientStep(c) PROVE LateConsistent'
  <2>1. CASE AddChannel(c) \/ RemoveChannel(c)
    BY <1>1, <1>2, <2>1
  <2>2. CASE ~(AddChannel(c) \/ RemoveChannel(c))
    <3>1. UNCHANGED <<late, channels, cast>>
      BY <1>4, <2>2 DEF ClientStep, Connect, StartPumps, ReadMessage, SendJSON,
        ReadFails, CloseConn, WriteMessage, WriteFails, WriteClose, WriterEnds,
        CountChannels, PeerGone
    <3> QED
      BY <3>1, LateElsewhere
  <2> QED
    BY <2>1, <2>2
<1>5. CASE HubStep
  <2>1. ASSUME NEW c \in Clients, ReceiveRegister(c) \/ ReceiveFromReader(c)
        PROVE LateConsistent'
    BY <2>1, LateElsewhere DEF ReceiveRegister, ReceiveFromReader
  <2>2. CASE Lock \/ AddToMap \/ RemoveFromMap
    BY <2>2, LateElsewhere DEF Lock, AddToMap, RemoveFromMap
  <2> QED
    BY <1>3, <1>5, <2>1, <2>2 DEF HubStep
<1>6. CASE StatsDone \/ MapRace \/ UNCHANGED vars
  BY <1>6, LateElsewhere DEF StatsDone, MapRace, vars
<1> QED
  BY <1>4, <1>5, <1>6, LateCast DEF Next

\* HasChannel and the send are two steps of BroadcastToChannel, and Unsubscribe
\* may come between them: with any number of clients and channels, a client
\* that left a channel gets at most one more message of it.
THEOREM LateMessages == Spec => []AtMostOneLate
<1>1. Init => LateConsistent
  BY DEF Init, LateConsistent
<1>2. LateConsistent /\ IInv => AtMostOneLate
  BY DEF LateConsistent, AtMostOneLate
<1> QED
  BY <1>1, <1>2, LateStep, Invariance, PTL DEF Spec

=============================================================================
