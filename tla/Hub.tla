-------------------------------- MODULE Hub --------------------------------
(***************************************************************************)
(* The WebSocket service: the hub goroutine (Hub.Run), the Redis           *)
(* subscriber that broadcasts events to channels, and for every client the *)
(* goroutine of HandleWebSocket, then its ReadPump and its WritePump.      *)
(*                                                                         *)
(* The channels register and unregister are unbuffered: a send completes   *)
(* in the step in which the hub receives.  The map of clients is guarded   *)
(* by Hub.mu: the subscriber and GetStats walk over it under RLock, the    *)
(* hub changes it under Lock.  The channel send of a client is a bounded   *)
(* buffer; what is in it does not matter here, only how much.              *)
(*                                                                         *)
(* A send on a closed channel, a second close of one, and a map that is    *)
(* read while it is written end the process: nothing happens after that.   *)
(***************************************************************************)
EXTENDS Integers, Sequences, FiniteSets

CONSTANTS
  Clients,     \* the clients that connect; each connection is a new Client
  NoClient,    \* the hub or the reader of the statistics has no client at hand
  Channels,    \* names clients subscribe to
  BufferSize   \* capacity of Client.send (256)

ASSUME ConstantsAssumption ==
  /\ NoClient \notin Clients
  /\ BufferSize \in Nat \ {0}

VARIABLES
  clients,     \* Hub.clients
  closed,      \* clients whose channel send is closed
  buffered,    \* client -> messages in its channel send
  channels,    \* client -> Client.channels
  conn,        \* client -> state of its connection
  reader,      \* client -> where HandleWebSocket, then ReadPump, is
  writer,      \* client -> where WritePump is
  hub,         \* what Run does, and for which client
  cast,        \* the subscriber: the channels left, where it is, whom it visits
  stats,       \* the client whose channels GetStats is counting
  gauge,       \* websocket_connections_active
  late,        \* client -> channel -> messages of the channel queued since the
               \* client left it; -1 when it did not leave it
  panic        \* why the process died

vars == <<clients, closed, buffered, channels, conn, reader, writer, hub, cast,
          stats, gauge, late, panic>>

-----------------------------------------------------------------------------
ReaderSteps == {"new", "registering", "counting", "reading", "adding",
                "removing", "replying", "unregistering", "closing", "done"}

Cast == [at : {"idle", "next", "walk", "send", "unregister"},
         route : Seq(Channels), todo : SUBSET Clients,
         to : Clients \cup {NoClient}, slow : SUBSET Clients]

Panics == {"none", "broadcast", "reply", "closeTwice", "mapRace"}

\* Hub.mu is held for reading.
RLocked == cast.at \in {"walk", "send"} \/ stats # NoClient

\* A Lock that waits keeps new readers out.
RLockFree == ~hub.locking

\* Mutant: the hub does not wait for the readers.
LockGrantedAlways == hub.locking
LockGranted == hub.locking /\ ~RLocked

\* Client.mu is held for writing.
ChannelsLocked(c) == reader[c] \in {"adding", "removing"}

Select == [at |-> "select", client |-> NoClient, locking |-> FALSE]

Alive == panic = "none"

ReaderGoes(c, step) == reader' = [reader EXCEPT ![c] = step]

-----------------------------------------------------------------------------
(* HandleWebSocket.                                                        *)

Connect(c) ==
  /\ Alive
  /\ reader[c] = "new"
  /\ ReaderGoes(c, "registering")
  /\ UNCHANGED <<clients, closed, buffered, channels, conn, writer, hub, cast,
                 stats, gauge, late, panic>>

\* The gauge goes up and both pumps start.
StartPumps(c) ==
  /\ Alive
  /\ reader[c] = "counting"
  /\ gauge' = gauge + 1
  /\ ReaderGoes(c, "reading")
  /\ writer' = [writer EXCEPT ![c] = "select"]
  /\ UNCHANGED <<clients, closed, buffered, channels, conn, hub, cast, stats,
                 late, panic>>

-----------------------------------------------------------------------------
(* Hub.Run.                                                                *)

ReceiveRegister(c) ==
  /\ Alive
  /\ hub.at = "select"
  /\ reader[c] = "registering"
  /\ hub' = [at |-> "register", client |-> c, locking |-> FALSE]
  /\ ReaderGoes(c, "counting")
  /\ UNCHANGED <<clients, closed, buffered, channels, conn, writer, cast,
                 stats, gauge, late, panic>>

\* Unregister at the end of ReadPump.
ReceiveFromReader(c) ==
  /\ Alive
  /\ hub.at = "select"
  /\ reader[c] = "unregistering"
  /\ hub' = [at |-> "unregister", client |-> c, locking |-> FALSE]
  /\ ReaderGoes(c, "closing")
  /\ UNCHANGED <<clients, closed, buffered, channels, conn, writer, cast,
                 stats, gauge, late, panic>>

\* A slow client named by BroadcastToChannel.
ReceiveFromCast(c) ==
  /\ Alive
  /\ hub.at = "select"
  /\ cast.at = "unregister"
  /\ c \in cast.slow
  /\ hub' = [at |-> "unregister", client |-> c, locking |-> FALSE]
  /\ cast' = [cast EXCEPT !.slow = @ \ {c},
                          !.at = IF cast.slow = {c} THEN "next" ELSE @]
  /\ UNCHANGED <<clients, closed, buffered, channels, conn, reader, writer,
                 stats, gauge, late, panic>>

Lock ==
  /\ Alive
  /\ hub.at # "select"
  /\ ~hub.locking
  /\ hub' = [hub EXCEPT !.locking = TRUE]
  /\ UNCHANGED <<clients, closed, buffered, channels, conn, reader, writer, cast,
                 stats, gauge, late, panic>>

AddToMap ==
  /\ Alive
  /\ hub.at = "register"
  /\ LockGranted
  /\ clients' = clients \cup {hub.client}
  /\ hub' = Select
  /\ UNCHANGED <<closed, buffered, channels, conn, reader, writer, cast, stats,
                 gauge, late, panic>>

MayClose(c) == c \in clients

\* Under Lock a client still in the map is deleted and its channel closed; the
\* gauge goes down in any case.
RemoveFromMap ==
  /\ Alive
  /\ hub.at = "unregister"
  /\ LockGranted
  /\ IF MayClose(hub.client)
     THEN /\ clients' = clients \ {hub.client}
          /\ closed' = closed \cup {hub.client}
          /\ panic' = IF hub.client \in closed THEN "closeTwice" ELSE panic
     ELSE UNCHANGED <<clients, closed, panic>>
  /\ gauge' = gauge - 1
  /\ hub' = Select
  /\ UNCHANGED <<buffered, channels, conn, reader, writer, cast, stats, late>>

-----------------------------------------------------------------------------
(* The subscriber and BroadcastToChannel.                                  *)

\* An event is routed to no channel (malformed, no id), to one, or to a
\* channel of its own and then to the common one.
Routes == {<<>>} \cup {<<a>> : a \in Channels}
            \cup {<<p[1], p[2]>> : p \in {q \in Channels \X Channels : q[1] # q[2]}}

HandleMessage ==
  /\ Alive
  /\ cast.at = "idle"
  /\ \E route \in Routes : cast' = [cast EXCEPT !.at = "next", !.route = route]
  /\ UNCHANGED <<clients, closed, buffered, channels, conn, reader, writer, hub,
                 stats, gauge, late, panic>>

\* RLock for the next channel of the route, or the event is done.
BroadcastToChannel ==
  /\ Alive
  /\ cast.at = "next"
  /\ IF cast.route = <<>>
     THEN cast' = [cast EXCEPT !.at = "idle"]
     ELSE RLockFree /\ cast' = [cast EXCEPT !.at = "walk", !.todo = clients]
  /\ UNCHANGED <<clients, closed, buffered, channels, conn, reader, writer, hub,
                 stats, gauge, late, panic>>

\* HasChannel of the next client of the map, under Client.mu.
HasChannel(c) ==
  /\ Alive
  /\ cast.at = "walk"
  /\ c \in cast.todo
  /\ ~ChannelsLocked(c)
  /\ cast' = IF Head(cast.route) \in channels[c]
             THEN [cast EXCEPT !.at = "send", !.todo = @ \ {c}, !.to = c]
             ELSE [cast EXCEPT !.todo = @ \ {c}]
  /\ UNCHANGED <<clients, closed, buffered, channels, conn, reader, writer, hub,
                 stats, gauge, late, panic>>

\* Mutant: one message more than the buffer holds.
RoomForOneMore(n) == n <= BufferSize
Room(n) == n < BufferSize

\* Mutant: the send waits for room in the buffer.
SendBlocks(c) == buffered[c] = BufferSize /\ c \notin closed
MustWait(c) == FALSE

\* The send that does not block: a client with a full buffer is slow.
TrySend ==
  /\ Alive
  /\ cast.at = "send"
  /\ ~MustWait(cast.to)
  /\ IF cast.to \in closed
     THEN panic' = "broadcast" /\ UNCHANGED <<buffered, late, cast>>
     ELSE /\ UNCHANGED panic
          /\ IF Room(buffered[cast.to])
             THEN /\ buffered' = [buffered EXCEPT ![cast.to] = @ + 1]
                  /\ late' = [late EXCEPT ![cast.to][Head(cast.route)] =
                                IF @ = -1 THEN -1 ELSE @ + 1]
                  /\ cast' = [cast EXCEPT !.at = "walk", !.to = NoClient]
             ELSE /\ cast' = [cast EXCEPT !.at = "walk", !.to = NoClient,
                                          !.slow = @ \cup {cast.to}]
                  /\ UNCHANGED <<buffered, late>>
  /\ UNCHANGED <<clients, closed, channels, conn, reader, writer, hub, stats, gauge>>

\* RUnlock; the slow clients are handed to the hub one by one.
WalkEnds ==
  /\ Alive
  /\ cast.at = "walk"
  /\ cast.todo = {}
  /\ cast' = [cast EXCEPT !.route = Tail(@),
                          !.at = IF cast.slow = {} THEN "next" ELSE "unregister"]
  /\ UNCHANGED <<clients, closed, buffered, channels, conn, reader, writer, hub,
                 stats, gauge, late, panic>>

-----------------------------------------------------------------------------
(* ReadPump.                                                               *)

\* A frame asks to subscribe, to unsubscribe, or is a ping.  Frames that are
\* buffered in the connection can be read after it was closed.
ReadMessage(c) ==
  /\ Alive
  /\ reader[c] = "reading"
  /\ \E step \in {"adding", "removing", "replying"} : ReaderGoes(c, step)
  /\ UNCHANGED <<clients, closed, buffered, channels, conn, writer, hub, cast,
                 stats, gauge, late, panic>>

\* The channels a frame names are added one by one and confirmed together; a
\* broadcast between two of them is as good as one between two frames.
AddChannel(c) ==
  /\ Alive
  /\ reader[c] = "adding"
  /\ \E chs \in SUBSET Channels \ {{}} :
       /\ channels' = [channels EXCEPT ![c] = @ \cup chs]
       /\ late' = [late EXCEPT ![c] =
                     [ch \in Channels |-> IF ch \in chs THEN -1 ELSE @[ch]]]
  /\ ReaderGoes(c, "replying")
  /\ UNCHANGED <<clients, closed, buffered, conn, writer, hub, cast, stats,
                 gauge, panic>>

\* Mutant: the channel stays in the map.
KeepChannel(chs, ch) == chs
DropChannel(chs, ch) == chs \ {ch}

RemoveChannel(c) ==
  /\ Alive
  /\ reader[c] = "removing"
  /\ \E ch \in Channels :
       /\ channels' = [channels EXCEPT ![c] = DropChannel(@, ch)]
       /\ late' = [late EXCEPT ![c][ch] = IF @ = -1 THEN 0 ELSE @]
  /\ ReaderGoes(c, "replying")
  /\ UNCHANGED <<clients, closed, buffered, conn, writer, hub, cast, stats,
                 gauge, panic>>

\* sendJSON: a confirmation or a pong, dropped when the buffer is full.
SendJSON(c) ==
  /\ Alive
  /\ reader[c] = "replying"
  /\ IF c \in closed
     THEN panic' = "reply" /\ UNCHANGED <<buffered, reader>>
     ELSE /\ buffered' = [buffered EXCEPT ![c] =
                            IF Room(@) THEN @ + 1 ELSE @]
          /\ ReaderGoes(c, "reading")
          /\ UNCHANGED panic
  /\ UNCHANGED <<clients, closed, channels, conn, writer, hub, cast, stats,
                 gauge, late>>

\* Mutant: ReadPump closes the connection and forgets to unregister.
CloseOnly == "closing"
AfterReadError == "unregistering"

ReadFails(c) ==
  /\ Alive
  /\ reader[c] = "reading"
  /\ conn[c] # "open"
  /\ ReaderGoes(c, AfterReadError)
  /\ UNCHANGED <<clients, closed, buffered, channels, conn, writer, hub, cast,
                 stats, gauge, late, panic>>

CloseConn(c) ==
  /\ Alive
  /\ reader[c] = "closing"
  /\ conn' = [conn EXCEPT ![c] = "closed"]
  /\ ReaderGoes(c, "done")
  /\ UNCHANGED <<clients, closed, buffered, channels, writer, hub, cast, stats,
                 gauge, late, panic>>

-----------------------------------------------------------------------------
(* WritePump.                                                              *)

WriteMessage(c) ==
  /\ Alive
  /\ writer[c] = "select"
  /\ buffered[c] > 0
  /\ conn[c] # "closed"
  /\ buffered' = [buffered EXCEPT ![c] = @ - 1]
  /\ UNCHANGED <<clients, closed, channels, conn, reader, writer, hub, cast,
                 stats, gauge, late, panic>>

\* Mutant: WritePump leaves the connection to ReadPump.
LeftAsItIs(state) == state
Closed(state) == "closed"

\* WritePump returns and closes the connection.
WriterEnds(c) ==
  /\ writer' = [writer EXCEPT ![c] = "done"]
  /\ conn' = [conn EXCEPT ![c] = Closed(@)]
  /\ UNCHANGED <<clients, closed, channels, reader, hub, cast, stats, gauge,
                 late, panic>>

\* A message or a ping cannot be written: the connection is closed, or the
\* peer did not take it within writeWait.
WriteFails(c) ==
  /\ Alive
  /\ writer[c] = "select"
  /\ \/ buffered[c] > 0 /\ buffered' = [buffered EXCEPT ![c] = @ - 1]
     \/ UNCHANGED buffered
  /\ WriterEnds(c)

\* The hub closed the channel and it is empty.
WriteClose(c) ==
  /\ Alive
  /\ writer[c] = "select"
  /\ c \in closed
  /\ buffered[c] = 0
  /\ UNCHANGED buffered
  /\ WriterEnds(c)

-----------------------------------------------------------------------------
(* GetStats and the peers.                                                 *)

\* RLock; the channels of one client after another are counted, without
\* Client.mu.
CountChannels(c) ==
  /\ Alive
  /\ c \in clients
  /\ stats = NoClient => RLockFree
  /\ stats # c
  /\ stats' = c
  /\ UNCHANGED <<clients, closed, buffered, channels, conn, reader, writer, hub,
                 cast, gauge, late, panic>>

StatsDone ==
  /\ Alive
  /\ stats # NoClient
  /\ stats' = NoClient
  /\ UNCHANGED <<clients, closed, buffered, channels, conn, reader, writer, hub,
                 cast, gauge, late, panic>>

\* The runtime may notice that a map is iterated while it is written.
MapRace ==
  /\ Alive
  /\ stats # NoClient
  /\ ChannelsLocked(stats)
  /\ panic' = "mapRace"
  /\ UNCHANGED <<clients, closed, buffered, channels, conn, reader, writer, hub,
                 cast, stats, gauge, late>>

\* The peer goes away, or its pong is later than pongWait.
PeerGone(c) ==
  /\ Alive
  /\ reader[c] # "new"
  /\ conn[c] = "open"
  /\ conn' = [conn EXCEPT ![c] = "gone"]
  /\ UNCHANGED <<clients, closed, buffered, channels, reader, writer, hub, cast,
                 stats, gauge, late, panic>>

-----------------------------------------------------------------------------
Init ==
  /\ clients = {}
  /\ closed = {}
  /\ buffered = [c \in Clients |-> 0]
  /\ channels = [c \in Clients |-> {}]
  /\ conn = [c \in Clients |-> "open"]
  /\ reader = [c \in Clients |-> "new"]
  /\ writer = [c \in Clients |-> "new"]
  /\ hub = Select
  /\ cast = [at |-> "idle", route |-> <<>>, todo |-> {}, to |-> NoClient,
             slow |-> {}]
  /\ stats = NoClient
  /\ gauge = 0
  /\ late = [c \in Clients |-> [ch \in Channels |-> -1]]
  /\ panic = "none"

ClientStep(c) ==
  \/ Connect(c) \/ StartPumps(c)
  \/ ReadMessage(c) \/ AddChannel(c) \/ RemoveChannel(c) \/ SendJSON(c)
  \/ ReadFails(c) \/ CloseConn(c)
  \/ WriteMessage(c) \/ WriteFails(c) \/ WriteClose(c)
  \/ CountChannels(c) \/ PeerGone(c)

HubStep ==
  \/ \E c \in Clients : ReceiveRegister(c) \/ ReceiveFromReader(c) \/ ReceiveFromCast(c)
  \/ Lock \/ AddToMap \/ RemoveFromMap

CastStep ==
  \/ BroadcastToChannel \/ TrySend \/ WalkEnds
  \/ \E c \in Clients : HasChannel(c)

Next ==
  \/ \E c \in Clients : ClientStep(c)
  \/ HubStep
  \/ HandleMessage
  \/ CastStep
  \/ StatsDone
  \/ MapRace

Spec == Init /\ [][Next]_vars

\* Goroutines that can run do run.  A writer that is done with an RWMutex lets
\* the waiting readers in, every sender that waits on an unbuffered channel is
\* served in its turn, and the frames left in a closed connection run out.
\* Peers, clients and events owe nothing; a write has to fail only when the
\* connection is closed.
Fairness ==
  /\ SF_vars(CastStep)
  /\ WF_vars(StatsDone)
  /\ WF_vars(Lock \/ AddToMap \/ RemoveFromMap)
  /\ \A c \in Clients :
       /\ WF_vars(StartPumps(c))
       /\ WF_vars(AddChannel(c) \/ RemoveChannel(c) \/ SendJSON(c))
       /\ WF_vars(CloseConn(c))
       /\ WF_vars(WriteMessage(c) \/ WriteClose(c))
       /\ WF_vars(conn[c] = "closed" /\ WriteFails(c))
       /\ SF_vars(ReadFails(c))
       /\ SF_vars(ReceiveRegister(c))
       /\ SF_vars(ReceiveFromReader(c))
       /\ SF_vars(ReceiveFromCast(c))

FairSpec == Spec /\ Fairness

-----------------------------------------------------------------------------
(* Properties.                                                             *)

TypeOK ==
  /\ clients \subseteq Clients
  /\ closed \subseteq Clients
  /\ buffered \in [Clients -> 0..BufferSize]
  /\ channels \in [Clients -> SUBSET Channels]
  /\ conn \in [Clients -> {"open", "gone", "closed"}]
  /\ reader \in [Clients -> ReaderSteps]
  /\ writer \in [Clients -> {"new", "select", "done"}]
  /\ hub \in [at : {"select", "register", "unregister"},
              client : Clients \cup {NoClient}, locking : BOOLEAN]
  /\ cast \in Cast
  /\ stats \in Clients \cup {NoClient}
  /\ gauge \in Int
  /\ late \in [Clients -> [Channels -> Int]]
  /\ panic \in Panics

\* Slow clients are cut off while events are broadcast and readers leave by
\* themselves, and still the hub closes a channel only once and the broadcast
\* never sends on a closed one.
HubNeverPanics == panic \notin {"broadcast", "closeTwice"}

\* A client whose ReadPump has unregistered is out of the map, or the hub is
\* just removing it: nobody stays in the map without a goroutine to leave it.
LeaversLeave ==
  \A c \in Clients : reader[c] \in {"closing", "done"} /\ c \in clients
    => hub.at = "unregister" /\ hub.client = c

\* A client that left a channel gets at most one more message of it, although
\* BroadcastToChannel tests for the channel and sends in two steps.
AtMostOneLate == \A c \in Clients : \A ch \in Channels : late[c][ch] <= 1

\* Why it is at most one: the late message is the one of a send that was on its
\* way when the client left, and without the channel no other send begins.
LateConsistent ==
  \A c \in Clients : \A ch \in Channels :
    /\ late[c][ch] \in {-1, 0, 1}
    /\ late[c][ch] # -1 => ch \notin channels[c]
    /\ late[c][ch] = 1 =>
         ~(cast.at = "send" /\ cast.to = c /\ Head(cast.route) = ch)

Started(c) == reader[c] \notin {"new", "registering"}

\* What makes the first two properties inductive: who can be in the map, in the
\* hands of the hub and in those of the subscriber.  The subscriber walks over
\* clients of the map only, because under RLock nobody leaves it.
MapConsistent ==
  /\ \A c \in clients : c \notin closed /\ Started(c)
  /\ \A c \in closed \cup cast.slow : Started(c)
  /\ hub.at # "select" => hub.client \in Clients /\ Started(hub.client)
  /\ hub.at = "register" => /\ hub.client \notin clients \cup closed
                            /\ reader[hub.client] \notin {"closing", "done"}
  /\ cast.at \in {"walk", "send"} => cast.route # <<>> /\ cast.todo \subseteq clients
  /\ cast.at = "send" => cast.to \in clients

IInv == TypeOK /\ HubNeverPanics /\ LeaversLeave /\ MapConsistent

\* Nobody sends on a closed channel.
NoPanic == panic \notin {"broadcast", "closeTwice", "reply"}

\* A connection that broke, or that the hub cut off as too slow, is cleaned up:
\* both pumps end and the client leaves the map.
EventuallyCleanedUp ==
  \A c \in Clients :
    conn[c] # "open" \/ c \in closed
      ~> ~Alive \/ (reader[c] = "done" /\ writer[c] = "done" /\ c \notin clients)

\* Slow clients do not stop the broadcast: every event is done in the end.
BroadcastReturns == cast.at # "idle" ~> ~Alive \/ cast.at = "idle"

=============================================================================
