---------------------------- MODULE WebSocketHub ----------------------------
(***************************************************************************)
(* The WebSocket server: the hub goroutine (pkg/websocket/server.go), the  *)
(* read and write pump of each connection (connection.go), rooms (room.go) *)
(* and the handlers the hub runs (handler.go, message.go, vm_handler.go,   *)
(* cmd/glyph/server.go).                                                   *)
(*                                                                         *)
(* Every goroutine blocks on channels: register and unregister are         *)
(* rendezvous with the hub, handleMessage, broadcast and broadcastToRoom   *)
(* hold HubCap messages, the send channel of a connection SendCap.  The    *)
(* hub runs handlers itself, one operation of a handler per step; a        *)
(* handler is a sequence of operations, applied to the connection          *)
(* it runs for and to one room.  What a message says does not matter, so   *)
(* send and broadcast channels are abstracted to their lengths.            *)
(*                                                                         *)
(* Sending on, or closing, a closed channel panics.  Nothing recovers, so  *)
(* the process ends: hpc = "panicked" stops every goroutine.               *)
(*                                                                         *)
(* The metrics are abstracted to the counter of active connections, the    *)
(* saved state of a client to the rooms in it; a client is known by the    *)
(* ID of its connection.                                                   *)
(***************************************************************************)
EXTENDS Naturals, Integers, Sequences, FiniteSets

CONSTANTS
    Conns,         \* connections that may ever be opened
    Rooms,         \* room names
    Lobby,         \* the room the compiled handlers of a route use
    SendCap,       \* MessageQueueSize
    HubCap,        \* capacity of the hub's buffered channels (256)
    MaxPerHub,     \* MaxConnectionsPerHub, 0 = no limit
    MaxPerRoom,    \* MaxConnectionsPerRoom, 0 = no limit
    Strategy,      \* MessageQueueStrategy
    Heartbeat,     \* EnableHeartbeat
    KeepState,     \* EnableReconnection && PreserveClientState
    Kinds,         \* kinds of message the clients send
    OnConnect, OnMessage, OnDisconnect,  \* compiled handlers of the route
    MaxReads       \* bound: messages read from all sockets together

Ops == {"reply", "join", "leave", "bcast", "bcastRoom", "bcastOthers", "close"}
AllKinds == {"ping", "join", "leave", "bcast", "bcastOthers", "text"}

ASSUME RoomsAssumption == Lobby \in Rooms
ASSUME ConnsAssumption == IsFiniteSet(Conns)
ASSUME CapAssumption == SendCap \in Nat \ {0} /\ HubCap \in Nat \ {0}
ASSUME LimitAssumption == MaxPerHub \in Nat /\ MaxPerRoom \in Nat /\ MaxReads \in Nat
ASSUME ConfigAssumption ==
    /\ Strategy \in {"drop_oldest", "drop_newest", "block"}
    /\ Heartbeat \in BOOLEAN /\ KeepState \in BOOLEAN
    /\ Kinds \subseteq AllKinds
ASSUME HandlerAssumption ==
    OnConnect \in Seq(Ops) /\ OnMessage \in Seq(Ops) /\ OnDisconnect \in Seq(Ops)

VARIABLES
    acc,          \* goroutine of HandleWebSocket, one per connection
    sock,         \* open underlying sockets (Connection.conn)
    rp,           \* ReadPump of each connection
    held,         \* the message a ReadPump is about to deliver
    wp,           \* WritePump of each connection
    qlen,         \* len(Connection.send)
    closed,       \* connections whose send channel is closed
    connections,  \* Hub.connections
    rooms,        \* Room.connections of each room
    crooms,       \* Connection.rooms
    inbox,        \* Hub.handleMessage
    bq,           \* len(Hub.broadcast)
    roomq,        \* Hub.broadcastToRoom
    hpc,          \* the hub goroutine
    hops,         \* what the running handler has still to do, and for whom
    saved,        \* Hub.connectionStates: the rooms saved for each client
    active,       \* Metrics.activeConnections
    gone,         \* connections whose onDisconnect handlers were called
    spc,          \* goroutine of Shutdown
    reads         \* messages read so far

socket  == <<acc, sock, rp, held, wp, qlen>>
handler == <<hpc, hops>>
queues  == <<inbox, bq, roomq>>
tables  == <<closed, connections, rooms, crooms, active, gone, saved>>
vars    == <<socket, handler, queues, tables, spc, reads>>

-----------------------------------------------------------------------------
\* The process has not been ended by a panic.
Alive == hpc # "panicked"

(* HandleWebSocket: upgrade, register, count the pumps, start them.        *)

Accept(c) ==
    /\ Alive /\ acc[c] = "new"
    /\ acc' = [acc EXCEPT ![c] = "wait"]
    /\ sock' = sock \cup {c}
    /\ UNCHANGED <<rp, held, wp, qlen, handler, queues, tables, spc, reads>>

\* The hub is back in its select.
Selecting == hpc = "live" /\ hops = <<>>

\* Run the operations ops for connection c.
Handle(c, r, ops) ==
    /\ hops' = [i \in DOMAIN ops |-> [op |-> ops[i], conn |-> c, room |-> r]]
    /\ UNCHANGED hpc

Full(S, max) == max > 0 /\ Cardinality(S) >= max

\* Mutant: the limit is checked with > instead of >=.
HubRegisterOffByOne(c) ==
    /\ Selecting /\ acc[c] = "wait"
    /\ acc' = [acc EXCEPT ![c] = "registered"]
    /\ IF MaxPerHub > 0 /\ Cardinality(connections) > MaxPerHub
       THEN /\ sock' = sock \ {c}
            /\ UNCHANGED <<connections, active, handler>>
       ELSE /\ connections' = connections \cup {c}
            /\ active' = active + 1
            /\ Handle(c, Lobby, OnConnect)
            /\ UNCHANGED sock
    /\ UNCHANGED <<rp, held, wp, qlen, closed, rooms, crooms, gone, saved, queues, spc, reads>>

\* case conn := <-h.register
HubRegister(c) ==
    /\ Selecting /\ acc[c] = "wait"
    /\ acc' = [acc EXCEPT ![c] = "registered"]
    /\ IF Full(connections, MaxPerHub)
       THEN /\ sock' = sock \ {c}
            /\ UNCHANGED <<connections, active, handler>>
       ELSE /\ connections' = connections \cup {c}
            /\ active' = active + 1
            /\ Handle(c, Lobby, OnConnect)
            /\ UNCHANGED sock
    /\ UNCHANGED <<rp, held, wp, qlen, closed, rooms, crooms, gone, saved, queues, spc, reads>>

\* connWg.Add(2), go WritePump, go ReadPump: also for a rejected connection.
StartPumps(c) ==
    /\ Alive /\ acc[c] = "registered"
    /\ acc' = [acc EXCEPT ![c] = "serving"]
    /\ rp' = [rp EXCEPT ![c] = "read"]
    /\ wp' = [wp EXCEPT ![c] = "run"]
    /\ UNCHANGED <<sock, held, qlen, handler, queues, tables, spc, reads>>

-----------------------------------------------------------------------------
(* ReadPump.                                                               *)

\* What a ReadPump with nothing to deliver holds.
Idle(c) == [conn |-> c, kind |-> "ping", room |-> Lobby]

ReadMessage(c, k, r) ==
    /\ Alive /\ rp[c] = "read" /\ c \in sock /\ reads < MaxReads
    /\ rp' = [rp EXCEPT ![c] = "deliver"]
    /\ held' = [held EXCEPT ![c] = [conn |-> c, kind |-> k, room |-> r]]
    /\ reads' = reads + 1
    /\ UNCHANGED <<acc, sock, wp, qlen, handler, queues, tables, spc>>

Deliver(c) ==
    /\ Alive /\ rp[c] = "deliver" /\ Len(inbox) < HubCap
    /\ inbox' = Append(inbox, held[c])
    /\ held' = [held EXCEPT ![c] = Idle(c)]
    /\ rp' = [rp EXCEPT ![c] = "read"]
    /\ UNCHANGED <<acc, sock, wp, qlen, handler, bq, roomq, tables, spc, reads>>

\* The peer closes, the read deadline passes, or our socket was closed.
ReadError(c) ==
    /\ Alive /\ rp[c] = "read"
    /\ rp' = [rp EXCEPT ![c] = "unregister"]
    /\ UNCHANGED <<acc, sock, held, wp, qlen, handler, queues, tables, spc, reads>>

ReadExit(c) ==
    /\ Alive /\ rp[c] = "close"
    /\ rp' = [rp EXCEPT ![c] = "done"]
    /\ sock' = sock \ {c}
    /\ UNCHANGED <<acc, held, wp, qlen, handler, queues, tables, spc, reads>>

-----------------------------------------------------------------------------
(* WritePump.                                                              *)

WriteExit(c) ==
    /\ wp' = [wp EXCEPT ![c] = "done"]
    /\ sock' = sock \ {c}

\* Write one message and the n queued behind it.
WriteMessages(c) ==
    /\ Alive /\ wp[c] = "run" /\ qlen[c] > 0 /\ c \in sock
    /\ qlen' = [qlen EXCEPT ![c] = 0]
    /\ UNCHANGED <<acc, sock, rp, held, wp, handler, queues, tables, spc, reads>>

\* NextWriter fails with one message taken, or Close with all of them.
WriteError(c) ==
    /\ Alive /\ wp[c] = "run" /\ qlen[c] > 0
    /\ \E n \in {qlen[c] - 1, 0} : qlen' = [qlen EXCEPT ![c] = n]
    /\ WriteExit(c)
    /\ UNCHANGED <<acc, rp, held, handler, queues, tables, spc, reads>>

\* The hub closed the channel and it is drained.
WriteClosed(c) ==
    /\ Alive /\ wp[c] = "run" /\ c \in closed /\ qlen[c] = 0
    /\ WriteExit(c)
    /\ UNCHANGED <<acc, rp, held, qlen, handler, queues, tables, spc, reads>>

\* Mutant: the error of writing the ping is ignored.
TickIgnoresError(c) ==
    /\ Alive /\ Heartbeat /\ wp[c] = "run" /\ c \in sock
    /\ WriteExit(c)
    /\ UNCHANGED <<acc, rp, held, qlen, handler, queues, tables, spc, reads>>

\* A tick finds too many missed pongs, or the ping cannot be written: it
\* never can once the socket is closed.
Tick(c) ==
    /\ Alive /\ Heartbeat /\ wp[c] = "run"
    /\ WriteExit(c)
    /\ UNCHANGED <<acc, rp, held, qlen, handler, queues, tables, spc, reads>>

-----------------------------------------------------------------------------
(* The hub's other cases.                                                  *)

WithoutConn(S) == [r \in Rooms |-> rooms[r] \ S]

\* saveConnectionState: Connection.rooms, which leaving the rooms did not clear.
SaveState(c) ==
    IF KeepState THEN saved' = [saved EXCEPT ![c] = {crooms[c]}] ELSE UNCHANGED saved

\* cleanupConnectionState, ReconnectionTimeout later.
ExpireState(c) ==
    /\ Alive /\ saved[c] # {}
    /\ saved' = [saved EXCEPT ![c] = {}]
    /\ UNCHANGED <<socket, handler, queues, closed, connections, rooms, crooms, active,
                   gone, spc, reads>>

\* Mutant: the metrics are updated for unknown connections too.
HubUnregisterAlways(c) ==
    /\ Selecting /\ rp[c] = "unregister"
    /\ rp' = [rp EXCEPT ![c] = "close"]
    /\ active' = active - 1
    /\ IF c \in connections
       THEN /\ connections' = connections \ {c}
            /\ closed' = closed \cup {c}
            /\ rooms' = WithoutConn({c})
            /\ gone' = gone \cup {c}
            /\ SaveState(c)
            /\ Handle(c, Lobby, OnDisconnect)
       ELSE UNCHANGED <<connections, closed, rooms, gone, saved, handler>>
    /\ UNCHANGED <<acc, sock, held, wp, qlen, crooms, queues, spc, reads>>

\* Mutant: the connection stays in its rooms.
HubUnregisterKeepsRooms(c) ==
    /\ Selecting /\ rp[c] = "unregister"
    /\ rp' = [rp EXCEPT ![c] = "close"]
    /\ IF c \in connections
       THEN /\ connections' = connections \ {c}
            /\ closed' = closed \cup {c}
            /\ active' = active - 1
            /\ gone' = gone \cup {c}
            /\ SaveState(c)
            /\ Handle(c, Lobby, OnDisconnect)
       ELSE UNCHANGED <<connections, closed, active, gone, saved, handler>>
    /\ UNCHANGED <<acc, sock, held, wp, qlen, rooms, crooms, queues, spc, reads>>

\* case conn := <-h.unregister, sent by the deferred function of ReadPump.
HubUnregister(c) ==
    /\ Selecting /\ rp[c] = "unregister"
    /\ rp' = [rp EXCEPT ![c] = "close"]
    /\ IF c \in connections
       THEN /\ connections' = connections \ {c}
            /\ closed' = closed \cup {c}
            /\ rooms' = WithoutConn({c})
            /\ active' = active - 1
            /\ gone' = gone \cup {c}
            /\ SaveState(c)
            /\ Handle(c, Lobby, OnDisconnect)
       ELSE UNCHANGED <<connections, closed, rooms, active, gone, saved, handler>>
    /\ UNCHANGED <<acc, sock, held, wp, qlen, crooms, queues, spc, reads>>

\* The default handlers, and the compiled handler for text messages.
Handlers(kind) ==
    CASE kind = "ping"  -> <<"reply">>
      [] kind = "join"  -> <<"join", "reply">>
      [] kind = "leave" -> <<"leave", "reply">>
      [] kind = "text"  -> OnMessage
      [] OTHER          -> <<kind>>

\* case msgCtx := <-h.handleMessage
HubHandleMessage ==
    /\ Selecting /\ inbox # <<>>
    /\ inbox' = Tail(inbox)
    /\ LET m == Head(inbox) IN Handle(m.conn, m.room, Handlers(m.kind))
    /\ UNCHANGED <<socket, bq, roomq, tables, spc, reads>>

\* Mutant: an overflowing connection is closed but stays in the hub.
HubBroadcastKeeps ==
    /\ Selecting /\ bq > 0
    /\ bq' = bq - 1
    /\ LET slow == {c \in connections : qlen[c] >= SendCap}
       IN  /\ closed' = closed \cup slow
           /\ rooms' = WithoutConn(slow)
           /\ qlen' = [c \in Conns |-> IF c \in connections \ slow THEN qlen[c] + 1 ELSE qlen[c]]
    /\ UNCHANGED <<acc, sock, rp, held, wp, handler, inbox, roomq, connections, crooms,
                   active, gone, saved, spc, reads>>

\* case message := <-h.broadcast: slow connections are closed and dropped.
HubBroadcast ==
    /\ Selecting /\ bq > 0
    /\ bq' = bq - 1
    /\ LET slow == {c \in connections : qlen[c] >= SendCap}
       IN  /\ closed' = closed \cup slow
           /\ connections' = connections \ slow
           /\ rooms' = WithoutConn(slow)
           /\ qlen' = [c \in Conns |-> IF c \in connections \ slow THEN qlen[c] + 1 ELSE qlen[c]]
    /\ UNCHANGED <<acc, sock, rp, held, wp, handler, inbox, roomq, crooms, active, gone,
                   saved, spc, reads>>

\* case roomMsg := <-h.broadcastToRoom: slow members are skipped.
HubRoomBroadcast ==
    /\ Selecting /\ roomq # <<>>
    /\ roomq' = Tail(roomq)
    /\ LET to == rooms[Head(roomq).room] \ Head(roomq).exclude
       IN  IF to \cap closed # {}
           THEN hpc' = "panicked" /\ UNCHANGED qlen
           ELSE /\ qlen' = [c \in Conns |-> IF c \in to /\ qlen[c] < SendCap
                                           THEN qlen[c] + 1 ELSE qlen[c]]
                /\ UNCHANGED hpc
    /\ UNCHANGED <<acc, sock, rp, held, wp, hops, inbox, bq, tables, spc, reads>>

\* case <-h.shutdown
HubExit ==
    /\ Selecting /\ spc = "closed"
    /\ hpc' = "exited"
    /\ UNCHANGED <<socket, hops, queues, tables, spc, reads>>

-----------------------------------------------------------------------------
(* The operations of a handler, in the hub goroutine.                      *)

Doing(op) == hpc = "live" /\ hops # <<>> /\ hops[1].op = op

\* The operation is done; go on with the handler.
Done == hops' = Tail(hops) /\ UNCHANGED hpc

\* Connection.Send.  With "block" and a full channel the hub waits.
DoReply ==
    /\ Doing("reply")
    /\ LET c == hops[1].conn
       IN \/ /\ c \in closed
             /\ hpc' = "panicked"
             /\ UNCHANGED <<qlen, hops>>
          \/ /\ c \notin closed /\ qlen[c] < SendCap
             /\ qlen' = [qlen EXCEPT ![c] = @ + 1]
             /\ Done
          \/ /\ c \notin closed /\ qlen[c] >= SendCap /\ Strategy # "block"
             /\ UNCHANGED qlen
             /\ Done
    /\ UNCHANGED <<acc, sock, rp, held, wp, queues, tables, spc, reads>>

\* Connection.JoinRoom: a full room refuses, which is only logged.
DoJoin ==
    /\ Doing("join")
    /\ LET c == hops[1].conn
           r == hops[1].room
       IN  /\ crooms' = [crooms EXCEPT ![c] = @ \cup {r}]
           /\ rooms' = [rooms EXCEPT ![r] = IF Full(@, MaxPerRoom) THEN @ ELSE @ \cup {c}]
    /\ Done
    /\ UNCHANGED <<socket, queues, closed, connections, active, gone, saved, spc, reads>>

\* Connection.LeaveRoom
DoLeave ==
    /\ Doing("leave")
    /\ LET c == hops[1].conn
           r == hops[1].room
       IN  /\ crooms' = [crooms EXCEPT ![c] = @ \ {r}]
           /\ rooms' = [rooms EXCEPT ![r] = @ \ {c}]
    /\ Done
    /\ UNCHANGED <<socket, queues, closed, connections, active, gone, saved, spc, reads>>

\* The hub sends to its own channel: with a full channel it waits for itself.
DoBroadcast ==
    /\ Doing("bcast") /\ bq < HubCap
    /\ bq' = bq + 1
    /\ Done
    /\ UNCHANGED <<socket, inbox, roomq, tables, spc, reads>>

\* ws.broadcast_to_room excludes nobody, a broadcast message its sender.
DoRoomBroadcast ==
    /\ Doing("bcastRoom") \/ Doing("bcastOthers")
    /\ Len(roomq) < HubCap
    /\ roomq' = Append(roomq, [room |-> hops[1].room,
                               exclude |-> IF Doing("bcastOthers") THEN {hops[1].conn} ELSE {}])
    /\ Done
    /\ UNCHANGED <<socket, inbox, bq, tables, spc, reads>>

\* "close" has no step: Connection.Close sends on h.unregister, which only
\* the hub itself receives from.
HandlerStep == DoReply \/ DoJoin \/ DoLeave \/ DoBroadcast \/ DoRoomBroadcast

-----------------------------------------------------------------------------
(* Shutdown.                                                               *)

PumpsDone == \A c \in Conns : rp[c] \in {"off", "done"} /\ wp[c] \in {"off", "done"}

\* Close the sockets of the connections of this moment.
Shutdown ==
    /\ Alive /\ spc = "idle"
    /\ spc' = "waiting"
    /\ sock' = sock \ connections
    /\ UNCHANGED <<acc, rp, held, wp, qlen, handler, queues, tables, reads>>

\* h.connWg.Wait(), close(h.shutdown)
ShutdownWaited ==
    /\ Alive /\ spc = "waiting" /\ PumpsDone
    /\ spc' = "closed"
    /\ UNCHANGED <<socket, handler, queues, tables, reads>>

\* h.wg.Wait()
ShutdownReturns ==
    /\ Alive /\ spc = "closed" /\ hpc = "exited"
    /\ spc' = "returned"
    /\ UNCHANGED <<socket, handler, queues, tables, reads>>

-----------------------------------------------------------------------------
Init ==
    /\ acc = [c \in Conns |-> "new"] /\ sock = {}
    /\ rp = [c \in Conns |-> "off"] /\ held = [c \in Conns |-> Idle(c)]
    /\ wp = [c \in Conns |-> "off"] /\ qlen = [c \in Conns |-> 0]
    /\ closed = {} /\ connections = {}
    /\ rooms = [r \in Rooms |-> {}] /\ crooms = [c \in Conns |-> {}]
    /\ inbox = <<>> /\ bq = 0 /\ roomq = <<>>
    /\ hpc = "live" /\ hops = <<>>
    /\ active = 0 /\ gone = {} /\ saved = [c \in Conns |-> {}]
    /\ spc = "idle" /\ reads = 0

HubSelect ==
    \/ \E c \in Conns : HubRegister(c) \/ HubUnregister(c)
    \/ HubHandleMessage \/ HubBroadcast \/ HubRoomBroadcast \/ HubExit

Pump(c) ==
    \/ \E k \in Kinds, r \in Rooms : ReadMessage(c, k, r)
    \/ Deliver(c) \/ ReadError(c) \/ ReadExit(c)
    \/ WriteMessages(c) \/ WriteError(c) \/ WriteClosed(c) \/ Tick(c)

Next ==
    \/ \E c \in Conns : Accept(c) \/ StartPumps(c) \/ Pump(c) \/ ExpireState(c)
    \/ HubSelect \/ HandlerStep
    \/ Shutdown \/ ShutdownWaited \/ ShutdownReturns

Spec == Init /\ [][Next]_vars

(***************************************************************************)
(* Fairness: the Go scheduler runs every goroutine that is not blocked,    *)
(* and the select of the hub serves a waiting goroutine once it is idle.   *)
(* A read or write must fail only once the socket is closed; clients need  *)
(* not send, and nobody need connect or call Shutdown.                     *)
(***************************************************************************)
ReaderMoves(c) == Deliver(c) \/ ReadExit(c) \/ (c \notin sock /\ ReadError(c))
WriterMoves(c) ==
    \/ WriteMessages(c) \/ WriteClosed(c)
    \/ c \notin sock /\ (WriteError(c) \/ Tick(c))

Fairness ==
    /\ \A c \in Conns : /\ WF_vars(StartPumps(c))
                         /\ WF_vars(ReaderMoves(c))
                         /\ WF_vars(WriterMoves(c))
    /\ WF_vars(HubSelect) /\ WF_vars(HandlerStep)
    /\ WF_vars(ShutdownWaited \/ ShutdownReturns)

FairSpec == Spec /\ Fairness

-----------------------------------------------------------------------------
(* Properties.                                                             *)

Messages     == [conn : Conns, kind : AllKinds, room : Rooms]
RoomMessages == [room : Rooms, exclude : SUBSET Conns]
Tasks        == [op : Ops, conn : Conns, room : Rooms]

SocketOK ==
    /\ acc \in [Conns -> {"new", "wait", "registered", "serving"}] /\ sock \subseteq Conns
    /\ rp \in [Conns -> {"off", "read", "deliver", "unregister", "close", "done"}]
    /\ held \in [Conns -> Messages]
    /\ wp \in [Conns -> {"off", "run", "done"}] /\ qlen \in [Conns -> 0..SendCap]
HandlerOK ==
    /\ hpc \in {"live", "panicked", "exited"}
    /\ hops \in Seq(Tasks)
QueuesOK ==
    /\ inbox \in Seq(Messages) /\ Len(inbox) <= HubCap /\ bq \in 0..HubCap
    /\ roomq \in Seq(RoomMessages) /\ Len(roomq) <= HubCap
TablesOK ==
    /\ closed \subseteq Conns /\ connections \subseteq Conns
    /\ rooms \in [Rooms -> SUBSET Conns] /\ crooms \in [Conns -> SUBSET Rooms]
    /\ active \in Int /\ gone \subseteq Conns
    /\ saved \in [Conns -> SUBSET (SUBSET Rooms)]

\* Every variable keeps to its type; no channel exceeds its capacity.
TypeOK ==
    /\ SocketOK /\ HandlerOK /\ QueuesOK /\ TablesOK
    /\ spc \in {"idle", "waiting", "closed", "returned"} /\ reads \in 0..MaxReads

(***************************************************************************)
(* A registered connection has an open send channel, whichever of          *)
(* unregister and an overflowing broadcast came first: the hub's loops     *)
(* over its connections never send on or close a closed channel.           *)
(***************************************************************************)
RegisteredOpen ==
    /\ connections \cap closed = {}
    /\ \A c \in connections : acc[c] \in {"registered", "serving"}
    /\ gone \subseteq closed

(***************************************************************************)
(* Hub and rooms never hold more connections than configured.              *)
(***************************************************************************)
WithinLimits ==
    /\ MaxPerHub > 0 => Cardinality(connections) <= MaxPerHub
    /\ MaxPerRoom > 0 => \A r \in Rooms : Cardinality(rooms[r]) <= MaxPerRoom

(***************************************************************************)
(* The active counter is the number of connections whose onConnect was     *)
(* counted and whose onDisconnect was not: also when pumps of rejected or  *)
(* evicted connections unregister.                                         *)
(***************************************************************************)
ActiveCounted == active = Cardinality(connections \cup (closed \ gone))

(***************************************************************************)
(* Between two cases of the select no room holds a connection the hub has  *)
(* dropped, as long as the handlers of the route join only on connect:     *)
(* so Room.Broadcast does not send on a closed channel.                    *)
(***************************************************************************)
RoomsRegistered ==
    Selecting => \A r \in Rooms : rooms[r] \subseteq connections

(***************************************************************************)
(* Once the socket of a serving connection is closed, by whoever, both its *)
(* pumps end and release connWg, unless the hub is gone.                   *)
(***************************************************************************)
PumpsEnd ==
    \A c \in Conns : (acc[c] = "serving" /\ c \notin sock)
                        ~> (rp[c] = "done" /\ wp[c] = "done") \/ hpc # "live"

-----------------------------------------------------------------------------
(* What the documentation says, and the code does not do.                  *)

(***************************************************************************)
(* pkg/websocket/README.md:7 "Thread-safe connection tracking and          *)
(* lifecycle management": no interleaving of pumps and hub brings the      *)
(* process down.                                                           *)
(***************************************************************************)
NoPanic == hpc # "panicked"

(***************************************************************************)
(* server.go:308 "Wait for all connection goroutines to finish (they will  *)
(* unregister themselves)": when Shutdown returns no connection is left.   *)
(***************************************************************************)
ShutdownDrains == spc = "returned" => connections = {}
=============================================================================
