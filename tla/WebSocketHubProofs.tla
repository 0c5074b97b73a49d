------------------------- MODULE WebSocketHubProofs -------------------------
(***************************************************************************)
(* Proofs about WebSocketHub, for any connections, rooms, capacities,      *)
(* limits and handlers.                                                    *)
(***************************************************************************)
EXTENDS WebSocketHub, FiniteSetTheorems, TLAPS

-----------------------------------------------------------------------------
(* Facts about the operators.                                              *)

\* The tasks of a handler are tasks.
LEMMA HandleType ==
  ASSUME NEW c \in Conns, NEW r \in Rooms, NEW ops \in Seq(Ops), Handle(c, r, ops)
  PROVE  hops' \in Seq(Tasks) /\ hpc' = hpc
<1>1. hops' = [i \in 1..Len(ops) |-> [op |-> ops[i], conn |-> c, room |-> r]]
  BY DEF Handle
<1>2. \A i \in 1..Len(ops) : [op |-> ops[i], conn |-> c, room |-> r] \in Tasks
  BY DEF Tasks
<1>3. hops' \in [1..Len(ops) -> Tasks] /\ Len(ops) \in Nat
  BY <1>1, <1>2
<1>4. hops' \in Seq(Tasks)
  BY <1>3
<1> QED BY <1>4 DEF Handle

LEMMA HandlersType ==
  ASSUME NEW k \in AllKinds
  PROVE  Handlers(k) \in Seq(Ops)
<1>1. CASE k = "ping"
  BY <1>1 DEF Handlers, Ops
<1>2. CASE k = "join"
  BY <1>2 DEF Handlers, Ops
<1>3. CASE k = "leave"
  BY <1>3 DEF Handlers, Ops
<1>4. CASE k = "text"
  BY <1>4, HandlerAssumption DEF Handlers
<1>5. CASE k = "bcast" \/ k = "bcastOthers"
  <2>1. k \in Ops
    BY <1>5 DEF Ops
  <2>2. Handlers(k) = <<k>>
    BY <1>5 DEF Handlers
  <2> QED BY <2>1, <2>2
<1> QED BY <1>1, <1>2, <1>3, <1>4, <1>5 DEF AllKinds

LEMMA TailType ==
  ASSUME NEW S, NEW s \in Seq(S), s # <<>>
  PROVE  /\ Tail(s) \in Seq(S) /\ s[1] \in S /\ Head(s) = s[1]
         /\ Len(s) \in Nat \ {0} /\ Len(Tail(s)) = Len(s) - 1
         /\ \A i \in 1..Len(Tail(s)) : Tail(s)[i] = s[i+1]
  OBVIOUS

LEMMA AppendType ==
  ASSUME NEW S, NEW s \in Seq(S), NEW e \in S
  PROVE  /\ Append(s, e) \in Seq(S) /\ Len(Append(s, e)) = Len(s) + 1
         /\ \A i \in 1..Len(s) : Append(s, e)[i] = s[i]
         /\ Append(s, e)[Len(s) + 1] = e
  OBVIOUS

-----------------------------------------------------------------------------
(* The type invariant.                                                     *)

LEMMA TypeStep ==
  ASSUME TypeOK, [Next]_vars
  PROVE  TypeOK'
<1>t. SocketOK /\ HandlerOK /\ QueuesOK /\ TablesOK /\ Lobby \in Rooms
      /\ spc \in {"idle", "waiting", "closed", "returned"} /\ reads \in 0..MaxReads
  BY RoomsAssumption DEF TypeOK
<1>s. UNCHANGED socket => SocketOK'
  BY <1>t DEF socket, SocketOK
<1>h. UNCHANGED handler => HandlerOK'
  BY <1>t DEF handler, HandlerOK
<1>q. UNCHANGED queues => QueuesOK'
  BY <1>t DEF queues, QueuesOK
<1>b. UNCHANGED tables => TablesOK'
  BY <1>t DEF tables, TablesOK
<1>c. SendCap \in Nat /\ SendCap > 0 /\ HubCap \in Nat /\ MaxReads \in Nat
  BY CapAssumption, LimitAssumption
<1>1. CASE UNCHANGED vars
  BY <1>1, <1>s, <1>h, <1>q, <1>b, <1>t DEF vars, TypeOK
<1>2. ASSUME NEW c \in Conns, Accept(c) PROVE TypeOK'
  <2>1. SocketOK'
    BY <1>2, <1>t DEF Accept, SocketOK
  <2> QED BY <1>2, <2>1, <1>h, <1>q, <1>b, <1>t DEF Accept, TypeOK
<1>3. ASSUME NEW c \in Conns, StartPumps(c) PROVE TypeOK'
  <2>1. SocketOK'
    BY <1>3, <1>t DEF StartPumps, SocketOK
  <2> QED BY <1>3, <2>1, <1>h, <1>q, <1>b, <1>t DEF StartPumps, TypeOK
<1>4. ASSUME NEW c \in Conns, ExpireState(c) PROVE TypeOK'
  <2>1. TablesOK'
    BY <1>4, <1>t DEF ExpireState, TablesOK
  <2> QED BY <1>4, <2>1, <1>s, <1>h, <1>q, <1>t DEF ExpireState, TypeOK
<1>5. ASSUME NEW c \in Conns, NEW k \in Kinds, NEW r \in Rooms, ReadMessage(c, k, r)
      PROVE  TypeOK'
  <2>1. [conn |-> c, kind |-> k, room |-> r] \in Messages
    BY ConfigAssumption DEF Messages
  <2>2. SocketOK'
    BY <1>5, <2>1, <1>t DEF ReadMessage, SocketOK
  <2>3. reads' \in 0..MaxReads
    BY <1>5, <1>t, <1>c DEF ReadMessage
  <2> QED BY <1>5, <2>2, <2>3, <1>h, <1>q, <1>b, <1>t DEF ReadMessage, TypeOK
<1>6. ASSUME NEW c \in Conns, Deliver(c) PROVE TypeOK'
  <2>1. Idle(c) \in Messages
    BY <1>t DEF Idle, Messages, AllKinds
  <2>2. SocketOK'
    BY <1>6, <2>1, <1>t DEF Deliver, SocketOK
  <2>3. held[c] \in Messages
    BY <1>t DEF SocketOK
  <2>4. inbox' \in Seq(Messages) /\ Len(inbox') <= HubCap
    BY <1>6, <2>3, <1>t, <1>c, AppendType DEF Deliver, QueuesOK
  <2>5. QueuesOK'
    BY <1>6, <2>4, <1>t DEF Deliver, QueuesOK
  <2> QED BY <1>6, <2>2, <2>5, <1>h, <1>b, <1>t DEF Deliver, TypeOK
<1>7. ASSUME NEW c \in Conns, ReadError(c) \/ ReadExit(c) PROVE TypeOK'
  <2>1. SocketOK'
    BY <1>7, <1>t DEF ReadError, ReadExit, SocketOK
  <2> QED BY <1>7, <2>1, <1>h, <1>q, <1>b, <1>t DEF ReadError, ReadExit, TypeOK
<1>8. ASSUME NEW c \in Conns, WriteMessages(c) PROVE TypeOK'
  <2>1. SocketOK'
    BY <1>8, <1>t, <1>c DEF WriteMessages, SocketOK
  <2> QED BY <1>8, <2>1, <1>h, <1>q, <1>b, <1>t DEF WriteMessages, TypeOK
<1>9. ASSUME NEW c \in Conns, WriteError(c) PROVE TypeOK'
  <2>1. qlen[c] - 1 \in 0..SendCap /\ 0 \in 0..SendCap
    BY <1>9, <1>t, <1>c DEF WriteError, SocketOK
  <2>2. SocketOK'
    BY <1>9, <2>1, <1>t DEF WriteError, WriteExit, SocketOK
  <2> QED BY <1>9, <2>2, <1>h, <1>q, <1>b, <1>t DEF WriteError, TypeOK
<1>10. ASSUME NEW c \in Conns, WriteClosed(c) \/ Tick(c) PROVE TypeOK'
  <2>1. SocketOK'
    BY <1>10, <1>t DEF WriteClosed, Tick, WriteExit, SocketOK
  <2> QED BY <1>10, <2>1, <1>h, <1>q, <1>b, <1>t DEF WriteClosed, Tick, TypeOK
<1>11. ASSUME NEW c \in Conns, HubRegister(c) PROVE TypeOK'
  <2>1. SocketOK'
    BY <1>11, <1>t DEF HubRegister, SocketOK
  <2>2. TablesOK'
    BY <1>11, <1>t DEF HubRegister, TablesOK
  <2>3. HandlerOK'
    BY <1>11, <1>t, HandlerAssumption, HandleType DEF HubRegister, HandlerOK, handler
  <2> QED BY <1>11, <2>1, <2>2, <2>3, <1>q, <1>t DEF HubRegister, TypeOK
<1>12. ASSUME NEW c \in Conns, HubUnregister(c) PROVE TypeOK'
  <2>1. SocketOK'
    BY <1>12, <1>t DEF HubUnregister, SocketOK
  <2>2. rooms' \in [Rooms -> SUBSET Conns] /\ saved' \in [Conns -> SUBSET (SUBSET Rooms)]
    BY <1>12, <1>t DEF HubUnregister, WithoutConn, SaveState, TablesOK
  <2>3. TablesOK'
    BY <1>12, <2>2, <1>t DEF HubUnregister, TablesOK
  <2>4. HandlerOK'
    BY <1>12, <1>t, HandlerAssumption, HandleType DEF HubUnregister, HandlerOK, handler
  <2> QED BY <1>12, <2>1, <2>3, <2>4, <1>q, <1>t DEF HubUnregister, TypeOK
<1>13. CASE HubHandleMessage
  <2>1. /\ Tail(inbox) \in Seq(Messages) /\ inbox[1] \in Messages /\ Head(inbox) = inbox[1]
        /\ Len(Tail(inbox)) <= HubCap
    BY <1>13, <1>t, <1>c, TailType DEF HubHandleMessage, QueuesOK
  <2>2. /\ inbox[1].conn \in Conns /\ inbox[1].room \in Rooms
        /\ Handlers(inbox[1].kind) \in Seq(Ops)
    BY <2>1, HandlersType DEF Messages
  <2>3. Handle(inbox[1].conn, inbox[1].room, Handlers(inbox[1].kind)) /\ inbox' = Tail(inbox)
    BY <1>13, <2>1 DEF HubHandleMessage
  <2>4. HandlerOK'
    BY <2>2, <2>3, <1>t, HandleType DEF HandlerOK
  <2>5. QueuesOK'
    BY <1>13, <2>1, <2>3, <1>t DEF HubHandleMessage, QueuesOK
  <2> QED BY <1>13, <2>4, <2>5, <1>s, <1>b, <1>t DEF HubHandleMessage, TypeOK
<1>14. CASE HubBroadcast
  <2>1. bq' \in 0..HubCap /\ UNCHANGED <<inbox, roomq>>
    BY <1>14, <1>t, <1>c DEF HubBroadcast, QueuesOK
  <2>2. QueuesOK'
    BY <2>1, <1>t DEF QueuesOK
  <2>3. qlen' \in [Conns -> 0..SendCap]
    BY <1>14, <1>t, <1>c DEF HubBroadcast, SocketOK
  <2>4. SocketOK'
    BY <1>14, <2>3, <1>t DEF HubBroadcast, SocketOK
  <2>5. rooms' \in [Rooms -> SUBSET Conns]
    BY <1>14, <1>t DEF HubBroadcast, WithoutConn, TablesOK
  <2>6. TablesOK'
    BY <1>14, <2>5, <1>t DEF HubBroadcast, TablesOK
  <2> QED BY <1>14, <2>2, <2>4, <2>6, <1>h, <1>t DEF HubBroadcast, TypeOK
<1>15. CASE HubRoomBroadcast
  <2>1. Tail(roomq) \in Seq(RoomMessages) /\ Len(Tail(roomq)) <= HubCap
    BY <1>15, <1>t, <1>c, TailType DEF HubRoomBroadcast, QueuesOK
  <2>2. QueuesOK'
    BY <1>15, <2>1, <1>t DEF HubRoomBroadcast, QueuesOK
  <2>3. qlen' \in [Conns -> 0..SendCap]
    <3>1. \A c \in Conns : qlen[c] \in 0..SendCap /\ (qlen[c] < SendCap => qlen[c] + 1 \in 0..SendCap)
      BY <1>t, <1>c DEF SocketOK
    <3>2. CASE UNCHANGED qlen
      BY <3>2, <1>t DEF SocketOK
    <3>3. CASE ~UNCHANGED qlen
      BY <1>15, <3>1, <3>3 DEF HubRoomBroadcast
    <3> QED BY <3>2, <3>3
  <2>4. SocketOK'
    BY <1>15, <2>3, <1>t DEF HubRoomBroadcast, SocketOK
  <2>5. HandlerOK'
    BY <1>15, <1>t DEF HubRoomBroadcast, HandlerOK
  <2> QED BY <1>15, <2>2, <2>4, <2>5, <1>b, <1>t DEF HubRoomBroadcast, TypeOK
<1>16. CASE HubExit
  <2>1. HandlerOK'
    BY <1>16, <1>t DEF HubExit, HandlerOK
  <2> QED BY <1>16, <2>1, <1>s, <1>q, <1>b, <1>t DEF HubExit, TypeOK
<1>17. CASE HandlerStep
  <2>0. hops # <<>> /\ (Done \/ (hpc' = "panicked" /\ UNCHANGED hops))
    BY <1>17 DEF HandlerStep, DoReply, DoJoin, DoLeave, DoBroadcast, DoRoomBroadcast, Doing
  <2>1. /\ Tail(hops) \in Seq(Tasks)
        /\ hops[1].conn \in Conns /\ hops[1].room \in Rooms
    <3>1. Tail(hops) \in Seq(Tasks) /\ hops[1] \in Tasks
      BY <2>0, <1>t, TailType DEF HandlerOK
    <3> QED BY <3>1 DEF Tasks
  <2>2. HandlerOK'
    BY <2>0, <2>1, <1>t DEF Done, HandlerOK
  <2>3. CASE DoReply
    <3>1. qlen' \in [Conns -> 0..SendCap]
      BY <2>1, <2>3, <1>t, <1>c DEF DoReply, SocketOK
    <3>2. SocketOK'
      BY <2>3, <3>1, <1>t DEF DoReply, SocketOK
    <3> QED BY <2>2, <2>3, <3>2, <1>q, <1>b, <1>t DEF DoReply, TypeOK
  <2>4. CASE DoJoin \/ DoLeave
    <3>1. rooms' \in [Rooms -> SUBSET Conns] /\ crooms' \in [Conns -> SUBSET Rooms]
      BY <2>1, <2>4, <1>t DEF DoJoin, DoLeave, TablesOK
    <3>2. TablesOK'
      BY <2>4, <3>1, <1>t DEF DoJoin, DoLeave, TablesOK
    <3> QED BY <2>2, <2>4, <3>2, <1>s, <1>q, <1>t DEF DoJoin, DoLeave, TypeOK
  <2>5. CASE DoBroadcast
    <3>1. QueuesOK'
      BY <2>5, <1>t, <1>c DEF DoBroadcast, QueuesOK
    <3> QED BY <2>2, <2>5, <3>1, <1>s, <1>b, <1>t DEF DoBroadcast, TypeOK
  <2>6. CASE DoRoomBroadcast
    <3>1. PICK e \in RoomMessages : roomq' = Append(roomq, e)
      BY <2>1, <2>6 DEF DoRoomBroadcast, RoomMessages
    <3>2. roomq' \in Seq(RoomMessages) /\ Len(roomq') <= HubCap
      BY <2>6, <3>1, <1>t, <1>c, AppendType DEF DoRoomBroadcast, QueuesOK
    <3>3. QueuesOK'
      BY <2>6, <3>2, <1>t DEF DoRoomBroadcast, QueuesOK
    <3> QED BY <2>2, <2>6, <3>3, <1>s, <1>b, <1>t DEF DoRoomBroadcast, TypeOK
  <2> QED BY <1>17, <2>3, <2>4, <2>5, <2>6 DEF HandlerStep
<1>18. CASE Shutdown
  <2>1. SocketOK'
    BY <1>18, <1>t DEF Shutdown, SocketOK
  <2> QED BY <1>18, <2>1, <1>h, <1>q, <1>b, <1>t DEF Shutdown, TypeOK
<1>19. CASE ShutdownWaited \/ ShutdownReturns
  BY <1>19, <1>s, <1>h, <1>q, <1>b, <1>t DEF ShutdownWaited, ShutdownReturns, TypeOK
<1> QED BY <1>1, <1>2, <1>3, <1>4, <1>5, <1>6, <1>7, <1>8, <1>9, <1>10, <1>11, <1>12,
           <1>13, <1>14, <1>15, <1>16, <1>17, <1>18, <1>19 DEF Next, Pump, HubSelect

LEMMA TypeInit ==
  ASSUME Init
  PROVE  TypeOK
<1>1. \A c \in Conns : Idle(c) \in Messages
  BY RoomsAssumption DEF Idle, Messages, AllKinds
<1>2. SocketOK
  BY <1>1, CapAssumption DEF Init, SocketOK
<1>3. HandlerOK /\ QueuesOK
  BY CapAssumption DEF Init, HandlerOK, QueuesOK
<1>4. TablesOK
  BY DEF Init, TablesOK
<1> QED BY <1>2, <1>3, <1>4, LimitAssumption DEF Init, TypeOK

(***************************************************************************)
(* Every variable keeps its type and no channel exceeds its capacity.      *)
(***************************************************************************)
THEOREM HubTypeCorrect == Spec => []TypeOK
BY TypeInit, TypeStep, PTL DEF Spec

-----------------------------------------------------------------------------
(* Registration: who is in the hub, who was closed, who is counted.        *)

\* A connection in the hub or closed by it has been registered.
RegInv == RegisteredOpen /\ \A c \in closed : acc[c] \in {"registered", "serving"}

\* The steps that do not write the tables of connections.
LEMMA QuietSteps ==
  ASSUME [Next]_vars
  PROVE  \/ UNCHANGED <<connections, closed, gone, active, rooms, hops>>
         \/ UNCHANGED <<connections, closed, gone, active, rooms>> /\ HubHandleMessage
         \/ \E c \in Conns : HubRegister(c)
         \/ \E c \in Conns : HubUnregister(c)
         \/ HubBroadcast
         \/ UNCHANGED <<connections, closed, gone, active>> /\ HandlerStep
<1>1. CASE UNCHANGED vars
  BY <1>1 DEF vars, tables, handler
<1>2. ASSUME NEW c \in Conns, Accept(c) \/ StartPumps(c) \/ Pump(c) \/ ExpireState(c)
      PROVE  UNCHANGED <<connections, closed, gone, active, rooms, hops>>
  BY <1>2 DEF Accept, StartPumps, Pump, ExpireState, ReadMessage, Deliver, ReadError,
       ReadExit, WriteMessages, WriteError, WriteClosed, Tick, tables, handler
<1>3. CASE HubRoomBroadcast \/ HubExit \/ Shutdown \/ ShutdownWaited \/ ShutdownReturns
  BY <1>3 DEF HubRoomBroadcast, HubExit, Shutdown, ShutdownWaited, ShutdownReturns,
       tables, handler
<1>4. CASE HubHandleMessage
  BY <1>4 DEF HubHandleMessage, tables
<1>5. CASE HandlerStep
  BY <1>5 DEF HandlerStep, DoReply, DoJoin, DoLeave, DoBroadcast, DoRoomBroadcast, tables
<1> QED BY <1>1, <1>2, <1>3, <1>4, <1>5 DEF Next, HubSelect

\* A registered connection stays registered.
LEMMA RegisteredStays ==
  ASSUME TypeOK, [Next]_vars, NEW d \in Conns, acc[d] \in {"registered", "serving"}
  PROVE  acc'[d] \in {"registered", "serving"}
<1>t. acc \in [Conns -> {"new", "wait", "registered", "serving"}]
  BY DEF TypeOK, SocketOK
<1>1. CASE UNCHANGED acc
  BY <1>1
<1>2. ASSUME NEW c \in Conns, Accept(c) PROVE acc'[d] \in {"registered", "serving"}
  BY <1>2, <1>t DEF Accept
<1>3. ASSUME NEW c \in Conns, StartPumps(c) PROVE acc'[d] \in {"registered", "serving"}
  BY <1>3, <1>t DEF StartPumps
<1>4. ASSUME NEW c \in Conns, HubRegister(c) PROVE acc'[d] \in {"registered", "serving"}
  BY <1>4, <1>t DEF HubRegister
<1>5. ASSUME NEW c \in Conns, Pump(c) \/ ExpireState(c) \/ HubUnregister(c) PROVE UNCHANGED acc
  BY <1>5 DEF Pump, ExpireState, ReadMessage, Deliver, ReadError, ReadExit, WriteMessages,
       WriteError, WriteClosed, Tick, HubUnregister, socket
<1>6. CASE HubHandleMessage \/ HubBroadcast \/ HubRoomBroadcast \/ HubExit \/ HandlerStep
           \/ Shutdown \/ ShutdownWaited \/ ShutdownReturns
  BY <1>6, <1>1 DEF HubHandleMessage, HubBroadcast, HubRoomBroadcast, HubExit, HandlerStep,
       DoReply, DoJoin, DoLeave, DoBroadcast, DoRoomBroadcast, Shutdown, ShutdownWaited,
       ShutdownReturns, socket
<1>7. CASE UNCHANGED vars
  BY <1>7, <1>1 DEF vars, socket
<1> QED BY <1>1, <1>2, <1>3, <1>4, <1>5, <1>6, <1>7 DEF Next, HubSelect

LEMMA RegStep ==
  ASSUME TypeOK, RegInv, [Next]_vars
  PROVE  RegInv'
<1>t. /\ acc \in [Conns -> {"new", "wait", "registered", "serving"}]
      /\ closed \subseteq Conns /\ connections \subseteq Conns
  BY DEF TypeOK, SocketOK, TablesOK
<1>a. \A d \in connections \cup closed : acc'[d] \in {"registered", "serving"}
  BY <1>t, RegisteredStays DEF RegInv, RegisteredOpen
<1>1. CASE UNCHANGED <<connections, closed, gone>>
  BY <1>1, <1>a DEF RegInv, RegisteredOpen
<1>2. ASSUME NEW c \in Conns, HubRegister(c) PROVE RegInv'
  <2>1. acc[c] = "wait" /\ acc'[c] = "registered" /\ UNCHANGED <<closed, gone>>
    BY <1>2, <1>t DEF HubRegister
  <2>2. connections' \subseteq connections \cup {c} /\ c \notin closed
    BY <1>2, <2>1 DEF HubRegister, RegInv
  <2> QED BY <2>1, <2>2, <1>a DEF RegInv, RegisteredOpen
<1>3. ASSUME NEW c \in Conns, HubUnregister(c) PROVE RegInv'
  <2>1. CASE c \in connections
    <3>1. connections' = connections \ {c} /\ closed' = closed \cup {c} /\ gone' = gone \cup {c}
      BY <1>3, <2>1 DEF HubUnregister
    <3> QED BY <2>1, <3>1, <1>a DEF RegInv, RegisteredOpen
  <2>2. CASE c \notin connections
    BY <1>3, <2>2, <1>1 DEF HubUnregister
  <2> QED BY <2>1, <2>2
<1>4. CASE HubBroadcast
  <2>1. PICK slow \in SUBSET connections :
          closed' = closed \cup slow /\ connections' = connections \ slow /\ gone' = gone
    BY <1>4 DEF HubBroadcast
  <2> QED BY <2>1, <1>a DEF RegInv, RegisteredOpen
<1> QED BY <1>1, <1>2, <1>3, <1>4, QuietSteps

\* The counter follows the connections that were counted and not uncounted.
LEMMA ActiveStep ==
  ASSUME TypeOK, RegInv, ActiveCounted, [Next]_vars
  PROVE  ActiveCounted'
<1> DEFINE Counted == connections \cup (closed \ gone)
<1>t. /\ acc \in [Conns -> {"new", "wait", "registered", "serving"}]
      /\ closed \subseteq Conns /\ connections \subseteq Conns
  BY DEF TypeOK, SocketOK, TablesOK
<1>f. IsFiniteSet(Counted)
  BY <1>t, ConnsAssumption, FS_Subset
<1>1. CASE UNCHANGED <<connections, closed, gone, active>>
  BY <1>1 DEF ActiveCounted
<1>2. ASSUME NEW c \in Conns, HubRegister(c) PROVE ActiveCounted'
  <2>1. c \notin Counted
    BY <1>2 DEF HubRegister, RegInv, RegisteredOpen
  <2>2. CASE Full(connections, MaxPerHub)
    BY <1>2, <2>2, <1>1 DEF HubRegister
  <2>3. CASE ~Full(connections, MaxPerHub)
    <3>1. active' = active + 1 /\ connections' = connections \cup {c}
          /\ UNCHANGED <<closed, gone>>
      BY <1>2, <2>3 DEF HubRegister
    <3>2. Counted' = Counted \cup {c}
      BY <3>1
    <3>3. Cardinality(Counted \cup {c}) = Cardinality(Counted) + 1
      BY <1>f, <2>1, FS_AddElement
    <3> QED BY <3>1, <3>2, <3>3 DEF ActiveCounted
  <2> QED BY <2>2, <2>3
<1>3. ASSUME NEW c \in Conns, HubUnregister(c) PROVE ActiveCounted'
  <2>1. CASE c \in connections
    <3>1. connections' = connections \ {c} /\ closed' = closed \cup {c} /\ gone' = gone \cup {c}
          /\ active' = active - 1
      BY <1>3, <2>1 DEF HubUnregister
    <3>2. Counted' = Counted \ {c}
      BY <2>1, <3>1 DEF RegInv, RegisteredOpen
    <3>3. Cardinality(Counted \ {c}) = Cardinality(Counted) - 1
      BY <1>f, <2>1, FS_RemoveElement
    <3> QED BY <3>1, <3>2, <3>3 DEF ActiveCounted
  <2>2. CASE c \notin connections
    BY <1>3, <2>2, <1>1 DEF HubUnregister
  <2> QED BY <2>1, <2>2
<1>4. CASE HubBroadcast
  <2>1. PICK slow \in SUBSET connections :
          closed' = closed \cup slow /\ connections' = connections \ slow
          /\ gone' = gone /\ active' = active
    BY <1>4 DEF HubBroadcast
  <2>2. Counted' = Counted
    BY <2>1 DEF RegInv, RegisteredOpen
  <2> QED BY <2>1, <2>2 DEF ActiveCounted
<1> QED BY <1>1, <1>2, <1>3, <1>4, QuietSteps

\* A set below its limit, or losing members, stays within the limit.
LEMMA LimitKept ==
  ASSUME NEW S, NEW T, NEW e, NEW max \in Nat, IsFiniteSet(S),
         max > 0 => Cardinality(S) <= max,
         T \subseteq S \/ (~Full(S, max) /\ T = S \cup {e})
  PROVE  max > 0 => Cardinality(T) <= max
<1>c. Cardinality(S) \in Nat
  BY FS_CardinalityType
<1>1. CASE T \subseteq S
  <2>1. Cardinality(T) \in Nat /\ Cardinality(T) <= Cardinality(S)
    BY <1>1, FS_Subset, FS_CardinalityType
  <2> QED BY <2>1, <1>c
<1>2. CASE ~Full(S, max) /\ T = S \cup {e}
  <2>1. Cardinality(T) = Cardinality(S) \/ Cardinality(T) = Cardinality(S) + 1
    BY <1>2, FS_AddElement
  <2> QED BY <1>2, <2>1, <1>c DEF Full
<1> QED BY <1>1, <1>2

LEMMA LimitStep ==
  ASSUME TypeOK, WithinLimits, [Next]_vars
  PROVE  WithinLimits'
<1>t. /\ connections \subseteq Conns /\ rooms \in [Rooms -> SUBSET Conns]
      /\ MaxPerHub \in Nat /\ MaxPerRoom \in Nat
  BY LimitAssumption DEF TypeOK, TablesOK
<1>f. IsFiniteSet(connections) /\ \A r \in Rooms : IsFiniteSet(rooms[r])
  BY <1>t, ConnsAssumption, FS_Subset
<1> SUFFICES
      /\ connections' \subseteq connections
            \/ \E e : ~Full(connections, MaxPerHub) /\ connections' = connections \cup {e}
      /\ \A r \in Rooms : rooms'[r] \subseteq rooms[r]
            \/ \E e : ~Full(rooms[r], MaxPerRoom) /\ rooms'[r] = rooms[r] \cup {e}
  <2>1. MaxPerHub > 0 => Cardinality(connections') <= MaxPerHub
    BY <1>t, <1>f, LimitKept DEF WithinLimits
  <2>2. \A r \in Rooms : MaxPerRoom > 0 => Cardinality(rooms'[r]) <= MaxPerRoom
    BY <1>t, <1>f, LimitKept DEF WithinLimits
  <2> QED BY <2>1, <2>2 DEF WithinLimits
<1>1. CASE UNCHANGED <<connections, rooms>>
  BY <1>1
<1>2. ASSUME NEW c \in Conns, HubRegister(c)
      PROVE  /\ UNCHANGED rooms
             /\ \/ UNCHANGED connections
                \/ ~Full(connections, MaxPerHub) /\ connections' = connections \cup {c}
  BY <1>2 DEF HubRegister
<1>3. ASSUME NEW S \in SUBSET Conns, connections' \subseteq connections, rooms' = WithoutConn(S)
      PROVE  /\ connections' \subseteq connections
             /\ \A r \in Rooms : rooms'[r] \subseteq rooms[r]
  BY <1>3 DEF WithoutConn
<1>4. CASE HubBroadcast
  <2>1. \E S \in SUBSET Conns : connections' \subseteq connections /\ rooms' = WithoutConn(S)
    BY <1>4, <1>t DEF HubBroadcast
  <2> QED BY <2>1, <1>3
<1>5. ASSUME NEW c \in Conns, HubUnregister(c)
      PROVE  /\ connections' \subseteq connections
             /\ \A r \in Rooms : rooms'[r] \subseteq rooms[r]
  <2>1. \/ UNCHANGED <<connections, rooms>>
        \/ connections' \subseteq connections /\ rooms' = WithoutConn({c})
    BY <1>5 DEF HubUnregister
  <2> QED BY <2>1, <1>3
<1>6. CASE UNCHANGED connections /\ HandlerStep
  <2>1. CASE UNCHANGED rooms
    BY <2>1, <1>6
  <2>2. CASE DoJoin
    <3> DEFINE q == hops[1].room
    <3>1. rooms' = [rooms EXCEPT ![q] = IF Full(rooms[q], MaxPerRoom)
                                        THEN rooms[q] ELSE rooms[q] \cup {hops[1].conn}]
      BY <2>2 DEF DoJoin
    <3>2. ASSUME NEW r \in Rooms
          PROVE  \/ rooms'[r] = rooms[r]
                 \/ ~Full(rooms[r], MaxPerRoom) /\ rooms'[r] = rooms[r] \cup {hops[1].conn}
      <4>1. CASE r = q
        BY <3>1, <4>1, <1>t
      <4>2. CASE r # q
        BY <3>1, <4>2, <1>t
      <4> QED BY <4>1, <4>2
    <3> QED BY <3>2, <1>6
  <2>3. CASE DoLeave
    <3>1. \A r \in Rooms : rooms'[r] \subseteq rooms[r]
      BY <2>3, <1>t DEF DoLeave
    <3> QED BY <3>1, <1>6
  <2>4. CASE DoReply \/ DoBroadcast \/ DoRoomBroadcast
    BY <2>4, <2>1 DEF DoReply, DoBroadcast, DoRoomBroadcast, tables
  <2> QED BY <1>6, <2>2, <2>3, <2>4 DEF HandlerStep
<1> QED BY <1>1, <1>2, <1>4, <1>5, <1>6, QuietSteps

\* The inductive invariant of registration.
HubInv == TypeOK /\ RegInv /\ ActiveCounted /\ WithinLimits

LEMMA HubInit ==
  ASSUME Init
  PROVE  HubInv
<1>1. TypeOK
  BY TypeInit
<1>2. RegInv
  BY DEF Init, RegInv, RegisteredOpen
<1>3. ActiveCounted
  BY FS_EmptySet DEF Init, ActiveCounted
<1>4. WithinLimits
  BY FS_EmptySet, LimitAssumption DEF Init, WithinLimits
<1> QED BY <1>1, <1>2, <1>3, <1>4 DEF HubInv

LEMMA HubStep ==
  ASSUME HubInv, [Next]_vars
  PROVE  HubInv'
BY TypeStep, RegStep, ActiveStep, LimitStep DEF HubInv

\* Registration keeps its invariant in every reachable state.
THEOREM HubInductive == Spec => []HubInv
BY HubInit, HubStep, PTL DEF Spec

(***************************************************************************)
(* Whichever of unregister, eviction by a broadcast and rejection comes    *)
(* first, the hub only holds connections whose send channel is open.       *)
(***************************************************************************)
THEOREM HubOpen == Spec => []RegisteredOpen
BY HubInductive, PTL DEF HubInv, RegInv

(***************************************************************************)
(* MaxConnectionsPerHub and MaxConnectionsPerRoom hold at every moment.    *)
(***************************************************************************)
THEOREM HubLimits == Spec => []WithinLimits
BY HubInductive, PTL DEF HubInv

(***************************************************************************)
(* The active gauge is exact up to the evicted connections, which it keeps *)
(* counting for ever.                                                      *)
(***************************************************************************)
THEOREM HubActive == Spec => []ActiveCounted
BY HubInductive, PTL DEF HubInv

-----------------------------------------------------------------------------
(* Rooms: a member of a room is in the hub, because a message comes only   *)
(* from a connection that was once in the hub, and joining for one that    *)
(* has left is followed by the reply that ends the process.                *)

\* Connections that are, or were, in the hub.
Known == connections \cup closed

PeerInv ==
    /\ \A c \in Conns : held[c].conn = c
    /\ \A c \in Conns : rp[c] # "off" => acc[c] = "serving"
    /\ \A c \in Conns : c \in sock /\ acc[c] \in {"registered", "serving"} => c \in Known
    /\ \A c \in Conns : rp[c] = "deliver" => c \in Known
    /\ \A i \in 1..Len(inbox) : inbox[i].conn \in Known

\* Task i of a handler joins for a connection of the hub, or fails next.
JoinSafe(i) ==
    hops[i].op = "join" =>
        \/ hops[i].conn \in connections
        \/ /\ hops[i].conn \in closed /\ i < Len(hops)
           /\ hops[i+1].op = "reply" /\ hops[i+1].conn = hops[i].conn

JoinInv == \A i \in 1..Len(hops) : JoinSafe(i)

\* Only while the failing reply is next may a room hold a closed connection.
MemberInv ==
    hpc = "live" =>
        \A r \in Rooms :
            \/ rooms[r] \subseteq connections
            \/ /\ hops # <<>> /\ hops[1].op = "reply" /\ hops[1].conn \in closed
               /\ rooms[r] \subseteq connections \cup {hops[1].conn}

\* The compiled handlers join rooms in "on connect" only.
JoinsOnConnect ==
    /\ \A i \in 1..Len(OnMessage) : OnMessage[i] # "join"
    /\ \A i \in 1..Len(OnDisconnect) : OnDisconnect[i] # "join"

\* What was known stays known.
LEMMA KnownGrows ==
  ASSUME [Next]_vars
  PROVE  Known \subseteq Known'
<1>1. ASSUME NEW c \in Conns, HubRegister(c) PROVE Known \subseteq Known'
  BY <1>1 DEF HubRegister, Known
<1>2. ASSUME NEW c \in Conns, HubUnregister(c) PROVE Known \subseteq Known'
  BY <1>2 DEF HubUnregister, Known
<1>3. CASE HubBroadcast
  BY <1>3 DEF HubBroadcast, Known
<1>4. CASE UNCHANGED <<connections, closed>>
  BY <1>4 DEF Known
<1> QED BY <1>1, <1>2, <1>3, <1>4, QuietSteps

\* Only ReadPump and the hub write held, rp, acc, sock and inbox.
LEMMA PeerStep ==
  ASSUME TypeOK, PeerInv, [Next]_vars
  PROVE  PeerInv'
<1>t. SocketOK /\ QueuesOK
  BY DEF TypeOK
<1>k. Known \subseteq Known'
  BY KnownGrows
<1>u. ASSUME UNCHANGED <<held, rp, acc, inbox>>, sock' \subseteq sock PROVE PeerInv'
  BY <1>u, <1>k DEF PeerInv
<1>1. ASSUME NEW c \in Conns, Accept(c) PROVE PeerInv'
  BY <1>1, <1>k, <1>t DEF Accept, PeerInv, SocketOK, queues, tables
<1>2. ASSUME NEW c \in Conns, StartPumps(c) PROVE PeerInv'
  BY <1>2, <1>k, <1>t DEF StartPumps, PeerInv, SocketOK, queues, tables
<1>3. ASSUME NEW c \in Conns, NEW k \in Kinds, NEW r \in Rooms, ReadMessage(c, k, r)
      PROVE  PeerInv'
  BY <1>3, <1>k, <1>t DEF ReadMessage, PeerInv, SocketOK, queues, tables
<1>4. ASSUME NEW c \in Conns, Deliver(c) PROVE PeerInv'
  <2>1. held[c] \in Messages /\ held[c].conn \in Known
    BY <1>4, <1>t DEF Deliver, PeerInv, SocketOK
  <2>2. \A i \in 1..Len(inbox') : inbox'[i].conn \in Known
    BY <1>4, <2>1, <1>t, AppendType DEF Deliver, PeerInv, QueuesOK
  <2> QED BY <1>4, <2>2, <1>k, <1>t DEF Deliver, PeerInv, SocketOK, Idle
<1>5. ASSUME NEW c \in Conns, ReadError(c) \/ ReadExit(c) PROVE PeerInv'
  BY <1>5, <1>k, <1>t DEF ReadError, ReadExit, PeerInv, SocketOK, queues, tables
<1>6. ASSUME NEW c \in Conns,
             WriteMessages(c) \/ WriteError(c) \/ WriteClosed(c) \/ Tick(c) \/ ExpireState(c)
      PROVE  PeerInv'
  BY <1>6, <1>u DEF WriteMessages, WriteError, WriteClosed, Tick, ExpireState, WriteExit,
       queues, socket
<1>7. ASSUME NEW c \in Conns, HubRegister(c) PROVE PeerInv'
  <2>1. c \in sock' => c \in Known'
    BY <1>7 DEF HubRegister, Known
  <2>2. UNCHANGED <<held, rp, inbox>> /\ sock' \subseteq sock
        /\ acc' = [acc EXCEPT ![c] = "registered"] /\ acc[c] = "wait"
    BY <1>7 DEF HubRegister, queues
  <2> QED BY <2>1, <2>2, <1>k, <1>t DEF PeerInv, SocketOK
<1>8. ASSUME NEW c \in Conns, HubUnregister(c) PROVE PeerInv'
  <2>1. UNCHANGED <<held, acc, sock, inbox>> /\ rp' = [rp EXCEPT ![c] = "close"]
        /\ rp[c] = "unregister"
    BY <1>8 DEF HubUnregister, queues
  <2> QED BY <2>1, <1>k, <1>t DEF PeerInv, SocketOK
<1>9. CASE HubHandleMessage
  <2>1. inbox # <<>> /\ inbox' = Tail(inbox) /\ UNCHANGED socket
    BY <1>9 DEF HubHandleMessage
  <2>2. \A i \in 1..Len(inbox') : inbox'[i].conn \in Known
    BY <2>1, <1>t, TailType DEF PeerInv, QueuesOK
  <2> QED BY <2>1, <2>2, <1>k DEF PeerInv, socket
<1>10. CASE HubBroadcast \/ HubRoomBroadcast \/ HubExit \/ HandlerStep
            \/ Shutdown \/ ShutdownWaited \/ ShutdownReturns
  BY <1>10, <1>u DEF HubBroadcast, HubRoomBroadcast, HubExit, HandlerStep, DoReply, DoJoin,
       DoLeave, DoBroadcast, DoRoomBroadcast, Shutdown, ShutdownWaited, ShutdownReturns,
       queues, socket
<1>11. CASE UNCHANGED vars
  BY <1>11, <1>u DEF vars, queues, socket
<1> QED BY <1>1, <1>2, <1>3, <1>4, <1>5, <1>6, <1>7, <1>8, <1>9, <1>10, <1>11
        DEF Next, Pump, HubSelect

\* A handler that is started: task i is operation i.
LEMMA HandleTasks ==
  ASSUME NEW c, NEW r, NEW ops \in Seq(Ops), Handle(c, r, ops)
  PROVE  /\ Len(hops') = Len(ops)
         /\ \A i \in 1..Len(ops) : hops'[i].op = ops[i] /\ hops'[i].conn = c
BY DEF Handle

LEMMA JoinStep ==
  ASSUME JoinsOnConnect, TypeOK, RegInv, PeerInv, JoinInv, [Next]_vars
  PROVE  JoinInv'
<1>t. HandlerOK /\ QueuesOK
  BY DEF TypeOK
<1>1. CASE UNCHANGED <<connections, closed, hops>>
  BY <1>1 DEF JoinInv, JoinSafe
<1>2. ASSUME NEW c \in Conns, HubRegister(c) PROVE JoinInv'
  <2>1. CASE UNCHANGED <<connections, closed, handler>>
    BY <2>1, <1>1 DEF handler
  <2>2. CASE ~UNCHANGED <<connections, closed, handler>>
    <3>1. Handle(c, Lobby, OnConnect) /\ c \in connections'
      BY <1>2, <2>2 DEF HubRegister
    <3> QED BY <3>1, HandleTasks, HandlerAssumption DEF JoinInv, JoinSafe
  <2> QED BY <2>1, <2>2
<1>3. ASSUME NEW c \in Conns, HubUnregister(c) PROVE JoinInv'
  <2>1. CASE UNCHANGED <<connections, closed, handler>>
    BY <2>1, <1>1 DEF handler
  <2>2. CASE ~UNCHANGED <<connections, closed, handler>>
    <3>1. Handle(c, Lobby, OnDisconnect)
      BY <1>3, <2>2 DEF HubUnregister
    <3> QED BY <3>1, HandleTasks, HandlerAssumption DEF JoinInv, JoinSafe, JoinsOnConnect
  <2> QED BY <2>1, <2>2
<1>4. CASE HubBroadcast
  <2>1. hops' = <<>>
    BY <1>4 DEF HubBroadcast, Selecting, handler
  <2> QED BY <2>1 DEF JoinInv
<1>5. CASE HubHandleMessage
  <2>1. inbox # <<>> /\ Head(inbox) = inbox[1] /\ inbox[1] \in Messages /\ Len(inbox) \in Nat \ {0}
    BY <1>5, <1>t, TailType DEF HubHandleMessage, QueuesOK
  <2> DEFINE m == inbox[1]
  <2>2. m.kind \in AllKinds /\ m.conn \in Known
    BY <2>1 DEF Messages, PeerInv
  <2>3. Handle(m.conn, m.room, Handlers(m.kind)) /\ UNCHANGED <<connections, closed>>
    BY <1>5, <2>1 DEF HubHandleMessage, tables
  <2> HIDE DEF m
  <2>4. CASE m.kind = "join"
    <3>1. Handlers(m.kind) = <<"join", "reply">> /\ Handlers(m.kind) \in Seq(Ops)
      BY <2>2, <2>4, HandlersType DEF Handlers
    <3> DEFINE ops == Handlers(m.kind)
    <3>a. Len(ops) = 2 /\ ops[2] = "reply"
      BY <3>1
    <3> HIDE DEF ops
    <3>b. Len(hops') = Len(ops)
          /\ \A i \in 1..Len(ops) : hops'[i].op = ops[i] /\ hops'[i].conn = m.conn
      BY <2>3, <3>1, HandleTasks DEF ops
    <3>2. Len(hops') = 2 /\ hops'[1].conn = m.conn /\ hops'[2].conn = m.conn
          /\ hops'[2].op = "reply"
      BY <3>a, <3>b
    <3> QED BY <2>2, <2>3, <3>2 DEF JoinInv, JoinSafe, Known
  <2>5. CASE m.kind # "join"
    <3>1. Handlers(m.kind) \in Seq(Ops)
      BY <2>2, HandlersType
    <3>2. \A i \in 1..Len(Handlers(m.kind)) : Handlers(m.kind)[i] # "join"
      BY <2>2, <2>5 DEF Handlers, JoinsOnConnect, AllKinds
    <3> QED BY <2>3, <3>1, <3>2, HandleTasks DEF JoinInv, JoinSafe
  <2> QED BY <2>4, <2>5
<1>6. CASE UNCHANGED <<connections, closed>> /\ HandlerStep
  <2>1. hops # <<>> /\ (hops' = Tail(hops) \/ UNCHANGED hops)
    BY <1>6 DEF HandlerStep, DoReply, DoJoin, DoLeave, DoBroadcast, DoRoomBroadcast, Doing, Done
  <2>2. CASE hops' = Tail(hops)
    <3>1. /\ Len(hops) \in Nat \ {0} /\ Len(hops') = Len(hops) - 1
          /\ \A i \in 1..Len(hops') : hops'[i] = hops[i+1]
      BY <2>1, <2>2, <1>t, TailType DEF HandlerOK
    <3> SUFFICES ASSUME NEW i \in 1..Len(hops') PROVE JoinSafe(i)'
      BY DEF JoinInv
    <3>2. i + 1 \in 1..Len(hops) /\ JoinSafe(i + 1) /\ hops'[i] = hops[i+1]
      BY <3>1 DEF JoinInv
    <3>3. i + 1 < Len(hops) => i + 1 \in 1..Len(hops') /\ hops'[i+1] = hops[i+2]
      BY <3>1
    <3> QED BY <1>6, <3>1, <3>2, <3>3 DEF JoinSafe
  <2> QED BY <1>6, <2>1, <2>2, <1>1
<1> QED BY <1>1, <1>2, <1>3, <1>4, <1>5, <1>6, QuietSteps

\* A hub that has exited or panicked stays so.
LEMMA LiveBefore ==
  ASSUME [Next]_vars, hpc' = "live"
  PROVE  hpc = "live"
<1>1. CASE UNCHANGED hpc
  BY <1>1
<1>2. CASE HubSelect
  BY <1>2 DEF HubSelect, HubRegister, HubUnregister, HubHandleMessage, HubBroadcast,
       HubRoomBroadcast, HubExit, Selecting
<1>3. CASE HandlerStep
  BY <1>3 DEF HandlerStep, DoReply, DoJoin, DoLeave, DoBroadcast, DoRoomBroadcast, Doing
<1>4. ASSUME NEW c \in Conns, Accept(c) \/ StartPumps(c) \/ Pump(c) \/ ExpireState(c)
      PROVE  UNCHANGED hpc
  BY <1>4 DEF Accept, StartPumps, Pump, ExpireState, ReadMessage, Deliver, ReadError,
       ReadExit, WriteMessages, WriteError, WriteClosed, Tick, handler
<1>5. CASE Shutdown \/ ShutdownWaited \/ ShutdownReturns
  BY <1>5, <1>1 DEF Shutdown, ShutdownWaited, ShutdownReturns, handler
<1>6. CASE UNCHANGED vars
  BY <1>6, <1>1 DEF vars, handler
<1> QED BY <1>1, <1>2, <1>3, <1>4, <1>5, <1>6 DEF Next

LEMMA MemberStep ==
  ASSUME TypeOK, RegInv, JoinInv, MemberInv, [Next]_vars
  PROVE  MemberInv'
<1>t. HandlerOK /\ rooms \in [Rooms -> SUBSET Conns]
  BY DEF TypeOK, TablesOK
<1>m. ASSUME hpc = "live", hops = <<>> \/ hops[1].op # "reply" \/ hops[1].conn \notin closed
      PROVE  \A r \in Rooms : rooms[r] \subseteq connections
  BY <1>m DEF MemberInv
<1>1. CASE UNCHANGED <<connections, closed, rooms, hops>>
  <2>1. hpc' = "live" => hpc = "live"
    BY <1>1, LiveBefore
  <2> QED BY <1>1, <2>1 DEF MemberInv
<1>2. ASSUME NEW c \in Conns, HubRegister(c) PROVE MemberInv'
  <2>1. UNCHANGED rooms /\ connections \subseteq connections'
    BY <1>2 DEF HubRegister
  <2> QED BY <1>2, <2>1, <1>m DEF HubRegister, Selecting, MemberInv
<1>3. ASSUME NEW c \in Conns, HubUnregister(c) PROVE MemberInv'
  <2>1. \A r \in Rooms : rooms[r] \subseteq connections
    BY <1>3, <1>m DEF HubUnregister, Selecting
  <2>2. \/ UNCHANGED <<connections, rooms>>
        \/ connections' = connections \ {c} /\ rooms' = WithoutConn({c})
    BY <1>3 DEF HubUnregister
  <2> QED BY <2>1, <2>2 DEF WithoutConn, MemberInv
<1>4. CASE HubBroadcast
  <2>1. \A r \in Rooms : rooms[r] \subseteq connections
    BY <1>4, <1>m DEF HubBroadcast, Selecting
  <2>2. PICK S : connections' = connections \ S /\ rooms' = WithoutConn(S)
    BY <1>4 DEF HubBroadcast
  <2> QED BY <2>1, <2>2 DEF WithoutConn, MemberInv
<1>5. CASE UNCHANGED <<connections, rooms>> /\ HubHandleMessage
  BY <1>5, <1>m DEF HubHandleMessage, Selecting, MemberInv
<1>6. CASE UNCHANGED <<connections, closed>> /\ HandlerStep
  <2>0. hpc = "live" /\ hops # <<>>
    BY <1>6 DEF HandlerStep, DoReply, DoJoin, DoLeave, DoBroadcast, DoRoomBroadcast, Doing
  <2>1. CASE DoReply
    <3>1. CASE hops[1].conn \in closed
      BY <2>1, <3>1 DEF DoReply, MemberInv
    <3>2. CASE hops[1].conn \notin closed
      <4>1. \A r \in Rooms : rooms[r] \subseteq connections
        BY <2>0, <3>2, <1>m
      <4>2. UNCHANGED rooms
        BY <2>1 DEF DoReply, tables
      <4> QED BY <1>6, <4>1, <4>2 DEF MemberInv
    <3> QED BY <3>1, <3>2
  <2>2. CASE DoLeave
    <3>1. \A r \in Rooms : rooms[r] \subseteq connections
      BY <2>0, <2>2, <1>m DEF DoLeave, Doing
    <3>2. \A r \in Rooms : rooms'[r] \subseteq rooms[r]
      BY <2>2, <1>t DEF DoLeave
    <3> QED BY <1>6, <3>1, <3>2 DEF MemberInv
  <2>3. CASE DoBroadcast \/ DoRoomBroadcast
    <3>1. \A r \in Rooms : rooms[r] \subseteq connections
      BY <2>0, <2>3, <1>m DEF DoBroadcast, DoRoomBroadcast, Doing
    <3>2. UNCHANGED rooms
      BY <2>3 DEF DoBroadcast, DoRoomBroadcast, tables
    <3> QED BY <1>6, <3>1, <3>2 DEF MemberInv
  <2>4. CASE DoJoin
    <3>1. \A r \in Rooms : rooms[r] \subseteq connections
      BY <2>0, <2>4, <1>m DEF DoJoin, Doing
    <3>2. \A r \in Rooms : rooms'[r] \subseteq rooms[r] \cup {hops[1].conn}
      BY <2>4, <1>t DEF DoJoin
    <3>3. /\ Len(hops) \in Nat \ {0} /\ hops' = Tail(hops) /\ Len(hops') = Len(hops) - 1
          /\ \A i \in 1..Len(hops') : hops'[i] = hops[i+1]
      BY <2>0, <2>4, <1>t, TailType DEF DoJoin, Done, HandlerOK
    <3>4. JoinSafe(1) /\ hops[1].op = "join"
      BY <2>4, <3>3 DEF JoinInv, DoJoin, Doing
    <3>5. CASE hops[1].conn \in connections
      BY <1>6, <3>1, <3>2, <3>5 DEF MemberInv
    <3>6. CASE hops[1].conn \in closed /\ 1 < Len(hops)
               /\ hops[2].op = "reply" /\ hops[2].conn = hops[1].conn
      <4>1. hops'[1] = hops[2] /\ hops' # <<>>
        <5>1. 1 \in 1..Len(hops') /\ Len(hops') # 0
          BY <3>3, <3>6
        <5>2. hops'[1] = hops[1+1]
          BY <3>3, <5>1
        <5>3. hops' # <<>>
          BY <5>1
        <5> QED BY <5>2, <5>3
      <4> QED BY <1>6, <3>1, <3>2, <3>6, <4>1 DEF MemberInv
    <3> QED BY <3>4, <3>5, <3>6 DEF JoinSafe
  <2> QED BY <1>6, <2>1, <2>2, <2>3, <2>4 DEF HandlerStep
<1> QED BY <1>1, <1>2, <1>3, <1>4, <1>5, <1>6, QuietSteps

(***************************************************************************)
(* With handlers that join in "on connect" only, and with the default      *)
(* handlers for join and leave, no room holds a connection the hub has     *)
(* dropped when the hub selects its next case: a room broadcast never      *)
(* sends on a closed channel.                                              *)
(***************************************************************************)
THEOREM RoomsOpen == JoinsOnConnect => (Spec => []RoomsRegistered)
<1> SUFFICES ASSUME JoinsOnConnect PROVE Spec => []RoomsRegistered
  OBVIOUS
<1> DEFINE RInv == HubInv /\ PeerInv /\ JoinInv /\ MemberInv
<1>1. Init => RInv
  <2> SUFFICES ASSUME Init PROVE RInv
    OBVIOUS
  <2>1. PeerInv
    BY DEF Init, PeerInv, Idle
  <2>2. JoinInv /\ MemberInv
    BY DEF Init, JoinInv, MemberInv
  <2> QED BY <2>1, <2>2, HubInit
<1>2. RInv /\ [Next]_vars => RInv'
  BY HubStep, PeerStep, JoinStep, MemberStep DEF HubInv
<1>3. RInv => RoomsRegistered
  BY DEF MemberInv, RoomsRegistered, Selecting
<1> QED BY <1>1, <1>2, <1>3, PTL DEF Spec
=============================================================================
