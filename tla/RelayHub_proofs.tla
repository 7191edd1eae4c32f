--------------------------- MODULE RelayHub_proofs ---------------------------
(***************************************************************************)
(* Proofs about the relay hub, for any set of connections, devices and     *)
(* rooms and any queue capacity.                                           *)
(***************************************************************************)
EXTENDS RelayHub, SequenceTheorems, TLAPS

-----------------------------------------------------------------------------
(* The inductive invariant.                                                *)

HubType ==
  /\ rooms   \in [Device -> Room \cup {NoRoom}]
  /\ daemon  \in [Room -> Conn \cup {NoConn}]
  /\ clients \in [Room -> SUBSET Conn]

ConnType ==
  /\ dev     \in [Conn -> Device \cup {NoDevice}]
  /\ role    \in [Conn -> {"none", "daemon", "client"}]
  /\ rp      \in [Conn -> RpState]
  /\ ref     \in [Conn -> Room \cup {NoRoom}]
  /\ victims \in [Conn -> SUBSET Conn]
  /\ wp      \in [Conn -> {"run", "done"}]
  /\ sock    \in [Conn -> {"open", "closed"}]

QueueType ==
  /\ queue   \in [Conn -> Seq(Frame)]
  /\ \A c \in Conn : Len(queue[c]) <= Cap
  /\ closed  \in [Conn -> BOOLEAN]

\* readPump holds a room exactly inside a hub call, and a connection has a role only
\* after its handshake and then has a device.
PcInv ==
  \A c \in Conn :
    /\ ref[c] # NoRoom <=> rp[c] \in {"reg", "join", "kick", "fwd", "unreg"}
    /\ rp[c] \in {"reg", "join"} \/ role[c] # "none" => dev[c] \in Device
    /\ rp[c] \in {"hello", "reg", "join"} => role[c] = "none"
    /\ rp[c] \in {"ackOk", "loop", "fwd", "kick", "kicking", "unreg"} => role[c] # "none"
    /\ rp[c] \in {"kick", "kicking"} => role[c] = "daemon"

Typed == HubType /\ ConnType /\ QueueType /\ PcInv

\* c sits in r or is inside a hub call on r.
Near(c, r) == Seated(c, r) \/ ref[c] = r

Keyed ==
  \A d, e \in Device : rooms[d] # NoRoom /\ rooms[d] = rooms[e] => d = e

\* Whoever is near a room came for the same device.
OneDevicePerRoom ==
  /\ \A d \in Device, c \in Conn : rooms[d] # NoRoom /\ Near(c, rooms[d]) => dev[c] = d
  /\ \A r \in Room, c, k \in Conn : Held(r) /\ Near(c, r) /\ Near(k, r) => dev[c] = dev[k]

\* The seat and the role agree, and nobody sits in two rooms.
SeatInv ==
  \A r \in Room, c \in Conn :
    Held(r) /\ Seated(c, r) =>
      /\ daemon[r] = c => role[c] = "daemon"
      /\ c \in clients[r] => role[c] = "client"
      /\ \A q \in Room : Held(q) /\ Seated(c, q) => q = r

\* A viewer that is being kicked, or was, sits nowhere.
Ousted(v) == role[v] = "client" /\ \A r \in Room : Held(r) => ~Seated(v, r)

VictimInv == \A k, v \in Conn : v \in victims[k] => Ousted(v)
NoticeInv == \A v \in Conn : \A f \in FramesOf(v) : f.t = "kicked" => Ousted(v)

\* A seat of a reachable room belongs to a connection that will give it back.
Serving(c, r) ==
  \/ rp[c] \in {"ackOk", "loop", "fwd", "kick", "kicking", "exit"}
  \/ rp[c] = "unreg" /\ ref[c] = r

ServingInv == \A d \in Device, c \in Conn : InSeat(c, d) => Serving(c, rooms[d])

\* A room has one viewer's chair, and nobody hears of the daemon before it sits there.
OneViewer == \A r \in Room : \A x, y \in clients[r] : x = y

IsNotice(f) == f.t \in {"online", "offline"}
EarlyInv    == \A c \in Conn : role[c] = "none" => \A f \in FramesOf(c) : ~IsNotice(f)

\* The last notice in q, if there is one, says that the daemon is there (b) or not.
Tells(q, b) ==
  \A i \in 1..Len(q) :
    IsNotice(q[i]) /\ (\A j \in (i+1)..Len(q) : ~IsNotice(q[j])) => (q[i].t = "online") = b

PresenceInv ==
  \A d \in Device, c \in Conn :
    Reachable(d) /\ c \in clients[rooms[d]] /\ ~closed[c] =>
      Tells(queue[c], daemon[rooms[d]] # NoConn)

IInv ==
  /\ Typed /\ Keyed /\ OneDevicePerRoom /\ SeatInv /\ VictimInv /\ NoticeInv
  /\ ServingInv /\ RoomIsolation /\ OneViewer /\ EarlyInv /\ PresenceInv

-----------------------------------------------------------------------------
(* Sending.                                                                *)

\* A frame that fits is appended, one that does not is dropped: no queue exceeds Cap.
LEMMA SendToType ==
  ASSUME QueueType, NEW S, NEW m \in Frame, SendTo(S, m)
  PROVE  QueueType'
<1>1. ASSUME NEW c \in Conn
      PROVE  /\ Append(queue[c], m) \in Seq(Frame)
             /\ Len(Append(queue[c], m)) = Len(queue[c]) + 1
             /\ Len(queue[c]) \in Nat
  BY DEF QueueType
<1>2. queue' \in [Conn -> Seq(Frame)]
  BY <1>1 DEF SendTo, QueueType
<1>3. ASSUME NEW c \in Conn PROVE Len(queue'[c]) <= Cap
  <2>1. CASE c \in S /\ ~Full(c)
    BY <1>1, <2>1, CapAssumption DEF SendTo, Full
  <2>2. CASE ~(c \in S /\ ~Full(c))
    BY <2>2 DEF SendTo, QueueType
  <2> QED BY <2>1, <2>2
<1>4. closed' \in [Conn -> BOOLEAN]
  BY DEF SendTo, QueueType
<1> QED BY <1>2, <1>3, <1>4 DEF QueueType

LEMMA FrameType ==
  ASSUME ConnType
  PROVE  /\ \A k \in {"reply", "kicked", "online", "offline"} : Control(k) \in Frame
         /\ \A c \in Conn : Payload(c) \in Frame
BY DEF Control, Payload, Frame, ConnType

\* writePump takes the oldest frame out.
LEMMA TailType ==
  ASSUME QueueType, NEW c \in Conn, queue[c] # << >>,
         queue' = [queue EXCEPT ![c] = Tail(@)], closed' \in [Conn -> BOOLEAN]
  PROVE  QueueType'
<1>1. /\ Tail(queue[c]) \in Seq(Frame)
      /\ Len(Tail(queue[c])) = Len(queue[c]) - 1
      /\ Len(queue[c]) \in Nat
  BY DEF QueueType
<1>2. Len(queue[c]) <= Cap
  BY DEF QueueType
<1>3. Len(Tail(queue[c])) <= Cap
  BY <1>1, <1>2, CapAssumption
<1> QED BY <1>1, <1>3 DEF QueueType

\* A frame the victim's channel has room for fits.
LEMMA KickedType ==
  ASSUME QueueType, NEW v \in Conn, NEW m \in Frame, ~Full(v),
         queue' = [queue EXCEPT ![v] = Append(@, m)], closed' \in [Conn -> BOOLEAN]
  PROVE  QueueType'
<1>1. /\ Append(queue[v], m) \in Seq(Frame)
      /\ Len(Append(queue[v], m)) = Len(queue[v]) + 1
      /\ Len(queue[v]) \in Nat
  BY DEF QueueType
<1>2. Len(Append(queue[v], m)) <= Cap
  BY <1>1, CapAssumption DEF Full
<1> QED BY <1>1, <1>2 DEF QueueType

-----------------------------------------------------------------------------
(* Type correctness.                                                       *)

\* Next, one disjunct per action.
LEMMA NextCases ==
  ASSUME Next
  PROVE  \E c \in Conn :
           \/ Accept(c) \/ RejectHello(c) \/ RegisterDaemon(c) \/ JoinClient(c) \/ SendAck(c)
           \/ \E d \in Device : HelloDaemon(c, d) \/ HelloClient(c, d)
           \/ ReadPing(c) \/ ReadKick(c) \/ ReadPayload(c) \/ Forward(c)
           \/ KickTake(c) \/ KickEnd(c) \/ \E v \in Conn : KickOne(c, v)
           \/ ReadFail(c) \/ ExitLookup(c) \/ Unregister(c) \/ Shutdown(c)
           \/ WriteFrame(c) \/ WriteFail(c) \/ WriteEnd(c) \/ PeerClose(c)
BY DEF Next, FromPeer, ReadPumpStep, WritePumpStep

LEMMA HubTypeStep == Typed /\ [Next]_vars => HubType'
<1> SUFFICES ASSUME Typed, [Next]_vars PROVE HubType'
  OBVIOUS
<1> USE DEF Typed, HubType, hubVars
<1>1. ASSUME NEW c \in Conn, Accept(c) PROVE HubType'
  BY <1>1 DEF Accept
<1>2. ASSUME NEW c \in Conn, RejectHello(c) PROVE HubType'
  BY <1>2 DEF RejectHello
<1>3. ASSUME NEW c \in Conn, NEW d \in Device, HelloDaemon(c, d) PROVE HubType'
  BY <1>3 DEF HelloDaemon
<1>4. ASSUME NEW c \in Conn, NEW d \in Device, HelloClient(c, d) PROVE HubType'
  BY <1>4 DEF HelloClient
<1>5. ASSUME NEW c \in Conn, RegisterDaemon(c) PROVE HubType'
  BY <1>5 DEF RegisterDaemon, ConnType, PcInv
<1>6. ASSUME NEW c \in Conn, JoinClient(c) PROVE HubType'
  BY <1>6 DEF JoinClient, ConnType
<1>7. ASSUME NEW c \in Conn, SendAck(c) PROVE HubType'
  BY <1>7 DEF SendAck
<1>8. ASSUME NEW c \in Conn, ReadPing(c) PROVE HubType'
  BY <1>8 DEF ReadPing
<1>9. ASSUME NEW c \in Conn, ReadKick(c) PROVE HubType'
  BY <1>9 DEF ReadKick
<1>10. ASSUME NEW c \in Conn, KickTake(c) PROVE HubType'
  BY <1>10 DEF KickTake, ConnType
<1>11. ASSUME NEW c \in Conn, NEW v \in Conn, KickOne(c, v) PROVE HubType'
  BY <1>11 DEF KickOne
<1>12. ASSUME NEW c \in Conn, KickEnd(c) PROVE HubType'
  BY <1>12 DEF KickEnd
<1>13. ASSUME NEW c \in Conn, ReadPayload(c) PROVE HubType'
  BY <1>13 DEF ReadPayload
<1>14. ASSUME NEW c \in Conn, Forward(c) PROVE HubType'
  BY <1>14 DEF Forward
<1>15. ASSUME NEW c \in Conn, ReadFail(c) PROVE HubType'
  BY <1>15 DEF ReadFail
<1>16. ASSUME NEW c \in Conn, ExitLookup(c) PROVE HubType'
  BY <1>16 DEF ExitLookup
<1>17. ASSUME NEW c \in Conn, Unregister(c) PROVE HubType'
  BY <1>17 DEF Unregister, ConnType, PcInv, Reclaim
<1>18. ASSUME NEW c \in Conn, Shutdown(c) PROVE HubType'
  BY <1>18 DEF Shutdown
<1>19. ASSUME NEW c \in Conn, WriteFrame(c) PROVE HubType'
  BY <1>19 DEF WriteFrame
<1>20. ASSUME NEW c \in Conn, WriteFail(c) PROVE HubType'
  BY <1>20 DEF WriteFail
<1>21. ASSUME NEW c \in Conn, WriteEnd(c) PROVE HubType'
  BY <1>21 DEF WriteEnd
<1>22. ASSUME NEW c \in Conn, PeerClose(c) PROVE HubType'
  BY <1>22 DEF PeerClose
<1>23. CASE UNCHANGED vars
  BY <1>23 DEF vars
<1> QED BY NextCases, <1>1, <1>2, <1>3, <1>4, <1>5, <1>6, <1>7, <1>8, <1>9, <1>10, <1>11,
    <1>12, <1>13, <1>14, <1>15, <1>16, <1>17, <1>18, <1>19, <1>20, <1>21, <1>22, <1>23

LEMMA ConnTypeStep == Typed /\ [Next]_vars => ConnType'
<1> SUFFICES ASSUME Typed, [Next]_vars PROVE ConnType'
  OBVIOUS
<1> USE DEF Typed, ConnType, connVars, Goto, Hold, RpState
<1>1. ASSUME NEW c \in Conn, Accept(c) PROVE ConnType'
  BY <1>1 DEF Accept
<1>2. ASSUME NEW c \in Conn, RejectHello(c) PROVE ConnType'
  BY <1>2 DEF RejectHello
<1>3. ASSUME NEW c \in Conn, NEW d \in Device, HelloDaemon(c, d) PROVE ConnType'
  BY <1>3 DEF HelloDaemon, HubType
<1>4. ASSUME NEW c \in Conn, NEW d \in Device, HelloClient(c, d) PROVE ConnType'
  BY <1>4 DEF HelloClient, HubType
<1>5. ASSUME NEW c \in Conn, RegisterDaemon(c) PROVE ConnType'
  BY <1>5 DEF RegisterDaemon, HubType, PcInv, HasRoom
<1>6. ASSUME NEW c \in Conn, JoinClient(c) PROVE ConnType'
  BY <1>6 DEF JoinClient, HubType, PcInv, HasRoom
<1>7. ASSUME NEW c \in Conn, SendAck(c) PROVE ConnType'
  BY <1>7 DEF SendAck
<1>8. ASSUME NEW c \in Conn, ReadPing(c) PROVE ConnType'
  BY <1>8 DEF ReadPing
<1>9. ASSUME NEW c \in Conn, ReadKick(c) PROVE ConnType'
  BY <1>9 DEF ReadKick, HubType, PcInv, HasRoom
<1>10. ASSUME NEW c \in Conn, KickTake(c) PROVE ConnType'
  BY <1>10 DEF KickTake, HubType, PcInv, HasRoom
<1>11. ASSUME NEW c \in Conn, NEW v \in Conn, KickOne(c, v) PROVE ConnType'
  BY <1>11 DEF KickOne
<1>12. ASSUME NEW c \in Conn, KickEnd(c) PROVE ConnType'
  BY <1>12 DEF KickEnd
<1>13. ASSUME NEW c \in Conn, ReadPayload(c) PROVE ConnType'
  BY <1>13 DEF ReadPayload, HubType, PcInv, HasRoom
<1>14. ASSUME NEW c \in Conn, Forward(c) PROVE ConnType'
  BY <1>14 DEF Forward
<1>15. ASSUME NEW c \in Conn, ReadFail(c) PROVE ConnType'
  BY <1>15 DEF ReadFail
<1>16. ASSUME NEW c \in Conn, ExitLookup(c) PROVE ConnType'
  BY <1>16 DEF ExitLookup, HubType, PcInv, HasRoom
<1>17. ASSUME NEW c \in Conn, Unregister(c) PROVE ConnType'
  BY <1>17 DEF Unregister
<1>18. ASSUME NEW c \in Conn, Shutdown(c) PROVE ConnType'
  BY <1>18 DEF Shutdown
<1>19. ASSUME NEW c \in Conn, WriteFrame(c) PROVE ConnType'
  BY <1>19 DEF WriteFrame
<1>20. ASSUME NEW c \in Conn, WriteFail(c) PROVE ConnType'
  BY <1>20 DEF WriteFail
<1>21. ASSUME NEW c \in Conn, WriteEnd(c) PROVE ConnType'
  BY <1>21 DEF WriteEnd
<1>22. ASSUME NEW c \in Conn, PeerClose(c) PROVE ConnType'
  BY <1>22 DEF PeerClose
<1>23. CASE UNCHANGED vars
  BY <1>23 DEF vars
<1> QED BY NextCases, <1>1, <1>2, <1>3, <1>4, <1>5, <1>6, <1>7, <1>8, <1>9, <1>10, <1>11,
    <1>12, <1>13, <1>14, <1>15, <1>16, <1>17, <1>18, <1>19, <1>20, <1>21, <1>22, <1>23

LEMMA QueueTypeStep == Typed /\ [Next]_vars => QueueType'
<1> SUFFICES ASSUME Typed, [Next]_vars PROVE QueueType'
  OBVIOUS
<1>0. QueueType /\ ConnType
  BY DEF Typed
<1>a. SendNothing => QueueType'
  BY <1>0 DEF QueueType, SendNothing
<1> USE <1>0, <1>a
<1>1. ASSUME NEW c \in Conn, Accept(c) PROVE QueueType'
  BY <1>1, CapAssumption DEF Accept, QueueType
<1>2. ASSUME NEW c \in Conn, RejectHello(c) PROVE QueueType'
  BY <1>2 DEF RejectHello
<1>3. ASSUME NEW c \in Conn, NEW d \in Device, HelloDaemon(c, d) PROVE QueueType'
  BY <1>3 DEF HelloDaemon
<1>4. ASSUME NEW c \in Conn, NEW d \in Device, HelloClient(c, d) PROVE QueueType'
  BY <1>4 DEF HelloClient
<1>5. ASSUME NEW c \in Conn, RegisterDaemon(c) PROVE QueueType'
  BY <1>5, SendToType, FrameType DEF RegisterDaemon, Broadcast
<1>6. ASSUME NEW c \in Conn, JoinClient(c) PROVE QueueType'
  BY <1>6 DEF JoinClient
<1>7. ASSUME NEW c \in Conn, SendAck(c) PROVE QueueType'
  BY <1>7, SendToType, FrameType DEF SendAck
<1>8. ASSUME NEW c \in Conn, ReadPing(c) PROVE QueueType'
  BY <1>8, SendToType, FrameType DEF ReadPing
<1>9. ASSUME NEW c \in Conn, ReadKick(c) PROVE QueueType'
  BY <1>9 DEF ReadKick
<1>10. ASSUME NEW c \in Conn, KickTake(c) PROVE QueueType'
  BY <1>10 DEF KickTake
<1>11. ASSUME NEW c \in Conn, NEW v \in Conn, KickOne(c, v) PROVE QueueType'
  BY <1>11, KickedType, FrameType DEF KickOne, QueueType
<1>12. ASSUME NEW c \in Conn, KickEnd(c) PROVE QueueType'
  BY <1>12 DEF KickEnd
<1>13. ASSUME NEW c \in Conn, ReadPayload(c) PROVE QueueType'
  BY <1>13 DEF ReadPayload
<1>14. ASSUME NEW c \in Conn, Forward(c) PROVE QueueType'
  BY <1>14, SendToType, FrameType DEF Forward
<1>15. ASSUME NEW c \in Conn, ReadFail(c) PROVE QueueType'
  BY <1>15 DEF ReadFail
<1>16. ASSUME NEW c \in Conn, ExitLookup(c) PROVE QueueType'
  BY <1>16 DEF ExitLookup
<1>17. ASSUME NEW c \in Conn, Unregister(c) PROVE QueueType'
  BY <1>17, SendToType, FrameType DEF Unregister, Broadcast
<1>18. ASSUME NEW c \in Conn, Shutdown(c) PROVE QueueType'
  BY <1>18 DEF Shutdown, QueueType
<1>19. ASSUME NEW c \in Conn, WriteFrame(c) PROVE QueueType'
  BY <1>19, TailType DEF WriteFrame, QueueType
<1>20. ASSUME NEW c \in Conn, WriteFail(c) PROVE QueueType'
  BY <1>20, TailType DEF WriteFail, QueueType
<1>21. ASSUME NEW c \in Conn, WriteEnd(c) PROVE QueueType'
  BY <1>21 DEF WriteEnd, SendNothing
<1>22. ASSUME NEW c \in Conn, PeerClose(c) PROVE QueueType'
  BY <1>22 DEF PeerClose, SendNothing
<1>23. CASE UNCHANGED vars
  BY <1>23 DEF vars, SendNothing
<1> QED BY NextCases, <1>1, <1>2, <1>3, <1>4, <1>5, <1>6, <1>7, <1>8, <1>9, <1>10, <1>11,
    <1>12, <1>13, <1>14, <1>15, <1>16, <1>17, <1>18, <1>19, <1>20, <1>21, <1>22, <1>23

LEMMA PcStep == Typed /\ [Next]_vars => PcInv'
<1> SUFFICES ASSUME Typed, [Next]_vars PROVE PcInv'
  OBVIOUS
<1> USE NoneAssumption DEF Typed, PcInv, ConnType, connVars, Goto, Hold
<1>1. ASSUME NEW c \in Conn, Accept(c) PROVE PcInv'
  BY <1>1 DEF Accept
<1>2. ASSUME NEW c \in Conn, RejectHello(c) PROVE PcInv'
  BY <1>2 DEF RejectHello
<1>3. ASSUME NEW c \in Conn, NEW d \in Device, HelloDaemon(c, d) PROVE PcInv'
  BY <1>3 DEF HelloDaemon, HubType, HasRoom
<1>4. ASSUME NEW c \in Conn, NEW d \in Device, HelloClient(c, d) PROVE PcInv'
  BY <1>4 DEF HelloClient, HubType, HasRoom
<1>5. ASSUME NEW c \in Conn, RegisterDaemon(c) PROVE PcInv'
  BY <1>5 DEF RegisterDaemon
<1>6. ASSUME NEW c \in Conn, JoinClient(c) PROVE PcInv'
  BY <1>6 DEF JoinClient
<1>7. ASSUME NEW c \in Conn, SendAck(c) PROVE PcInv'
  BY <1>7 DEF SendAck
<1>8. ASSUME NEW c \in Conn, ReadPing(c) PROVE PcInv'
  BY <1>8 DEF ReadPing
<1>9. ASSUME NEW c \in Conn, ReadKick(c) PROVE PcInv'
  BY <1>9 DEF ReadKick, HubType, HasRoom
<1>10. ASSUME NEW c \in Conn, KickTake(c) PROVE PcInv'
  BY <1>10 DEF KickTake
<1>11. ASSUME NEW c \in Conn, NEW v \in Conn, KickOne(c, v) PROVE PcInv'
  BY <1>11 DEF KickOne
<1>12. ASSUME NEW c \in Conn, KickEnd(c) PROVE PcInv'
  BY <1>12 DEF KickEnd
<1>13. ASSUME NEW c \in Conn, ReadPayload(c) PROVE PcInv'
  BY <1>13 DEF ReadPayload, HubType, HasRoom
<1>14. ASSUME NEW c \in Conn, Forward(c) PROVE PcInv'
  BY <1>14 DEF Forward
<1>15. ASSUME NEW c \in Conn, ReadFail(c) PROVE PcInv'
  BY <1>15 DEF ReadFail
<1>16. ASSUME NEW c \in Conn, ExitLookup(c) PROVE PcInv'
  BY <1>16 DEF ExitLookup, HubType, HasRoom
<1>17. ASSUME NEW c \in Conn, Unregister(c) PROVE PcInv'
  BY <1>17 DEF Unregister
<1>18. ASSUME NEW c \in Conn, Shutdown(c) PROVE PcInv'
  BY <1>18 DEF Shutdown
<1>19. ASSUME NEW c \in Conn, WriteFrame(c) PROVE PcInv'
  BY <1>19 DEF WriteFrame
<1>20. ASSUME NEW c \in Conn, WriteFail(c) PROVE PcInv'
  BY <1>20 DEF WriteFail
<1>21. ASSUME NEW c \in Conn, WriteEnd(c) PROVE PcInv'
  BY <1>21 DEF WriteEnd
<1>22. ASSUME NEW c \in Conn, PeerClose(c) PROVE PcInv'
  BY <1>22 DEF PeerClose
<1>23. CASE UNCHANGED vars
  BY <1>23 DEF vars
<1> QED BY NextCases, <1>1, <1>2, <1>3, <1>4, <1>5, <1>6, <1>7, <1>8, <1>9, <1>10, <1>11,
    <1>12, <1>13, <1>14, <1>15, <1>16, <1>17, <1>18, <1>19, <1>20, <1>21, <1>22, <1>23

LEMMA InitTyped == Init => Typed
BY CapAssumption, NoneAssumption
   DEF Init, Typed, HubType, ConnType, QueueType, PcInv, RpState

LEMMA TypedStep == Typed /\ [Next]_vars => Typed'
BY HubTypeStep, ConnTypeStep, QueueTypeStep, PcStep DEF Typed

LEMMA TypedOK == Typed => TypeOK
BY DEF Typed, TypeOK, HubType, ConnType, QueueType

\* Every variable keeps its type, and no send channel holds more than Cap frames.
THEOREM TypeCorrect == Spec => []TypeOK
BY InitTyped, TypedStep, TypedOK, PTL DEF Spec

-----------------------------------------------------------------------------
(* Seats and devices.                                                      *)

LEMMA KeyedStep == IInv /\ [Next]_vars => Keyed'
<1> SUFFICES ASSUME IInv, [Next]_vars PROVE Keyed'
  OBVIOUS
<1> USE NoneAssumption DEF IInv, Typed, Keyed, HubType, ConnType, hubVars
<1>1. ASSUME NEW c \in Conn, Accept(c) PROVE Keyed'
  BY <1>1 DEF Accept
<1>2. ASSUME NEW c \in Conn, RejectHello(c) PROVE Keyed'
  BY <1>2 DEF RejectHello
<1>3. ASSUME NEW c \in Conn, NEW d \in Device, HelloDaemon(c, d) PROVE Keyed'
  BY <1>3 DEF HelloDaemon, Held
<1>4. ASSUME NEW c \in Conn, NEW d \in Device, HelloClient(c, d) PROVE Keyed'
  BY <1>4 DEF HelloClient
<1>5. ASSUME NEW c \in Conn, RegisterDaemon(c) PROVE Keyed'
  BY <1>5 DEF RegisterDaemon
<1>6. ASSUME NEW c \in Conn, JoinClient(c) PROVE Keyed'
  BY <1>6 DEF JoinClient
<1>7. ASSUME NEW c \in Conn, SendAck(c) PROVE Keyed'
  BY <1>7 DEF SendAck
<1>8. ASSUME NEW c \in Conn, ReadPing(c) PROVE Keyed'
  BY <1>8 DEF ReadPing
<1>9. ASSUME NEW c \in Conn, ReadKick(c) PROVE Keyed'
  BY <1>9 DEF ReadKick
<1>10. ASSUME NEW c \in Conn, KickTake(c) PROVE Keyed'
  BY <1>10 DEF KickTake
<1>11. ASSUME NEW c \in Conn, NEW v \in Conn, KickOne(c, v) PROVE Keyed'
  BY <1>11 DEF KickOne
<1>12. ASSUME NEW c \in Conn, KickEnd(c) PROVE Keyed'
  BY <1>12 DEF KickEnd
<1>13. ASSUME NEW c \in Conn, ReadPayload(c) PROVE Keyed'
  BY <1>13 DEF ReadPayload
<1>14. ASSUME NEW c \in Conn, Forward(c) PROVE Keyed'
  BY <1>14 DEF Forward
<1>15. ASSUME NEW c \in Conn, ReadFail(c) PROVE Keyed'
  BY <1>15 DEF ReadFail
<1>16. ASSUME NEW c \in Conn, ExitLookup(c) PROVE Keyed'
  BY <1>16 DEF ExitLookup
<1>17. ASSUME NEW c \in Conn, Unregister(c) PROVE Keyed'
  BY <1>17 DEF Unregister, Reclaim, PcInv
<1>18. ASSUME NEW c \in Conn, Shutdown(c) PROVE Keyed'
  BY <1>18 DEF Shutdown
<1>19. ASSUME NEW c \in Conn, WriteFrame(c) PROVE Keyed'
  BY <1>19 DEF WriteFrame
<1>20. ASSUME NEW c \in Conn, WriteFail(c) PROVE Keyed'
  BY <1>20 DEF WriteFail
<1>21. ASSUME NEW c \in Conn, WriteEnd(c) PROVE Keyed'
  BY <1>21 DEF WriteEnd
<1>22. ASSUME NEW c \in Conn, PeerClose(c) PROVE Keyed'
  BY <1>22 DEF PeerClose
<1>23. CASE UNCHANGED vars
  BY <1>23 DEF vars
<1> QED BY NextCases, <1>1, <1>2, <1>3, <1>4, <1>5, <1>6, <1>7, <1>8, <1>9, <1>10, <1>11,
    <1>12, <1>13, <1>14, <1>15, <1>16, <1>17, <1>18, <1>19, <1>20, <1>21, <1>22, <1>23

\* A step that keeps every deviceId and lets at most one connection come near a room,
\* the room of its own device, leaves one device per room.
LEMMA Approach ==
  ASSUME IInv, NEW c \in Conn, dev' = dev,
         \A r \in Room : Held(r)' => Held(r),
         \A d \in Device : rooms'[d] # NoRoom => rooms'[d] = rooms[d],
         \A r \in Room, k \in Conn : Held(r) /\ Near(k, r)' =>
           \/ Near(k, r)
           \/ k = c /\ dev[c] \in Device /\ rooms[dev[c]] = r
  PROVE  OneDevicePerRoom'
<1> USE NoneAssumption DEF IInv, Typed, HubType
<1>1. ASSUME NEW d \in Device, NEW k \in Conn, (rooms[d] # NoRoom /\ Near(k, rooms[d]))'
      PROVE  (dev[k] = d)'
  <2>1. PICK r \in Room : r = rooms[d] /\ r = rooms'[d]
    BY <1>1
  <2>2. r # NoRoom /\ Held(r) /\ Near(k, r)'
    BY <1>1, <2>1 DEF Held, Near, Seated
  <2>3. CASE Near(k, r)
    BY <2>1, <2>2, <2>3 DEF OneDevicePerRoom
  <2>4. CASE k = c /\ dev[c] \in Device /\ rooms[dev[c]] = r
    BY <2>1, <2>2, <2>4 DEF Keyed
  <2> QED BY <2>2, <2>3, <2>4
<1>2. ASSUME NEW r \in Room, NEW k \in Conn, NEW x \in Conn, Held(r)', Near(k, r)', Near(x, r)'
      PROVE  dev[k] = dev[x]
  BY <1>2 DEF OneDevicePerRoom
<1>3. ASSUME NEW r \in Room, NEW k \in Conn, NEW x \in Conn, (Held(r) /\ Near(k, r) /\ Near(x, r))'
      PROVE  (dev[k] = dev[x])'
  BY <1>2, <1>3
<1> QED BY <1>1, <1>3 DEF OneDevicePerRoom

LEMMA DeviceStep == IInv /\ [Next]_vars => OneDevicePerRoom'
<1> SUFFICES ASSUME IInv, [Next]_vars PROVE OneDevicePerRoom'
  OBVIOUS
<1> USE NoneAssumption DEF IInv, Typed, OneDevicePerRoom, HubType, ConnType, PcInv, hubVars, connVars,
                         Near, Held, Seated, Hold, Goto
<1>1. ASSUME NEW c \in Conn, Accept(c) PROVE OneDevicePerRoom'
  <2>1. \A r \in Room : Held(r)' <=> Held(r)
    BY <1>1 DEF Accept
  <2>2. ASSUME NEW r \in Room, NEW k \in Conn, Held(r), Near(k, r)' PROVE Near(k, r) /\ k # c
    BY SMTT(30), <1>1, <2>2 DEF Accept
  <2>3. \A k \in Conn : k # c => dev'[k] = dev[k]
    BY <1>1 DEF Accept
  <2>4. ASSUME NEW d \in Device, NEW k \in Conn, (rooms[d] # NoRoom /\ Near(k, rooms[d]))'
        PROVE  (dev[k] = d)'
    <3>1. rooms' = rooms /\ rooms[d] \in Room /\ rooms[d] # NoRoom
      BY <1>1, <2>4 DEF Accept
    <3>2. Near(k, rooms[d])
      BY <1>1, <2>4, <3>1 DEF Accept
    <3> QED BY <2>2, <2>3, <2>4, <3>1, <3>2
  <2>5. ASSUME NEW r \in Room, NEW k \in Conn, NEW x \in Conn, (Held(r) /\ Near(k, r) /\ Near(x, r))'
        PROVE  (dev[k] = dev[x])'
    <3> HIDE DEF Held, Near
    <3> QED BY <2>1, <2>2, <2>3, <2>5
  <2> QED BY <2>4, <2>5
<1>2. ASSUME NEW c \in Conn, RejectHello(c) PROVE OneDevicePerRoom'
  BY <1>2 DEF RejectHello
<1>3. ASSUME NEW c \in Conn, NEW d \in Device, HelloDaemon(c, d) PROVE OneDevicePerRoom'
  <2>1. \A r \in Room : Held(r) => ~Near(c, r)
    BY <1>3 DEF HelloDaemon, SeatInv
  <2>2. \A k \in Conn : dev'[k] = IF k = c THEN d ELSE dev[k]
    BY <1>3 DEF HelloDaemon
  <2>3. CASE rooms[d] # NoRoom
    BY <1>3, <2>1, <2>2, <2>3 DEF HelloDaemon, Keyed
  <2>4. CASE rooms[d] = NoRoom
    <3>1. PICK q \in Room : /\ ~Held(q) /\ rooms' = [rooms EXCEPT ![d] = q]
                            /\ daemon' = [daemon EXCEPT ![q] = NoConn]
                            /\ clients' = [clients EXCEPT ![q] = {}]
                            /\ ref' = [ref EXCEPT ![c] = q]
      BY <1>3, <2>4 DEF HelloDaemon
    <3>2. \A k \in Conn : Near(k, q)' <=> k = c
      BY <3>1
    <3>3. \A r \in Room : r # q /\ Held(r)' => Held(r)
      BY SMTT(30), <3>1, <1>3 DEF HelloDaemon
    <3>4. \A r \in Room, k \in Conn : r # q /\ Near(k, r)' => Near(k, r)
      BY <3>1
    <3>5. ASSUME NEW e \in Device, NEW k \in Conn, (rooms[e] # NoRoom /\ Near(k, rooms[e]))'
          PROVE  (dev[k] = e)'
      <4>1. CASE e = d
        BY <2>2, <3>1, <3>2, <3>5, <4>1
      <4>2. CASE e # d
        BY <2>1, <2>2, <3>1, <3>5, <4>2
      <4> QED BY <4>1, <4>2
    <3>6. ASSUME NEW r \in Room, NEW k \in Conn, NEW x \in Conn, (Held(r) /\ Near(k, r) /\ Near(x, r))'
          PROVE  (dev[k] = dev[x])'
      <4>1. CASE r = q
        BY <3>2, <3>6, <4>1
      <4>2. CASE r # q
        <5> HIDE DEF Held, Near
        <5> QED BY <2>1, <2>2, <3>3, <3>4, <3>6, <4>2
      <4> QED BY <4>1, <4>2
    <3> QED BY <3>5, <3>6
  <2> QED BY <2>3, <2>4
<1>4. ASSUME NEW c \in Conn, NEW d \in Device, HelloClient(c, d) PROVE OneDevicePerRoom'
  BY <1>4 DEF HelloClient, Keyed, SeatInv
<1>5. ASSUME NEW c \in Conn, RegisterDaemon(c) PROVE OneDevicePerRoom'
  BY <1>5, Approach DEF RegisterDaemon
<1>6. ASSUME NEW c \in Conn, JoinClient(c) PROVE OneDevicePerRoom'
  <2>1. \A r \in Room : Held(r)' => Held(r)
    BY <1>6 DEF JoinClient
  <2>2. ASSUME NEW r \in Room, NEW k \in Conn, Near(k, r)' PROVE Near(k, r)
    BY SMTT(30), <1>6, <2>2 DEF JoinClient
  <2>3. dev' = dev /\ rooms' = rooms
    BY <1>6 DEF JoinClient
  <2> HIDE DEF IInv, OneDevicePerRoom, Held, Near
  <2> QED BY <2>1, <2>2, <2>3, Approach
<1>7. ASSUME NEW c \in Conn, SendAck(c) PROVE OneDevicePerRoom'
  BY <1>7 DEF SendAck
<1>8. ASSUME NEW c \in Conn, ReadPing(c) PROVE OneDevicePerRoom'
  BY <1>8 DEF ReadPing
<1>9. ASSUME NEW c \in Conn, ReadKick(c) PROVE OneDevicePerRoom'
  BY <1>9, Approach DEF ReadKick, HasRoom
<1>10. ASSUME NEW c \in Conn, KickTake(c) PROVE OneDevicePerRoom'
  BY <1>10 DEF KickTake
<1>11. ASSUME NEW c \in Conn, NEW v \in Conn, KickOne(c, v) PROVE OneDevicePerRoom'
  BY <1>11 DEF KickOne
<1>12. ASSUME NEW c \in Conn, KickEnd(c) PROVE OneDevicePerRoom'
  BY <1>12 DEF KickEnd
<1>13. ASSUME NEW c \in Conn, ReadPayload(c) PROVE OneDevicePerRoom'
  BY SMTT(30), <1>13, Approach DEF ReadPayload, HasRoom
<1>14. ASSUME NEW c \in Conn, Forward(c) PROVE OneDevicePerRoom'
  BY <1>14 DEF Forward
<1>15. ASSUME NEW c \in Conn, ReadFail(c) PROVE OneDevicePerRoom'
  BY <1>15 DEF ReadFail
<1>16. ASSUME NEW c \in Conn, ExitLookup(c) PROVE OneDevicePerRoom'
  BY <1>16, Approach DEF ExitLookup, HasRoom
<1>17. ASSUME NEW c \in Conn, Unregister(c) PROVE OneDevicePerRoom'
  <2>1. \A d \in Device : rooms'[d] # NoRoom => rooms'[d] = rooms[d]
    BY <1>17 DEF Unregister, Reclaim
  <2>2. \A r \in Room : Held(r)' => Held(r)
    BY <1>17, <2>1 DEF Unregister
  <2>3. ASSUME NEW r \in Room, NEW k \in Conn, Near(k, r)' PROVE Near(k, r)
    BY <1>17, <2>3 DEF Unregister
  <2>4. dev' = dev
    BY <1>17 DEF Unregister
  <2> HIDE DEF IInv, OneDevicePerRoom, Held, Near
  <2> QED BY <2>1, <2>2, <2>3, <2>4, Approach
<1>18. ASSUME NEW c \in Conn, Shutdown(c) PROVE OneDevicePerRoom'
  BY <1>18 DEF Shutdown
<1>19. ASSUME NEW c \in Conn, WriteFrame(c) PROVE OneDevicePerRoom'
  BY <1>19 DEF WriteFrame
<1>20. ASSUME NEW c \in Conn, WriteFail(c) PROVE OneDevicePerRoom'
  BY <1>20 DEF WriteFail
<1>21. ASSUME NEW c \in Conn, WriteEnd(c) PROVE OneDevicePerRoom'
  BY <1>21 DEF WriteEnd
<1>22. ASSUME NEW c \in Conn, PeerClose(c) PROVE OneDevicePerRoom'
  BY <1>22 DEF PeerClose
<1>23. CASE UNCHANGED vars
  BY <1>23 DEF vars
<1> QED BY NextCases, <1>1, <1>2, <1>3, <1>4, <1>5, <1>6, <1>7, <1>8, <1>9, <1>10, <1>11,
    <1>12, <1>13, <1>14, <1>15, <1>16, <1>17, <1>18, <1>19, <1>20, <1>21, <1>22, <1>23

LEMMA SeatStep == IInv /\ [Next]_vars => SeatInv'
<1> SUFFICES ASSUME IInv, [Next]_vars PROVE SeatInv'
  OBVIOUS
<1> USE NoneAssumption DEF IInv, Typed, SeatInv, HubType, ConnType, PcInv, hubVars, connVars,
                         Held, Seated, Hold, Goto
<1>1. ASSUME NEW c \in Conn, Accept(c) PROVE SeatInv'
  BY <1>1 DEF Accept
<1>2. ASSUME NEW c \in Conn, RejectHello(c) PROVE SeatInv'
  BY <1>2 DEF RejectHello
<1>3. ASSUME NEW c \in Conn, NEW d \in Device, HelloDaemon(c, d) PROVE SeatInv'
  BY <1>3 DEF HelloDaemon
<1>4. ASSUME NEW c \in Conn, NEW d \in Device, HelloClient(c, d) PROVE SeatInv'
  BY <1>4 DEF HelloClient
<1>5. ASSUME NEW c \in Conn, RegisterDaemon(c) PROVE SeatInv'
  BY <1>5 DEF RegisterDaemon
<1>6. ASSUME NEW c \in Conn, JoinClient(c) PROVE SeatInv'
  <2> DEFINE q == ref[c]
  <2>1. q \in Room /\ Held(q) /\ role[c] = "none"
    BY <1>6 DEF JoinClient
  <2>2. \A r \in Room : Held(r)' => Held(r)
    BY <1>6 DEF JoinClient
  <2>3. CASE UNCHANGED <<daemon, clients, role>>
    BY <1>6, <2>2, <2>3
  <2>4. CASE daemon' = daemon /\ clients' = [clients EXCEPT ![q] = @ \cup {c}]
             /\ role' = [role EXCEPT ![c] = "client"]
    <3>1. ASSUME NEW r \in Room, Held(r) PROVE ~Seated(c, r)
      BY <2>1, <3>1
    <3>2. ASSUME NEW r \in Room, NEW k \in Conn, Seated(k, r)'
          PROVE  Seated(k, r) \/ (k = c /\ r = q)
      BY <2>4, <3>2
    <3>3. ASSUME NEW r \in Room, NEW k \in Conn, Held(r)', Seated(k, r)'
          PROVE  /\ daemon'[r] = k => role'[k] = "daemon"
                 /\ k \in clients'[r] => role'[k] = "client"
      BY <2>1, <2>2, <2>4, <3>1, <3>3
    <3> HIDE DEF Held, Seated, q
    <3>4. ASSUME NEW r \in Room, NEW k \in Conn, NEW p \in Room,
                 Held(r)', Seated(k, r)', Held(p)', Seated(k, p)'
          PROVE  p = r
      BY <2>2, <3>1, <3>2, <3>4
    <3> QED BY <3>3, <3>4
  <2> QED BY <1>6, <2>3, <2>4 DEF JoinClient
<1>7. ASSUME NEW c \in Conn, SendAck(c) PROVE SeatInv'
  BY <1>7 DEF SendAck
<1>8. ASSUME NEW c \in Conn, ReadPing(c) PROVE SeatInv'
  BY <1>8 DEF ReadPing
<1>9. ASSUME NEW c \in Conn, ReadKick(c) PROVE SeatInv'
  BY <1>9 DEF ReadKick, HasRoom
<1>10. ASSUME NEW c \in Conn, KickTake(c) PROVE SeatInv'
  BY <1>10 DEF KickTake
<1>11. ASSUME NEW c \in Conn, NEW v \in Conn, KickOne(c, v) PROVE SeatInv'
  BY <1>11 DEF KickOne
<1>12. ASSUME NEW c \in Conn, KickEnd(c) PROVE SeatInv'
  BY <1>12 DEF KickEnd
<1>13. ASSUME NEW c \in Conn, ReadPayload(c) PROVE SeatInv'
  BY <1>13 DEF ReadPayload, HasRoom
<1>14. ASSUME NEW c \in Conn, Forward(c) PROVE SeatInv'
  BY <1>14 DEF Forward
<1>15. ASSUME NEW c \in Conn, ReadFail(c) PROVE SeatInv'
  BY <1>15 DEF ReadFail
<1>16. ASSUME NEW c \in Conn, ExitLookup(c) PROVE SeatInv'
  BY <1>16 DEF ExitLookup, HasRoom
<1>17. ASSUME NEW c \in Conn, Unregister(c) PROVE SeatInv'
  BY SMTT(30), <1>17 DEF Unregister, Reclaim
<1>18. ASSUME NEW c \in Conn, Shutdown(c) PROVE SeatInv'
  BY <1>18 DEF Shutdown
<1>19. ASSUME NEW c \in Conn, WriteFrame(c) PROVE SeatInv'
  BY <1>19 DEF WriteFrame
<1>20. ASSUME NEW c \in Conn, WriteFail(c) PROVE SeatInv'
  BY <1>20 DEF WriteFail
<1>21. ASSUME NEW c \in Conn, WriteEnd(c) PROVE SeatInv'
  BY <1>21 DEF WriteEnd
<1>22. ASSUME NEW c \in Conn, PeerClose(c) PROVE SeatInv'
  BY <1>22 DEF PeerClose
<1>23. CASE UNCHANGED vars
  BY <1>23 DEF vars
<1> QED BY NextCases, <1>1, <1>2, <1>3, <1>4, <1>5, <1>6, <1>7, <1>8, <1>9, <1>10, <1>11,
    <1>12, <1>13, <1>14, <1>15, <1>16, <1>17, <1>18, <1>19, <1>20, <1>21, <1>22, <1>23

-----------------------------------------------------------------------------
(* Kicked viewers.                                                         *)

\* An ousted viewer stays out until its connection object is a new connection.
LEMMA OustedStays ==
  ASSUME IInv, NEW v \in Conn, Ousted(v), [Next]_vars,
         \A c \in Conn : Accept(c) => c # v
  PROVE  Ousted(v)'
<1> USE NoneAssumption DEF IInv, Typed, Ousted, HubType, ConnType, PcInv, hubVars, connVars,
                           Held, Seated, Hold, Goto
<1>1. ASSUME NEW c \in Conn, Accept(c) PROVE Ousted(v)'
  BY <1>1 DEF Accept
<1>2. ASSUME NEW c \in Conn, RejectHello(c) PROVE Ousted(v)'
  BY <1>2 DEF RejectHello
<1>3. ASSUME NEW c \in Conn, NEW d \in Device, HelloDaemon(c, d) PROVE Ousted(v)'
  BY <1>3 DEF HelloDaemon
<1>4. ASSUME NEW c \in Conn, NEW d \in Device, HelloClient(c, d) PROVE Ousted(v)'
  BY <1>4 DEF HelloClient
<1>5. ASSUME NEW c \in Conn, RegisterDaemon(c) PROVE Ousted(v)'
  BY <1>5 DEF RegisterDaemon
<1>6. ASSUME NEW c \in Conn, JoinClient(c) PROVE Ousted(v)'
  BY <1>6 DEF JoinClient
<1>7. ASSUME NEW c \in Conn, SendAck(c) PROVE Ousted(v)'
  BY <1>7 DEF SendAck
<1>8. ASSUME NEW c \in Conn, ReadPing(c) PROVE Ousted(v)'
  BY <1>8 DEF ReadPing
<1>9. ASSUME NEW c \in Conn, ReadKick(c) PROVE Ousted(v)'
  BY <1>9 DEF ReadKick, HasRoom
<1>10. ASSUME NEW c \in Conn, KickTake(c) PROVE Ousted(v)'
  BY <1>10 DEF KickTake
<1>11. ASSUME NEW c \in Conn, NEW u \in Conn, KickOne(c, u) PROVE Ousted(v)'
  BY <1>11 DEF KickOne
<1>12. ASSUME NEW c \in Conn, KickEnd(c) PROVE Ousted(v)'
  BY <1>12 DEF KickEnd
<1>13. ASSUME NEW c \in Conn, ReadPayload(c) PROVE Ousted(v)'
  BY <1>13 DEF ReadPayload, HasRoom
<1>14. ASSUME NEW c \in Conn, Forward(c) PROVE Ousted(v)'
  BY <1>14 DEF Forward
<1>15. ASSUME NEW c \in Conn, ReadFail(c) PROVE Ousted(v)'
  BY <1>15 DEF ReadFail
<1>16. ASSUME NEW c \in Conn, ExitLookup(c) PROVE Ousted(v)'
  BY <1>16 DEF ExitLookup, HasRoom
<1>17. ASSUME NEW c \in Conn, Unregister(c) PROVE Ousted(v)'
  BY <1>17 DEF Unregister, Reclaim
<1>18. ASSUME NEW c \in Conn, Shutdown(c) PROVE Ousted(v)'
  BY <1>18 DEF Shutdown
<1>19. ASSUME NEW c \in Conn, WriteFrame(c) PROVE Ousted(v)'
  BY <1>19 DEF WriteFrame
<1>20. ASSUME NEW c \in Conn, WriteFail(c) PROVE Ousted(v)'
  BY <1>20 DEF WriteFail
<1>21. ASSUME NEW c \in Conn, WriteEnd(c) PROVE Ousted(v)'
  BY <1>21 DEF WriteEnd
<1>22. ASSUME NEW c \in Conn, PeerClose(c) PROVE Ousted(v)'
  BY <1>22 DEF PeerClose
<1>23. CASE UNCHANGED vars
  BY <1>23 DEF vars
<1> QED BY NextCases, <1>1, <1>2, <1>3, <1>4, <1>5, <1>6, <1>7, <1>8, <1>9, <1>10, <1>11,
    <1>12, <1>13, <1>14, <1>15, <1>16, <1>17, <1>18, <1>19, <1>20, <1>21, <1>22, <1>23

\* Only kickClients makes victims.
LEMMA NewVictims ==
  ASSUME IInv, [Next]_vars, NEW k \in Conn, NEW v \in Conn, v \in victims'[k], v \notin victims[k]
  PROVE  KickTake(k)
<1> USE DEF IInv, Typed, ConnType, connVars
<1>1. ASSUME NEW c \in Conn, Accept(c) PROVE KickTake(k)
  BY <1>1 DEF Accept
<1>2. ASSUME NEW c \in Conn, RejectHello(c) PROVE KickTake(k)
  BY <1>2 DEF RejectHello
<1>3. ASSUME NEW c \in Conn, NEW d \in Device, HelloDaemon(c, d) PROVE KickTake(k)
  BY <1>3 DEF HelloDaemon
<1>4. ASSUME NEW c \in Conn, NEW d \in Device, HelloClient(c, d) PROVE KickTake(k)
  BY <1>4 DEF HelloClient
<1>5. ASSUME NEW c \in Conn, RegisterDaemon(c) PROVE KickTake(k)
  BY <1>5 DEF RegisterDaemon
<1>6. ASSUME NEW c \in Conn, JoinClient(c) PROVE KickTake(k)
  BY <1>6 DEF JoinClient
<1>7. ASSUME NEW c \in Conn, SendAck(c) PROVE KickTake(k)
  BY <1>7 DEF SendAck
<1>8. ASSUME NEW c \in Conn, ReadPing(c) PROVE KickTake(k)
  BY <1>8 DEF ReadPing
<1>9. ASSUME NEW c \in Conn, ReadKick(c) PROVE KickTake(k)
  BY <1>9 DEF ReadKick
<1>10. ASSUME NEW c \in Conn, KickTake(c) PROVE KickTake(k)
  BY <1>10 DEF KickTake
<1>11. ASSUME NEW c \in Conn, NEW u \in Conn, KickOne(c, u) PROVE KickTake(k)
  BY <1>11 DEF KickOne
<1>12. ASSUME NEW c \in Conn, KickEnd(c) PROVE KickTake(k)
  BY <1>12 DEF KickEnd
<1>13. ASSUME NEW c \in Conn, ReadPayload(c) PROVE KickTake(k)
  BY <1>13 DEF ReadPayload
<1>14. ASSUME NEW c \in Conn, Forward(c) PROVE KickTake(k)
  BY <1>14 DEF Forward
<1>15. ASSUME NEW c \in Conn, ReadFail(c) PROVE KickTake(k)
  BY <1>15 DEF ReadFail
<1>16. ASSUME NEW c \in Conn, ExitLookup(c) PROVE KickTake(k)
  BY <1>16 DEF ExitLookup
<1>17. ASSUME NEW c \in Conn, Unregister(c) PROVE KickTake(k)
  BY <1>17 DEF Unregister
<1>18. ASSUME NEW c \in Conn, Shutdown(c) PROVE KickTake(k)
  BY <1>18 DEF Shutdown
<1>19. ASSUME NEW c \in Conn, WriteFrame(c) PROVE KickTake(k)
  BY <1>19 DEF WriteFrame
<1>20. ASSUME NEW c \in Conn, WriteFail(c) PROVE KickTake(k)
  BY <1>20 DEF WriteFail
<1>21. ASSUME NEW c \in Conn, WriteEnd(c) PROVE KickTake(k)
  BY <1>21 DEF WriteEnd
<1>22. ASSUME NEW c \in Conn, PeerClose(c) PROVE KickTake(k)
  BY <1>22 DEF PeerClose
<1>23. CASE UNCHANGED vars
  BY <1>23 DEF vars
<1> QED BY NextCases, <1>1, <1>2, <1>3, <1>4, <1>5, <1>6, <1>7, <1>8, <1>9, <1>10, <1>11,
    <1>12, <1>13, <1>14, <1>15, <1>16, <1>17, <1>18, <1>19, <1>20, <1>21, <1>22, <1>23

LEMMA VictimStep == IInv /\ [Next]_vars => VictimInv'
<1> SUFFICES ASSUME IInv, [Next]_vars, NEW k \in Conn, NEW v \in Conn, v \in victims'[k]
             PROVE  Ousted(v)'
  BY DEF VictimInv
<1>1. CASE v \in victims[k]
  <2>1. Ousted(v)
    BY <1>1 DEF IInv, VictimInv
  <2>2. \A c \in Conn : Accept(c) => c # v
    BY <1>1 DEF Accept
  <2> QED BY <2>1, <2>2, OustedStays
<1>2. CASE v \notin victims[k]
  <2>1. KickTake(k)
    BY <1>2, NewVictims
  <2>2. ref[k] \in Room /\ Held(ref[k]) /\ v \in clients[ref[k]]
    BY <1>2, <2>1 DEF KickTake, IInv, Typed, ConnType, PcInv, Held
  <2>3. /\ role[v] = "client"
        /\ daemon[ref[k]] # v
        /\ \A q \in Room : Held(q) /\ Seated(v, q) => q = ref[k]
    BY <2>2 DEF IInv, SeatInv, Seated
  <2>4. \A q \in Room : Held(q)' => Held(q)
    BY <2>1, NoneAssumption DEF KickTake, Held, Hold, IInv, Typed, ConnType
  <2>5. \A q \in Room : Seated(v, q)' => Seated(v, q) /\ q # ref[k]
    BY <2>1, <2>2, <2>3 DEF KickTake, Seated, IInv, Typed, HubType
  <2> QED BY <2>1, <2>3, <2>4, <2>5 DEF KickTake, Ousted
<1> QED BY <1>1, <1>2

\* Where the frames of a queue come from.
LEMMA SentFrames ==
  ASSUME QueueType, NEW S, NEW m \in Frame, SendTo(S, m), NEW c \in Conn, NEW f \in FramesOf(c)'
  PROVE  f \in FramesOf(c) \/ (c \in S /\ f = m)
<1>1. PICK i \in 1..Len(queue'[c]) : f = queue'[c][i]
  BY DEF FramesOf
<1>2. CASE c \in S /\ ~Full(c)
  <2>1. queue'[c] = Append(queue[c], m) /\ queue[c] \in Seq(Frame)
    BY <1>2 DEF SendTo, QueueType
  <2>2. CASE i = Len(queue[c]) + 1
    BY <1>1, <1>2, <2>1, <2>2
  <2>3. CASE i # Len(queue[c]) + 1
    BY <1>1, <2>1, <2>3 DEF FramesOf
  <2> QED BY <2>2, <2>3
<1>3. CASE ~(c \in S /\ ~Full(c))
  BY <1>1, <1>3 DEF SendTo, QueueType, FramesOf
<1> QED BY <1>2, <1>3

LEMMA WrittenFrames ==
  ASSUME QueueType, NEW k \in Conn, queue[k] # << >>, queue' = [queue EXCEPT ![k] = Tail(@)],
         NEW c \in Conn, NEW f \in FramesOf(c)'
  PROVE  f \in FramesOf(c)
<1>1. PICK i \in 1..Len(queue'[c]) : f = queue'[c][i]
  BY DEF FramesOf
<1>2. CASE c = k
  <2>1. queue'[c] = Tail(queue[c]) /\ queue[c] \in Seq(Frame) /\ queue[c] # << >>
    BY <1>2 DEF QueueType
  <2>2. /\ Len(queue'[c]) = Len(queue[c]) - 1
        /\ \A j \in 1..Len(queue'[c]) : queue'[c][j] = queue[c][j + 1]
    BY <2>1, HeadTailProperties
  <2>3. Len(queue[c]) \in Nat
    BY <2>1
  <2>4. i + 1 \in 1..Len(queue[c])
    BY <1>1, <2>2, <2>3
  <2> QED BY <1>1, <2>2, <2>4 DEF FramesOf
<1>3. CASE c # k
  BY <1>1, <1>3 DEF QueueType, FramesOf
<1> QED BY <1>2, <1>3

LEMMA KickedFrames ==
  ASSUME QueueType, NEW v \in Conn, NEW m \in Frame, queue' = [queue EXCEPT ![v] = Append(@, m)],
         NEW c \in Conn, NEW f \in FramesOf(c)'
  PROVE  f \in FramesOf(c) \/ (c = v /\ f = m)
<1>1. PICK i \in 1..Len(queue'[c]) : f = queue'[c][i]
  BY DEF FramesOf
<1>2. CASE c = v
  <2>1. queue'[c] = Append(queue[c], m) /\ queue[c] \in Seq(Frame)
    BY <1>2 DEF QueueType
  <2>2. CASE i = Len(queue[c]) + 1
    BY <1>1, <1>2, <2>1, <2>2
  <2>3. CASE i # Len(queue[c]) + 1
    BY <1>1, <2>1, <2>3 DEF FramesOf
  <2> QED BY <2>2, <2>3
<1>3. CASE c # v
  BY <1>1, <1>3 DEF QueueType, FramesOf
<1> QED BY <1>2, <1>3

\* A new frame is a reply, a presence notice to a seated viewer, a notice to a victim, or
\* a payload being forwarded; a new connection has none.
FrameOrigin(c, f) ==
  \/ f \in FramesOf(c)
  \/ f.t = "reply"
  \/ f.t \in {"online", "offline"} /\ \E r \in Room : Held(r) /\ c \in clients[r]
  \/ f.t = "kicked" /\ \E k \in Conn : c \in victims[k]
  \/ \E k \in Conn : Forward(k) /\ c \in Targets(k, ref[k]) /\ f = Payload(k)
                     /\ (role[k] = "daemon" \/ daemon[ref[k]] # NoConn)

LEMMA NewFrames ==
  ASSUME IInv, [Next]_vars, NEW x \in Conn, NEW f \in FramesOf(x)'
  PROVE  FrameOrigin(x, f) /\ ~Accept(x)
<1>0. QueueType /\ ConnType
  BY DEF IInv, Typed
<1>a. ~Accept(x)
  BY <1>0 DEF Accept, FramesOf, QueueType
<1>b. SendNothing => FrameOrigin(x, f)
  BY DEF SendNothing, FramesOf, FrameOrigin
<1>c. ASSUME NEW S, SendTo(S, Control("reply"))
      PROVE  FrameOrigin(x, f)
  BY <1>0, <1>c, SentFrames, FrameType DEF FrameOrigin, Control
<1>d. ASSUME NEW r \in Room, Held(r), NEW t \in {"online", "offline"}, Broadcast(r, t)
      PROVE  FrameOrigin(x, f)
  BY <1>0, <1>d, SentFrames, FrameType DEF Broadcast, FrameOrigin, Control
<1>e. \A c \in Conn : rp[c] \in {"reg", "unreg"} => ref[c] \in Room /\ Held(ref[c])
  BY <1>0 DEF IInv, Typed, PcInv, ConnType, Held
<1> SUFFICES FrameOrigin(x, f)
  BY <1>a
<1> USE <1>0
<1>1. ASSUME NEW c \in Conn, Accept(c) PROVE FrameOrigin(x, f)
  BY <1>1, <1>a DEF Accept, FrameOrigin, FramesOf, QueueType
<1>2. ASSUME NEW c \in Conn, RejectHello(c) PROVE FrameOrigin(x, f)
  BY <1>2, <1>b DEF RejectHello
<1>3. ASSUME NEW c \in Conn, NEW d \in Device, HelloDaemon(c, d) PROVE FrameOrigin(x, f)
  BY <1>3, <1>b DEF HelloDaemon
<1>4. ASSUME NEW c \in Conn, NEW d \in Device, HelloClient(c, d) PROVE FrameOrigin(x, f)
  BY <1>4, <1>b DEF HelloClient
<1>5. ASSUME NEW c \in Conn, RegisterDaemon(c) PROVE FrameOrigin(x, f)
  BY <1>5, <1>b, <1>d, <1>e DEF RegisterDaemon
<1>6. ASSUME NEW c \in Conn, JoinClient(c) PROVE FrameOrigin(x, f)
  BY <1>6, <1>b DEF JoinClient
<1>7. ASSUME NEW c \in Conn, SendAck(c) PROVE FrameOrigin(x, f)
  BY <1>7, <1>b, <1>c DEF SendAck
<1>8. ASSUME NEW c \in Conn, ReadPing(c) PROVE FrameOrigin(x, f)
  BY <1>8, <1>b, <1>c DEF ReadPing
<1>9. ASSUME NEW c \in Conn, ReadKick(c) PROVE FrameOrigin(x, f)
  BY <1>9, <1>b DEF ReadKick
<1>10. ASSUME NEW c \in Conn, KickTake(c) PROVE FrameOrigin(x, f)
  BY <1>10, <1>b DEF KickTake
<1>11. ASSUME NEW c \in Conn, NEW v \in Conn, KickOne(c, v) PROVE FrameOrigin(x, f)
  <2>1. CASE SendNothing \/ queue' = queue
    BY <2>1 DEF SendNothing, FramesOf, FrameOrigin
  <2>2. CASE queue' = [queue EXCEPT ![v] = Append(@, Control("kicked"))]
    <3>1. Control("kicked") \in Frame /\ Control("kicked").t = "kicked"
      BY FrameType DEF Control
    <3>2. f \in FramesOf(x) \/ (x = v /\ f = Control("kicked"))
      BY <2>2, <3>1, KickedFrames
    <3> QED BY <1>11, <3>1, <3>2 DEF KickOne, FrameOrigin
  <2> QED BY <1>11, <2>1, <2>2 DEF KickOne
<1>12. ASSUME NEW c \in Conn, KickEnd(c) PROVE FrameOrigin(x, f)
  BY <1>12, <1>b DEF KickEnd
<1>13. ASSUME NEW c \in Conn, ReadPayload(c) PROVE FrameOrigin(x, f)
  BY <1>13, <1>b DEF ReadPayload
<1>14. ASSUME NEW c \in Conn, Forward(c) PROVE FrameOrigin(x, f)
  <2>1. CASE role[c] # "daemon" /\ daemon[ref[c]] = NoConn
    BY <1>14, <2>1, <1>b, <1>c DEF Forward
  <2>2. CASE ~(role[c] # "daemon" /\ daemon[ref[c]] = NoConn)
    <3>1. SendNothing \/ SendTo(Targets(c, ref[c]), Payload(c))
      BY <1>14, <2>2 DEF Forward
    <3>2. CASE SendTo(Targets(c, ref[c]), Payload(c))
      BY <1>14, <2>2, <3>2, SentFrames, FrameType DEF FrameOrigin
    <3> QED BY <3>1, <3>2, <1>b
  <2> QED BY <2>1, <2>2
<1>15. ASSUME NEW c \in Conn, ReadFail(c) PROVE FrameOrigin(x, f)
  BY <1>15, <1>b DEF ReadFail
<1>16. ASSUME NEW c \in Conn, ExitLookup(c) PROVE FrameOrigin(x, f)
  BY <1>16, <1>b DEF ExitLookup
<1>17. ASSUME NEW c \in Conn, Unregister(c) PROVE FrameOrigin(x, f)
  BY <1>17, <1>b, <1>d, <1>e DEF Unregister
<1>18. ASSUME NEW c \in Conn, Shutdown(c) PROVE FrameOrigin(x, f)
  BY <1>18 DEF Shutdown, FrameOrigin, FramesOf
<1>19. ASSUME NEW c \in Conn, WriteFrame(c) PROVE FrameOrigin(x, f)
  BY <1>19, WrittenFrames DEF WriteFrame, FrameOrigin
<1>20. ASSUME NEW c \in Conn, WriteFail(c) PROVE FrameOrigin(x, f)
  BY <1>20, WrittenFrames DEF WriteFail, FrameOrigin
<1>21. ASSUME NEW c \in Conn, WriteEnd(c) PROVE FrameOrigin(x, f)
  BY <1>21, <1>b DEF WriteEnd, SendNothing
<1>22. ASSUME NEW c \in Conn, PeerClose(c) PROVE FrameOrigin(x, f)
  BY <1>22, <1>b DEF PeerClose, SendNothing
<1>23. CASE UNCHANGED vars
  BY <1>23, <1>b DEF vars, SendNothing
<1> QED BY NextCases, <1>1, <1>2, <1>3, <1>4, <1>5, <1>6, <1>7, <1>8, <1>9, <1>10, <1>11,
    <1>12, <1>13, <1>14, <1>15, <1>16, <1>17, <1>18, <1>19, <1>20, <1>21, <1>22, <1>23

LEMMA NoticeStep == IInv /\ [Next]_vars => NoticeInv'
<1> SUFFICES ASSUME IInv, [Next]_vars, NEW v \in Conn, NEW f \in FramesOf(v)', f.t = "kicked"
             PROVE  Ousted(v)'
  BY DEF NoticeInv
<1>1. FrameOrigin(v, f) /\ ~Accept(v)
  BY NewFrames
<1>2. Ousted(v)
  BY <1>1 DEF FrameOrigin, IInv, NoticeInv, VictimInv, Payload
<1> QED BY <1>1, <1>2, OustedStays

-----------------------------------------------------------------------------
(* Service and isolation.                                                  *)

LEMMA ServingStep == IInv /\ [Next]_vars => ServingInv'
<1> SUFFICES ASSUME IInv, [Next]_vars PROVE ServingInv'
  OBVIOUS
<1> USE NoneAssumption DEF IInv, Typed, ServingInv, Serving, InSeat, Reachable, Seated, SeatInv,
                         HubType, ConnType, PcInv, hubVars, connVars, Hold, Goto
<1>1. ASSUME NEW c \in Conn, Accept(c) PROVE ServingInv'
  BY <1>1 DEF Accept, Held
<1>2. ASSUME NEW c \in Conn, RejectHello(c) PROVE ServingInv'
  BY <1>2 DEF RejectHello
<1>3. ASSUME NEW c \in Conn, NEW d \in Device, HelloDaemon(c, d) PROVE ServingInv'
  BY <1>3 DEF HelloDaemon, Held
<1>4. ASSUME NEW c \in Conn, NEW d \in Device, HelloClient(c, d) PROVE ServingInv'
  BY <1>4 DEF HelloClient
<1>5. ASSUME NEW c \in Conn, RegisterDaemon(c) PROVE ServingInv'
  BY <1>5 DEF RegisterDaemon
<1>6. ASSUME NEW c \in Conn, JoinClient(c) PROVE ServingInv'
  BY <1>6 DEF JoinClient
<1>7. ASSUME NEW c \in Conn, SendAck(c) PROVE ServingInv'
  BY <1>7 DEF SendAck
<1>8. ASSUME NEW c \in Conn, ReadPing(c) PROVE ServingInv'
  BY <1>8 DEF ReadPing
<1>9. ASSUME NEW c \in Conn, ReadKick(c) PROVE ServingInv'
  BY <1>9 DEF ReadKick, HasRoom
<1>10. ASSUME NEW c \in Conn, KickTake(c) PROVE ServingInv'
  BY <1>10 DEF KickTake
<1>11. ASSUME NEW c \in Conn, NEW v \in Conn, KickOne(c, v) PROVE ServingInv'
  BY <1>11 DEF KickOne
<1>12. ASSUME NEW c \in Conn, KickEnd(c) PROVE ServingInv'
  BY <1>12 DEF KickEnd
<1>13. ASSUME NEW c \in Conn, ReadPayload(c) PROVE ServingInv'
  BY <1>13 DEF ReadPayload, HasRoom
<1>14. ASSUME NEW c \in Conn, Forward(c) PROVE ServingInv'
  BY <1>14 DEF Forward
<1>15. ASSUME NEW c \in Conn, ReadFail(c) PROVE ServingInv'
  BY <1>15 DEF ReadFail
<1>16. ASSUME NEW c \in Conn, ExitLookup(c) PROVE ServingInv'
  <2>1. ASSUME NEW e \in Device, NEW x \in Conn, InSeat(x, e)' PROVE Serving(x, rooms[e])'
    <3>1. InSeat(x, e) /\ rooms' = rooms
      BY <1>16, <2>1 DEF ExitLookup
    <3>2. CASE x # c
      BY <1>16, <3>1, <3>2 DEF ExitLookup
    <3>3. CASE x = c
      <4>1. rooms[e] \in Room /\ rooms[e] # NoRoom /\ Held(rooms[e]) /\ Seated(c, rooms[e])
        BY <3>1, <3>3 DEF Held
      <4>2. dev[c] = e /\ role[c] # "none"
        BY <3>1, <3>3, <4>1 DEF OneDevicePerRoom, Near
      <4>3. HasRoom(c)
        BY <4>1, <4>2 DEF HasRoom
      <4>4. ref'[c] = rooms[e] /\ rp'[c] = "unreg"
        BY <1>16, <4>2, <4>3 DEF ExitLookup
      <4> QED BY <3>1, <3>3, <4>4
    <3> QED BY <3>2, <3>3
  <2> QED BY <2>1
<1>17. ASSUME NEW c \in Conn, Unregister(c) PROVE ServingInv'
  BY SMTT(30), <1>17 DEF Unregister, Reclaim, OwnsSeat, Held
<1>18. ASSUME NEW c \in Conn, Shutdown(c) PROVE ServingInv'
  BY <1>18 DEF Shutdown
<1>19. ASSUME NEW c \in Conn, WriteFrame(c) PROVE ServingInv'
  BY <1>19 DEF WriteFrame
<1>20. ASSUME NEW c \in Conn, WriteFail(c) PROVE ServingInv'
  BY <1>20 DEF WriteFail
<1>21. ASSUME NEW c \in Conn, WriteEnd(c) PROVE ServingInv'
  BY <1>21 DEF WriteEnd
<1>22. ASSUME NEW c \in Conn, PeerClose(c) PROVE ServingInv'
  BY <1>22 DEF PeerClose
<1>23. CASE UNCHANGED vars
  BY <1>23 DEF vars
<1> QED BY NextCases, <1>1, <1>2, <1>3, <1>4, <1>5, <1>6, <1>7, <1>8, <1>9, <1>10, <1>11,
    <1>12, <1>13, <1>14, <1>15, <1>16, <1>17, <1>18, <1>19, <1>20, <1>21, <1>22, <1>23

\* A connection that has a role keeps it, and its device, while it lasts.
LEMMA RoleStays ==
  ASSUME IInv, [Next]_vars, NEW x \in Conn, role[x] # "none", ~Accept(x)
  PROVE  role'[x] = role[x] /\ dev'[x] = dev[x]
<1> USE DEF IInv, Typed, ConnType, PcInv, connVars
<1>1. ASSUME NEW c \in Conn, Accept(c) PROVE (role'[x] = role[x] /\ dev'[x] = dev[x])
  BY <1>1 DEF Accept
<1>2. ASSUME NEW c \in Conn, RejectHello(c) PROVE (role'[x] = role[x] /\ dev'[x] = dev[x])
  BY <1>2 DEF RejectHello
<1>3. ASSUME NEW c \in Conn, NEW d \in Device, HelloDaemon(c, d) PROVE (role'[x] = role[x] /\ dev'[x] = dev[x])
  BY <1>3 DEF HelloDaemon
<1>4. ASSUME NEW c \in Conn, NEW d \in Device, HelloClient(c, d) PROVE (role'[x] = role[x] /\ dev'[x] = dev[x])
  BY <1>4 DEF HelloClient
<1>5. ASSUME NEW c \in Conn, RegisterDaemon(c) PROVE (role'[x] = role[x] /\ dev'[x] = dev[x])
  BY <1>5 DEF RegisterDaemon
<1>6. ASSUME NEW c \in Conn, JoinClient(c) PROVE (role'[x] = role[x] /\ dev'[x] = dev[x])
  BY <1>6 DEF JoinClient
<1>7. ASSUME NEW c \in Conn, SendAck(c) PROVE (role'[x] = role[x] /\ dev'[x] = dev[x])
  BY <1>7 DEF SendAck
<1>8. ASSUME NEW c \in Conn, ReadPing(c) PROVE (role'[x] = role[x] /\ dev'[x] = dev[x])
  BY <1>8 DEF ReadPing
<1>9. ASSUME NEW c \in Conn, ReadKick(c) PROVE (role'[x] = role[x] /\ dev'[x] = dev[x])
  BY <1>9 DEF ReadKick
<1>10. ASSUME NEW c \in Conn, KickTake(c) PROVE (role'[x] = role[x] /\ dev'[x] = dev[x])
  BY <1>10 DEF KickTake
<1>11. ASSUME NEW c \in Conn, NEW v \in Conn, KickOne(c, v) PROVE (role'[x] = role[x] /\ dev'[x] = dev[x])
  BY <1>11 DEF KickOne
<1>12. ASSUME NEW c \in Conn, KickEnd(c) PROVE (role'[x] = role[x] /\ dev'[x] = dev[x])
  BY <1>12 DEF KickEnd
<1>13. ASSUME NEW c \in Conn, ReadPayload(c) PROVE (role'[x] = role[x] /\ dev'[x] = dev[x])
  BY <1>13 DEF ReadPayload
<1>14. ASSUME NEW c \in Conn, Forward(c) PROVE (role'[x] = role[x] /\ dev'[x] = dev[x])
  BY <1>14 DEF Forward
<1>15. ASSUME NEW c \in Conn, ReadFail(c) PROVE (role'[x] = role[x] /\ dev'[x] = dev[x])
  BY <1>15 DEF ReadFail
<1>16. ASSUME NEW c \in Conn, ExitLookup(c) PROVE (role'[x] = role[x] /\ dev'[x] = dev[x])
  BY <1>16 DEF ExitLookup
<1>17. ASSUME NEW c \in Conn, Unregister(c) PROVE (role'[x] = role[x] /\ dev'[x] = dev[x])
  BY <1>17 DEF Unregister
<1>18. ASSUME NEW c \in Conn, Shutdown(c) PROVE (role'[x] = role[x] /\ dev'[x] = dev[x])
  BY <1>18 DEF Shutdown
<1>19. ASSUME NEW c \in Conn, WriteFrame(c) PROVE (role'[x] = role[x] /\ dev'[x] = dev[x])
  BY <1>19 DEF WriteFrame
<1>20. ASSUME NEW c \in Conn, WriteFail(c) PROVE (role'[x] = role[x] /\ dev'[x] = dev[x])
  BY <1>20 DEF WriteFail
<1>21. ASSUME NEW c \in Conn, WriteEnd(c) PROVE (role'[x] = role[x] /\ dev'[x] = dev[x])
  BY <1>21 DEF WriteEnd
<1>22. ASSUME NEW c \in Conn, PeerClose(c) PROVE (role'[x] = role[x] /\ dev'[x] = dev[x])
  BY <1>22 DEF PeerClose
<1>23. CASE UNCHANGED vars
  BY <1>23 DEF vars
<1> QED BY NextCases, <1>1, <1>2, <1>3, <1>4, <1>5, <1>6, <1>7, <1>8, <1>9, <1>10, <1>11,
    <1>12, <1>13, <1>14, <1>15, <1>16, <1>17, <1>18, <1>19, <1>20, <1>21, <1>22, <1>23

LEMMA IsolationStep == IInv /\ [Next]_vars => RoomIsolation'
<1> SUFFICES ASSUME IInv, [Next]_vars, NEW c \in Conn, NEW f \in FramesOf(c)', f.t = "payload"
             PROVE  f.dev = dev'[c] /\ {f.role, role'[c]} = {"daemon", "client"}
  BY DEF RoomIsolation
<1>1. FrameOrigin(c, f) /\ ~Accept(c)
  BY NewFrames
<1>2. f.dev = dev[c] /\ {f.role, role[c]} = {"daemon", "client"}
  <2>1. CASE f \in FramesOf(c)
    BY <2>1 DEF IInv, RoomIsolation
  <2>2. CASE f \notin FramesOf(c)
    <3>1. PICK k \in Conn : /\ Forward(k) /\ c \in Targets(k, ref[k]) /\ f = Payload(k)
                            /\ role[k] = "daemon" \/ daemon[ref[k]] # NoConn
      BY <1>1, <2>2 DEF FrameOrigin
    <3>2. /\ ref[k] \in Room /\ Held(ref[k]) /\ Near(k, ref[k])
          /\ role[k] \in {"daemon", "client"}
          /\ f.dev = dev[k] /\ f.role = role[k]
      BY <3>1 DEF Forward, Payload, IInv, Typed, PcInv, ConnType, Held, Near
    <3>3. Seated(c, ref[k])
      BY <3>1, <3>2 DEF Targets, Seated
    <3>4. dev[c] = dev[k]
      BY <3>2, <3>3 DEF IInv, OneDevicePerRoom, Near
    <3>5. CASE role[k] = "daemon"
      <4>1. role[c] = "client"
        BY <3>1, <3>2, <3>3, <3>5 DEF Targets, IInv, SeatInv
      <4> QED BY <3>2, <3>4, <3>5, <4>1
    <3>6. CASE role[k] = "client"
      <4>1. role[c] = "daemon"
        BY <3>1, <3>2, <3>3, <3>6 DEF Targets, IInv, SeatInv
      <4> QED BY <3>2, <3>4, <3>6, <4>1
    <3> QED BY <3>2, <3>5, <3>6
  <2> QED BY <2>1, <2>2
<1>3. role[c] # "none"
  BY <1>2
<1> QED BY <1>1, <1>2, <1>3, RoleStays

-----------------------------------------------------------------------------
(* Presence.                                                               *)

\* JoinClient fills an empty chair.
LEMMA OneViewerStep == IInv /\ [Next]_vars => OneViewer'
<1> SUFFICES ASSUME IInv, [Next]_vars PROVE OneViewer'
  OBVIOUS
<1> USE DEF IInv, Typed, HubType, OneViewer, hubVars
<1>1. ASSUME NEW c \in Conn, Accept(c) PROVE OneViewer'
  BY <1>1 DEF Accept
<1>2. ASSUME NEW c \in Conn, RejectHello(c) PROVE OneViewer'
  BY <1>2 DEF RejectHello
<1>3. ASSUME NEW c \in Conn, NEW d \in Device, HelloDaemon(c, d) PROVE OneViewer'
  BY <1>3 DEF HelloDaemon, ConnType
<1>4. ASSUME NEW c \in Conn, NEW d \in Device, HelloClient(c, d) PROVE OneViewer'
  BY <1>4 DEF HelloClient
<1>5. ASSUME NEW c \in Conn, RegisterDaemon(c) PROVE OneViewer'
  BY <1>5 DEF RegisterDaemon
<1>6. ASSUME NEW c \in Conn, JoinClient(c) PROVE OneViewer'
  BY <1>6 DEF JoinClient, ConnType
<1>7. ASSUME NEW c \in Conn, SendAck(c) PROVE OneViewer'
  BY <1>7 DEF SendAck
<1>8. ASSUME NEW c \in Conn, ReadPing(c) PROVE OneViewer'
  BY <1>8 DEF ReadPing
<1>9. ASSUME NEW c \in Conn, ReadKick(c) PROVE OneViewer'
  BY <1>9 DEF ReadKick
<1>10. ASSUME NEW c \in Conn, KickTake(c) PROVE OneViewer'
  BY <1>10 DEF KickTake, ConnType
<1>11. ASSUME NEW c \in Conn, NEW v \in Conn, KickOne(c, v) PROVE OneViewer'
  BY <1>11 DEF KickOne
<1>12. ASSUME NEW c \in Conn, KickEnd(c) PROVE OneViewer'
  BY <1>12 DEF KickEnd
<1>13. ASSUME NEW c \in Conn, ReadPayload(c) PROVE OneViewer'
  BY <1>13 DEF ReadPayload
<1>14. ASSUME NEW c \in Conn, Forward(c) PROVE OneViewer'
  BY <1>14 DEF Forward
<1>15. ASSUME NEW c \in Conn, ReadFail(c) PROVE OneViewer'
  BY <1>15 DEF ReadFail
<1>16. ASSUME NEW c \in Conn, ExitLookup(c) PROVE OneViewer'
  BY <1>16 DEF ExitLookup
<1>17. ASSUME NEW c \in Conn, Unregister(c) PROVE OneViewer'
  BY <1>17 DEF Unregister, ConnType
<1>18. ASSUME NEW c \in Conn, Shutdown(c) PROVE OneViewer'
  BY <1>18 DEF Shutdown
<1>19. ASSUME NEW c \in Conn, WriteFrame(c) PROVE OneViewer'
  BY <1>19 DEF WriteFrame
<1>20. ASSUME NEW c \in Conn, WriteFail(c) PROVE OneViewer'
  BY <1>20 DEF WriteFail
<1>21. ASSUME NEW c \in Conn, WriteEnd(c) PROVE OneViewer'
  BY <1>21 DEF WriteEnd
<1>22. ASSUME NEW c \in Conn, PeerClose(c) PROVE OneViewer'
  BY <1>22 DEF PeerClose
<1>23. CASE UNCHANGED vars
  BY <1>23 DEF vars
<1> QED BY NextCases, <1>1, <1>2, <1>3, <1>4, <1>5, <1>6, <1>7, <1>8, <1>9, <1>10, <1>11,
    <1>12, <1>13, <1>14, <1>15, <1>16, <1>17, <1>18, <1>19, <1>20, <1>21, <1>22, <1>23

\* A connection without a role had none before, unless it is new.
LEMMA EarlyStep == IInv /\ [Next]_vars => EarlyInv'
<1> SUFFICES ASSUME IInv, [Next]_vars, NEW x \in Conn, role'[x] = "none", NEW f \in FramesOf(x)'
             PROVE  ~IsNotice(f)
  BY DEF EarlyInv
<1>1. FrameOrigin(x, f) /\ ~Accept(x)
  BY NewFrames
<1>2. role[x] = "none"
  BY <1>1, RoleStays
<1>3. \A r \in Room : Held(r) => x \notin clients[r]
  BY <1>2 DEF IInv, SeatInv, Seated
<1> QED BY <1>1, <1>2, <1>3 DEF FrameOrigin, IInv, EarlyInv, IsNotice, Payload

LEMMA TellsNothing ==
  ASSUME NEW q \in Seq(Frame), NEW b \in BOOLEAN, \A i \in 1..Len(q) : ~IsNotice(q[i])
  PROVE  Tells(q, b)
BY DEF Tells

\* Another frame behind the last notice leaves it the last.
LEMMA TellsOther ==
  ASSUME NEW q \in Seq(Frame), NEW b \in BOOLEAN, NEW m \in Frame, ~IsNotice(m), Tells(q, b)
  PROVE  Tells(Append(q, m), b)
<1> DEFINE p == Append(q, m)
<1>1. /\ Len(q) \in Nat /\ Len(p) = Len(q) + 1 /\ p[Len(q) + 1] = m
      /\ \A i \in 1..Len(q) : p[i] = q[i]
  OBVIOUS
<1> HIDE DEF p
<1>2. ASSUME NEW i \in 1..Len(p), IsNotice(p[i]), \A j \in (i+1)..Len(p) : ~IsNotice(p[j])
      PROVE  (p[i].t = "online") = b
  <2>1. i \in 1..Len(q) /\ p[i] = q[i]
    BY <1>1, <1>2
  <2>2. \A j \in (i+1)..Len(q) : j \in (i+1)..Len(p) /\ p[j] = q[j]
    BY <1>1, <2>1
  <2>3. \A j \in (i+1)..Len(q) : ~IsNotice(q[j])
    BY <1>2, <2>2
  <2> QED BY <1>2, <2>1, <2>3 DEF Tells
<1>3. Tells(p, b)
  BY <1>2 DEF Tells
<1> QED BY <1>3 DEF p

\* A new notice is the last one.
LEMMA TellsNews ==
  ASSUME NEW q \in Seq(Frame), NEW m \in Frame, IsNotice(m)
  PROVE  Tells(Append(q, m), m.t = "online")
<1> DEFINE p == Append(q, m)
<1>1. Len(q) \in Nat /\ Len(p) = Len(q) + 1 /\ p[Len(q) + 1] = m
  OBVIOUS
<1> HIDE DEF p
<1>2. ASSUME NEW i \in 1..Len(p), \A j \in (i+1)..Len(p) : ~IsNotice(p[j])
      PROVE  (p[i].t = "online") = (m.t = "online")
  <2>1. i = Len(q) + 1
    <3>1. CASE i # Len(q) + 1
      <4>1. Len(q) + 1 \in (i+1)..Len(p)
        BY <1>1, <3>1
      <4> QED BY <1>1, <1>2, <4>1
    <3> QED BY <3>1
  <2> QED BY <1>1, <2>1
<1>3. Tells(p, m.t = "online")
  BY <1>2 DEF Tells
<1> QED BY <1>3 DEF p

\* The frame writePump takes out is the oldest.
LEMMA TellsTail ==
  ASSUME NEW q \in Seq(Frame), NEW b \in BOOLEAN, q # << >>, Tells(q, b)
  PROVE  Tells(Tail(q), b)
<1> DEFINE p == Tail(q)
<1>1. /\ Len(q) \in Nat /\ Len(p) = Len(q) - 1 /\ Len(p) \in Nat
      /\ \A i \in 1..Len(p) : p[i] = q[i+1]
  BY HeadTailProperties
<1> HIDE DEF p
<1>2. ASSUME NEW i \in 1..Len(p), IsNotice(p[i]), \A j \in (i+1)..Len(p) : ~IsNotice(p[j])
      PROVE  (p[i].t = "online") = b
  <2>1. i + 1 \in 1..Len(q) /\ p[i] = q[i+1]
    BY <1>1
  <2>2. \A j \in ((i+1)+1)..Len(q) : j - 1 \in (i+1)..Len(p) /\ p[j-1] = q[(j-1)+1] /\ (j-1)+1 = j
    BY <1>1
  <2>3. \A j \in ((i+1)+1)..Len(q) : ~IsNotice(q[j])
    BY <1>2, <2>2
  <2> QED BY <1>2, <2>1, <2>3 DEF Tells
<1>3. Tells(p, b)
  BY <1>2 DEF Tells
<1> QED BY <1>3 DEF p

\* Nothing but a broadcast to x changes what x was last told, and what is closed stays closed.
Calm(x, b) == (closed[x] => closed'[x]) /\ (Tells(queue[x], b) => Tells(queue'[x], b))

LEMMA SendToCalm ==
  ASSUME QueueType, NEW S, NEW m \in Frame, SendTo(S, m), NEW x \in Conn, NEW b \in BOOLEAN,
         x \in S => ~IsNotice(m)
  PROVE  Calm(x, b)
<1>1. queue[x] \in Seq(Frame)
  BY DEF QueueType
<1>2. CASE x \in S /\ ~Full(x)
  BY <1>1, <1>2, TellsOther DEF SendTo, Calm
<1>3. CASE ~(x \in S /\ ~Full(x))
  BY <1>3 DEF SendTo, Calm
<1> QED BY <1>2, <1>3

LEMMA StaysCalm ==
  ASSUME IInv, [Next]_vars, NEW x \in Conn, NEW b \in BOOLEAN, ~Accept(x),
         \A c \in Conn : RegisterDaemon(c) \/ Unregister(c) => x \notin clients[ref[c]]
  PROVE  Calm(x, b)
<1>0. QueueType /\ ConnType
  BY DEF IInv, Typed
<1>a. SendNothing => Calm(x, b)
  BY DEF SendNothing, Calm
<1>b. \A S : SendTo(S, Control("reply")) => Calm(x, b)
  BY <1>0, SendToCalm, FrameType DEF IsNotice, Control
<1>c. ASSUME NEW r, NEW t \in {"online", "offline"}, x \notin clients[r], Broadcast(r, t)
      PROVE  Calm(x, b)
  BY <1>0, <1>c, SendToCalm, FrameType DEF Broadcast
<1>d. ASSUME NEW c \in Conn, queue[c] # << >>, queue' = [queue EXCEPT ![c] = Tail(@)],
             closed[x] => closed'[x]
      PROVE  Calm(x, b)
  BY <1>0, <1>d, TellsTail DEF QueueType, Calm
<1> USE <1>0, <1>a
<1>1. ASSUME NEW c \in Conn, Accept(c) PROVE Calm(x, b)
  BY <1>1 DEF Accept, QueueType, Calm
<1>2. ASSUME NEW c \in Conn, RejectHello(c) PROVE Calm(x, b)
  BY <1>2 DEF RejectHello
<1>3. ASSUME NEW c \in Conn, NEW d \in Device, HelloDaemon(c, d) PROVE Calm(x, b)
  BY <1>3 DEF HelloDaemon
<1>4. ASSUME NEW c \in Conn, NEW d \in Device, HelloClient(c, d) PROVE Calm(x, b)
  BY <1>4 DEF HelloClient
<1>5. ASSUME NEW c \in Conn, RegisterDaemon(c) PROVE Calm(x, b)
  BY <1>5, <1>c DEF RegisterDaemon
<1>6. ASSUME NEW c \in Conn, JoinClient(c) PROVE Calm(x, b)
  BY <1>6 DEF JoinClient
<1>7. ASSUME NEW c \in Conn, SendAck(c) PROVE Calm(x, b)
  BY <1>7, <1>b DEF SendAck
<1>8. ASSUME NEW c \in Conn, ReadPing(c) PROVE Calm(x, b)
  BY <1>8, <1>b DEF ReadPing
<1>9. ASSUME NEW c \in Conn, ReadKick(c) PROVE Calm(x, b)
  BY <1>9 DEF ReadKick
<1>10. ASSUME NEW c \in Conn, KickTake(c) PROVE Calm(x, b)
  BY <1>10 DEF KickTake
<1>11. ASSUME NEW c \in Conn, NEW v \in Conn, KickOne(c, v) PROVE Calm(x, b)
  <2>1. CASE closed[v]
    BY <1>11, <2>1 DEF KickOne
  <2>2. CASE ~closed[v]
    <3>1. Control("kicked") \in Frame /\ ~IsNotice(Control("kicked"))
      BY FrameType DEF Control, IsNotice
    <3>2. closed[x] => closed'[x]
      BY <1>11, <2>2 DEF KickOne, QueueType
    <3>3. queue'[x] = queue[x] \/ queue'[x] = Append(queue[x], Control("kicked"))
      BY <1>11, <2>2 DEF KickOne, QueueType
    <3>4. queue[x] \in Seq(Frame)
      BY DEF QueueType
    <3>5. Tells(queue[x], b) => Tells(queue'[x], b)
      BY <3>1, <3>3, <3>4, TellsOther
    <3> QED BY <3>2, <3>5 DEF Calm
  <2> QED BY <2>1, <2>2
<1>12. ASSUME NEW c \in Conn, KickEnd(c) PROVE Calm(x, b)
  BY <1>12 DEF KickEnd
<1>13. ASSUME NEW c \in Conn, ReadPayload(c) PROVE Calm(x, b)
  BY <1>13 DEF ReadPayload
<1>14. ASSUME NEW c \in Conn, Forward(c) PROVE Calm(x, b)
  <2>1. CASE role[c] # "daemon" /\ daemon[ref[c]] = NoConn
    BY <1>14, <2>1, <1>b DEF Forward
  <2>2. CASE ~(role[c] # "daemon" /\ daemon[ref[c]] = NoConn)
    <3>1. SendNothing \/ SendTo(Targets(c, ref[c]), Payload(c))
      BY <1>14, <2>2 DEF Forward
    <3>2. Payload(c) \in Frame /\ ~IsNotice(Payload(c))
      BY FrameType DEF Payload, IsNotice
    <3> QED BY <3>1, <3>2, SendToCalm
  <2> QED BY <2>1, <2>2
<1>15. ASSUME NEW c \in Conn, ReadFail(c) PROVE Calm(x, b)
  BY <1>15 DEF ReadFail
<1>16. ASSUME NEW c \in Conn, ExitLookup(c) PROVE Calm(x, b)
  BY <1>16 DEF ExitLookup
<1>17. ASSUME NEW c \in Conn, Unregister(c) PROVE Calm(x, b)
  BY <1>17, <1>c DEF Unregister
<1>18. ASSUME NEW c \in Conn, Shutdown(c) PROVE Calm(x, b)
  BY <1>18 DEF Shutdown, QueueType, Calm
<1>19. ASSUME NEW c \in Conn, WriteFrame(c) PROVE Calm(x, b)
  BY <1>19, <1>d DEF WriteFrame
<1>20. ASSUME NEW c \in Conn, WriteFail(c) PROVE Calm(x, b)
  BY <1>20, <1>d DEF WriteFail, QueueType
<1>21. ASSUME NEW c \in Conn, WriteEnd(c) PROVE Calm(x, b)
  BY <1>21 DEF WriteEnd, SendNothing
<1>22. ASSUME NEW c \in Conn, PeerClose(c) PROVE Calm(x, b)
  BY <1>22 DEF PeerClose, SendNothing
<1>23. CASE UNCHANGED vars
  BY <1>23 DEF vars, SendNothing
<1> QED BY NextCases, <1>1, <1>2, <1>3, <1>4, <1>5, <1>6, <1>7, <1>8, <1>9, <1>10, <1>11,
    <1>12, <1>13, <1>14, <1>15, <1>16, <1>17, <1>18, <1>19, <1>20, <1>21, <1>22, <1>23

\* The steps that change rooms and seats.
LEMMA HubMoves ==
  ASSUME [Next]_vars
  PROVE  \/ UNCHANGED hubVars
         \/ \E c \in Conn : \/ \E d \in Device : HelloDaemon(c, d)
                            \/ RegisterDaemon(c) \/ JoinClient(c) \/ KickTake(c) \/ Unregister(c)
<1>1. CASE UNCHANGED vars
  BY <1>1 DEF vars, hubVars
<1>2. CASE Next
  BY ZenonT(30), <1>2, NextCases
     DEF hubVars, Accept, RejectHello, HelloClient, SendAck, ReadPing, ReadKick, ReadPayload, Forward,
         KickEnd, KickOne, ReadFail, ExitLookup, Shutdown, WriteFrame, WriteFail, WriteEnd, PeerClose
<1> QED BY <1>1, <1>2

\* A broadcast that reaches x is about the room x sits in.
Reached(x) == \E c \in Conn : (RegisterDaemon(c) \/ Unregister(c)) /\ x \in clients[ref[c]]

\* Away from the broadcasts, a viewer of a reachable room has just joined it or was there
\* before, with the daemon's seat as it is.
LEMMA SeatsCalm ==
  ASSUME IInv, [Next]_vars, NEW d \in Device, NEW x \in Conn, ~Reached(x),
         rooms'[d] # NoRoom, x \in clients'[rooms'[d]]
  PROVE  \/ JoinClient(x) /\ rooms' = rooms /\ ref[x] = rooms[d]
         \/ /\ rooms'[d] = rooms[d] /\ rooms[d] # NoRoom /\ x \in clients[rooms[d]]
            /\ (daemon'[rooms[d]] # NoConn) = (daemon[rooms[d]] # NoConn)
<1> USE NoneAssumption DEF IInv, Typed, HubType, ConnType
<1>1. CASE UNCHANGED hubVars
  BY <1>1 DEF hubVars
<1>2. ASSUME NEW c \in Conn, NEW e \in Device, HelloDaemon(c, e)
      PROVE  /\ rooms'[d] = rooms[d] /\ rooms[d] # NoRoom /\ x \in clients[rooms[d]]
             /\ daemon'[rooms[d]] = daemon[rooms[d]]
  <2>1. CASE UNCHANGED hubVars
    BY <2>1 DEF hubVars
  <2>2. CASE ~(UNCHANGED hubVars)
    <3>1. PICK q \in Room : /\ ~Held(q) /\ rooms' = [rooms EXCEPT ![e] = q]
                            /\ daemon' = [daemon EXCEPT ![q] = NoConn]
                            /\ clients' = [clients EXCEPT ![q] = {}]
      BY <1>2, <2>2 DEF HelloDaemon
    <3>2. rooms'[d] # q
      BY <3>1
    <3> QED BY <3>1, <3>2 DEF Held
  <2> QED BY <2>1, <2>2
<1>3. ASSUME NEW c \in Conn, RegisterDaemon(c)
      PROVE  /\ rooms'[d] = rooms[d] /\ x \in clients[rooms[d]]
             /\ daemon'[rooms[d]] = daemon[rooms[d]]
  BY <1>3 DEF RegisterDaemon, Reached
<1>4. ASSUME NEW c \in Conn, JoinClient(c)
      PROVE  /\ rooms' = rooms /\ daemon' = daemon
             /\ x \in clients[rooms[d]] \/ (x = c /\ ref[x] = rooms[d])
  BY <1>4 DEF JoinClient
<1>5. ASSUME NEW c \in Conn, KickTake(c)
      PROVE  rooms' = rooms /\ daemon' = daemon /\ x \in clients[rooms[d]]
  BY <1>5 DEF KickTake
<1>6. ASSUME NEW c \in Conn, Unregister(c)
      PROVE  /\ rooms'[d] = rooms[d] /\ rooms[d] # NoRoom /\ x \in clients[rooms[d]]
             /\ daemon'[rooms[d]] = daemon[rooms[d]]
  <2>1. rooms'[d] = rooms[d]
    BY <1>6 DEF Unregister, Reclaim
  <2>2. x \in clients[rooms[d]]
    BY <1>6, <2>1 DEF Unregister
  <2> QED BY <1>6, <2>1, <2>2 DEF Unregister, Reached
<1> QED BY HubMoves, <1>1, <1>2, <1>3, <1>4, <1>5, <1>6

\* A broadcast is the last frame of every queue it goes into, and it tells what is now so.
LEMMA NewsIsTrue ==
  ASSUME IInv, [Next]_vars, NEW d \in Device, NEW x \in Conn, Reached(x),
         rooms'[d] # NoRoom, x \in clients'[rooms'[d]], ~closed'[x]
  PROVE  Tells(queue'[x], daemon'[rooms'[d]] # NoConn)
<1>1. PICK c \in Conn : (RegisterDaemon(c) \/ Unregister(c)) /\ x \in clients[ref[c]]
  BY DEF Reached
<1> DEFINE r == ref[c]
<1>2. /\ r \in Room /\ Held(r) /\ x \in clients[r]
      /\ queue[x] \in Seq(Frame) /\ closed[x] \in BOOLEAN
  BY <1>1 DEF RegisterDaemon, Unregister, IInv, Typed, PcInv, ConnType, QueueType, Held
<1>3. rooms'[d] = rooms[d] /\ rooms[d] \in Room /\ Held(rooms[d]) /\ x \in clients[rooms[d]]
  <2>1. rooms'[d] = rooms[d]
    BY <1>1, NoneAssumption DEF RegisterDaemon, Unregister, Reclaim, IInv, Typed, HubType, ConnType
  <2>2. x \in clients[rooms[d]]
    BY <1>1, <2>1 DEF RegisterDaemon, Unregister, IInv, Typed, HubType, ConnType
  <2> QED BY <2>1, <2>2, NoneAssumption DEF Held, IInv, Typed, HubType
<1>4. rooms[d] = r
  BY <1>2, <1>3 DEF IInv, SeatInv, Seated
<1>5. \A y \in clients[r] : y = x
  BY <1>2 DEF IInv, OneViewer
<1>6. Panics(clients[r]) => closed[x]
  BY <1>5 DEF Panics
<1>7. ASSUME NEW t \in {"online", "offline"}, Broadcast(r, t)
      PROVE  Tells(queue'[x], t = "online")
  <2>1. ~Full(x) /\ queue'[x] = Append(queue[x], Control(t))
    BY <1>2, <1>7 DEF Broadcast, SendTo, IInv, Typed, QueueType
  <2>2. Control(t) \in Frame /\ IsNotice(Control(t)) /\ Control(t).t = t
    BY FrameType DEF IsNotice, Control, IInv, Typed
  <2> QED BY <1>2, <2>1, <2>2, TellsNews
<1>8. CASE daemon' = daemon /\ SendNothing
  <2>1. closed' = closed /\ queue' = queue
    BY <1>8 DEF SendNothing
  <2> QED BY <1>3, <1>8, <2>1, NoneAssumption DEF IInv, PresenceInv, Reachable
<1>9. CASE RegisterDaemon(c)
  <2>1. daemon[r] = NoConn => daemon'[r] # NoConn
    BY <1>2, <1>9, NoneAssumption DEF RegisterDaemon, IInv, Typed, HubType
  <2>2. daemon[r] # NoConn => daemon' = daemon /\ SendNothing
    BY <1>9 DEF RegisterDaemon
  <2>3. daemon[r] = NoConn => Broadcast(r, "online") \/ (Panics(clients[r]) /\ SendNothing)
    BY <1>9 DEF RegisterDaemon
  <2>4. SendNothing => closed'[x] = closed[x]
    BY DEF SendNothing
  <2>5. CASE daemon[r] = NoConn
    <3>1. Broadcast(r, "online")
      BY <1>6, <2>3, <2>4, <2>5
    <3>2. Tells(queue'[x], TRUE)
      BY <1>7, <3>1
    <3>3. (daemon'[rooms'[d]] # NoConn) = TRUE
      BY <1>3, <1>4, <2>1, <2>5
    <3> QED BY <3>2, <3>3
  <2> QED BY <1>8, <2>2, <2>5
<1>10. CASE Unregister(c)
  <2>1. OwnsSeat(c, r) => daemon'[r] = NoConn
    BY <1>2, <1>10 DEF Unregister, IInv, Typed, HubType
  <2>2. ~OwnsSeat(c, r) => daemon' = daemon /\ SendNothing
    BY <1>10 DEF Unregister
  <2>3. OwnsSeat(c, r) => Broadcast(r, "offline") \/ (Panics(clients[r]) /\ SendNothing)
    BY <1>10 DEF Unregister
  <2>4. SendNothing => closed'[x] = closed[x]
    BY DEF SendNothing
  <2>5. CASE OwnsSeat(c, r)
    <3>1. Broadcast(r, "offline")
      BY <1>6, <2>3, <2>4, <2>5
    <3>2. Tells(queue'[x], FALSE)
      BY <1>7, <3>1
    <3>3. (daemon'[rooms'[d]] # NoConn) = FALSE
      BY <1>3, <1>4, <2>1, <2>5
    <3> QED BY <3>2, <3>3
  <2> QED BY <1>8, <2>2, <2>5
<1> QED BY <1>1, <1>9, <1>10

LEMMA PresenceStep == IInv /\ [Next]_vars => PresenceInv'
<1> SUFFICES ASSUME IInv, [Next]_vars, NEW d \in Device, NEW x \in Conn,
                    rooms'[d] # NoRoom, x \in clients'[rooms'[d]], ~closed'[x]
             PROVE  Tells(queue'[x], daemon'[rooms'[d]] # NoConn)
  BY DEF PresenceInv, Reachable
<1>1. CASE Reached(x)
  BY <1>1, NewsIsTrue
<1>2. CASE ~Reached(x)
  <2>1. CASE JoinClient(x) /\ rooms' = rooms /\ ref[x] = rooms[d]
    <3>1. role[x] = "none" /\ queue'[x] = queue[x] /\ queue[x] \in Seq(Frame)
      BY <2>1 DEF JoinClient, SendNothing, IInv, Typed, PcInv, QueueType
    <3>2. \A i \in 1..Len(queue[x]) : ~IsNotice(queue[x][i])
      BY <3>1 DEF IInv, EarlyInv, FramesOf
    <3> QED BY <3>1, <3>2, TellsNothing
  <2>2. CASE /\ rooms'[d] = rooms[d] /\ rooms[d] # NoRoom /\ x \in clients[rooms[d]]
             /\ (daemon'[rooms[d]] # NoConn) = (daemon[rooms[d]] # NoConn)
    <3>1. rooms[d] \in Room /\ Held(rooms[d]) /\ Seated(x, rooms[d])
      BY <2>2 DEF IInv, Typed, HubType, Held, Seated
    <3>2. ~Accept(x)
      BY <3>1 DEF Accept
    <3>3. Calm(x, daemon[rooms[d]] # NoConn)
      BY <1>2, <3>2, StaysCalm DEF Reached
    <3>4. ~closed[x]
      BY <3>3 DEF Calm
    <3>5. Tells(queue[x], daemon[rooms[d]] # NoConn)
      BY <2>2, <3>4 DEF IInv, PresenceInv, Reachable
    <3> QED BY <2>2, <3>3, <3>5 DEF Calm
  <2> QED BY <1>2, <2>1, <2>2, SeatsCalm
<1> QED BY <1>1, <1>2

-----------------------------------------------------------------------------
(* The theorems.                                                           *)

LEMMA InitIInv == Init => IInv
<1> SUFFICES ASSUME Init PROVE IInv
  OBVIOUS
<1>1. Typed
  BY InitTyped
<1>2. \A r \in Room, c \in Conn : ~Seated(c, r)
  BY NoneAssumption DEF Init, Seated
<1>3. \A d \in Device : rooms[d] = NoRoom
  BY DEF Init
<1>4. \A c \in Conn : FramesOf(c) = {} /\ victims[c] = {} /\ ref[c] = NoRoom
  <2>1. \A c \in Conn : queue[c] = << >> /\ victims[c] = {} /\ ref[c] = NoRoom
    BY DEF Init
  <2>2. Len(<< >>) = 0 /\ 1..0 = {}
    OBVIOUS
  <2> QED BY <2>1, <2>2 DEF FramesOf
<1>5. \A r \in Room : ~Held(r) /\ clients[r] = {}
  BY <1>3, <1>4, NoneAssumption DEF Init, Held
<1> QED
  BY <1>1, <1>2, <1>3, <1>4, <1>5
     DEF IInv, Keyed, OneDevicePerRoom, SeatInv, VictimInv, NoticeInv, ServingInv, RoomIsolation,
         InSeat, Reachable, OneViewer, EarlyInv, PresenceInv

LEMMA IInvStep == IInv /\ [Next]_vars => IInv'
<1>1. IInv => Typed
  BY DEF IInv
<1> QED
  BY <1>1, TypedStep, KeyedStep, DeviceStep, SeatStep, VictimStep, NoticeStep, ServingStep,
     IsolationStep, OneViewerStep, EarlyStep, PresenceStep DEF IInv

\* No reachable room is held by a connection that will not give the seat back, for any
\* number of connections, devices and rooms.
THEOREM NoGhostSeats == Spec => []NoGhostSeat
<1>1. IInv => NoGhostSeat
  <2> SUFFICES ASSUME IInv, NEW d \in Device, NEW c \in Conn, InSeat(c, d)
               PROVE  /\ dev[c] = d
                      /\ daemon[rooms[d]] = c => role[c] = "daemon"
                      /\ c \in clients[rooms[d]] => role[c] = "client"
                      /\ Serving(c, rooms[d])
    BY DEF NoGhostSeat, Serving
  <2>1. rooms[d] \in Room /\ rooms[d] # NoRoom /\ Held(rooms[d]) /\ Seated(c, rooms[d])
    BY DEF InSeat, Reachable, IInv, Typed, HubType, Held
  <2>2. dev[c] = d
    BY <2>1 DEF IInv, OneDevicePerRoom, Near
  <2>3. Serving(c, rooms[d])
    BY DEF IInv, ServingInv
  <2> QED BY <2>1, <2>2, <2>3 DEF IInv, SeatInv
<1> QED BY <1>1, InitIInv, IInvStep, PTL DEF Spec

\* Payloads stay between the daemon and the viewer of one device.
THEOREM Isolation == Spec => []RoomIsolation
<1>1. IInv => RoomIsolation
  BY DEF IInv
<1> QED BY <1>1, InitIInv, IInvStep, PTL DEF Spec

\* A viewer that is being kicked, or has the notice, holds no seat.
THEOREM KickedAreOut == Spec => []KickedIsOut
<1>1. IInv => KickedIsOut
  <2> SUFFICES ASSUME IInv, NEW d \in Device, NEW v \in Conn, InSeat(v, d)
               PROVE  /\ \A k \in Conn : v \notin victims[k]
                      /\ \A f \in FramesOf(v) : f.t # "kicked"
    BY DEF KickedIsOut
  <2>1. ~Ousted(v)
    BY DEF InSeat, Reachable, IInv, Typed, HubType, Held, Ousted
  <2> QED BY <2>1 DEF IInv, VictimInv, NoticeInv
<1> QED BY <1>1, InitIInv, IInvStep, PTL DEF Spec

\* What a seated viewer was last told of the daemon is so.
THEOREM PresenceIsInStep == Spec => []PresenceInStep
<1>1. IInv => PresenceInStep
  <2> SUFFICES ASSUME IInv, NEW d \in Device, NEW c \in Conn, NEW i \in 1..Len(queue[c]),
                      Reachable(d), c \in clients[rooms[d]], ~closed[c], IsNotice(queue[c][i]),
                      \A j \in (i+1)..Len(queue[c]) : ~IsNotice(queue[c][j])
               PROVE  (queue[c][i].t = "online") = (daemon[rooms[d]] # NoConn)
    BY DEF PresenceInStep, IsNotice
  <2>1. Tells(queue[c], daemon[rooms[d]] # NoConn)
    BY DEF IInv, PresenceInv
  <2> QED BY <2>1 DEF Tells
<1> QED BY <1>1, InitIInv, IInvStep, PTL DEF Spec

\* A seat is lost to its holder's own unregister or to a kick by the device's daemon.
THEOREM SeatsAreKept == Spec => SeatLostOnlyByOwnerOrKick
<1> DEFINE Lost(d, c) == InSeat(c, d) /\ daemon'[rooms[d]] # c /\ c \notin clients'[rooms[d]]
           Excused(d, c) == \/ rp[c] = "unreg" /\ rp'[c] # "unreg"
                            \/ c \in clients[rooms[d]] /\ \E k \in Conn :
                                 /\ rp[k] = "kick" /\ rp'[k] = "kicking"
                                 /\ role[k] = "daemon" /\ dev[k] = d
<1>1. ASSUME IInv, [Next]_vars, NEW e \in Device, NEW x \in Conn, Lost(e, x) PROVE Excused(e, x)
  <2>0. /\ rooms[e] \in Room /\ rooms[e] # NoRoom /\ Held(rooms[e]) /\ Seated(x, rooms[e])
        /\ daemon'[rooms[e]] # x /\ x \notin clients'[rooms[e]]
    BY <1>1 DEF InSeat, Reachable, IInv, Typed, HubType, Held
  <2>t. HubType /\ ConnType /\ PcInv /\ OneDevicePerRoom
    BY <1>1 DEF IInv, Typed
  <2>1. ASSUME NEW c \in Conn, Accept(c) PROVE Excused(e, x)
    BY <2>0, <2>t, <2>1, NoneAssumption DEF Accept, hubVars, Seated
  <2>2. ASSUME NEW c \in Conn, RejectHello(c) PROVE Excused(e, x)
    BY <2>0, <2>t, <2>2, NoneAssumption DEF RejectHello, hubVars, Seated
  <2>3. ASSUME NEW c \in Conn, NEW d \in Device, HelloDaemon(c, d) PROVE Excused(e, x)
    BY <2>0, <2>t, <2>3, NoneAssumption DEF HelloDaemon, hubVars, Seated, HubType
  <2>4. ASSUME NEW c \in Conn, NEW d \in Device, HelloClient(c, d) PROVE Excused(e, x)
    BY <2>0, <2>t, <2>4, NoneAssumption DEF HelloClient, hubVars, Seated
  <2>5. ASSUME NEW c \in Conn, RegisterDaemon(c) PROVE Excused(e, x)
    BY <2>0, <2>t, <2>5, NoneAssumption DEF RegisterDaemon, hubVars, Seated, HubType, ConnType, PcInv
  <2>6. ASSUME NEW c \in Conn, JoinClient(c) PROVE Excused(e, x)
    BY <2>0, <2>t, <2>6, NoneAssumption DEF JoinClient, hubVars, Seated, HubType
  <2>7. ASSUME NEW c \in Conn, SendAck(c) PROVE Excused(e, x)
    BY <2>0, <2>t, <2>7, NoneAssumption DEF SendAck, hubVars, Seated
  <2>8. ASSUME NEW c \in Conn, ReadPing(c) PROVE Excused(e, x)
    BY <2>0, <2>t, <2>8, NoneAssumption DEF ReadPing, hubVars, Seated
  <2>9. ASSUME NEW c \in Conn, ReadKick(c) PROVE Excused(e, x)
    BY <2>0, <2>t, <2>9, NoneAssumption DEF ReadKick, hubVars, Seated
  <2>10. ASSUME NEW c \in Conn, KickTake(c) PROVE Excused(e, x)
    <3>1. ref[c] = rooms[e] /\ x \in clients[rooms[e]]
      BY <2>0, <2>t, <2>10 DEF KickTake, Seated, HubType
    <3>2. role[c] = "daemon" /\ dev[c] = e
      BY <2>0, <2>t, <2>10, <3>1 DEF KickTake, PcInv, OneDevicePerRoom, Near
    <3>3. rp[c] = "kick" /\ rp'[c] = "kicking"
      BY <2>10, <2>t DEF KickTake, Goto, ConnType
    <3> QED BY <3>1, <3>2, <3>3
  <2>11. ASSUME NEW c \in Conn, NEW v \in Conn, KickOne(c, v) PROVE Excused(e, x)
    BY <2>0, <2>t, <2>11, NoneAssumption DEF KickOne, hubVars, Seated
  <2>12. ASSUME NEW c \in Conn, KickEnd(c) PROVE Excused(e, x)
    BY <2>0, <2>t, <2>12, NoneAssumption DEF KickEnd, hubVars, Seated
  <2>13. ASSUME NEW c \in Conn, ReadPayload(c) PROVE Excused(e, x)
    BY <2>0, <2>t, <2>13, NoneAssumption DEF ReadPayload, hubVars, Seated
  <2>14. ASSUME NEW c \in Conn, Forward(c) PROVE Excused(e, x)
    BY <2>0, <2>t, <2>14, NoneAssumption DEF Forward, hubVars, Seated
  <2>15. ASSUME NEW c \in Conn, ReadFail(c) PROVE Excused(e, x)
    BY <2>0, <2>t, <2>15, NoneAssumption DEF ReadFail, hubVars, Seated
  <2>16. ASSUME NEW c \in Conn, ExitLookup(c) PROVE Excused(e, x)
    BY <2>0, <2>t, <2>16, NoneAssumption DEF ExitLookup, hubVars, Seated
  <2>17. ASSUME NEW c \in Conn, Unregister(c) PROVE Excused(e, x)
    BY <2>0, <2>t, <2>17 DEF Unregister, OwnsSeat, Goto, Seated, HubType, ConnType
  <2>18. ASSUME NEW c \in Conn, Shutdown(c) PROVE Excused(e, x)
    BY <2>0, <2>t, <2>18, NoneAssumption DEF Shutdown, hubVars, Seated
  <2>19. ASSUME NEW c \in Conn, WriteFrame(c) PROVE Excused(e, x)
    BY <2>0, <2>t, <2>19, NoneAssumption DEF WriteFrame, hubVars, Seated
  <2>20. ASSUME NEW c \in Conn, WriteFail(c) PROVE Excused(e, x)
    BY <2>0, <2>t, <2>20, NoneAssumption DEF WriteFail, hubVars, Seated
  <2>21. ASSUME NEW c \in Conn, WriteEnd(c) PROVE Excused(e, x)
    BY <2>0, <2>t, <2>21, NoneAssumption DEF WriteEnd, hubVars, Seated
  <2>22. ASSUME NEW c \in Conn, PeerClose(c) PROVE Excused(e, x)
    BY <2>0, <2>t, <2>22, NoneAssumption DEF PeerClose, hubVars, Seated
  <2>23. CASE UNCHANGED vars
    BY <2>0, <2>t, <2>23 DEF vars, Seated
  <2> HIDE DEF Excused, Lost
  <2> QED BY <1>1, NextCases, <2>1, <2>2, <2>3, <2>4, <2>5, <2>6, <2>7, <2>8, <2>9, <2>10, <2>11,
      <2>12, <2>13, <2>14, <2>15, <2>16, <2>17, <2>18, <2>19, <2>20, <2>21, <2>22, <2>23
<1>2. IInv /\ [Next]_vars => [\A d \in Device, c \in Conn : Lost(d, c) => Excused(d, c)]_vars
  BY <1>1
<1> QED BY <1>2, InitIInv, IInvStep, PTL DEF Spec, SeatLostOnlyByOwnerOrKick
=============================================================================
