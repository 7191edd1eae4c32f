------------------------------ MODULE RelayHub ------------------------------
(***************************************************************************)
(* The relay of remoteAgent (relay/hub.go, relay/main.go): one room object *)
(* per device, one daemon and at most one viewer in a room, two goroutines *)
(* per WebSocket connection.                                               *)
(*                                                                         *)
(*  - readPump reads the socket, runs the handshake, and calls the hub.    *)
(*    Its control point is rp[c].  A section under room.mu is one action;  *)
(*    the look-up of the room under hub.mu is an action of its own,        *)
(*    because the code releases hub.mu before it takes room.mu, and ref[c] *)
(*    is the room pointer the goroutine carries from one to the other.     *)
(*  - writePump drains the send channel into the socket.                   *)
(*                                                                         *)
(* A send on a closed Go channel panics.  The panic unwinds readPump into  *)
(* its deferred clean-up (rp = "exit"); a panic inside the clean-up itself *)
(* ends the goroutine with the rest of the clean-up not done ("dead").     *)
(***************************************************************************)
EXTENDS Naturals, Sequences

CONSTANTS Conn,      \* connection objects (a finished one stands for a later one)
          Device,    \* device ids, the keys of hub.rooms
          Room,      \* room objects (an unreachable one is collected and reused)
          Cap,       \* capacity of a send channel (sendQueue = 64 in the code)
          NoConn,    \* nil *conn
          NoRoom,    \* no entry in hub.rooms, no room pointer held
          NoDevice   \* the empty deviceId

ASSUME CapAssumption  == Cap \in Nat \ {0}
ASSUME NoneAssumption == NoConn \notin Conn /\ NoRoom \notin Room /\ NoDevice \notin Device

VARIABLES rooms,     \* hub.rooms
          daemon,    \* room.daemon
          clients,   \* room.clients
          dev,       \* the deviceId of the hello (conn.deviceID once role is set)
          role,      \* conn.role; "none" while conn.deviceID and conn.role are empty
          queue,     \* contents of the channel conn.send
          closed,    \* close(conn.send) has run (conn.closeOnce)
          rp,        \* control point of readPump
          ref,       \* the local variable r of the hub call in progress
          victims,   \* the local slice of kickClients
          wp,        \* writePump: "run" or "done"
          sock       \* the TCP connection: "open", or "closed" by either end

hubVars  == <<rooms, daemon, clients>>
connVars == <<dev, role, ref, victims>>
vars     == <<rooms, daemon, clients, dev, role, queue, closed, rp, ref, victims, wp, sock>>

-----------------------------------------------------------------------------
(* Frames.  "reply" stands for what a connection's own readPump sends it   *)
(* (hello_ack, an error, pong); a payload is stamped with its sender.      *)

Control(k)   == [t |-> k, dev |-> NoDevice, role |-> "none"]
Payload(c)   == [t |-> "payload", dev |-> dev[c], role |-> role[c]]

Frame == [t : {"reply", "kicked", "online", "offline", "payload"},
          dev : Device \cup {NoDevice}, role : {"none", "daemon", "client"}]

RpState == {"hello", "reg", "join", "ackOk", "ackErr", "loop", "fwd", "kick",
            "kicking", "exit", "unreg", "shut", "done", "dead"}

TypeOK ==
  /\ rooms   \in [Device -> Room \cup {NoRoom}]
  /\ daemon  \in [Room -> Conn \cup {NoConn}]
  /\ clients \in [Room -> SUBSET Conn]
  /\ dev     \in [Conn -> Device \cup {NoDevice}]
  /\ role    \in [Conn -> {"none", "daemon", "client"}]
  /\ queue   \in [Conn -> Seq(Frame)]
  /\ \A c \in Conn : Len(queue[c]) <= Cap
  /\ closed  \in [Conn -> BOOLEAN]
  /\ rp      \in [Conn -> RpState]
  /\ ref     \in [Conn -> Room \cup {NoRoom}]
  /\ victims \in [Conn -> SUBSET Conn]
  /\ wp      \in [Conn -> {"run", "done"}]
  /\ sock    \in [Conn -> {"open", "closed"}]

Init ==
  /\ rooms   = [d \in Device |-> NoRoom]
  /\ daemon  = [r \in Room |-> NoConn]
  /\ clients = [r \in Room |-> {}]
  /\ dev     = [c \in Conn |-> NoDevice]
  /\ role    = [c \in Conn |-> "none"]
  /\ queue   = [c \in Conn |-> << >>]
  /\ closed  = [c \in Conn |-> TRUE]
  /\ rp      = [c \in Conn |-> "done"]
  /\ ref     = [c \in Conn |-> NoRoom]
  /\ victims = [c \in Conn |-> {}]
  /\ wp      = [c \in Conn |-> "done"]
  /\ sock    = [c \in Conn |-> "closed"]

-----------------------------------------------------------------------------
(* conn.sendMsg to every connection of S, a set of at most one in every    *)
(* use: it panics when the channel is closed, kicks the receiver when the  *)
(* channel is full, and appends otherwise.                                 *)
(*                                                                         *)
(* Here and below, a definition of its own just before another one, such   *)
(* as FullTooLate before Full, is a plausible mistake in that place: a run *)
(* with it in the other's stead shows that the properties notice.          *)

FullTooLate(c) == Len(queue[c]) > Cap
Full(c)   == Len(queue[c]) >= Cap
Panics(S) == \E x \in S : closed[x]

SendTo(S, m) ==
  /\ queue'  = [x \in Conn |-> IF x \in S /\ ~Full(x) THEN Append(queue[x], m) ELSE queue[x]]
  /\ closed' = [x \in Conn |-> closed[x] \/ (x \in S /\ Full(x))]

SendNothing == UNCHANGED <<queue, closed>>

\* broadcastToClients, under room.mu.
BroadcastOfflineOnly(r, k) ==
  IF k = "offline" THEN SendTo(clients[r], Control(k)) ELSE SendNothing
Broadcast(r, k) == SendTo(clients[r], Control(k))

Goto(c, p) == rp' = [rp EXCEPT ![c] = p]
Hold(c, r) == ref' = [ref EXCEPT ![c] = r]

\* A room object that hub.rooms or a running hub call can still reach.
Held(r)      == \/ \E d \in Device : rooms[d] = r
                \/ \E c \in Conn : ref[c] = r
Seated(c, r) == daemon[r] = c \/ c \in clients[r]

\* hub.rooms[c.deviceID] is there; the deviceID of an unregistered connection is empty.
HasRoom(c) == role[c] # "none" /\ rooms[dev[c]] # NoRoom

-----------------------------------------------------------------------------
(* The handshake.                                                          *)

\* handleWS: upgrade, make the send channel, start both pumps.
Accept(c) ==
  /\ rp[c] = "dead" \/ (rp[c] = "done" /\ wp[c] = "done")
  /\ sock[c] = "closed"
  /\ \A r \in Room : Held(r) => ~Seated(c, r)
  /\ \A k \in Conn : c \notin victims[k]
  /\ Goto(c, "hello")
  /\ dev'    = [dev EXCEPT ![c] = NoDevice]
  /\ role'   = [role EXCEPT ![c] = "none"]
  /\ queue'  = [queue EXCEPT ![c] = << >>]
  /\ closed' = [closed EXCEPT ![c] = FALSE]
  /\ wp'     = [wp EXCEPT ![c] = "run"]
  /\ sock'   = [sock EXCEPT ![c] = "open"]
  /\ UNCHANGED <<hubVars, ref, victims>>

\* A hello that is malformed, of another version, without deviceId or token, of
\* an unknown role, or (registerDaemon) with the wrong relay key.
RejectHello(c) ==
  /\ rp[c] = "hello" /\ sock[c] = "open"
  /\ Goto(c, "ackErr")
  /\ SendNothing
  /\ UNCHANGED <<hubVars, connVars, wp, sock>>

\* registerDaemon, first part: find or create the room under hub.mu.
HelloDaemon(c, d) ==
  /\ rp[c] = "hello" /\ sock[c] = "open"
  /\ dev' = [dev EXCEPT ![c] = d]
  /\ Goto(c, "reg")
  /\ \/ /\ rooms[d] # NoRoom
        /\ Hold(c, rooms[d])
        /\ UNCHANGED hubVars
     \/ /\ rooms[d] = NoRoom
        /\ \E r \in Room :
             /\ ~Held(r)
             /\ rooms'   = [rooms EXCEPT ![d] = r]
             /\ daemon'  = [daemon EXCEPT ![r] = NoConn]
             /\ clients' = [clients EXCEPT ![r] = {}]
             /\ Hold(c, r)
  /\ SendNothing
  /\ UNCHANGED <<role, victims, wp, sock>>

\* registerDaemon, second part: the section under room.mu.
RegisterDaemon(c) ==
  LET r == ref[c] IN
  /\ rp[c] = "reg"
  /\ Hold(c, NoRoom)
  /\ \/ /\ daemon[r] # NoConn
        /\ Goto(c, "ackErr")
        /\ SendNothing
        /\ UNCHANGED <<daemon, role>>
     \/ /\ daemon[r] = NoConn
        /\ daemon' = [daemon EXCEPT ![r] = c]
        /\ role'   = [role EXCEPT ![c] = "daemon"]
        /\ \/ ~Panics(clients[r]) /\ Broadcast(r, "online") /\ Goto(c, "ackOk")
           \/ Panics(clients[r]) /\ SendNothing /\ Goto(c, "exit")
  /\ UNCHANGED <<rooms, clients, dev, victims, wp, sock>>

\* joinClient, first part: look the room up under hub.mu.
HelloClient(c, d) ==
  /\ rp[c] = "hello" /\ sock[c] = "open"
  /\ dev' = [dev EXCEPT ![c] = d]
  /\ Hold(c, rooms[d])
  /\ \/ rooms[d] # NoRoom /\ Goto(c, "join")
     \/ rooms[d] = NoRoom /\ Goto(c, "ackErr")
  /\ SendNothing
  /\ UNCHANGED <<hubVars, role, victims, wp, sock>>

\* joinClient, second part: offline and busy are refused, otherwise the seat is taken.
JoinClient(c) ==
  LET r == ref[c] IN
  /\ rp[c] = "join"
  /\ Hold(c, NoRoom)
  /\ \/ /\ daemon[r] = NoConn \/ clients[r] # {}
        /\ Goto(c, "ackErr")
        /\ UNCHANGED <<clients, role>>
     \/ /\ daemon[r] # NoConn /\ clients[r] = {}
        /\ clients' = [clients EXCEPT ![r] = @ \cup {c}]
        /\ role'    = [role EXCEPT ![c] = "client"]
        /\ Goto(c, "ackOk")
  /\ SendNothing
  /\ UNCHANGED <<rooms, daemon, dev, victims, wp, sock>>

\* The reply to hello is sent outside both locks; an error reply ends readPump, and
\* so do a full channel (sendMsg returns false) and a closed one (panic).
SendAck(c) ==
  /\ rp[c] \in {"ackOk", "ackErr"}
  /\ \/ closed[c] /\ SendNothing
     \/ ~closed[c] /\ SendTo({c}, Control("reply"))
  /\ Goto(c, IF rp[c] = "ackOk" /\ ~closed[c] /\ ~Full(c) THEN "loop" ELSE "exit")
  /\ UNCHANGED <<hubVars, connVars, wp, sock>>

-----------------------------------------------------------------------------
(* The read loop.                                                          *)

\* ping: the pong goes to the connection's own channel.
ReadPing(c) ==
  /\ rp[c] = "loop" /\ sock[c] = "open"
  /\ \/ ~closed[c] /\ SendTo({c}, Control("reply")) /\ UNCHANGED rp
     \/ closed[c] /\ SendNothing /\ Goto(c, "exit")
  /\ UNCHANGED <<hubVars, connVars, wp, sock>>

\* kick: only a daemon's is acted on; kickClients looks the room up under hub.mu.
ReadKick(c) ==
  /\ rp[c] = "loop" /\ sock[c] = "open"
  /\ role[c] = "daemon" /\ HasRoom(c)
  /\ Hold(c, rooms[dev[c]])
  /\ Goto(c, "kick")
  /\ SendNothing
  /\ UNCHANGED <<hubVars, dev, role, victims, wp, sock>>

KickTakeKeepsSeat(c) ==
  /\ rp[c] = "kick"
  /\ victims' = [victims EXCEPT ![c] = clients[ref[c]]]
  /\ Hold(c, NoRoom) /\ Goto(c, "kicking") /\ SendNothing
  /\ UNCHANGED <<hubVars, dev, role, wp, sock>>

\* kickClients under room.mu: copy the viewers and empty the seat at once.
KickTake(c) ==
  /\ rp[c] = "kick"
  /\ victims' = [victims EXCEPT ![c] = clients[ref[c]]]
  /\ clients' = [clients EXCEPT ![ref[c]] = {}]
  /\ Hold(c, NoRoom)
  /\ Goto(c, "kicking")
  /\ SendNothing
  /\ UNCHANGED <<rooms, daemon, dev, role, wp, sock>>

\* kickClients after room.mu is released: tell one victim and shut it down.
KickOne(c, v) ==
  /\ rp[c] = "kicking" /\ v \in victims[c]
  /\ \/ /\ closed[v]
        /\ SendNothing
        /\ victims' = [victims EXCEPT ![c] = {}]
        /\ Goto(c, "exit")
     \/ /\ ~closed[v]
        /\ queue'   = IF Full(v) THEN queue ELSE [queue EXCEPT ![v] = Append(@, Control("kicked"))]
        /\ closed'  = [closed EXCEPT ![v] = TRUE]
        /\ victims' = [victims EXCEPT ![c] = @ \ {v}]
        /\ UNCHANGED rp
  /\ UNCHANGED <<hubVars, dev, role, ref, wp, sock>>

KickEnd(c) ==
  /\ rp[c] = "kicking" /\ victims[c] = {}
  /\ Goto(c, "loop")
  /\ SendNothing
  /\ UNCHANGED <<hubVars, connVars, wp, sock>>

\* Any other frame is payload: forward looks the sender's room up by deviceID.
ReadPayload(c) ==
  /\ rp[c] = "loop" /\ sock[c] = "open"
  /\ HasRoom(c)
  /\ Hold(c, rooms[dev[c]])
  /\ Goto(c, "fwd")
  /\ SendNothing
  /\ UNCHANGED <<hubVars, dev, role, victims, wp, sock>>

TargetsEveryone(c, r) == (clients[r] \cup {daemon[r]}) \ {NoConn}

\* forward under room.mu: daemon to its viewer, viewer to the daemon, and an error
\* back to a viewer whose daemon is gone.
Targets(c, r) ==
  IF role[c] = "daemon" THEN clients[r] ELSE IF daemon[r] = NoConn THEN {c} ELSE {daemon[r]}

Forward(c) ==
  LET S == Targets(c, ref[c])
      m == IF role[c] # "daemon" /\ daemon[ref[c]] = NoConn THEN Control("reply") ELSE Payload(c)
  IN
  /\ rp[c] = "fwd"
  /\ Hold(c, NoRoom)
  /\ \/ ~Panics(S) /\ SendTo(S, m) /\ Goto(c, "loop")
     \/ Panics(S) /\ SendNothing /\ Goto(c, "exit")
  /\ UNCHANGED <<hubVars, dev, role, victims, wp, sock>>

\* ReadJSON or ReadMessage fails: the socket is closed, the 90 s deadline passed, or
\* the frame was malformed or too large.
ReadFail(c) ==
  /\ rp[c] \in {"hello", "loop"}
  /\ Goto(c, "exit")
  /\ SendNothing
  /\ UNCHANGED <<hubVars, connVars, wp, sock>>

-----------------------------------------------------------------------------
(* readPump's deferred clean-up: unregister, then shutdown.                *)

ExitUnlessClosed(c) ==
  /\ rp[c] = "exit"
  /\ \/ ~closed[c] /\ HasRoom(c) /\ Hold(c, rooms[dev[c]]) /\ Goto(c, "unreg")
     \/ (closed[c] \/ ~HasRoom(c)) /\ Goto(c, "shut") /\ UNCHANGED ref
  /\ SendNothing
  /\ UNCHANGED <<hubVars, dev, role, victims, wp, sock>>

\* unregister, first part: look the room up by deviceID under hub.mu.
ExitLookup(c) ==
  /\ rp[c] = "exit"
  /\ \/ /\ HasRoom(c)
        /\ Hold(c, rooms[dev[c]])
        /\ Goto(c, "unreg")
     \/ /\ ~HasRoom(c)
        /\ Goto(c, "shut")
        /\ UNCHANGED ref
  /\ SendNothing
  /\ UNCHANGED <<hubVars, dev, role, victims, wp, sock>>

\* An empty room is dropped from hub.rooms, by deviceID, whatever object is there.
Reclaim(c, empty) ==
  rooms' = IF empty THEN [rooms EXCEPT ![dev[c]] = NoRoom] ELSE rooms

IsDaemon(c, r) == role[c] = "daemon"
OwnsSeat(c, r) == role[c] = "daemon" /\ daemon[r] = c

\* unregister, second part: the section under room.mu.
Unregister(c) ==
  LET r == ref[c] IN
  /\ rp[c] = "unreg"
  /\ Hold(c, NoRoom)
  /\ \/ /\ OwnsSeat(c, r)
        /\ daemon' = [daemon EXCEPT ![r] = NoConn]
        /\ \/ /\ ~Panics(clients[r])
              /\ Broadcast(r, "offline")
              /\ Reclaim(c, clients[r] = {})
              /\ Goto(c, "shut")
           \/ /\ Panics(clients[r])
              /\ SendNothing
              /\ Goto(c, "dead")
              /\ UNCHANGED rooms
        /\ UNCHANGED clients
     \/ /\ ~OwnsSeat(c, r)
        /\ clients' = [clients EXCEPT ![r] = @ \ {c}]
        /\ Reclaim(c, daemon[r] = NoConn /\ clients[r] \ {c} = {})
        /\ Goto(c, "shut")
        /\ SendNothing
        /\ UNCHANGED daemon
  /\ UNCHANGED <<dev, role, victims, wp, sock>>

Shutdown(c) ==
  /\ rp[c] = "shut"
  /\ closed' = [closed EXCEPT ![c] = TRUE]
  /\ Goto(c, "done")
  /\ UNCHANGED <<hubVars, connVars, queue, wp, sock>>

-----------------------------------------------------------------------------
(* writePump and the peer.                                                 *)

\* A write may succeed after the peer has gone: it only reaches the kernel.
WriteFrame(c) ==
  /\ wp[c] = "run" /\ queue[c] # << >>
  /\ queue' = [queue EXCEPT ![c] = Tail(@)]
  /\ UNCHANGED <<hubVars, connVars, closed, rp, wp, sock>>

WriteFail(c) ==
  /\ wp[c] = "run" /\ queue[c] # << >> /\ sock[c] = "closed"
  /\ queue'  = [queue EXCEPT ![c] = Tail(@)]
  /\ closed' = [closed EXCEPT ![c] = TRUE]
  /\ wp'     = [wp EXCEPT ![c] = "done"]
  /\ UNCHANGED <<hubVars, connVars, rp, sock>>

EndNoClose(c) ==
  /\ wp[c] = "run" /\ queue[c] = << >> /\ closed[c]
  /\ wp' = [wp EXCEPT ![c] = "done"]
  /\ UNCHANGED <<hubVars, connVars, queue, closed, rp, sock>>

\* The channel is closed and drained: writePump closes the socket.
WriteEnd(c) ==
  /\ wp[c] = "run" /\ queue[c] = << >> /\ closed[c]
  /\ wp'   = [wp EXCEPT ![c] = "done"]
  /\ sock' = [sock EXCEPT ![c] = "closed"]
  /\ UNCHANGED <<hubVars, connVars, queue, closed, rp>>

PeerClose(c) ==
  /\ sock[c] = "open"
  /\ sock' = [sock EXCEPT ![c] = "closed"]
  /\ UNCHANGED <<hubVars, connVars, queue, closed, rp, wp>>

-----------------------------------------------------------------------------
\* What readPump does without waiting for its peer, and what ends the wait.
ReadPumpStep(c) ==
  \/ RegisterDaemon(c) \/ JoinClient(c) \/ SendAck(c)
  \/ KickTake(c) \/ (\E v \in Conn : KickOne(c, v)) \/ KickEnd(c)
  \/ Forward(c)
  \/ ExitLookup(c) \/ Unregister(c) \/ Shutdown(c)

FromPeer(c) ==
  \/ RejectHello(c)
  \/ \E d \in Device : HelloDaemon(c, d) \/ HelloClient(c, d)
  \/ ReadPing(c) \/ ReadKick(c) \/ ReadPayload(c)
  \/ ReadFail(c)
  \/ PeerClose(c)

WritePumpStep(c) == WriteFrame(c) \/ WriteFail(c) \/ WriteEnd(c)

Next == \E c \in Conn : Accept(c) \/ FromPeer(c) \/ ReadPumpStep(c) \/ WritePumpStep(c)

Spec == Init /\ [][Next]_vars

\* Goroutines are scheduled, a read on a closed socket returns an error, and a
\* write ends (the kernel accepts it or reports the peer gone).
Fairness ==
  \A c \in Conn :
    /\ WF_vars(ReadPumpStep(c))
    /\ WF_vars(sock[c] = "closed" /\ ReadFail(c))
    /\ WF_vars(WritePumpStep(c))

FairSpec == Spec /\ Fairness

-----------------------------------------------------------------------------
(* Properties.                                                             *)

Reachable(d)  == rooms[d] # NoRoom
InSeat(c, d)  == Reachable(d) /\ Seated(c, rooms[d])
FramesOf(c)   == {queue[c][i] : i \in 1..Len(queue[c])}

\* A seat of a reachable room is never held by a connection that will not give it
\* back: its readPump is still running and has its own unregister, on this very
\* room, ahead of it.  Otherwise device_already_online or device_busy would answer
\* every later daemon or viewer of the device for ever (hub.go:96, 124, 195-219).
NoGhostSeat ==
  \A d \in Device, c \in Conn :
    InSeat(c, d) =>
      /\ dev[c] = d
      /\ daemon[rooms[d]] = c => role[c] = "daemon"
      /\ c \in clients[rooms[d]] => role[c] = "client"
      /\ \/ rp[c] \in {"ackOk", "loop", "fwd", "kick", "kicking", "exit"}
         \/ rp[c] = "unreg" /\ ref[c] = rooms[d]

\* A payload queued to a connection was sent by the opposite role of the same
\* device, whatever became of the room between the look-up and the send
\* (forward, hub.go:134-155).
RoomIsolation ==
  \A c \in Conn : \A f \in FramesOf(c) :
    f.t = "payload" => f.dev = dev[c] /\ {f.role, role[c]} = {"daemon", "client"}

\* A kicked viewer is out before it is told so: neither while it waits to be told nor
\* with the notice in its queue does it hold a seat that a look-up can reach
\* (kickClients empties the seat under room.mu, hub.go:171).
KickedIsOut ==
  \A d \in Device, v \in Conn :
    InSeat(v, d) => /\ \A k \in Conn : v \notin victims[k]
                    /\ \A f \in FramesOf(v) : f.t # "kicked"

\* The last presence notice queued to a seated viewer tells what the daemon's seat
\* is now: the broadcasts of registerDaemon and unregister cannot overtake each
\* other (hub.go:103, 207).  A viewer already being dropped may have missed one.
PresenceInStep ==
  \A d \in Device, c \in Conn : \A i \in 1..Len(queue[c]) :
    /\ Reachable(d) /\ c \in clients[rooms[d]] /\ ~closed[c]
    /\ queue[c][i].t \in {"online", "offline"}
    /\ \A j \in (i+1)..Len(queue[c]) : queue[c][j].t \notin {"online", "offline"}
    => (queue[c][i].t = "online") = (daemon[rooms[d]] # NoConn)

\* A seat of a reachable room is given up by its holder's own unregister, or, for a
\* viewer, taken by a kick from a daemon of the same device.  In particular the
\* unregister of a daemon that lost its room never evicts its successor
\* (the test r.daemon == c, hub.go:205).
SeatLostOnlyByOwnerOrKick ==
  [][\A d \in Device, c \in Conn :
       InSeat(c, d) /\ daemon'[rooms[d]] # c /\ c \notin clients'[rooms[d]] =>
         \/ rp[c] = "unreg" /\ rp'[c] # "unreg"
         \/ c \in clients[rooms[d]] /\ \E k \in Conn :
              /\ rp[k] = "kick" /\ rp'[k] = "kicking"
              /\ role[k] = "daemon" /\ dev[k] = d]_vars

\* A connection whose socket is gone leaves its seat: a device is reachable again
\* for a new daemon, a viewer slot free for a new viewer (hub.go:82-85, 195-219).
GoneLeavesSeat ==
  \A d \in Device, c \in Conn : (InSeat(c, d) /\ sock[c] = "closed") ~> ~InSeat(c, d)

\* A viewer taken out by a kick gets its socket closed (hub.go:173-176, main.go:177-185).
KickedIsClosed ==
  \A k, v \in Conn : (v \in victims[k]) ~> (sock[v] = "closed")

-----------------------------------------------------------------------------
(* What the documents and comments say and the code does not keep.         *)

\* A slow consumer is kicked so that it does not drag the whole room down (hub.go:38),
\* and the daemon's tunnel outlives a kick (docs/protocol.md:162): neither a forward nor a
\* kick ends the connection of the daemon at work.
SlowViewerSparesDaemon ==
  [][\A c \in Conn : rp[c] \in {"fwd", "kicking"} /\ role[c] = "daemon" => rp'[c] # "exit"]_vars
=============================================================================
