---------------------------- MODULE WebConnection ----------------------------
(***************************************************************************)
(* The web client's connection to a device (web/src/lib/daemon.ts,         *)
(* lib/e2e.ts and the handlers TerminalApp.tsx gives it), together with    *)
(* the relay's room and the daemon's end of the tunnel as far as they      *)
(* answer it (relay/hub.go, daemon/src/relay_client.rs; the room by itself *)
(* is RelayHub).                                                           *)
(*                                                                         *)
(*  - a browser runs one handler at a time: a handler is one action;       *)
(*  - what a socket, the relay and the daemon have sent is in up, toD and  *)
(*    down, first in first out; a socket that is gone takes its frames     *)
(*    with it, what the relay passed on to the daemon stays;               *)
(*  - another viewer of the same device takes the seat between two visits  *)
(*    of this one (seat = Other);                                          *)
(*  - a half-open socket is one whose path is dead and neither end knows.  *)
(*                                                                         *)
(* A socket slot is used again once nothing remembers it, so the client    *)
(* may retry for ever.  A session key is the pair of the public keys it    *)
(* was derived from: the slot whose proof it answers and the daemon's      *)
(* fresh key.                                                              *)
(***************************************************************************)
EXTENDS Naturals, Sequences

CONSTANTS Slot,        \* WebSocket objects of the page
          Nobody,      \* null: no socket, nobody in the seat, no proof sent
          Other,       \* another viewer of the device
          DaemonKey,   \* the daemon's fresh key pairs
          NoKey,       \* no session key
          MaxReqs,     \* bound: requests the page makes
          MaxFaults,   \* bound: losses, other viewers, kicks in mid-handshake
          MaxTimers    \* bound: retry timers counted

ASSUME BoundsAssumption == MaxReqs \in Nat /\ MaxFaults \in Nat /\ MaxTimers \in Nat \ {0}
ASSUME NamesAssumption  ==
  /\ Nobody \notin Slot /\ Other \notin Slot /\ Nobody # Other
  /\ NoKey \notin (Slot \cup {Other}) \X DaemonKey
  /\ Slot # {}

Req    == 1..MaxReqs
Viewer == Slot \cup {Other}
Key    == Viewer \X DaemonKey

VARIABLES
  ws, sock,            \* DaemonConnection.ws; readyState of each socket
  keepalive,           \* the keepalive interval runs
  closed,              \* disposed, and what it was closed for; "no" while it is not
  status,              \* the status TerminalApp shows
  timers,              \* retry timers that are armed
  online,              \* TerminalApp deviceOnline
  key, priv,           \* E2EClient: the session key; whose proof awaits its answer
  nreq, pending, resolved, \* requests made; the pending map; requests resolved
  up, down, half,      \* frames of a socket to and from the relay; half-open sockets
  srv, seat,           \* the relay's end of each socket; the room's one viewer
  tunnel, toD, crypto, \* daemon registered at the relay; frames to it; its session key
  token,               \* the token in the link: the daemon's, an old one, none (?local=1)
  served,              \* requests the daemon carried out
  faults               \* faults so far

sockVars   == <<ws, sock, keepalive>>
pageVars   == <<closed, status, timers, online>>
keyVars    == <<key, priv>>
reqVars    == <<nreq, pending, resolved>>
webVars    == <<sockVars, pageVars, keyVars, reqVars>>
relayVars  == <<srv, seat>>
daemonVars == <<tunnel, toD, crypto, token, served>>
vars == <<webVars, up, down, half, relayVars, daemonVars, faults>>

\* A frame: its type, the sender or request or flag it carries, its key.  "error" stands
\* for the errors the page only prints: device_offline, kicked, auth_required.
Frame(t, n, k) == [t |-> t, n |-> n, k |-> k]
Plain(t)       == Frame(t, 0, NoKey)

ClientFrame == [t : {"hello"}, n : {0}, k : {NoKey}]
          \cup [t : {"proof"}, n : Viewer, k : {NoKey}]
          \cup [t : {"req"}, n : Req, k : Key \cup {NoKey}]
RelayFrame  == [t : {"ack", "busy", "error", "authfail"}, n : {0}, k : {NoKey}]
          \cup [t : {"ok"}, n : DaemonKey, k : {NoKey}]
          \cup [t : {"presence"}, n : {0, 1}, k : {NoKey}]
          \cup [t : {"resp"}, n : Req, k : Key \cup {NoKey}]
          \cup [t : {"event"}, n : {0}, k : Key \cup {NoKey}]

TypeOK ==
  /\ ws \in Slot
  /\ sock \in [Slot -> {"connecting", "open", "closing", "closed"}]
  /\ keepalive \in BOOLEAN
  /\ closed \in {"no", "auth_failed", "busy", "decrypt_failed", "left"}
  /\ status \in {"connecting", "ready", "disconnected"}
  /\ timers \in 0..MaxTimers /\ online \in BOOLEAN
  /\ key \in Key \cup {NoKey} /\ priv \in Slot \cup {Nobody}
  /\ nreq \in 0..MaxReqs /\ pending \subseteq Req /\ resolved \subseteq Req
  /\ up \in [Slot -> Seq(ClientFrame)] /\ down \in [Slot -> Seq(RelayFrame)]
  /\ half \subseteq Slot
  /\ srv \in [Slot -> {"none", "in", "kicked", "refused"}]
  /\ seat \in Viewer \cup {Nobody}
  /\ tunnel \in BOOLEAN /\ toD \in Seq(ClientFrame) /\ crypto \in Key \cup {NoKey}
  /\ token \in {"valid", "stale", "none"} /\ served \subseteq Req
  /\ faults \in 0..MaxFaults

\* The page has just been opened and has called connect().
Init ==
  /\ ws \in Slot /\ sock = [i \in Slot |-> IF i = ws THEN "connecting" ELSE "closed"]
  /\ keepalive = FALSE /\ closed = "no" /\ status = "connecting" /\ timers = 0
  /\ online = TRUE /\ key = NoKey /\ priv = Nobody
  /\ nreq = 0 /\ pending = {} /\ resolved = {}
  /\ up = [i \in Slot |-> << >>] /\ down = [i \in Slot |-> << >>] /\ half = {}
  /\ srv = [i \in Slot |-> "none"] /\ seat = Nobody
  /\ tunnel = TRUE /\ toD = << >> /\ crypto = NoKey /\ served = {}
  /\ token \in {"valid", "none"} /\ faults = 0

Fault == faults < MaxFaults /\ faults' = faults + 1

\* Relay mode; without a token the page speaks to the daemon itself.
HasToken == token # "none"

-----------------------------------------------------------------------------
(* The sockets.                                                            *)

\* Nothing of an earlier connection in this slot is left anywhere.
Free(i) ==
  /\ sock[i] = "closed" /\ srv[i] = "none" /\ up[i] = << >> /\ down[i] = << >>
  /\ \A j \in 1..Len(toD) : ~(toD[j].t = "proof" /\ toD[j].n = i)

\* connect(): the guard on the current socket, and the new one.  s is sock, or what
\* closing the old socket makes of it.
ConnectIgnoresSocket == closed = "no"
MayConnect == closed = "no" /\ sock[ws] = "closed"

NewSocket(s) ==
  \E i \in Slot :
    /\ Free(i) /\ ws' = i /\ sock' = [s EXCEPT ![i] = "connecting"]
    /\ status' = "connecting"
    /\ UNCHANGED <<keepalive, closed, online, keyVars, reqVars, up, down, half,
                   relayVars, daemonVars>>

\* A retry timer fires.
Retry ==
  /\ timers > 0 /\ timers' = timers - 1 /\ UNCHANGED faults
  /\ IF MayConnect THEN NewSocket(sock)
     ELSE UNCHANGED <<sockVars, closed, status, online, keyVars, reqVars, up, down,
                      half, relayVars, daemonVars>>

\* The page becomes visible again.
Visible == MayConnect /\ NewSocket(sock) /\ UNCHANGED <<timers, faults>>

\* The two buttons: disabled while the page connects, or not there.
MayPress == status # "connecting"

\* reconnect(): the old socket may need as long as it likes to close.
\* Mutant: the old socket is dropped and none is made.
DropSocket ==
  /\ closed = "no" /\ MayPress /\ ws' = Nobody
  /\ UNCHANGED <<sock, keepalive, pageVars, keyVars, reqVars, up, down, half,
                 relayVars, daemonVars, faults>>
ManualReconnect ==
  /\ closed = "no" /\ MayPress
  /\ NewSocket(IF sock[ws] = "closed" THEN sock ELSE [sock EXCEPT ![ws] = "closing"])
  /\ UNCHANGED <<timers, faults>>

\* onopen.
SockOpen(i) ==
  /\ sock[i] = "connecting" /\ i \notin half
  /\ sock' = [sock EXCEPT ![i] = "open"] /\ keepalive' = TRUE
  /\ up' = [up EXCEPT ![i] = Append(@, Plain("hello"))]
  /\ UNCHANGED <<ws, pageVars, keyVars, reqVars, down, half, relayVars, daemonVars, faults>>

\* onclose.
Atmost(n, m) == IF n > m THEN m ELSE n
LateStaleCheck(i) ==
  /\ sock' = [sock EXCEPT ![i] = "closed"] /\ keepalive' = FALSE
  /\ down' = [down EXCEPT ![i] = << >>] /\ half' = half \ {i}
  /\ pending' = {}
  /\ IF closed # "no" THEN UNCHANGED <<status, timers, online>>
     ELSE /\ status' = "disconnected" /\ online' = TRUE
          /\ timers' = IF ws = i THEN Atmost(timers + 1, MaxTimers) ELSE timers
  /\ UNCHANGED <<ws, closed, keyVars, nreq, resolved, up, relayVars, daemonVars>>
\* Mutant: a retry only after a connection that was ready.
RetryAfterReady(i) ==
  /\ sock' = [sock EXCEPT ![i] = "closed"] /\ keepalive' = FALSE
  /\ down' = [down EXCEPT ![i] = << >>] /\ half' = half \ {i}
  /\ IF ws # i THEN UNCHANGED <<pending, status, timers, online>>
     ELSE /\ pending' = {}
          /\ IF closed # "no" THEN UNCHANGED <<status, timers, online>>
             ELSE /\ status' = "disconnected" /\ online' = TRUE
                  /\ timers' = IF status = "ready" THEN Atmost(timers + 1, MaxTimers) ELSE timers
  /\ UNCHANGED <<ws, closed, keyVars, nreq, resolved, up, relayVars, daemonVars>>
OnClose(i) ==
  /\ sock' = [sock EXCEPT ![i] = "closed"] /\ keepalive' = FALSE
  /\ down' = [down EXCEPT ![i] = << >>] /\ half' = half \ {i}
  /\ IF ws # i THEN UNCHANGED <<pending, status, timers, online>>
     ELSE /\ pending' = {}
          /\ IF closed # "no" THEN UNCHANGED <<status, timers, online>>
             ELSE /\ status' = "disconnected" /\ online' = TRUE
                  /\ timers' = Atmost(timers + 1, MaxTimers)
  /\ UNCHANGED <<ws, closed, keyVars, nreq, resolved, up, relayVars, daemonVars>>

\* The closing handshake ends, the relay closed the connection and all its frames have
\* been read, or a keepalive ping finds the path dead.
Gone(i) ==
  \/ sock[i] = "closing"
  \/ sock[i] = "open" /\ srv[i] \in {"kicked", "refused"} /\ i \notin half /\ down[i] = << >>
  \/ sock[i] = "open" /\ i \in half /\ i = ws /\ keepalive
SockGone(i) == Gone(i) /\ OnClose(i) /\ UNCHANGED faults

\* The network drops a connection, or never makes it.
NetLoss(i) == sock[i] \in {"connecting", "open"} /\ ~Gone(i) /\ Fault /\ OnClose(i)

HalfOpen(i) ==
  /\ sock[i] = "open" /\ i \notin half /\ Fault /\ half' = half \cup {i}
  /\ UNCHANGED <<webVars, up, down, relayVars, daemonVars>>

-----------------------------------------------------------------------------
(* What the page sends and receives.                                       *)

\* seal(): an envelope of the key, or the frame itself when there is none; open(): the key
\* must be the one it was sealed with.
Sealed(f, k) == [f EXCEPT !.k = k]
Opens(m)     == key # NoKey /\ m.k = key

\* proofMessage(): a key pair of its own for every socket.
Proof(i) == Frame("proof", i, NoKey)

\* send(): dropped unless the current socket is open.
Sent(f, k) ==
  IF sock[ws] # "open" THEN up ELSE [up EXCEPT ![ws] = Append(@, Sealed(f, k))]

\* request(), with the key k that e2e has by then.
Issue(k) ==
  /\ nreq < MaxReqs /\ nreq' = nreq + 1 /\ pending' = pending \cup {nreq'}
  /\ up' = Sent(Frame("req", nreq', NoKey), k)
  /\ UNCHANGED resolved

\* The user closes a tab, opens a session...; the page does not ask for the status.
Request ==
  /\ Issue(key)
  /\ UNCHANGED <<sockVars, pageVars, keyVars, down, half, relayVars, daemonVars, faults>>

\* onStatus("ready"): the bootstrap lists the sessions at once.
Ready(k) ==
  /\ status' = "ready"
  /\ Issue(k) \/ (nreq = MaxReqs /\ UNCHANGED <<reqVars, up>>)

\* DaemonConnection.close() and, when the page goes, the cleanup of its timers.
Close(why) ==
  /\ closed' = IF closed = "no" THEN why ELSE closed
  /\ keepalive' = FALSE
  /\ sock' = IF sock[ws] = "closed" THEN sock ELSE [sock EXCEPT ![ws] = "closing"]

Leave ==
  /\ closed # "left" /\ Fault
  /\ closed' = "left" /\ timers' = 0 /\ keepalive' = FALSE
  /\ sock' = IF sock[ws] = "closed" THEN sock ELSE [sock EXCEPT ![ws] = "closing"]
  /\ UNCHANGED <<ws, status, online, keyVars, reqVars, up, down, half, relayVars, daemonVars>>

\* onError with one of the four codes that end the connection for good.
Fatal(why) ==
  /\ Close(why) /\ UNCHANGED <<ws, status, timers, online, keyVars, reqVars, up>>

Ignore == UNCHANGED <<webVars, up>>

\* The first frame of the current socket.  A frame that arrives in an envelope is
\* opened first: without a key it is a protocol error, with the wrong key a fatal one.
AnswerForgotten(m) ==
  /\ pending' = pending \ {m.n} /\ resolved' = resolved \cup {m.n}
  /\ UNCHANGED <<sockVars, pageVars, keyVars, nreq, up>>

Answer(m) ==
  /\ IF m.n \in pending THEN pending' = pending \ {m.n} /\ resolved' = resolved \cup {m.n}
     ELSE UNCHANGED <<pending, resolved>>
  /\ UNCHANGED <<sockVars, pageVars, keyVars, nreq, up>>

OnPlain(m) ==
  CASE m.t = "ack" /\ HasToken ->
         /\ priv' = ws /\ up' = [up EXCEPT ![ws] = Append(@, Proof(ws))]
         /\ UNCHANGED <<sockVars, pageVars, key, reqVars>>
    [] m.t = "ack" /\ ~HasToken ->
         Ready(key) /\ UNCHANGED <<sockVars, closed, timers, online, keyVars>>
    [] m.t = "ok" /\ priv # Nobody ->
         /\ key' = <<priv, m.n>> /\ priv' = Nobody /\ Ready(key')
         /\ UNCHANGED <<sockVars, closed, timers, online>>
    [] m.t = "ok" /\ priv = Nobody -> Fatal("auth_failed")
    [] m.t = "authfail" -> Fatal("auth_failed")
    [] m.t = "busy" -> Fatal("busy")
    [] m.t = "presence" ->
         online' = (m.n = 1) /\ UNCHANGED <<sockVars, closed, status, timers, keyVars, reqVars, up>>
    [] m.t = "resp" -> Answer(m)
    [] OTHER -> Ignore

Dispatch(i) ==
  /\ sock[i] = "open" /\ i \notin half /\ down[i] # << >>
  /\ down' = [down EXCEPT ![i] = Tail(@)]
  /\ LET m == Head(down[i]) IN
       CASE m.k = NoKey -> OnPlain(m)
         [] m.k # NoKey /\ key = NoKey -> Ignore
         [] m.k # NoKey /\ key # NoKey /\ ~Opens(m) -> Fatal("decrypt_failed")
         [] m.k # NoKey /\ Opens(m) -> OnPlain(m)
  /\ UNCHANGED <<half, relayVars, daemonVars, faults>>

\* What the page shows of the connection.
Badge == IF ~online THEN "offline" ELSE status

-----------------------------------------------------------------------------
(* The relay's room.                                                       *)

Tell(v, f) == IF v \in Slot /\ v \notin half THEN [down EXCEPT ![v] = Append(@, f)] ELSE down

\* The next frame of a client: its hello (joinClient), or a payload (forward).
RelayHello(i) ==
  /\ UNCHANGED toD
  /\ IF ~tunnel \/ seat # Nobody
     THEN /\ srv' = [srv EXCEPT ![i] = "refused"] /\ UNCHANGED seat
          /\ down' = Tell(i, Plain(IF tunnel THEN "busy" ELSE "error"))
     ELSE /\ srv' = [srv EXCEPT ![i] = "in"] /\ seat' = i
          /\ down' = Tell(i, Plain("ack"))

Forward(i, f) ==
  /\ UNCHANGED relayVars
  /\ IF srv[i] = "refused" THEN UNCHANGED <<toD, down>>
     ELSE IF tunnel THEN toD' = Append(toD, f) /\ UNCHANGED down
     ELSE down' = Tell(i, Plain("error")) /\ UNCHANGED toD

RelayRead(i) ==
  /\ i \notin half /\ up[i] # << >> /\ up' = [up EXCEPT ![i] = Tail(@)]
  /\ LET f == Head(up[i]) IN IF f.t = "hello" THEN RelayHello(i) ELSE Forward(i, f)
  /\ UNCHANGED <<webVars, half, tunnel, crypto, token, served, faults>>

\* The relay notices that a connection is gone, by a close or by its read deadline, or
\* is done with one it closed itself.
RelayDrop(i) ==
  /\ srv[i] # "none" \/ up[i] # << >>
  /\ sock[i] \in {"closing", "closed"} \/ i \in half
  /\ srv' = [srv EXCEPT ![i] = "none"] /\ seat' = IF seat = i THEN Nobody ELSE seat
  /\ up' = [up EXCEPT ![i] = << >>] /\ down' = [down EXCEPT ![i] = << >>]
  /\ UNCHANGED <<webVars, half, daemonVars, faults>>

\* Another viewer takes the free seat and sends its proof; later it leaves.
OtherJoin ==
  /\ HasToken /\ tunnel /\ seat = Nobody /\ Fault
  /\ seat' = Other /\ toD' = Append(toD, Proof(Other))
  /\ UNCHANGED <<webVars, up, down, half, srv, tunnel, crypto, token, served>>

OtherLeave ==
  /\ seat = Other /\ seat' = Nobody
  /\ UNCHANGED <<webVars, up, down, half, srv, daemonVars, faults>>

-----------------------------------------------------------------------------
(* The daemon's end: connect_and_run of relay_client.rs (handle_socket of  *)
(* ws.rs when there is no token, which has no proof and no key).           *)

\* A key pair nothing remembers.
Unlike(k, d) == k # NoKey => k[2] # d
Fresh(d) ==
  /\ Unlike(key, d) /\ Unlike(crypto, d)
  /\ \A i \in Slot : \A j \in 1..Len(down[i]) : down[i][j].n # d /\ Unlike(down[i][j].k, d)
  /\ \A i \in Slot : \A j \in 1..Len(up[i]) : Unlike(up[i][j].k, d)
  /\ \A j \in 1..Len(toD) : Unlike(toD[j].k, d)
NewKey == CHOOSE d \in DaemonKey : Fresh(d)

\* Mutant: the daemon keeps the session key it has.
ProofKeepsKey(m) ==
  /\ UNCHANGED served
  /\ IF m.n = Other \/ token = "valid"
     THEN /\ \E d \in DaemonKey : Fresh(d)
          /\ crypto' = IF crypto = NoKey THEN <<m.n, NewKey>> ELSE crypto
          /\ down' = Tell(seat, Frame("ok", NewKey, NoKey))
     ELSE /\ down' = Tell(seat, Plain("authfail")) /\ UNCHANGED crypto

\* auth.proof: verified against the token as it is now.
OnProof(m) ==
  /\ UNCHANGED served
  /\ IF m.n = Other \/ token = "valid"
     THEN /\ \E d \in DaemonKey : Fresh(d)
          /\ crypto' = <<m.n, NewKey>>
          /\ down' = Tell(seat, Frame("ok", NewKey, NoKey))
     ELSE /\ down' = Tell(seat, Plain("authfail")) /\ UNCHANGED crypto

\* Any other message: dropped unless it is in the form the key asks for.
OnRequest(m) ==
  /\ UNCHANGED crypto
  /\ IF m.k = crypto /\ (HasToken => crypto # NoKey)
     THEN served' = served \cup {m.n} /\ down' = Tell(seat, Frame("resp", m.n, crypto))
     ELSE /\ UNCHANGED served
          /\ down' = IF m.k = NoKey /\ crypto = NoKey THEN Tell(seat, Plain("error")) ELSE down

DaemonRecv ==
  /\ tunnel /\ toD # << >> /\ toD' = Tail(toD)
  /\ IF Head(toD).t = "proof" THEN OnProof(Head(toD)) ELSE OnRequest(Head(toD))
  /\ UNCHANGED <<webVars, up, half, relayVars, tunnel, token, faults>>

\* Output or a notice of the session host, sealed when there is a key.
HostEvent ==
  /\ tunnel /\ seat \in Slot /\ served # {}
  /\ \A j \in 1..Len(down[seat]) : down[seat][j].t # "event"
  /\ down' = Tell(seat, Frame("event", 0, crypto))
  /\ UNCHANGED <<webVars, up, half, relayVars, daemonVars, faults>>

\* auth_check: a viewer that has not proved itself in time is kicked.  The deadline
\* counts from the connection or the last kick, not from the viewer's arrival: it may
\* pass while a proof is on its way, which is counted as a fault.
KickOrder ==
  /\ HasToken /\ tunnel /\ crypto = NoKey /\ seat # Nobody /\ seat' = Nobody
  /\ srv' = IF seat \in Slot THEN [srv EXCEPT ![seat] = "kicked"] ELSE srv
  /\ down' = Tell(seat, Plain("error"))
  /\ UNCHANGED <<webVars, up, half, daemonVars>>

Silent    == seat \in Slot => /\ toD = << >> /\ up[seat] = << >>
                              /\ \A j \in 1..Len(down[seat]) : down[seat][j].t # "ack"
Kick      == KickOrder /\ Silent /\ UNCHANGED faults
KickEarly == KickOrder /\ ~Silent /\ Fault

\* Mutant: the room does not tell its viewer.
TunnelDownSilently ==
  /\ HasToken /\ tunnel /\ Fault
  /\ tunnel' = FALSE /\ toD' = << >> /\ crypto' = NoKey
  /\ UNCHANGED <<webVars, up, down, half, relayVars, token, served>>

\* The tunnel breaks and comes back; the session key goes with it, the room tells its viewer.
TunnelDown ==
  /\ HasToken /\ tunnel /\ Fault
  /\ tunnel' = FALSE /\ toD' = << >> /\ crypto' = NoKey
  /\ down' = Tell(seat, Frame("presence", 0, NoKey))
  /\ UNCHANGED <<webVars, up, half, relayVars, token, served>>

TunnelUp ==
  /\ ~tunnel /\ tunnel' = TRUE /\ down' = Tell(seat, Frame("presence", 1, NoKey))
  /\ UNCHANGED <<webVars, up, half, relayVars, toD, crypto, token, served, faults>>

\* The device gets another token; the link keeps the old one.
ChangeToken ==
  /\ token = "valid" /\ Fault /\ token' = "stale"
  /\ UNCHANGED <<webVars, up, down, half, relayVars, tunnel, toD, crypto, served>>

-----------------------------------------------------------------------------
Socket(i) == SockOpen(i) \/ SockGone(i) \/ Dispatch(i) \/ RelayRead(i) \/ RelayDrop(i)
Disturb   == Leave \/ OtherJoin \/ KickEarly \/ TunnelDown \/ ChangeToken
             \/ \E i \in Slot : NetLoss(i) \/ HalfOpen(i)

Next ==
  \/ Retry \/ Visible \/ ManualReconnect \/ Request
  \/ \E i \in Slot : Socket(i)
  \/ DaemonRecv \/ Kick \/ TunnelUp \/ OtherLeave \/ HostEvent \/ Disturb

Spec == Init /\ [][Next]_vars

\* The browser runs its handlers and timers, the relay and the daemon read what they
\* get, and another viewer does not stay for ever.
FairSpec ==
  /\ Spec /\ WF_vars(Retry) /\ WF_vars(DaemonRecv) /\ WF_vars(Kick) /\ WF_vars(TunnelUp)
  /\ WF_vars(OtherLeave)
  /\ \A i \in Slot :
       /\ WF_vars(SockOpen(i)) /\ WF_vars(SockGone(i)) /\ WF_vars(Dispatch(i))
       /\ WF_vars(RelayRead(i)) /\ WF_vars(RelayDrop(i))

-----------------------------------------------------------------------------
(* Properties.                                                             *)

\* There is never a second live socket, whatever timers, page events and buttons ask
\* for one (daemon.ts:45-46).
OneSocket == \A i \in Slot : sock[i] \in {"connecting", "open"} => i = ws

\* The page is never left without a way back: while it is not closed, the status it
\* shows is the state of its socket, and when that is gone a retry timer is armed
\* (TerminalApp.tsx:285-292).
NeverStranded ==
  closed = "no" =>
    /\ status = "disconnected" <=> sock[ws] = "closed"
    /\ status = "disconnected" => timers > 0
    /\ status = "ready" => sock[ws] = "open"

\* When both ends have read everything, a page that shows ready, in the seat, and a daemon
\* that took its key from this connection's proof have the same one, whoever proved what
\* before (relay_client.rs:163-164, e2e.ts:48-65).  Out of the seat they need not: the proof
\* of a viewer already kicked still reaches the daemon, whose answer has nobody to go to.
BothRead == ws \notin half /\ toD = << >> /\ up[ws] = << >> /\ down[ws] = << >>
KeysAgree ==
  (/\ HasToken /\ closed = "no" /\ status = "ready" /\ seat = ws
   /\ crypto # NoKey /\ crypto[1] = ws /\ BothRead)
    => key = crypto

\* A device that has gone offline is never shown online, once the page has read what the
\* room told it, over every reconnection of either side (TerminalApp.tsx:286, 294;
\* hub.go:103, 122).
OfflineIsShown ==
  (closed = "no" /\ status = "ready" /\ seat = ws /\ down[ws] = << >> /\ ws \notin half /\ ~tunnel)
    => Badge = "offline"

\* The page becomes ready again after every disturbance, unless it was closed for good
\* or waits on a half-open socket that nothing probes.
Recovers ==
  (status # "ready") ~> \/ status = "ready" \/ closed # "no"
                        \/ sock[ws] = "open" /\ ws \in half /\ ~keepalive

\* Requests and their answers keep the contract over every reconnection (daemon.ts:139-165).
Contract == INSTANCE RequestContract WITH
  issued <- 1..nreq, open <- pending
KeepsContract == Contract!Spec

-----------------------------------------------------------------------------
(* What the page says and the code does not keep.                          *)

\* A page that finds the device busy connects by itself when the other window has gone
\* (the banner of TerminalApp.tsx:630).
BusyRecovers == (closed = "busy") ~> (status = "ready")
=============================================================================
