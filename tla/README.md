# remoteAgent: formal models

remoteAgent gives a browser a terminal on a machine behind a NAT. Four programs take part:

    browser (web/)  --WebSocket-->  relay (relay/, Go)  <--WebSocket--  daemon (daemon/, Rust)
                                                                          | TCP, lines of JSON
                                                                        session host (daemon --session-host)
                                                                          | PTY
                                                                        shell or coding agent

This directory holds TLA+ modules that model its components, TLC runs on small instances,
and proofs for every instance. `PROJECT.json` lists the runs, the source lines of each
definition, the hazards and the disagreements found.

## 1. Inventory

| component | state | operations | talks to | what is hard | what makes it correct | module |
|---|---|---|---|---|---|---|
| Relay hub (`relay/hub.go`, `main.go`) | `hub.rooms`, per room the daemon and the viewer, per connection a bounded send queue | register, join, forward, kick, unregister; a read and a write goroutine per connection | browser and daemon sockets | look-up under one lock, use under another; a send on a closed channel panics; late clean-ups | a seat is given back and never stolen; payload stays in its device and crosses roles | `RelayHub` |
| PTY session and host server (`session.rs`, `host_server.rs`) | ring, seq, subscriber, agent state, PTY master; the map of sessions; the event channel | read, push, count, feed, send; wait, close, mark, remove; create, attach, resize, kill | host client, child process | two threads per session and the server task, each lock held for one step only | the stream has no hole; threads end | `PtySession` |
| Web connection (`lib/daemon.ts`, `lib/e2e.ts`, status handlers of `TerminalApp.tsx`) | socket, pending requests, key, keep-alive, retry timers | connect, dispatch, request, reconnect, close; visibility and network events | relay or local panel | events of a replaced socket, half-open paths, requests without an answer, a key replaced by a new proof | one live socket, a way back, one key at both ends, answers go to their requests | `WebConnection`, `RequestContract` |
| End-to-end channel (`crypto.rs`, `e2e.ts`) | key pair, session key | proof, verify, finish, seal, open | each other, through the relay | a new handshake at any time | both ends hold the same key | in `WebConnection` |
| Relay client (`relay_client.rs`) | session key, kick timer, back-off | hello, gate, forwarding, kick; start, dial, stop | relay, host client | the key outlives its viewer; an old task reports late | requests are served once; the status is that of the current task | in `WebConnection` and `Panel` |
| Web terminal (`TerminalApp.tsx`) | sessions, active tab, xterm instances, lastSeq, buffered output | bootstrap, attach, create, kill, snapshot, output, exited | web connection | async functions that overlap at every await, React rendering later than the state | the screen is the stream, the tabs are the sessions | `TerminalApp` |
| Keys and sizes (`TerminalApp.tsx`) | focus, mode, font, window, animation frames | typing, the tool bar, resizing, font steps | web connection, PTY | keyboard and size follow the active tab a frame later | keys reach their session, the PTY has the size shown | `TerminalInput` |
| Pairing (`Connect.tsx`, `relays.ts`, `target.ts`, `App.tsx`) | lists in localStorage, the form, the hash route | paste, pick, add, remove, connect, open a paired device | browser storage, other pages | pages with old lists over one storage; hash before route | nothing is forgotten or revived unasked | `Pairing` |
| Panel and relay control (`ws.rs`, `main.rs`, `config.rs`, `Relay.tsx`, `Overview.tsx`, `Shell.tsx`, `usePoll.ts`) | settings file, relay status, relay tasks, polls, views | connect, disconnect, add, remove, token; polling | relay client, pages | handlers on several threads, file written in place, crash, late polls | saved, shown and running agree | `Panel` |
| Session host client (`host_client.rs`, connections of `host_server.rs`) | shared writer, one pending collector, reader tasks; the host file | request with 3 tries and 10 s timeout, reconnect, spawning a host; accepting, serving one connection at a time | hosts over TCP | late answers, a stale reader task, requests repeated, two hosts at once | an answer belongs to its request, nothing is repeated without a timeout, a request returns | `HostLink` |
| Agent detector (`detector.rs`) | window of text, status | feed, mark_exited | session threads | chunk borders, trimming | the status is that of the last marker | – |
| Other pages, desktop launcher, generated files, deployment | rendering, one-shot requests | – | HTTP API | – | – | – |

The hazards (`PROJECT.json`, `hazards`) are listed at the line where each bites, with the
properties that would catch it or a note that says why there is none.

## 2. Modules

How they compose: `RelayHub` is the relay by itself. `WebConnection` composes the page, a room of
the relay reduced to its viewer seat and tunnel, and the daemon's end. `RequestContract` is the abstract
specification of `DaemonConnection.request`; `WebConnection` instantiates it with
`issued <- 1..nreq, open <- pending`, and implements it. `TerminalApp` is the page above such a connection
(up, down, frames in order), `HostLink` the daemon's way to its hosts, `PtySession` a session at a host, `TerminalInput` the keys and sizes between
the two. `Panel` composes pages, handlers, file and relay tasks. Each `MC` module extends its module
for TLC.

### RelayHub

One action is one section under `room.mu`, one look-up under `hub.mu`, or one socket event.

| TLA+ | code |
|---|---|
| `rooms`, `daemon`, `clients` | `hub.rooms`, `room.daemon`, `room.clients` |
| `queue`, `closed` | the buffered channel `conn.send`, and whether `close` ran |
| `rp[c]` | where `readPump` of `c` stands: reading (`hello`, `loop`), inside a hub call (`reg`, `join`, `fwd`, `kick`, `kicking`, `unreg`), replying (`ackOk`, `ackErr`), in its deferred clean-up (`exit`, `unreg`, `shut`), or gone (`done`, `dead`) |
| `ref[c]` | the room pointer it carries from `hub.mu` to `room.mu` |
| `victims[k]` | the slice `kickClients` iterates over after unlocking |
| `wp`, `sock` | `writePump`, and the TCP connection |
| `HelloDaemon`/`RegisterDaemon`, `HelloClient`/`JoinClient`, `ReadPayload`/`Forward`, `ReadKick`/`KickTake`/`KickOne`/`KickEnd`, `ExitLookup`/`Unregister` | the two (or more) sections of one hub call |
| `SendTo`, `Panics` | `sendMsg`: append, or close the channel of a full receiver; a send on a closed channel panics |

A panic unwinds `readPump` into its deferred clean-up (`exit`); `net/http` recovers it. A panic in the
clean-up skips the rest of it (`dead`). A frame keeps its kind and, for a payload, the device and role of
its sender. Any reason for refusing a hello is one action (`RejectHello`); the read deadline is part of `ReadFail`. In
`KickOne` the notice and the shutdown are one step: between them nothing happens another
goroutine could notice but a send to a channel about to be closed. An id without a room, a second hello
and a kick from a viewer change nothing and are no action. A room object no one can reach is made anew by
`HelloDaemon`, a finished connection by `Accept`: both overwrite every field.

### PtySession

| TLA+ | code |
|---|---|
| `rd`, `cur` | the reader thread; after a read come `PushRing`, `CountSeq`, `FeedDetector`, `SendOutput`, each a critical section of its own |
| `wt` | the waiter thread: `PollExit` or `PollError`, `WaiterClose`, `MarkExited`, `TellExited`, `WaiterRemove` |
| `srv` | the server task: the end of `create` (`Insert`), `Attach`, `Subscribe`, `Snapshot`, `Kill`, `KillClose`, `KillRemove`, `WriteEvent` |
| `ring`, `seq`, `sub`, `status`, `master`, `inMap` | the fields of `Session` and the map entry |
| `chan`, `conn` | the event channel of the connection being served |
| `screen`, `last` | what the terminal shows, and `lastSeq` of `TerminalApp` |

Chunk n is the n-th read of the PTY, and the ring holds chunks, not bytes. The terminal stays mounted, so
its `lastSeq` outlives a lost connection. A snapshot is shown in the step that takes it: the server
writes the reply before it takes the next event, and a reply lost with the connection is the same as not attaching.
What a chunk tells the detector is free. With `ConPTY` (Windows) the reader is woken only by the closed
master, otherwise by the end of the child; on Unix a descendant that keeps the PTY open is part of the child.

### WebConnection and RequestContract

| TLA+ | code |
|---|---|
| `ws`, `sock`, `keepalive` | `DaemonConnection.ws`, the `readyState` of every socket object, the keep-alive interval |
| `closed`, `status`, `timers`, `online` | `disposed` and why, the status `TerminalApp` shows, armed retry timers, `deviceOnline` |
| `key`, `priv`, `crypto` | `E2EClient`'s key and the proof it waits for; the daemon's `SessionCrypto` |
| `nreq`, `pending`, `resolved`, `served` | `nextReq`, the pending map, promises resolved, requests the daemon carried out |
| `up`, `toD`, `down` | frames from page to relay, relay to daemon, relay to page |
| `srv`, `seat`, `tunnel` | the relay's end of each socket, the viewer seat, the daemon's registration |
| `SockOpen`, `OnClose` (`SockGone`, `NetLoss`), `Dispatch`, `Retry`, `Visible`, `ManualReconnect`, `Leave` | the handlers of the socket and of the page |
| `OnProof`, `OnRequest`, `HostEvent`, `Kick`, `KickEarly` | the branches of `connect_and_run` |

A handler is one action, as in the browser. The faults: a connection lost at any time, a half-open path that
neither end notices, another viewer taking the seat, a kick in the middle of a handshake, the tunnel
breaking and coming back, a token that was changed. A slot is used again when nothing refers to it any more,
so the page may retry for ever in a finite model. Cryptography is symbolic: a session key is the pair of
public keys it came from, `Fresh` gives a key pair nothing refers to, and `Opens` is equality of keys.
`token = "none"` is a page that speaks to the local daemon (`?local=1`).

`RequestContract`: a request is issued once, served at most once, resolved at most once and only after the
daemon served it; an abandoned promise never resolves.

### TerminalApp

The async functions stop at each `await`: `calls[r]` says where the one waiting for request `r` goes on
(`boot`, `bootAttach`, `create`, `createList`, `attach`, `kill`, `refetch`). `list`, `active`, `mounted`, `ended`,
`pend`, `last` are the states and refs of the component, `screen[s]` the last chunk the terminal shows in
full order, or `Blank` after a hole, `whole[s]` (history) what it would show had it been there from the
beginning. `skipped` (history) are the sessions that the first bootstrap listed, did not attach because it started one
of its own, and a click had attached over an earlier connection. `Render` is React's next render; `Serve` and `Fanout` the daemon, whose answers overtake the events of the host.

### TerminalInput

A size is the window and the font it was computed from. `frames` are animation frames asked for and not yet
called, `render` and `observe` a pending render and a pending call of the ResizeObserver; `focus` is the terminal that has the
keyboard, `toD` the frames to the daemon, `pty` the sizes at the host. Every way a key is sent is an action:
typing, the pause button, the tool bar, the line of a touch screen. The line and the tool bar go to the active
session by definition (`from = None`), so `InputHome` speaks of terminals only.

### Pairing

Pages of one browser over one localStorage. `conns`, `relays`, `last` are `ra.connections`,
`ra.clientRelays`, `ra.lastRelay`; `form[t]` the connect form of a page with the lists it last read; `loc`,
`routed`, `term` the address, whether its route has been rendered, and the mounted terminal. Addresses are
normalised: a relay stands for all its spellings. `Offered` is empty on a page without a daemon. `Drop` is
`Array.filter`, by what is to go; `Imported` the loop that imports the relays of the daemon.

### Panel

`file` is `settings.json` or `Torn` between truncation and write; `req[h]` a request being served, with the copy
of the settings its handler works on and its step (`Load`, `Truncate`, `Write`, `Control`, `Untarget`);
`tasks` the relay tasks with their stop signal, `ctl` the one `RelayCtl` can stop, `local` the
status the API reports; `mode`, `busy`, `view`, `polls` a page. `kept` and `overlapped` are
history: what the saved requests made of the list, and whether two requests that save were served at once.
`Restart` is a crash at any step followed by a start.

### HostLink

| TLA+ | code |
|---|---|
| `ph`, `cur`, `tries`, `polls` | where the holder of `gate` stands: `collect`, `write`, `wait` are `request_once`; `connect`, `hand`, `spawn`, `poll`, `handAgain` are `reconnect` (for `start`, the same with `cur = None`); `down` is a daemon that gave up |
| `coll`, `buf` | `Shared.pending`: none, open, or handed over through the oneshot (`done`) |
| `writer`, `reader`, `conn` | `Shared.write`, the connections with a reader task, the connection inside `connect_into` |
| `at`, `side`, `up`, `down` | a TCP connection: its host; queued, served, busy with a line or having said its replies, closed; lines under way |
| `proc`, `file` | the host processes and `remoteagent-host.json` |
| `fate`, `got`, `gave`, `served`, `late` | history: what a request returned with, how often it timed out and was carried out, and whether one was given up whose answer may come |

A request has at most one reply frame: more would be matched in the same way. `input` and `resize`, which have none, are
the requests that go from `busy` to `served` without `Reply`. The 2 s of `connect` and
the 3 s of the hello are taken to be enough for a host that is free, and not for one that serves another
connection; the 10 s of a request may end whenever it waits. A connection that was given up before its host accepted it
is closed at once, not after the host has read its hello. `start` polls as often as `reconnect`; the code has 40 and 20.

## 3. Runs

Each property but the type invariants is aimed at a listed hazard, and for each checked property
`PROJECT.json` names a plausible mistake (an operator next to the original) with which TLC finds the property
violated. Deadlock is checked in the hub and PTY runs: the bounded relay rests only in `MCRest` (every
connection came and went), the session in `Rest`. The other systems really stop, when the bound on what users
and networks do is used up and nothing is under way (`HostLink` also when every host is occupied and the daemon gave
up), so their runs do not check it.

| run | instance | distinct states | shows |
|---|---|---|---|
| `hub_room` | 3 connections, 2 devices, 2 rooms, queue 2, 1 frame | 3.0 M | `TypeOK`, `NoGhostSeat`, `KickedIsOut`, `PresenceInStep`, `RoomIsolation`, `SeatLostOnlyByOwnerOrKick` |
| `hub_live` | 2 connections, queue 1, 2 frames, fair | 93 k | `GoneLeavesSeat`, `KickedIsClosed` |
| `pty_stream` | ring 2, 3 chunks, 2 attaches, 2 connections, ConPTY, fair | 925 k | `TypeOK`, `NoGap`, `NoRewind`, `OutputShown`, `ThreadsEnd` |
| `web_conn` | 2 sockets, 4 daemon keys, 1 request, 2 faults, 1 timer, fair | 1.3 M | `TypeOK`, `OneSocket`, `NeverStranded`, `KeysAgree`, `OfflineIsShown`, the refinement `KeepsContract`, `Recovers` |
| `web_term` | 2 sessions, 5 requests at a time, 1 chunk each, 2 acts | 591 k | `TypeOK`, `ScreenFollows`, `UpToDate`, `StartsOnce` |
| `term_input` | 2 sessions, 2 windows, 2 fonts, 3 acts | 3.8 M | `TypeOK`, `SizeFollows`, `InputHome` |
| `pairing` | 2 pages, 3 relays, 2 of them the daemon's, 1 device, lists of 2, 5 acts | 1.5 M | `TypeOK`, `RoutedRight`, `ListsChange` |
| `panel` | 1 page, 2 relays, 2 handlers, 2 tasks, 3 acts | 4.5 M | `TypeOK`, `AgreesAtRest`, `OneTask`, `ShownIsTrue`, `KeepsRelays` |
| `host_link` | 2 requests, 3 connections, 2 hosts, 2 tries, 1 poll, 1 crash or restart, fair | 1.5 M | `TypeOK`, `ServedOnce`, `AnswersMatch`, `RequestReturns` |

Three runs show a disagreement between the code and what it says of itself:

| run | said | what happens |
|---|---|---|
| `hub_slow_viewer` | a slow consumer does not drag the room down (`hub.go:38`); the daemon's tunnel outlives a kick (`protocol.md:162`) | the next frame or the notice of the kick is sent on a closed channel and panics in the daemon's goroutine |
| `web_busy` | a page that finds the device busy connects by itself when the other window is closed (the banner of `TerminalApp.tsx:630`) | `onError` has closed the connection for good; no timer and no button opens another |
| `host_late` | one request is under way at a time, so answers need no number (`host_client.rs:3`) | a request times out while the host is busy; its `host.reply.end` comes late, on the connection the old reader task still reads, and completes the next request |

Bounds. In the hub three connections are a daemon, its viewer and one that replaces either, or that belongs
to another device; two rooms are the room of a device and that of the other, or a room and its orphan; a queue of
two fills as 64 entries do, and fills with notices and replies alone, so that one frame gives every kick, forward
and ping against each of those states. A ring of two with three chunks is trimmed, and three chunks are needed for a hole; two attaches are a
first and a repeated one. In `WebConnection` two sockets are the current and a replaced one: a third
waits until nothing of the first is left. One request and the bootstrap's are enough for an answer too late;
two faults are one during the recovery from another; four keys are those two faults can keep in use. In `TerminalApp`
two sessions are one shown and one coming or going, one chunk distinguishes a snapshot from live output, and of five request ids
one is always free, so that no handler waits for one; acts are clicks, chunks, exits and lost links. In `TerminalInput` three acts are a switch, a change of size and a loss. In
`Pairing` two pages are one with an old list, five acts fill both forms and use them; of two relays of the daemon the
import of one may push the other out of a list of two. In `Panel` two handlers overlap, two
tasks are an old and a new one, three acts two requests and a crash.

In `HostLink` two requests are one given up and the next, three connections the old, the current and one in its
handshake, two hosts the one that is busy or dead and its successor; a free connection is used again, so a request may reconnect at
every try.

Symmetry and view. Only model values that no `CHOOSE` selects among are symmetric, and no leads-to property is
checked with symmetry. The view `Live` of the hub forgets the fields of an unreachable room and the device and
role of a finished connection with an empty queue, which are overwritten before they are read. The view of `panel` forgets the copy and the
address of a request that no later step of it uses, and `kept` while requests overlapped, which a restart makes anew.

Fairness. `RelayHub`: Go runs every goroutine that can run, and a read on a closed socket returns an error. Writing a
frame is assumed to end; `WriteMessage` has no deadline, so that rests on the kernel taking the frame or
reporting the peer gone. `PtySession`: the two threads and the server task run. `WebConnection`: the
browser runs timers and handlers, relay and daemon read what arrives (including their deadlines on dead
connections), the daemon redials, another viewer does not stay for ever. Nothing is fair about requests, faults or
the reconnect button. `HostLink`: the daemon's
task and its timer run, so do the reader tasks and the accept loop of a host, and a host that is not busy notices that
its connection was closed; how long it takes over a request is free. Nothing is
assumed of users, children or peers.

`Recovers` excepts a half-open socket that nothing probes: the close event of a replaced socket clears the
keep-alive of the new one (`daemon.ts:73`), and such a page waits until the browser or the user acts.

## 4. Proofs

The prover checks, for every value of the constants that satisfies the named assumptions:

| module | theorems |
|---|---|
| `RelayHub_proofs` | `TypeCorrect`, `NoGhostSeats`, `Isolation` (`RoomIsolation`), `KickedAreOut`, `PresenceIsInStep`, `SeatsAreKept` |
| `PtySession_proofs` | `TypeCorrect`, `NothingIsMissed` (`NoGap`), `NothingIsTakenBack` (`NoRewind`) |
| `WebConnection_proofs` | `TypeCorrect`, `SocketIsSingle` (`OneSocket`), `PageIsNeverStranded` (`NeverStranded`), `KeysDoAgree` (`KeysAgree`), `OfflineIsKnown` (`OfflineIsShown`), `ConnectionKeepsContract` (the refinement `Spec => Contract!Spec`) |
| `TerminalApp_proofs` | `TypeCorrect`, `StartsOnlyOnce` (`StartsOnce`), `ScreensDoFollow` (`ScreenFollows`), `RestsUpToDate` (`UpToDate`) |
| `TerminalInput_proofs` | `TypeCorrect`, `KeysStayHome` (`InputHome`), `SizeDoesFollow` (`SizeFollows`) |
| `Pairing_proofs` | `TypeCorrect`, `RouteIsRight` (`RoutedRight`), `ListsDoChange` (`ListsChange`) |
| `HostLink_proofs` | `TypeCorrect`, `AnswersAreOwn` (`AnswersMatch`), `IsServedOnce` (`ServedOnce`) |
| `Panel_proofs` | `TypeCorrect`, `TaskIsSingle` (`OneTask`), `OnlineIsTruthful` (`OnlineIsTrue`), `AgreementAtRest` (`AgreesAtRest`), `RelaysAreKept` (`KeepsRelays`), `WhatIsShownIsTrue` (`ShownIsTrue`) |

*RelayHub.* `Typed` is inductive by itself. The others are proved with `IInv`, which adds `Keyed` (two devices never
share a room), `OneDevicePerRoom` (whoever sits in a room or holds its pointer came for the same device:
what keeps payloads apart although `forward` works with an old pointer), `SeatInv`, `VictimInv` and `NoticeInv` (a
viewer to be told, or told, of a kick sits nowhere), and `ServingInv` (the holder of a seat of a reachable room is
still going to unregister, on this room). Each has a lemma with one step per action; `NewFrames` gives
the origin of every frame a step queues. For `PresenceInStep` it has `OneViewer` (a notice goes to the one viewer there
is), `EarlyInv` (a connection that never joined was never notified, so that one that joins starts with what it is
told then) and `PresenceInv`, the same in terms of the last notice (`Tells`), which appending a frame preserves or decides.

*PtySession.* `NoGap` speaks of what is on the screen; why the next output fits is in the reader, the ring and the
channel. `Streams` therefore adds: `CountInv` (`seq` is the chunk in hand, or the one before between push
and count), `RingInv` (the ring is the end of what was pushed), `ChanInv` (outputs in the channel are in
order, none is above what was sent, and, once the snapshot was taken, none that was sent since is missing), and
`ScreenInv` (the screen ends with the chunk `lastSeq` counts, or with the one after, when the
snapshot fell between push and count). From these, `NextOutput`: an output that is not dropped is the next one.

*WebConnection.* `Typed` says of the frames on the wire that requests were made and answers given, which makes a
resolved promise one the daemon served. `Alive` (`OneSocket` and `NeverStranded`) is inductive on top of it. For the
refinement every action is a step of `RequestContract` (`Issue`, `Serve`, `Resolve`, `Abandon`) or a
stutter. `KeysAgree` and `OfflineIsShown` speak of a moment when everything has been read; before it, what is still to be read
counts. `Slots`: a hello is the first frame of its socket, and whoever has the seat is in the room. `Hailed`: a page in the seat
still has its greeting to read, or awaits the answer to its own proof and to no other. `KeyInv`: the last key on its
way to the page is the daemon's, or none is and the page has it. `OfflineInv`: the same for the last notice.

*TerminalApp.* The proofs need to know what `Replay` makes of a buffer that grows, at its end or after a render: an
induction over its length. `OnceInv`: before the first bootstrap is through nothing was started. `FollowInv`: what is shown, or what
the buffer makes of a blank screen, is `whole`, except for a session of which nothing more will be heard (`Over`), which there
is because its exit is the last event of it on its way (`ExitsLast`). `FreshInv`: every request under way has an id of its own
(`OneId`), the events of a session on their way follow each other without a hole, and the last is up to date (`Stream`), and so
an attached session is brought up to date by them (`Current`: there is a snapshot among them, or the first one fits what is
shown), or a bootstrap is under way that will attach it (`Pending`).

*TerminalInput.* `Keyed`: types, every frame asked for belongs to a terminal that exists, and every key on its way is at
home. `Sized`: an animation frame that fits without telling is followed by one that tells (`Paired`); with none of these due
for the active session, and no render, it is fitted (`FitInv`), and the last size on its way to the PTY, or the PTY's when
none is, is the one it is shown in (`ToldInv`).

*Pairing.* `DropFacts` (what `filter` leaves, and in which order) and `ImportedFacts` (what was imported stands in front of a
first part of the list, `Behind`, and the list is full if a part is missing) are inductions over the length of a list; from
the first, `Renewed` says what an `unshift` after a `filter` makes of a full list. `Rendered`: once the route has been
rendered the terminal has the key of the address. For `ListsChange`, a relay that the form's import pushed out
implies a newcomer by counting places (`SomeNew`).

*HostLink.* `Typed` adds `Where`: what each point of a request may rely on, and that a busy host has a line before it.
`Positions`: the writer's connection is read, the one in its handshake has carried nothing, and a collector exists from
the write to the return. `Matched`: as long as nothing was given up whose answer may come (`late`), at most one connection
that is read has anything on it, and then a request waits with an open collector and `Flow` holds: all that is on it is
that request and its frames, and `host.reply.end` is the last of them. `Counted`: how often a request was carried out, the
copies of it a host may still read, and the attempt that may still be written, are together at most one more than its
timeouts; a connection that breaks takes its copies with it.

*Panel.* `Tasked`: the task `ctl` names is alive and not told to stop, no other is, and a relay shown online has
a task that is registered or told to stop. `Saved`: as long as no two requests overlapped, `Phase` says for each step
of a request how file, copy, status and task relate, `Idle => Agree` that they agree between requests, and
`FileInv` that the active relay is listed, so that `Read` changes nothing.

Three properties that the runs had passed turned out to be false for larger instances when their proofs failed, and
now say what does hold. `KeysAgree` failed with three faults: a page that was kicked may be ready while its last proof has changed the
daemon's key; it now has the page in the seat. `UpToDate` failed with four acts: a click attaches a session over a connection whose bootstrap
was never answered, and the bootstrap of the next connection starts a session of its own and attaches none; it
now excepts what was `skipped`, which the bound of the run does not reach. `ListsChange` failed with two relays of the
daemon: importing one pushes the other out, importing that one pushes a third out, and the older of the
two stays; it now says so.

Induction: the library's rules take an operator as a parameter, which the provers cannot instantiate, so
`TerminalApp_proofs` and `Pairing_proofs` have a rule of their own (`Induction`) over sets of naturals, from the least
element of a well-founded order (`WFMin`). Recursive functions are reached through a `LEMMA` that says they exist.

Only model-checked is liveness (`GoneLeavesSeat`, `KickedIsClosed`, `OutputShown`, `ThreadsEnd`, `Recovers`,
`RequestReturns`), which is beyond the prover. `OnlineIsTrue` is only proved. Every other property of a passing run is proved.

## 5. Known, and not stated as properties

Found while modelling, at the lines given; the properties above are stated so that they hold beside them.

- A room dropped between look-up and registration leaves a registered daemon in a room nobody reaches
  (`hub.go:94`), and a late clean-up may delete the occupied successor of its room (`hub.go:216`).
- A viewer may join and send before the daemon's `hello_ack` is queued (`main.go:139`).
- A snapshot between push and count shows that chunk twice (`session.rs:272-273`).
- A child that exits before `create` inserts it stays listed (`session.rs:293`); output read after
  `mark_exited` sets a finished agent to working (`session.rs:275`).
- Two settings requests served at once lose one change (`main.rs:384`); hence `overlapped`. A crash
  between truncation and write loses the list (`config.rs:164`); hence `kept` after a restart.
- `reconnect()` leaves the promises of the old socket unresolved (`daemon.ts:168`).
- `?new=` is lost when the link drops before the answer (`TerminalApp.tsx:217`); after a
  reconnection the last session attached is shown (`TerminalApp.tsx:227`).
- The first bootstrap with `?new=` attaches none of the sessions it lists (`TerminalApp.tsx:217`): one that a click had
  attached over an earlier connection stays as it was until its tab is clicked.
- A form that imports several relays of the daemon into a full list may lose one the browser knew and keep an older one
  that is the daemon's too (`Connect.tsx:121`).
- The reader task of a lost connection drops the writer of the new one (`host_client.rs:183`): one more try, and
  one more connection. A request that timed out and was carried out is carried out again (`host_client.rs:196`).
- A host that is busy, or still serves a connection that was given up, does not answer the hello of `reconnect`: another
  is spawned beside it (`host_client.rs:249`), takes over the host file, and the sessions of the first are out of reach.
- A new token for the device that is shown is ignored until the page is opened again (`App.tsx:64`).
- The line of a touch screen goes to whatever session is active when it is sent (`TerminalApp.tsx:140`).

## 6. Not modelled

- The detector (`detector.rs`): a function over texts; its hazard is listed without a property.
- The lag of the event broadcast (`relay_client.rs:132`): a lagging terminal is repaired by the next snapshot only.
- Pull-to-refresh, the QR code of the wizard, notifications, themes, clipboard, the quick-launch list, the help page:
  state of one component for the length of a gesture or a request.
- Cryptographic primitives, wording, rendering, HTTP routes that only read, the desktop launcher, generated and
  deployment files.
- Several polls of a page at once: `Panel` has them and the proofs hold for any number, the run has one.
- Several viewers: the relay and the local panel admit one; a local and a relay viewer at once may size the same
  PTY against each other, which `TerminalInput` has only as `OtherViewer` between two visits.

Worth doing next: a `Seats` specification that `RelayHub` implements and `WebConnection` uses in the place of its
room.

## 7. Running

    tlc -workers 2 -config hub_room.cfg MCRelayHub.tla       # any run: <name>.cfg with its MC module
    tlapm Panel_proofs.tla                                   # any *_proofs module

`web_*` use `MCWebConnection` except `web_term` (`MCTerminalApp`); `host_*` (`MCHostLink`), `term_input`, `pairing`, `panel` and `pty_stream` use
the MC module of that name.
