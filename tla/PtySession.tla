----------------------------- MODULE PtySession -----------------------------
(***************************************************************************)
(* One PTY session of the session host (daemon/src/session.rs,             *)
(* host_server.rs) and the terminal that shows it (web TerminalApp.tsx).   *)
(*                                                                         *)
(*  - the reader thread takes chunks from the PTY; for each it pushes the  *)
(*    ring, counts seq, feeds the agent detector and sends the output to   *)
(*    the subscriber: four critical sections, not one;                     *)
(*  - the waiter thread polls the child, closes the PTY, marks the agent   *)
(*    finished, tells the subscriber and removes the session from the map; *)
(*  - the server task serves one connection at a time: a request is        *)
(*    handled from beginning to end before the next event is written, but  *)
(*    the threads run in between its steps.  It starts inside create, with *)
(*    the threads spawned and the session not yet in the map.              *)
(*                                                                         *)
(* Chunk n is the n-th read of the PTY.  The unit of the ring is a chunk   *)
(* (bytes in the code), so trimming never cuts one.                        *)
(***************************************************************************)
EXTENDS Naturals, Sequences

CONSTANTS RingCap,     \* chunks the ring keeps (RING_CAP = 200 KiB in the code)
          MaxChunks,   \* bound: chunks the program and its descendants write
          MaxAttaches, \* bound: session.attach requests
          MaxConns,    \* bound: connections the host serves
          Agent,       \* TRUE: the command is one the detector knows (codex)
          ConPTY       \* TRUE on Windows: the reader's EOF comes from the closed master

ASSUME BoundsAssumption ==
  /\ RingCap \in Nat \ {0} /\ MaxChunks \in Nat /\ MaxAttaches \in Nat
  /\ MaxConns \in Nat \ {0} /\ Agent \in BOOLEAN /\ ConPTY \in BOOLEAN

VARIABLES
  alive,     \* the child process runs
  written,   \* chunks written to the PTY so far
  master,    \* Session.master is Some: the PTY master is open
  rd, cur,   \* the reader thread: its control point and its chunk
  ring, seq, \* Session.ring, Session.seq
  wt,        \* the waiter thread's control point
  inMap,     \* SessionManager.sessions has the session
  sub,       \* Session.subscriber: the connection whose channel it is, or 0
  status,    \* Session.agent_state: "none", "finished", or "working" for any other
  conn,      \* the connection being served, counted from 1
  srv,       \* the server task's control point
  chan,      \* the events in the connection's channel
  attaches,  \* session.attach requests served so far
  screen,    \* the terminal: the chunks it shows, in order
  last       \* TerminalApp lastSeq of the session; 0 stands for undefined

procVars   == <<alive, written>>
readerVars == <<rd, cur>>
ringVars   == <<ring, seq>>
servVars   == <<conn, srv, attaches>>
viewVars   == <<screen, last>>
vars == <<alive, written, master, rd, cur, ring, seq, wt, inMap, sub, status,
          conn, srv, chan, attaches, screen, last>>

Chunk == 1..MaxChunks
Event == [k : {"output", "agent", "exited"}, n : 0..MaxChunks, seq : 0..MaxChunks]
Output(n, s) == [k |-> "output", n |-> n, seq |-> s]
Notice(t)    == [k |-> t, n |-> 0, seq |-> 0]

TypeOK ==
  /\ alive \in BOOLEAN /\ written \in 0..MaxChunks /\ master \in BOOLEAN
  /\ rd \in {"read", "push", "count", "feed", "send", "eof"} /\ cur \in 0..MaxChunks
  /\ ring \in Seq(Chunk) /\ Len(ring) <= RingCap /\ seq \in 0..MaxChunks
  /\ wt \in {"poll", "close", "mark", "tell", "remove", "done"}
  /\ inMap \in BOOLEAN /\ sub \in 0..MaxConns
  /\ status \in {"none", "working", "finished"}
  /\ conn \in 1..MaxConns /\ srv \in {"create", "idle", "subscribe", "snapshot", "close", "remove"}
  /\ chan \in Seq(Event) /\ attaches \in 0..MaxAttaches
  /\ screen \in Seq(Chunk) /\ last \in 0..MaxChunks

Init ==
  /\ alive = TRUE /\ written = 0 /\ master = TRUE
  /\ rd = "read" /\ cur = 0 /\ ring = << >> /\ seq = 0
  /\ wt = "poll" /\ inMap = FALSE /\ sub = 0 /\ status = "none"
  /\ conn = 1 /\ srv = "create" /\ chan = << >> /\ attaches = 0
  /\ screen = << >> /\ last = 0

\* tx.send under the subscriber lock: lost when nobody subscribed or when the
\* subscriber's connection, and with it the receiver, is gone.
Tell(e) == chan' = IF sub = conn THEN Append(chan, e) ELSE chan

-----------------------------------------------------------------------------
(* The child process and its descendants.                                  *)

Write ==
  /\ written < MaxChunks /\ written' = written + 1
  /\ UNCHANGED <<alive, master, readerVars, ringVars, wt, inMap, sub, status, servVars, chan, viewVars>>

Exit ==
  /\ alive /\ alive' = FALSE
  /\ UNCHANGED <<written, master, readerVars, ringVars, wt, inMap, sub, status, servVars, chan, viewVars>>

-----------------------------------------------------------------------------
(* The reader thread.                                                      *)

\* The order of its sections.
PushLast   == [read |-> "count", count |-> "feed", feed |-> "send", send |-> "push", push |-> "read"]
AfterSection == [read |-> "push", push |-> "count", count |-> "feed", feed |-> "send", send |-> "read"]

ReadChunk ==
  /\ rd = "read" /\ cur < written
  /\ cur' = cur + 1 /\ rd' = AfterSection.read
  /\ UNCHANGED <<procVars, master, ringVars, wt, inMap, sub, status, servVars, chan, viewVars>>

\* read returns 0 or an error: on Unix when the child is gone and the PTY is drained,
\* on Windows not before the master is closed.
ReadEof ==
  /\ rd = "read"
  /\ IF ConPTY THEN ~master ELSE ~alive /\ cur = written
  /\ rd' = "eof"
  /\ UNCHANGED <<procVars, master, cur, ringVars, wt, inMap, sub, status, servVars, chan, viewVars>>

\* push_ring: append, and drop the overflow from the front.
TrimmedLate(s) == SubSeq(s, IF Len(s) > RingCap + 1 THEN Len(s) - RingCap ELSE 1, Len(s))

Trimmed(s) == SubSeq(s, IF Len(s) > RingCap THEN Len(s) - RingCap + 1 ELSE 1, Len(s))

PushRing ==
  /\ rd = "push" /\ rd' = AfterSection.push
  /\ ring' = Trimmed(Append(ring, cur))
  /\ UNCHANGED <<procVars, master, cur, seq, wt, inMap, sub, status, servVars, chan, viewVars>>

CountSeq ==
  /\ rd = "count" /\ rd' = AfterSection.count
  /\ seq' = seq + 1
  /\ UNCHANGED <<procVars, master, cur, ring, wt, inMap, sub, status, servVars, chan, viewVars>>

\* The detector's guard lives to the end of the if-let: feeding, storing the snapshot
\* and sending it are one section.  What a chunk says of the agent is the program's.
FeedDetector ==
  /\ rd = "feed" /\ rd' = AfterSection.feed
  /\ \/ UNCHANGED <<status, chan>>
     \/ Agent /\ \E s \in {"working", "finished"} : status' = s /\ Tell(Notice("agent"))
  /\ UNCHANGED <<procVars, master, cur, ringVars, wt, inMap, sub, servVars, viewVars>>

\* The output goes out with seq as it was before this chunk.
SendOldSeq ==
  /\ rd = "send" /\ rd' = AfterSection.send
  /\ Tell(Output(cur, seq - 1))
  /\ UNCHANGED <<procVars, master, cur, ringVars, wt, inMap, sub, status, servVars, viewVars>>

SendOutput ==
  /\ rd = "send" /\ rd' = AfterSection.send
  /\ Tell(Output(cur, seq))
  /\ UNCHANGED <<procVars, master, cur, ringVars, wt, inMap, sub, status, servVars, viewVars>>

-----------------------------------------------------------------------------
(* The waiter thread.                                                      *)

PollExit ==
  /\ wt = "poll" /\ ~alive /\ wt' = "close"
  /\ UNCHANGED <<procVars, master, readerVars, ringVars, inMap, sub, status, servVars, chan, viewVars>>

\* try_wait fails: the waiter gives up on a child it cannot wait for.
PollError ==
  /\ wt = "poll" /\ alive /\ wt' = "close"
  /\ UNCHANGED <<procVars, master, readerVars, ringVars, inMap, sub, status, servVars, chan, viewVars>>

\* The child is gone: close the master, which is what wakes a ConPTY reader.
WaiterKeepsMaster ==
  /\ wt = "close" /\ wt' = "mark"
  /\ UNCHANGED <<procVars, master, readerVars, ringVars, inMap, sub, status, servVars, chan, viewVars>>

WaiterClose ==
  /\ wt = "close" /\ wt' = "mark" /\ master' = FALSE
  /\ UNCHANGED <<procVars, readerVars, ringVars, inMap, sub, status, servVars, chan, viewVars>>

\* mark_exited reports nothing when no agent is known or it is finished already.
MarkExited ==
  /\ wt = "mark" /\ wt' = "tell"
  /\ IF Agent /\ status # "finished"
     THEN status' = "finished" /\ Tell(Notice("agent"))
     ELSE UNCHANGED <<status, chan>>
  /\ UNCHANGED <<procVars, master, readerVars, ringVars, inMap, sub, servVars, viewVars>>

TellExited ==
  /\ wt = "tell" /\ wt' = "remove"
  /\ Tell(Notice("exited"))
  /\ UNCHANGED <<procVars, master, readerVars, ringVars, inMap, sub, status, servVars, viewVars>>

WaiterRemove ==
  /\ wt = "remove" /\ wt' = "done" /\ inMap' = FALSE
  /\ UNCHANGED <<procVars, master, readerVars, ringVars, sub, status, servVars, chan, viewVars>>

-----------------------------------------------------------------------------
(* The server task.                                                        *)

\* The end of SessionManager.create.
Insert ==
  /\ srv = "create" /\ srv' = "idle" /\ inMap' = TRUE
  /\ UNCHANGED <<procVars, master, readerVars, ringVars, wt, sub, status, conn, attaches, chan, viewVars>>

\* The order of the attach handler: it subscribes before it takes the snapshot.
SnapshotFirst == [attach |-> "snapshot", snapshot |-> "subscribe", subscribe |-> "idle"]
AfterAttach   == [attach |-> "subscribe", subscribe |-> "snapshot", snapshot |-> "idle"]

\* session.attach: the handler holds its own Arc from here on.
Attach ==
  /\ srv = "idle" /\ inMap /\ attaches < MaxAttaches
  /\ attaches' = attaches + 1 /\ srv' = AfterAttach.attach
  /\ UNCHANGED <<procVars, master, readerVars, ringVars, wt, inMap, sub, status, conn, chan, viewVars>>

Subscribe ==
  /\ srv = "subscribe" /\ srv' = AfterAttach.subscribe /\ sub' = conn
  /\ UNCHANGED <<procVars, master, readerVars, ringVars, wt, inMap, status, conn, attaches, chan, viewVars>>

\* snapshot, and its reply, which the server writes before any later event: the
\* terminal is reset to the ring and takes the snapshot's seq as its baseline.
Snapshot ==
  /\ srv = "snapshot" /\ srv' = AfterAttach.snapshot
  /\ screen' = ring /\ last' = seq
  /\ UNCHANGED <<procVars, master, readerVars, ringVars, wt, inMap, sub, status, conn, attaches, chan>>

\* session.kill: kill the child, close the master, drop the map entry.
Kill ==
  /\ srv = "idle" /\ inMap /\ srv' = "close" /\ alive' = FALSE
  /\ UNCHANGED <<written, master, readerVars, ringVars, wt, inMap, sub, status, conn, attaches, chan, viewVars>>

KillClose ==
  /\ srv = "close" /\ srv' = "remove" /\ master' = FALSE
  /\ UNCHANGED <<procVars, readerVars, ringVars, wt, inMap, sub, status, conn, attaches, chan, viewVars>>

KillRemove ==
  /\ srv = "remove" /\ srv' = "idle" /\ inMap' = FALSE
  /\ UNCHANGED <<procVars, master, readerVars, ringVars, wt, sub, status, conn, attaches, chan, viewVars>>

\* The next event of the channel, written to the connection and shown: an output whose
\* seq is not above the last one seen is dropped.
WriteEvent ==
  /\ srv = "idle" /\ chan # << >>
  /\ chan' = Tail(chan)
  /\ LET e == Head(chan) IN
       /\ inMap' = (inMap /\ e.k # "exited")
       /\ IF e.k = "output" /\ e.seq > last
          THEN screen' = Append(screen, e.n) /\ last' = e.seq
          ELSE UNCHANGED viewVars
  /\ UNCHANGED <<procVars, master, readerVars, ringVars, wt, sub, status, servVars>>

\* The connection ends and the host accepts the next one; the session lives on.  Its
\* subscriber still is the channel of the old connection.
Reconnect ==
  /\ srv = "idle" /\ conn < MaxConns
  /\ conn' = conn + 1 /\ chan' = << >>
  /\ UNCHANGED <<procVars, master, readerVars, ringVars, wt, inMap, sub, status, srv, attaches, viewVars>>

-----------------------------------------------------------------------------
Reader == ReadChunk \/ ReadEof \/ PushRing \/ CountSeq \/ FeedDetector \/ SendOutput
Waiter == PollExit \/ PollError \/ WaiterClose \/ MarkExited \/ TellExited \/ WaiterRemove
Server == Insert \/ Subscribe \/ Snapshot \/ KillClose \/ KillRemove \/ WriteEvent
Client == Attach \/ Kill \/ Reconnect

\* The waiter and every request and event are gone and the reader is in no section: the
\* host may stay so.  Whether the reader ended or is blocked for ever is ThreadsEnd.
Rest ==
  /\ rd \in {"read", "eof"} /\ wt = "done" /\ srv = "idle" /\ chan = << >>
  /\ UNCHANGED vars

Next == Write \/ Exit \/ Reader \/ Waiter \/ Server \/ Client \/ Rest

Spec == Init /\ [][Next]_vars

\* Both threads and the server task are scheduled; a read of an ended PTY returns.
FairSpec == Spec /\ WF_vars(Reader) /\ WF_vars(Waiter) /\ WF_vars(Server)

-----------------------------------------------------------------------------
(* Properties.                                                             *)

\* The terminal never misses a chunk between two it shows: subscribing before the
\* snapshot closes the gap between the ring and the live output (host_server.rs:194-195).
NoGap ==
  \A i \in 1..Len(screen)-1 : screen[i+1] \in {screen[i], screen[i] + 1}

\* A repeated attach never takes back a chunk that was shown: whatever was sent is in
\* the ring already, or was trimmed by something newer (session.rs:272, 281-283).
NoRewind ==
  [][screen # << >> => screen' # << >> /\ screen'[Len(screen')] >= screen[Len(screen)]]_screen

\* A terminal that is sent a chunk is shown all that was read by then, unless the connection
\* is lost: it always catches up with the reader (host_server.rs:92-118, 195).
OutputShown ==
  \A c \in 1..MaxConns :
    (rd = "send" /\ sub = c /\ conn = c) ~> (conn # c \/ \E i \in 1..Len(screen) : screen[i] >= cur)

\* An ended or killed session leaves no thread behind (session.rs:30-31, 111-115).
ThreadsEnd == ~alive ~> (rd = "eof" /\ wt = "done")

=============================================================================
