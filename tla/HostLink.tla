------------------------------- MODULE HostLink -------------------------------
(***************************************************************************)
(* The daemon's client of the session host (daemon/src/host_client.rs) and *)
(* the connections of the host (daemon/src/host_server.rs): request() with *)
(* its collector, its timeout and its three tries, reconnect() and start() *)
(* that dial the host of the host file or spawn another, one reader task   *)
(* per connection, and hosts that serve one connection at a time.          *)
(*                                                                         *)
(*  - gate: one call of request() at a time; cur is its request, ph the    *)
(*    point it stands at.  start() goes through the same points, with no   *)
(*    request (cur = None);                                                *)
(*  - collector, reply frames and host.reply.end are matched by position,  *)
(*    whatever connection they come from;                                  *)
(*  - the 10 s of a request may end at any time.  A host that is free      *)
(*    answers a hello within the 3 s it is given; a host that serves       *)
(*    another connection does not answer at all;                           *)
(*  - requests, connections and processes are as good as one another: the *)
(*    one that CHOOSE finds is taken;                                      *)
(*  - events of the sessions go to the broadcast and are not here          *)
(*    (PtySession, TerminalApp).                                           *)
(***************************************************************************)
EXTENDS Naturals, Sequences

CONSTANTS Req,         \* requests of the relay's viewer and of the local one
          Conn,        \* connections between daemon and host, used again
          Host,        \* processes of the session host, used again
          None,        \* no request, no connection, no host
          MaxTries,    \* attempts of a request (3 in the code)
          MaxPolls,    \* attempts to reach a host that was spawned (20, or 40 at the start)
          MaxFaults    \* bound: crashes of a host, restarts of the daemon

ASSUME BoundsAssumption == MaxTries \in Nat \ {0} /\ MaxPolls \in Nat /\ MaxFaults \in Nat
ASSUME NoneAssumption   == None \notin Req /\ None \notin Conn /\ None \notin Host

VARIABLES
  ph, cur, tries, polls, \* where request() or start() stands; its request, attempts and polls
  coll, buf,             \* pending: no collector, an open one, or one whose frames were handed
                         \* over; the requests its frames answer
  writer, reader,        \* Shared.write; the connections whose reader task runs
  conn,                  \* the connection whose handshake is under way
  at, side,              \* of a connection: its host until closed, what the host does with it
  up, down,              \* of a connection: requests to the host, frames to the daemon
  proc, file,            \* the processes; the host that the host file names
  fate, got,             \* of a request: what became of it, the requests its answer was for
  gave, served,          \* history: how often it timed out, and was carried out
  late,                  \* history: a request was given up whose answer might still come
  faults

call    == <<ph, cur, tries, polls>>
pending == <<coll, buf>>
link    == <<writer, reader, conn>>
wire    == <<at, side, up, down>>
hosts   == <<proc, file>>
answers == <<fate, got>>
history == <<gave, served, late>>
vars    == <<call, pending, link, wire, hosts, answers, history, faults>>

Frame == [t : {"reply", "end"}, req : Req]

TypeOK ==
  /\ ph \in {"connect", "hand", "spawn", "poll", "handAgain", "down", "idle", "collect", "write", "wait"}
  /\ cur \in Req \cup {None} /\ tries \in 0..MaxTries /\ polls \in 0..MaxPolls
  /\ coll \in {"none", "open", "done"} /\ buf \in Seq(Req)
  /\ writer \in Conn \cup {None} /\ reader \subseteq Conn /\ conn \in Conn \cup {None}
  /\ at \in [Conn -> Host \cup {None}]
  /\ side \in [Conn -> {"queued", "served", "busy", "said", "closed"}]
  /\ up \in [Conn -> Seq(Req)] /\ down \in [Conn -> Seq(Frame)]
  /\ proc \in [Host -> {"off", "boot", "up"}] /\ file \in Host \cup {None}
  /\ fate \in [Req -> {"new", "asked", "answered", "unavailable", "lost"}] /\ got \in [Req -> Seq(Req)]
  /\ gave \in [Req -> Nat] /\ served \in [Req -> Nat] /\ late \in BOOLEAN
  /\ faults \in 0..MaxFaults

\* A daemon that starts, and no host yet.
Init ==
  /\ ph = "connect" /\ cur = None /\ tries = 0 /\ polls = 0
  /\ coll = "none" /\ buf = << >>
  /\ writer = None /\ reader = {} /\ conn = None
  /\ at = [c \in Conn |-> None] /\ side = [c \in Conn |-> "closed"]
  /\ up = [c \in Conn |-> << >>] /\ down = [c \in Conn |-> << >>]
  /\ proc = [h \in Host |-> "off"] /\ file = None
  /\ fate = [r \in Req |-> "new"] /\ got = [r \in Req |-> << >>]
  /\ gave = [r \in Req |-> 0] /\ served = [r \in Req |-> 0] /\ late = FALSE
  /\ faults = 0

Fault == faults < MaxFaults /\ faults' = faults + 1

\* Whether the daemon can still write to, or hears, a connection.
Writable(c) == c = writer \/ c = conn
Heard(c)    == c \in reader \/ c = conn

\* One that was given up before its host accepted it is closed as soon as that does: it is
\* taken to be closed at once, and its slot can be used again.
Free(c) == ~Writable(c) /\ ~Heard(c) /\ side[c] \in {"closed", "queued"}

-----------------------------------------------------------------------------
(* request() and request_once().                                           *)

Begin(r) ==
  /\ ph = "idle" /\ fate[r] = "new" /\ r = (CHOOSE q \in Req : fate[q] = "new")
  /\ ph' = "collect" /\ cur' = r /\ tries' = 0 /\ fate' = [fate EXCEPT ![r] = "asked"]
  /\ UNCHANGED <<polls, pending, link, wire, hosts, got, history, faults>>

Collect ==
  /\ ph = "collect" /\ ph' = "write" /\ coll' = "open" /\ buf' = << >>
  /\ UNCHANGED <<cur, tries, polls, link, wire, hosts, answers, history, faults>>

\* An attempt that failed: reconnect, whether or not another attempt follows.
Fail == ph' = "connect" /\ tries' = tries + 1 /\ coll' = "none" /\ buf' = << >> /\ UNCHANGED <<cur, polls>>

WriteFails ==
  /\ ph = "write" /\ (writer # None => side[writer] = "closed")
  /\ Fail /\ UNCHANGED <<link, wire, hosts, answers, history, faults>>

\* What is written to a connection that the host has closed is lost.
Write ==
  /\ ph = "write" /\ writer # None /\ ph' = "wait"
  /\ up' = IF side[writer] = "closed" THEN up ELSE [up EXCEPT ![writer] = Append(@, cur)]
  /\ UNCHANGED <<cur, tries, polls, pending, link, at, side, down, hosts, answers, history, faults>>

Return ==
  /\ ph = "wait" /\ coll = "done"
  /\ ph' = "idle" /\ cur' = None /\ coll' = "none" /\ buf' = << >>
  /\ fate' = [fate EXCEPT ![cur] = "answered"] /\ got' = [got EXCEPT ![cur] = buf]
  /\ UNCHANGED <<tries, polls, link, wire, hosts, history, faults>>

\* Its answer may still come: some reader task will find it.
Outstanding == \E c \in reader : up[c] # << >> \/ down[c] # << >>

\* Mutant: no time limit.
NeverTimeout == FALSE /\ UNCHANGED vars
Timeout ==
  /\ ph = "wait" /\ coll = "open" /\ Fail
  /\ gave' = [gave EXCEPT ![cur] = @ + 1] /\ late' = (late \/ Outstanding)
  /\ UNCHANGED <<link, wire, hosts, answers, served, faults>>

-----------------------------------------------------------------------------
(* reconnect() and attach_or_spawn().                                      *)

\* The end of both: start() succeeds or the daemon exits; request() tries again, or has
\* tried often enough.  Mutant: once more than that.
ResumeOnceMore(ok) ==
  /\ polls' = 0 /\ UNCHANGED <<tries, got>>
  /\ IF cur = None
     THEN ph' = (IF ok THEN "idle" ELSE "down") /\ UNCHANGED <<cur, fate>>
     ELSE IF tries <= MaxTries THEN ph' = "collect" /\ UNCHANGED <<cur, fate>>
     ELSE ph' = "idle" /\ cur' = None /\ fate' = [fate EXCEPT ![cur] = "unavailable"]
Resume(ok) ==
  /\ polls' = 0 /\ UNCHANGED <<tries, got>>
  /\ IF cur = None
     THEN ph' = (IF ok THEN "idle" ELSE "down") /\ UNCHANGED <<cur, fate>>
     ELSE IF tries < MaxTries THEN ph' = "collect" /\ UNCHANGED <<cur, fate>>
     ELSE ph' = "idle" /\ cur' = None /\ fate' = [fate EXCEPT ![cur] = "unavailable"]

Listens == file # None /\ proc[file] = "up"

\* connect_into, to the host of the file: connect and say hello.
Dial(c) ==
  /\ ph = "connect" \/ (ph = "poll" /\ polls < MaxPolls)
  /\ Listens /\ Free(c) /\ c = (CHOOSE d \in Conn : Free(d)) /\ conn' = c
  /\ ph' = IF ph = "connect" THEN "hand" ELSE "handAgain"
  /\ at' = [at EXCEPT ![c] = file] /\ side' = [side EXCEPT ![c] = "queued"]
  /\ up' = [up EXCEPT ![c] = << >>] /\ down' = [down EXCEPT ![c] = << >>]
  /\ UNCHANGED <<cur, tries, polls, pending, writer, reader, hosts, answers, history, faults>>

Refused ==
  /\ ~Listens
  /\ \/ ph = "connect" /\ ph' = "spawn" /\ UNCHANGED polls
     \/ ph = "poll" /\ polls < MaxPolls /\ polls' = polls + 1 /\ UNCHANGED ph
  /\ UNCHANGED <<cur, tries, pending, link, wire, hosts, answers, history, faults>>

\* host.ack: the writer is stored, and replaces the one before; a reader task is started.
HandshakeOk ==
  /\ ph \in {"hand", "handAgain"} /\ side[conn] = "served"
  /\ writer' = conn /\ reader' = reader \cup {conn} /\ conn' = None /\ Resume(TRUE)
  /\ UNCHANGED <<pending, wire, hosts, history, faults>>

\* No acknowledgement within 3 s: the host is gone, or serves another connection.
Serving(c) == side[c] \in {"served", "busy", "said"}
HandshakeFails ==
  /\ ph \in {"hand", "handAgain"} /\ conn' = None
  /\ side[conn] = "closed" \/ \E c \in Conn : Serving(c) /\ c # conn /\ at[c] = at[conn]
  /\ IF ph = "hand" THEN ph' = "spawn" /\ UNCHANGED polls ELSE ph' = "poll" /\ polls' = polls + 1
  /\ side' = [side EXCEPT ![conn] = "closed"] /\ at' = [at EXCEPT ![conn] = None]
  /\ UNCHANGED <<cur, tries, pending, writer, reader, up, down, hosts, answers, history, faults>>

Spawn(h) ==
  /\ ph = "spawn" /\ proc[h] = "off" /\ h = (CHOOSE g \in Host : proc[g] = "off")
  /\ proc' = [proc EXCEPT ![h] = "boot"] /\ ph' = "poll" /\ polls' = 0
  /\ UNCHANGED <<cur, tries, pending, link, wire, file, answers, history, faults>>

\* The process could not be started, or did not listen in time.
NoHost ==
  /\ ph = "spawn" \/ (ph = "poll" /\ polls = MaxPolls)
  /\ Resume(FALSE)
  /\ UNCHANGED <<pending, link, wire, hosts, history, faults>>

-----------------------------------------------------------------------------
(* The reader task of a connection.                                        *)

ReadFrame(c) ==
  /\ c \in reader /\ down[c] # << >> /\ down' = [down EXCEPT ![c] = Tail(@)]
  /\ LET f == Head(down[c]) IN
       IF coll = "open" /\ f.t = "reply" THEN buf' = Append(buf, f.req) /\ UNCHANGED coll
       ELSE IF coll = "open" THEN coll' = "done" /\ UNCHANGED buf
       ELSE UNCHANGED pending
  /\ UNCHANGED <<call, link, at, side, up, hosts, answers, history, faults>>

\* The host closed the connection: the shared writer goes, whichever it is, and pending is
\* left alone.  Mutant: the collector goes too, and the request is tried again at once.
DropsCollector ==
  IF ph = "wait" /\ coll = "open" THEN ph' = "collect" /\ coll' = "none" /\ UNCHANGED <<tries, buf>>
  ELSE UNCHANGED <<ph, tries, pending>>
Cleared == UNCHANGED <<ph, tries, pending>>
ReaderEnds(c) ==
  /\ c \in reader /\ down[c] = << >> /\ side[c] = "closed"
  /\ reader' = reader \ {c} /\ writer' = None /\ Cleared
  /\ UNCHANGED <<cur, polls, conn, wire, hosts, answers, history, faults>>

-----------------------------------------------------------------------------
(* The hosts.                                                              *)

\* A host that was spawned listens, and writes the host file over whatever it said.
HostUp(h) ==
  /\ proc[h] = "boot" /\ proc' = [proc EXCEPT ![h] = "up"] /\ file' = h
  /\ UNCHANGED <<call, pending, link, wire, answers, history, faults>>

\* accept() and host.ack, one connection at a time.
Accept(c) ==
  /\ side[c] = "queued" /\ \A d \in Conn : at[d] = at[c] => ~Serving(d)
  /\ side' = [side EXCEPT ![c] = "served"]
  /\ UNCHANGED <<call, pending, link, at, up, down, hosts, answers, history, faults>>

\* A line is read and handled, which may take any time (a child that does not read).
Take(c) ==
  /\ side[c] = "served" /\ up[c] # << >> /\ side' = [side EXCEPT ![c] = "busy"]
  /\ served' = [served EXCEPT ![Head(up[c])] = @ + 1]
  /\ UNCHANGED <<call, pending, link, at, up, down, hosts, answers, gave, late, faults>>

Say(c, t) == down' = IF Heard(c) THEN [down EXCEPT ![c] = Append(@, [t |-> t, req |-> Head(up[c])])] ELSE down

\* The frames with a reqId; a request without an answer (input, resize) has none.
Reply(c) ==
  /\ side[c] = "busy" /\ side' = [side EXCEPT ![c] = "said"] /\ Say(c, "reply")
  /\ UNCHANGED <<call, pending, link, at, up, hosts, answers, history, faults>>

\* host.reply.end.  Mutant: it is sent before the replies.
EndFirst(c) ==
  /\ side[c] \in {"busy", "said"}
  /\ down' = IF Heard(c) THEN [down EXCEPT ![c] = << [t |-> "end", req |-> Head(up[c])] >> \o @] ELSE down
  /\ side' = [side EXCEPT ![c] = "served"] /\ up' = [up EXCEPT ![c] = Tail(@)]
  /\ UNCHANGED <<call, pending, link, at, hosts, answers, history, faults>>
End(c) ==
  /\ side[c] \in {"busy", "said"} /\ Say(c, "end")
  /\ side' = [side EXCEPT ![c] = "served"] /\ up' = [up EXCEPT ![c] = Tail(@)]
  /\ UNCHANGED <<call, pending, link, at, hosts, answers, history, faults>>

\* End of file when the writer was dropped; an error when nobody reads either.
Hangup(c) ==
  /\ Serving(c)
  /\ ~Heard(c) \/ (~Writable(c) /\ side[c] = "served" /\ up[c] = << >>)
  /\ side' = [side EXCEPT ![c] = "closed"] /\ at' = [at EXCEPT ![c] = None]
  /\ up' = [up EXCEPT ![c] = << >>]
  /\ UNCHANGED <<call, pending, link, down, hosts, answers, history, faults>>

\* What the daemon has not read yet may be lost with a process that dies.
HostCrash(h) ==
  /\ proc[h] # "off" /\ Fault /\ proc' = [proc EXCEPT ![h] = "off"]
  /\ side' = [c \in Conn |-> IF at[c] = h THEN "closed" ELSE side[c]]
  /\ up' = [c \in Conn |-> IF at[c] = h THEN << >> ELSE up[c]]
  /\ at' = [c \in Conn |-> IF at[c] = h THEN None ELSE at[c]]
  /\ \/ UNCHANGED down
     \/ down' = [c \in Conn |-> IF at[c] = h THEN << >> ELSE down[c]]
  /\ UNCHANGED <<call, pending, link, file, answers, history>>

\* The daemon dies, or had given up, and is started again.  The hosts live on.
Restart ==
  /\ Fault /\ ph' = "connect" /\ cur' = None /\ tries' = 0 /\ polls' = 0
  /\ coll' = "none" /\ buf' = << >> /\ writer' = None /\ reader' = {} /\ conn' = None
  /\ fate' = [r \in Req |-> IF r = cur THEN "lost" ELSE fate[r]] /\ late' = FALSE
  /\ down' = [c \in Conn |-> << >>]
  /\ UNCHANGED <<at, side, up, hosts, got, gave, served>>

-----------------------------------------------------------------------------
Call ==
  \/ Collect \/ WriteFails \/ Write \/ Return \/ Refused \/ HandshakeOk \/ HandshakeFails \/ NoHost
  \/ (\E c \in Conn : Dial(c)) \/ \E h \in Host : Spawn(h)
Task(c)  == ReadFrame(c) \/ ReaderEnds(c)
Serve(c) == Accept(c) \/ Take(c) \/ Reply(c) \/ End(c) \/ Hangup(c)

Next ==
  \/ Call \/ Timeout
  \/ \E r \in Req : Begin(r)
  \/ \E c \in Conn : Task(c) \/ Serve(c)
  \/ \E h \in Host : HostUp(h) \/ HostCrash(h)
  \/ Restart

Spec == Init /\ [][Next]_vars

\* The daemon's task runs, and so do its timer and the accept loop of a host; nothing is
\* assumed of what a host makes of a request.
FairSpec ==
  /\ Spec /\ WF_vars(Call) /\ WF_vars(Timeout)
  /\ WF_vars(\E c \in Conn : Accept(c)) /\ WF_vars(\E c \in Conn : Task(c))
  /\ WF_vars(\E c \in Conn : side[c] = "served" /\ Hangup(c))

-----------------------------------------------------------------------------
(* Properties.                                                             *)

\* Matching answers by position is right as long as no request was given up whose answer may
\* still come: then what a request returns with is its own answer, over lost connections,
\* hosts that die and restarts of the daemon (host_client.rs:3-6, 155-181).
Own(r)       == \A i \in 1..Len(got[r]) : got[r][i] = r
AnswersMatch == [][\A r \in Req : ~late /\ fate'[r] # fate[r] /\ fate'[r] = "answered" => Own(r)']_vars

\* A request is carried out again only after it timed out, once for every time, although
\* three tries are made: creating a session, or input, is not idempotent (host_client.rs:196).
ServedOnce == \A r \in Req : served[r] <= 1 + gave[r]

\* Whatever happens to hosts and connections, a request returns and frees the gate, with an
\* answer or with host_unavailable (host_client.rs:192-210).
RequestReturns == (cur # None) ~> (cur = None)

\* What the header says: one request is under way at a time, so that answers need no number
\* (host_client.rs:3-6).
AnswersAlwaysMatch == \A r \in Req : fate[r] = "answered" => Own(r)

=============================================================================
