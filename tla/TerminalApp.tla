----------------------------- MODULE TerminalApp -----------------------------
(***************************************************************************)
(* The sessions of the terminal page (web/src/TerminalApp.tsx): its tabs,  *)
(* its xterm instances and the async functions that list, attach, create   *)
(* and kill sessions, over a connection to the daemon that may break       *)
(* (WebConnection is the connection, PtySession a session).                *)
(*                                                                         *)
(*  - the page runs one handler at a time; an async function stops at each *)
(*    await, and calls holds where it goes on, by request id.  Whatever    *)
(*    happens between two awaits finds the page half done;                 *)
(*  - React renders later than the state it renders: a terminal exists     *)
(*    from the render after its session was listed (Render);               *)
(*  - the daemon answers a request at once but sends the host's events     *)
(*    (snapshots, output, exits) one by one, so that an answer overtakes   *)
(*    the events before it (relay_client.rs:129-147, 248-258);             *)
(*  - the daemon lists sessions in no particular order (a HashMap): a list *)
(*    is a set here, its first element any element.                        *)
(***************************************************************************)
EXTENDS Naturals, Sequences

CONSTANTS Session,     \* session ids
          None,        \* no session
          Id,          \* request ids in use at a time
          MaxOut,      \* bound: chunks of output of a session
          MaxActs      \* bound: clicks, losses of the link, chunks and exits together

ASSUME BoundsAssumption == MaxOut \in Nat /\ MaxActs \in Nat
ASSUME NoneAssumption   == None \notin Session

VARIABLES
  link,                \* the connection is ready
  calls,               \* the async functions that wait for an answer
  list, active,        \* the sessions listed; the active one (state and ref)
  mounted, ended,      \* sessions with an xterm; those marked ended
  pend, last, screen,  \* data before the xterm exists; last seq seen; what the xterm shows
  whole,               \* history: what it would show, had it existed from the start
  booted, wanted,      \* bootstrappedRef; the ?new= parameter not yet consumed
  req, ans, ev,        \* requests to the daemon, frames to the page, events of the host
  live, made, out,     \* sessions that run; that were ever created; chunks each has written
  attached,            \* sessions whose events the host sends
  acts, auto,          \* clicks, losses, chunks and exits; sessions created without a click
  skipped              \* history: attached, but passed over by the bootstrap that ?new= ended

pageVars == <<list, active, mounted, ended, pend, last, screen, whole, booted, wanted>>
hostVars == <<live, made, out, attached>>
boundVars == <<acts, auto, skipped>>
bootVars == <<booted, wanted, auto, skipped>>
vars == <<link, calls, pageVars, req, ans, ev, hostVars, boundVars>>

\* A piece of terminal data: a snapshot up to chunk n, or chunk n itself.
Blank  == 0 - 1
Data   == [snap : BOOLEAN, n : 0..MaxOut]
Event  == [t : {"snapshot", "output"}, sid : Session, n : 0..MaxOut]
     \cup [t : {"exited"}, sid : Session, n : {0}]

\* A suspended function: what it waits for, the session it is about, and for the bootstrap
\* the sessions still to attach and all that were listed.
Call(k, s, rest, all) == [k |-> k, sid |-> s, rest |-> rest, all |-> all]
Calls == [k : {"boot", "bootAttach", "create", "createList", "attach", "kill", "refetch"},
          sid : Session \cup {None}, rest : SUBSET Session, all : SUBSET Session]
Idle  == [k |-> "idle"]

Answer(r, ok, s, all) == [t |-> "answer", id |-> r, ok |-> ok, sid |-> s, all |-> all]
Answers  == [t : {"answer"}, id : Id, ok : BOOLEAN, sid : Session \cup {None}, all : SUBSET Session]
Requests == [op : {"list", "attach", "create", "kill"}, sid : Session \cup {None}, id : Id]

TypeOK ==
  /\ link \in BOOLEAN /\ calls \in [Id -> Calls \cup {Idle}]
  /\ list \subseteq Session /\ active \in Session \cup {None}
  /\ mounted \subseteq Session /\ ended \subseteq mounted
  /\ pend \in [Session -> Seq(Data)] /\ last \in [Session -> 0..MaxOut \cup {Blank}]
  /\ screen \in [Session -> 0..MaxOut \cup {Blank}] /\ whole \in [Session -> 0..MaxOut \cup {Blank}]
  /\ booted \in BOOLEAN /\ wanted \in BOOLEAN
  /\ req \in Seq(Requests) /\ ans \in Seq(Answers \cup Event) /\ ev \in Seq(Event)
  /\ live \subseteq made /\ made \subseteq Session /\ out \in [Session -> 0..MaxOut]
  /\ attached \subseteq made
  /\ acts \in 0..MaxActs /\ auto \in Nat /\ skipped \subseteq Session

Init ==
  /\ link = FALSE /\ calls = [r \in Id |-> Idle]
  /\ list = {} /\ active = None /\ mounted = {} /\ ended = {}
  /\ pend = [s \in Session |-> << >>] /\ last = [s \in Session |-> Blank]
  /\ screen = [s \in Session |-> Blank] /\ whole = screen
  /\ booted = FALSE /\ wanted \in BOOLEAN
  /\ req = << >> /\ ans = << >> /\ ev = << >>
  /\ live \in SUBSET Session /\ made = live /\ out = [s \in Session |-> 0]
  /\ attached = {} /\ acts = 0 /\ auto = 0 /\ skipped = {}

Act == acts < MaxActs /\ acts' = acts + 1

-----------------------------------------------------------------------------
(* Requests: the function that makes one goes on, as c, with the answer;   *)
(* its next request takes the same id.                                      *)

Unused(r) == /\ calls[r] = Idle
             /\ \A j \in 1..Len(req) : req[j].id # r
             /\ \A j \in 1..Len(ans) : ans[j].t = "answer" => ans[j].id # r

Ask(r, op, s, c) ==
  /\ calls' = [calls EXCEPT ![r] = c]
  /\ req' = Append(req, [op |-> op, sid |-> s, id |-> r])

Begin(op, s, c) ==
  /\ \E r \in Id : Unused(r)
  /\ Ask(CHOOSE r \in Id : Unused(r), op, s, c)

Return(r) == calls' = [calls EXCEPT ![r] = Idle] /\ UNCHANGED req

Show(s) == active' = s /\ ended' = ended \ {s}
Keep    == UNCHANGED <<active, ended>>

-----------------------------------------------------------------------------
(* The async functions, from one await to the next.                        *)

\* The end of the bootstrap: the active session if it is listed, or the first one.
Pick(m, all) ==
  /\ Return(m.id) /\ UNCHANGED ended
  /\ IF active \in all THEN UNCHANGED <<active, list>>
     ELSE IF all # {} THEN (\E s \in all : active' = s) /\ UNCHANGED list
     ELSE list' = {} /\ UNCHANGED active

\* for (const s of m.sessions) await attachSession(conn, s.id)
AttachNext(m, rest, all) ==
  \E s \in rest : Ask(m.id, "attach", s, Call("bootAttach", s, rest \ {s}, all))

\* Mutant: the bootstrap does not remember that it ran.
BootAgain(m) ==
  /\ list' = m.all /\ Keep /\ UNCHANGED booted
  /\ IF wanted \/ m.all = {}
     THEN /\ Ask(m.id, "create", None, Call("create", None, {}, {}))
          /\ wanted' = FALSE /\ auto' = auto + 1 /\ skipped' = skipped \cup (attached \cap m.all)
     ELSE wanted' = FALSE /\ UNCHANGED <<auto, skipped>> /\ AttachNext(m, m.all, m.all)
OnBootList(m) ==
  /\ list' = m.all /\ Keep /\ booted' = TRUE
  /\ IF ~booted /\ (wanted \/ m.all = {})
     THEN /\ Ask(m.id, "create", None, Call("create", None, {}, {}))
          /\ wanted' = FALSE /\ auto' = auto + 1 /\ skipped' = skipped \cup (attached \cap m.all)
     ELSE /\ wanted' = (wanted /\ booted) /\ UNCHANGED <<auto, skipped>>
          /\ IF m.all = {} THEN Return(m.id) ELSE AttachNext(m, m.all, m.all)

\* The loop goes on whether or not the attach succeeded; after the last one the session
\* to show is picked, with activeRef as the last successful attach left it.
OnBootAttach(c, m) ==
  /\ UNCHANGED bootVars
  /\ IF c.rest # {}
     THEN /\ UNCHANGED list /\ IF m.ok THEN Show(c.sid) ELSE Keep
          /\ AttachNext(m, c.rest, c.all)
     ELSE IF m.ok THEN Return(m.id) /\ Show(c.sid) /\ UNCHANGED list
     ELSE Pick(m, c.all)

OnCreated(m) ==
  /\ UNCHANGED <<list, bootVars>> /\ Keep
  /\ IF m.ok THEN Ask(m.id, "list", None, Call("createList", m.sid, {}, {})) ELSE Return(m.id)

OnCreateList(c, m) ==
  /\ list' = m.all /\ UNCHANGED bootVars /\ Keep
  /\ Ask(m.id, "attach", c.sid, Call("attach", c.sid, {}, {}))

OnAttach(c, m) ==
  /\ UNCHANGED <<list, bootVars>> /\ Return(m.id)
  /\ IF m.ok THEN Show(c.sid) ELSE Keep

OnKilled(m) ==
  /\ UNCHANGED <<list, bootVars>> /\ Keep
  /\ Ask(m.id, "list", None, Call("refetch", None, {}, {}))

OnList(m) ==
  list' = m.all /\ UNCHANGED bootVars /\ Keep /\ Return(m.id)

\* The promise of the request resolves; an answer nobody waits for is dropped.
OnAnswer(m) ==
  LET c == calls[m.id] IN
  /\ UNCHANGED <<mounted, pend, last, screen, whole>>
  /\ CASE c.k = "idle"       -> UNCHANGED <<calls, req, list, active, ended, bootVars>>
       [] c.k = "boot"       -> OnBootList(m)
       [] c.k = "bootAttach" -> OnBootAttach(c, m)
       [] c.k = "create"     -> OnCreated(m)
       [] c.k = "createList" -> OnCreateList(c, m)
       [] c.k = "attach"     -> OnAttach(c, m)
       [] c.k = "kill"       -> OnKilled(m)
       [] c.k = "refetch"    -> OnList(m)

-----------------------------------------------------------------------------
(* Terminal data.  A chunk that is not the next one leaves a hole, after   *)
(* which the terminal shows nothing that can be relied on: Blank.          *)

Written(top, d) == IF d.snap THEN d.n
                   ELSE IF top # Blank /\ d.n = top + 1 THEN d.n ELSE Blank

Replay(top, s) ==
  LET shown[n \in 0..Len(s)] == IF n = 0 THEN top ELSE Written(shown[n - 1], s[n]) IN shown[Len(s)]

\* onSnapshot: the baseline of seq, shown at once or instead of what was buffered.
OnSnapshot(m) ==
  LET d == [snap |-> TRUE, n |-> m.n] IN
  /\ last' = [last EXCEPT ![m.sid] = m.n] /\ whole' = [whole EXCEPT ![m.sid] = Written(@, d)]
  /\ IF m.sid \in mounted THEN screen' = [screen EXCEPT ![m.sid] = Written(@, d)] /\ UNCHANGED pend
     ELSE pend' = [pend EXCEPT ![m.sid] = <<d>>] /\ UNCHANGED screen
  /\ UNCHANGED <<calls, req, list, active, mounted, ended, bootVars>>

\* onOutput: a chunk seen before is dropped.
DropUnmounted(m) ==
  LET d == [snap |-> FALSE, n |-> m.n] IN
  /\ IF m.n <= last[m.sid] THEN UNCHANGED <<last, screen, pend, whole>>
     ELSE /\ last' = [last EXCEPT ![m.sid] = m.n] /\ UNCHANGED pend
          /\ whole' = [whole EXCEPT ![m.sid] = Written(@, d)]
          /\ screen' = IF m.sid \in mounted THEN [screen EXCEPT ![m.sid] = Written(@, d)] ELSE screen
  /\ UNCHANGED <<calls, req, list, active, mounted, ended, bootVars>>
OnOutput(m) ==
  LET d == [snap |-> FALSE, n |-> m.n] IN
  /\ IF m.n <= last[m.sid] THEN UNCHANGED <<last, screen, pend, whole>>
     ELSE /\ last' = [last EXCEPT ![m.sid] = m.n]
          /\ whole' = [whole EXCEPT ![m.sid] = Written(@, d)]
          /\ IF m.sid \in mounted
             THEN screen' = [screen EXCEPT ![m.sid] = Written(@, d)] /\ UNCHANGED pend
             ELSE pend' = [pend EXCEPT ![m.sid] = Append(@, d)] /\ UNCHANGED screen
  /\ UNCHANGED <<calls, req, list, active, mounted, ended, bootVars>>

\* onExited: the buffer goes, the terminal is marked, the list is fetched again.
\* Mutant: it is marked although it does not exist yet.
MarkAlways(m) ==
  /\ pend' = [pend EXCEPT ![m.sid] = << >>] /\ ended' = ended \cup {m.sid}
  /\ Begin("list", None, Call("refetch", None, {}, {}))
  /\ UNCHANGED <<last, screen, whole, list, active, mounted, bootVars>>
OnExited(m) ==
  /\ pend' = [pend EXCEPT ![m.sid] = << >>]
  /\ ended' = IF m.sid \in mounted THEN ended \cup {m.sid} ELSE ended
  /\ Begin("list", None, Call("refetch", None, {}, {}))
  /\ UNCHANGED <<last, screen, whole, list, active, mounted, bootVars>>

Receive ==
  /\ link /\ ans # << >> /\ ans' = Tail(ans)
  /\ LET m == Head(ans) IN
       CASE m.t = "answer"   -> OnAnswer(m)
         [] m.t = "snapshot" -> OnSnapshot(m)
         [] m.t = "output"   -> OnOutput(m)
         [] m.t = "exited"   -> OnExited(m)
  /\ UNCHANGED <<link, ev, hostVars, acts>>

\* React renders: every listed session gets its terminal, which replays the buffer
\* (hostCallback); then the effect moves off an active session that is no longer listed.
Unrendered == list \ mounted
Stray(a) == a # None /\ list # {} /\ a \notin list
MountUnreplayed(S) == screen
MountShows(S) == [s \in Session |-> IF s \in S /\ pend[s] # << >> THEN Replay(screen[s], pend[s]) ELSE screen[s]]

Render ==
  /\ Unrendered # {} \/ Stray(active)
  /\ mounted' = mounted \cup Unrendered
  /\ screen' = MountShows(Unrendered)
  /\ pend' = [s \in Session |-> IF s \in Unrendered THEN << >> ELSE pend[s]]
  /\ IF Stray(active) THEN \E s \in list : active' = s ELSE UNCHANGED active
  /\ UNCHANGED <<link, calls, list, ended, last, whole, booted, wanted, req, ans, ev, hostVars, boundVars>>

-----------------------------------------------------------------------------
(* The connection and the user.                                            *)

\* onStatus("ready") bootstraps, every time.
LinkUp ==
  /\ ~link /\ link' = TRUE
  /\ Begin("list", None, Call("boot", None, {}, {}))
  /\ UNCHANGED <<pageVars, ans, ev, hostVars, boundVars>>

\* The socket closes: its frames are lost and nothing waits for them any more.  After
\* reconnect() the functions go on waiting, and requests the daemon already has are answered;
\* one whose answer is lost never goes on, and leaves calls.
LinkLost ==
  /\ link /\ Act
  /\ link' = FALSE /\ ans' = << >> /\ calls' = [r \in Id |-> Idle]
  /\ UNCHANGED <<pageVars, req, ev, hostVars, auto, skipped>>

ManualReconnect ==
  /\ link /\ Act
  /\ link' = FALSE /\ ans' = << >>
  /\ calls' = [r \in Id |-> IF \E j \in 1..Len(req) : req[j].id = r THEN calls[r] ELSE Idle]
  /\ UNCHANGED <<pageVars, req, ev, hostVars, auto, skipped>>

\* Buttons: a tab (attachSession), its cross (killSession), a new session (createSession).
Click(op, s, k) ==
  /\ link /\ Act
  /\ Begin(op, s, Call(k, s, {}, {}))
  /\ UNCHANGED <<link, pageVars, ans, ev, hostVars, auto, skipped>>

ClickTab   == \E s \in list : Click("attach", s, "attach")
ClickClose == \E s \in list : Click("kill", s, "kill")
ClickNew   == Click("create", None, "create")

-----------------------------------------------------------------------------
(* The daemon and the session host.                                        *)

Reply(a) == ans' = IF link THEN Append(ans, a) ELSE ans

ServeList(m) ==
  Reply(Answer(m.id, TRUE, None, live)) /\ UNCHANGED <<ev, hostVars>>

ServeCreate(m) ==
  \/ Reply(Answer(m.id, FALSE, None, {})) /\ UNCHANGED <<ev, hostVars>>
  \/ \E s \in Session \ made :
       /\ live' = live \cup {s} /\ made' = made \cup {s}
       /\ Reply(Answer(m.id, TRUE, s, {})) /\ UNCHANGED <<ev, out, attached>>

ServeAttach(m) ==
  IF m.sid \in live
  THEN /\ attached' = attached \cup {m.sid} /\ Reply(Answer(m.id, TRUE, m.sid, {}))
       /\ ev' = Append(ev, [t |-> "snapshot", sid |-> m.sid, n |-> out[m.sid]])
       /\ UNCHANGED <<live, made, out>>
  ELSE Reply(Answer(m.id, FALSE, m.sid, {})) /\ UNCHANGED <<ev, hostVars>>

\* Its exit is reported like any other, to the subscriber if there is one.
ExitOf(s) == IF s \in attached THEN Append(ev, [t |-> "exited", sid |-> s, n |-> 0]) ELSE ev
ServeKill(m) ==
  /\ UNCHANGED <<made, out>> /\ Reply(Answer(m.id, m.sid \in live, m.sid, {}))
  /\ live' = live \ {m.sid} /\ attached' = attached \ {m.sid}
  /\ ev' = IF m.sid \in live THEN ExitOf(m.sid) ELSE ev

Serve ==
  /\ req # << >> /\ req' = Tail(req)
  /\ LET m == Head(req) IN
       CASE m.op = "list"   -> ServeList(m)
         [] m.op = "create" -> ServeCreate(m)
         [] m.op = "attach" -> ServeAttach(m)
         [] m.op = "kill"   -> ServeKill(m)
  /\ calls' = IF link THEN calls ELSE [calls EXCEPT ![Head(req).id] = Idle]
  /\ skipped' = IF Head(req).op = "attach" /\ Head(req).sid \in live THEN skipped \ {Head(req).sid} ELSE skipped
  /\ UNCHANGED <<link, pageVars, acts, auto>>

\* The next event of the host goes to the page, or nowhere when nobody is connected.
Fanout ==
  /\ ev # << >> /\ ev' = Tail(ev) /\ Reply(Head(ev))
  /\ UNCHANGED <<link, calls, pageVars, req, hostVars, boundVars>>

Output(s) ==
  /\ s \in live /\ out[s] < MaxOut /\ Act /\ out' = [out EXCEPT ![s] = @ + 1]
  /\ ev' = IF s \in attached THEN Append(ev, [t |-> "output", sid |-> s, n |-> out'[s]]) ELSE ev
  /\ UNCHANGED <<link, calls, pageVars, req, ans, live, made, attached, auto, skipped>>

Exit(s) ==
  /\ s \in live /\ Act /\ live' = live \ {s} /\ attached' = attached \ {s} /\ ev' = ExitOf(s)
  /\ UNCHANGED <<link, calls, pageVars, req, ans, made, out, auto, skipped>>

-----------------------------------------------------------------------------
Next ==
  \/ Receive \/ Render \/ LinkUp \/ LinkLost \/ ManualReconnect
  \/ ClickTab \/ ClickClose \/ ClickNew \/ Serve \/ Fanout
  \/ \E s \in Session : Output(s) \/ Exit(s)

Spec == Init /\ [][Next]_vars

-----------------------------------------------------------------------------
(* Properties.                                                             *)

\* Nothing is under way: no answer or event is still to come, nothing is to be rendered.
Calm == /\ link /\ req = << >> /\ ans = << >> /\ ev = << >>
        /\ Unrendered = {} /\ ~Stray(active)

\* A terminal shows what it would have shown had it existed before the first frame, and one
\* that does not exist yet has that buffered, however the answers, the events and the
\* renders fell (TerminalApp.tsx:92-94, 432-436); the end of a session drops the buffer.
ScreenFollows ==
  \A s \in Session :
    IF s \in mounted THEN screen[s] = whole[s] \/ (screen[s] = Blank /\ s \notin live)
    ELSE Replay(Blank, pend[s]) = whole[s] \/ (pend[s] = << >> /\ s \notin live)

\* At rest, after any number of reconnections, every attached session that runs and has a
\* tab is shown to its last chunk (TerminalApp.tsx:206, docs/protocol.md:95-100), and the
\* active session has a tab, unless none was ever shown (TerminalApp.tsx:401-408).  Except
\* that a first bootstrap that starts a session of its own attaches none of those it lists:
\* one a click had attached over an earlier connection stays as it was (skipped).
UpToDate ==
  Calm => /\ \A s \in (list \cap live \cap attached) \ skipped : screen[s] = out[s]
          /\ list # {} /\ active # None => active \in list

\* A page starts at most one session by itself, over all its reconnections: ?new= and the
\* first empty list are consumed once (TerminalApp.tsx:207, 214-225).
StartsOnce == auto <= 1

=============================================================================
