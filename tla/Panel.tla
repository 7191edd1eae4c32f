-------------------------------- MODULE Panel --------------------------------
(***************************************************************************)
(* The panel of a device: the pages that show and change which relay the   *)
(* daemon is connected to, and its access token (Landing of                *)
(* web/src/App.tsx, Shell.tsx, lib/usePoll.ts, pages/Relay.tsx,            *)
(* pages/Overview.tsx), with the daemon's end of it: the handlers of the   *)
(* local API (daemon/src/main.rs), the settings file (config.rs), RelayCtl *)
(* and the relay task (ws.rs, relay_client.rs, as far as it starts, stops  *)
(* and reports; what it carries is WebConnection's).                       *)
(*                                                                         *)
(*  - the daemon serves requests and runs relay tasks on several threads:  *)
(*    a handler is a few steps, between which anything else may happen; a  *)
(*    file is emptied before it is written;                                *)
(*  - a page polls every five seconds and after each of its requests; it   *)
(*    does not wait for one poll before the next, and the answers come in  *)
(*    any order;                                                           *)
(*  - a page acts on what its last poll showed.                            *)
(***************************************************************************)
EXTENDS Naturals, FiniteSets

CONSTANTS Page,        \* open panels
          Relay,       \* relay addresses
          None,        \* no relay, no task, no request, no poll
          Torn,        \* a settings file that is being written
          Handler,     \* requests the daemon serves at a time
          Task,        \* relay tasks alive at a time
          Poll,        \* polls of a page on their way at a time
          MaxTries,    \* failed probes before the page gives up (10 in the code)
          MaxActs      \* bound: clicks, connections lost, restarts of the daemon

ASSUME ActsAssumption == MaxActs \in Nat /\ MaxTries \in Nat
ASSUME NoneAssumption == None \notin Relay \cup Task /\ Torn # None

Settings == [relays : SUBSET Relay, active : Relay \cup {None}]
Blank    == [relays |-> {}, active |-> None]
Info     == [url : Relay \cup {None}, online : BOOLEAN, set : Settings, token : Nat]

VARIABLES
  file,                \* settings.json
  token,               \* the access token, by the times it was changed
  local,               \* LocalShared.relay: its address, and whether it is online
  tasks, ctl,          \* relay tasks; the one RelayCtl can stop
  req,                 \* requests being served
  mode, tries,         \* of a page: it looks for the daemon, shows the landing page, the
                       \* panel; failed probes of one that still looks
  busy, view, polls,   \* of a panel: its buttons are disabled; its data; its polls
  kept,                \* history: the relays that the saved requests added and did not remove
  overlapped,          \* history: two requests that save settings were served at once
  acts

daemon  == <<file, token, local, tasks, ctl>>
landing == <<mode, tries>>
browser == <<landing, busy, view, polls>>
history == <<kept, overlapped>>
vars    == <<daemon, req, browser, history, acts>>

Requests == [page : Page, op : {"connect", "disconnect", "add", "remove", "token"}, url : Relay \cup {None},
             step : {"sent", "loaded", "writing", "saved", "stopped", "done"},
             copy : Settings, ok : BOOLEAN, mine : BOOLEAN]  \* mine: of the form still shown
Tasks    == [url : Relay, stop : BOOLEAN, st : {"new", "dialing", "up", "waiting"}]

ASSUME NullAssumption == None \notin Tasks /\ None \notin Requests /\ Torn \notin Settings

TypeOK ==
  /\ file \in Settings \cup {Torn} /\ token \in Nat
  /\ local \in [url : Relay \cup {None}, online : BOOLEAN]
  /\ tasks \in [Task -> Tasks \cup {None}] /\ ctl \in Task \cup {None}
  /\ req \in [Handler -> Requests \cup {None}]
  /\ mode \in [Page -> {"checking", "hero", "shell"}] /\ tries \in [Page -> 0..MaxTries]
  /\ busy \in [Page -> BOOLEAN] /\ view \in [Page -> Info]
  /\ polls \in [Page -> [Poll -> Info \cup {None, Torn}]]
  /\ kept \subseteq Relay /\ overlapped \in BOOLEAN /\ acts \in 0..MaxActs

\* Until the first poll is answered: the initial value of usePoll.
Reading == [url |-> None, online |-> FALSE, set |-> Blank, token |-> 0]

Init ==
  /\ file = Blank /\ token = 0 /\ local = [url |-> None, online |-> FALSE]
  /\ tasks = [i \in Task |-> None] /\ ctl = None
  /\ mode = [p \in Page |-> "checking"] /\ tries = [p \in Page |-> 0]
  /\ req = [h \in Handler |-> None] /\ busy = [p \in Page |-> FALSE]
  /\ view = [p \in Page |-> Reading] /\ polls = [p \in Page |-> [q \in Poll |-> None]]
  /\ kept = {} /\ overlapped = FALSE /\ acts = 0

Act == acts < MaxActs /\ acts' = acts + 1

-----------------------------------------------------------------------------
(* The relay task (run_relay_mode) and RelayCtl.                           *)

Alive(i) == tasks[i] # None
Note(online) == local' = [local EXCEPT !.online = online]
Become(i, st) == tasks' = [tasks EXCEPT ![i].st = st]

Begins(i) ==
  /\ Alive(i) /\ tasks[i].st = "new" /\ Become(i, "dialing") /\ Note(FALSE)
  /\ UNCHANGED <<file, token, ctl, req, browser, history, acts>>

\* hello_ack arrives, perhaps in the same poll of the task as the stop signal.
Registered(i) ==
  /\ Alive(i) /\ tasks[i].st = "dialing" /\ Become(i, "up") /\ Note(TRUE)
  /\ UNCHANGED <<file, token, ctl, req, browser, history, acts>>

Fails(i) ==
  /\ Alive(i) /\ tasks[i].st = "dialing" /\ Become(i, "waiting") /\ Note(FALSE)
  /\ UNCHANGED <<file, token, ctl, req, browser, history, acts>>

TaskLost(i) ==
  /\ Alive(i) /\ tasks[i].st = "up" /\ Act /\ Become(i, "waiting") /\ Note(FALSE)
  /\ UNCHANGED <<file, token, ctl, req, browser, history>>

Redial(i) ==
  /\ Alive(i) /\ tasks[i].st = "waiting" /\ ~tasks[i].stop /\ Become(i, "dialing")
  /\ UNCHANGED <<file, token, local, ctl, req, browser, history, acts>>

\* The stop signal is seen: the last thing a task does is to report that it is gone.
ExitNote == Note(FALSE)
TaskStops(i) ==
  /\ Alive(i) /\ tasks[i].stop /\ tasks' = [tasks EXCEPT ![i] = None] /\ ExitNote
  /\ UNCHANGED <<file, token, ctl, req, browser, history, acts>>

\* RelayCtl.stop, and start, which stops the task before.
StopIgnored == tasks
Stopped == IF ctl = None \/ tasks[ctl] = None THEN tasks ELSE [tasks EXCEPT ![ctl].stop = TRUE]

Start(url) ==
  \E i \in Task :
    /\ ~Alive(i) /\ ctl' = i
    /\ tasks' = [Stopped EXCEPT ![i] = [url |-> url, stop |-> FALSE, st |-> "new"]]
    /\ local' = [local EXCEPT !.url = url]

-----------------------------------------------------------------------------
(* The handlers.                                                           *)

Goto(h, st) == req' = [req EXCEPT ![h].step = st]
At(h, st)   == req[h] # None /\ req[h].step = st
Working(h)  == req[h] # None /\ req[h].step \notin {"sent", "done"}

\* load_settings: an unreadable file is an empty one; the active relay must be listed.
Read == IF file = Torn THEN Blank
        ELSE IF file.active \in file.relays THEN file ELSE [file EXCEPT !.active = None]

\* Mutants of Edited: an empty address for no relay; the list replaced by what is connected
\* to; a removal that leaves the active relay.
EditedEmpty(r, c) ==
  CASE r.op = "disconnect"         -> [c EXCEPT !.active = ""]
    [] r.op \in {"connect", "add"} -> [c EXCEPT !.relays = @ \cup {r.url}]
    [] r.op = "remove"             -> [c EXCEPT !.relays = @ \ {r.url}]
EditedForgets(r, c) ==
  CASE r.op = "disconnect"         -> [c EXCEPT !.active = None]
    [] r.op \in {"connect", "add"} -> [relays |-> {r.url}, active |-> IF r.op = "add" THEN None ELSE r.url]
    [] r.op = "remove"             -> [relays |-> c.relays \ {r.url}, active |-> None]
EditedKeepsActive(r, c) ==
  CASE r.op = "connect"    -> [relays |-> c.relays \cup {r.url}, active |-> r.url]
    [] r.op = "disconnect" -> c
    [] r.op = "add"        -> [c EXCEPT !.relays = @ \cup {r.url}]
    [] r.op = "remove"     -> [c EXCEPT !.relays = @ \ {r.url}]

\* set_relay, and manage_relays' add and remove, on the copy c of the settings.
Edited(r, c) ==
  CASE r.op = "connect"    -> [relays |-> c.relays \cup {r.url}, active |-> r.url]
    [] r.op = "disconnect" -> [c EXCEPT !.active = None]
    [] r.op = "add"        -> [c EXCEPT !.relays = @ \cup {r.url}]
    [] r.op = "remove"     -> [relays |-> c.relays \ {r.url},
                               active |-> IF c.active = r.url THEN None ELSE c.active]

\* An addition of what is listed already is refused.  A removal stops the relay before it
\* saves, the others after it.
Load(h) ==
  /\ At(h, "sent") /\ req[h].op # "token"
  /\ LET r == req[h] IN
       req' = [req EXCEPT ![h].copy = Edited(r, Read),
                          ![h].ok = ~(r.op = "add" /\ r.url \in Read.relays),
                          ![h].step = IF r.op = "add" /\ r.url \in Read.relays THEN "done"
                                      ELSE IF r.op = "remove" /\ Read.active = r.url THEN "saved"
                                      ELSE "loaded"]
  /\ overlapped' = (overlapped \/ \E g \in Handler : Working(g))
  /\ UNCHANGED <<daemon, browser, kept, acts>>

Truncate(h) ==
  /\ At(h, "loaded") /\ file' = Torn /\ Goto(h, "writing")
  /\ UNCHANGED <<token, local, tasks, ctl, browser, history, acts>>

Write(h) ==
  /\ At(h, "writing") /\ file' = req[h].copy
  /\ Goto(h, IF req[h].op \in {"connect", "disconnect"} THEN "saved" ELSE "done")
  /\ kept' = CASE req[h].op \in {"connect", "add"} -> kept \cup {req[h].url}
               [] req[h].op = "remove" -> kept \ {req[h].url}
               [] OTHER -> kept
  /\ UNCHANGED <<token, local, tasks, ctl, browser, overlapped, acts>>

\* state.relay.lock(): start or stop.
Control(h) ==
  /\ At(h, "saved") /\ UNCHANGED <<file, token, browser, history, acts>>
  /\ IF req[h].op = "connect" THEN Start(req[h].url) /\ Goto(h, "done")
     ELSE tasks' = Stopped /\ ctl' = None /\ UNCHANGED local /\ Goto(h, "stopped")

\* set_relay_target("", None); then a removal saves.
Untarget(h) ==
  /\ At(h, "stopped") /\ local' = [url |-> None, online |-> FALSE]
  /\ Goto(h, IF req[h].op = "remove" THEN "loaded" ELSE "done")
  /\ UNCHANGED <<file, token, tasks, ctl, browser, history, acts>>

\* set_token.
SetToken(h) ==
  /\ At(h, "sent") /\ req[h].op = "token" /\ token' = token + 1 /\ Goto(h, "done")
  /\ UNCHANGED <<file, local, tasks, ctl, browser, history, acts>>

\* The daemon crashes, at any step, and is started again: what it was doing is lost, the
\* active relay of the file is connected to.
Restart ==
  /\ Act /\ file' = Read /\ overlapped' = FALSE
  /\ kept' = IF overlapped \/ file = Torn THEN file'.relays ELSE kept
  /\ req' = [h \in Handler |-> None]
  /\ busy' = [p \in Page |-> FALSE] /\ polls' = [p \in Page |-> [q \in Poll |-> None]]
  /\ \E i \in Task :
       /\ tasks' = [j \in Task |-> IF j = i /\ file'.active # None
                                   THEN [url |-> file'.active, stop |-> FALSE, st |-> "new"] ELSE None]
       /\ ctl' = IF file'.active = None THEN None ELSE i
  /\ local' = [url |-> file'.active, online |-> FALSE]
  /\ UNCHANGED <<token, landing, view>>

-----------------------------------------------------------------------------
(* The pages.                                                              *)

\* Landing: the page asks for the daemon before it shows the panel.  A daemon that does not
\* listen yet is asked again, by a desktop page, a number of times; then, or when what
\* answers is not a daemon, the landing page is shown, which leads to the panel too.
Probe(p) ==
  /\ mode[p] = "checking"
  /\ \/ mode' = [mode EXCEPT ![p] = "shell"] /\ tries' = [tries EXCEPT ![p] = 0]
     \/ mode' = [mode EXCEPT ![p] = "hero"] /\ tries' = [tries EXCEPT ![p] = 0]
     \/ tries[p] < MaxTries /\ tries' = [tries EXCEPT ![p] = @ + 1] /\ UNCHANGED mode
  /\ UNCHANGED <<daemon, req, busy, view, polls, history, acts>>

Enter(p) ==
  /\ mode[p] = "hero" /\ mode' = [mode EXCEPT ![p] = "shell"]
  /\ UNCHANGED <<daemon, req, tries, busy, view, polls, history, acts>>

Send(p, op, url) ==
  \E h \in Handler :
    /\ mode[p] = "shell" /\ req[h] = None /\ Act
    /\ req' = [req EXCEPT ![h] = [page |-> p, op |-> op, url |-> url, step |-> "sent",
                                  copy |-> Blank, ok |-> TRUE, mine |-> TRUE]]
    /\ busy' = [busy EXCEPT ![p] = TRUE]
    /\ UNCHANGED <<daemon, landing, view, polls, history>>

\* The buttons of the relay page, for the relay and the rows that the view shows; the
\* dialog that adds one; the Enter key of the quick connection, which busy does not disable.
Disconnect(p) ==
  ~busy[p] /\ (view[p].url # None \/ view[p].set.active # None) /\ Send(p, "disconnect", None)

ConnectRow(p) ==
  ~busy[p] /\ \E r \in view[p].set.relays \ {view[p].set.active} : Send(p, "connect", r)

RemoveRow(p) == ~busy[p] /\ \E r \in view[p].set.relays : Send(p, "remove", r)

AddRelay(p) == ~busy[p] /\ \E r \in Relay : Send(p, "add", r)

QuickConnect(p) == view[p].url = None /\ \E r \in Relay : Send(p, "connect", r)

\* The token form of the overview.
SaveToken(p) == ~busy[p] /\ Send(p, "token", None)

\* Another page of the shell and back: the form is new, its requests go on without it.
Navigate(p) ==
  /\ busy[p] /\ busy' = [busy EXCEPT ![p] = FALSE]
  /\ req' = [h \in Handler |-> IF req[h] # None /\ req[h].page = p THEN [req[h] EXCEPT !.mine = FALSE] ELSE req[h]]
  /\ UNCHANGED <<daemon, landing, view, polls, history, acts>>

\* usePoll: the timer, and refresh().
Ask(p, q) == polls' = [polls EXCEPT ![p][q] = Torn]
PollTimer(p, q) ==
  /\ mode[p] = "shell" /\ polls[p][q] = None /\ Ask(p, q)
  /\ UNCHANGED <<daemon, req, landing, busy, view, history, acts>>

\* local_info reads the state of the relay and the settings, then asks the relay for its
\* viewers; the token it reads at the end.
PollRead(p, q) ==
  /\ polls[p][q] = Torn
  /\ polls' = [polls EXCEPT ![p][q] =
       [url |-> local.url, online |-> local.online, set |-> Read, token |-> 0]]
  /\ UNCHANGED <<daemon, req, landing, busy, view, history, acts>>

PollAnswer(p, q) ==
  /\ polls[p][q] \in Info
  /\ view' = [view EXCEPT ![p] = [polls[p][q] EXCEPT !.token = token]]
  /\ polls' = [polls EXCEPT ![p][q] = None]
  /\ UNCHANGED <<daemon, req, landing, busy, history, acts>>

\* The page has its answer: it refreshes after a success, and is no longer busy.
NotBusy(p) == busy' = [busy EXCEPT ![p] = FALSE]
Answered(h) ==
  /\ At(h, "done") /\ req' = [req EXCEPT ![h] = None]
  /\ IF req[h].mine THEN NotBusy(req[h].page) ELSE UNCHANGED busy
  /\ IF req[h].ok /\ \E q \in Poll : polls[req[h].page][q] = None
     THEN \E q \in Poll : polls[req[h].page][q] = None /\ Ask(req[h].page, q)
     ELSE UNCHANGED polls
  /\ UNCHANGED <<daemon, landing, view, history, acts>>

-----------------------------------------------------------------------------
Serve(h) == Load(h) \/ SetToken(h) \/ Truncate(h) \/ Write(h) \/ Control(h) \/ Untarget(h) \/ Answered(h)
RunTask(i) == Begins(i) \/ Registered(i) \/ Fails(i) \/ TaskLost(i) \/ Redial(i) \/ TaskStops(i)
Show(p, q) == PollTimer(p, q) \/ PollRead(p, q) \/ PollAnswer(p, q)

Next ==
  \/ \E i \in Task : RunTask(i)
  \/ \E h \in Handler : Serve(h)
  \/ \E p \in Page : \/ Probe(p) \/ Enter(p) \/ Disconnect(p) \/ ConnectRow(p) \/ RemoveRow(p) \/ AddRelay(p)
                     \/ QuickConnect(p) \/ SaveToken(p) \/ Navigate(p)
                     \/ \E q \in Poll : Show(p, q)
  \/ Restart

Spec == Init /\ [][Next]_vars

-----------------------------------------------------------------------------
(* Properties.                                                             *)

AtRest == \A h \in Handler : req[h] = None
Running == IF ctl = None THEN None ELSE tasks[ctl].url

\* Mutant: connected as soon as there is a relay to connect to.
StatusByUrl(v) == IF v.url # None THEN "connected" ELSE "off"

\* What a page would show now; what it says of the relay, and of a row of its list.
Now == [url |-> local.url, online |-> local.online, set |-> Read, token |-> token]
Status(v)    == IF v.online THEN "connected" ELSE IF v.url # None THEN "retrying" ELSE "off"
RowOnline(v) == [r \in v.set.relays |-> v.set.active = r /\ v.online]
Active       == {i \in Task : Alive(i) /\ ~tasks[i].stop}
Stopping     == {i \in Task : Alive(i) /\ tasks[i].stop}

\* When no request is being served, the relay that is saved, the one that is shown and the
\* one a task is connected to are the same, after any restart (main.rs:380-428, 469-473);
\* unless two requests were served at once.
AgreesAtRest == AtRest /\ ~overlapped => file.active = local.url /\ local.url = Running

\* However many requests overlap, at most one task is not told to stop, and it is the one
\* that can be stopped (ws.rs:98-117).
OneTask == \A i \in Task : Alive(i) /\ ~tasks[i].stop => i = ctl

\* Once the tasks that were stopped are gone, a relay shown online is one the daemon is
\* registered at (relay_client.rs:53, ws.rs:66-84).
OnlineIsTrue ==
  (local.online /\ \A i \in Task : Alive(i) => ~tasks[i].stop) => \E i \in Task : Alive(i) /\ tasks[i].st = "up"

\* At rest a page that has the latest data says connected, in its head and at the row of a
\* relay, only when the daemon is registered at that relay, after any requests, restarts and
\* lost connections (Relay.tsx:92-99, 176-187).
ShownIsTrue ==
  \A p \in Page : (AtRest /\ ~overlapped /\ Stopping = {} /\ view[p] = Now) =>
    /\ Status(view[p]) = "connected" => \E r \in view[p].set.relays : RowOnline(view[p])[r]
    /\ \A r \in view[p].set.relays : RowOnline(view[p])[r] =>
         \E i \in Active : tasks[i].url = r /\ tasks[i].st = "up"

\* The file lists the relays that were added and not removed since, over every order of
\* connecting, disconnecting and restarting, unless two requests were served at once or the
\* daemon died while it wrote (main.rs:380-496, config.rs:153-166).
KeepsRelays == ~overlapped /\ file # Torn => file.relays = kept

=============================================================================
