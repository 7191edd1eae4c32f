---------------------------- MODULE Panel_proofs ----------------------------
(***************************************************************************)
(* Proofs about the panel, the settings file and the relay tasks, for any  *)
(* number of pages, relays, requests served at a time, tasks and clicks.   *)
(***************************************************************************)
EXTENDS Panel, TLAPS

-----------------------------------------------------------------------------
(* The inductive invariant.                                                *)

DaemonType ==
  /\ file \in Settings \cup {Torn} /\ token \in Nat
  /\ local \in [url : Relay \cup {None}, online : BOOLEAN]
  /\ tasks \in [Task -> Tasks \cup {None}] /\ ctl \in Task \cup {None}

\* A request that needs a relay names one.
ReqType ==
  /\ req \in [Handler -> Requests \cup {None}]
  /\ \A h \in Handler :
       req[h] # None /\ req[h].op \in {"connect", "add", "remove"} => req[h].url \in Relay

PageType ==
  /\ mode \in [Page -> {"checking", "hero", "shell"}] /\ tries \in [Page -> 0..MaxTries]
  /\ busy \in [Page -> BOOLEAN] /\ view \in [Page -> Info]
  /\ polls \in [Page -> [Poll -> Info \cup {None, Torn}]]

CountType == kept \subseteq Relay /\ overlapped \in BOOLEAN /\ acts \in 0..MaxActs

Typed == DaemonType /\ ReqType /\ PageType /\ CountType

\* The task that can be stopped is alive and has not been told to stop.
CtlInv == ctl # None => Alive(ctl) /\ ~tasks[ctl].stop

\* A relay shown online is one a task is registered at, or was when it was told to stop.
OnlineInv == local.online => \E i \in Task : Alive(i) /\ (tasks[i].st = "up" \/ tasks[i].stop)

Tasked == CtlInv /\ OneTask /\ OnlineInv

-----------------------------------------------------------------------------
(* Type correctness.                                                       *)

LEMMA EditedType ==
  ASSUME NEW r \in Requests, NEW c \in Settings, r.op # "token",
         r.op \in {"connect", "add", "remove"} => r.url \in Relay
  PROVE  Edited(r, c) \in Settings
<1>1. CASE r.op = "connect"
  BY <1>1 DEF Edited, Settings
<1>2. CASE r.op = "disconnect"
  BY <1>2 DEF Edited, Settings
<1>3. CASE r.op = "add"
  BY <1>3 DEF Edited, Settings
<1>4. CASE r.op = "remove"
  BY <1>4 DEF Edited, Settings
<1> QED BY <1>1, <1>2, <1>3, <1>4 DEF Requests

LEMMA ReadType ==
  ASSUME DaemonType
  PROVE  Read \in Settings
BY DEF DaemonType, Read, Settings, Blank

LEMMA TypedInit ==
  ASSUME Init
  PROVE  Typed
<1>1. Blank \in Settings /\ Reading \in Info
  BY DEF Blank, Settings, Reading, Info
<1>2. DaemonType /\ ReqType
  BY <1>1 DEF Init, DaemonType, ReqType
<1>3. PageType
  BY <1>1, ActsAssumption DEF Init, PageType
<1>4. CountType
  <2>1. kept = {} /\ overlapped = FALSE /\ acts = 0
    BY DEF Init
  <2>2. overlapped \in BOOLEAN
    BY <2>1
  <2>3. acts \in 0..MaxActs
    BY <2>1, ActsAssumption
  <2> QED BY <2>1, <2>2, <2>3 DEF CountType
<1> QED BY <1>2, <1>3, <1>4 DEF Typed

LEMMA ActType ==
  ASSUME acts \in 0..MaxActs, Act
  PROVE  acts' \in 0..MaxActs
BY ActsAssumption DEF Act

\* The relay tasks.
LEMMA TaskType ==
  ASSUME Typed, NEW i \in Task, RunTask(i)
  PROVE  Typed'
<1>1. UNCHANGED <<file, token, ctl, req, browser, history>>
  BY DEF RunTask, Begins, Registered, Fails, TaskLost, Redial, TaskStops
<1>2. acts' \in 0..MaxActs
  BY ActType DEF RunTask, Begins, Registered, Fails, TaskLost, Redial, TaskStops, Typed, CountType
<1>3. local' \in [url : Relay \cup {None}, online : BOOLEAN]
  BY DEF RunTask, Begins, Registered, Fails, TaskLost, Redial, TaskStops, Note, ExitNote,
         Typed, DaemonType
<1>4. tasks' \in [Task -> Tasks \cup {None}]
  <2>1. CASE TaskStops(i)
    BY <2>1 DEF TaskStops, Typed, DaemonType
  <2>2. CASE \E st \in {"dialing", "up", "waiting"} : Alive(i) /\ Become(i, st)
    <3>1. tasks[i] \in Tasks
      BY <2>2 DEF Alive, Typed, DaemonType
    <3>2. \A st \in {"dialing", "up", "waiting"} : [tasks[i] EXCEPT !.st = st] \in Tasks
      BY <3>1 DEF Tasks
    <3> QED BY <2>2, <3>2 DEF Become, Typed, DaemonType
  <2> QED BY <2>1, <2>2 DEF RunTask, Begins, Registered, Fails, TaskLost, Redial
<1>5. PageType' /\ ReqType' /\ CountType'
  BY <1>1, <1>2 DEF browser, landing, history, Typed, PageType, ReqType, CountType
<1> QED BY <1>1, <1>3, <1>4, <1>5 DEF Typed, DaemonType

LEMMA StoppedType ==
  ASSUME DaemonType
  PROVE  Stopped \in [Task -> Tasks \cup {None}]
<1>1. CASE ctl = None \/ tasks[ctl] = None
  BY <1>1 DEF Stopped, DaemonType
<1>2. CASE ~(ctl = None \/ tasks[ctl] = None)
  <2>1. tasks[ctl] \in Tasks
    BY <1>2 DEF DaemonType
  <2>2. [tasks[ctl] EXCEPT !.stop = TRUE] \in Tasks
    BY <2>1 DEF Tasks
  <2> QED BY <1>2, <2>2 DEF Stopped, DaemonType
<1> QED BY <1>1, <1>2

\* A handler goes to its next step.
LEMMA GotoType ==
  ASSUME ReqType, NEW h \in Handler, req[h] # None, Goto(h, "writing") \/ Goto(h, "saved")
         \/ Goto(h, "done") \/ Goto(h, "stopped") \/ Goto(h, "loaded")
  PROVE  ReqType'
<1>1. PICK st \in {"writing", "saved", "done", "stopped", "loaded"} : Goto(h, st)
  OBVIOUS
<1>2. req[h] \in Requests
  BY DEF ReqType
<1>3. [req[h] EXCEPT !.step = st] \in Requests /\ [req[h] EXCEPT !.step = st].op = req[h].op
      /\ [req[h] EXCEPT !.step = st].url = req[h].url
  BY <1>2 DEF Requests
<1> QED BY <1>1, <1>3 DEF Goto, ReqType

LEMMA LoadType ==
  ASSUME Typed, NEW h \in Handler, Load(h)
  PROVE  Typed'
<1>1. req[h] \in Requests /\ req[h].op # "token"
      /\ (req[h].op \in {"connect", "add", "remove"} => req[h].url \in Relay)
  BY DEF Load, At, Typed, ReqType
<1>2. Edited(req[h], Read) \in Settings
  BY <1>1, ReadType, EditedType DEF Typed
<1>3. PICK st \in {"done", "saved", "loaded"}, ok \in BOOLEAN :
        req' = [req EXCEPT ![h].copy = Edited(req[h], Read), ![h].ok = ok, ![h].step = st]
  BY DEF Load
<1>4. req'[h] \in Requests /\ req'[h].op = req[h].op /\ req'[h].url = req[h].url
      /\ \A g \in Handler \ {h} : req'[g] = req[g]
  BY <1>1, <1>2, <1>3 DEF Requests, Typed, ReqType
<1>5. DOMAIN req' = Handler /\ req' \in [Handler -> Requests \cup {None}]
  BY <1>3, <1>4 DEF Typed, ReqType
<1>6. ReqType'
  BY <1>1, <1>4, <1>5 DEF Typed, ReqType
<1>7. overlapped' \in BOOLEAN
  BY DEF Load
<1> QED BY <1>6, <1>7 DEF Load, daemon, browser, landing, Typed, DaemonType, PageType, CountType

\* A page asks: the poll is on its way.
LEMMA AskType ==
  ASSUME PageType, NEW p \in Page, NEW q \in Poll, Ask(p, q)
  PROVE  polls' \in [Page -> [Poll -> Info \cup {None, Torn}]]
<1>1. polls[p] \in [Poll -> Info \cup {None, Torn}]
  BY DEF PageType
<1>2. [polls[p] EXCEPT ![q] = Torn] \in [Poll -> Info \cup {None, Torn}]
  BY <1>1
<1> QED BY <1>2 DEF Ask, PageType

LEMMA ServeType ==
  ASSUME Typed, NEW h \in Handler, Serve(h)
  PROVE  Typed'
<1>1. CASE Load(h)
  BY <1>1, LoadType
<1>2. CASE SetToken(h)
  <2>1. ReqType'
    BY <1>2, GotoType DEF SetToken, At, Typed
  <2> QED BY <1>2, <2>1 DEF SetToken, browser, landing, history, Typed, DaemonType, PageType, CountType
<1>3. CASE Truncate(h)
  <2>1. ReqType'
    BY <1>3, GotoType DEF Truncate, At, Typed
  <2> QED BY <1>3, <2>1 DEF Truncate, browser, landing, history, Typed, DaemonType, PageType, CountType
<1>4. CASE Write(h)
  <2>1. ReqType'
    BY <1>4, GotoType DEF Write, At, Typed
  <2>2. req[h] \in Requests /\ (req[h].op \in {"connect", "add"} => req[h].url \in Relay)
    BY <1>4 DEF Write, At, Typed, ReqType
  <2>3. file' \in Settings
    BY <1>4, <2>2 DEF Write, Requests
  <2>4. kept' \subseteq Relay
    BY <1>4, <2>2 DEF Write, Typed, CountType
  <2> QED BY <1>4, <2>1, <2>3, <2>4 DEF Write, browser, landing, Typed, DaemonType, PageType, CountType
<1>5. CASE Control(h)
  <2>1. ReqType'
    BY <1>5, GotoType DEF Control, At, Typed
  <2>2. CASE req[h].op = "connect"
    <3>1. req[h].url \in Relay
      BY <1>5, <2>2 DEF Control, At, Typed, ReqType
    <3>2. PICK i \in Task :
            /\ tasks' = [Stopped EXCEPT ![i] = [url |-> req[h].url, stop |-> FALSE, st |-> "new"]]
            /\ ctl' = i /\ local' = [local EXCEPT !.url = req[h].url]
      BY <1>5, <2>2 DEF Control, Start
    <3>3. [url |-> req[h].url, stop |-> FALSE, st |-> "new"] \in Tasks
      BY <3>1 DEF Tasks
    <3>4. tasks' \in [Task -> Tasks \cup {None}]
      BY <3>2, <3>3, StoppedType DEF Typed
    <3>5. DaemonType'
      BY <1>5, <3>1, <3>2, <3>4 DEF Control, Typed, DaemonType
    <3> QED BY <1>5, <2>1, <3>5 DEF Control, browser, landing, history, Typed, PageType, CountType
  <2>3. CASE req[h].op # "connect"
    <3>1. DaemonType'
      BY <1>5, <2>3, StoppedType DEF Control, Typed, DaemonType
    <3> QED BY <1>5, <2>1, <3>1 DEF Control, browser, landing, history, Typed, PageType, CountType
  <2> QED BY <2>2, <2>3
<1>6. CASE Untarget(h)
  <2>1. ReqType'
    BY <1>6, GotoType DEF Untarget, At, Typed
  <2> QED BY <1>6, <2>1 DEF Untarget, browser, landing, history, Typed, DaemonType, PageType, CountType
<1>7. CASE Answered(h)
  <2>1. ReqType' /\ DaemonType' /\ CountType'
    BY <1>7 DEF Answered, At, daemon, history, Typed, ReqType, DaemonType, CountType
  <2>2. busy' \in [Page -> BOOLEAN]
    BY <1>7 DEF Answered, NotBusy, Typed, PageType
  <2>3. polls' \in [Page -> [Poll -> Info \cup {None, Torn}]]
    <3>1. polls' = polls \/ \E q \in Poll : Ask(req[h].page, q)
      BY <1>7 DEF Answered
    <3>2. req[h].page \in Page
      BY <1>7 DEF Answered, At, Typed, ReqType, Requests
    <3> QED BY <3>1, <3>2, AskType DEF Typed, PageType
  <2> QED BY <1>7, <2>1, <2>2, <2>3 DEF Answered, landing, Typed, PageType
<1> QED BY <1>1, <1>2, <1>3, <1>4, <1>5, <1>6, <1>7 DEF Serve

\* What Restart does to the tasks, the local state and the settings.
LEMMA RestartType ==
  ASSUME Typed, Restart
  PROVE  Typed'
<1>1. file' \in Settings /\ file'.active \in Relay \cup {None} /\ file'.relays \subseteq Relay
  BY ReadType DEF Restart, Typed, Settings
<1>2. local' \in [url : Relay \cup {None}, online : BOOLEAN]
  BY <1>1 DEF Restart
<1>3. PICK i \in Task :
       /\ tasks' = [j \in Task |-> IF j = i /\ file'.active # None
                                   THEN [url |-> file'.active, stop |-> FALSE, st |-> "new"] ELSE None]
       /\ ctl' = IF file'.active = None THEN None ELSE i
  BY DEF Restart
<1>4. tasks' \in [Task -> Tasks \cup {None}] /\ ctl' \in Task \cup {None}
  <2>1. file'.active # None => [url |-> file'.active, stop |-> FALSE, st |-> "new"] \in Tasks
    BY <1>1 DEF Tasks
  <2> QED BY <1>3, <2>1
<1>5. kept' \subseteq Relay /\ overlapped' \in BOOLEAN /\ acts' \in 0..MaxActs
  BY <1>1, ActType DEF Restart, Typed, CountType
<1>6. ReqType'
  BY DEF Restart, ReqType
<1>7. PageType'
  BY DEF Restart, landing, Typed, PageType
<1> QED BY <1>1, <1>2, <1>4, <1>5, <1>6, <1>7 DEF Restart, Typed, DaemonType, CountType

LEMMA SendType ==
  ASSUME Typed, NEW p \in Page, NEW op, NEW url, Send(p, op, url),
         \/ op \in {"connect", "add", "remove"} /\ url \in Relay
         \/ op \in {"disconnect", "token"} /\ url = None
  PROVE  Typed'
<1>1. PICK h \in Handler :
        req' = [req EXCEPT ![h] = [page |-> p, op |-> op, url |-> url, step |-> "sent",
                                   copy |-> Blank, ok |-> TRUE, mine |-> TRUE]]
  BY DEF Send
<1>2. [page |-> p, op |-> op, url |-> url, step |-> "sent", copy |-> Blank, ok |-> TRUE,
       mine |-> TRUE] \in Requests
  BY DEF Requests, Blank, Settings
<1>3. ReqType'
  BY <1>1, <1>2 DEF Typed, ReqType
<1>4. acts' \in 0..MaxActs
  BY ActType DEF Send, Typed, CountType
<1>5. UNCHANGED <<daemon, landing, view, polls, history>> /\ busy' = [busy EXCEPT ![p] = TRUE]
  BY DEF Send
<1> QED BY <1>3, <1>4, <1>5 DEF daemon, landing, history, Typed, DaemonType, PageType, CountType

LEMMA ClickType ==
  ASSUME Typed, NEW p \in Page,
         Disconnect(p) \/ ConnectRow(p) \/ RemoveRow(p) \/ AddRelay(p) \/ QuickConnect(p) \/ SaveToken(p)
  PROVE  Typed'
<1>1. view[p].set.relays \subseteq Relay
  <2>1. view[p] \in Info
    BY DEF Typed, PageType
  <2>2. view[p].set \in Settings
    BY <2>1 DEF Info
  <2> QED BY <2>2 DEF Settings
<1>2. Send(p, "disconnect", None) \/ Send(p, "token", None)
      \/ \E op \in {"connect", "add", "remove"}, r \in Relay : Send(p, op, r)
  BY <1>1 DEF Disconnect, ConnectRow, RemoveRow, AddRelay, QuickConnect, SaveToken
<1>3. CASE Send(p, "disconnect", None)
  BY <1>3, SendType
<1>4. CASE Send(p, "token", None)
  BY <1>4, SendType
<1>5. ASSUME NEW op \in {"connect", "add", "remove"}, NEW r \in Relay, Send(p, op, r) PROVE Typed'
  <2>1. op \in {"connect", "add", "remove"} /\ r \in Relay
    OBVIOUS
  <2> QED BY <1>5, <2>1, SendType
<1> QED BY <1>2, <1>3, <1>4, <1>5

LEMMA BrowserType ==
  ASSUME Typed, NEW p \in Page, Probe(p) \/ Enter(p) \/ Navigate(p) \/ \E q \in Poll : Show(p, q)
  PROVE  Typed'
<1>1. CASE Probe(p) \/ Enter(p)
  <2>1. mode' \in [Page -> {"checking", "hero", "shell"}] /\ tries' \in [Page -> 0..MaxTries]
    <3>1. mode \in [Page -> {"checking", "hero", "shell"}] /\ tries \in [Page -> 0..MaxTries]
      BY DEF Typed, PageType
    <3>2. /\ \/ mode' = mode
             \/ \E s \in {"hero", "shell"} : mode' = [mode EXCEPT ![p] = s]
          /\ \/ tries' = tries
             \/ tries' = [tries EXCEPT ![p] = 0]
             \/ tries[p] < MaxTries /\ tries' = [tries EXCEPT ![p] = @ + 1]
      <4>1. CASE Probe(p)
        BY <4>1 DEF Probe
      <4>2. CASE Enter(p)
        BY <4>2 DEF Enter
      <4> QED BY <1>1, <4>1, <4>2
    <3> QED BY <3>1, <3>2, ActsAssumption
  <2> QED BY <1>1, <2>1
     DEF Probe, Enter, daemon, history, Typed, DaemonType, ReqType, PageType, CountType
<1>2. CASE Navigate(p)
  <2>1. \A h \in Handler : req[h] # None =>
          /\ [req[h] EXCEPT !.mine = FALSE] \in Requests
          /\ [req[h] EXCEPT !.mine = FALSE].op = req[h].op
          /\ [req[h] EXCEPT !.mine = FALSE].url = req[h].url
    BY DEF Typed, ReqType, Requests
  <2>2. ReqType'
    BY <1>2, <2>1 DEF Navigate, Typed, ReqType
  <2> QED BY <1>2, <2>2 DEF Navigate, daemon, landing, history, Typed, DaemonType, PageType, CountType
<1>3. CASE \E q \in Poll : Show(p, q)
  <2>1. PICK q \in Poll : Show(p, q)
    BY <1>3
  <2>2. UNCHANGED <<daemon, req, landing, busy, history, acts>>
    BY <2>1 DEF Show, PollTimer, PollRead, PollAnswer
  <2>3. [url |-> local.url, online |-> local.online, set |-> Read, token |-> 0] \in Info
    BY ReadType DEF Info, Typed, DaemonType
  <2>4. polls[p][q] \in Info => [polls[p][q] EXCEPT !.token = token] \in Info
    BY DEF Info, Typed, DaemonType
  <2>5. polls' \in [Page -> [Poll -> Info \cup {None, Torn}]]
    <3>1. Ask(p, q) \/ \E v \in Info \cup {None} : polls' = [polls EXCEPT ![p][q] = v]
      BY <2>1, <2>3 DEF Show, PollTimer, PollRead, PollAnswer
    <3>2. polls \in [Page -> [Poll -> Info \cup {None, Torn}]]
      BY DEF Typed, PageType
    <3>3. polls[p] \in [Poll -> Info \cup {None, Torn}]
      BY <3>2
    <3>4. \A v \in Info \cup {None} : [polls[p] EXCEPT ![q] = v] \in [Poll -> Info \cup {None, Torn}]
      BY <3>3
    <3> QED BY <3>1, <3>2, <3>4, AskType DEF Typed
  <2>6. view' \in [Page -> Info]
    BY <2>1, <2>4 DEF Show, PollTimer, PollRead, PollAnswer, Typed, PageType
  <2> QED BY <2>2, <2>5, <2>6 DEF daemon, landing, history, Typed, DaemonType, ReqType, PageType, CountType
<1> QED BY <1>1, <1>2, <1>3

LEMMA TypedStep ==
  ASSUME Typed, [Next]_vars
  PROVE  Typed'
<1>1. CASE UNCHANGED vars
  BY <1>1 DEF vars, daemon, browser, landing, history, Typed, DaemonType, ReqType, PageType, CountType
<1> QED BY <1>1, TaskType, ServeType, RestartType, ClickType, BrowserType DEF Next

LEMMA TypedImpliesTypeOK ==
  ASSUME Typed
  PROVE  TypeOK
BY DEF Typed, DaemonType, ReqType, PageType, CountType, TypeOK

\* Every variable keeps its type: what is read, saved, shown and served is well formed, and
\* an active relay is a relay or none, whatever is torn or overtaken (config.rs:103-166).
THEOREM TypeCorrect == Spec => []TypeOK
<1>1. Spec => []Typed
  BY TypedInit, TypedStep, PTL DEF Spec
<1> QED BY <1>1, TypedImpliesTypeOK, PTL

-----------------------------------------------------------------------------
(* The relay tasks: one at a time, and what is shown of it.                *)

LEMMA TaskedUnchanged ==
  ASSUME Tasked, UNCHANGED <<tasks, ctl, local>>
  PROVE  Tasked'
BY DEF Tasked, CtlInv, OneTask, OnlineInv, Alive

\* A task changes its own state only; it goes only when it was told to.
LEMMA TaskedTask ==
  ASSUME Typed, Tasked, NEW i \in Task, RunTask(i)
  PROVE  Tasked'
<1>0. /\ tasks \in [Task -> Tasks \cup {None}] /\ None \notin Tasks /\ ctl' = ctl
      /\ ctl \in Task \cup {None} /\ Alive(i) /\ tasks[i] \in Tasks
  BY NullAssumption DEF Typed, DaemonType, RunTask, Begins, Registered, Fails, TaskLost, Redial,
     TaskStops, Alive
<1>1. CASE TaskStops(i)
  <2>1. tasks[i].stop /\ tasks' = [tasks EXCEPT ![i] = None] /\ ~local'.online
    BY <1>1 DEF TaskStops, ExitNote, Note, Typed, DaemonType
  <2>2. ctl # i
    BY <2>1, <1>0, NoneAssumption DEF Tasked, CtlInv
  <2> QED BY <1>0, <2>1, <2>2 DEF Tasked, CtlInv, OneTask, OnlineInv, Alive
<1>2. CASE \E st \in {"dialing", "up", "waiting"} : Become(i, st)
  <2>1. PICK st \in {"dialing", "up", "waiting"} : tasks' = [tasks EXCEPT ![i].st = st]
    BY <1>2 DEF Become
  <2>2. tasks'[i] \in Tasks /\ tasks'[i].stop = tasks[i].stop /\ tasks'[i].st = st
        /\ \A j \in Task \ {i} : tasks'[j] = tasks[j]
    BY <1>0, <2>1 DEF Tasks
  <2>3. CtlInv' /\ OneTask'
    BY <1>0, <2>2 DEF Tasked, CtlInv, OneTask, Alive
  <2>4. OnlineInv'
    <3>1. CASE Registered(i)
      <4>1. tasks' = [tasks EXCEPT ![i].st = "up"]
        BY <3>1 DEF Registered, Become
      <4>2. tasks'[i].st = "up" /\ tasks'[i] # None
        BY <1>0, <4>1, <2>2 DEF Tasks
      <4> QED BY <4>2 DEF OnlineInv, Alive
    <3>2. CASE Begins(i) \/ Fails(i) \/ TaskLost(i)
      <4>1. local' = [local EXCEPT !.online = FALSE] /\ local \in [url : Relay \cup {None}, online : BOOLEAN]
        BY <3>2 DEF Begins, Fails, TaskLost, Note, Typed, DaemonType
      <4>2. ~local'.online
        BY <4>1
      <4> QED BY <4>2 DEF OnlineInv
    <3>3. CASE Redial(i)
      <4>1. tasks[i].st = "waiting" /\ ~tasks[i].stop /\ local' = local
        BY <3>3 DEF Redial
      <4>2. ASSUME local.online PROVE \E j \in Task : Alive(j)' /\ (tasks'[j].st = "up" \/ tasks'[j].stop)
        <5>1. PICK j \in Task : Alive(j) /\ (tasks[j].st = "up" \/ tasks[j].stop)
          BY <4>2 DEF Tasked, OnlineInv
        <5>2. j # i
          BY <4>1, <5>1
        <5> QED BY <2>2, <5>1, <5>2 DEF Alive
      <4> QED BY <4>1, <4>2 DEF OnlineInv
    <3>4. CASE TaskStops(i)
      BY <1>1, <3>4 DEF Tasked
    <3> QED BY <3>1, <3>2, <3>3, <3>4 DEF RunTask
  <2> QED BY <2>3, <2>4 DEF Tasked
<1> QED BY <1>1, <1>2 DEF RunTask, Begins, Registered, Fails, TaskLost, Redial

\* After stop() every task that is alive has been told to stop; none is gone, and none is
\* less connected than before.
LEMMA AllStopped ==
  ASSUME Typed, Tasked
  PROVE  /\ Stopped \in [Task -> Tasks \cup {None}]
         /\ \A j \in Task : (Stopped[j] # None) <=> Alive(j)
         /\ \A j \in Task : Alive(j) => Stopped[j].stop /\ Stopped[j].st = tasks[j].st
<1>1. Stopped \in [Task -> Tasks \cup {None}]
  BY StoppedType DEF Typed
<1>2. tasks \in [Task -> Tasks \cup {None}] /\ None \notin Tasks /\ ctl \in Task \cup {None}
      /\ None \notin Task
  BY NullAssumption, NoneAssumption DEF Typed, DaemonType
<1>3. CASE ctl = None
  BY <1>1, <1>2, <1>3 DEF Stopped, Tasked, OneTask, Alive, Tasks
<1>4. CASE ctl # None
  <2>1. Alive(ctl) /\ ctl \in Task /\ tasks[ctl] \in Tasks
    BY <1>2, <1>4 DEF Tasked, CtlInv, Alive
  <2>2. Stopped = [tasks EXCEPT ![ctl].stop = TRUE]
    BY <1>4, <2>1 DEF Stopped, Alive
  <2>3. Stopped[ctl] \in Tasks /\ Stopped[ctl].stop /\ Stopped[ctl].st = tasks[ctl].st
        /\ \A j \in Task \ {ctl} : Stopped[j] = tasks[j]
    BY <1>2, <2>1, <2>2 DEF Tasks
  <2>4. ASSUME NEW j \in Task \ {ctl}, Alive(j) PROVE tasks[j].stop
    <3>1. tasks[j] \in Tasks
      BY <1>2, <2>4 DEF Alive
    <3> QED BY <2>4, <3>1 DEF Tasked, OneTask, Tasks
  <2>5. (Stopped[ctl] # None) <=> Alive(ctl)
    BY <1>2, <2>1, <2>3
  <2>6. \A j \in Task \ {ctl} : /\ (Stopped[j] # None) <=> Alive(j)
                                /\ Alive(j) => Stopped[j].stop /\ Stopped[j].st = tasks[j].st
    BY <2>3, <2>4 DEF Alive
  <2> QED BY <1>1, <2>3, <2>5, <2>6
<1> QED BY <1>3, <1>4

LEMMA TaskedControl ==
  ASSUME Typed, Tasked, NEW h \in Handler, Control(h)
  PROVE  Tasked'
<1>1. CASE req[h].op = "connect"
  <2>1. PICK i \in Task :
          /\ ~Alive(i) /\ ctl' = i
          /\ tasks' = [Stopped EXCEPT ![i] = [url |-> req[h].url, stop |-> FALSE, st |-> "new"]]
          /\ local' = [local EXCEPT !.url = req[h].url]
    BY <1>1 DEF Control, Start
  <2>2. [url |-> req[h].url, stop |-> FALSE, st |-> "new"] # None
    <3>1. req[h].url \in Relay
      BY <1>1 DEF Control, At, Typed, ReqType
    <3>2. [url |-> req[h].url, stop |-> FALSE, st |-> "new"] \in Tasks
      BY <3>1 DEF Tasks
    <3> QED BY <3>2, NullAssumption
  <2>3. tasks'[i] # None /\ ~tasks'[i].stop /\ \A j \in Task \ {i} : tasks'[j] = Stopped[j]
    BY <2>1, <2>2, AllStopped
  <2>4. CtlInv' /\ OneTask'
    BY <2>1, <2>3, AllStopped DEF CtlInv, OneTask, Alive
  <2>5. local'.online = local.online
    BY <2>1 DEF Typed, DaemonType
  <2>6. OnlineInv'
    <3>1. ASSUME local.online PROVE \E j \in Task : Alive(j)' /\ (tasks'[j].st = "up" \/ tasks'[j].stop)
      <4>1. PICK j \in Task : Alive(j)
        BY <3>1 DEF Tasked, OnlineInv
      <4>2. j # i /\ Stopped[j] # None /\ Stopped[j].stop
        BY <2>1, <4>1, AllStopped
      <4> QED BY <2>3, <4>2 DEF Alive
    <3> QED BY <2>5, <3>1 DEF OnlineInv
  <2> QED BY <2>4, <2>6 DEF Tasked
<1>2. CASE req[h].op # "connect"
  <2>1. tasks' = Stopped /\ ctl' = None /\ local' = local
    BY <1>2 DEF Control
  <2>2. OneTask' /\ CtlInv'
    BY <2>1, AllStopped DEF OneTask, CtlInv, Alive
  <2>3. OnlineInv'
    BY <2>1, AllStopped DEF Tasked, OnlineInv, Alive
  <2> QED BY <2>2, <2>3 DEF Tasked
<1> QED BY <1>1, <1>2

LEMMA TaskedRestart ==
  ASSUME Typed, Restart
  PROVE  Tasked'
<1>1. file'.active \in Relay \cup {None}
  BY ReadType DEF Restart, Typed, Settings
<1>2. PICK i \in Task :
       /\ tasks' = [j \in Task |-> IF j = i /\ file'.active # None
                                   THEN [url |-> file'.active, stop |-> FALSE, st |-> "new"] ELSE None]
       /\ ctl' = IF file'.active = None THEN None ELSE i
  BY DEF Restart
<1>3. file'.active # None => [url |-> file'.active, stop |-> FALSE, st |-> "new"] # None
  <2>1. file'.active # None => [url |-> file'.active, stop |-> FALSE, st |-> "new"] \in Tasks
    BY <1>1 DEF Tasks
  <2> QED BY <2>1, NullAssumption
<1>4. CtlInv' /\ OneTask'
  BY <1>2, <1>3 DEF CtlInv, OneTask, Alive
<1>5. OnlineInv'
  BY DEF Restart, OnlineInv
<1> QED BY <1>4, <1>5 DEF Tasked

LEMMA TaskedStep ==
  ASSUME Typed, Tasked, [Next]_vars
  PROVE  Tasked'
<1>1. CASE UNCHANGED <<tasks, ctl, local>>
  BY <1>1, TaskedUnchanged
<1>2. ASSUME NEW i \in Task, RunTask(i) PROVE Tasked'
  BY <1>2, TaskedTask
<1>3. ASSUME NEW h \in Handler, Serve(h) PROVE Tasked'
  <2>1. CASE Control(h)
    BY <2>1, TaskedControl
  <2>2. CASE Untarget(h)
    <3>1. UNCHANGED <<tasks, ctl>> /\ ~local'.online
      BY <2>2 DEF Untarget
    <3> QED BY <3>1 DEF Tasked, CtlInv, OneTask, OnlineInv, Alive
  <2>3. CASE Load(h) \/ SetToken(h) \/ Truncate(h) \/ Write(h) \/ Answered(h)
    BY <2>3, <1>1 DEF Load, SetToken, Truncate, Write, Answered, daemon
  <2> QED BY <1>3, <2>1, <2>2, <2>3 DEF Serve
<1>4. CASE Restart
  BY <1>4, TaskedRestart
<1>5. ASSUME NEW p \in Page,
             Probe(p) \/ Enter(p) \/ Navigate(p) \/ \E q \in Poll : Show(p, q)
      PROVE  Tasked'
  BY <1>1, <1>5 DEF Probe, Enter, Navigate, Show, PollTimer, PollRead, PollAnswer, daemon
<1>6. ASSUME NEW p \in Page,
             Disconnect(p) \/ ConnectRow(p) \/ RemoveRow(p) \/ AddRelay(p) \/ QuickConnect(p) \/ SaveToken(p)
      PROVE  Tasked'
  <2>1. \A op, url : Send(p, op, url) => UNCHANGED <<tasks, ctl, local>>
    BY DEF Send, daemon
  <2> QED BY <1>1, <1>6, <2>1 DEF Disconnect, ConnectRow, RemoveRow, AddRelay, QuickConnect, SaveToken
<1>7. CASE UNCHANGED vars
  BY <1>1, <1>7 DEF vars, daemon
<1> QED BY <1>2, <1>3, <1>4, <1>5, <1>6, <1>7 DEF Next

LEMMA TaskedInit ==
  ASSUME Init
  PROVE  Tasked
BY DEF Init, Tasked, CtlInv, OneTask, OnlineInv, Alive

\* However many requests overlap and in whatever order their steps fall, at most one relay
\* task is not told to stop, and RelayCtl can stop it (ws.rs:98-117).
THEOREM TaskIsSingle == Spec => []OneTask
<1>1. Spec => [](Typed /\ Tasked)
  BY TypedInit, TypedStep, TaskedInit, TaskedStep, PTL DEF Spec
<1>2. Typed /\ Tasked => OneTask
  BY DEF Tasked
<1> QED BY <1>1, <1>2, PTL

\* A relay shown online is one the daemon is registered at, or was told to leave
\* (relay_client.rs:53, ws.rs:66-84).
THEOREM OnlineIsTruthful == Spec => []OnlineIsTrue
<1>1. Spec => [](Typed /\ Tasked)
  BY TypedInit, TypedStep, TaskedInit, TaskedStep, PTL DEF Spec
<1>2. Typed /\ Tasked => OnlineIsTrue
  BY DEF Tasked, OnlineInv, OnlineIsTrue
<1> QED BY <1>1, <1>2, PTL

-----------------------------------------------------------------------------
(* What is saved, what is shown and what runs.                             *)

\* The active relay is listed, in the file and in every copy a request works on.
ListedIn(s) == s.active = None \/ s.active \in s.relays
FileInv ==
  /\ file # Torn => ListedIn(file)
  /\ \A h \in Handler : req[h] # None => ListedIn(req[h].copy)

\* The list that a request is going to save.
Keeps(r) ==
  r.copy.relays = CASE r.op \in {"connect", "add"} -> kept \cup {r.url}
                    [] r.op = "remove" -> kept \ {r.url}
                    [] OTHER -> kept

\* The relay is being left: before a disconnection that is saved, or one that will be.
Leaving(r) ==
  \/ r.op = "disconnect" /\ file.active = None
  \/ r.op = "remove" /\ r.copy.active = None /\ Keeps(r)

\* What holds while a request that is served alone is at a step.
Phase(r) ==
  /\ r.step \in {"loaded", "writing"} =>
       /\ local.url = Running /\ Keeps(r) /\ r.op # "token"
       /\ r.op = "connect" => r.copy.active = r.url
       /\ r.op = "disconnect" => r.copy.active = None
       /\ r.op \in {"add", "remove"} => r.copy.active = Running
  /\ r.step \in {"loaded", "saved", "stopped"} => file # Torn
  /\ r.step = "saved" => Leaving(r) \/ (r.op = "connect" /\ file.active = r.url)
  /\ r.step = "stopped" => Leaving(r) /\ ctl = None

Idle == \A h \in Handler : ~Working(h)
Agree == file # Torn /\ file.active = local.url /\ local.url = Running

Alone ==
  /\ \A g, h \in Handler : Working(g) /\ Working(h) => g = h
  /\ \A h \in Handler : Working(h) => Phase(req[h])
  /\ Idle => Agree
  /\ file # Torn => file.relays = kept

Saved == FileInv /\ (~overlapped => Alone)

\* Changing the settings keeps the active relay listed.
LEMMA EditedListed ==
  ASSUME NEW r \in Requests, NEW c \in Settings, r.op # "token", ListedIn(c),
         r.op \in {"connect", "add", "remove"} => r.url \in Relay
  PROVE  ListedIn(Edited(r, c))
<1>1. CASE r.op = "connect"
  BY <1>1 DEF Edited, ListedIn
<1>2. CASE r.op = "disconnect"
  BY <1>2 DEF Edited, ListedIn, Settings
<1>3. CASE r.op = "add"
  BY <1>3 DEF Edited, ListedIn, Settings
<1>4. CASE r.op = "remove"
  BY <1>4 DEF Edited, ListedIn, Settings
<1> QED BY <1>1, <1>2, <1>3, <1>4 DEF Requests

LEMMA ReadListed ==
  ASSUME DaemonType
  PROVE  ListedIn(Read) /\ (file # Torn /\ ListedIn(file) => Read = file)
<1>1. CASE file = Torn
  BY <1>1 DEF Read, Blank, ListedIn
<1>2. CASE file # Torn
  <2>1. file \in Settings
    BY <1>2 DEF DaemonType
  <2> QED BY <1>2, <2>1 DEF Read, ListedIn, Settings
<1> QED BY <1>1, <1>2

\* Nothing of the requests, the file and the relay that is connected to changes.
LEMMA SavedUnchanged ==
  ASSUME Saved, UNCHANGED <<file, ctl, kept, overlapped>>, local'.url = local.url,
         Running' = Running,
         \A h \in Handler : \/ req'[h] = req[h]
                            \/ /\ req'[h] # None /\ ListedIn(req'[h].copy)
                               /\ ~Working(h) /\ ~Working(h)'
                            \/ /\ req[h] # None /\ req'[h] # None
                               /\ \A f \in {"op", "url", "step", "copy"} : req'[h][f] = req[h][f]
                            \/ req'[h] = None /\ ~Working(h)
  PROVE  Saved'
<1>1. FileInv'
  BY DEF Saved, FileInv, ListedIn
<1>2. ASSUME NEW h \in Handler PROVE Working(h)' <=> Working(h)
  BY DEF Working
<1>3. ASSUME NEW h \in Handler, Working(h)
      PROVE  req'[h].op = req[h].op /\ req'[h].url = req[h].url /\ req'[h].step = req[h].step
             /\ req'[h].copy = req[h].copy
  BY <1>3 DEF Working
<1>4. ASSUME ~overlapped PROVE Alone'
  <2>1. Alone
    BY <1>4 DEF Saved
  <2>2. ASSUME NEW h \in Handler, Working(h)' PROVE Phase(req[h])'
    <3>1. Phase(req[h]) /\ Working(h)
      BY <1>2, <2>1, <2>2 DEF Alone
    <3>2. (Keeps(req[h]))' <=> Keeps(req[h])
      BY <1>3, <3>1 DEF Keeps
    <3> QED BY <1>3, <3>1, <3>2 DEF Phase, Leaving
  <2> QED BY <1>2, <2>1, <2>2 DEF Alone, Idle, Agree
<1> QED BY <1>1, <1>4 DEF Saved

\* The relay that is connected to is that of ctl, which no task changes.
LEMMA RunningKept ==
  ASSUME Typed, Tasked, NEW i \in Task, RunTask(i)
  PROVE  Running' = Running /\ local'.url = local.url
<1>0. /\ tasks \in [Task -> Tasks \cup {None}] /\ None \notin Tasks /\ ctl' = ctl
      /\ ctl \in Task \cup {None} /\ Alive(i) /\ tasks[i] \in Tasks
  BY NullAssumption DEF Typed, DaemonType, RunTask, Begins, Registered, Fails, TaskLost, Redial,
     TaskStops, Alive
<1>1. local'.url = local.url
  BY DEF RunTask, Begins, Registered, Fails, TaskLost, Redial, TaskStops, Note, ExitNote, Typed, DaemonType
<1>2. CASE TaskStops(i)
  <2>1. tasks[i].stop /\ tasks' = [tasks EXCEPT ![i] = None]
    BY <1>2 DEF TaskStops
  <2>2. ctl # i
    BY <2>1, <1>0, NoneAssumption DEF Tasked, CtlInv
  <2> QED BY <1>0, <1>1, <2>1, <2>2 DEF Running
<1>3. CASE \E st \in {"dialing", "up", "waiting"} : Become(i, st)
  <2>1. tasks'[i].url = tasks[i].url /\ \A j \in Task \ {i} : tasks'[j] = tasks[j]
    BY <1>0, <1>3 DEF Become, Tasks
  <2> QED BY <1>0, <1>1, <2>1 DEF Running
<1> QED BY <1>2, <1>3 DEF RunTask, Begins, Registered, Fails, TaskLost, Redial

\* A request of which h is at a step after the first: when it is served alone, no other is.
LEMMA OthersIdle ==
  ASSUME Saved, ~overlapped, NEW h \in Handler, Working(h)
  PROVE  /\ Alone /\ Phase(req[h])
         /\ \A g \in Handler \ {h} : ~Working(g)
BY DEF Saved, Alone

\* After a step of h, which is served alone: it holds for h, or h is done and all agrees.
LEMMA AloneStep ==
  ASSUME NEW h \in Handler,
         \A g \in Handler \ {h} : ~Working(g) /\ req'[g] = req[g],
         Working(h)' => Phase(req[h])', ~Working(h)' => Agree',
         (file # Torn => file.relays = kept)'
  PROVE  Alone'
<1>1. \A g \in Handler \ {h} : ~Working(g)'
  BY DEF Working
<1> QED BY <1>1 DEF Alone, Idle

LEMMA SavedLoad ==
  ASSUME Typed, Saved, NEW h \in Handler, Load(h)
  PROVE  Saved'
<1> DEFINE r == req[h]
           c == Edited(r, Read)
<1>1. r \in Requests /\ r.op # "token" /\ (r.op \in {"connect", "add", "remove"} => r.url \in Relay)
      /\ r.step = "sent" /\ ~Working(h)
  BY DEF Load, At, Working, Typed, ReqType
<1>2. Read \in Settings /\ ListedIn(Read) /\ c \in Settings /\ ListedIn(c)
  BY <1>1, ReadType, ReadListed, EditedType, EditedListed DEF Typed
<1>3. UNCHANGED <<file, local, tasks, ctl, kept>> /\ Running' = Running
  BY DEF Load, daemon, Running
<1>4. /\ req'[h].copy = c /\ req'[h].op = r.op /\ req'[h].url = r.url /\ req'[h] # None
      /\ req'[h].step = IF r.op = "add" /\ r.url \in Read.relays THEN "done"
                        ELSE IF r.op = "remove" /\ Read.active = r.url THEN "saved" ELSE "loaded"
      /\ \A g \in Handler \ {h} : req'[g] = req[g]
  <2>1. PICK ok \in BOOLEAN, st \in {"done", "saved", "loaded"} :
          /\ req' = [req EXCEPT ![h].copy = c, ![h].ok = ok, ![h].step = st]
          /\ st = IF r.op = "add" /\ r.url \in Read.relays THEN "done"
                  ELSE IF r.op = "remove" /\ Read.active = r.url THEN "saved" ELSE "loaded"
    BY DEF Load
  <2> HIDE DEF c
  <2>2. req'[h] = [r EXCEPT !.copy = c, !.ok = ok, !.step = st] /\ \A g \in Handler \ {h} : req'[g] = req[g]
    BY <2>1 DEF Typed, ReqType
  <2>3. req'[h] \in Requests
    BY <1>1, <1>2, <2>1 DEF Requests, Typed, ReqType
  <2>4. req'[h].copy = c /\ req'[h].op = r.op /\ req'[h].url = r.url /\ req'[h].step = st
    BY <1>1, <2>2 DEF Requests
  <2> QED BY <2>1, <2>2, <2>3, <2>4, NullAssumption
<1>5. FileInv'
  BY <1>2, <1>3, <1>4 DEF Saved, FileInv, ListedIn
<1>6. ASSUME ~overlapped' PROVE Alone'
  <2>1. ~overlapped /\ Idle
    BY <1>6 DEF Load, Idle
  <2>2. Alone /\ Agree /\ file.relays = kept
    BY <2>1 DEF Saved, Alone, Agree
  <2>3. Read = file
    BY <2>2, ReadListed DEF Typed, Saved, FileInv, Agree
  <2>4. Keeps(req[h])'
    <3>1. c.relays = CASE r.op \in {"connect", "add"} -> kept \cup {r.url}
                       [] r.op = "remove" -> kept \ {r.url} [] OTHER -> kept
      <4>1. CASE r.op = "connect"
        BY <4>1, <2>2, <2>3 DEF Edited
      <4>2. CASE r.op = "add"
        BY <1>2, <4>2, <2>2, <2>3 DEF Edited, Settings
      <4>3. CASE r.op = "remove"
        BY <4>3, <2>2, <2>3 DEF Edited
      <4>4. CASE r.op = "disconnect"
        BY <1>2, <4>4, <2>2, <2>3 DEF Edited, Settings
      <4> QED BY <1>1, <4>1, <4>2, <4>3, <4>4 DEF Requests
    <3> QED BY <1>3, <1>4, <3>1 DEF Keeps
  <2>5. CASE req'[h].step = "done"
    <3>1. ~Working(h)' /\ Agree'
      BY <1>3, <2>2, <2>5 DEF Working, Agree
    <3> QED BY <1>3, <1>4, <2>1, <2>2, <3>1, AloneStep DEF Idle
  <2>6. CASE req'[h].step = "saved"
    <3>1. r.op = "remove" /\ file.active = r.url
      BY <1>4, <2>3, <2>6
    <3>2. c.active = None
      BY <3>1, <2>3 DEF Edited
    <3>3. Phase(req[h])'
      BY <1>3, <1>4, <2>2, <2>4, <2>6, <3>1, <3>2 DEF Phase, Leaving, Agree
    <3>4. Working(h)'
      BY <1>4, <2>6 DEF Working
    <3> QED BY <1>3, <1>4, <2>1, <2>2, <3>3, <3>4, AloneStep DEF Idle
  <2>7. CASE req'[h].step = "loaded"
    <3>1. /\ r.op = "connect" => c.active = r.url
          /\ r.op = "disconnect" => c.active = None
      BY <1>2, <2>3 DEF Edited, Settings
    <3>2. r.op = "add" => c.active = file.active
      BY <1>2, <2>3 DEF Edited, Settings
    <3>3. r.op = "remove" => c.active = file.active
      BY <1>4, <2>3, <2>7 DEF Edited
    <3>4. Phase(req[h])'
      BY <1>1, <1>3, <1>4, <2>2, <2>4, <2>7, <3>1, <3>2, <3>3 DEF Phase, Agree
    <3>5. Working(h)'
      BY <1>4, <2>7 DEF Working
    <3> QED BY <1>3, <1>4, <2>1, <2>2, <3>4, <3>5, AloneStep DEF Idle
  <2> QED BY <1>4, <2>5, <2>6, <2>7
<1> QED BY <1>5, <1>6 DEF Saved

\* What Goto leaves of a request.
LEMMA GotoFacts ==
  ASSUME ReqType, NEW h \in Handler, req[h] # None, NEW st, Goto(h, st)
  PROVE  /\ req'[h].step = st /\ req'[h].copy = req[h].copy
         /\ req'[h].op = req[h].op /\ req'[h].url = req[h].url
         /\ \A g \in Handler \ {h} : req'[g] = req[g]
<1>1. req[h] \in Requests
  BY DEF ReqType
<1> QED BY <1>1 DEF Goto, ReqType, Requests

LEMMA SavedTruncate ==
  ASSUME Typed, Saved, NEW h \in Handler, Truncate(h)
  PROVE  Saved'
<1>1. /\ req[h] # None /\ req[h].step = "loaded" /\ file' = Torn
      /\ UNCHANGED <<local, tasks, ctl, kept, overlapped>> /\ Running' = Running
  BY DEF Truncate, At, history, Running
<1>2. /\ req'[h].step = "writing" /\ req'[h].copy = req[h].copy
      /\ req'[h].op = req[h].op /\ req'[h].url = req[h].url
      /\ \A g \in Handler \ {h} : req'[g] = req[g]
  BY <1>1, GotoFacts DEF Truncate, Typed
<1>3. FileInv'
  BY <1>1, <1>2 DEF Saved, FileInv, ListedIn
<1>4. ASSUME ~overlapped PROVE Alone'
  <2>1. Working(h)
    BY <1>1 DEF Working
  <2>2. Phase(req[h]) /\ \A g \in Handler \ {h} : ~Working(g)
    BY <1>4, <2>1, OthersIdle
  <2>3. (Keeps(req[h]))' <=> Keeps(req[h])
    BY <1>1, <1>2 DEF Keeps
  <2>4. Phase(req[h])'
    BY <1>1, <1>2, <2>2, <2>3 DEF Phase
  <2>5. Working(h)' \/ req'[h] = None
    BY <1>2 DEF Working
  <2>6. req'[h] # None
    <3>1. req[h] \in Requests
      BY <1>1 DEF Typed, ReqType
    <3>2. req'[h] \in Requests
      BY <3>1 DEF Truncate, Goto, Typed, ReqType, Requests
    <3> QED BY <3>2, NullAssumption
  <2> QED BY <1>1, <1>2, <2>2, <2>4, <2>5, <2>6, AloneStep
<1> QED BY <1>1, <1>3, <1>4 DEF Saved

LEMMA SavedWrite ==
  ASSUME Typed, Saved, NEW h \in Handler, Write(h)
  PROVE  Saved'
<1>1. /\ req[h] # None /\ req[h].step = "writing" /\ file' = req[h].copy
      /\ UNCHANGED <<local, tasks, ctl, overlapped>> /\ Running' = Running
      /\ Goto(h, IF req[h].op \in {"connect", "disconnect"} THEN "saved" ELSE "done")
  BY DEF Write, At, Running
<1>2. /\ req'[h].step = IF req[h].op \in {"connect", "disconnect"} THEN "saved" ELSE "done"
      /\ req'[h].copy = req[h].copy /\ req'[h].op = req[h].op /\ req'[h].url = req[h].url
      /\ \A g \in Handler \ {h} : req'[g] = req[g]
  BY <1>1, GotoFacts DEF Typed
<1>3. req[h] \in Requests /\ file' \in Settings /\ file' # Torn
  BY <1>1, NullAssumption DEF Typed, ReqType, Requests
<1>4. FileInv'
  BY <1>1, <1>2 DEF Saved, FileInv, ListedIn
<1>5. ASSUME ~overlapped PROVE Alone'
  <2>1. Working(h)
    BY <1>1 DEF Working
  <2>2. Phase(req[h]) /\ \A g \in Handler \ {h} : ~Working(g)
    BY <1>5, <2>1, OthersIdle
  <2>3. file'.relays = kept'
    BY <1>1, <2>2 DEF Phase, Keeps, Write
  <2>4. CASE req[h].op \in {"connect", "disconnect"}
    <3>1. Phase(req[h])'
      BY <1>1, <1>2, <1>3, <2>2, <2>4 DEF Phase, Leaving
    <3>2. req'[h] # None
      <4>1. req'[h] \in Requests
        BY <1>1, <1>3, <2>4 DEF Goto, Typed, ReqType, Requests
      <4> QED BY <4>1, NullAssumption
    <3>3. Working(h)'
      BY <1>2, <2>4, <3>2 DEF Working
    <3> QED BY <1>2, <2>2, <2>3, <3>1, <3>3, AloneStep
  <2>5. CASE req[h].op \in {"add", "remove"}
    <3>1. ~Working(h)'
      BY <1>2, <2>5 DEF Working
    <3>2. Agree'
      BY <1>1, <1>3, <2>2, <2>5 DEF Agree, Phase
    <3> QED BY <1>2, <2>2, <2>3, <3>1, <3>2, AloneStep
  <2> QED BY <1>1, <1>3, <2>2, <2>4, <2>5 DEF Phase, Requests
<1> QED BY <1>1, <1>4, <1>5 DEF Saved

LEMMA SavedControl ==
  ASSUME Typed, Saved, NEW h \in Handler, Control(h)
  PROVE  Saved'
<1>1. /\ req[h] # None /\ req[h].step = "saved" /\ req[h] \in Requests
      /\ UNCHANGED <<file, kept, overlapped>>
  BY DEF Control, At, history, Typed, ReqType
<1>2. Goto(h, IF req[h].op = "connect" THEN "done" ELSE "stopped")
  BY DEF Control
<1>3. /\ req'[h].step = IF req[h].op = "connect" THEN "done" ELSE "stopped"
      /\ req'[h].copy = req[h].copy /\ req'[h].op = req[h].op /\ req'[h].url = req[h].url
      /\ \A g \in Handler \ {h} : req'[g] = req[g]
  BY <1>1, <1>2, GotoFacts DEF Typed
<1>4. FileInv'
  BY <1>1, <1>3 DEF Saved, FileInv, ListedIn
<1>5. ASSUME ~overlapped PROVE Alone'
  <2>1. Working(h)
    BY <1>1 DEF Working
  <2>2. Alone /\ Phase(req[h]) /\ \A g \in Handler \ {h} : ~Working(g)
    BY <1>5, <2>1, OthersIdle
  <2>3. file # Torn /\ file.relays = kept
    BY <1>1, <2>2 DEF Phase, Alone
  <2>4. CASE req[h].op = "connect"
    <3>1. file.active = req[h].url /\ req[h].url \in Relay
      BY <1>1, <2>2, <2>4 DEF Phase, Leaving, Typed, ReqType
    <3>2. local'.url = req[h].url /\ Running' = req[h].url
      <4>1. PICK i \in Task :
              /\ tasks' = [Stopped EXCEPT ![i] = [url |-> req[h].url, stop |-> FALSE, st |-> "new"]]
              /\ ctl' = i /\ local' = [local EXCEPT !.url = req[h].url]
        BY <2>4 DEF Control, Start
      <4>2. ctl' # None
        BY <4>1, NoneAssumption
      <4>3. tasks'[i].url = req[h].url
        BY <4>1, StoppedType DEF Typed
      <4>4. local'.url = req[h].url
        BY <4>1 DEF Typed, DaemonType
      <4> QED BY <4>1, <4>2, <4>3, <4>4 DEF Running
    <3>3. ~Working(h)' /\ Agree'
      BY <1>1, <1>3, <2>3, <2>4, <3>1, <3>2 DEF Working, Agree
    <3> QED BY <1>1, <1>3, <2>2, <2>3, <3>3, AloneStep
  <2>5. CASE req[h].op # "connect"
    <3>1. ctl' = None
      BY <2>5 DEF Control
    <3>2. Leaving(req[h])' <=> Leaving(req[h])
      BY <1>1, <1>3 DEF Leaving, Keeps
    <3>3. Phase(req[h])'
      BY <1>1, <1>3, <2>2, <2>3, <2>5, <3>1, <3>2 DEF Phase
    <3>4. req'[h] # None
      <4>1. req'[h] \in Requests
        BY <1>1, <1>2, <2>5 DEF Goto, Typed, ReqType, Requests
      <4> QED BY <4>1, NullAssumption
    <3>5. Working(h)'
      BY <1>3, <2>5, <3>4 DEF Working
    <3> QED BY <1>1, <1>3, <2>2, <2>3, <3>3, <3>5, AloneStep
  <2> QED BY <2>4, <2>5
<1> QED BY <1>1, <1>4, <1>5 DEF Saved

LEMMA SavedUntarget ==
  ASSUME Typed, Saved, NEW h \in Handler, Untarget(h)
  PROVE  Saved'
<1>1. /\ req[h] # None /\ req[h].step = "stopped" /\ req[h] \in Requests /\ local'.url = None
      /\ UNCHANGED <<file, tasks, ctl, kept, overlapped>>
  BY DEF Untarget, At, history, Typed, ReqType
<1>2. Goto(h, IF req[h].op = "remove" THEN "loaded" ELSE "done")
  BY DEF Untarget
<1>3. /\ req'[h].step = IF req[h].op = "remove" THEN "loaded" ELSE "done"
      /\ req'[h].copy = req[h].copy /\ req'[h].op = req[h].op /\ req'[h].url = req[h].url
      /\ \A g \in Handler \ {h} : req'[g] = req[g]
  BY <1>1, <1>2, GotoFacts DEF Typed
<1>4. FileInv'
  BY <1>1, <1>3 DEF Saved, FileInv, ListedIn
<1>5. ASSUME ~overlapped PROVE Alone'
  <2>1. Working(h)
    BY <1>1 DEF Working
  <2>2. Alone /\ Phase(req[h]) /\ \A g \in Handler \ {h} : ~Working(g)
    BY <1>5, <2>1, OthersIdle
  <2>3. file # Torn /\ file.relays = kept /\ Leaving(req[h]) /\ Running' = None
    BY <1>1, <2>2 DEF Phase, Alone, Running
  <2>4. CASE req[h].op = "remove"
    <3>1. (Keeps(req[h]))'
      BY <1>1, <1>3, <2>3, <2>4 DEF Leaving, Keeps
    <3>2. Phase(req[h])'
      BY <1>1, <1>3, <2>3, <2>4, <3>1 DEF Phase, Leaving
    <3>3. req'[h] # None
      <4>1. req'[h] \in Requests
        BY <1>1, <1>2, <2>4 DEF Goto, Typed, ReqType, Requests
      <4> QED BY <4>1, NullAssumption
    <3>4. Working(h)'
      BY <1>3, <2>4, <3>3 DEF Working
    <3> QED BY <1>1, <1>3, <2>2, <2>3, <3>2, <3>4, AloneStep
  <2>5. CASE req[h].op # "remove"
    <3>1. ~Working(h)' /\ Agree'
      BY <1>1, <1>3, <2>3, <2>5 DEF Working, Agree, Leaving
    <3> QED BY <1>1, <1>3, <2>2, <2>3, <3>1, AloneStep
  <2> QED BY <2>4, <2>5
<1> QED BY <1>1, <1>4, <1>5 DEF Saved

LEMMA SavedRestart ==
  ASSUME Typed, Saved, Restart
  PROVE  Saved'
<1>1. file' = Read /\ Read \in Settings /\ file' # Torn /\ ListedIn(Read)
  BY ReadType, ReadListed, NullAssumption DEF Restart, Typed
<1>2. \A h \in Handler : req'[h] = None
  BY DEF Restart
<1>3. FileInv'
  BY <1>1, <1>2 DEF FileInv, ListedIn
<1>4. Agree'
  <2>1. PICK i \in Task :
         /\ tasks' = [j \in Task |-> IF j = i /\ file'.active # None
                                     THEN [url |-> file'.active, stop |-> FALSE, st |-> "new"] ELSE None]
         /\ ctl' = IF file'.active = None THEN None ELSE i
    BY DEF Restart
  <2>2. Running' = file'.active
    BY <2>1, NoneAssumption DEF Running
  <2>3. local'.url = file'.active
    BY DEF Restart
  <2> QED BY <1>1, <2>2, <2>3 DEF Agree
<1>5. file'.relays = kept'
  <2>1. CASE overlapped \/ file = Torn
    BY <2>1 DEF Restart
  <2>2. CASE ~overlapped /\ file # Torn
    BY <1>1, <2>2, ReadListed DEF Restart, Saved, FileInv, Alone, Typed
  <2> QED BY <2>1, <2>2
<1> QED BY <1>2, <1>3, <1>4, <1>5 DEF Saved, Alone, Idle, Working

LEMMA SavedSend ==
  ASSUME Typed, Saved, NEW p \in Page, NEW op, NEW url, Send(p, op, url),
         \/ op \in {"connect", "add", "remove"} /\ url \in Relay
         \/ op \in {"disconnect", "token"} /\ url = None
  PROVE  Saved'
<1>1. PICK h \in Handler :
        /\ req[h] = None
        /\ req' = [req EXCEPT ![h] = [page |-> p, op |-> op, url |-> url, step |-> "sent",
                                      copy |-> Blank, ok |-> TRUE, mine |-> TRUE]]
  BY DEF Send
<1>2. UNCHANGED <<file, local, tasks, ctl, kept, overlapped>> /\ Running' = Running
  BY DEF Send, daemon, history, Running
<1>3. [page |-> p, op |-> op, url |-> url, step |-> "sent", copy |-> Blank, ok |-> TRUE,
       mine |-> TRUE] \in Requests
  BY DEF Requests, Blank, Settings
<1>4. req'[h] # None /\ ListedIn(req'[h].copy) /\ ~Working(h) /\ ~Working(h)'
      /\ \A g \in Handler \ {h} : req'[g] = req[g]
  BY <1>1, <1>3, NullAssumption DEF Typed, ReqType, ListedIn, Blank, Working
<1> QED BY <1>2, <1>4, SavedUnchanged

LEMMA SavedStep ==
  ASSUME Typed, Tasked, Saved, [Next]_vars
  PROVE  Saved'
<1>1. CASE UNCHANGED <<daemon, req, history>>
  BY <1>1, SavedUnchanged DEF daemon, history, Running
<1>2. ASSUME NEW i \in Task, RunTask(i) PROVE Saved'
  <2>1. UNCHANGED <<file, ctl, kept, overlapped, req>>
    BY <1>2 DEF RunTask, Begins, Registered, Fails, TaskLost, Redial, TaskStops, history
  <2> QED BY <1>2, <2>1, RunningKept, SavedUnchanged
<1>3. ASSUME NEW h \in Handler, Answered(h) \/ SetToken(h) PROVE Saved'
  <2>1. UNCHANGED <<file, local, tasks, ctl, kept, overlapped>> /\ Running' = Running
    BY <1>3 DEF Answered, SetToken, daemon, history, Running
  <2>2. CASE Answered(h)
    <3>1. req'[h] = None /\ ~Working(h) /\ \A g \in Handler \ {h} : req'[g] = req[g]
      BY <2>2 DEF Answered, At, Working, Typed, ReqType
    <3> QED BY <2>1, <3>1, SavedUnchanged
  <2>3. CASE SetToken(h)
    <3>1. req[h] # None /\ req[h].step = "sent" /\ req[h] \in Requests /\ Goto(h, "done")
      BY <2>3 DEF SetToken, At, Typed, ReqType
    <3>2. req'[h].copy = req[h].copy /\ req'[h].step = "done" /\ \A g \in Handler \ {h} : req'[g] = req[g]
      BY <3>1, GotoFacts DEF Typed
    <3>3. req'[h] # None
      <4>1. req'[h] \in Requests
        BY <3>1 DEF Goto, Typed, ReqType, Requests
      <4> QED BY <4>1, NullAssumption
    <3>4. ~Working(h) /\ ~Working(h)' /\ ListedIn(req'[h].copy)
      BY <3>1, <3>2 DEF Working, Saved, FileInv
    <3> QED BY <2>1, <3>2, <3>3, <3>4, SavedUnchanged
  <2> QED BY <1>3, <2>2, <2>3
<1>4. ASSUME NEW p \in Page, Navigate(p) PROVE Saved'
  <2>1. UNCHANGED <<file, local, tasks, ctl, kept, overlapped>> /\ Running' = Running
    BY <1>4 DEF Navigate, daemon, history, Running
  <2>2. ASSUME NEW h \in Handler, req'[h] # req[h]
        PROVE  /\ req[h] # None /\ req'[h] # None
               /\ \A f \in {"op", "url", "step", "copy"} : req'[h][f] = req[h][f]
    <3>1. req[h] # None /\ req[h] \in Requests /\ req'[h] = [req[h] EXCEPT !.mine = FALSE]
      BY <1>4, <2>2 DEF Navigate, Typed, ReqType
    <3>2. req'[h] \in Requests
      BY <3>1 DEF Requests
    <3> QED BY <3>1, <3>2, NullAssumption DEF Requests
  <2> QED BY <2>1, <2>2, SavedUnchanged
<1>5. ASSUME NEW p \in Page,
             Disconnect(p) \/ ConnectRow(p) \/ RemoveRow(p) \/ AddRelay(p) \/ QuickConnect(p) \/ SaveToken(p)
      PROVE  Saved'
  <2>1. view[p].set.relays \subseteq Relay
    <3>1. view[p] \in Info
      BY DEF Typed, PageType
    <3>2. view[p].set \in Settings
      BY <3>1 DEF Info
    <3> QED BY <3>2 DEF Settings
  <2>2. Send(p, "disconnect", None) \/ Send(p, "token", None)
        \/ \E op \in {"connect", "add", "remove"}, r \in Relay : Send(p, op, r)
    BY <1>5, <2>1 DEF Disconnect, ConnectRow, RemoveRow, AddRelay, QuickConnect, SaveToken
  <2>3. CASE Send(p, "disconnect", None)
    BY <2>3, SavedSend
  <2>4. CASE Send(p, "token", None)
    BY <2>4, SavedSend
  <2>5. ASSUME NEW op \in {"connect", "add", "remove"}, NEW r \in Relay, Send(p, op, r) PROVE Saved'
    BY <2>5, SavedSend
  <2> QED BY <2>2, <2>3, <2>4, <2>5
<1>6. ASSUME NEW p \in Page, Probe(p) \/ Enter(p) \/ \E q \in Poll : Show(p, q) PROVE Saved'
  BY <1>1, <1>6 DEF Probe, Enter, Show, PollTimer, PollRead, PollAnswer
<1>7. CASE UNCHANGED vars
  BY <1>1, <1>7 DEF vars
<1> QED BY <1>2, <1>3, <1>4, <1>5, <1>6, <1>7, SavedLoad, SavedTruncate, SavedWrite, SavedControl,
           SavedUntarget, SavedRestart DEF Next, Serve

LEMMA SavedInit ==
  ASSUME Init
  PROVE  Saved
<1>1. file = Blank /\ local.url = None /\ ctl = None /\ kept = {} /\ \A h \in Handler : req[h] = None
  BY DEF Init
<1>2. Blank # Torn
  BY NullAssumption DEF Blank, Settings
<1> QED BY <1>1, <1>2 DEF Saved, FileInv, ListedIn, Blank, Alone, Idle, Working, Agree, Running

LEMMA AllHolds == Spec => [](Typed /\ Tasked /\ Saved)
BY TypedInit, TypedStep, TaskedInit, TaskedStep, SavedInit, SavedStep, PTL DEF Spec

LEMMA RestIsIdle ==
  ASSUME AtRest
  PROVE  Idle
BY DEF AtRest, Idle, Working

\* When no request is being served, the relay that is saved, the one shown and the one a
\* task is connected to are the same, unless two requests were served at once
\* (main.rs:380-428, 469-473).
THEOREM AgreementAtRest == Spec => []AgreesAtRest
<1>1. Typed /\ Tasked /\ Saved => AgreesAtRest
  BY RestIsIdle DEF AgreesAtRest, Saved, Alone, Agree
<1> QED BY <1>1, AllHolds, PTL

\* The file lists what was added and not removed since, over every order of requests and
\* restarts, unless two requests were served at once (main.rs:380-496, config.rs:153-166).
THEOREM RelaysAreKept == Spec => []KeepsRelays
<1>1. Typed /\ Tasked /\ Saved => KeepsRelays
  BY DEF KeepsRelays, Saved, Alone
<1> QED BY <1>1, AllHolds, PTL

\* A page that has the latest data says connected, in its head and at the row of a relay,
\* only when the daemon is registered at that relay (Relay.tsx:92-99, 176-187).
THEOREM WhatIsShownIsTrue == Spec => []ShownIsTrue
<1>1. ASSUME Typed, Tasked, Saved PROVE ShownIsTrue
  <2> SUFFICES ASSUME NEW p \in Page, AtRest, ~overlapped, Stopping = {}, view[p] = Now
               PROVE  /\ Status(view[p]) = "connected" =>
                           \E r \in view[p].set.relays : RowOnline(view[p])[r]
                      /\ \A r \in view[p].set.relays : RowOnline(view[p])[r] =>
                           \E i \in Active : tasks[i].url = r /\ tasks[i].st = "up"
    BY DEF ShownIsTrue
  <2>1. Agree /\ ListedIn(file) /\ Read = file
    BY <1>1, RestIsIdle, ReadListed DEF Saved, Alone, FileInv, Agree, Typed
  <2>2. view[p].set = file /\ view[p].online = local.online
    BY <2>1 DEF Now
  <2>3. ASSUME local.online
        PROVE  /\ \E i \in Active : tasks[i].url = file.active /\ tasks[i].st = "up"
               /\ file.active \in file.relays
    <3>1. PICK i \in Task : Alive(i) /\ (tasks[i].st = "up" \/ tasks[i].stop)
      BY <1>1, <2>3 DEF Tasked, OnlineInv
    <3>2. ~tasks[i].stop /\ i \in Active
      BY <3>1 DEF Stopping, Active
    <3>3. i = ctl /\ i # None
      BY <1>1, <3>1, <3>2, NoneAssumption DEF Tasked, OneTask
    <3>4. Running = tasks[i].url /\ tasks[i] \in Tasks
      BY <1>1, <3>1, <3>3 DEF Running, Alive, Typed, DaemonType
    <3>5. file.active = tasks[i].url /\ file.active # None
      BY <2>1, <3>4, NoneAssumption DEF Agree, Tasks
    <3> QED BY <2>1, <3>1, <3>2, <3>5 DEF ListedIn
  <2>4. \A r \in file.relays : RowOnline(view[p])[r] => file.active = r /\ local.online
    BY <2>2 DEF RowOnline
  <2>5. Status(view[p]) = "connected" => local.online
    BY <2>2 DEF Status
  <2>6. local.online => RowOnline(view[p])[file.active]
    BY <2>2, <2>3 DEF RowOnline
  <2> QED BY <2>2, <2>3, <2>4, <2>5, <2>6
<1> QED BY <1>1, AllHolds, PTL
=============================================================================
