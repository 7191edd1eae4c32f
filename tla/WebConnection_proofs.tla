------------------------- MODULE WebConnection_proofs -------------------------
(***************************************************************************)
(* Proofs about the connection of a web page to a device, for any number   *)
(* of sockets, session keys, requests, disturbances and retry timers.      *)
(***************************************************************************)
EXTENDS WebConnection, SequenceTheorems, TLAPS

-----------------------------------------------------------------------------
(* The inductive invariant.                                                *)

SockType ==
  /\ ws \in Slot
  /\ sock \in [Slot -> {"connecting", "open", "closing", "closed"}]
  /\ keepalive \in BOOLEAN

PageType ==
  /\ closed \in {"no", "auth_failed", "busy", "decrypt_failed", "left"}
  /\ status \in {"connecting", "ready", "disconnected"}
  /\ timers \in 0..MaxTimers /\ online \in BOOLEAN

KeyType ==
  /\ key \in Key \cup {NoKey} /\ priv \in Slot \cup {Nobody}
  /\ crypto \in Key \cup {NoKey}

\* Only requests that were made are pending or served.
ReqType ==
  /\ nreq \in 0..MaxReqs /\ pending \subseteq 1..nreq /\ resolved \subseteq Req
  /\ served \subseteq 1..nreq

\* Requests on the wire were made, answers on the wire were given, and the relay never
\* passes a hello on.
Known(n)    == {f \in ClientFrame : f.t = "req" => f.n <= n}
PassedOn(n) == {f \in Known(n) : f.t # "hello"}
Given(s)    == {f \in RelayFrame : f.t = "resp" => f.n \in s}

WireType ==
  /\ up \in [Slot -> Seq(Known(nreq))] /\ toD \in Seq(PassedOn(nreq))
  /\ down \in [Slot -> Seq(Given(served))]

RoomType ==
  /\ half \subseteq Slot
  /\ srv \in [Slot -> {"none", "in", "kicked", "refused"}]
  /\ seat \in Viewer \cup {Nobody}
  /\ tunnel \in BOOLEAN /\ token \in {"valid", "stale", "none"} /\ faults \in 0..MaxFaults

Typed == SockType /\ PageType /\ KeyType /\ ReqType /\ WireType /\ RoomType

-----------------------------------------------------------------------------
(* Queues of frames.                                                       *)

\* Appending to one queue, taking the first frame of one, emptying one, and a set of
\* frames that grows.
LEMMA QueueAppend ==
  ASSUME NEW S, NEW q \in [Slot -> Seq(S)], NEW i \in Slot, NEW f \in S
  PROVE  [q EXCEPT ![i] = Append(@, f)] \in [Slot -> Seq(S)]
<1>1. q[i] \in Seq(S)
  OBVIOUS
<1>2. Append(q[i], f) \in Seq(S)
  BY <1>1, AppendProperties
<1> QED BY <1>2

LEMMA QueueTail ==
  ASSUME NEW S, NEW q \in [Slot -> Seq(S)], NEW i \in Slot, q[i] # << >>
  PROVE  /\ Head(q[i]) \in S
         /\ [q EXCEPT ![i] = Tail(@)] \in [Slot -> Seq(S)]
<1>1. q[i] \in Seq(S)
  OBVIOUS
<1>2. Head(q[i]) \in S /\ Tail(q[i]) \in Seq(S)
  BY <1>1, HeadTailProperties
<1> QED BY <1>2

LEMMA QueueEmpty ==
  ASSUME NEW S, NEW q \in [Slot -> Seq(S)], NEW i \in Slot
  PROVE  [q EXCEPT ![i] = << >>] \in [Slot -> Seq(S)]
<1>1. << >> \in Seq(S)
  BY EmptySeq
<1> QED BY <1>1

LEMMA QueueGrow ==
  ASSUME NEW S, NEW T, S \subseteq T, NEW q \in [Slot -> Seq(S)]
  PROVE  q \in [Slot -> Seq(T)]
<1>1. ASSUME NEW i \in Slot PROVE q[i] \in Seq(T)
  <2>1. q[i] \in Seq(S)
    OBVIOUS
  <2> QED BY <2>1, SeqMonotonic
<1> QED BY <1>1

\* The frames a page, the relay and the daemon make.
LEMMA Frames ==
  ASSUME NEW n \in Nat, NEW s
  PROVE  /\ Plain("hello") \in Known(n)
         /\ \A v \in Viewer : Proof(v) \in PassedOn(n)
         /\ \A r \in Req, k \in Key \cup {NoKey} :
              r <= n => Sealed(Frame("req", r, NoKey), k) \in Known(n)
         /\ \A t \in {"ack", "busy", "error", "authfail"} : Plain(t) \in Given(s)
         /\ \A d \in DaemonKey : Frame("ok", d, NoKey) \in Given(s)
         /\ \A b \in {0, 1} : Frame("presence", b, NoKey) \in Given(s)
         /\ \A r \in Req, k \in Key \cup {NoKey} : r \in s => Frame("resp", r, k) \in Given(s)
         /\ \A k \in Key \cup {NoKey} : Frame("event", 0, k) \in Given(s)
BY DEF Known, PassedOn, Given, ClientFrame, RelayFrame, Plain, Frame, Proof, Sealed

\* More requests made, more requests served.
LEMMA Grown ==
  ASSUME NEW m \in Nat, NEW n \in Nat, m <= n
  PROVE  Known(m) \subseteq Known(n) /\ PassedOn(m) \subseteq PassedOn(n)
<1>1. Req \subseteq Nat
  BY BoundsAssumption DEF Req
<1>2. \A f \in ClientFrame : f.t = "req" => f.n \in Nat
  BY <1>1 DEF ClientFrame
<1> QED BY <1>2 DEF Known, PassedOn

LEMMA MoreGiven ==
  ASSUME NEW s, NEW t, s \subseteq t
  PROVE  Given(s) \subseteq Given(t)
BY DEF Given

\* The relay tells its viewer something.
LEMMA TellType ==
  ASSUME NEW S, down \in [Slot -> Seq(S)], NEW v, NEW f \in S
  PROVE  Tell(v, f) \in [Slot -> Seq(S)]
BY QueueAppend DEF Tell

-----------------------------------------------------------------------------
(* Handlers of the page.                                                   *)

\* A request gets the next number and is pending; its frame carries that number.
LEMMA IssueType ==
  ASSUME Typed, NEW k \in Key \cup {NoKey}, Issue(k)
  PROVE  /\ nreq' \in 0..MaxReqs /\ nreq' = nreq + 1
         /\ pending' \subseteq 1..nreq' /\ resolved' \subseteq Req
         /\ up' \in [Slot -> Seq(Known(nreq'))]
<1>1. nreq \in Nat /\ nreq' = nreq + 1 /\ nreq' \in 0..MaxReqs /\ nreq' \in Req
  BY BoundsAssumption DEF Typed, ReqType, Issue, Req
<1>2. pending' \subseteq 1..nreq' /\ resolved' \subseteq Req
  BY <1>1 DEF Typed, ReqType, Issue
<1>3. up \in [Slot -> Seq(Known(nreq'))]
  <2>1. Known(nreq) \subseteq Known(nreq')
    BY <1>1, Grown
  <2> QED BY <2>1, QueueGrow DEF Typed, WireType
<1>4. Sealed(Frame("req", nreq', NoKey), k) \in Known(nreq')
  BY <1>1, Frames
<1>5. up' \in [Slot -> Seq(Known(nreq'))]
  <2>1. ws \in Slot
    BY DEF Typed, SockType
  <2> QED BY <1>3, <1>4, <2>1, QueueAppend DEF Issue, Sent
<1> QED BY <1>1, <1>2, <1>5

\* What a page does with a frame that was meant for it.
LEMMA OnPlainCases ==
  ASSUME NEW m, OnPlain(m)
  PROVE  \/ /\ m.t = "ack" /\ HasToken
            /\ priv' = ws /\ up' = [up EXCEPT ![ws] = Append(@, Proof(ws))]
            /\ UNCHANGED <<sockVars, pageVars, key, reqVars>>
         \/ /\ m.t = "ack" /\ Ready(key)
            /\ UNCHANGED <<sockVars, closed, timers, online, keyVars>>
         \/ /\ m.t = "ok" /\ priv # Nobody /\ key' = <<priv, m.n>> /\ priv' = Nobody
            /\ Ready(key') /\ UNCHANGED <<sockVars, closed, timers, online>>
         \/ \E why \in {"auth_failed", "busy"} : Fatal(why)
         \/ /\ online' = (m.n = 1)
            /\ UNCHANGED <<sockVars, closed, status, timers, keyVars, reqVars, up>>
         \/ m.t = "resp" /\ Answer(m)
         \/ Ignore
BY DEF OnPlain

\* The part of the invariant that belongs to the page.
Browser == SockType /\ PageType /\ key \in Key \cup {NoKey} /\ priv \in Slot \cup {Nobody}
Traffic == /\ nreq \in 0..MaxReqs /\ pending \subseteq 1..nreq /\ resolved \subseteq Req
           /\ up \in [Slot -> Seq(Known(nreq))]

LEMMA ReadyType ==
  ASSUME Typed, NEW k \in Key \cup {NoKey}, Ready(k)
  PROVE  Traffic' /\ nreq <= nreq' /\ status' = "ready"
<1>1. CASE Issue(k)
  BY <1>1, IssueType DEF Traffic, Ready, Typed, ReqType
<1>2. CASE nreq = MaxReqs /\ UNCHANGED <<reqVars, up>>
  BY <1>2 DEF Traffic, Ready, Typed, ReqType, WireType, reqVars
<1> QED BY <1>1, <1>2 DEF Ready

LEMMA FatalType ==
  ASSUME Typed, NEW why \in {"auth_failed", "busy", "decrypt_failed"}, Fatal(why)
  PROVE  Browser' /\ Traffic' /\ nreq' = nreq
BY DEF Fatal, Close, Typed, Browser, Traffic, SockType, PageType, KeyType, ReqType, WireType,
       keyVars, reqVars

LEMMA IgnoreType ==
  ASSUME Typed, UNCHANGED <<webVars, up>>
  PROVE  Browser' /\ Traffic' /\ nreq' = nreq
BY DEF webVars, sockVars, pageVars, keyVars, reqVars, Typed, Browser, Traffic, SockType,
       PageType, KeyType, ReqType, WireType

LEMMA OnPlainType ==
  ASSUME Typed, NEW m \in Given(served), OnPlain(m)
  PROVE  Browser' /\ Traffic' /\ nreq <= nreq'
<1>0. ws \in Slot /\ nreq \in Nat
  BY DEF Typed, SockType, ReqType
<1>1. CASE /\ priv' = ws /\ up' = [up EXCEPT ![ws] = Append(@, Proof(ws))]
           /\ UNCHANGED <<sockVars, pageVars, key, reqVars>>
  <2>1. Proof(ws) \in Known(nreq)
    BY <1>0, Frames DEF PassedOn, Viewer
  <2>2. up' \in [Slot -> Seq(Known(nreq))]
    BY <1>0, <1>1, <2>1, QueueAppend DEF Typed, WireType
  <2> QED BY <1>0, <1>1, <2>2 DEF sockVars, pageVars, reqVars, Typed, Browser, Traffic,
            SockType, PageType, KeyType, ReqType
<1>2. CASE Ready(key) /\ UNCHANGED <<sockVars, closed, timers, online, keyVars>>
  BY <1>2, ReadyType DEF sockVars, keyVars, Typed, Browser, SockType, PageType, KeyType
<1>3. CASE /\ m.t = "ok" /\ priv # Nobody /\ key' = <<priv, m.n>> /\ priv' = Nobody
           /\ Ready(key') /\ UNCHANGED <<sockVars, closed, timers, online>>
  <2>1. m.n \in DaemonKey
    BY <1>3 DEF Given, RelayFrame
  <2>2. key' \in Key
    BY <1>3, <2>1 DEF Typed, KeyType, Key, Viewer
  <2>3. Traffic' /\ nreq <= nreq' /\ status' = "ready"
    BY <1>3, <2>2, ReadyType
  <2> QED BY <1>3, <2>2, <2>3 DEF sockVars, Typed, Browser, SockType, PageType, KeyType
<1>4. CASE \E why \in {"auth_failed", "busy"} : Fatal(why)
  BY <1>0, <1>4, FatalType
<1>5. CASE /\ online' = (m.n = 1)
           /\ UNCHANGED <<sockVars, closed, status, timers, keyVars, reqVars, up>>
  <2>1. online' \in BOOLEAN
    BY <1>5
  <2> QED BY <1>0, <1>5, <2>1 DEF sockVars, keyVars, reqVars, Typed, Browser, Traffic,
            SockType, PageType, KeyType, ReqType, WireType
<1>6. CASE m.t = "resp" /\ Answer(m)
  <2>1. m.n \in Req
    BY <1>6 DEF Given, RelayFrame
  <2>2. Browser' /\ nreq' = nreq /\ UNCHANGED up
    BY <1>6 DEF Answer, sockVars, pageVars, keyVars, Typed, Browser, SockType, PageType, KeyType
  <2>3. pending' \subseteq 1..nreq /\ resolved' \subseteq Req
    BY <1>6, <2>1 DEF Answer, Typed, ReqType
  <2> QED BY <1>0, <2>2, <2>3 DEF Traffic, Typed, ReqType, WireType
<1>7. CASE Ignore
  BY <1>0, <1>7, IgnoreType DEF Ignore
<1> QED BY OnPlainCases, <1>1, <1>2, <1>3, <1>4, <1>5, <1>6, <1>7

\* The whole invariant from its two halves: the page with its requests, and the rest.
LEMMA TypedFrom ==
  ASSUME Typed, Browser', Traffic', nreq <= nreq', UNCHANGED <<toD, crypto, served>>,
         down' \in [Slot -> Seq(Given(served))], RoomType'
  PROVE  Typed'
<1>1. nreq \in Nat /\ nreq' \in Nat
  BY BoundsAssumption DEF Typed, ReqType, Traffic
<1>2. toD' \in Seq(PassedOn(nreq'))
  <2>1. PassedOn(nreq) \subseteq PassedOn(nreq')
    BY <1>1, Grown
  <2> QED BY <2>1, SeqMonotonic DEF Typed, WireType
<1>3. ReqType'
  BY <1>1 DEF Typed, ReqType, Traffic
<1>4. WireType'
  BY <1>2 DEF WireType, Traffic
<1> QED BY <1>3, <1>4 DEF Typed, Browser, KeyType

\* A step that leaves the page and its requests alone.
LEMMA TypedRest ==
  ASSUME Typed, UNCHANGED webVars, WireType', RoomType', served' \subseteq 1..nreq,
         crypto' \in Key \cup {NoKey}
  PROVE  Typed'
BY DEF Typed, webVars, sockVars, pageVars, keyVars, reqVars, SockType, PageType, KeyType, ReqType

\* A step that changes nothing but the seats and what the viewer is told.
LEMMA TypedTold ==
  ASSUME Typed, UNCHANGED <<webVars, up, toD, crypto, served>>,
         down' \in [Slot -> Seq(Given(served))], RoomType'
  PROVE  Typed'
BY TypedRest DEF Typed, WireType, ReqType, KeyType, webVars, reqVars

LEMMA NewSocketType ==
  ASSUME Typed, timers' \in 0..MaxTimers, UNCHANGED faults,
         NEW s \in [Slot -> {"connecting", "open", "closing", "closed"}], NewSocket(s)
  PROVE  Typed'
<1>1. Browser'
  BY DEF NewSocket, Typed, Browser, SockType, PageType, KeyType, keyVars
<1>2. Traffic' /\ nreq <= nreq' /\ UNCHANGED <<toD, crypto, served, down>> /\ RoomType'
  BY DEF NewSocket, Typed, Traffic, ReqType, WireType, RoomType, reqVars, relayVars, daemonVars
<1> QED BY <1>1, <1>2, TypedFrom DEF Typed, WireType

LEMMA RetryType ==
  ASSUME Typed, Retry
  PROVE  Typed'
<1>1. timers' \in 0..MaxTimers
  BY BoundsAssumption DEF Typed, PageType, Retry
<1>2. CASE MayConnect
  BY <1>1, <1>2, NewSocketType DEF Retry, Typed, SockType
<1>3. CASE ~MayConnect
  <2>1. Browser' /\ RoomType'
    BY <1>1, <1>3 DEF Retry, Typed, Browser, SockType, PageType, KeyType, RoomType, sockVars,
       keyVars, relayVars, daemonVars
  <2>2. UNCHANGED <<nreq, pending, resolved, up, toD, crypto, served, down>>
    BY <1>3 DEF Retry, reqVars, daemonVars
  <2>3. Traffic' /\ nreq <= nreq'
    BY <2>2 DEF Typed, Traffic, ReqType, WireType
  <2> QED BY <2>1, <2>2, <2>3, TypedFrom DEF Typed, WireType
<1> QED BY <1>2, <1>3

LEMMA ManualReconnectType ==
  ASSUME Typed, ManualReconnect
  PROVE  Typed'
<1> DEFINE s == IF sock[ws] = "closed" THEN sock ELSE [sock EXCEPT ![ws] = "closing"]
<1>1. s \in [Slot -> {"connecting", "open", "closing", "closed"}]
  BY DEF Typed, SockType
<1>2. timers' \in 0..MaxTimers /\ UNCHANGED faults /\ NewSocket(s)
  BY DEF ManualReconnect, Typed, PageType
<1> QED BY <1>1, <1>2, NewSocketType

LEMMA OnCloseType ==
  ASSUME Typed, NEW i \in Slot, OnClose(i), faults' \in 0..MaxFaults
  PROVE  Typed'
<1>0. Atmost(timers + 1, MaxTimers) \in 0..MaxTimers
  BY BoundsAssumption DEF Typed, PageType, Atmost
<1>1. timers' \in 0..MaxTimers /\ status' \in {"connecting", "ready", "disconnected"}
      /\ online' \in BOOLEAN
  BY <1>0 DEF OnClose, Typed, PageType
<1>2. Browser'
  BY <1>1 DEF OnClose, Typed, Browser, SockType, PageType, KeyType, keyVars
<1>3. Traffic' /\ nreq <= nreq'
  <2>1. UNCHANGED <<nreq, resolved, up>> /\ pending' \subseteq pending
    BY DEF OnClose
  <2> QED BY <2>1 DEF Typed, Traffic, ReqType, WireType
<1>4. down' \in [Slot -> Seq(Given(served))]
  BY QueueEmpty DEF OnClose, Typed, WireType
<1>5. RoomType' /\ UNCHANGED <<toD, crypto, served>>
  BY DEF OnClose, Typed, RoomType, relayVars, daemonVars
<1> QED BY <1>2, <1>3, <1>4, <1>5, TypedFrom

LEMMA SockOpenType ==
  ASSUME Typed, NEW i \in Slot, SockOpen(i)
  PROVE  Typed'
<1>0. nreq \in Nat
  BY DEF Typed, ReqType
<1>1. Browser'
  BY DEF SockOpen, Typed, Browser, SockType, PageType, KeyType, pageVars, keyVars
<1>2. up' \in [Slot -> Seq(Known(nreq))]
  BY <1>0, Frames, QueueAppend DEF SockOpen, Typed, WireType
<1>3. Traffic' /\ nreq <= nreq'
  BY <1>0, <1>2 DEF SockOpen, Typed, Traffic, ReqType, reqVars
<1>4. RoomType' /\ UNCHANGED <<toD, crypto, served, down>>
  BY DEF SockOpen, Typed, RoomType, relayVars, daemonVars
<1> QED BY <1>1, <1>3, <1>4, TypedFrom DEF Typed, WireType

LEMMA RequestType ==
  ASSUME Typed, Request
  PROVE  Typed'
<1>1. Browser' /\ RoomType' /\ UNCHANGED <<toD, crypto, served, down>>
  BY DEF Request, Typed, Browser, SockType, PageType, KeyType, RoomType, sockVars, pageVars,
     keyVars, relayVars, daemonVars
<1>2. Traffic' /\ nreq <= nreq'
  BY IssueType DEF Request, Typed, KeyType, ReqType, Traffic
<1> QED BY <1>1, <1>2, TypedFrom DEF Typed, WireType

LEMMA LeaveType ==
  ASSUME Typed, Leave
  PROVE  Typed'
<1>1. Browser'
  <2>1. SockType'
    BY DEF Leave, Typed, SockType
  <2>2. PageType'
    BY BoundsAssumption DEF Leave, Typed, PageType
  <2>3. key' \in Key \cup {NoKey} /\ priv' \in Slot \cup {Nobody}
    BY DEF Leave, Typed, KeyType, keyVars
  <2> QED BY <2>1, <2>2, <2>3 DEF Browser
<1>2. Traffic' /\ nreq <= nreq' /\ UNCHANGED <<toD, crypto, served, down>>
  BY DEF Leave, Typed, Traffic, ReqType, WireType, reqVars, daemonVars
<1>3. RoomType'
  BY BoundsAssumption DEF Leave, Fault, Typed, RoomType, relayVars, daemonVars
<1> QED BY <1>1, <1>2, <1>3, TypedFrom DEF Typed, WireType

LEMMA DispatchType ==
  ASSUME Typed, NEW i \in Slot, Dispatch(i)
  PROVE  Typed'
<1> DEFINE m == Head(down[i])
<1>1. m \in Given(served) /\ down' \in [Slot -> Seq(Given(served))]
  BY QueueTail DEF Dispatch, Typed, WireType
<1>2. OnPlain(m) \/ Ignore \/ Fatal("decrypt_failed")
  BY DEF Dispatch
<1>3. nreq \in Nat
  BY DEF Typed, ReqType
<1>4. Browser' /\ Traffic' /\ nreq <= nreq'
  BY <1>1, <1>2, <1>3, OnPlainType, IgnoreType, FatalType DEF Ignore
<1>5. RoomType' /\ UNCHANGED <<toD, crypto, served>>
  BY DEF Dispatch, Typed, RoomType, relayVars, daemonVars
<1> QED BY <1>1, <1>4, <1>5, TypedFrom

-----------------------------------------------------------------------------
(* The relay's room and the daemon's end.                                  *)

LEMMA RelayReadType ==
  ASSUME Typed, NEW i \in Slot, RelayRead(i)
  PROVE  Typed'
<1> DEFINE f == Head(up[i])
<1>1. f \in Known(nreq) /\ up' \in [Slot -> Seq(Known(nreq))]
  BY QueueTail DEF RelayRead, Typed, WireType
<1>2. UNCHANGED <<webVars, half, tunnel, crypto, token, served, faults>> /\ nreq \in Nat
  BY DEF RelayRead, Typed, ReqType
<1>3. \A t \in {"ack", "busy", "error"}, v \in {i} : Tell(v, Plain(t)) \in [Slot -> Seq(Given(served))]
  BY <1>2, Frames, TellType DEF Typed, WireType
<1>4. CASE RelayHello(i)
  <2>1. down' \in [Slot -> Seq(Given(served))] /\ toD' = toD
    BY <1>3, <1>4 DEF RelayHello
  <2>2. RoomType'
    BY <1>2, <1>4 DEF RelayHello, Typed, RoomType, Viewer
  <2>3. WireType'
    BY <1>1, <1>2, <2>1 DEF Typed, WireType, webVars, reqVars
  <2> QED BY <1>2, <2>2, <2>3, TypedRest DEF Typed, ReqType, KeyType
<1>5. CASE f.t # "hello" /\ Forward(i, f)
  <2>1. f \in PassedOn(nreq)
    BY <1>1, <1>5 DEF PassedOn
  <2>2. toD' \in Seq(PassedOn(nreq))
    <3>1. toD' = toD \/ toD' = Append(toD, f)
      BY <1>5 DEF Forward
    <3>2. Append(toD, f) \in Seq(PassedOn(nreq))
      BY <2>1, AppendProperties DEF Typed, WireType
    <3> QED BY <3>1, <3>2 DEF Typed, WireType
  <2>3. down' \in [Slot -> Seq(Given(served))]
    BY <1>3, <1>5 DEF Forward, Typed, WireType
  <2>4. WireType'
    BY <1>1, <1>2, <2>2, <2>3 DEF WireType, webVars, reqVars
  <2>5. RoomType'
    BY <1>2, <1>5 DEF Forward, relayVars, Typed, RoomType
  <2> QED BY <1>2, <2>4, <2>5, TypedRest DEF Typed, ReqType, KeyType
<1> QED BY <1>4, <1>5 DEF RelayRead

LEMMA RelayDropType ==
  ASSUME Typed, NEW i \in Slot, RelayDrop(i)
  PROVE  Typed'
<1>1. UNCHANGED <<webVars, toD, crypto, served>>
  BY DEF RelayDrop, daemonVars
<1>2. WireType'
  BY <1>1, QueueEmpty DEF RelayDrop, Typed, WireType, webVars, reqVars
<1>3. RoomType'
  BY DEF RelayDrop, Typed, RoomType, daemonVars
<1> QED BY <1>1, <1>2, <1>3, TypedRest DEF Typed, ReqType, KeyType

LEMMA OtherType ==
  ASSUME Typed, OtherJoin \/ OtherLeave
  PROVE  Typed'
<1>1. CASE OtherJoin
  <2>1. Proof(Other) \in PassedOn(nreq)
    BY Frames DEF Viewer, Typed, ReqType
  <2>2. toD' \in Seq(PassedOn(nreq))
    BY <1>1, <2>1, AppendProperties DEF OtherJoin, Typed, WireType
  <2>3. RoomType' /\ UNCHANGED <<webVars, crypto, served, up, down>>
    BY <1>1, BoundsAssumption DEF OtherJoin, Fault, Typed, RoomType, Viewer
  <2>4. WireType'
    BY <2>2, <2>3 DEF Typed, WireType, webVars, reqVars
  <2> QED BY <2>3, <2>4, TypedRest DEF Typed, ReqType, KeyType
<1>2. CASE OtherLeave
  BY <1>2, TypedTold DEF OtherLeave, Typed, RoomType, WireType, daemonVars
<1> QED BY <1>1, <1>2

\* Everything the daemon sends to the viewer.
LEMMA DaemonRecvType ==
  ASSUME Typed, DaemonRecv
  PROVE  Typed'
<1> DEFINE m == Head(toD)
<1>0. UNCHANGED <<webVars, up, half, relayVars, tunnel, token, faults>> /\ nreq \in Nat
  BY DEF DaemonRecv, Typed, ReqType
<1>1. m \in PassedOn(nreq) /\ toD' \in Seq(PassedOn(nreq))
  BY HeadTailProperties DEF DaemonRecv, Typed, WireType
<1>2. RoomType'
  BY <1>0 DEF Typed, RoomType, relayVars
<1>3. CASE m.t = "proof" /\ OnProof(m)
  <2>1. m.n \in Viewer
    BY <1>1, <1>3 DEF PassedOn, Known, ClientFrame
  <2>2. CASE m.n = Other \/ token = "valid"
    <3>1. NewKey \in DaemonKey
      BY <1>3, <2>2 DEF OnProof, NewKey
    <3>2. crypto' = <<m.n, NewKey>> /\ down' = Tell(seat, Frame("ok", NewKey, NoKey)) /\ served' = served
      BY <1>3, <2>2 DEF OnProof
    <3>3. crypto' \in Key
      BY <2>1, <3>1, <3>2 DEF Key
    <3>4. Frame("ok", NewKey, NoKey) \in Given(served)
      BY <1>0, <3>1, Frames
    <3>5. down' \in [Slot -> Seq(Given(served))]
      BY <3>2, <3>4, TellType DEF Typed, WireType
    <3>6. WireType'
      BY <1>0, <1>1, <3>2, <3>5 DEF Typed, WireType, webVars, reqVars
    <3> QED BY <1>0, <1>2, <3>2, <3>3, <3>6, TypedRest DEF Typed, ReqType
  <2>3. CASE ~(m.n = Other \/ token = "valid")
    <3>1. crypto' = crypto /\ down' = Tell(seat, Plain("authfail")) /\ served' = served
      BY <1>3, <2>3 DEF OnProof
    <3>2. Plain("authfail") \in Given(served)
      BY <1>0, Frames
    <3>3. down' \in [Slot -> Seq(Given(served))]
      BY <3>1, <3>2, TellType DEF Typed, WireType
    <3>4. WireType'
      BY <1>0, <1>1, <3>1, <3>3 DEF Typed, WireType, webVars, reqVars
    <3> QED BY <1>0, <1>2, <3>1, <3>4, TypedRest DEF Typed, ReqType, KeyType
  <2> QED BY <2>2, <2>3
<1>4. CASE m.t # "proof" /\ OnRequest(m)
  <2>1. m.n \in Req /\ m.n <= nreq
    BY <1>1, <1>4 DEF PassedOn, Known, ClientFrame
  <2>2. CASE m.k = crypto /\ (HasToken => crypto # NoKey)
    <3>1. /\ crypto' = crypto /\ served' = served \cup {m.n}
          /\ down' = Tell(seat, Frame("resp", m.n, crypto))
      BY <1>4, <2>2 DEF OnRequest
    <3>2. Frame("resp", m.n, crypto) \in Given(served')
      BY <1>0, <2>1, <3>1, Frames DEF Typed, KeyType
    <3>3. down \in [Slot -> Seq(Given(served'))]
      <4>1. Given(served) \subseteq Given(served')
        BY <3>1, MoreGiven
      <4> QED BY <4>1, QueueGrow DEF Typed, WireType
    <3>4. down' \in [Slot -> Seq(Given(served'))]
      BY <3>1, <3>2, <3>3, TellType
    <3>5. served' \subseteq 1..nreq
      <4>1. m.n \in 1..nreq
        BY <1>0, <2>1, BoundsAssumption DEF Req
      <4> QED BY <3>1, <4>1 DEF Typed, ReqType
    <3>6. WireType'
      BY <1>0, <1>1, <3>4 DEF Typed, WireType, webVars, reqVars
    <3> QED BY <1>0, <1>2, <3>1, <3>5, <3>6, TypedRest DEF Typed, KeyType
  <2>3. CASE ~(m.k = crypto /\ (HasToken => crypto # NoKey))
    <3>1. crypto' = crypto /\ served' = served /\ (down' = Tell(seat, Plain("error")) \/ down' = down)
      BY <1>4, <2>3 DEF OnRequest
    <3>2. Plain("error") \in Given(served)
      BY <1>0, Frames
    <3>3. down' \in [Slot -> Seq(Given(served))]
      BY <3>1, <3>2, TellType DEF Typed, WireType
    <3>4. WireType'
      BY <1>0, <1>1, <3>1, <3>3 DEF Typed, WireType, webVars, reqVars
    <3> QED BY <1>0, <1>2, <3>1, <3>4, TypedRest DEF Typed, ReqType, KeyType
  <2> QED BY <2>2, <2>3
<1> QED BY <1>3, <1>4 DEF DaemonRecv

\* A loss of the tunnel takes what was passed on and the key with it.
LEMMA TunnelType ==
  ASSUME Typed, TunnelDown \/ TunnelUp
  PROVE  Typed'
<1>0. nreq \in Nat
  BY DEF Typed, ReqType
<1>1. \A b \in {0, 1} : Tell(seat, Frame("presence", b, NoKey)) \in [Slot -> Seq(Given(served))]
  BY <1>0, Frames, TellType DEF Typed, WireType
<1>2. CASE TunnelDown
  <2>1. UNCHANGED <<webVars, up, served>> /\ toD' = << >> /\ crypto' = NoKey
    BY <1>2 DEF TunnelDown
  <2>2. WireType'
    BY <1>1, <1>2, <2>1, EmptySeq DEF TunnelDown, Typed, WireType, webVars, reqVars
  <2>3. RoomType'
    <3>1. faults' \in 0..MaxFaults
      BY <1>2, BoundsAssumption DEF TunnelDown, Fault, Typed, RoomType
    <3> QED BY <1>2, <3>1 DEF TunnelDown, Typed, RoomType, relayVars
  <2> QED BY <2>1, <2>2, <2>3, TypedRest DEF Typed, ReqType
<1>3. CASE TunnelUp
  <2>1. RoomType' /\ UNCHANGED <<webVars, up, toD, crypto, served>>
    BY <1>3 DEF TunnelUp, Typed, RoomType, relayVars
  <2>2. down' \in [Slot -> Seq(Given(served))]
    BY <1>1, <1>3 DEF TunnelUp
  <2> QED BY <2>1, <2>2, TypedTold
<1> QED BY <1>2, <1>3

LEMMA KickType ==
  ASSUME Typed, Kick \/ KickEarly
  PROVE  Typed'
<1>0. nreq \in Nat
  BY DEF Typed, ReqType
<1>1. Tell(seat, Plain("error")) \in [Slot -> Seq(Given(served))]
  BY <1>0, Frames, TellType DEF Typed, WireType
<1>2. KickOrder /\ faults' \in 0..MaxFaults
  BY BoundsAssumption DEF Kick, KickEarly, Fault, Typed, RoomType
<1>3. RoomType' /\ UNCHANGED <<webVars, up, toD, crypto, served>>
  BY <1>2 DEF KickOrder, Typed, RoomType, daemonVars
<1> QED BY <1>1, <1>2, <1>3, TypedTold DEF KickOrder

LEMMA HostEventType ==
  ASSUME Typed, HostEvent
  PROVE  Typed'
<1>0. nreq \in Nat
  BY DEF Typed, ReqType
<1>1. Frame("event", 0, crypto) \in Given(served)
  BY <1>0, Frames DEF Typed, KeyType
<1>2. down' \in [Slot -> Seq(Given(served))]
  BY <1>1, TellType DEF HostEvent, Typed, WireType
<1>3. RoomType' /\ UNCHANGED <<webVars, up, toD, crypto, served>>
  BY DEF HostEvent, Typed, RoomType, relayVars, daemonVars
<1> QED BY <1>2, <1>3, TypedTold

LEMMA QuietType ==
  ASSUME Typed, ChangeToken \/ \E i \in Slot : HalfOpen(i)
  PROVE  Typed'
<1>1. RoomType' /\ UNCHANGED <<webVars, up, down, toD, crypto, served>>
  BY BoundsAssumption DEF ChangeToken, HalfOpen, Fault, Typed, RoomType, relayVars, daemonVars
<1> QED BY <1>1, TypedTold DEF Typed, WireType

-----------------------------------------------------------------------------
(* Type correctness.                                                       *)

LEMMA TypedInit ==
  ASSUME Init
  PROVE  Typed
<1>1. << >> \in Seq(Known(nreq)) /\ << >> \in Seq(PassedOn(nreq)) /\ << >> \in Seq(Given(served))
  BY EmptySeq
<1>2. WireType
  BY <1>1 DEF Init, WireType
<1>3. SockType /\ KeyType
  BY DEF Init, SockType, KeyType
<1>4. PageType /\ ReqType
  BY BoundsAssumption DEF Init, PageType, ReqType
<1>5. RoomType
  BY BoundsAssumption DEF Init, RoomType
<1> QED BY <1>2, <1>3, <1>4, <1>5 DEF Typed

LEMMA TypedStep ==
  ASSUME Typed, [Next]_vars
  PROVE  Typed'
<1>1. CASE UNCHANGED vars
  BY <1>1, TypedTold DEF vars, relayVars, daemonVars, Typed, WireType, RoomType
<1>2. CASE Retry \/ Visible \/ ManualReconnect \/ Request
  BY <1>2, RetryType, NewSocketType, ManualReconnectType, RequestType
     DEF Visible, Typed, SockType, PageType
<1>3. CASE \E i \in Slot : SockOpen(i) \/ SockGone(i) \/ NetLoss(i)
  <2>1. faults' \in 0..MaxFaults
    BY <1>3, BoundsAssumption DEF SockOpen, SockGone, NetLoss, Fault, Typed, RoomType
  <2> QED BY <1>3, <2>1, SockOpenType, OnCloseType DEF SockGone, NetLoss
<1>4. CASE \E i \in Slot : Dispatch(i) \/ RelayRead(i) \/ RelayDrop(i)
  BY <1>4, DispatchType, RelayReadType, RelayDropType
<1>5. CASE \/ DaemonRecv \/ Kick \/ KickEarly \/ TunnelUp \/ TunnelDown \/ OtherJoin \/ OtherLeave
           \/ HostEvent \/ Leave \/ ChangeToken \/ \E i \in Slot : HalfOpen(i)
  BY <1>5, DaemonRecvType, KickType, TunnelType, OtherType, HostEventType, LeaveType, QuietType
<1> QED BY <1>1, <1>2, <1>3, <1>4, <1>5 DEF Next, Socket, Disturb

\* What the inductive invariant says of the variables, in the terms of the specification.
LEMMA TypedImpliesTypeOK ==
  ASSUME Typed
  PROVE  TypeOK
<1>1. nreq \in Nat /\ 1..nreq \subseteq Req
  BY BoundsAssumption DEF Typed, ReqType, Req
<1>2. /\ Known(nreq) \subseteq ClientFrame /\ PassedOn(nreq) \subseteq ClientFrame
      /\ Given(served) \subseteq RelayFrame
  BY DEF Known, PassedOn, Given
<1>3. up \in [Slot -> Seq(ClientFrame)] /\ down \in [Slot -> Seq(RelayFrame)]
  BY <1>2, QueueGrow DEF Typed, WireType
<1>4. toD \in Seq(ClientFrame)
  BY <1>2, SeqMonotonic DEF Typed, WireType
<1> QED BY <1>1, <1>3, <1>4 DEF TypeOK, Typed, SockType, PageType, KeyType, ReqType, RoomType

\* Every variable keeps its type: only requests that were made are pending, served or on
\* the wire, and the daemon is never handed a frame it could not have been sent
\* (daemon.ts, relay_client.rs).
THEOREM TypeCorrect == Spec => []TypeOK
<1>1. Spec => []Typed
  BY TypedInit, TypedStep, PTL DEF Spec
<1> QED BY <1>1, TypedImpliesTypeOK, PTL

-----------------------------------------------------------------------------
(* One socket, and always a way back.                                      *)

Alive == OneSocket /\ NeverStranded

\* Steps that leave the sockets and what the page shows of them alone.
LEMMA AliveUnchanged ==
  ASSUME Alive, UNCHANGED <<ws, sock, closed, status, timers>>
  PROVE  Alive'
BY DEF Alive, OneSocket, NeverStranded

\* A new socket is made when the current one is closed or closing: it is the only one.
LEMMA AliveNewSocket ==
  ASSUME Typed, NEW s \in [Slot -> {"connecting", "open", "closing", "closed"}],
         \A i \in Slot : s[i] \notin {"connecting", "open"}, NewSocket(s)
  PROVE  Alive'
<1>1. PICK i \in Slot : ws' = i /\ sock' = [s EXCEPT ![i] = "connecting"] /\ status' = "connecting"
  BY DEF NewSocket
<1> QED BY <1>1 DEF Alive, OneSocket, NeverStranded

LEMMA AliveClose ==
  ASSUME Typed, Alive, NEW i \in Slot, sock[i] # "closed", OnClose(i)
  PROVE  Alive'
<1>1. UNCHANGED <<ws, closed>> /\ sock' = [sock EXCEPT ![i] = "closed"]
  BY DEF OnClose
<1>2. OneSocket'
  BY <1>1 DEF Alive, OneSocket, Typed, SockType
<1>3. CASE ws # i
  BY <1>1, <1>2, <1>3 DEF OnClose, Alive, NeverStranded, Typed, SockType
<1>4. CASE ws = i
  <2>1. CASE closed = "no"
    <3>1. status' = "disconnected" /\ timers' = Atmost(timers + 1, MaxTimers)
      BY <1>4, <2>1 DEF OnClose
    <3>2. timers' > 0
      BY <3>1, BoundsAssumption DEF Atmost, Typed, PageType
    <3> QED BY <1>1, <1>2, <1>4, <3>1, <3>2 DEF Alive, NeverStranded, Typed, SockType
  <2> QED BY <1>1, <1>2, <2>1 DEF Alive, NeverStranded
<1> QED BY <1>3, <1>4

\* A page that closes itself for good has no promise to keep any more.
LEMMA AliveShut ==
  ASSUME Typed, Alive, ws' = ws, closed' # "no",
         sock' = IF sock[ws] = "closed" THEN sock ELSE [sock EXCEPT ![ws] = "closing"]
  PROVE  Alive'
BY DEF Alive, OneSocket, NeverStranded, Typed, SockType

LEMMA AliveDispatch ==
  ASSUME Typed, Alive, NEW i \in Slot, Dispatch(i)
  PROVE  Alive'
<1>1. i = ws /\ sock[ws] = "open"
  BY DEF Dispatch, Alive, OneSocket
<1>2. OnPlain(Head(down[i])) \/ Ignore \/ Fatal("decrypt_failed")
  BY DEF Dispatch
<1>3. CASE \E why \in {"auth_failed", "busy", "decrypt_failed"} : Fatal(why)
  <2>1. closed' # "no"
    BY <1>3 DEF Fatal, Close
  <2> QED BY <1>3, <2>1, AliveShut DEF Fatal, Close
<1>4. CASE UNCHANGED <<ws, sock, closed, status, timers>>
  BY <1>4, AliveUnchanged
<1>5. CASE \E k : Ready(k) /\ UNCHANGED <<sockVars, closed, timers, online>>
  BY <1>1, <1>5 DEF Ready, sockVars, Alive, OneSocket, NeverStranded
<1> QED BY <1>2, <1>3, <1>4, <1>5, OnPlainCases
        DEF Ignore, Answer, webVars, sockVars, pageVars, keyVars

LEMMA AliveStep ==
  ASSUME Typed, Alive, [Next]_vars
  PROVE  Alive'
<1>1. CASE Retry
  <2>1. CASE MayConnect
    <3>1. \A i \in Slot : sock[i] \notin {"connecting", "open"}
      BY <2>1 DEF MayConnect, Alive, OneSocket
    <3> QED BY <1>1, <2>1, <3>1, AliveNewSocket DEF Retry, Typed, SockType
  <2>2. CASE ~MayConnect
    BY <1>1, <2>2 DEF Retry, MayConnect, sockVars, Alive, OneSocket, NeverStranded
  <2> QED BY <2>1, <2>2
<1>2. CASE Visible
  <2>1. \A i \in Slot : sock[i] \notin {"connecting", "open"}
    BY <1>2 DEF Visible, MayConnect, Alive, OneSocket
  <2> QED BY <1>2, <2>1, AliveNewSocket DEF Visible, Typed, SockType
<1>3. CASE ManualReconnect
  <2> DEFINE s == IF sock[ws] = "closed" THEN sock ELSE [sock EXCEPT ![ws] = "closing"]
  <2>1. s \in [Slot -> {"connecting", "open", "closing", "closed"}] /\ NewSocket(s)
    BY <1>3 DEF ManualReconnect, Typed, SockType
  <2>2. \A i \in Slot : s[i] \notin {"connecting", "open"}
    BY DEF Alive, OneSocket, Typed, SockType
  <2> HIDE DEF s
  <2> QED BY <2>1, <2>2, AliveNewSocket
<1>4. CASE Leave
  <2>1. closed' # "no"
    BY <1>4 DEF Leave
  <2> QED BY <1>4, <2>1, AliveShut DEF Leave
<1>5. ASSUME NEW i \in Slot, SockOpen(i) PROVE Alive'
  BY <1>5 DEF SockOpen, pageVars, Alive, OneSocket, NeverStranded, Typed, SockType
<1>6. ASSUME NEW i \in Slot, SockGone(i) \/ NetLoss(i) PROVE Alive'
  <2>1. sock[i] # "closed" /\ OnClose(i)
    BY <1>6 DEF SockGone, NetLoss, Gone
  <2> QED BY <2>1, AliveClose
<1>7. ASSUME NEW i \in Slot, Dispatch(i) PROVE Alive'
  BY <1>7, AliveDispatch
<1>8. CASE Request
  BY <1>8, AliveUnchanged DEF Request, sockVars, pageVars
<1>9. CASE UNCHANGED webVars
  BY <1>9, AliveUnchanged DEF webVars, sockVars, pageVars
<1>10. ASSUME NEW i \in Slot, RelayRead(i) \/ RelayDrop(i) \/ HalfOpen(i) PROVE UNCHANGED webVars
  BY <1>10 DEF RelayRead, RelayDrop, HalfOpen
<1>11. DaemonRecv \/ Kick \/ KickEarly \/ TunnelUp \/ TunnelDown \/ OtherJoin \/ OtherLeave
       \/ HostEvent \/ ChangeToken \/ UNCHANGED vars => UNCHANGED webVars
  BY DEF DaemonRecv, Kick, KickEarly, KickOrder, TunnelUp, TunnelDown, OtherJoin, OtherLeave,
     HostEvent, ChangeToken, vars
<1> QED BY <1>1, <1>2, <1>3, <1>4, <1>5, <1>6, <1>7, <1>8, <1>9, <1>10, <1>11
        DEF Next, Socket, Disturb

LEMMA AliveInit ==
  ASSUME Init
  PROVE  Alive
BY DEF Init, Alive, OneSocket, NeverStranded

\* There is never a second live socket, whatever timers, page events and buttons ask for
\* one (daemon.ts:45-46, 167-174).
THEOREM SocketIsSingle == Spec => []OneSocket
<1>1. Spec => [](Typed /\ Alive)
  BY TypedInit, TypedStep, AliveInit, AliveStep, PTL DEF Spec
<1>2. Typed /\ Alive => OneSocket
  BY DEF Alive
<1> QED BY <1>1, <1>2, PTL

\* A page that is not closed always has a live socket or a timer that makes one, and shows
\* which (TerminalApp.tsx:285-292).
THEOREM PageIsNeverStranded == Spec => []NeverStranded
<1>1. Spec => [](Typed /\ Alive)
  BY TypedInit, TypedStep, AliveInit, AliveStep, PTL DEF Spec
<1>2. Typed /\ Alive => NeverStranded
  BY DEF Alive
<1> QED BY <1>1, <1>2, PTL

-----------------------------------------------------------------------------
(* The connection implements the contract of requests.                     *)

ContractStep == [Contract!Next]_(Contract!contract)

\* No request is made, served, answered or given up.
LEMMA ContractStutter ==
  ASSUME UNCHANGED <<nreq, pending, served, resolved>>
  PROVE  ContractStep
BY DEF ContractStep, Contract!contract

\* onclose gives up what is pending.
LEMMA ContractClose ==
  ASSUME NEW i \in Slot, OnClose(i)
  PROVE  ContractStep
<1>1. UNCHANGED <<nreq, resolved, served>> /\ (pending' = {} \/ pending' = pending)
  BY DEF OnClose, daemonVars
<1>2. CASE pending' = {}
  BY <1>1, <1>2 DEF ContractStep, Contract!Next, Contract!Abandon
<1>3. CASE pending' = pending
  BY <1>1, <1>3, ContractStutter
<1> QED BY <1>1, <1>2, <1>3

LEMMA ContractIssue ==
  ASSUME Typed, NEW k, Issue(k), UNCHANGED served
  PROVE  ContractStep
<1>1. nreq \in Nat /\ nreq' = nreq + 1 /\ nreq' \in Req /\ resolved' = resolved
  BY BoundsAssumption DEF Issue, Typed, ReqType, Req
<1>2. nreq' \notin 1..nreq /\ 1..nreq' = 1..nreq \cup {nreq'} /\ pending' = pending \cup {nreq'}
  BY <1>1 DEF Issue
<1>3. Contract!Issue(nreq')
  BY <1>1, <1>2 DEF Contract!Issue
<1> QED BY <1>1, <1>3 DEF ContractStep, Contract!Next

LEMMA ContractReady ==
  ASSUME Typed, NEW k, Ready(k), UNCHANGED served
  PROVE  ContractStep
<1>1. CASE Issue(k)
  BY <1>1, ContractIssue
<1>2. CASE UNCHANGED <<reqVars, up>>
  BY <1>2, ContractStutter DEF reqVars
<1> QED BY <1>1, <1>2 DEF Ready

\* An answer that is taken belongs to a pending request, and the daemon gave it.
LEMMA ContractAnswer ==
  ASSUME Typed, NEW m \in Given(served), m.t = "resp", Answer(m), UNCHANGED served
  PROVE  ContractStep
<1>1. m.n \in Req /\ m.n \in served /\ nreq' = nreq
  BY DEF Given, RelayFrame, Answer
<1>2. CASE m.n \in pending
  <2>1. Contract!Resolve(m.n)
    BY <1>1, <1>2 DEF Answer, Contract!Resolve
  <2> QED BY <1>1, <2>1 DEF ContractStep, Contract!Next
<1>3. CASE m.n \notin pending
  BY <1>1, <1>3, ContractStutter DEF Answer
<1> QED BY <1>2, <1>3

LEMMA ContractDispatch ==
  ASSUME Typed, NEW i \in Slot, Dispatch(i)
  PROVE  ContractStep
<1> DEFINE m == Head(down[i])
<1>1. m \in Given(served)
  BY QueueTail DEF Dispatch, Typed, WireType
<1>2. OnPlain(m) \/ Ignore \/ Fatal("decrypt_failed")
  BY DEF Dispatch
<1>3. UNCHANGED served
  BY DEF Dispatch, daemonVars
<1> HIDE DEF m
<1>4. CASE \E k : Ready(k)
  BY <1>3, <1>4, ContractReady
<1>5. CASE m.t = "resp" /\ Answer(m)
  BY <1>1, <1>3, <1>5, ContractAnswer
<1>6. CASE UNCHANGED reqVars
  BY <1>3, <1>6, ContractStutter DEF reqVars
<1> QED BY <1>2, <1>4, <1>5, <1>6, OnPlainCases DEF Fatal, Ignore, webVars

\* The daemon serves a request that was made; serving it again is no step of the contract.
LEMMA ContractServe ==
  ASSUME Typed, DaemonRecv
  PROVE  ContractStep
<1> DEFINE m == Head(toD)
<1>1. m \in PassedOn(nreq)
  BY HeadTailProperties DEF DaemonRecv, Typed, WireType
<1>2. UNCHANGED <<nreq, pending, resolved>> /\ nreq \in Nat
  BY DEF DaemonRecv, webVars, reqVars, Typed, ReqType
<1>3. CASE served' = served
  BY <1>2, <1>3, ContractStutter
<1>4. CASE m.t # "proof" /\ served' = served \cup {m.n} /\ m.n \notin served
  <2>1. m.n \in Req /\ m.n <= nreq
    BY <1>1, <1>4 DEF PassedOn, Known, ClientFrame
  <2>2. m.n \in 1..nreq
    BY <1>2, <2>1, BoundsAssumption DEF Req
  <2>3. Contract!Serve(m.n)
    BY <1>2, <1>4, <2>2 DEF Contract!Serve
  <2> QED BY <2>1, <2>3 DEF ContractStep, Contract!Next
<1> QED BY <1>3, <1>4 DEF DaemonRecv, OnProof, OnRequest

LEMMA ContractStepHolds ==
  ASSUME Typed, [Next]_vars
  PROVE  ContractStep
<1>1. CASE Request
  BY <1>1, ContractIssue DEF Request, daemonVars
<1>2. ASSUME NEW i \in Slot, SockGone(i) \/ NetLoss(i) PROVE ContractStep
  BY <1>2, ContractClose DEF SockGone, NetLoss
<1>3. ASSUME NEW i \in Slot, Dispatch(i) PROVE ContractStep
  BY <1>3, ContractDispatch
<1>4. CASE DaemonRecv
  BY <1>4, ContractServe
<1>5. CASE UNCHANGED <<reqVars, served>>
  BY <1>5, ContractStutter DEF reqVars
<1>6. \A s : NewSocket(s) => UNCHANGED <<reqVars, served>>
  BY DEF NewSocket, daemonVars
<1>7. Retry \/ Visible \/ ManualReconnect \/ Leave => UNCHANGED <<reqVars, served>>
  BY <1>6 DEF Retry, Visible, ManualReconnect, Leave, daemonVars
<1>8. ASSUME NEW i \in Slot, SockOpen(i) \/ RelayRead(i) \/ RelayDrop(i) \/ HalfOpen(i)
      PROVE  UNCHANGED <<reqVars, served>>
  BY <1>8 DEF SockOpen, RelayRead, RelayDrop, HalfOpen, daemonVars, webVars
<1>9. Kick \/ KickEarly \/ TunnelUp \/ TunnelDown \/ OtherJoin \/ OtherLeave \/ HostEvent
      \/ ChangeToken \/ UNCHANGED vars => UNCHANGED <<reqVars, served>>
  BY DEF Kick, KickEarly, KickOrder, TunnelUp, TunnelDown, OtherJoin, OtherLeave, HostEvent,
     ChangeToken, vars, daemonVars, webVars
<1> QED BY <1>1, <1>2, <1>3, <1>4, <1>5, <1>7, <1>8, <1>9 DEF Next, Socket, Disturb

LEMMA ContractInit ==
  ASSUME Init
  PROVE  Contract!Init
BY DEF Init, Contract!Init

\* Over every reconnection, lost tunnel, other viewer and restart of the handshake a promise
\* resolves at most once, with the answer the daemon gave to that very request, and never
\* after its connection was lost (daemon.ts:72-78, 139-165).
THEOREM ConnectionKeepsContract == Spec => KeepsContract
<1>1. Spec => []Typed
  BY TypedInit, TypedStep, PTL DEF Spec
<1> QED BY <1>1, ContractInit, ContractStepHolds, PTL
        DEF Spec, KeepsContract, Contract!Spec, ContractStep

-----------------------------------------------------------------------------
(* Frames of one type in a queue.                                          *)

Has(q, t) == \E i \in 1..Len(q) : q[i].t = t

\* The last frame of type t carries n.
LastIs(q, t, n) ==
  \E i \in 1..Len(q) : q[i].t = t /\ q[i].n = n /\ \A j \in (i+1)..Len(q) : q[j].t # t

LEMMA AppendAt ==
  ASSUME NEW S, NEW q \in Seq(S), NEW f
  PROVE  /\ Len(q) \in Nat /\ Len(Append(q, f)) = Len(q) + 1 /\ Append(q, f)[Len(q) + 1] = f
         /\ \A i \in 1..Len(q) : Append(q, f)[i] = q[i]
OBVIOUS

LEMMA HasAppend ==
  ASSUME NEW S, NEW q \in Seq(S), NEW f, NEW t
  PROVE  Has(Append(q, f), t) => Has(q, t) \/ f.t = t
<1> DEFINE p == Append(q, f)
<1>1. /\ Len(q) \in Nat /\ Len(p) = Len(q) + 1 /\ p[Len(q) + 1] = f
      /\ \A i \in 1..Len(q) : p[i] = q[i]
  BY AppendAt
<1> HIDE DEF p
<1>2. ASSUME NEW i \in 1..Len(p), p[i].t = t, f.t # t PROVE \E k \in 1..Len(q) : q[k].t = t
  <2>1. i \in 1..Len(q)
    BY <1>1, <1>2
  <2> QED BY <1>1, <1>2, <2>1
<1>3. Has(p, t) => Has(q, t) \/ f.t = t
  BY <1>2 DEF Has
<1> QED BY <1>3 DEF p

LEMMA LastAppend ==
  ASSUME NEW S, NEW q \in Seq(S), NEW f, NEW t, NEW n, f.t # t, LastIs(q, t, n)
  PROVE  LastIs(Append(q, f), t, n)
<1> DEFINE p == Append(q, f)
<1>1. /\ Len(q) \in Nat /\ Len(p) = Len(q) + 1 /\ p[Len(q) + 1] = f
      /\ \A i \in 1..Len(q) : p[i] = q[i]
  BY AppendAt
<1> HIDE DEF p
<1>2. PICK i \in 1..Len(q) : q[i].t = t /\ q[i].n = n /\ \A j \in (i+1)..Len(q) : q[j].t # t
  BY DEF LastIs
<1>3. i \in 1..Len(p) /\ p[i] = q[i]
  BY <1>1
<1>4. ASSUME NEW j \in (i+1)..Len(p) PROVE p[j].t # t
  <2>1. CASE j = Len(q) + 1
    BY <1>1, <2>1
  <2>2. CASE j # Len(q) + 1
    <3>1. j \in (i+1)..Len(q) /\ j \in 1..Len(q)
      BY <1>1, <2>2
    <3> QED BY <1>1, <1>2, <3>1
  <2> QED BY <2>1, <2>2
<1>5. LastIs(p, t, n)
  BY <1>2, <1>3, <1>4 DEF LastIs
<1> QED BY <1>5 DEF p

LEMMA LastNew ==
  ASSUME NEW S, NEW q \in Seq(S), NEW f
  PROVE  LastIs(Append(q, f), f.t, f.n)
<1> DEFINE p == Append(q, f)
<1>1. Len(q) \in Nat /\ Len(p) = Len(q) + 1 /\ p[Len(q) + 1] = f
  BY AppendAt
<1> HIDE DEF p
<1>2. Len(q) + 1 \in 1..Len(p) /\ \A j \in ((Len(q) + 1) + 1)..Len(p) : p[j].t # f.t
  BY <1>1
<1>3. LastIs(p, f.t, f.n)
  BY <1>1, <1>2 DEF LastIs
<1> QED BY <1>3 DEF p

\* Without its first frame.
LEMMA TailAt ==
  ASSUME NEW S, NEW q \in Seq(S), q # << >>
  PROVE  /\ Len(q) \in Nat /\ Len(q) >= 1 /\ Head(q) = q[1]
         /\ Len(Tail(q)) = Len(q) - 1 /\ \A i \in 1..Len(Tail(q)) : Tail(q)[i] = q[i+1]
BY HeadTailProperties, EmptySeq

LEMMA HasTail ==
  ASSUME NEW S, NEW q \in Seq(S), q # << >>, NEW t, ~Has(q, t)
  PROVE  Head(q).t # t /\ ~Has(Tail(q), t)
<1> DEFINE p == Tail(q)
<1>1. /\ Len(q) \in Nat /\ Len(q) >= 1 /\ Head(q) = q[1]
      /\ Len(p) = Len(q) - 1 /\ \A i \in 1..Len(p) : p[i] = q[i+1]
  BY TailAt
<1> HIDE DEF p
<1>2. ASSUME NEW i \in 1..Len(p) PROVE p[i].t # t
  <2>1. i + 1 \in 1..Len(q)
    BY <1>1
  <2> QED BY <1>1, <2>1 DEF Has
<1>3. Head(q).t # t /\ ~Has(p, t)
  BY <1>1, <1>2 DEF Has
<1> QED BY <1>3 DEF p

LEMMA LastTail ==
  ASSUME NEW S, NEW q \in Seq(S), q # << >>, NEW t, NEW n, LastIs(q, t, n)
  PROVE  LastIs(Tail(q), t, n) \/ (Head(q).t = t /\ Head(q).n = n /\ ~Has(Tail(q), t))
<1> DEFINE p == Tail(q)
<1>1. /\ Len(q) \in Nat /\ Len(q) >= 1 /\ Head(q) = q[1]
      /\ Len(p) = Len(q) - 1 /\ \A i \in 1..Len(p) : p[i] = q[i+1]
  BY TailAt
<1> HIDE DEF p
<1>2. PICK i \in 1..Len(q) : q[i].t = t /\ q[i].n = n /\ \A j \in (i+1)..Len(q) : q[j].t # t
  BY DEF LastIs
<1>3. ASSUME NEW j \in 1..Len(p), j >= i PROVE p[j].t # t
  <2>1. j + 1 \in (i+1)..Len(q)
    BY <1>1, <1>3
  <2> QED BY <1>1, <1>2, <2>1
<1>4. CASE i = 1
  <2>1. ~Has(p, t)
    BY <1>3, <1>4 DEF Has
  <2> QED BY <1>1, <1>2, <1>4, <2>1 DEF p
<1>5. CASE i # 1
  <2>1. i - 1 \in 1..Len(p) /\ p[i-1] = q[i]
    BY <1>1, <1>5
  <2>2. \A j \in ((i-1)+1)..Len(p) : j \in 1..Len(p) /\ j >= i
    BY <1>1, <1>5
  <2>3. LastIs(p, t, n)
    BY <1>2, <1>3, <2>1, <2>2 DEF LastIs
  <2> QED BY <2>3 DEF p
<1> QED BY <1>4, <1>5

-----------------------------------------------------------------------------
(* The slots of sockets.                                                   *)

\* A socket that still connects is unknown to the relay; its hello is the first frame, and
\* until the relay has read it nothing comes back and the page is not ready; who has the
\* seat is in the room.
SlotInv(i) ==
  /\ sock[i] = "connecting" => srv[i] = "none" /\ up[i] = << >> /\ down[i] = << >>
  /\ \A j \in 1..Len(up[i]) : up[i][j].t = "hello" =>
       /\ j = 1 /\ srv[i] = "none" /\ down[i] = << >>
       /\ closed = "no" /\ i = ws => status # "ready"
  /\ seat = i => srv[i] = "in"

Slots == \A i \in Slot : SlotInv(i)

LEMMA WireFacts ==
  ASSUME Typed, NEW i \in Slot
  PROVE  up[i] \in Seq(Known(nreq)) /\ down[i] \in Seq(Given(served))
BY DEF Typed, WireType

\* A step that does not greet.
LEMMA SlotKept ==
  ASSUME Typed, NEW i \in Slot, SlotInv(i),
         sock'[i] = "connecting" => sock[i] = "connecting",
         srv'[i] = srv[i], seat' = i => seat = i,
         \/ up'[i] = up[i]
         \/ sock[i] # "connecting" /\ \E f : f.t # "hello" /\ up'[i] = Append(up[i], f),
         down'[i] = down[i] \/ down'[i] = << >> \/ seat = i,
         closed' = "no" /\ i = ws' /\ status' = "ready" =>
           closed = "no" /\ i = ws /\ (status = "ready" \/ down[i] # << >>)
  PROVE  SlotInv(i)'
<1>1. sock'[i] = "connecting" => up'[i] = << >> /\ down'[i] = << >> /\ srv'[i] = "none"
  BY DEF SlotInv
<1>2. ASSUME NEW j \in 1..Len(up'[i]), up'[i][j].t = "hello"
      PROVE  j \in 1..Len(up[i]) /\ up[i][j].t = "hello"
  <2>1. CASE up'[i] = up[i]
    BY <1>2, <2>1
  <2>2. ASSUME NEW f, f.t # "hello", up'[i] = Append(up[i], f)
        PROVE  j \in 1..Len(up[i]) /\ up[i][j].t = "hello"
    <3>1. /\ Len(up[i]) \in Nat /\ Len(up'[i]) = Len(up[i]) + 1 /\ up'[i][Len(up[i]) + 1] = f
          /\ \A k \in 1..Len(up[i]) : up'[i][k] = up[i][k]
      BY <2>2, WireFacts, AppendAt
    <3>2. j \in 1..Len(up[i])
      BY <1>2, <2>2, <3>1
    <3> QED BY <1>2, <3>1, <3>2
  <2> QED BY <2>1, <2>2
<1>3. ASSUME NEW j \in 1..Len(up'[i]), up'[i][j].t = "hello"
      PROVE  /\ j = 1 /\ srv'[i] = "none" /\ down'[i] = << >>
             /\ closed' = "no" /\ i = ws' => status' # "ready"
  <2>1. j = 1 /\ srv[i] = "none" /\ down[i] = << >> /\ (closed = "no" /\ i = ws => status # "ready")
    BY <1>2, <1>3 DEF SlotInv
  <2>2. seat # i
    BY <2>1 DEF SlotInv
  <2> QED BY <2>1, <2>2
<1>4. seat' = i => srv'[i] = "in"
  BY DEF SlotInv
<1> QED BY <1>1, <1>3, <1>4 DEF SlotInv

\* What a slot shows is what it showed.
LEMMA SlotSame ==
  ASSUME Typed, NEW i \in Slot, SlotInv(i),
         UNCHANGED <<ws, sock, closed, status, up, srv>>, seat' = i => seat = i,
         down'[i] = down[i] \/ seat = i
  PROVE  SlotInv(i)'
BY SlotKept

LEMMA TellAt ==
  ASSUME Typed, NEW v, NEW f, NEW i \in Slot
  PROVE  /\ Tell(v, f)[i] = down[i] \/ Tell(v, f)[i] = Append(down[i], f)
         /\ v # i => Tell(v, f)[i] = down[i]
         /\ v = i /\ i \notin half => Tell(v, f)[i] = Append(down[i], f)
BY DEF Tell, Typed, WireType

LEMMA SlotsNewSocket ==
  ASSUME Typed, Slots, NEW s \in [Slot -> {"connecting", "open", "closing", "closed"}],
         \A i \in Slot : s[i] # "connecting", NewSocket(s)
  PROVE  Slots'
<1>1. PICK i \in Slot : Free(i) /\ ws' = i /\ sock' = [s EXCEPT ![i] = "connecting"]
                        /\ status' = "connecting"
  BY DEF NewSocket
<1>2. UNCHANGED <<closed, up, down, srv, seat>>
  BY DEF NewSocket, relayVars
<1>3. ASSUME NEW k \in Slot PROVE SlotInv(k)'
  <2>1. SlotInv(k)
    BY DEF Slots
  <2>2. CASE k = i
    BY <1>1, <1>2, <2>1, <2>2 DEF Free, SlotInv
  <2>3. CASE k # i
    BY <1>1, <1>2, <2>1, <2>3, SlotKept
  <2> QED BY <2>2, <2>3
<1> QED BY <1>3 DEF Slots

LEMMA SlotsSockOpen ==
  ASSUME Typed, Alive, Slots, NEW i \in Slot, SockOpen(i)
  PROVE  Slots'
<1>1. /\ sock[i] = "connecting" /\ sock' = [sock EXCEPT ![i] = "open"]
      /\ up' = [up EXCEPT ![i] = Append(@, Plain("hello"))]
      /\ UNCHANGED <<ws, closed, status, srv, seat, down>>
  BY DEF SockOpen, pageVars, relayVars
<1>2. ASSUME NEW k \in Slot, k # i PROVE SlotInv(k)'
  <2>1. SlotInv(k) /\ sock'[k] = sock[k] /\ up'[k] = up[k]
    BY <1>1, <1>2 DEF Slots, Typed, SockType, WireType
  <2> QED BY <1>1, <2>1, SlotKept
<1>3. SlotInv(i)'
  <2>1. srv[i] = "none" /\ up[i] = << >> /\ down[i] = << >> /\ seat # i
    BY <1>1 DEF Slots, SlotInv
  <2>2. sock'[i] = "open" /\ up'[i] = Append(up[i], Plain("hello"))
    BY <1>1 DEF Typed, SockType, WireType
  <2>3. Len(up[i]) = 0 /\ Len(up'[i]) = Len(up[i]) + 1
    BY <2>1, <2>2, WireFacts, AppendAt
  <2>4. \A j \in 1..Len(up'[i]) : j = 1
    BY <2>3
  <2>5. closed = "no" /\ i = ws => status # "ready"
    BY <1>1 DEF Alive, NeverStranded
  <2> QED BY <1>1, <2>1, <2>2, <2>4, <2>5 DEF SlotInv
<1> QED BY <1>2, <1>3 DEF Slots

LEMMA SlotsOnClose ==
  ASSUME Typed, Slots, NEW i \in Slot, OnClose(i)
  PROVE  Slots'
<1>1. ASSUME NEW k \in Slot PROVE SlotInv(k)'
  <2>1. /\ UNCHANGED <<ws, closed, up, srv, seat>>
        /\ sock'[k] = IF k = i THEN "closed" ELSE sock[k]
        /\ down'[k] = IF k = i THEN << >> ELSE down[k]
        /\ status' = status \/ status' = "disconnected"
    BY DEF OnClose, relayVars, Typed, SockType, WireType
  <2>2. SlotInv(k)
    BY DEF Slots
  <2> QED BY <2>1, <2>2, SlotKept
<1> QED BY <1>1 DEF Slots

\* The page makes a request, becomes ready or closes itself.
LEMMA IssueSends ==
  ASSUME Typed, NEW k, Issue(k), NEW i \in Slot
  PROVE  \/ up'[i] = up[i]
         \/ sock[i] # "connecting" /\ \E f : f.t # "hello" /\ up'[i] = Append(up[i], f)
<1> DEFINE f == Sealed(Frame("req", nreq', NoKey), k)
<1>1. f.t # "hello"
  BY DEF Sealed, Frame
<1>2. ws \in Slot /\ up' = Sent(Frame("req", nreq', NoKey), k)
  BY DEF Issue, Typed, SockType
<1>3. CASE sock[ws] # "open"
  BY <1>2, <1>3 DEF Sent
<1>4. CASE sock[ws] = "open"
  <2>1. up' = [up EXCEPT ![ws] = Append(@, f)]
    BY <1>2, <1>4 DEF Sent
  <2>2. up'[i] = IF i = ws THEN Append(up[i], f) ELSE up[i]
    BY <1>2, <2>1 DEF Typed, WireType
  <2> QED BY <1>1, <1>4, <2>2
<1> QED BY <1>3, <1>4

LEMMA SlotsRequest ==
  ASSUME Typed, Slots, Request
  PROVE  Slots'
<1>1. ASSUME NEW i \in Slot PROVE SlotInv(i)'
  <2>1. SlotInv(i) /\ UNCHANGED <<ws, sock, closed, status, srv, seat, down>> /\ Issue(key)
    BY DEF Slots, Request, sockVars, pageVars, relayVars
  <2>2. \/ up'[i] = up[i]
        \/ sock[i] # "connecting" /\ \E f : f.t # "hello" /\ up'[i] = Append(up[i], f)
    BY <2>1, IssueSends
  <2> QED BY <2>1, <2>2, SlotKept
<1> QED BY <1>1 DEF Slots

LEMMA SlotsDispatch ==
  ASSUME Typed, Alive, Slots, NEW i \in Slot, Dispatch(i)
  PROVE  Slots'
<1> DEFINE m == Head(down[i])
<1>1. /\ i = ws /\ sock[i] = "open" /\ down[i] # << >> /\ ws \in Slot
      /\ down' = [down EXCEPT ![i] = Tail(@)] /\ UNCHANGED <<srv, seat>>
  BY DEF Dispatch, Alive, OneSocket, relayVars
<1>2. OnPlain(m) \/ Ignore \/ Fatal("decrypt_failed")
  BY DEF Dispatch
<1> HIDE DEF m
<1>3. \A k \in Slot : SlotInv(k)
  BY DEF Slots
<1>4. \A k \in Slot : k # i => down'[k] = down[k]
  BY <1>1 DEF Typed, WireType
<1>s. \A j \in 1..Len(up[i]) : up[i][j].t # "hello"
  BY <1>1, <1>3 DEF SlotInv
<1>5. ASSUME ws' = ws, closed' = "no" => closed = "no",
             \A k \in Slot : sock'[k] = "connecting" => sock[k] = "connecting",
             \A k \in Slot : \/ up'[k] = up[k]
                             \/ sock[k] # "connecting" /\ \E f : f.t # "hello" /\ up'[k] = Append(up[k], f)
      PROVE  Slots'
  <2>1. ASSUME NEW k \in Slot, k # i PROVE SlotInv(k)'
    BY <1>1, <1>3, <1>4, <1>5, <2>1, SlotKept
  <2>2. SlotInv(i)'
    <3>1. ASSUME NEW j \in 1..Len(up'[i]) PROVE up'[i][j].t # "hello"
      <4>1. CASE up'[i] = up[i]
        BY <1>s, <4>1
      <4>2. ASSUME NEW f, f.t # "hello", up'[i] = Append(up[i], f) PROVE up'[i][j].t # "hello"
        <5>1. /\ Len(up[i]) \in Nat /\ Len(up'[i]) = Len(up[i]) + 1 /\ up'[i][Len(up[i]) + 1] = f
              /\ \A k \in 1..Len(up[i]) : up'[i][k] = up[i][k]
          BY <4>2, WireFacts, AppendAt
        <5>2. CASE j = Len(up[i]) + 1
          BY <4>2, <5>1, <5>2
        <5>3. CASE j # Len(up[i]) + 1
          <6>1. j \in 1..Len(up[i])
            BY <5>1, <5>3
          <6> QED BY <1>s, <5>1, <6>1
        <5> QED BY <5>2, <5>3
      <4> QED BY <1>5, <4>1, <4>2
    <3>2. sock'[i] # "connecting"
      BY <1>1, <1>5
    <3> QED BY <1>1, <1>3, <3>1, <3>2 DEF SlotInv
  <2> QED BY <2>1, <2>2 DEF Slots
<1>6. CASE \E why \in {"auth_failed", "busy", "decrypt_failed"} : Fatal(why)
  <2>1. ws' = ws /\ up' = up /\ closed' # "no"
    BY <1>6 DEF Fatal, Close
  <2>2. \A k \in Slot : sock'[k] = "connecting" => sock[k] = "connecting"
    BY <1>6 DEF Fatal, Close, Typed, SockType
  <2> QED BY <1>5, <2>1, <2>2
<1>7. CASE \E k : Ready(k) /\ UNCHANGED <<sockVars, closed>>
  <2>1. PICK k : Ready(k) /\ UNCHANGED <<sockVars, closed>>
    BY <1>7
  <2>2. Issue(k) \/ up' = up
    BY <2>1 DEF Ready
  <2> QED BY <1>5, <2>1, <2>2, IssueSends DEF sockVars
<1>8. CASE UNCHANGED <<sockVars, closed, up>>
  BY <1>5, <1>8 DEF sockVars
<1>9. CASE up' = [up EXCEPT ![ws] = Append(@, Proof(ws))] /\ UNCHANGED <<sockVars, closed>>
  <2>1. Proof(ws).t # "hello"
    BY DEF Proof, Frame
  <2>2. \A k \in Slot : up'[k] = IF k = ws THEN Append(up[k], Proof(ws)) ELSE up[k]
    BY <1>9 DEF Typed, WireType
  <2>3. sock[ws] # "connecting"
    BY <1>1
  <2> QED BY <1>5, <1>9, <2>1, <2>2, <2>3 DEF sockVars
<1> QED BY <1>2, <1>6, <1>7, <1>8, <1>9, OnPlainCases DEF Answer, Ignore, webVars, pageVars

LEMMA SlotsRelayRead ==
  ASSUME Typed, Slots, NEW i \in Slot, RelayRead(i)
  PROVE  Slots'
<1> DEFINE f == Head(up[i])
<1>1. /\ i \notin half /\ up[i] # << >> /\ up' = [up EXCEPT ![i] = Tail(@)]
      /\ UNCHANGED <<ws, sock, closed, status>>
  BY DEF RelayRead, webVars, sockVars, pageVars
<1>2. \A k \in Slot : SlotInv(k)
  BY DEF Slots
<1>3. \A k \in Slot : k # i => up'[k] = up[k]
  BY <1>1 DEF Typed, WireType
<1>4. \A j \in 1..Len(up'[i]) : up'[i][j].t # "hello"
  <2>1. /\ up'[i] = Tail(up[i]) /\ Len(up[i]) \in Nat /\ Len(up'[i]) = Len(up[i]) - 1
        /\ \A j \in 1..Len(up'[i]) : up'[i][j] = up[i][j+1]
    BY <1>1, WireFacts, TailAt DEF Typed, WireType
  <2>2. ASSUME NEW j \in 1..Len(up'[i]) PROVE up'[i][j].t # "hello"
    <3>1. j + 1 \in 1..Len(up[i]) /\ j + 1 # 1
      BY <2>1
    <3> QED BY <1>2, <2>1, <3>1 DEF SlotInv
  <2> QED BY <2>2
<1>5. sock[i] # "connecting"
  BY <1>1, <1>2 DEF SlotInv
<1>6. CASE f.t = "hello" /\ RelayHello(i)
  <2>1. srv[i] = "none" /\ seat # i
    <3>1. 1 \in 1..Len(up[i]) /\ up[i][1] = f
      BY <1>1, WireFacts, TailAt
    <3>2. srv[i] = "none"
      BY <1>2, <1>6, <3>1 DEF SlotInv
    <3> QED BY <1>2, <3>2 DEF SlotInv
  <2>2. \A k \in Slot : k # i => down'[k] = down[k] /\ srv'[k] = srv[k] /\ (seat' = k => seat = k)
    BY <1>6, TellAt DEF RelayHello, Typed, RoomType
  <2>3. seat' = i => srv'[i] = "in"
    BY <1>6, <2>1 DEF RelayHello, Typed, RoomType
  <2>4. SlotInv(i)'
    BY <1>1, <1>4, <1>5, <2>3 DEF SlotInv
  <2>5. ASSUME NEW k \in Slot, k # i PROVE SlotInv(k)'
    BY <1>1, <1>2, <1>3, <2>2, <2>5, SlotKept
  <2> QED BY <2>4, <2>5 DEF Slots
<1>7. CASE Forward(i, f)
  <2>1. UNCHANGED <<srv, seat>> /\ \A k \in Slot : k # i => down'[k] = down[k]
    BY <1>7, TellAt DEF Forward, relayVars
  <2>2. SlotInv(i)'
    BY <1>1, <1>2, <1>4, <1>5, <2>1 DEF SlotInv
  <2>3. ASSUME NEW k \in Slot, k # i PROVE SlotInv(k)'
    BY <1>1, <1>2, <1>3, <2>1, <2>3, SlotKept
  <2> QED BY <2>2, <2>3 DEF Slots
<1> QED BY <1>6, <1>7 DEF RelayRead

LEMMA SlotsRelayDrop ==
  ASSUME Typed, Slots, NEW i \in Slot, RelayDrop(i)
  PROVE  Slots'
<1>1. /\ UNCHANGED <<ws, sock, closed, status>> /\ seat' # i /\ (seat' = seat \/ seat' = Nobody)
      /\ \A k \in Slot : /\ srv'[k] = IF k = i THEN "none" ELSE srv[k]
                         /\ up'[k] = IF k = i THEN << >> ELSE up[k]
                         /\ down'[k] = IF k = i THEN << >> ELSE down[k]
  BY NamesAssumption DEF RelayDrop, webVars, sockVars, pageVars, Typed, WireType, RoomType
<1>2. ASSUME NEW k \in Slot PROVE SlotInv(k)'
  <2>1. SlotInv(k)
    BY DEF Slots
  <2>2. CASE k = i
    BY <1>1, <2>2 DEF SlotInv
  <2>3. CASE k # i
    BY <1>1, <2>1, <2>3, NamesAssumption, SlotKept
  <2> QED BY <2>2, <2>3
<1> QED BY <1>2 DEF Slots

LEMMA SlotsKick ==
  ASSUME Typed, Slots, KickOrder
  PROVE  Slots'
<1>1. /\ UNCHANGED <<ws, sock, closed, status, up>> /\ seat' = Nobody
      /\ \A k \in Slot : /\ k # seat => srv'[k] = srv[k]
                         /\ k # seat => down'[k] = down[k]
  BY TellAt DEF KickOrder, webVars, sockVars, pageVars, Typed, RoomType
<1>2. ASSUME NEW k \in Slot PROVE SlotInv(k)'
  <2>1. SlotInv(k) /\ k # Nobody
    BY NamesAssumption DEF Slots
  <2>2. CASE k = seat
    BY <1>1, <2>1, <2>2 DEF SlotInv
  <2>3. CASE k # seat
    BY <1>1, <2>1, <2>3, SlotKept
  <2> QED BY <2>2, <2>3
<1> QED BY <1>2 DEF Slots

\* The room and the daemon speak to the one in the seat only.
LEMMA SlotsTold ==
  ASSUME Typed, Slots, UNCHANGED <<ws, sock, closed, status, up, srv>>,
         \A k \in Slot : seat' = k => seat = k,
         \A k \in Slot : down'[k] = down[k] \/ seat = k
  PROVE  Slots'
<1>1. ASSUME NEW k \in Slot PROVE SlotInv(k)'
  BY SlotSame DEF Slots
<1> QED BY <1>1 DEF Slots

\* The daemon's end, step by step: to whom it speaks, what it leaves alone.
LEMMA DaemonTells ==
  ASSUME Typed,
         DaemonRecv \/ TunnelUp \/ TunnelDown \/ OtherJoin \/ OtherLeave \/ HostEvent \/ ChangeToken
  PROVE  /\ UNCHANGED <<webVars, up, half, srv>>
         /\ \A k \in Slot : seat' = k => seat = k
         /\ \A k \in Slot : down'[k] = down[k] \/ seat = k
<1>1. CASE DaemonRecv
  BY <1>1, TellAt DEF DaemonRecv, OnProof, OnRequest, relayVars
<1>2. CASE TunnelUp \/ TunnelDown
  BY <1>2, TellAt DEF TunnelUp, TunnelDown, relayVars
<1>3. CASE OtherJoin \/ OtherLeave
  BY <1>3, NamesAssumption DEF OtherJoin, OtherLeave
<1>4. CASE HostEvent \/ ChangeToken
  BY <1>4, TellAt DEF HostEvent, ChangeToken, relayVars
<1> QED BY <1>1, <1>2, <1>3, <1>4

LEMMA SlotsStep ==
  ASSUME Typed, Alive, Slots, [Next]_vars
  PROVE  Slots'
<1>1. CASE Retry
  <2>1. CASE MayConnect
    <3>1. \A i \in Slot : sock[i] # "connecting"
      BY <2>1 DEF MayConnect, Alive, OneSocket
    <3> QED BY <1>1, <2>1, <3>1, SlotsNewSocket DEF Retry, Typed, SockType
  <2>2. CASE ~MayConnect
    BY <1>1, <2>2, SlotsTold DEF Retry, MayConnect, sockVars, relayVars
  <2> QED BY <2>1, <2>2
<1>2. CASE Visible
  <2>1. \A i \in Slot : sock[i] # "connecting"
    BY <1>2 DEF Visible, MayConnect, Alive, OneSocket
  <2> QED BY <1>2, <2>1, SlotsNewSocket DEF Visible, Typed, SockType
<1>3. CASE ManualReconnect
  <2> DEFINE s == IF sock[ws] = "closed" THEN sock ELSE [sock EXCEPT ![ws] = "closing"]
  <2>1. s \in [Slot -> {"connecting", "open", "closing", "closed"}] /\ NewSocket(s)
    BY <1>3 DEF ManualReconnect, Typed, SockType
  <2>2. \A i \in Slot : s[i] # "connecting"
    BY DEF Alive, OneSocket, Typed, SockType
  <2> HIDE DEF s
  <2> QED BY <2>1, <2>2, SlotsNewSocket
<1>4. CASE Leave
  <2>1. /\ UNCHANGED <<ws, status, up, srv, seat, down>> /\ closed' # "no"
        /\ \A k \in Slot : sock'[k] = "connecting" => sock[k] = "connecting"
    BY <1>4 DEF Leave, relayVars, Typed, SockType
  <2>2. ASSUME NEW k \in Slot PROVE SlotInv(k)'
    BY <2>1, SlotKept DEF Slots
  <2> QED BY <2>2 DEF Slots
<1>5. ASSUME NEW i \in Slot, SockGone(i) \/ NetLoss(i) PROVE Slots'
  BY <1>5, SlotsOnClose DEF SockGone, NetLoss
<1>6. ASSUME NEW i \in Slot, HalfOpen(i) PROVE Slots'
  BY <1>6, SlotsTold DEF HalfOpen, webVars, sockVars, pageVars, relayVars
<1>7. CASE DaemonRecv \/ TunnelUp \/ TunnelDown \/ OtherJoin \/ OtherLeave \/ HostEvent \/ ChangeToken
  BY <1>7, SlotsTold, DaemonTells DEF webVars, sockVars, pageVars
<1>8. CASE UNCHANGED vars
  BY <1>8, SlotsTold DEF vars, webVars, sockVars, pageVars, relayVars
<1> QED BY <1>1, <1>2, <1>3, <1>4, <1>5, <1>6, <1>7, <1>8, SlotsSockOpen, SlotsRequest, SlotsDispatch,
        SlotsRelayRead, SlotsRelayDrop, SlotsKick DEF Next, Socket, Disturb, Kick, KickEarly

-----------------------------------------------------------------------------
(* Keys and presence.                                                      *)

\* The socket is the page's own, it works and its viewer has the seat.
InTouch == closed = "no" /\ seat = ws /\ sock[ws] = "open" /\ ws \notin half

\* The page in the seat has its greeting still to read, or awaits the answer to no proof
\* but its own.
Hailed ==
  HasToken /\ seat = ws /\ sock[ws] = "open" =>
    \/ down[ws] # << >> /\ Head(down[ws]).t = "ack"
    \/ priv \in {ws, Nobody}

\* A key the daemon took from this slot is the page's, is on its way to it, or was taken
\* from an earlier socket of the slot.
KeyInv ==
  HasToken /\ InTouch /\ crypto # NoKey /\ crypto[1] = ws =>
    \/ LastIs(down[ws], "ok", crypto[2])
    \/ ~Has(down[ws], "ok") /\ (status # "ready" \/ key = crypto)

\* A page whose device is offline knows it or is about to read it.
OfflineInv ==
  InTouch /\ ~tunnel =>
    \/ LastIs(down[ws], "presence", 0)
    \/ ~Has(down[ws], "presence") /\ ~online

Talk == Hailed /\ KeyInv /\ OfflineInv

\* A step after which the page has no seat or no open socket.
LEMMA TalkAway ==
  ASSUME seat' # ws' \/ sock'[ws'] # "open"
  PROVE  Talk'
BY DEF Talk, Hailed, KeyInv, OfflineInv, InTouch

\* A step that brings the page no nearer.
Near == /\ ws' = ws /\ (HasToken' => HasToken) /\ (seat' = ws => seat = ws)
        /\ sock'[ws] = "open" => sock[ws] = "open"
        /\ closed' = "no" => closed = "no"
        /\ ws \in half => ws \in half'

\* The queue to the page stays or gets a frame that is not of type t.
Grows(t) == \/ down'[ws] = down[ws]
            \/ \E f : f.t # t /\ down'[ws] = Append(down[ws], f)

LEMMA HailedKept ==
  ASSUME Typed, Hailed, Near, priv' \in {priv, Nobody},
         down'[ws] = down[ws] \/ \E f : down'[ws] = Append(down[ws], f)
  PROVE  Hailed'
<1>1. ASSUME down[ws] # << >>, NEW f
      PROVE  Append(down[ws], f) # << >> /\ Head(Append(down[ws], f)) = Head(down[ws])
  <2>1. down[ws] \in Seq(Given(served))
    BY WireFacts DEF Typed, SockType
  <2>2. /\ Len(down[ws]) \in Nat /\ Len(Append(down[ws], f)) = Len(down[ws]) + 1
        /\ \A i \in 1..Len(down[ws]) : Append(down[ws], f)[i] = down[ws][i]
    BY <2>1, AppendAt
  <2>3. Len(down[ws]) >= 1 /\ Head(down[ws]) = down[ws][1]
    BY <1>1, <2>1, TailAt
  <2>4. Append(down[ws], f)[1] = down[ws][1] /\ Len(Append(down[ws], f)) # 0
    BY <2>2, <2>3
  <2> QED BY <2>3, <2>4
<1> QED BY <1>1 DEF Hailed, Near

LEMMA KeyKept ==
  ASSUME Typed, KeyInv, Near, status' = "ready" => status = "ready", UNCHANGED key,
         crypto' = crypto \/ crypto' = NoKey, Grows("ok")
  PROVE  KeyInv'
<1>1. down[ws] \in Seq(Given(served))
  BY WireFacts DEF Typed, SockType
<1>2. \A n : LastIs(down[ws], "ok", n) => LastIs(down'[ws], "ok", n)
  BY <1>1, LastAppend DEF Grows
<1>3. Has(down'[ws], "ok") => Has(down[ws], "ok")
  BY <1>1, HasAppend DEF Grows
<1> QED BY <1>2, <1>3 DEF KeyInv, InTouch, Near

LEMMA OfflineKept ==
  ASSUME Typed, OfflineInv, Near, UNCHANGED <<online, tunnel>>, Grows("presence")
  PROVE  OfflineInv'
<1>1. down[ws] \in Seq(Given(served))
  BY WireFacts DEF Typed, SockType
<1>2. LastIs(down[ws], "presence", 0) => LastIs(down'[ws], "presence", 0)
  BY <1>1, LastAppend DEF Grows
<1>3. Has(down'[ws], "presence") => Has(down[ws], "presence")
  BY <1>1, HasAppend DEF Grows
<1> QED BY <1>2, <1>3 DEF OfflineInv, InTouch, Near

LEMMA TalkKept ==
  ASSUME Typed, Talk, Near, UNCHANGED <<key, online, tunnel>>, priv' \in {priv, Nobody},
         status' = "ready" => status = "ready", crypto' = crypto \/ crypto' = NoKey,
         \/ down'[ws] = down[ws]
         \/ \E f : f.t \notin {"ok", "presence"} /\ down'[ws] = Append(down[ws], f)
  PROVE  Talk'
<1>1. Grows("ok") /\ Grows("presence")
  BY DEF Grows
<1> QED BY <1>1, HailedKept, KeyKept, OfflineKept DEF Talk

LEMMA TalkNewSocket ==
  ASSUME NEW s \in [Slot -> {"connecting", "open", "closing", "closed"}], NewSocket(s)
  PROVE  Talk'
<1>1. sock'[ws'] = "connecting"
  BY DEF NewSocket
<1> QED BY <1>1, TalkAway

LEMMA TalkOnClose ==
  ASSUME Typed, Talk, NEW i \in Slot, OnClose(i)
  PROVE  Talk'
<1>1. CASE ws = i
  BY <1>1, TalkAway DEF OnClose, Typed, SockType
<1>2. CASE ws # i
  <2>1. UNCHANGED <<ws, seat, closed, key, priv, online, status, tunnel, token, crypto>>
    BY <1>2 DEF OnClose, relayVars, daemonVars, keyVars
  <2>2. sock'[ws] = sock[ws] /\ down'[ws] = down[ws] /\ (ws \in half => ws \in half')
    BY <1>2 DEF OnClose, Typed, SockType, WireType
  <2>3. Near
    BY <2>1, <2>2 DEF Near, HasToken
  <2> QED BY <2>1, <2>2, <2>3, TalkKept
<1> QED BY <1>1, <1>2

\* The first frame of a queue, by its type.
LEMMA FrameKinds ==
  ASSUME Typed, NEW i \in Slot, down[i] # << >>
  PROVE  /\ down[i] \in Seq(Given(served)) /\ Head(down[i]) \in RelayFrame
         /\ Head(down[i]).k # NoKey => Head(down[i]).t \in {"resp", "event"}
<1>1. down[i] \in Seq(Given(served)) /\ Head(down[i]) \in Given(served)
  BY WireFacts, HeadTailProperties
<1> QED BY <1>1 DEF Given, RelayFrame

\* What the frames do to the page that stays open.
LEMMA DispatchKinds ==
  ASSUME Typed, Alive, NEW i \in Slot, Dispatch(i)
  PROVE  LET m == Head(down[ws]) IN
         \/ sock'[ws'] # "open"
         \/ /\ UNCHANGED <<ws, sock, closed, half, seat, tunnel, crypto, token>>
            /\ \/ m.t = "ack" /\ HasToken /\ priv' = ws /\ UNCHANGED <<key, status, online>>
               \/ m.t = "ack" /\ ~HasToken /\ UNCHANGED <<key, priv, online>>
               \/ /\ m.t = "ok" /\ priv # Nobody /\ key' = <<priv, m.n>> /\ priv' = Nobody
                  /\ UNCHANGED online
               \/ m.t = "presence" /\ online' = (m.n = 1) /\ UNCHANGED <<key, priv, status>>
               \/ m.t \notin {"ack", "ok", "presence"} /\ UNCHANGED <<key, priv, status, online>>
<1> DEFINE m == Head(down[ws])
<1>1. /\ i = ws /\ ws \in Slot /\ sock[ws] = "open" /\ down[ws] # << >>
      /\ UNCHANGED <<half, seat, tunnel, crypto, token>>
  BY DEF Dispatch, Alive, OneSocket, relayVars, daemonVars
<1>2. m \in RelayFrame /\ (m.k # NoKey => m.t \in {"resp", "event"})
  BY <1>1, FrameKinds
<1>3. \/ OnPlain(m)
      \/ m.k # NoKey /\ Ignore
      \/ Fatal("decrypt_failed")
  BY <1>1 DEF Dispatch
<1> HIDE DEF m
<1>4. CASE \E why \in {"auth_failed", "busy", "decrypt_failed"} : Fatal(why)
  <2>1. sock'[ws'] = "closing"
    BY <1>1, <1>4 DEF Fatal, Close, Typed, SockType
  <2> QED BY <2>1
<1>5. CASE m.k # NoKey /\ Ignore
  BY <1>1, <1>2, <1>5 DEF Ignore, webVars, sockVars, pageVars, keyVars, m
<1>6. CASE OnPlain(m) /\ m.t = "ack"
  BY <1>1, <1>6 DEF OnPlain, Ready, sockVars, pageVars, keyVars, m
<1>7. CASE OnPlain(m) /\ m.t = "ok"
  BY <1>1, <1>4, <1>7 DEF OnPlain, sockVars, m
<1>8. CASE OnPlain(m) /\ m.t = "presence"
  BY <1>1, <1>8 DEF OnPlain, sockVars, keyVars, m
<1>9. CASE OnPlain(m) /\ m.t \notin {"ack", "ok", "presence"}
  <2>1. m.t \in {"busy", "authfail"} \/ Answer(m) \/ Ignore
    BY <1>9 DEF OnPlain
  <2>2. CASE m.t \in {"busy", "authfail"}
    BY <1>4, <1>9, <2>2 DEF OnPlain
  <2>3. CASE Answer(m) \/ Ignore
    BY <1>1, <1>9, <2>3 DEF Answer, Ignore, webVars, sockVars, pageVars, keyVars, m
  <2> QED BY <2>1, <2>2, <2>3
<1> QED BY <1>3, <1>4, <1>5, <1>6, <1>7, <1>8, <1>9

LEMMA TalkDispatch ==
  ASSUME Typed, Alive, Talk, NEW i \in Slot, Dispatch(i)
  PROVE  Talk'
<1> DEFINE m == Head(down[ws])
           q == down[ws]
<1>1. ws \in Slot /\ q # << >> /\ q \in Seq(Given(served)) /\ down'[ws] = Tail(q)
      /\ m \in RelayFrame
  BY FrameKinds DEF Dispatch, Alive, OneSocket, Typed, WireType
<1>2. \A t : ~Has(q, t) => m.t # t /\ ~Has(Tail(q), t)
  BY <1>1, HasTail
<1>3. \A t, n : LastIs(q, t, n) => LastIs(Tail(q), t, n) \/ (m.t = t /\ m.n = n /\ ~Has(Tail(q), t))
  BY <1>1, LastTail
<1>4. CASE sock'[ws'] # "open"
  BY <1>4, TalkAway
<1> HIDE DEF m, q
<1>5. CASE /\ UNCHANGED <<ws, sock, closed, half, seat, tunnel, crypto, token>>
           /\ m.t = "ack" /\ HasToken /\ priv' = ws /\ UNCHANGED <<key, status, online>>
  <2>1. Hailed'
    BY <1>5 DEF Hailed
  <2>2. KeyInv'
    BY <1>1, <1>2, <1>3, <1>5 DEF Talk, KeyInv, InTouch, HasToken, q
  <2>3. OfflineInv'
    BY <1>1, <1>2, <1>3, <1>5 DEF Talk, OfflineInv, InTouch, q
  <2> QED BY <2>1, <2>2, <2>3 DEF Talk
<1>6. CASE /\ UNCHANGED <<ws, sock, closed, half, seat, tunnel, crypto, token>>
           /\ m.t = "ack" /\ ~HasToken /\ UNCHANGED <<key, priv, online>>
  <2>1. Hailed' /\ KeyInv'
    BY <1>6 DEF Hailed, KeyInv, HasToken
  <2>2. OfflineInv'
    BY <1>1, <1>2, <1>3, <1>6 DEF Talk, OfflineInv, InTouch, q
  <2> QED BY <2>1, <2>2 DEF Talk
<1>7. CASE /\ UNCHANGED <<ws, sock, closed, half, seat, tunnel, crypto, token>>
           /\ m.t = "ok" /\ priv # Nobody /\ key' = <<priv, m.n>> /\ priv' = Nobody
           /\ UNCHANGED online
  <2>1. Hailed'
    BY <1>7 DEF Hailed
  <2>2. OfflineInv'
    BY <1>1, <1>2, <1>3, <1>7 DEF Talk, OfflineInv, InTouch, q
  <2>3. KeyInv'
    <3>1. SUFFICES ASSUME HasToken, InTouch, crypto # NoKey, crypto[1] = ws
                   PROVE  \/ LastIs(down'[ws], "ok", crypto[2])
                          \/ ~Has(down'[ws], "ok") /\ key' = crypto
      BY <1>7 DEF KeyInv, InTouch, HasToken
    <3>2. priv = ws
      BY <1>7, <3>1 DEF Talk, Hailed, InTouch, m
    <3>3. LastIs(q, "ok", crypto[2])
      BY <1>2, <1>7, <3>1 DEF Talk, KeyInv, q
    <3>4. crypto \in Viewer \X DaemonKey
      BY <3>1 DEF Typed, KeyType, Key
    <3>5. m.n = crypto[2] => key' = crypto
      BY <1>7, <3>1, <3>2, <3>4
    <3> QED BY <1>1, <1>3, <3>3, <3>5
  <2> QED BY <2>1, <2>2, <2>3 DEF Talk
<1>8. CASE /\ UNCHANGED <<ws, sock, closed, half, seat, tunnel, crypto, token>>
           /\ m.t = "presence" /\ online' = (m.n = 1) /\ UNCHANGED <<key, priv, status>>
  <2>1. Hailed'
    BY <1>8 DEF Talk, Hailed, HasToken, m
  <2>2. KeyInv'
    BY <1>1, <1>2, <1>3, <1>8 DEF Talk, KeyInv, InTouch, HasToken, q
  <2>3. OfflineInv'
    <3>1. SUFFICES ASSUME InTouch, ~tunnel
                   PROVE  \/ LastIs(down'[ws], "presence", 0)
                          \/ ~Has(down'[ws], "presence") /\ ~online'
      BY <1>8 DEF OfflineInv, InTouch
    <3>2. LastIs(q, "presence", 0)
      BY <1>2, <1>8, <3>1 DEF Talk, OfflineInv, q
    <3>3. m.n = 0 => ~online'
      <4>1. m.n = 0 => m.n # 1
        OBVIOUS
      <4>2. online' = (m.n = 1)
        BY <1>8
      <4> QED BY <4>1, <4>2
    <3> QED BY <1>1, <1>3, <3>2, <3>3
  <2> QED BY <2>1, <2>2, <2>3 DEF Talk
<1>9. CASE /\ UNCHANGED <<ws, sock, closed, half, seat, tunnel, crypto, token>>
           /\ m.t \notin {"ack", "ok", "presence"} /\ UNCHANGED <<key, priv, status, online>>
  <2>1. Hailed'
    BY <1>9 DEF Talk, Hailed, HasToken, m
  <2>2. KeyInv'
    BY <1>1, <1>2, <1>3, <1>9 DEF Talk, KeyInv, InTouch, HasToken, q
  <2>3. OfflineInv'
    BY <1>1, <1>2, <1>3, <1>9 DEF Talk, OfflineInv, InTouch, q
  <2> QED BY <2>1, <2>2, <2>3 DEF Talk
<1> QED BY <1>4, <1>5, <1>6, <1>7, <1>8, <1>9, DispatchKinds DEF m

LEMMA TalkRelayRead ==
  ASSUME Typed, Slots, Talk, NEW i \in Slot, RelayRead(i)
  PROVE  Talk'
<1> DEFINE f == Head(up[i])
<1>1. /\ i \notin half /\ up[i] # << >>
      /\ UNCHANGED <<ws, sock, closed, status, online, key, priv, half, tunnel, crypto, token>>
  BY DEF RelayRead, webVars, sockVars, pageVars, keyVars
<1>2. ws \in Slot
  BY DEF Typed, SockType
<1>3. ASSUME seat' = ws => seat = ws,
             \/ down'[ws] = down[ws]
             \/ \E g : g.t \notin {"ok", "presence"} /\ down'[ws] = Append(down[ws], g)
      PROVE  Talk'
  <2>1. Near
    BY <1>1, <1>3 DEF Near, HasToken
  <2> QED BY <1>1, <1>3, <2>1, TalkKept
<1>4. CASE f.t = "hello" /\ RelayHello(i)
  <2>1. CASE i = ws
    <3>1. 1 \in 1..Len(up[i]) /\ up[i][1] = f
      BY <1>1, WireFacts, TailAt
    <3>2. srv[ws] = "none" /\ down[ws] = << >> /\ (closed = "no" => status # "ready")
      BY <1>2, <1>4, <2>1, <3>1 DEF Slots, SlotInv
    <3>3. seat # ws
      BY <1>2, <3>2 DEF Slots, SlotInv
    <3>4. CASE ~tunnel \/ seat # Nobody
      BY <1>1, <1>4, <3>3, <3>4, TalkAway DEF RelayHello
    <3>5. CASE tunnel /\ seat = Nobody
      <4>1. down'[ws] = Append(down[ws], Plain("ack"))
        BY <1>1, <1>2, <1>4, <2>1, <3>5, TellAt DEF RelayHello
      <4>2. /\ Len(down[ws]) = 0 /\ Len(down'[ws]) = Len(down[ws]) + 1
            /\ down'[ws][Len(down[ws]) + 1] = Plain("ack")
        BY <1>2, <3>2, <4>1, WireFacts, AppendAt
      <4>3. Len(down'[ws]) = 1 /\ down'[ws][1] = Plain("ack")
        BY <4>2
      <4>4. Plain("ack").t = "ack"
        BY DEF Plain, Frame
      <4>5. down'[ws] # << >> /\ Head(down'[ws]).t = "ack" /\ ~Has(down'[ws], "ok")
        BY <4>3, <4>4 DEF Has
      <4>6. Hailed' /\ KeyInv'
        BY <1>1, <3>2, <4>5 DEF Hailed, KeyInv, InTouch, HasToken
      <4>7. OfflineInv'
        BY <1>1, <3>5 DEF OfflineInv
      <4> QED BY <4>6, <4>7 DEF Talk
    <3> QED BY <3>4, <3>5
  <2>2. CASE i # ws
    <3>1. down'[ws] = down[ws]
      BY <1>2, <1>4, <2>2, TellAt DEF RelayHello
    <3>2. seat' = ws => seat = ws
      BY <1>4, <2>2 DEF RelayHello
    <3> QED BY <1>3, <3>1, <3>2
  <2> QED BY <2>1, <2>2
<1>5. CASE Forward(i, f)
  <2>1. seat' = seat
    BY <1>5 DEF Forward, relayVars
  <2>2. Plain("error").t \notin {"ok", "presence"}
    BY DEF Plain, Frame
  <2>3. \/ down'[ws] = down[ws] \/ down'[ws] = Append(down[ws], Plain("error"))
    BY <1>2, <1>5, TellAt DEF Forward
  <2> QED BY <1>3, <2>1, <2>2, <2>3
<1> QED BY <1>4, <1>5 DEF RelayRead

LEMMA TalkRelayDrop ==
  ASSUME Typed, Talk, NEW i \in Slot, RelayDrop(i)
  PROVE  Talk'
<1>1. /\ UNCHANGED <<ws, sock, closed, status, online, key, priv, half, tunnel, crypto, token>>
      /\ seat' = (IF seat = i THEN Nobody ELSE seat) /\ ws \in Slot /\ ws # Nobody
      /\ ws # i => down'[ws] = down[ws]
  BY NamesAssumption
     DEF RelayDrop, webVars, sockVars, pageVars, keyVars, daemonVars, Typed, SockType, WireType
<1>2. CASE i = ws
  BY <1>1, <1>2, TalkAway
<1>3. CASE i # ws
  <2>1. Near
    BY <1>1 DEF Near, HasToken
  <2> QED BY <1>1, <1>3, <2>1, TalkKept
<1> QED BY <1>2, <1>3

LEMMA TalkProof ==
  ASSUME Typed, Talk, NEW m, OnProof(m),
         UNCHANGED <<webVars, half, relayVars, tunnel, token>>
  PROVE  Talk'
<1>1. /\ UNCHANGED <<ws, sock, closed, status, online, key, priv, seat>> /\ ws \in Slot
      /\ down[ws] \in Seq(Given(served))
  BY WireFacts DEF webVars, sockVars, pageVars, keyVars, relayVars, Typed, SockType
<1>2. Near
  BY <1>1 DEF Near, HasToken
<1>3. CASE crypto' = <<m.n, NewKey>> /\ down' = Tell(seat, Frame("ok", NewKey, NoKey))
  <2> DEFINE f == Frame("ok", NewKey, NoKey)
  <2>1. f.t = "ok" /\ f.n = NewKey
    BY DEF Frame
  <2>2. /\ down'[ws] = down[ws] \/ down'[ws] = Append(down[ws], f)
        /\ seat = ws /\ ws \notin half => down'[ws] = Append(down[ws], f)
    BY <1>1, <1>3, TellAt
  <2> HIDE DEF f
  <2>3. Hailed'
    BY <1>1, <1>2, <2>2, HailedKept DEF Talk
  <2>4. OfflineInv'
    BY <1>1, <1>2, <2>1, <2>2, OfflineKept DEF Talk, Grows
  <2>5. KeyInv'
    <3>1. crypto'[2] = f.n
      BY <1>3, <2>1
    <3>2. seat = ws /\ ws \notin half => LastIs(down'[ws], "ok", crypto'[2])
      BY <1>1, <2>1, <2>2, <3>1, LastNew
    <3> QED BY <1>1, <3>2 DEF KeyInv, InTouch
  <2> QED BY <2>3, <2>4, <2>5 DEF Talk
<1>4. CASE down' = Tell(seat, Plain("authfail")) /\ UNCHANGED crypto
  <2>1. Plain("authfail").t \notin {"ok", "presence"}
    BY DEF Plain, Frame
  <2>2. down'[ws] = down[ws] \/ down'[ws] = Append(down[ws], Plain("authfail"))
    BY <1>1, <1>4, TellAt
  <2> QED BY <1>1, <1>2, <1>4, <2>1, <2>2, TalkKept
<1> QED BY <1>3, <1>4 DEF OnProof

LEMMA TalkRequest ==
  ASSUME Typed, Talk, NEW m, OnRequest(m),
         UNCHANGED <<webVars, half, relayVars, tunnel, token>>
  PROVE  Talk'
<1>1. /\ UNCHANGED <<ws, sock, closed, status, online, key, priv, seat, crypto>> /\ ws \in Slot
  BY DEF webVars, sockVars, pageVars, keyVars, relayVars, OnRequest, Typed, SockType
<1>2. Near
  BY <1>1 DEF Near, HasToken
<1>3. /\ Plain("error").t \notin {"ok", "presence"}
      /\ Frame("resp", m.n, crypto).t \notin {"ok", "presence"}
  BY DEF Plain, Frame
<1>4. \/ down'[ws] = down[ws]
      \/ down'[ws] = Append(down[ws], Plain("error"))
      \/ down'[ws] = Append(down[ws], Frame("resp", m.n, crypto))
  BY <1>1, TellAt DEF OnRequest
<1> QED BY <1>1, <1>2, <1>3, <1>4, TalkKept

\* The tunnel goes and comes.
LEMMA TalkTunnel ==
  ASSUME Typed, Talk, TunnelDown \/ TunnelUp
  PROVE  Talk'
<1>1. /\ UNCHANGED <<ws, sock, closed, status, online, key, priv, seat, half, token>> /\ ws \in Slot
      /\ down[ws] \in Seq(Given(served))
  BY WireFacts DEF TunnelDown, TunnelUp, webVars, sockVars, pageVars, keyVars, relayVars, Typed, SockType
<1>2. Near
  BY <1>1 DEF Near, HasToken
<1>3. CASE TunnelDown
  <2> DEFINE f == Frame("presence", 0, NoKey)
  <2>1. f.t = "presence" /\ f.n = 0
    BY DEF Frame
  <2>2. /\ down'[ws] = down[ws] \/ down'[ws] = Append(down[ws], f)
        /\ seat = ws /\ ws \notin half => down'[ws] = Append(down[ws], f)
    BY <1>1, <1>3, TellAt DEF TunnelDown
  <2> HIDE DEF f
  <2>3. Hailed'
    BY <1>1, <1>2, <2>2, HailedKept DEF Talk
  <2>4. KeyInv'
    BY <1>3 DEF TunnelDown, KeyInv
  <2>5. seat = ws /\ ws \notin half => LastIs(down'[ws], "presence", 0)
    BY <1>1, <2>1, <2>2, LastNew
  <2>6. OfflineInv'
    BY <1>1, <2>5 DEF OfflineInv, InTouch
  <2> QED BY <2>3, <2>4, <2>6 DEF Talk
<1>4. CASE TunnelUp
  <2> DEFINE f == Frame("presence", 1, NoKey)
  <2>1. f.t # "ok"
    BY DEF Frame
  <2>2. down'[ws] = down[ws] \/ down'[ws] = Append(down[ws], f)
    BY <1>1, <1>4, TellAt DEF TunnelUp
  <2> HIDE DEF f
  <2>3. Hailed'
    BY <1>1, <1>2, <2>2, HailedKept DEF Talk
  <2>4. KeyInv'
    BY <1>1, <1>2, <1>4, <2>1, <2>2, KeyKept DEF Talk, Grows, TunnelUp
  <2>5. OfflineInv'
    BY <1>4 DEF TunnelUp, OfflineInv
  <2> QED BY <2>3, <2>4, <2>5 DEF Talk
<1> QED BY <1>3, <1>4

\* Steps that say nothing to the page.
LEMMA TalkQuiet ==
  ASSUME Typed, Talk,
         UNCHANGED <<ws, sock, closed, status, online, key, priv, down, tunnel, crypto>>,
         token' = token \/ token = "valid", ws \in half => ws \in half', seat' = ws => seat = ws
  PROVE  Talk'
<1>1. Near
  BY DEF Near, HasToken
<1> QED BY <1>1, TalkKept

LEMMA TalkStep ==
  ASSUME Typed, Alive, Slots, Talk, [Next]_vars
  PROVE  Talk'
<1> USE DEF webVars, sockVars, pageVars, keyVars, relayVars, daemonVars
<1>0. ws \in Slot /\ ws # Nobody /\ ws # Other
  BY NamesAssumption DEF Typed, SockType
<1>1. CASE Retry
  <2>1. CASE MayConnect
    BY <1>1, <2>1, TalkNewSocket DEF Retry, Typed, SockType
  <2>2. CASE ~MayConnect
    BY <1>1, <2>2, TalkQuiet DEF Retry
  <2> QED BY <2>1, <2>2
<1>2. CASE Visible
  BY <1>2, TalkNewSocket DEF Visible, Typed, SockType
<1>3. CASE ManualReconnect
  <2> DEFINE s == IF sock[ws] = "closed" THEN sock ELSE [sock EXCEPT ![ws] = "closing"]
  <2>1. s \in [Slot -> {"connecting", "open", "closing", "closed"}] /\ NewSocket(s)
    BY <1>3 DEF ManualReconnect, Typed, SockType
  <2> HIDE DEF s
  <2> QED BY <2>1, TalkNewSocket
<1>4. CASE Leave
  <2>1. ws' = ws /\ sock'[ws] # "open"
    BY <1>0, <1>4 DEF Leave, Typed, SockType
  <2> QED BY <2>1, TalkAway
<1>5. CASE Request
  BY <1>5, TalkQuiet DEF Request
<1>6. ASSUME NEW i \in Slot, SockOpen(i) PROVE Talk'
  <2>1. i = ws /\ seat # ws /\ UNCHANGED <<ws, seat>>
    BY <1>0, <1>6 DEF SockOpen, Alive, OneSocket, Slots, SlotInv
  <2> QED BY <2>1, TalkAway
<1>7. ASSUME NEW i \in Slot, SockGone(i) \/ NetLoss(i) PROVE Talk'
  BY <1>7, TalkOnClose DEF SockGone, NetLoss
<1>8. ASSUME NEW i \in Slot, HalfOpen(i) PROVE Talk'
  BY <1>8, TalkQuiet DEF HalfOpen
<1>9. CASE DaemonRecv
  BY <1>9, TalkProof, TalkRequest DEF DaemonRecv
<1>10. CASE KickOrder
  <2>1. ws' = ws /\ seat' # ws
    BY <1>0, <1>10 DEF KickOrder
  <2> QED BY <2>1, TalkAway
<1>11. CASE OtherJoin \/ OtherLeave \/ ChangeToken
  BY <1>0, <1>11, TalkQuiet DEF OtherJoin, OtherLeave, ChangeToken
<1>12. CASE HostEvent
  <2>1. UNCHANGED <<ws, sock, closed, status, online, key, priv, tunnel, crypto, token, half, seat>>
    BY <1>12 DEF HostEvent
  <2>2. Near
    BY <2>1 DEF Near, HasToken
  <2>3. Frame("event", 0, crypto).t \notin {"ok", "presence"}
    BY DEF Frame
  <2>4. down'[ws] = down[ws] \/ down'[ws] = Append(down[ws], Frame("event", 0, crypto))
    BY <1>0, <1>12, TellAt DEF HostEvent
  <2> QED BY <2>1, <2>2, <2>3, <2>4, TalkKept
<1>13. CASE UNCHANGED vars
  BY <1>13, TalkQuiet DEF vars
<1> QED BY <1>1, <1>2, <1>3, <1>4, <1>5, <1>6, <1>7, <1>8, <1>9, <1>10, <1>11, <1>12, <1>13,
        TalkDispatch, TalkRelayRead, TalkRelayDrop, TalkTunnel
        DEF Next, Socket, Disturb, Kick, KickEarly

LEMMA TalkInit ==
  ASSUME Init
  PROVE  Slots /\ Talk
<1>1. seat # ws /\ \A i \in Slot : seat # i
  BY NamesAssumption DEF Init
<1>2. \A i \in Slot : srv[i] = "none" /\ up[i] = << >> /\ down[i] = << >>
  BY DEF Init
<1>3. ASSUME NEW i \in Slot PROVE SlotInv(i)
  <2>1. \A j \in 1..Len(up[i]) : FALSE
    BY <1>2
  <2> QED BY <1>1, <1>2, <2>1 DEF SlotInv
<1>4. Talk
  BY <1>1 DEF Talk, Hailed, KeyInv, OfflineInv, InTouch
<1> QED BY <1>3, <1>4 DEF Slots

LEMMA TalkHolds == Spec => [](Typed /\ Alive /\ Slots /\ Talk)
BY TypedInit, TypedStep, AliveInit, AliveStep, TalkInit, SlotsStep, TalkStep, PTL DEF Spec

\* A page whose queue is read has nothing more to learn.
LEMMA NothingMore ==
  ASSUME NEW t, NEW n
  PROVE  ~LastIs(<< >>, t, n)
BY DEF LastIs

\* Whoever proved what before, over every reconnection, kick and restart: a page in the
\* seat that shows ready and a daemon whose key comes from this connection's proof agree on
\* the key once both have read everything (relay_client.rs:163-164, e2e.ts:48-65).
THEOREM KeysDoAgree == Spec => []KeysAgree
<1>1. Typed /\ Alive /\ Slots /\ Talk => KeysAgree
  <2>1. SUFFICES ASSUME Typed, Alive, Talk, HasToken, closed = "no", status = "ready", seat = ws,
                        crypto # NoKey, crypto[1] = ws, BothRead
                 PROVE  key = crypto
    BY DEF KeysAgree
  <2>2. sock[ws] = "open" /\ down[ws] = << >> /\ ws \notin half
    BY <2>1 DEF Alive, NeverStranded, BothRead
  <2>3. ~LastIs(down[ws], "ok", crypto[2])
    BY <2>2, NothingMore
  <2> QED BY <2>1, <2>2, <2>3 DEF Talk, KeyInv, InTouch
<1> QED BY <1>1, TalkHolds, PTL

\* A page in the seat that has read what the room told it shows a device that has gone
\* offline as offline, over every reconnection of either side (TerminalApp.tsx:286, 294;
\* hub.go:103, 122).
THEOREM OfflineIsKnown == Spec => []OfflineIsShown
<1>1. Typed /\ Alive /\ Slots /\ Talk => OfflineIsShown
  <2>1. SUFFICES ASSUME Typed, Alive, Talk, closed = "no", status = "ready", seat = ws,
                        down[ws] = << >>, ws \notin half, ~tunnel
                 PROVE  Badge = "offline"
    BY DEF OfflineIsShown
  <2>2. sock[ws] = "open"
    BY <2>1 DEF Alive, NeverStranded
  <2>3. ~LastIs(down[ws], "presence", 0)
    BY <2>1, NothingMore
  <2> QED BY <2>1, <2>2, <2>3 DEF Talk, OfflineInv, InTouch, Badge
<1> QED BY <1>1, TalkHolds, PTL
=============================================================================
